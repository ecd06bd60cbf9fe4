CONSTANTS
  us = us
  fr = fr
  de = de
  anthy = anthy
  pinyin = pinyin
  passthrough = passthrough
  Layouts <- MCLayouts
  KnownLayouts <- MCLayouts
  Engines <- MCEngines
  EngineLayout <- MCEngineLayout
  NoEngine = NoEngine
  NoLayout = NoLayout
  MaxLayouts = 3
  DefaultEngine = passthrough
  NoConfig = NoConfig
  LocaleSources <- MCLocaleSources

  Lists <- MCSimpleLists

SPECIFICATION Spec

PROPERTY ImplementsList
