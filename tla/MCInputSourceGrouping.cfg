CONSTANTS
  us = us
  fr = fr
  bogus = bogus
  anthy = anthy
  pinyin = pinyin
  Layouts <- MCLayouts
  KnownLayouts <- MCKnownLayouts
  Engines <- MCEngines
  EngineLayout <- MCEngineLayout
  NoEngine = NoEngine
  NoLayout = NoLayout
  MaxLayouts = 3
  MaxSources = 6

SPECIFICATION GroupingSpec

INVARIANTS
  NothingLost
  Packed

\* A configuration ends after MaxSources sources.
CHECK_DEADLOCK FALSE
