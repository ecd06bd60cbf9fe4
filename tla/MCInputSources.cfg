CONSTANTS
  us = us
  fr = fr
  anthy = anthy
  pinyin = pinyin
  passthrough = passthrough
  Layouts <- MCLayouts
  KnownLayouts <- MCLayouts
  Engines <- MCEngines
  EngineLayout <- MCEngineLayout
  NoEngine = NoEngine
  NoLayout = NoLayout
  MaxLayouts = 3
  DefaultEngine = passthrough
  NoConfig = NoConfig
  LocaleSources <- MCLocaleSources
  Installed <- MCInstalled
  Configs <- MCConfigs
  SystemConfigs <- MCSystemConfigs
  NoSource = NoSource
  Happens = {"select", "cycle", "configure", "locales", "session", "localed", "lock", "daemon", "restart", "engine"}
  MaxEvents = 3

SPECIFICATION FairSpec
CHECK_DEADLOCK FALSE

INVARIANTS
  TypeOK
  SelectionInBounds
  PublishedOrPending
  KeymapFollowsSelection
PROPERTIES
  LockedKeymapKept
  OverrideHolds
  DBusCatchesUp
  EngineManagerLoads
