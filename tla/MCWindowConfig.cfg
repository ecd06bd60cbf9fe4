CONSTANTS
  panel = panel
  app = app
  builtin = builtin
  external = external
  Windows = {panel, app}
  InitialType <- MCInitialType
  Rigid = {}
  Layouts <- MCLayouts
  Places <- MCPlaces
  Reach = 1
  MaxEvents = 3
  Configs <- MCConfigs
  SystemFile = Unreadable
  Unreadable = Unreadable
  Invalid = Invalid
  Nowhere = Nowhere

SPECIFICATION Spec

INVARIANTS
  TypeOK
  StrutsCurrent
PROPERTIES
  ConstraintsGo
  HiddenWhileAway
  LocksHold

\* When all windows have gone and nothing happens outside, there is nothing left to do.
CHECK_DEADLOCK FALSE
