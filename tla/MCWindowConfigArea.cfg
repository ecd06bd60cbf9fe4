CONSTANTS
  panel = panel
  app = app
  builtin = builtin
  external = external
  Windows = {panel, app}
  InitialType <- MCInitialType
  Rigid = {}
  Layouts <- MCLayouts
  Places <- MCPlaces
  Reach = 1
  MaxEvents = 3
  Configs <- MCAreaConfigs
  SystemFile = Unreadable
  Unreadable = Unreadable
  Invalid = Invalid
  Nowhere = Nowhere

SPECIFICATION Spec

INVARIANT
  AreaLeavesShown

\* When all windows have gone and nothing happens outside, there is nothing left to do.
CHECK_DEADLOCK FALSE
