CONSTANTS
  editor = editor
  main = main
  dialog = dialog
  second = second
  Windows = {main, dialog, second}
  Desktop = {editor}
  NoApp = NoApp
  NoWindow = NoWindow
  Profile <- MCProfile
  Unknown = 0
  Wrap = 16

SPECIFICATION Spec

INVARIANTS
  TypeOK
  OwnedOnce
  Tallied
PROPERTIES
  
  FocusKept
