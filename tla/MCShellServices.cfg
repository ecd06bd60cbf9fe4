CONSTANTS
  app = app
  helper = helper
  first = first
  second = second
  Clients = {app, helper}
  Keys = {brightness, volume}
  MaxGrabs = 2
  Calls = {first, second}
  Files = {one, two}
  None = None
  Caller <- MCCaller

SPECIFICATION FairSpec

INVARIANTS
  TypeOK
  GrabsAccounted
PROPERTIES
  GrabsLast
  WritesItsFileOnce
  AnsweredInTheEnd

\* A compositor that has dereferenced NULL does nothing any more.
CHECK_DEADLOCK FALSE
