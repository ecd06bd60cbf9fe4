CONSTANTS
  Monitors = {builtin, external}

SPECIFICATION FairSpec

INVARIANTS
  TypeOK
  Shielded
  EarlierTimerEnds
PROPERTIES
  OnlyUnlocking
  LocksInTheEnd
  GoneInTheEnd
  AnnouncedInTheEnd
