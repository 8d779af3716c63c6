SPECIFICATION FairSpec
CONSTANTS
  MaxTraps = 4
  MaxDeaths = 2
  MaxIncoming = 2
  Jobs = {j1, j2, j3}
  Scripts <- Sessions
  Traps = {"Trap"}
  NamesPerMessage = 2
CHECK_DEADLOCK FALSE
INVARIANTS
  TypesOK
  FreezesAwaited
  DeathsOneToOne
  LaunchWhole
  ReportsTruthful
  AnnouncedFaithfully
PROPERTIES
  EveryWindowCloses
  LaterDeathStillSends
  PendingResolved
  ClosedClientExits
  ReportsArrive
