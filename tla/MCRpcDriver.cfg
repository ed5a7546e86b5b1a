SPECIFICATION Spec
CONSTANTS
  Threads = {t1, t2}
  Readers = {t1, t2}
  Writers = {t1, t2}
  WritesInFlight = 1
  WriteCounts = {1, 2}
  MaxStale = 1
  MaxExtraUps = 1
SYMMETRY Sym
PROPERTY LifetimeSpec
INVARIANTS
  TypeOK
  CallsOnLiveDevice
  NoIoAfterDisconnect
  QuietDuringReset
  QuietWhileSuspended
  PmBalanced
  SlotsNotLost
  NoDuplicateReport
  NoDeadlock
