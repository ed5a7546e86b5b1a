SPECIFICATION Spec
CONSTANTS
  Threads = {t1, t2}
  Readers = {t1}
  Writers = {t2}
  WritesInFlight = 1
  WriteCounts = {1}
  MaxStale = 1
  MaxExtraUps = 1
INVARIANT ResetNotificationKept
