SPECIFICATION Spec
CONSTANTS
  Threads = {t1, t2}
  Readers = {}
  Writers = {t1, t2}
  WritesInFlight = 1
  WriteCounts = {1, 2}
  MaxStale = 1
  MaxExtraUps = 1
INVARIANT WritesLimited
