SPECIFICATION Spec
CONSTANTS
  Threads = {t1, t2}
  Readers = {t1, t2}
  Writers = {}
  WritesInFlight = 1
  WriteCounts = {}
  MaxStale = 1
  MaxExtraUps = 1
INVARIANT UrbLeftAlone
