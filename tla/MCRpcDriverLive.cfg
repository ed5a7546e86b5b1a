SPECIFICATION FairSpec
CONSTANTS
  Threads = {t1, t2}
  Readers = {t1}
  Writers = {t2}
  WritesInFlight = 1
  WriteCounts = {1}
  MaxStale = 0
  MaxExtraUps = 0
PROPERTIES
  ReadReturns
  DisconnectEnds
  ResetEnds
