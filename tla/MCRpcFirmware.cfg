SPECIFICATION FairSpec
CONSTANTS
  Speeds <- MCSpeeds
  Connected = {"fan"}
INVARIANTS
  TypeOK
  SpeedApplied
  SampleUsedOnce
PROPERTIES
  FanControlSpec
  StopReachesHost
  SpeedReachesHost
