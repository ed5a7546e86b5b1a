SPECIFICATION FairSpec
CONSTANTS
  Requests <- MCRequests
  Packets = 2
INVARIANTS
  TypeOK
  StallJustified
  Awake
  NoForeignPacket
  AcknowledgedIsDone
  AddressAgreed
  SpeedOncePerTurn
PROPERTIES
  ControlTransferSpec
  SpeedFromHost
  MainComesBack
  PromptRequestsEnd
  ResetRevives
