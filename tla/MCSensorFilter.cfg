SPECIFICATION Spec
CONSTANTS
  FlowTicks <- MCFlowTicks
  FanTicks <- MCFanTicks
  Conversions <- MCConversions
INVARIANTS
  TypeOK
  FilterFits
PROPERTIES
  FilterConverges
  SamplesAreSpeeds
  TemperatureFalls
