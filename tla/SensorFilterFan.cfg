SPECIFICATION Spec
CONSTANTS
  FlowTicks <- MCFlowTicks
  FanTicks <- MCFanTicks
  Conversions <- MCFewConversions
PROPERTY FanSampleIsSpeed
