SPECIFICATION Spec
CONSTANTS
  Requests <- MCRequests
  Packets = 2
INVARIANT ConfiguredIsConfigured
