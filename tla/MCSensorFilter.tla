--------------------------- MODULE MCSensorFilter ---------------------------
(* Timer values at the borders of what the workers accept, and values that  *)
(* only a division by zero or the cast to 16 bits makes special.            *)
EXTENDS SensorFilter

MCFlowTicks ==
  {0, 1, 27, 54, 55, 3599, 3600, 3601, 7200, 35999, 36000, 36001, 65535}
MCFanTicks ==
  {0, 1, 19, 54, 56, 57, 1874, 1875, 1876, 2500, 12499, 12500, 12501, 65535}
MCConversions == 0..1023
\* For the run that follows the fan only.
MCFewConversions == {0, 511, 512, 1023}
=============================================================================
