SPECIFICATION FairSpec
CONSTANTS
  b1 = b1
  w1 = w1
  w2 = w2
  Buttons = {b1}
  Wheels = {w1, w2}
  Turns <- MCTurns
  Together <- MCTogether
INVARIANTS
  TypeOK
  WheelExact
  HostInSync
PROPERTY HostSettles
