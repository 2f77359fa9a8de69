\* Two hops, the first of them doubled; two failures, of any link.  A link that
\* is stubborn may lose the packet it failed to send.
CONSTANTS
  a = a  b = b  c = c  big = big  small = small
  near = near  also = also  far = far  Idle = Idle
  Nodes = {a, b, c}
  Msgs = {big, small}
  From <- Starts
  To <- Ends
  Frags <- Sizes
  Links = {near, also, far}
  Src <- Heads
  Dst <- Tails
  Vias <- LineVias
  Stubborn = {near}
  FailLimit = 2
SPECIFICATION FairSpec
INVARIANTS TypeOK Conserved
PROPERTIES IsDelivery Arrives
CHECK_DEADLOCK FALSE
