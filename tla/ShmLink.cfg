\* The ends come up in any order; the ring is gone round and gets full.
CONSTANTS
  hub = hub  gui = gui  Nobody = Nobody  None = None
  Ends = {hub, gui}
  Slots = 3
  HubLimit = 4  GuiLimit = 1
  SendLimit <- Limit
SPECIFICATION FairSpec
INVARIANTS TypeOK
PROPERTIES IsFifo Arrives
CHECK_DEADLOCK FALSE
