\* The 256th interface of the applications loaded since the daemon started.
CONSTANTS
  Paths = {"tcp"}
  Delay = 1
  Cap = 1
  ItfId = 256
  MaxPkts = 1
  MaxTs = 1
SPECIFICATION Spec
INVARIANTS NotTakenForIdent
CHECK_DEADLOCK FALSE
