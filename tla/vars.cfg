\* Two objects, two variables, memory for one log and one variable more.
CONSTANTS
  NofSlots = 3
  Objs = {a, b}
  MaxVars = 2
  Sizes <- TwoForLogs
  MaxCalls = 3
  MaxFaults = 1
SPECIFICATION FairSpec
INVARIANTS TypeOK OwnMemory
PROPERTIES Served
CHECK_DEADLOCK FALSE
