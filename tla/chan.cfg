\* Three packets over each path.
CONSTANTS
  Paths = {"local", "tcp", "udp"}
  Delay = 1
  Cap = 2
  ItfId = 1
  MaxPkts = 3
  MaxTs = 1
SPECIFICATION FairSpec
INVARIANTS TypeOK NoneStranded
PROPERTIES IsTimedChannel Drained ReadInTime
CHECK_DEADLOCK FALSE
