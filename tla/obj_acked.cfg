CONSTANTS
  Ids = {a, b}
  None = None
  NSlots = 1
  Limit = 0
  MaxAhead = 0
  CmdStatuses = {3, 6}
  Tears <- NoTears
  SlowStart = FALSE
SPECIFICATION Spec
PROPERTIES AckedIsReported
