\* Three objects that use one entry after another, run and stop commands and failures.
CONSTANTS
  Ids = {a, b, c}
  None = None
  NSlots = 1
  Limit = 0
  MaxAhead = 0
  CmdStatuses = {3, 6}
  Tears <- NoTears
  SlowStart = FALSE
SYMMETRY IdSymmetry
SPECIFICATION Spec
INVARIANTS PublishedIsVisible
PROPERTIES ExitIsConfirmed
