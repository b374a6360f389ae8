\* One object in one slot, every command, fields of a copy read late.
CONSTANTS
  Ids = {a}
  None = None
  NSlots = 1
  Limit = 1
  MaxAhead = 1
  CmdStatuses = {2, 3, 4, 5, 6, 7}
  Tears <- ForwardTears
  SlowStart = FALSE
SPECIFICATION FairSpec
INVARIANTS TypeOK SettledIsQuiet AdoptionIsDue
PROPERTIES NotBeforeTslot OkIsTrue ExitIsConfirmed
  ClosingEnds ChangeEnds DeathIsReported DeadIsRemoved
