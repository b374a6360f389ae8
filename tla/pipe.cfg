\* Three objects on a core, launched in any order, dying at any time.
CONSTANTS
  N = 3
  MaxTokens = 2
  LateLoad = TRUE
SPECIFICATION FairSpec
INVARIANTS TypeOK PositionsAreDense OrderIsKept
PROPERTIES TurnComes
