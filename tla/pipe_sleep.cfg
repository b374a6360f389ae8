CONSTANTS
  N = 3
  MaxTokens = 2
  LateLoad = FALSE
SPECIFICATION FairSpec
PROPERTIES SleepEnds
