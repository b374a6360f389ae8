\* Four PEs, every platform.
CONSTANTS
  r = r  a = a  b = b  c = c
  PE = {r, a, b, c}
  Root = r
  Trees <- AllTrees
SPECIFICATION FairSpec
INVARIANTS TypeOK UniqueIds Routable
PROPERTY AllKnown
CHECK_DEADLOCK FALSE
