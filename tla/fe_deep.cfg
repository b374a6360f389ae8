\* Two sons of a FRONT-END that is not the top one.
CONSTANTS
  r = r  a = a  b = b  c = c
  PE = {r, a, b, c}
  Root = r
  Trees <- OnlyFork
SPECIFICATION Spec
INVARIANT AssignedIds
CHECK_DEADLOCK FALSE
