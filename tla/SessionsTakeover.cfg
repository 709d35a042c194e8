SPECIFICATION TakeoverSpec
CONSTANTS
  Proc = {p1, p2}
  Remote = {}
  MaxId = 2
INVARIANT TakeoverHasOneHolder
CHECK_DEADLOCK FALSE
