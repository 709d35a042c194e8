SPECIFICATION Spec
CONSTANTS
  Proc = {p1, p2}
  Remote = {p2}
  MaxId = 2
INVARIANTS TypeOK ExclusiveUnlessRaced LeaseIsTruthful
CHECK_DEADLOCK FALSE
