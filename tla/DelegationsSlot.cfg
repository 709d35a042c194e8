SPECIFICATION Spec
CONSTANTS
  Sub = {s1}
  Node = {n1, n2}
  Cap = 2
INVARIANTS EverySlotFreed
CHECK_DEADLOCK FALSE
