SPECIFICATION Spec
CONSTANTS
  Sub = {s1}
  Node = {n1, n2}
  Cap = 2
PROPERTIES WithdrawnNeverInvoked
CHECK_DEADLOCK FALSE
