SPECIFICATION FairSpec
CONSTANTS
  n1 = n1
  n2 = n2
  Sub = {s1}
  Node = {n1, n2}
  Cap = 2
INVARIANTS TypeOK NoConcurrentOverlap
PROPERTIES CancellationIsHonest ShutdownEnds
CONSTRAINT MCOriented
CHECK_DEADLOCK FALSE
