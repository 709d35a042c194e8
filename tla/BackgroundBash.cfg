SPECIFICATION FairSpec
CONSTANT Task = {b1, b2}
INVARIANTS TypeOK GroupsAccounted
PROPERTIES StopPrecedence JobSpec Settles
CHECK_DEADLOCK FALSE
