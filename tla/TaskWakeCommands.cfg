SPECIFICATION WakeSpec
CONSTANTS
  Prompts = 3
  Slash = {2, 3}
  Task = {}
  Delegation = {d1}
  MaxClear = 1
PROPERTIES KeptInOrder OverlapHasCause
CHECK_DEADLOCK FALSE
