SPECIFICATION WakeSpec
CONSTANTS
  Prompts = 3
  Slash = {}
  Task = {}
  Delegation = {}
  MaxClear = 0
INVARIANTS OneTurnAtATime
CHECK_DEADLOCK FALSE
