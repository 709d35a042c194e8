SPECIFICATION WakeSpec
CONSTANTS
  Prompts = 1
  Slash = {}
  Task = {j1}
  Delegation = {}
  MaxClear = 1
INVARIANTS NothingStranded
CHECK_DEADLOCK FALSE
