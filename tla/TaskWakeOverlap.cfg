SPECIFICATION WakeSpec
CONSTANTS
  Prompts = 2
  Slash = {1, 2}
  Task = {j1}
  Delegation = {}
  MaxClear = 0
PROPERTIES OverlapNeedsOldRender
CHECK_DEADLOCK FALSE
