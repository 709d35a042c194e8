SPECIFICATION FairSpec
CONSTANTS
  Prompts = 2
  Slash = {}
  Task = {j1}
  Delegation = {d1}
  MaxClear = 1
INVARIANTS TypeOK PromptsKept
PROPERTIES ToldOnce Reported
CONSTRAINT MCScenarios
CHECK_DEADLOCK FALSE
