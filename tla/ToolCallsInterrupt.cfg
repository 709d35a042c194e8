CONSTANTS
  c1 = c1
  c2 = c2
  c3 = c3
  Call = {c1, c2, c3}
  Batches <- MCBatches
  Rewrites = {"stray", "banned", "control"}
  MaxRestarts = 2
  None = None
SPECIFICATION Spec
INVARIANT InterruptLeavesNoPrompt
