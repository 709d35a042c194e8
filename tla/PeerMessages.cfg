CONSTANTS
  a = a
  b = b
  Session = {a, b}
  Planners = {a}
  Id <- MCId
  Chain <- MCChain
  MaxHops = 1
  HumanSends = 2
  PeerSends = 1
  MaxQueue = 2
  MaxAdmissions = 2
  MaxResends = 1
  Budgets <- MCBudgets
  None = None
SPECIFICATION FairSpec
INVARIANTS TypeOK CausalLimits
PROPERTIES NothingVoidRuns NeverForever DeliverySpec
CHECK_DEADLOCK FALSE
