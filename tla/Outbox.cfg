CONSTANTS
  p1 = p1
  p2 = p2
  Proc = {p1, p2}
  Turn <- MCTurn
  Owner <- MCOwner
  MaxAttempts = 3
  DailyEvents = 3
  Budgets <- MCBudgets
  None = None
SPECIFICATION Spec
INVARIANTS TypeOK PaidInAdvance PassEarned
PROPERTIES LawfulSends
CHECK_DEADLOCK FALSE
