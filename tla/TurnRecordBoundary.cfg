CONSTANTS
  a1 = a1
  a2 = a2
  a3 = a3
  b1 = b1
  ka = ka
  kb = kb
  Fact <- MCFact
  Key <- MCKey
  KeyOf <- MCKeyOf
  MaxLines = 7
  Budgets <- MCBudgets
  Elsewhere = FALSE
  None = None
SPECIFICATION Spec
INVARIANTS BoundaryIsOwn
CHECK_DEADLOCK FALSE
