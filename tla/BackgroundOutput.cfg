SPECIFICATION OutputSpec
CONSTANTS
  Reader = {r1, r2}
  Limit = 2
  Logs <- MCLogs
SYMMETRY MCSymmetry
INVARIANTS OutputTypeOK Faithful
PROPERTIES SettledReadsAdvance
CHECK_DEADLOCK FALSE
