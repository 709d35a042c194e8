SPECIFICATION OutputFairSpec
CONSTANTS
  Reader = {r1, r2}
  Limit = 1
  Logs <- MCShortLogs
PROPERTY WaitReturns
CHECK_DEADLOCK FALSE
