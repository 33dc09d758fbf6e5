SPECIFICATION RaFairSpec
CONSTANTS
  MaxAttempts = 3
  MaxBreaks = 1
  Prompt <- MCPrompt
INVARIANTS
  RaTypeOK
  OwnDirectory
  RunningReachable
  KillAllThorough
PROPERTIES
  KillAllReturns
CHECK_DEADLOCK FALSE
