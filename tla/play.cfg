SPECIFICATION FairSpec
CONSTANTS
  Rows <- MCRows
  Keys <- MCKeys
  MsgWaiting = TRUE
  Users = {"controller", "waiter"}
  Waiters = {"waiter"}
  Steps = {1}
  Offsets = {0, 2}
  Patterns <- MCPatterns
  MaxChoices = 1
  MaxCalls = 3
  Horizon = 2
INVARIANTS AtMostOneLate
PROPERTIES StepIsExact ResumePlays CallsReturn
CHECK_DEADLOCK FALSE
