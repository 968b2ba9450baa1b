\* Calls at any moment, some without an answer.
CONSTANTS
  Limit = 2
  Window = 3
  Outages = {"redis"}
  Horizon = 8
  CallBound = 5
SPECIFICATION LimiterSpec
INVARIANTS AtMostLimit QuietCallerAllowed
CHECK_DEADLOCK FALSE
