CONSTANTS
  a = a
  b = b
  c3 = c3
  Calls <- MCCalls
  Cost <- MCCost
  MaxCost = 2
  Ceiling = 2
  Enforced = TRUE
  Faults = TRUE
  MaxMonth = 1
CHECK_DEADLOCK FALSE
SPECIFICATION FairSpec
INVARIANTS OvershootBounded MeteredIsLogged
PROPERTIES RefusedForThisMonth AnsweredIsMetered
