CONSTANTS
  a = a
  b = b
  c3 = c3
  Calls <- MCCalls
  Cost <- MCCost
  MaxCost = 2
  Ceiling = 2
  Enforced = TRUE
  Faults = FALSE
  MaxMonth = 2
CHECK_DEADLOCK FALSE
SPECIFICATION Spec
PROPERTIES MeterFallsOnlyAtRollover
