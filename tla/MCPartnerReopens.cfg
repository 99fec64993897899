SPECIFICATION ProbeSpec
CONSTANTS
  g1 = g1
  p1 = p1
  p2 = p2
  Calls <- MCCalls
  Idempotent <- MCIdempotent
  Configured <- MCCalls
  Attempts = 2
  Threshold = 1
  ResetTicks = 2
PROPERTIES FailedProbeReopens
CHECK_DEADLOCK FALSE
