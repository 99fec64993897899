SPECIFICATION FairSpec
CONSTANTS
  g1 = g1
  g2 = g2
  p1 = p1
  p2 = p2
  Calls <- MCCalls
  Idempotent <- MCIdempotent
  Configured <- MCConfigured
  Attempts = 2
  Threshold = 2
  ResetTicks = 2
CHECK_DEADLOCK FALSE
INVARIANTS SideEffectAtMostOnce AnswerIsHonest OpenMeansManyFailed
PROPERTIES CallsReturn BreakerLetsAProbeThrough ImplementsContract
