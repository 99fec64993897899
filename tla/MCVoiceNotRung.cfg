CONSTANTS
  e1 = e1
  d1 = d1
  k1 = k1
  k2 = k2
  k3 = k3
  v1 = v1
  m1 = m1
  Calls <- MCCalls
  Idempotent = {}
  Configured <- MCCalls
  Attempts = 2
  Threshold = 2
  ResetTicks = 2
  Escalations = {e1}
  Contacts <- MCContacts
  Deliveries = {d1}
  VerifyCall <- MCVerifyCall
  PhoneCall <- MCPhoneCall
CHECK_DEADLOCK FALSE
SPECIFICATION VoiceSpec
INVARIANTS NotPlacedWasNotRung
