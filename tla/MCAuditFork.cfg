CONSTANTS
  ws = ws
  anonymous = anonymous
  Anonymous = anonymous
  Trails <- MCTrails
  Entries = {1, 2, 3}
  Trail <- MCTwoTrails
  Legacy = {}
  MaxTime = 1
  Doctored = 0
  Faults = FALSE
CHECK_DEADLOCK FALSE
SPECIFICATION Spec
INVARIANTS BreakMeansTampering
