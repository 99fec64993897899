CONSTANTS
  ws = ws
  anonymous = anonymous
  Anonymous = anonymous
  Trails <- MCTrails
  Entries = {1, 2, 3, 4, 5}
  Trail <- MCTwoTrails
  Legacy = {1}
  MaxTime = 1
  Doctored = 1
  Faults = TRUE
CHECK_DEADLOCK FALSE
SPECIFICATION FairSpec
INVARIANTS NamesExactlyTheEdited RemovalInsideIsNoticed
PROPERTIES AnsweredIsOnRecord
