CONSTANTS
  VettingSteps = 5
  ScanTicks = 2
  Seeded = 2
  MaxRules = 3
  ExportChoices = {c1, c2}
  NoChoice = none
  Records <- MCRecords
  Types = {"contracts", "evidence"}
  TypeOf <- MCTypeOf
  GeneratorSlots = {1, 2}
  q1 = q1
  q2 = q2
  q3 = q3
  QueueItems = {q1, q2, q3}
  OpensAs <- MCOpensAs
  RuleOf <- MCRuleOf
  Rules = {"GEO-002", "SURV-001"}
  NoItem = none
  NoRule = "none"
  Stages = {s1, s2}
  FirstStage = s1
  Forms = {f1}
  Blank = blank
  PatchSlots = {1}
  ToastSlots = {1, 2}
CHECK_DEADLOCK FALSE
SPECIFICATION ConsoleSpec
INVARIANTS FormsTypeOK GatesHoldBehind OneRulePerNumber BuilderStartsClean
INVARIANTS AnnouncedWhenGenerated ErasesWhatItSent
PROPERTIES VettingIsGated ScanFinishes DecisionIsFinal
