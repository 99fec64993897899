CONSTANTS
  Total = 3
  Limits <- MCLimits
  FirstLimit = 2
  RequestSlots = {l1, l2}
  ScanSlots = {y}
  Filters <- MCFilters
  MaxDrift = 1
  Incidents = {i1}
  HandlerSlots = {x1, x2}
  MaxEvents = 2
  AskedSlots = {y}
  NoIncident = none
  Library <- MCLibrary
  Fails <- MCFails
  SeededFailed <- MCSeededFailed
  Dimensions <- MCDimensions
  Critical <- MCCritical
  AuditSlots = {x1, x2}
  NoPlaybook = none
  Deliverables <- MCDeliverables
  ChecklistLength = 2
  QaComplete <- MCQaComplete
  TabRows <- MCTabRows
  FirstTab = "all"
  TimerSlots = {x1, x2}
  NoDeliverable = none
  Catalogue = {p1, p2}
  MaxActivations = 2
  ActivatingSlots = {x1, x2}
  WriterSlots = {x1, x2}
  MaxVersions = 3
  Retained <- MCRetained
  Classes <- MCClasses
  ClassOf <- MCClassOf
  AuditClass = "audit_log"
  Servers = {server}
  Worker = worker
  SweepSlots = {x1, x2}
  MaxChanges = 2
  Steps = 3
  SessionSlots = {x1, x2}
  MaxRows = 2
  MaxSent = 4
CHECK_DEADLOCK FALSE
SYMMETRY MCSymmetry
SPECIFICATION ConsoleSpec
INVARIANTS DataTypeOK LabelCountsRows TimelineKeepsAcknowledged AuditsAnswerTheirOwn
INVARIANTS ReadyIsActivatable MarkedOncePerOpening OffersAreSound OneActiveVersion
INVARIANTS CountsAreExact EachStepOnce UnsentIsDue
PROPERTIES HoldsStopSweeps
