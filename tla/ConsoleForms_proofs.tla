-------------------------- MODULE ConsoleForms_proofs --------------------------
(***************************************************************************)
(* Proofs about the pages of the console that ask no server for what they  *)
(* show: the vetting and onboarding wizards, the automation rules, the     *)
(* review queue, the decision room and the exports, for wizards of every   *)
(* length and any rules, items, forms, records and timers.  Each is proved *)
(* of its page; at the end, of the console that opens one of them.         *)
(***************************************************************************)
EXTENDS MCConsoleForms, FiniteSetTheorems, TLAPS

-----------------------------------------------------------------------------
(* The vetting wizard.  One button tests one tick; that all of them are    *)
(* ticked at the end rests on the steps behind being ticked all along.     *)

VettingInv == VettingTypeOK /\ PassedStepsTicked /\ VettedOnlyWhole

LEMMA NoChecksType == NoChecks \in [Indices -> BOOLEAN]
BY DEF NoChecks

LEMMA VettingInvInit == VettingInit => VettingInv
<1> SUFFICES ASSUME VettingInit PROVE VettingInv
    OBVIOUS
<1> USE VettingAssumption DEF VettingInit
<1>1. VettingTypeOK
  <2>1. wizardOpen \in BOOLEAN OBVIOUS
  <2>2. vetStep \in Indices BY DEF Indices
  <2>3. checks \in [Indices -> BOOLEAN]  BY NoChecksType
  <2>4. vetted \subseteq SUBSET Indices OBVIOUS
  <2> QED BY <2>1, <2>2, <2>3, <2>4 DEF VettingTypeOK
<1>2. PassedStepsTicked  BY DEF PassedStepsTicked, Indices
<1>3. VettedOnlyWhole    BY DEF VettedOnlyWhole
<1> QED BY <1>1, <1>2, <1>3 DEF VettingInv

LEMMA VettingInvStep == VettingInv /\ [VettingNext]_vettingVars => VettingInv'
<1> SUFFICES ASSUME VettingInv, [VettingNext]_vettingVars PROVE VettingInv'
    OBVIOUS
<1> USE VettingAssumption DEF VettingInv, VettingTypeOK, PassedStepsTicked, VettedOnlyWhole,
        Indices
<1>1. CASE StartVetting  BY <1>1 DEF StartVetting
<1>2. CASE CloseWizard   BY <1>2 DEF CloseWizard
<1>3. CASE ToggleCheck   BY <1>3 DEF ToggleCheck
<1>4. CASE BackStep      BY <1>4 DEF BackStep
<1>5. CASE NextStep      BY <1>5 DEF NextStep, CanNext, IsLast
<1>6. CASE CompleteVetting
  <2>1. \A i \in Indices : checks[i]
    BY <1>6 DEF CompleteVetting, CanNext, IsLast
  <2>2. Ticked = Indices  BY <2>1 DEF Ticked
  <2>3. wizardOpen' = FALSE /\ vetStep' = 0 /\ checks' = NoChecks
        /\ vetted' = vetted \cup {Indices}
    BY <1>6, <2>2 DEF CompleteVetting
  <2>4. VettingTypeOK'
    <3>1. (checks \in [Indices -> BOOLEAN])'
      <4> HIDE DEF Indices
      <4> QED BY <2>3, NoChecksType
    <3>2. wizardOpen' \in BOOLEAN
      <4> HIDE VettingAssumption DEF VettingTypeOK, PassedStepsTicked, VettedOnlyWhole
      <4> QED BY <2>3
    <3>4. vetStep' \in Indices  BY <2>3
    <3>3. vetted' \subseteq SUBSET Indices  BY <2>3
    <3> QED BY <3>1, <3>2, <3>3, <3>4
  <2>5. PassedStepsTicked'   BY <2>3
  <2> QED BY <2>3, <2>4, <2>5
<1>7. CASE UNCHANGED vettingVars  BY <1>7 DEF vettingVars
<1> HIDE DEF VettingInv
<1> QED BY <1>1, <1>2, <1>3, <1>4, <1>5, <1>6, <1>7 DEF VettingNext

LEMMA VettingInductive == VettingSpec => []VettingInv
BY VettingInvInit, VettingInvStep, PTL DEF VettingSpec

\* The wizard stays on one of its steps.
THEOREM VettingTypeCorrect == VettingSpec => []VettingTypeOK
BY VettingInductive, PTL DEF VettingInv

\* Nobody is vetted with a step unticked, whatever was unticked, closed and
\* reopened on the way.
THEOREM VettedWhole == VettingSpec => []VettedOnlyWhole
BY VettingInductive, PTL DEF VettingInv

-----------------------------------------------------------------------------
(* It implements GatedSteps: gates are numbered from 1. *)

Gate(S) == {i + 1 : i \in S}

LEMMA GateOfAll == Gate(Indices) = 1..VettingSteps
<1> USE VettingAssumption DEF Gate, Indices
<1>1. ASSUME NEW g \in 1..VettingSteps PROVE g \in Gate(Indices)
  <2>1. g - 1 \in Indices /\ g = (g - 1) + 1  BY <1>1
  <2> QED BY <2>1
<1> QED BY <1>1

\* A gate is open exactly when its step is ticked.
LEMMA GateOpens == ASSUME VettingTypeOK, NEW i \in Indices
                   PROVE  (i + 1 \in {j + 1 : j \in Ticked}) <=> checks[i]
BY VettingAssumption DEF Ticked, Indices, VettingTypeOK

LEMMA GatesTicked == ASSUME VettingTypeOK PROVE {i + 1 : i \in Ticked} \subseteq 1..VettingSteps
BY VettingAssumption DEF Ticked, Indices, VettingTypeOK

LEMMA VettingRefinesInit == VettingInit => VettingGates!GatedInit
BY VettingAssumption DEF VettingInit, VettingGates!GatedInit, Ticked, NoChecks, Indices

LEMMA VettingRefinesStep ==
  VettingInv /\ [VettingNext]_vettingVars => [VettingGates!GatedNext]_(VettingGates!gatedVars)
<1> SUFFICES ASSUME VettingInv, [VettingNext]_vettingVars
             PROVE  [VettingGates!GatedNext]_(VettingGates!gatedVars)
    OBVIOUS
<1> USE VettingAssumption DEF VettingInv
<1> DEFINE openGates == {i + 1 : i \in Ticked}
           done == {{i + 1 : i \in ticked} : ticked \in vetted}
<1> USE DEF VettingGates!gatedVars, VettingGates!GatedNext
<1>0. VettingTypeOK'  BY VettingInvStep
<1>a. openGates' \subseteq 1..VettingSteps
  BY <1>0 DEF VettingTypeOK, Ticked, Indices
<1>1. CASE StartVetting  BY <1>1 DEF StartVetting, Ticked
<1>2. CASE CloseWizard   BY <1>2 DEF CloseWizard, Ticked
<1>3. CASE ToggleCheck
  <2>1. \A i \in Indices \ {vetStep} : i \in Ticked' <=> i \in Ticked
    BY <1>3 DEF ToggleCheck, Ticked, VettingTypeOK
  <2>2. Ticked' \ {vetStep} = Ticked \ {vetStep}
    BY <2>1 DEF Ticked
  <2>3. openGates' \ {vetStep + 1} = openGates \ {vetStep + 1}
    BY <2>2 DEF VettingTypeOK, Ticked, Indices
  <2>4. vetStep' = vetStep /\ vetted' = vetted  BY <1>3 DEF ToggleCheck
  <2> QED BY <2>3, <2>4, <1>a DEF VettingGates!Work
<1>4. CASE BackStep
  BY <1>4 DEF BackStep, Ticked, VettingGates!Backward, VettingTypeOK, Indices
<1>5. CASE NextStep
  <2>1. vetStep \in Indices /\ checks[vetStep] /\ vetStep + 1 < VettingSteps
    BY <1>5 DEF NextStep, CanNext, IsLast, VettingTypeOK, Indices
  <2>2. vetStep + 1 \in openGates  BY <2>1, GateOpens
  <2>3. vetStep' = vetStep + 1 /\ checks' = checks /\ vetted' = vetted
    BY <1>5 DEF NextStep
  <2> QED BY <2>1, <2>2, <2>3 DEF VettingGates!Forward, Ticked
<1>6. CASE CompleteVetting
  <2>1. Ticked = Indices
    BY <1>6 DEF CompleteVetting, CanNext, IsLast, Ticked, PassedStepsTicked, VettingTypeOK, Indices
  <2>2. openGates = 1..VettingSteps  BY <2>1, GateOfAll DEF Gate
  <2>3. vetStep + 1 = VettingSteps /\ vetStep' + 1 = 1
    BY <1>6 DEF CompleteVetting, IsLast
  <2>4. done' = done \cup {1..VettingSteps}
    <3>1. vetted' = vetted \cup {Indices}  BY <1>6, <2>1 DEF CompleteVetting
    <3> QED BY <3>1, GateOfAll DEF Gate
  <2> QED BY <2>2, <2>3, <2>4, <1>a DEF VettingGates!Complete
<1>7. CASE UNCHANGED vettingVars  BY <1>7 DEF vettingVars, Ticked
<1> QED BY <1>1, <1>2, <1>3, <1>4, <1>5, <1>6, <1>7 DEF VettingNext

\* The wizard implements GatedSteps: it goes forward through open gates, one
\* step at a time, and completes with all of them open.
THEOREM VettingImplementsGates == VettingSpec => VettingIsGated
BY VettingInductive, VettingRefinesInit, VettingRefinesStep, PTL
   DEF VettingSpec, VettingIsGated, VettingGates!GatedSpec

-----------------------------------------------------------------------------
(* The onboarding wizard.  The scan runs on behind the other steps, so what *)
(* holds of its interval is tied to what the page shows of the scan.       *)

OnboardingInv == OnboardingTypeOK /\ OneScanInterval /\ GatesHoldBehind

LEMMA OnboardingInvInit == OnboardingInit => OnboardingInv
<1> SUFFICES ASSUME OnboardingInit PROVE OnboardingInv
    OBVIOUS
<1>1. OnboardingTypeOK
  <2> USE OnboardingAssumption DEF OnboardingInit
  <2>1. named \in BOOLEAN /\ playbookPicked \in BOOLEAN /\ scanRunning \in BOOLEAN
        /\ scanComplete \in BOOLEAN /\ skipped \in BOOLEAN /\ entered \in BOOLEAN
    OBVIOUS
  <2>2. currentStep \in 1..6 /\ intervals \in Nat /\ scanProgress \in 0..ScanTicks
    OBVIOUS
  <2> QED BY <2>1, <2>2 DEF OnboardingTypeOK
<1>2. OneScanInterval  BY DEF OnboardingInit, OneScanInterval
<1>3. GatesHoldBehind  BY DEF OnboardingInit, GatesHoldBehind
<1> QED BY <1>1, <1>2, <1>3 DEF OnboardingInv

LEMMA OnboardingInvStep == OnboardingInv /\ [OnboardingNext]_onboardingVars => OnboardingInv'
<1> SUFFICES ASSUME OnboardingInv, [OnboardingNext]_onboardingVars PROVE OnboardingInv'
    OBVIOUS
<1> USE OnboardingAssumption DEF OnboardingInv, OnboardingTypeOK, OneScanInterval,
        GatesHoldBehind, answers, aiScan
<1>1. CASE HandleNext
  <2> USE <1>1 DEF HandleNext
  <2>1. CASE currentStep < 6
    <3>1. OnboardingTypeOK' /\ OneScanInterval'  BY <2>1
    <3>2. GatesHoldBehind'  BY <2>1 DEF CanProceed
    <3> QED BY <3>1, <3>2
  <2>2. CASE ~(currentStep < 6)
    <3>1. entered' \in BOOLEAN  BY <2>2
    <3> QED BY <2>2, <3>1
  <2> QED BY <2>1, <2>2
<1>2. CASE HandleBack    BY <1>2 DEF HandleBack
<1>3. CASE HandleSkip    BY <1>3 DEF HandleSkip
<1>4. CASE EditName      BY <1>4 DEF EditName
<1>5. CASE PickPlaybook  BY <1>5 DEF PickPlaybook
<1>6. CASE RunAiScan     BY <1>6 DEF RunAiScan, RunButtonShown
<1>7. CASE ScanTick
  <2> USE <1>7 DEF ScanTick
  <2>1. CASE scanProgress >= ScanTicks
    <3>1. scanRunning' = FALSE /\ scanComplete' = TRUE /\ intervals' = 0  BY <2>1
    <3>2. scanRunning' \in BOOLEAN /\ scanComplete' \in BOOLEAN  BY <3>1
    <3> QED BY <2>1, <3>1, <3>2
  <2>2. CASE ~(scanProgress >= ScanTicks)  BY <2>2
  <2> QED BY <2>1, <2>2
<1>8. CASE UNCHANGED onboardingVars  BY <1>8 DEF onboardingVars
<1> HIDE DEF OnboardingInv
<1> QED BY <1>1, <1>2, <1>3, <1>4, <1>5, <1>6, <1>7, <1>8 DEF OnboardingNext

LEMMA OnboardingInductive == OnboardingSpec => []OnboardingInv
BY OnboardingInvInit, OnboardingInvStep, PTL DEF OnboardingSpec

\* The wizard stays on its six steps and its bar between empty and full.
THEOREM OnboardingTypeCorrect == OnboardingSpec => []OnboardingTypeOK
BY OnboardingInductive, PTL DEF OnboardingInv

\* However the steps are walked, one interval runs while the bar is shown and
\* none otherwise.
THEOREM OneInterval == OnboardingSpec => []OneScanInterval
BY OnboardingInductive, PTL DEF OnboardingInv

\* Who never skipped stands only past gates that are open still.
THEOREM GatesHold == OnboardingSpec => []GatesHoldBehind
BY OnboardingInductive, PTL DEF OnboardingInv

-----------------------------------------------------------------------------
(* The review queue.  Decisions are taken in rows, drawn from the items,   *)
(* and in a drawer, drawn from a copy; they are final because the copy is  *)
(* never behind.                                                           *)

RiskQueueInv == /\ RiskQueueTypeOK /\ DrawerIsCurrent
                /\ drawerOpen => selectedItem.id \in QueueFiltered

LEMMA RiskQueueInvInit == RiskQueueInit => RiskQueueInv
<1> SUFFICES ASSUME RiskQueueInit PROVE RiskQueueInv
    OBVIOUS
<1> USE RiskQueueAssumption DEF RiskQueueInit
<1>1. RiskQueueTypeOK  BY DEF RiskQueueTypeOK, Closed, Status, Tabs
<1>2. DrawerIsCurrent  BY DEF DrawerIsCurrent
<1> QED BY <1>1, <1>2 DEF RiskQueueInv

\* A decision leaves an item of the queue with a status and the drawer shut.
LEMMA UpdateStatusKeeps ==
  ASSUME RiskQueueTypeOK, NEW i \in QueueItems, NEW status \in Decisions,
         UpdateStatus(i, status)
  PROVE  RiskQueueInv'
<1> USE DEF UpdateStatus, CloseDrawerNow
<1>1. RiskQueueTypeOK'
  BY RiskQueueAssumption DEF RiskQueueTypeOK, Closed, Status, Decisions
<1>2. DrawerIsCurrent'  BY DEF DrawerIsCurrent
<1> QED BY <1>1, <1>2 DEF RiskQueueInv

LEMMA RiskQueueInvStep == RiskQueueInv /\ [RiskQueueNext]_riskQueueVars => RiskQueueInv'
<1> SUFFICES ASSUME RiskQueueInv, [RiskQueueNext]_riskQueueVars PROVE RiskQueueInv'
    OBVIOUS
<1> USE RiskQueueAssumption DEF RiskQueueInv
<1>1. ASSUME NEW tab \in Tabs, SetActiveTab(tab) PROVE RiskQueueInv'
  BY <1>1 DEF SetActiveTab, RiskQueueTypeOK, DrawerIsCurrent
<1>2. ASSUME NEW rule \in Rules, ToggleActiveRule(rule) PROVE RiskQueueInv'
  BY <1>2 DEF ToggleActiveRule, RiskQueueTypeOK, DrawerIsCurrent
<1>3. ASSUME NEW i \in QueueItems, OpenDrawer(i) PROVE RiskQueueInv'
  BY <1>3 DEF OpenDrawer, RiskQueueTypeOK, DrawerIsCurrent, QueueFiltered
<1>4. ASSUME NEW i \in QueueItems, NEW s \in Decisions, DecideInRow(i, s) PROVE RiskQueueInv'
  BY <1>4, UpdateStatusKeeps DEF DecideInRow
<1>5. CASE CloseDrawer
  BY <1>5 DEF CloseDrawer, CloseDrawerNow, RiskQueueTypeOK, DrawerIsCurrent, Closed, Status
<1>6. ASSUME NEW s \in Decisions, DecideInDrawer(s) PROVE RiskQueueInv'
  <2>1. selectedItem.id \in QueueItems  BY <1>6 DEF DecideInDrawer, DrawerIsCurrent
  <2> QED BY <1>6, <2>1, UpdateStatusKeeps DEF DecideInDrawer
<1>7. CASE UNCHANGED riskQueueVars
  BY <1>7 DEF riskQueueVars, RiskQueueTypeOK, DrawerIsCurrent, QueueFiltered
<1> HIDE DEF RiskQueueInv
<1> QED BY <1>1, <1>2, <1>3, <1>4, <1>5, <1>6, <1>7 DEF RiskQueueNext

LEMMA RiskQueueInductive == RiskQueueSpec => []RiskQueueInv
BY RiskQueueInvInit, RiskQueueInvStep, PTL DEF RiskQueueSpec

\* Items keep statuses of the queue, and the drawer an item of it.
THEOREM RiskQueueTypeCorrect == RiskQueueSpec => []RiskQueueTypeOK
BY RiskQueueInductive, PTL DEF RiskQueueInv

\* The copy in the drawer is as new as the row it was made from.
THEOREM DrawerCurrent == RiskQueueSpec => []DrawerIsCurrent
BY RiskQueueInductive, PTL DEF RiskQueueInv

\* A list no rule narrows has the rows its tab counts.
LEMMA TabCountsRows == activeRule = NoRule => Cardinality(QueueFiltered) = TabCount(queueTab)
<1> SUFFICES ASSUME activeRule = NoRule
             PROVE  Cardinality(QueueFiltered) = TabCount(queueTab)
    OBVIOUS
<1>1. QueueFiltered = {i \in QueueItems : queueTab \in {"All", items[i]}}
  BY DEF QueueFiltered
<1> QED BY <1>1 DEF TabCount

\* The list behind the drawer shows the item under review, and has as many
\* rows as its tab counts unless a rule narrows it.
THEOREM ListsAgree == RiskQueueSpec => []ListAgrees
<1>1. RiskQueueInv => ListAgrees  BY TabCountsRows DEF RiskQueueInv, ListAgrees
<1> QED BY <1>1, RiskQueueInductive, PTL

LEMMA DecisionStays ==
  RiskQueueInv /\ [RiskQueueNext]_riskQueueVars =>
    [\A i \in QueueItems : items[i] # "Pending" => items'[i] = items[i]]_riskQueueVars
<1> SUFFICES ASSUME RiskQueueInv, RiskQueueNext, NEW j \in QueueItems, items[j] # "Pending"
             PROVE  items'[j] = items[j]
    OBVIOUS
<1> USE DEF RiskQueueInv, RiskQueueTypeOK
<1>1. CASE items' = items  BY <1>1
<1>2. ASSUME NEW i \in QueueItems, NEW s \in Decisions, DecideInRow(i, s)
      PROVE  items'[j] = items[j]
  BY <1>2 DEF DecideInRow, UpdateStatus
<1>3. ASSUME NEW s \in Decisions, DecideInDrawer(s) PROVE items'[j] = items[j]
  BY <1>3 DEF DecideInDrawer, UpdateStatus, DrawerIsCurrent
<1> QED BY <1>1, <1>2, <1>3
        DEF RiskQueueNext, SetActiveTab, ToggleActiveRule, OpenDrawer, CloseDrawer

\* No step of rows, drawers and tabs changes the status of an item that was
\* decided.
THEOREM DecisionsFinal == RiskQueueSpec => DecisionIsFinal
BY RiskQueueInductive, DecisionStays, PTL DEF RiskQueueSpec, DecisionIsFinal

-----------------------------------------------------------------------------
(* The decision room *)

\* A decision that is on its way, or logged, is the only one posted.
LogInv ==
  /\ showLog => ~decisionLogged
  /\ posted <= 1
  /\ ~savingLog /\ ~decisionLogged => posted = 0

\* Unless toasts overlapped, there is one timer at most, that of the toast shown.
ToastInv ==
  ~overlapping => /\ \A t, u \in toastTimers : t = u
                  /\ {t.of : t \in toastTimers} = {toast} \ {NoToast}

DecisionRoomInv == DecisionRoomTypeOK /\ LogInv /\ ErasesWhatItSent /\ ToastInv

\* A toast comes with a timer of its own.
LEMMA ShownWithTimer ==
  ASSUME NEW what \in Toasts, ShowToast(what), DecisionRoomTypeOK, ToastInv
  PROVE  /\ toast' \in Toasts \cup {NoToast} /\ toastTimers' \subseteq Timers
         /\ overlapping' \in BOOLEAN
         /\ ToastInv'
<1>1. PICK slot \in ToastSlots :
        /\ toast' = what
        /\ toastTimers' = toastTimers \cup {[slot |-> slot, of |-> what]}
        /\ overlapping' = (overlapping \/ toastTimers # {})
  BY DEF ShowToast
<1>2. toast' \in Toasts \cup {NoToast}  BY <1>1
<1>3. [slot |-> slot, of |-> what] \in Timers  BY DEF Timers
<1>4. toastTimers' \subseteq Timers  BY <1>1, <1>3 DEF DecisionRoomTypeOK
<1>5. overlapping' \in BOOLEAN  BY <1>1
<1>6. ToastInv'
  <2> SUFFICES ASSUME ~overlapping'
               PROVE  /\ \A t, u \in toastTimers' : t = u
                      /\ {t.of : t \in toastTimers'} = {toast'} \ {NoToast}
    BY DEF ToastInv
  <2>1. toastTimers' = {[slot |-> slot, of |-> what]}  BY <1>1
  <2>2. what # NoToast  BY DEF Toasts, NoToast
  <2>3. \A t, u \in toastTimers' : t = u  BY <2>1
  <2>4. {t.of : t \in toastTimers'} = {what}
    <3>1. {t.of : t \in toastTimers'} = {[slot |-> slot, of |-> what].of}  BY <2>1, Zenon
    <3> QED BY <3>1
  <2>5. {toast'} \ {NoToast} = {what}  BY <1>1, <2>2
  <2> QED BY <2>3, <2>4, <2>5
<1> QED BY <1>2, <1>4, <1>5, <1>6

\* Every step keeps the types.
LEMMA DecisionRoomTypeStep ==
  DecisionRoomTypeOK /\ ToastInv /\ [DecisionRoomNext]_decisionRoomVars => DecisionRoomTypeOK'
<1> SUFFICES ASSUME DecisionRoomTypeOK, ToastInv, [DecisionRoomNext]_decisionRoomVars
             PROVE  DecisionRoomTypeOK'
  OBVIOUS
<1> USE DEF DecisionRoomTypeOK, stageVars, meetingVars, logVars, toastVars
<1>1. ASSUME NEW s \in Stages, UpdateDealStage(s) PROVE DecisionRoomTypeOK'
  <2>1. PICK slot \in PatchSlots : patches' = patches \cup {[slot |-> slot, stage |-> s]}
    BY <1>1 DEF UpdateDealStage
  <2>2. patches' \subseteq [slot : PatchSlots, stage : Stages]  BY <2>1
  <2> QED BY <1>1, <2>2 DEF UpdateDealStage
<1>2. ASSUME NEW p \in patches, PatchEnds(p) PROVE DecisionRoomTypeOK'
  BY <1>2, ShownWithTimer DEF PatchEnds, Toasts
<1>3. CASE OpenSchedule \/ CancelSchedule
  BY <1>3 DEF OpenSchedule, CancelSchedule
<1>4. CASE SaveMeeting
  BY <1>4 DEF SaveMeeting
<1>5. CASE MeetingSaved
  <2>1. ShowToast("meeting") /\ "meeting" \in Toasts  BY <1>5 DEF MeetingSaved, Toasts
  <2>2. savingMeeting' \in [sent : BOOLEAN, form : Forms \cup {Blank}]
    BY <1>5 DEF MeetingSaved, NotSaving
  <2> QED BY <1>5, <2>1, <2>2, ShownWithTimer DEF MeetingSaved
<1>6. ASSUME NEW form \in Forms \cup {Blank}, TypeMeeting(form) PROVE DecisionRoomTypeOK'
  BY <1>6 DEF TypeMeeting
<1>7. CASE OpenLog \/ CancelLog \/ ChooseOutcome
  BY <1>7 DEF OpenLog, CancelLog, ChooseOutcome
<1>8. CASE SaveDecisionLog
  BY <1>8 DEF SaveDecisionLog
<1>9. CASE DecisionSaved
  <2>1. ShowToast("decision") /\ "decision" \in Toasts  BY <1>9 DEF DecisionSaved, Toasts
  <2>2. onRecord' \in BOOLEAN  BY <1>9 DEF DecisionSaved
  <2> QED BY <1>9, <2>1, <2>2, ShownWithTimer DEF DecisionSaved
<1>10. ASSUME NEW t \in toastTimers, ToastTimer(t) PROVE DecisionRoomTypeOK'
  BY <1>10 DEF ToastTimer
<1>11. CASE UNCHANGED decisionRoomVars
  BY <1>11 DEF decisionRoomVars
<1> HIDE DEF DecisionRoomTypeOK
<1> QED BY <1>1, <1>2, <1>3, <1>4, <1>5, <1>6, <1>7, <1>8, <1>9, <1>10, <1>11 DEF DecisionRoomNext

\* Every step keeps the log to one decision.
LEMMA LogStep ==
  DecisionRoomTypeOK /\ LogInv /\ [DecisionRoomNext]_decisionRoomVars => LogInv'
<1> SUFFICES ASSUME DecisionRoomTypeOK, LogInv, [DecisionRoomNext]_decisionRoomVars
             PROVE  LogInv'
  OBVIOUS
<1>1. CASE UNCHANGED logVars  BY <1>1 DEF logVars, LogInv
<1>2. CASE OpenLog \/ CancelLog  BY <1>2 DEF OpenLog, CancelLog, LogInv
<1>3. CASE ChooseOutcome  BY <1>3 DEF ChooseOutcome, LogInv
<1>4. CASE SaveDecisionLog
  <2>1. posted = 0 /\ ~decisionLogged  BY <1>4 DEF SaveDecisionLog, LogInv
  <2> QED BY <1>4, <2>1 DEF SaveDecisionLog, LogInv
<1>5. CASE DecisionSaved  BY <1>5 DEF DecisionSaved, LogInv
<1>6. UNCHANGED logVars \/ OpenLog \/ CancelLog \/ ChooseOutcome \/ SaveDecisionLog \/ DecisionSaved
  BY DEF DecisionRoomNext, decisionRoomVars, UpdateDealStage, PatchEnds, OpenSchedule,
         CancelSchedule, SaveMeeting, MeetingSaved, TypeMeeting, ToastTimer
<1> QED BY <1>1, <1>2, <1>3, <1>4, <1>5, <1>6

\* Every step keeps the form and what was sent of it together.
LEMMA FormStep ==
  DecisionRoomTypeOK /\ ErasesWhatItSent /\ [DecisionRoomNext]_decisionRoomVars
    => ErasesWhatItSent'
<1> SUFFICES ASSUME DecisionRoomTypeOK, ErasesWhatItSent,
                    [DecisionRoomNext]_decisionRoomVars
             PROVE  ErasesWhatItSent'
  OBVIOUS
<1>1. CASE UNCHANGED <<meeting, savingMeeting, retyped>>  BY <1>1 DEF ErasesWhatItSent
<1>2. CASE SaveMeeting  BY <1>2 DEF SaveMeeting, ErasesWhatItSent
<1>3. CASE MeetingSaved  BY <1>3 DEF MeetingSaved, NotSaving, ErasesWhatItSent
<1>4. ASSUME NEW form \in Forms \cup {Blank}, TypeMeeting(form) PROVE ErasesWhatItSent'
  BY <1>4 DEF TypeMeeting, ErasesWhatItSent
<1>5. \/ UNCHANGED <<meeting, savingMeeting, retyped>>
      \/ SaveMeeting \/ MeetingSaved
      \/ \E form \in Forms \cup {Blank} : TypeMeeting(form)
  BY DEF DecisionRoomNext, decisionRoomVars, meetingVars, UpdateDealStage, PatchEnds,
         OpenSchedule, CancelSchedule, OpenLog, CancelLog, ChooseOutcome, SaveDecisionLog,
         DecisionSaved, ToastTimer
<1> QED BY <1>1, <1>2, <1>3, <1>4, <1>5

\* Every step keeps the toast and its timer together.
LEMMA ToastStep ==
  DecisionRoomTypeOK /\ ToastInv /\ [DecisionRoomNext]_decisionRoomVars => ToastInv'
<1> SUFFICES ASSUME DecisionRoomTypeOK, ToastInv, [DecisionRoomNext]_decisionRoomVars
             PROVE  ToastInv'
  OBVIOUS
<1>1. ASSUME NEW what \in Toasts, ShowToast(what) PROVE ToastInv'
  BY <1>1, ShownWithTimer
<1>2. ASSUME NEW t \in toastTimers, ToastTimer(t) PROVE ToastInv'
  <2>1. toast' = NoToast /\ toastTimers' = toastTimers \ {t} /\ overlapping' = overlapping
    BY <1>2 DEF ToastTimer
  <2>2. ~overlapping => toastTimers' = {}  BY <1>2, <2>1 DEF ToastInv
  <2> QED BY <2>1, <2>2 DEF ToastInv
<1>3. CASE UNCHANGED toastVars
  BY <1>3 DEF toastVars, ToastInv
<1>4. \/ UNCHANGED toastVars
      \/ \E what \in Toasts : ShowToast(what)
      \/ \E t \in toastTimers : ToastTimer(t)
  BY DEF DecisionRoomNext, decisionRoomVars, Toasts, UpdateDealStage, PatchEnds, OpenSchedule,
         CancelSchedule, SaveMeeting, MeetingSaved, TypeMeeting, OpenLog, CancelLog,
         ChooseOutcome, SaveDecisionLog, DecisionSaved
<1> QED BY <1>1, <1>2, <1>3, <1>4

LEMMA DecisionRoomInvAlways == DecisionRoomSpec => []DecisionRoomInv
<1>1. DecisionRoomInit => DecisionRoomInv
  <2> SUFFICES ASSUME DecisionRoomInit PROVE DecisionRoomInv  OBVIOUS
  <2> USE DEF DecisionRoomInit
  <2>1. DecisionRoomTypeOK
    BY DecisionRoomAssumption DEF DecisionRoomTypeOK, NotSaving
  <2>2. LogInv  BY DEF LogInv
  <2>3. ErasesWhatItSent  BY DEF ErasesWhatItSent, NotSaving
  <2>4. ToastInv  BY DEF ToastInv
  <2> QED BY <2>1, <2>2, <2>3, <2>4 DEF DecisionRoomInv
<1>2. DecisionRoomInv /\ [DecisionRoomNext]_decisionRoomVars => DecisionRoomInv'
  BY DecisionRoomTypeStep, LogStep, FormStep, ToastStep DEF DecisionRoomInv
<1> QED BY <1>1, <1>2, PTL DEF DecisionRoomSpec

(***************************************************************************)
(* The state of the decision room keeps its types.                         *)
(***************************************************************************)
THEOREM DecisionRoomTypeCorrect == DecisionRoomSpec => []DecisionRoomTypeOK
<1>1. DecisionRoomInv => DecisionRoomTypeOK  BY DEF DecisionRoomInv
<1> QED BY <1>1, DecisionRoomInvAlways, PTL

(***************************************************************************)
(* A visit posts one decision at most, for any number of reopenings.       *)
(***************************************************************************)
THEOREM DecisionPostedOnce == DecisionRoomSpec => []OneDecisionPosted
<1>1. DecisionRoomInv => OneDecisionPosted  BY DEF DecisionRoomInv, LogInv, OneDecisionPosted
<1> QED BY <1>1, DecisionRoomInvAlways, PTL

(***************************************************************************)
(* A save erases what it sent unless the form was edited meanwhile.        *)
(***************************************************************************)
THEOREM SaveErasesSent == DecisionRoomSpec => []ErasesWhatItSent
<1>1. DecisionRoomInv => ErasesWhatItSent  BY DEF DecisionRoomInv
<1> QED BY <1>1, DecisionRoomInvAlways, PTL

(***************************************************************************)
(* Unless toasts overlap, each goes with its own timer and no other.       *)
(***************************************************************************)
THEOREM ToastTimed == DecisionRoomSpec => []ToastHasItsTimer
<1>1. DecisionRoomInv => ToastHasItsTimer
  BY DEF DecisionRoomInv, ToastInv, ToastHasItsTimer
<1> QED BY <1>1, DecisionRoomInvAlways, PTL

-----------------------------------------------------------------------------
(* The export suite *)

\* Unless the modal was changed over a generator, there is one generator at
\* most, for the choice on screen, and none once success is announced.
GeneratorInv ==
  ~overlapped =>
    /\ \A g, h \in generators : g = h
    /\ \A g \in generators : g.for = choice
    /\ generators # {} => generating
    /\ downloadReady => generators = {} /\ choice # NoChoice

\* What is selected is listed, unless the filter changed over it.
SelectionInv == ~refiltered => selectedRows \subseteq FilteredHistory

ExportsInv == ExportsTypeOK /\ GeneratorInv /\ SelectionInv

Generators == [slot : GeneratorSlots, for : ExportChoices, full : BOOLEAN]

\* Every step of a generator, and of the modal around it.
LEMMA GeneratorStep ==
  ExportsTypeOK /\ GeneratorInv /\ [ExportsNext]_exportsVars => ExportsTypeOK' /\ GeneratorInv'
<1> SUFFICES ASSUME ExportsTypeOK, GeneratorInv, [ExportsNext]_exportsVars
             PROVE  ExportsTypeOK' /\ GeneratorInv'
  OBVIOUS
<1> DEFINE G == ExportsTypeOK' /\ GeneratorInv'
<1>0. generators \subseteq Generators  BY DEF ExportsTypeOK, Generators
<1> USE DEF historyVars
<1>1. CASE OpenModal
  <2>1. ExportsTypeOK'  BY <1>1 DEF OpenModal, ExportsTypeOK
  <2>2. GeneratorInv'  BY <1>1 DEF OpenModal, GeneratorInv
  <2> QED BY <2>1, <2>2
<1>2. CASE CloseModal
  <2>1. ExportsTypeOK'  BY <1>2 DEF CloseModal, ExportsTypeOK
  <2>2. GeneratorInv'  BY <1>2 DEF CloseModal, GeneratorInv
  <2> QED BY <2>1, <2>2
<1>3. ASSUME NEW c \in ExportChoices \cup {NoChoice}, Choose(c) PROVE G
  <2>1. ExportsTypeOK'  BY <1>3 DEF Choose, ExportsTypeOK
  <2>2. GeneratorInv'  BY <1>3 DEF Choose, GeneratorInv
  <2> QED BY <2>1, <2>2
<1>4. CASE StartGenerate
  <2>1. PICK slot \in GeneratorSlots :
          generators' = generators \cup {[slot |-> slot, for |-> choice, full |-> FALSE]}
    BY <1>4 DEF StartGenerate
  <2>2. choice \in ExportChoices  BY <1>4 DEF StartGenerate, ExportsTypeOK
  <2>3. [slot |-> slot, for |-> choice, full |-> FALSE] \in Generators
    BY <2>2 DEF Generators
  <2>4. generators' \subseteq Generators  BY <1>0, <2>1, <2>3
  <2>5. ExportsTypeOK'  BY <1>4, <2>4 DEF StartGenerate, ExportsTypeOK, Generators
  <2>6. GeneratorInv'
    <3> SUFFICES ASSUME ~overlapped' PROVE GeneratorInv'  BY DEF GeneratorInv
    <3>1. generators = {}  BY <1>4 DEF StartGenerate, GeneratorInv
    <3>2. generators' = {[slot |-> slot, for |-> choice, full |-> FALSE]}  BY <2>1, <3>1
    <3>3. \A g \in generators' : g.for = choice'  BY <1>4, <3>2 DEF StartGenerate
    <3>4. \A g, h \in generators' : g = h  BY <3>2
    <3>5. generating' /\ ~downloadReady'  BY <1>4 DEF StartGenerate
    <3> QED BY <3>3, <3>4, <3>5 DEF GeneratorInv
  <2> QED BY <2>5, <2>6
<1>5. ASSUME NEW g \in generators, ProgressTick(g) PROVE G
  <2>1. g \in Generators /\ [g EXCEPT !.full = TRUE] \in Generators
        /\ [g EXCEPT !.full = TRUE].for = g.for
    BY <1>0, <1>5 DEF Generators
  <2>2. \/ generators' = generators
        \/ generators' = (generators \ {g}) \cup {[g EXCEPT !.full = TRUE]}
    BY <1>5 DEF ProgressTick
  <2>3. generators' \subseteq Generators  BY <1>0, <2>1, <2>2
  <2>4. progressFull' \in BOOLEAN  BY <1>5 DEF ProgressTick
  <2>5. ExportsTypeOK'  BY <1>5, <2>3, <2>4 DEF ProgressTick, ExportsTypeOK, Generators
  <2>6. UNCHANGED <<choice, generating, downloadReady, overlapped>>
    BY <1>5 DEF ProgressTick
  <2>7. GeneratorInv'
    <3> SUFFICES ASSUME ~overlapped' PROVE GeneratorInv'  BY DEF GeneratorInv
    <3>1. generators = {g} /\ g.for = choice /\ generating /\ ~downloadReady
      BY <1>5, <2>6 DEF GeneratorInv
    <3>2. generators' = {g} \/ generators' = {[g EXCEPT !.full = TRUE]}
      BY <2>2, <3>1
    <3>3. \A h \in generators' : h.for = choice  BY <2>1, <3>1, <3>2
    <3>4. \A h, k \in generators' : h = k  BY <3>2
    <3> QED BY <2>6, <3>1, <3>3, <3>4 DEF GeneratorInv
  <2> QED BY <2>5, <2>7
<1>6. ASSUME NEW g \in generators, Announce(g) PROVE G
  <2>1. ExportsTypeOK'  BY <1>6 DEF Announce, ExportsTypeOK
  <2>2. GeneratorInv'
    <3> SUFFICES ASSUME ~overlapped' PROVE GeneratorInv'  BY DEF GeneratorInv
    <3>1. generators' = {}  BY <1>6 DEF Announce, GeneratorInv
    <3>2. choice' = g.for  BY <1>6 DEF Announce, GeneratorInv
    <3>3. g.for \in ExportChoices  BY <1>0, <1>6 DEF Generators
    <3> QED BY <3>1, <3>2, <3>3, ExportsAssumption DEF GeneratorInv
  <2> QED BY <2>1, <2>2
<1>7. ASSUME UNCHANGED modalVars,
             filterType' \in Types \cup {AllTypes}, selectedRows' \subseteq Records,
             refiltered' \in BOOLEAN
      PROVE  G
  <2>1. ExportsTypeOK'  BY <1>7 DEF modalVars, ExportsTypeOK
  <2>2. GeneratorInv'  BY <1>7 DEF modalVars, GeneratorInv
  <2> QED BY <2>1, <2>2
<1>8. ASSUME NEW t \in Types \cup {AllTypes}, SetFilterType(t) PROVE G
  <2>1. refiltered' \in BOOLEAN  BY <1>8 DEF SetFilterType
  <2> QED BY <1>7, <1>8, <2>1 DEF SetFilterType, ExportsTypeOK
<1>9. ASSUME NEW r \in Records, ToggleSelect(r) PROVE G
  BY <1>7, <1>9 DEF ToggleSelect, ExportsTypeOK
<1>10. CASE ToggleAll
  BY <1>7, <1>10 DEF ToggleAll, ExportsTypeOK, FilteredHistory
<1>11. CASE UNCHANGED exportsVars
  BY <1>7, <1>11 DEF exportsVars, ExportsTypeOK
<1> QED BY <1>1, <1>2, <1>3, <1>4, <1>5, <1>6, <1>8, <1>9, <1>10, <1>11 DEF ExportsNext

\* Every step keeps the selection among the rows listed.
LEMMA SelectionStep ==
  ExportsTypeOK /\ SelectionInv /\ [ExportsNext]_exportsVars => SelectionInv'
<1> SUFFICES ASSUME ExportsTypeOK, SelectionInv, [ExportsNext]_exportsVars
             PROVE  SelectionInv'
  OBVIOUS
<1>1. CASE UNCHANGED historyVars
  BY <1>1 DEF historyVars, SelectionInv, FilteredHistory
<1>2. ASSUME NEW t \in Types \cup {AllTypes}, SetFilterType(t) PROVE SelectionInv'
  BY <1>2 DEF SetFilterType, SelectionInv
<1>3. ASSUME NEW r \in Records, ToggleSelect(r) PROVE SelectionInv'
  BY <1>3 DEF ToggleSelect, SelectionInv, FilteredHistory
<1>4. CASE ToggleAll
  BY <1>4 DEF ToggleAll, SelectionInv, FilteredHistory
<1>5. \/ UNCHANGED historyVars \/ ToggleAll
      \/ \E t \in Types \cup {AllTypes} : SetFilterType(t)
      \/ \E r \in Records : ToggleSelect(r)
  BY DEF ExportsNext, exportsVars, OpenModal, CloseModal, StartGenerate, Choose, ProgressTick,
         Announce, historyVars
<1> QED BY <1>1, <1>2, <1>3, <1>4, <1>5

LEMMA ExportsInvAlways == ExportsSpec => []ExportsInv
<1>1. ExportsInit => ExportsInv
  BY DEF ExportsInit, ExportsInv, ExportsTypeOK, GeneratorInv, SelectionInv
<1>2. ExportsInv /\ [ExportsNext]_exportsVars => ExportsInv'
  BY GeneratorStep, SelectionStep DEF ExportsInv
<1> QED BY <1>1, <1>2, PTL DEF ExportsSpec

(***************************************************************************)
(* The state of the export suite keeps its types.                          *)
(***************************************************************************)
THEOREM ExportsTypeCorrect == ExportsSpec => []ExportsTypeOK
<1>1. ExportsInv => ExportsTypeOK  BY DEF ExportsInv
<1> QED BY <1>1, ExportsInvAlways, PTL

(***************************************************************************)
(* Unless the modal is changed over a generator, success is announced only *)
(* for the choice on screen and once it has been generated.                *)
(***************************************************************************)
THEOREM AnnouncedOnlyGenerated == ExportsSpec => []AnnouncedWhenGenerated
<1>1. ExportsInv => AnnouncedWhenGenerated
  <2> SUFFICES ASSUME ExportsInv, ~overlapped
               PROVE  /\ \A g \in generators : g.for = choice
                      /\ generators # {} => Cardinality(generators) = 1 /\ generating
                      /\ downloadReady => generators = {} /\ choice # NoChoice
    BY DEF AnnouncedWhenGenerated
  <2>1. GeneratorInv  BY DEF ExportsInv
  <2>2. ASSUME NEW g \in generators PROVE Cardinality(generators) = 1
    <3>1. generators = {g}  BY <2>1, <2>2 DEF GeneratorInv
    <3> QED BY <3>1, FS_Singleton
  <2> QED BY <2>1, <2>2 DEF GeneratorInv
<1> QED BY <1>1, ExportsInvAlways, PTL

(***************************************************************************)
(* The box above the history stands for the rows below it unless the       *)
(* filter changed over a selection.                                        *)
(***************************************************************************)
THEOREM HeaderStands == ExportsSpec => []HeaderStandsForRows
<1>1. ExportsInv => HeaderStandsForRows
  <2> SUFFICES ASSUME ExportsInv, ~refiltered, HeaderChecked
               PROVE  selectedRows = FilteredHistory
    BY DEF HeaderStandsForRows
  <2>1. selectedRows \subseteq FilteredHistory  BY DEF ExportsInv, SelectionInv
  <2>2. IsFiniteSet(FilteredHistory)
    BY ExportsAssumption, FS_Subset DEF FilteredHistory
  <2>3. Cardinality(selectedRows) = Cardinality(FilteredHistory)  BY DEF HeaderChecked
  <2> QED BY <2>1, <2>2, <2>3, FS_Subset
<1> QED BY <1>1, ExportsInvAlways, PTL

-----------------------------------------------------------------------------
(* The automation rules.  While only the newest rule is ever deleted, the  *)
(* numbers ascend along the list and none is above its length, so that the *)
(* next number is free.                                                    *)

AutomationRules == [id : Nat, active : BOOLEAN]

NumbersAscend ==
  /\ \A i, j \in DOMAIN rules : i < j => rules[i].id < rules[j].id
  /\ \A i \in DOMAIN rules : rules[i].id <= Len(rules)

AutomationInv == AutomationTypeOK /\ (~gap => NumbersAscend) /\ BuilderStartsClean

LEMMA AutomationInvInit == AutomationInit => AutomationInv
<1> SUFFICES ASSUME AutomationInit PROVE AutomationInv  OBVIOUS
<1>1. Seeded \in Nat  BY AutomationAssumption
<1>2. \A i \in 1..Seeded : RULES[i].id = i /\ RULES[i] \in AutomationRules
  BY <1>1 DEF RULES, AutomationRules
<1>3. RULES \in [1..Seeded -> AutomationRules]  BY <1>2 DEF RULES
<1>4. RULES \in Seq(AutomationRules) /\ Len(RULES) = Seeded /\ DOMAIN RULES = 1..Seeded
  BY <1>1, <1>3
<1>5. AutomationTypeOK
  <2>1. rules \in Seq([id : Nat, active : BOOLEAN])
    BY <1>4, Zenon DEF AutomationInit, AutomationRules
  <2>2. 1 \in 1..3  OBVIOUS
  <2> QED BY <2>1, <2>2, Zenon DEF AutomationInit, AutomationTypeOK
<1>6. NumbersAscend
  <2> HIDE DEF RULES
  <2> QED BY <1>1, <1>2, <1>4 DEF AutomationInit, NumbersAscend
<1> QED BY <1>5, <1>6 DEF AutomationInit, AutomationInv, BuilderStartsClean

\* The rules that stay after a deletion are rules of the list, as many as the
\* others were; after the newest is deleted, all but one.
LEMMA DeletedRules ==
  ASSUME AutomationInv, NEW id, DeleteRule(id)
  PROVE  /\ rules' \in Seq(AutomationRules)
         /\ ~gap' => NumbersAscend'
<1> DEFINE others == {i \in DOMAIN rules : rules[i].id # id}
           n == Cardinality(others)
           m == Len(rules)
<1>1. PICK order \in [1..n -> others] :
        /\ \A j, k \in 1..n : j < k => order[j] < order[k]
        /\ rules' = [k \in 1..n |-> rules[order[k]]]
  BY DEF DeleteRule
<1>2. /\ rules \in Seq(AutomationRules) /\ m \in Nat /\ DOMAIN rules = 1..m
      /\ \A i \in 1..m : rules[i] \in AutomationRules
  <2>1. rules \in Seq(AutomationRules)
    BY DEF AutomationInv, AutomationTypeOK, AutomationRules
  <2> QED BY <2>1
<1>3. n \in Nat
  <2>1. 1 \in Int /\ m \in Int  BY <1>2
  <2>2. IsFiniteSet(1..m)  BY <2>1, FS_Interval
  <2>3. others \subseteq 1..m  BY <1>2
  <2>4. IsFiniteSet(others)  BY <2>2, <2>3, FS_Subset
  <2> QED BY <2>4, FS_CardinalityType
<1> HIDE DEF n, m
<1>4. \A k \in 1..n : /\ order[k] \in 1..m /\ rules[order[k]].id # id
                      /\ rules'[k] = rules[order[k]] /\ rules'[k] \in AutomationRules
  BY <1>1, <1>2
<1>5. rules' \in [1..n -> AutomationRules]
  <2>1. rules' = [k \in 1..n |-> rules'[k]]  BY <1>1
  <2> QED BY <2>1, <1>4
<1>6. rules' \in Seq(AutomationRules) /\ Len(rules') = n /\ DOMAIN rules' = 1..n
  BY <1>3, <1>5
<1>7. ASSUME ~gap' PROVE NumbersAscend'
  <2>1. ~gap /\ id = rules[m].id  BY <1>7 DEF DeleteRule, m
  <2>2. /\ \A i, j \in 1..m : i < j => rules[i].id < rules[j].id
        /\ \A i \in 1..m : rules[i].id <= m /\ rules[i].id \in Nat
    BY <2>1, <1>2 DEF AutomationInv, NumbersAscend, AutomationRules, m
  <2>3. m \in 1..m
    <3>1. \E i \in 1..m : TRUE  BY <1>2 DEF DeleteRule
    <3> QED BY <3>1, <1>2
  <2>4. \A i \in 1..m : i # m => rules[i].id < id  BY <2>1, <2>2, <2>3
  <2>5. others = 1..m - 1
    <3>1. \A i \in 1..m : rules[i].id # id <=> i # m  BY <2>1, <2>4, <2>2
    <3>2. others = {i \in 1..m : i # m}  BY <3>1, <1>2
    <3> QED BY <3>2, <1>2
  <2>6. n = m - 1
    <3>1. 1 \in Int /\ m - 1 \in Int  BY <1>2
    <3>2. Cardinality(1..m - 1) = IF 1 > m - 1 THEN 0 ELSE (m - 1) - 1 + 1
      BY <3>1, FS_Interval
    <3>3. n = Cardinality(1..m - 1)  BY <2>5 DEF n
    <3> QED BY <3>2, <3>3, <2>3, <1>2
  <2>7. \A k \in 1..n : order[k] # m  BY <1>4, <2>1
  <2>8. \A k \in 1..n : rules'[k].id <= n
    <3> TAKE k \in 1..n
    <3>1. rules[order[k]].id < rules[m].id /\ rules[m].id <= m
          /\ rules[order[k]].id \in Nat /\ rules[m].id \in Nat
      BY <1>4, <2>1, <2>2, <2>3, <2>4, <2>7
    <3>2. rules[order[k]].id <= m - 1  BY <3>1, <1>2
    <3> QED BY <3>2, <1>4, <2>6
  <2>9. \A j, k \in 1..n : j < k => rules'[j].id < rules'[k].id
    BY <1>1, <1>4, <2>2
  <2> QED BY <1>6, <2>8, <2>9 DEF NumbersAscend
<1> QED BY <1>6, <1>7

LEMMA AutomationInvStep ==
  AutomationInv /\ [AutomationNext]_automationVars => AutomationInv'
<1> SUFFICES ASSUME AutomationInv, [AutomationNext]_automationVars PROVE AutomationInv'
  OBVIOUS
<1> DEFINE m == Len(rules)
<1>f. /\ rules \in Seq(AutomationRules) /\ m \in Nat /\ DOMAIN rules = 1..m
      /\ \A i \in 1..m : rules[i] \in AutomationRules
  <2>1. rules \in Seq(AutomationRules)
    BY DEF AutomationInv, AutomationTypeOK, AutomationRules
  <2> QED BY <2>1
\* What the builder does leaves the rules.
<1>b. ASSUME UNCHANGED <<rules, gap>>, BuilderStartsClean',
             showBuilder' \in BOOLEAN, showTemplates' \in BOOLEAN, builderStep' \in 1..3,
             filled' \subseteq Fields, sinceOpen' \subseteq Fields
      PROVE  AutomationInv'
  BY <1>b DEF AutomationInv, AutomationTypeOK, NumbersAscend
<1>t. /\ showBuilder \in BOOLEAN /\ showTemplates \in BOOLEAN /\ builderStep \in 1..3
      /\ filled \subseteq Fields /\ sinceOpen \subseteq Fields /\ gap \in BOOLEAN
      /\ BuilderStartsClean
  BY DEF AutomationInv, AutomationTypeOK
<1>1. ASSUME NEW id \in 1..MaxRules, ToggleRule(id) PROVE AutomationInv'
  <2>1. rules' = [i \in 1..m |-> IF rules[i].id = id THEN [rules[i] EXCEPT !.active = ~@]
                                 ELSE rules[i]]
    BY <1>1, <1>f DEF ToggleRule
  <2>2. \A i \in 1..m : rules'[i].id = rules[i].id /\ rules'[i] \in AutomationRules
    <3> TAKE i \in 1..m
    <3> DEFINE r == rules[i]
               off == [r EXCEPT !.active = ~@]
    <3>1. r \in AutomationRules  BY <1>f
    <3>2. off.id = r.id /\ off \in AutomationRules  BY <3>1 DEF AutomationRules
    <3>3. rules'[i] = IF r.id = id THEN off ELSE r  BY <2>1
    <3> QED BY <3>1, <3>2, <3>3
  <2>3. rules' \in [1..m -> AutomationRules]
    <3>1. rules' = [i \in 1..m |-> rules'[i]]  BY <2>1
    <3> QED BY <3>1, <2>2
  <2>4. rules' \in Seq(AutomationRules) /\ Len(rules') = m /\ DOMAIN rules' = 1..m
    BY <2>3, <1>f
  <2>5. UNCHANGED <<builderVars, showTemplates, gap>>  BY <1>1 DEF ToggleRule
  <2>6. ~gap => NumbersAscend'
    <3>1. ASSUME ~gap PROVE NumbersAscend'
      <4>1. /\ \A i, j \in 1..m : i < j => rules[i].id < rules[j].id
            /\ \A i \in 1..m : rules[i].id <= m
        BY <3>1, <1>f DEF AutomationInv, NumbersAscend
      <4> QED BY <4>1, <2>2, <2>4 DEF NumbersAscend
    <3> QED BY <3>1
  <2>7. AutomationTypeOK'
    BY <2>4, <2>5, <1>t DEF AutomationTypeOK, AutomationRules, builderVars
  <2> QED BY <2>5, <2>6, <2>7, <1>t DEF AutomationInv, BuilderStartsClean, builderVars
<1>2. ASSUME NEW id \in 1..MaxRules, DeleteRule(id) PROVE AutomationInv'
  <2>1. rules' \in Seq(AutomationRules) /\ (~gap' => NumbersAscend')
    BY <1>2, DeletedRules
  <2>2. UNCHANGED <<builderVars, showTemplates>> /\ gap' \in BOOLEAN
    BY <1>2, <1>t DEF DeleteRule
  <2>3. AutomationTypeOK'
    BY <2>1, <2>2, <1>t DEF AutomationTypeOK, AutomationRules, builderVars
  <2> QED BY <2>1, <2>2, <2>3, <1>t DEF AutomationInv, BuilderStartsClean, builderVars
<1>3. CASE OpenBuilder
  BY <1>3, <1>b, <1>t DEF OpenBuilder, ResetBuilder, BuilderStartsClean
<1>4. CASE CloseBuilder
  BY <1>4, <1>b, <1>t DEF CloseBuilder, BuilderStartsClean
<1>5. CASE ToggleTemplates
  BY <1>5, <1>b, <1>t DEF ToggleTemplates, builderVars, BuilderStartsClean
<1>6. CASE ApplyTemplate
  <2>1. Required \subseteq Fields /\ Fields = Required \cup {"condition"}
    BY DEF Required, Fields
  <2>2. /\ filled' = filled \cup Required /\ sinceOpen' = Required
        /\ showTemplates' = FALSE /\ builderStep' = 1 /\ showBuilder' = TRUE
        /\ UNCHANGED <<rules, gap>>
    BY <1>6 DEF ApplyTemplate
  <2>3. filled' \subseteq Fields /\ sinceOpen' \subseteq Fields  BY <2>1, <2>2, <1>t
  <2>4. BuilderStartsClean'  BY <2>1, <2>2, <1>t DEF BuilderStartsClean
  <2>5. 1 \in 1..3  OBVIOUS
  <2>6. UNCHANGED <<rules, gap>>  BY <2>2
  <2>7. showBuilder' \in BOOLEAN /\ showTemplates' \in BOOLEAN  BY <2>2
  <2>8. builderStep' \in 1..3  BY <2>2, <2>5
  <2> QED BY <2>3, <2>4, <2>6, <2>7, <2>8, <1>b
<1>7. CASE HandleSaveRule
  <2> DEFINE new == [id |-> m + 1, active |-> TRUE]
  <2>1. new \in AutomationRules /\ new.id = m + 1  BY <1>f DEF AutomationRules
  <2>2. /\ rules' = Append(rules, new) /\ showBuilder' = FALSE
        /\ builderStep' = 1 /\ filled' = {} /\ UNCHANGED <<showTemplates, gap, sinceOpen>>
    BY <1>7 DEF HandleSaveRule, ResetBuilder
  <2> HIDE DEF new, m
  <2>3. /\ rules' \in Seq(AutomationRules) /\ Len(rules') = m + 1
        /\ DOMAIN rules' = 1..m + 1 /\ rules'[m + 1] = new
        /\ \A i \in 1..m : rules'[i] = rules[i]
    BY <2>1, <2>2, <1>f DEF m
  <2>4. AutomationTypeOK'
    <3>1. (rules \in Seq([id : Nat, active : BOOLEAN]))'  BY <2>3, Zenon DEF AutomationRules
    <3>2. 1 \in 1..3 /\ {} \subseteq Fields  OBVIOUS
    <3> QED BY <2>2, <3>1, <3>2, <1>t, Zenon DEF AutomationTypeOK
  <2>5. ASSUME ~gap PROVE NumbersAscend'
    <3>1. /\ \A i, j \in 1..m : i < j => rules[i].id < rules[j].id
          /\ \A i \in 1..m : rules[i].id <= m /\ rules[i].id \in Nat
      BY <2>5, <1>f DEF AutomationInv, NumbersAscend, AutomationRules, m
    <3>2. \A i \in 1..m + 1 : i \in 1..m \/ i = m + 1  BY <1>f
    <3>3. \A i \in 1..m + 1 : rules'[i].id <= m + 1  BY <1>f, <2>1, <2>3, <3>1, <3>2
    <3>4. \A i, j \in 1..m + 1 : i < j => rules'[i].id < rules'[j].id
      BY <1>f, <2>1, <2>3, <3>1, <3>2
    <3> QED BY <2>3, <3>3, <3>4 DEF NumbersAscend
  <2> QED BY <2>2, <2>4, <2>5 DEF AutomationInv, BuilderStartsClean
<1>8. ASSUME NEW field \in Fields, FillIn(field) PROVE AutomationInv'
  BY <1>8, <1>b, <1>t DEF FillIn, BuilderStartsClean
<1>9. ASSUME NEW field \in Fields, ClearField(field) PROVE AutomationInv'
  BY <1>9, <1>b, <1>t DEF ClearField, BuilderStartsClean
<1>10. ASSUME NEW s \in 1..3, SetBuilderStep(s) PROVE AutomationInv'
  BY <1>10, <1>b, <1>t DEF SetBuilderStep, BuilderStartsClean
<1>11. CASE UNCHANGED automationVars
  BY <1>11, <1>b, <1>t DEF automationVars, BuilderStartsClean
<1> QED BY <1>1, <1>2, <1>3, <1>4, <1>5, <1>6, <1>7, <1>8, <1>9, <1>10, <1>11
        DEF AutomationNext

LEMMA AutomationInvAlways == AutomationSpec => []AutomationInv
BY AutomationInvInit, AutomationInvStep, PTL DEF AutomationSpec

\* The automation page: every variable keeps its type, for any number of rules.
THEOREM AutomationTypeCorrect == AutomationSpec => []AutomationTypeOK
<1>1. AutomationInv => AutomationTypeOK  BY DEF AutomationInv
<1> QED BY <1>1, AutomationInvAlways, PTL

\* As long as only the newest rule is ever deleted, no two rules share a number,
\* however many are added, toggled and deleted.
THEOREM NumbersUnique == AutomationSpec => []OneRulePerNumber
<1>1. AutomationInv => OneRulePerNumber
  <2> SUFFICES ASSUME AutomationInv, ~gap,
                      NEW i \in DOMAIN rules, NEW j \in DOMAIN rules, rules[i].id = rules[j].id
               PROVE  i = j
    BY DEF OneRulePerNumber
  <2>1. i \in Int /\ j \in Int /\ rules[i].id \in Nat /\ rules[j].id \in Nat
    <3>1. rules \in Seq(AutomationRules)
      BY DEF AutomationInv, AutomationTypeOK, AutomationRules
    <3>2. DOMAIN rules \subseteq Int /\ \A k \in DOMAIN rules : rules[k] \in AutomationRules
      BY <3>1
    <3> QED BY <3>2 DEF AutomationRules
  <2>2. ~(i < j) /\ ~(j < i)  BY <2>1 DEF AutomationInv, NumbersAscend
  <2> QED BY <2>1, <2>2
<1> QED BY <1>1, AutomationInvAlways, PTL

\* What a rule builder shows was typed since it was opened, or a template put it
\* there, but for the condition of an abandoned rule under a template.
THEOREM BuilderClean == AutomationSpec => []BuilderStartsClean
<1>1. AutomationInv => BuilderStartsClean  BY DEF AutomationInv
<1> QED BY <1>1, AutomationInvAlways, PTL

-----------------------------------------------------------------------------
(* The console.  Whichever page is open runs as it does alone, and the     *)
(* others stand still.                                                     *)

LEMMA PageSteps ==
  [ConsoleNext]_consoleVars =>
         /\ [VettingNext]_vettingVars
         /\ [OnboardingNext]_onboardingVars
         /\ [AutomationNext]_automationVars
         /\ [ExportsNext]_exportsVars
         /\ [RiskQueueNext]_riskQueueVars
         /\ [DecisionRoomNext]_decisionRoomVars
BY DEF ConsoleNext, consoleVars

\* The console is each of its pages: what is proved of a page alone holds of
\* the page as the console opens it.
THEOREM FormsRunAlone == ConsoleSpec =>
          /\ VettingSpec
          /\ OnboardingSpec
          /\ AutomationSpec
          /\ ExportsSpec
          /\ RiskQueueSpec
          /\ DecisionRoomSpec
<1>1. ConsoleInit => /\ VettingInit
                     /\ OnboardingInit
                     /\ AutomationInit
                     /\ ExportsInit
                     /\ RiskQueueInit
                     /\ DecisionRoomInit
  BY DEF ConsoleInit
<1> QED BY <1>1, PageSteps, PTL
        DEF ConsoleSpec, VettingSpec, OnboardingSpec, AutomationSpec, ExportsSpec,
            RiskQueueSpec, DecisionRoomSpec

\* Every page of the console keeps its types.
THEOREM FormsTypesCorrect == ConsoleSpec => []FormsTypeOK
<1>1. ConsoleSpec => /\ []VettingTypeOK
                     /\ []OnboardingTypeOK
                     /\ []AutomationTypeOK
                     /\ []ExportsTypeOK
                     /\ []RiskQueueTypeOK
                     /\ []DecisionRoomTypeOK
  BY FormsRunAlone, VettingTypeCorrect, OnboardingTypeCorrect, AutomationTypeCorrect,
     ExportsTypeCorrect, RiskQueueTypeCorrect, DecisionRoomTypeCorrect
<1>2. /\ VettingTypeOK
      /\ OnboardingTypeOK
      /\ AutomationTypeOK
      /\ ExportsTypeOK
      /\ RiskQueueTypeOK
      /\ DecisionRoomTypeOK
      => FormsTypeOK
  BY DEF FormsTypeOK
<1> QED BY <1>1, <1>2, PTL
=============================================================================
