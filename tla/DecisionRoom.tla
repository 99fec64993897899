---------------------------- MODULE DecisionRoom ----------------------------
(***************************************************************************)
(* The decision room of one client (app/clients/[id]/decision-room):       *)
(* the deal stage tracker, the modal that schedules a meeting, the modal   *)
(* that logs the session's decision, and the toast all three announce      *)
(* themselves with.                                                        *)
(*                                                                         *)
(* The three requests go to routes outside this repository: whatever       *)
(* becomes of them, recorded, refused or never answered, the page says the *)
(* same.  A toast starts a timer, which a later toast does not cancel.     *)
(***************************************************************************)
EXTENDS Integers, FiniteSets

CONSTANTS
  Stages,      \* DEAL_STAGES
  FirstStage,  \* the stage the client is loaded with
  Forms,       \* what can be typed into the meeting form, besides nothing
  Blank,       \* the meeting form as it opens
  PatchSlots,  \* bound: one for each stage change in flight
  ToastSlots   \* bound: one for each toast timer running

ASSUME DecisionRoomAssumption ==
  /\ FirstStage \in Stages /\ Blank \notin Forms

VARIABLES
  dealStage, patches,
  showSchedule, meeting, savingMeeting,
  showLog, outcomeChosen, savingLog, decisionLogged,
  toast, toastTimers,
  posted,        \* history: decisions posted on this visit
  onRecord,      \* history: whether the route recorded one
  overlapping,   \* history: a toast came while the timer of another ran
  retyped        \* history: the meeting form was edited while it was saved

stageVars == <<dealStage, patches>>
meetingVars == <<showSchedule, meeting, savingMeeting, retyped>>
logVars == <<showLog, outcomeChosen, savingLog, decisionLogged, posted, onRecord>>
toastVars == <<toast, toastTimers, overlapping>>
decisionRoomVars == <<stageVars, meetingVars, logVars, toastVars>>

NoToast == "none"
NotSaving == [sent |-> FALSE, form |-> Blank]
Toasts == {"stage", "meeting", "decision"}
Timers == [slot : ToastSlots, of : Toasts]

DecisionRoomInit ==
  /\ dealStage = FirstStage /\ patches = {}
  /\ showSchedule = FALSE /\ meeting = Blank /\ savingMeeting = NotSaving
  /\ showLog = FALSE /\ outcomeChosen = FALSE
  /\ savingLog = FALSE /\ decisionLogged = FALSE
  /\ toast = NoToast /\ toastTimers = {}
  /\ posted = 0 /\ onRecord = FALSE /\ overlapping = FALSE /\ retyped = FALSE

\* A modal covers the page, the toast excepted.
NoModal == ~showSchedule /\ ~showLog

-----------------------------------------------------------------------------
(* The toast. *)

ShowToast(what) ==
  \E slot \in ToastSlots :
    /\ \A t \in toastTimers : t.slot # slot
    /\ toast' = what
    /\ toastTimers' = toastTimers \cup {[slot |-> slot, of |-> what]}
    /\ overlapping' = (overlapping \/ toastTimers # {})

\* Every timer clears the toast, also one that came later.
ToastTimer(t) ==
  /\ t \in toastTimers
  /\ toast' = NoToast /\ toastTimers' = toastTimers \ {t}
  /\ UNCHANGED <<stageVars, meetingVars, logVars, overlapping>>

-----------------------------------------------------------------------------
(* The stage tracker: the stage changes on screen before it is asked for. *)

UpdateDealStage(s) ==
  /\ NoModal
  /\ \E slot \in PatchSlots :
       /\ \A p \in patches : p.slot # slot
       /\ patches' = patches \cup {[slot |-> slot, stage |-> s]}
  /\ dealStage' = s
  /\ UNCHANGED <<meetingVars, logVars, toastVars>>

PatchEnds(p) ==
  /\ p \in patches /\ patches' = patches \ {p}
  /\ ShowToast("stage")
  /\ UNCHANGED <<dealStage, meetingVars, logVars>>

-----------------------------------------------------------------------------
(* The meeting modal. *)

\* Mutant: the form is emptied when the modal is opened.
OpenSchedule_Emptied == /\ NoModal /\ showSchedule' = TRUE /\ meeting' = Blank
                        /\ UNCHANGED <<stageVars, savingMeeting, retyped, logVars, toastVars>>

OpenSchedule == /\ NoModal /\ showSchedule' = TRUE
                /\ UNCHANGED <<stageVars, meeting, savingMeeting, retyped, logVars, toastVars>>
CancelSchedule == /\ showSchedule /\ showSchedule' = FALSE
                  /\ UNCHANGED <<stageVars, meeting, savingMeeting, retyped, logVars, toastVars>>
TypeMeeting(form) ==
  /\ showSchedule /\ form # meeting /\ meeting' = form
  /\ retyped' = (retyped \/ savingMeeting.sent)
  /\ UNCHANGED <<stageVars, showSchedule, savingMeeting, logVars, toastVars>>

SaveMeeting ==
  /\ showSchedule /\ ~savingMeeting.sent
  /\ savingMeeting' = [sent |-> TRUE, form |-> meeting]
  /\ UNCHANGED <<stageVars, showSchedule, meeting, retyped, logVars, toastVars>>

\* The form is emptied and the modal closed, whatever they show by now.
MeetingSaved ==
  /\ savingMeeting.sent /\ savingMeeting' = NotSaving
  /\ showSchedule' = FALSE /\ meeting' = Blank
  /\ ShowToast("meeting")
  /\ UNCHANGED <<stageVars, retyped, logVars>>

-----------------------------------------------------------------------------
(* The decision log. *)

OpenLog == /\ NoModal /\ ~decisionLogged /\ showLog' = TRUE
           /\ UNCHANGED <<stageVars, meetingVars, outcomeChosen, savingLog, decisionLogged,
                          posted, onRecord, toastVars>>
CancelLog == /\ showLog /\ showLog' = FALSE
             /\ UNCHANGED <<stageVars, meetingVars, outcomeChosen, savingLog, decisionLogged,
                            posted, onRecord, toastVars>>
ChooseOutcome == /\ showLog /\ outcomeChosen' = TRUE
                 /\ UNCHANGED <<stageVars, meetingVars, showLog, savingLog, decisionLogged,
                                posted, onRecord, toastVars>>

SaveDecisionLog ==
  /\ showLog /\ ~savingLog /\ outcomeChosen
  /\ savingLog' = TRUE /\ posted' = posted + 1
  /\ UNCHANGED <<stageVars, meetingVars, showLog, outcomeChosen, decisionLogged, onRecord,
                 toastVars>>

\* Recorded or not: neither the status of the answer nor its absence is told
\* from success.
DecisionSaved ==
  /\ savingLog /\ savingLog' = FALSE
  /\ decisionLogged' = TRUE /\ showLog' = FALSE /\ outcomeChosen' = FALSE
  /\ onRecord' \in {onRecord, TRUE}
  /\ ShowToast("decision")
  /\ UNCHANGED <<stageVars, meetingVars, posted>>

DecisionRoomNext ==
  \/ \E s \in Stages : UpdateDealStage(s)
  \/ \E p \in patches : PatchEnds(p)
  \/ OpenSchedule \/ CancelSchedule \/ SaveMeeting \/ MeetingSaved
  \/ \E form \in Forms \cup {Blank} : TypeMeeting(form)
  \/ OpenLog \/ CancelLog \/ ChooseOutcome \/ SaveDecisionLog \/ DecisionSaved
  \/ \E t \in toastTimers : ToastTimer(t)

DecisionRoomSpec == DecisionRoomInit /\ [][DecisionRoomNext]_decisionRoomVars

-----------------------------------------------------------------------------
DecisionRoomTypeOK ==
  /\ dealStage \in Stages /\ patches \subseteq [slot : PatchSlots, stage : Stages]
  /\ showSchedule \in BOOLEAN /\ meeting \in Forms \cup {Blank} /\ retyped \in BOOLEAN
  /\ savingMeeting \in [sent : BOOLEAN, form : Forms \cup {Blank}]
  /\ showLog \in BOOLEAN /\ outcomeChosen \in BOOLEAN
  /\ savingLog \in BOOLEAN /\ decisionLogged \in BOOLEAN
  /\ toast \in Toasts \cup {NoToast} /\ toastTimers \subseteq Timers
  /\ posted \in Nat /\ onRecord \in BOOLEAN /\ overlapping \in BOOLEAN

\* A visit posts one decision at most, however often its modal is cancelled
\* and opened again while the first is on its way.
OneDecisionPosted == posted <= 1

\* A toast on screen goes only with its own timer, as long as no toast comes
\* while the timer of another runs.
ToastHasItsTimer ==
  ~overlapping => {t.of : t \in toastTimers} = {toast} \ {NoToast}

\* Unless the form is edited while it is saved, what the end of the save erases
\* is what was sent, though the modal may have been closed and opened since.
ErasesWhatItSent == savingMeeting.sent /\ ~retyped => meeting = savingMeeting.form
=============================================================================
