------------------------------- MODULE Deliver -------------------------------
(***************************************************************************)
(* The fulfilment page (app/deliver/page.tsx): the filtered table with its *)
(* selection, the quality checklist of each deliverable and the detail     *)
(* drawer with its "Mark delivered" button.                                *)
(*                                                                         *)
(* A checklist nobody has touched is drawn from the count the deliverable  *)
(* came with; the first tick replaces it by a set that starts empty.       *)
(***************************************************************************)
EXTENDS Integers, FiniteSets

CONSTANTS
  Deliverables,
  ChecklistLength, \* QA_CHECKLIST_ITEMS.length
  QaComplete,      \* items done when the page opens, per deliverable
  TabRows,         \* the deliverables each combination of tab and filters keeps
  FirstTab,        \* the combination that keeps them all
  TimerSlots,      \* bound: one for each "Mark delivered" timer running
  NoDeliverable

Items == 0..ChecklistLength - 1

ASSUME DeliverAssumption ==
  /\ IsFiniteSet(Deliverables) /\ NoDeliverable \notin Deliverables
  /\ ChecklistLength \in Nat /\ QaComplete \in [Deliverables -> 0..ChecklistLength]
  /\ \A t \in DOMAIN TabRows : TabRows[t] \subseteq Deliverables
  /\ FirstTab \in DOMAIN TabRows

VARIABLES
  activeTab, selectedIds,
  qaTouched, qaChecked,   \* whether qaChecked has an entry, and its set
  qaDrawer, detailDrawer,
  pressed,                \* the detail drawer's button has been pressed
  delivering,             \* timers that will close the drawer: for which item
  retabbed,               \* history: the rows changed under a selection
  reopened                \* history: a drawer opened while a timer ran

tableVars == <<activeTab, selectedIds, retabbed>>
qaVars == <<qaTouched, qaChecked>>
drawerVars == <<qaDrawer, detailDrawer, pressed, delivering, reopened>>
deliverVars == <<tableVars, qaVars, drawerVars>>

DeliverInit ==
  /\ activeTab = FirstTab /\ selectedIds = {} /\ retabbed = FALSE
  /\ qaTouched = {} /\ qaChecked = [d \in Deliverables |-> {}]
  /\ qaDrawer = NoDeliverable /\ detailDrawer = NoDeliverable
  /\ pressed = FALSE /\ delivering = {} /\ reopened = FALSE

-----------------------------------------------------------------------------
(* The table. *)

Filtered == TabRows[activeTab]
Uncovered == qaDrawer = NoDeliverable /\ detailDrawer = NoDeliverable

SetTab(t) == /\ Uncovered /\ t # activeTab
             /\ activeTab' = t /\ retabbed' = (retabbed \/ selectedIds # {})
             /\ UNCHANGED <<selectedIds, qaVars, drawerVars>>
ToggleId(d) ==
  /\ Uncovered /\ d \in Filtered
  /\ selectedIds' = IF d \in selectedIds THEN selectedIds \ {d} ELSE selectedIds \cup {d}
  /\ UNCHANGED <<activeTab, retabbed, qaVars, drawerVars>>

SameSize == Cardinality(selectedIds) = Cardinality(Filtered)
AllBoxChecked == SameSize /\ Filtered # {}
ToggleAllVisible ==
  /\ Uncovered
  /\ selectedIds' = IF SameSize THEN {} ELSE Filtered
  /\ UNCHANGED <<activeTab, retabbed, qaVars, drawerVars>>

-----------------------------------------------------------------------------
(* The checklist, drawn by both drawers. *)

\* The boxes drawn as ticked.
Boxes(d) == IF d \in qaTouched THEN qaChecked[d] ELSE {i \in Items : i < QaComplete[d]}

ToggleQaItem(d, i) ==
  /\ d \in {qaDrawer, detailDrawer} \ {NoDeliverable}
  /\ qaChecked' = [qaChecked EXCEPT ![d] = IF i \in @ THEN @ \ {i} ELSE @ \cup {i}]
  /\ qaTouched' = qaTouched \cup {d}
  /\ UNCHANGED <<tableVars, drawerVars>>

\* The code writes out the indices of its four items.
MarkAllQa ==
  /\ qaDrawer # NoDeliverable
  /\ qaChecked' = [qaChecked EXCEPT ![qaDrawer] = Items]
  /\ qaTouched' = qaTouched \cup {qaDrawer}
  /\ UNCHANGED <<tableVars, drawerVars>>

-----------------------------------------------------------------------------
(* The drawers. *)

OpenQa(d) == /\ Uncovered /\ d \in Filtered /\ qaDrawer' = d
             /\ UNCHANGED <<tableVars, qaVars, detailDrawer, pressed, delivering, reopened>>
CloseQa == /\ qaDrawer # NoDeliverable /\ qaDrawer' = NoDeliverable
           /\ UNCHANGED <<tableVars, qaVars, detailDrawer, pressed, delivering, reopened>>

OpenDetail(d) == /\ Uncovered /\ d \in Filtered
                 /\ detailDrawer' = d /\ pressed' = FALSE
                 /\ reopened' = (reopened \/ delivering # {})
                 /\ UNCHANGED <<tableVars, qaVars, qaDrawer, delivering>>
CloseDetail == /\ detailDrawer # NoDeliverable /\ detailDrawer' = NoDeliverable
               /\ UNCHANGED <<tableVars, qaVars, qaDrawer, pressed, delivering, reopened>>

\* Mutant: the button does not disable itself.
MarkDelivered_Again ==
  /\ detailDrawer # NoDeliverable /\ pressed' = TRUE
  /\ \E slot \in TimerSlots :
       /\ \A t \in delivering : t.slot # slot
       /\ delivering' = delivering \cup {[slot |-> slot, for |-> detailDrawer]}
  /\ UNCHANGED <<tableVars, qaVars, qaDrawer, detailDrawer, reopened>>

\* The button disables itself until the drawer is drawn anew.
MarkDelivered ==
  /\ detailDrawer # NoDeliverable /\ ~pressed /\ pressed' = TRUE
  /\ \E slot \in TimerSlots :
       /\ \A t \in delivering : t.slot # slot
       /\ delivering' = delivering \cup {[slot |-> slot, for |-> detailDrawer]}
  /\ UNCHANGED <<tableVars, qaVars, qaDrawer, detailDrawer, reopened>>

\* A second later the timer closes the detail drawer, whatever it shows.
DeliveredTimer(t) ==
  /\ t \in delivering /\ delivering' = delivering \ {t}
  /\ detailDrawer' = NoDeliverable
  /\ UNCHANGED <<tableVars, qaVars, qaDrawer, pressed, reopened>>

DeliverNext ==
  \/ \E t \in DOMAIN TabRows : SetTab(t)
  \/ \E d \in Deliverables :
       \/ ToggleId(d) \/ OpenQa(d) \/ OpenDetail(d)
       \/ \E i \in Items : ToggleQaItem(d, i)
  \/ ToggleAllVisible \/ MarkAllQa \/ CloseQa \/ CloseDetail \/ MarkDelivered
  \/ \E t \in delivering : DeliveredTimer(t)

DeliverSpec == DeliverInit /\ [][DeliverNext]_deliverVars

-----------------------------------------------------------------------------
DeliverTypeOK ==
  /\ activeTab \in DOMAIN TabRows /\ selectedIds \subseteq Deliverables
  /\ qaTouched \subseteq Deliverables /\ qaChecked \in [Deliverables -> SUBSET Items]
  /\ qaDrawer \in Deliverables \cup {NoDeliverable}
  /\ detailDrawer \in Deliverables \cup {NoDeliverable}
  /\ delivering \subseteq [slot : TimerSlots, for : Deliverables]
  /\ pressed \in BOOLEAN /\ retabbed \in BOOLEAN /\ reopened \in BOOLEAN

\* The box in the header compares two sizes; it stands for the rows below it as
\* long as the rows do not change under a selection.
SelectAllMeansRows == ~retabbed => (AllBoxChecked => selectedIds = Filtered)

\* Once a checklist was touched, a tick of it is undone by a click on its own box
\* and by nothing else, whatever drawers, tabs and timers do meanwhile.  The first
\* click of all undoes every tick but its own: the list it changes starts empty.
TicksAreKept ==
  [][\A d \in qaTouched : \A i \in Boxes(d) \ Boxes(d)' : ToggleQaItem(d, i)]_deliverVars

\* As long as no drawer is opened while a timer runs, a deliverable is marked
\* once per opening, and the timer closes the drawer it was started in.
MarkedOncePerOpening ==
  ~reopened => /\ Cardinality(delivering) <= 1
               /\ \A t \in delivering : detailDrawer \in {t.for, NoDeliverable}
=============================================================================
