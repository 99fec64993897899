------------------------------ MODULE RiskQueue ------------------------------
(***************************************************************************)
(* The risk review queue (app/risk-queue/page.tsx): flagged outputs, the   *)
(* tab and rule that filter them, and the drawer that reviews one.         *)
(*                                                                         *)
(* The drawer keeps a copy of the item it was opened on; the buttons in    *)
(* the row and in the drawer decide by number.  The note typed in the      *)
(* drawer goes nowhere: "Approve with Notes" passes the status alone.      *)
(***************************************************************************)
EXTENDS Integers, FiniteSets

CONSTANTS
  QueueItems,    \* QUEUE_ITEMS, by number
  OpensAs,        \* the status each opens with
  RuleOf,        \* the rule that flagged each
  Rules,         \* GUARDRAIL_RULES: the rules listed beside the queue
  NoItem, NoRule

Status == {"Pending", "Approved", "Rejected", "Escalated", "Archived"}
Decisions == {"Approved", "Rejected", "Escalated"}

ASSUME RiskQueueAssumption ==
  /\ IsFiniteSet(QueueItems) /\ NoItem \notin QueueItems
  /\ OpensAs \in [QueueItems -> Status]
  /\ DOMAIN RuleOf = QueueItems /\ NoRule \notin Rules

VARIABLES
  items,          \* the status of each item
  queueTab,       \* the tab: a status, or "All"
  activeRule,
  selectedItem,   \* the drawer's copy: number and status
  drawerOpen

riskQueueVars == <<items, queueTab, activeRule, selectedItem, drawerOpen>>

Closed == [id |-> NoItem, status |-> "Pending"]
Tabs == Status \cup {"All"}

RiskQueueInit == /\ items = OpensAs
                 /\ queueTab = "All" /\ activeRule = NoRule
                 /\ selectedItem = Closed /\ drawerOpen = FALSE

QueueFiltered == {i \in QueueItems : /\ queueTab \in {"All", items[i]}
                                     /\ activeRule \in {NoRule, RuleOf[i]}}
TabCount(tab) == Cardinality({i \in QueueItems : tab \in {"All", items[i]}})

\* A tab drops the rule; a rule keeps the tab.  Both lie under the overlay of
\* an open drawer.
SetActiveTab(tab) == /\ ~drawerOpen /\ queueTab' = tab /\ activeRule' = NoRule
                     /\ UNCHANGED <<items, selectedItem, drawerOpen>>
ToggleActiveRule(rule) == /\ ~drawerOpen
                          /\ activeRule' = IF activeRule = rule THEN NoRule ELSE rule
                          /\ UNCHANGED <<items, queueTab, selectedItem, drawerOpen>>

OpenDrawer(i) == /\ ~drawerOpen /\ i \in QueueFiltered
                 /\ drawerOpen' = TRUE /\ selectedItem' = [id |-> i, status |-> items[i]]
                 /\ UNCHANGED <<items, queueTab, activeRule>>

CloseDrawerNow == drawerOpen' = FALSE /\ selectedItem' = Closed
CloseDrawer == drawerOpen /\ CloseDrawerNow /\ UNCHANGED <<items, queueTab, activeRule>>

UpdateStatus(i, status) ==
  /\ items' = [items EXCEPT ![i] = status]
  /\ CloseDrawerNow
  /\ UNCHANGED <<queueTab, activeRule>>

\* Mutant: every row has the buttons.
DecideInRow_Always(i, status) ==
  ~drawerOpen /\ i \in QueueFiltered /\ UpdateStatus(i, status)

\* The row's buttons are drawn by the item's status, the drawer's by the copy.
DecideInRow(i, status) ==
  ~drawerOpen /\ i \in QueueFiltered /\ items[i] = "Pending" /\ UpdateStatus(i, status)
DecideInDrawer(status) ==
  drawerOpen /\ selectedItem.status = "Pending" /\ UpdateStatus(selectedItem.id, status)

RiskQueueNext ==
  \/ \E tab \in Tabs : SetActiveTab(tab)
  \/ \E rule \in Rules : ToggleActiveRule(rule)
  \/ \E i \in QueueItems : OpenDrawer(i) \/ \E s \in Decisions : DecideInRow(i, s)
  \/ CloseDrawer
  \/ \E s \in Decisions : DecideInDrawer(s)

RiskQueueSpec == RiskQueueInit /\ [][RiskQueueNext]_riskQueueVars

-----------------------------------------------------------------------------
RiskQueueTypeOK ==
  /\ items \in [QueueItems -> Status]
  /\ queueTab \in Tabs /\ activeRule \in Rules \cup {NoRule}
  /\ selectedItem \in [id : QueueItems \cup {NoItem}, status : Status]
  /\ drawerOpen \in BOOLEAN

\* The copy under review is never older than the row it was made from: nothing
\* decides an item behind an open drawer.
DrawerIsCurrent ==
  IF drawerOpen
    THEN selectedItem.id \in QueueItems /\ selectedItem.status = items[selectedItem.id]
    ELSE selectedItem = Closed

\* A decision is final: whatever sequence of rows, drawers and tabs led to it,
\* no later step changes the status of an item that was not pending.
DecisionIsFinal ==
  [][\A i \in QueueItems : items[i] # "Pending" => items'[i] = items[i]]_riskQueueVars

\* The review under way is of an item the list behind it shows, and the list
\* has as many rows as its tab counts unless a rule narrows it.
ListAgrees ==
  /\ drawerOpen => selectedItem.id \in QueueFiltered
  /\ activeRule = NoRule => Cardinality(QueueFiltered) = TabCount(queueTab)
=============================================================================
