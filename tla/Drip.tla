---------------------------------- MODULE Drip ----------------------------------
(***************************************************************************)
(* One user's emails of one sequence (services/backbone/email_drip.py and  *)
(* jobs/tasks/drip_tasks.py): enrolled after registration by a task that   *)
(* may be retried, advanced by the processor of pending rows and by        *)
(* administrators, stopped by administrators.                              *)
(*                                                                         *)
(* Each is a session that reads the row and writes it back at its commit,  *)
(* the columns it assigned and no others.  Nothing makes the row unique,   *)
(* and a query takes any of those there are.                               *)
(***************************************************************************)
EXTENDS Integers, Sequences

CONSTANTS
  Steps,         \* emails of the sequence
  SessionSlots,  \* bound: one for each session
  MaxRows,       \* bound: rows of the user
  MaxSent        \* bound: emails reported

ASSUME DripAssumption == Steps \in Nat \ {0} /\ MaxRows \in Nat /\ MaxSent \in Nat

VARIABLES
  dripRows,  \* the committed rows
  sessions,  \* what each session is doing and what it read
  reported,  \* the steps reported sent, in the order of the commits
  crossing   \* history: a session committed while another had read

dripVars == <<dripRows, sessions, reported, crossing>>

DripRows == [step : 0..Steps, completed : BOOLEAN,
             next : {"none", "later", "now"}]  \* next_send_at against the clock
SessionKinds == {"enrol", "advance", "stop"}
Sessions == [slot : SessionSlots, kind : SessionKinds, at : {"called", "read"},
             row : 0..MaxRows, step : 0..Steps]
NoRow == 0

DripInit == dripRows = <<>> /\ sessions = {} /\ reported = <<>> /\ crossing = FALSE

\* A task or a request begins.  The processor advances when it finds a row whose
\* time has come and that is not completed, an administrator whenever asked; the
\* row either of them advances is read afterwards.
Called ==
  /\ \E slot \in SessionSlots, kind \in SessionKinds :
       /\ \A s \in sessions : s.slot # slot
       /\ sessions' = sessions \cup
            {[slot |-> slot, kind |-> kind, at |-> "called", row |-> NoRow, step |-> 0]}
  /\ UNCHANGED <<dripRows, reported, crossing>>

Turns(s, next) ==
  /\ sessions' = (sessions \ {s}) \cup next
  /\ UNCHANGED <<dripRows, reported, crossing>>

\* Mutant: a row that is there is advanced all the same.
EnrolReads_Again(s) ==
  /\ s \in sessions /\ s.kind = "enrol" /\ s.at = "called"
  /\ Turns(s, {[s EXCEPT !.at = "read"]})

\* An enrolment that finds a row is done: already_enrolled.
EnrolReads(s) ==
  /\ s \in sessions /\ s.kind = "enrol" /\ s.at = "called"
  /\ Turns(s, IF dripRows = <<>> THEN {[s EXCEPT !.at = "read"]} ELSE {})

Crosses(s) == crossing' = (crossing \/ \E t \in sessions \ {s} : t.at = "read")

\* Mutant: the row says nothing of when to send.
EnrolCommits_NotDue(s) ==
  /\ s \in sessions /\ s.kind = "enrol" /\ s.at = "read" /\ Len(dripRows) < MaxRows
  /\ dripRows' = Append(dripRows, [step |-> 0, completed |-> FALSE, next |-> "none"])
  /\ sessions' = (sessions \ {s}) \cup {[s EXCEPT !.kind = "advance", !.at = "called"]}
  /\ Crosses(s) /\ UNCHANGED reported

\* The row is committed, due at once, and advanced in the same task.
EnrolCommits(s) ==
  /\ s \in sessions /\ s.kind = "enrol" /\ s.at = "read" /\ Len(dripRows) < MaxRows
  /\ dripRows' = Append(dripRows, [step |-> 0, completed |-> FALSE, next |-> "now"])
  /\ sessions' = (sessions \ {s}) \cup {[s EXCEPT !.kind = "advance", !.at = "called"]}
  /\ Crosses(s) /\ UNCHANGED reported

\* An advance of a completed row ends; one without a row makes its own.  A row
\* at its last step is always completed, so the test of its length is idle.
AdvanceReads(s) ==
  /\ s \in sessions /\ s.kind = "advance" /\ s.at = "called"
  /\ \/ /\ dripRows = <<>> /\ Turns(s, {[s EXCEPT !.at = "read"]})
     \/ \E r \in DOMAIN dripRows :
          Turns(s, IF dripRows[r].completed THEN {}
                  ELSE {[s EXCEPT !.at = "read", !.row = r, !.step = dripRows[r].step]})

Ends(step) == step + 1 = Steps
NextSend(step) == IF Ends(step) THEN "none" ELSE "later"
Reports(s) ==
  /\ Len(reported) < MaxSent /\ reported' = Append(reported, s.step)
  /\ sessions' = sessions \ {s}

\* The next step and when to send it; after the last, completed.
Advanced(row, step) ==
  [row EXCEPT !.step = step + 1, !.completed = @ \/ Ends(step), !.next = NextSend(step)]

AdvanceCommits(s) ==
  /\ s \in sessions /\ s.kind = "advance" /\ s.at = "read" /\ s.row # NoRow
  /\ dripRows' = [dripRows EXCEPT ![s.row] = Advanced(dripRows[s.row], s.step)]
  /\ Reports(s) /\ Crosses(s)

\* The row it makes is inserted as it stands after the first step.
AdvanceInserts(s) ==
  /\ s \in sessions /\ s.kind = "advance" /\ s.at = "read" /\ s.row = NoRow
  /\ Len(dripRows) < MaxRows
  /\ dripRows' = Append(dripRows, [step |-> 1, completed |-> Ends(0), next |-> NextSend(0)])
  /\ Reports(s) /\ Crosses(s)

StopReads(s) ==
  /\ s \in sessions /\ s.kind = "stop" /\ s.at = "called"
  /\ \/ dripRows = <<>> /\ Turns(s, {})
     \/ \E r \in DOMAIN dripRows : Turns(s, {[s EXCEPT !.at = "read", !.row = r]})

StopCommits(s) ==
  /\ s \in sessions /\ s.kind = "stop" /\ s.at = "read"
  /\ dripRows' = [dripRows EXCEPT ![s.row].completed = TRUE, ![s.row].next = "none"]
  /\ sessions' = sessions \ {s}
  /\ Crosses(s) /\ UNCHANGED reported

\* The session ends without its next commit: an error, a worker that dies.
SessionFails(s) == s \in sessions /\ Turns(s, {})

\* next_send_at is reached.
BecomesDue ==
  /\ \E r \in DOMAIN dripRows :
       dripRows[r].next = "later" /\ dripRows' = [dripRows EXCEPT ![r].next = "now"]
  /\ UNCHANGED <<sessions, reported, crossing>>

DripNext ==
  \/ Called \/ BecomesDue
  \/ \E s \in sessions : EnrolReads(s) \/ EnrolCommits(s) \/ AdvanceReads(s) \/ AdvanceCommits(s)
                         \/ AdvanceInserts(s) \/ StopReads(s) \/ StopCommits(s) \/ SessionFails(s)

DripSpec == DripInit /\ [][DripNext]_dripVars

-----------------------------------------------------------------------------
DripTypeOK ==
  /\ dripRows \in Seq(DripRows) /\ Len(dripRows) <= MaxRows
  /\ sessions \subseteq Sessions /\ reported \in Seq(0..Steps - 1) /\ crossing \in BOOLEAN

\* A sequence that was stopped or has ended never goes on again, whatever wrote
\* to its row from an older reading.
CompletedForGood ==
  [][\A r \in DOMAIN dripRows : dripRows[r].completed => dripRows'[r].completed]_dripVars

\* However an enrolment fails or is retried, a row that has sent nothing is due:
\* the first email is left to the processor and not lost.
UnsentIsDue ==
  \A r \in DOMAIN dripRows :
    dripRows[r].step = 0 /\ ~dripRows[r].completed => dripRows[r].next = "now"

\* Unless a session commits while another has read, there is one row, and its
\* emails were reported from the first on, in order and each once.
EachStepOnce ==
  ~crossing => /\ \A i \in DOMAIN reported : reported[i] = i - 1
              /\ Len(dripRows) <= 1
              /\ \A r \in DOMAIN dripRows : dripRows[r].step = Len(reported)
=============================================================================
