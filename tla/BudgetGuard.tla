---------------------------- MODULE BudgetGuard -----------------------------
(***************************************************************************)
(* One workspace's AI spend ceiling under concurrent agent calls:          *)
(*   services/backbone/budget_guard.py   the row, the check, the meter     *)
(*   services/agents/base_agent.py       _precheck, the call, _finish      *)
(* Calls run in several threads and processes.  Each database statement    *)
(* that others can run between is a step: the check and the record use     *)
(* separate sessions, READ COMMITTED, and no lock is held from one to the  *)
(* other.  A rollover is the ORM's read, then its UPDATE of the columns    *)
(* whose value changed.                                                    *)
(***************************************************************************)
EXTENDS Integers, FiniteSets

CONSTANTS
  Calls,     \* agent calls of the workspace, each made once
  Cost,      \* Cost[c]: what the provider charges for call c
  MaxCost,
  Ceiling,   \* monthly_budget_usd
  Enforced,  \* the row's `enforced`
  Faults,    \* may a statement fail or a process die?
  MaxMonth   \* bound on the calendar

ASSUME BudgetAssumption ==
  /\ IsFiniteSet(Calls)
  /\ MaxCost \in Nat
  /\ Cost \in [Calls -> 0..MaxCost]
  /\ Ceiling \in Nat \ {0}
  /\ Enforced \in BOOLEAN
  /\ Faults \in BOOLEAN
  /\ MaxMonth \in Nat

VARIABLES
  pc,       \* pc[c]: what call c does next, or how it ended
  current,  \* current[c]: _month_start() as c last computed it
  zeroes,   \* calls whose rollover UPDATE writes spent_usd = 0
  exists,   \* the workspace_budgets row is there
  period,   \* its period_start
  spent,    \* its spent_usd
  month,    \* the calendar month
  logged,   \* calls with an ai_usage_logs row
  metered,  \* calls whose cost was added to spent_usd
  peak      \* history: most calls ever past their check at one time

rowVars == <<exists, period, spent>>
vars == <<pc, current, zeroes, exists, period, spent, month, logged, metered, peak>>

Checking  == {"idle", "inserting", "rolling", "refreshing"}
Recording == {"answered", "rolling_record", "updating"}
Refused   == {"over_budget", "budget_unavailable"}
Ended     == Refused \cup {"metered", "unmetered", "provider_error", "lost"}

\* Past the check, their cost not in the meter yet.
InFlight == {c \in Calls : pc[c] \in {"provider"} \cup Recording}

TypeOK ==
  /\ pc \in [Calls -> Checking \cup {"provider"} \cup Recording \cup Ended]
  /\ current \in [Calls -> 0..MaxMonth]
  /\ zeroes \in SUBSET Calls
  /\ exists \in BOOLEAN
  /\ period \in 0..MaxMonth
  /\ spent \in Nat
  /\ month \in 0..MaxMonth
  /\ logged \in SUBSET Calls
  /\ metered \in SUBSET Calls
  /\ peak \in Nat

\* The row may be missing, or left by an earlier month below its ceiling.
Init ==
  /\ pc = [c \in Calls |-> "idle"]
  /\ current = [c \in Calls |-> 0]
  /\ zeroes = {}
  /\ exists \in BOOLEAN
  /\ period = 0
  /\ spent \in IF exists THEN 0..(Ceiling - 1) ELSE {0}
  /\ month = 0
  /\ logged = {}
  /\ metered = {}
  /\ peak = 0

-----------------------------------------------------------------------------
Goto(c, p) == pc' = [pc EXCEPT ![c] = p]

\* _month_start()
ReadsClock(c) == current' = [current EXCEPT ![c] = month]

\* The ORM writes spent_usd only if the value it read was not 0 already.
MarksZero(c) == zeroes' = IF spent # 0 THEN zeroes \cup {c} ELSE zeroes \ {c}

-----------------------------------------------------------------------------
(* _precheck: assert_within_ceiling in a session of its own *)

\* Refuse at the ceiling, or go to the provider.
Decide(c) ==
  /\ IF Enforced /\ spent >= Ceiling
       THEN Goto(c, "over_budget") /\ UNCHANGED peak
       ELSE /\ Goto(c, "provider")
            /\ LET n == Cardinality(InFlight \cup {c}) IN
                 peak' = IF n > peak THEN n ELSE peak
  /\ UNCHANGED <<zeroes, rowVars, month, logged, metered>>

CheckFindsNoRow(c) ==
  /\ pc[c] = "idle"
  /\ ~exists
  /\ Goto(c, "inserting")
  /\ ReadsClock(c)
  /\ UNCHANGED <<zeroes, rowVars, month, logged, metered, peak>>

\* Mutant: the check leaves a stale row alone.
CheckFindsStaleRow_NoRollover(c) ==
  /\ pc[c] = "idle"
  /\ exists /\ period < month
  /\ ReadsClock(c)
  /\ Decide(c)

CheckFindsStaleRow(c) ==
  /\ pc[c] = "idle"
  /\ exists /\ period < month
  /\ Goto(c, "rolling")
  /\ ReadsClock(c)
  /\ MarksZero(c)
  /\ UNCHANGED <<rowVars, month, logged, metered, peak>>

CheckFindsRow(c) ==
  /\ pc[c] = "idle"
  /\ exists /\ period >= month
  /\ ReadsClock(c)
  /\ Decide(c)

\* The default row; workspace_id is unique, so a second insert raises.
CheckInserts(c) ==
  /\ pc[c] = "inserting"
  /\ IF exists
       THEN Goto(c, "budget_unavailable") /\ UNCHANGED rowVars
       ELSE /\ Goto(c, "refreshing")
            /\ exists' = TRUE
            /\ period' = current[c]
            /\ spent' = 0
  /\ UNCHANGED <<current, zeroes, month, logged, metered, peak>>

\* The UPDATE of a rollover, from the values read before.
RollsOver(c) ==
  /\ period' = current[c]
  /\ spent' = IF c \in zeroes THEN 0 ELSE spent
  /\ UNCHANGED exists

CheckRollsOver(c) ==
  /\ pc[c] = "rolling"
  /\ RollsOver(c)
  /\ Goto(c, "refreshing")
  /\ UNCHANGED <<current, zeroes, month, logged, metered, peak>>

\* db.refresh after the commit: the decision reads the row as it is now.
CheckRefreshes(c) ==
  /\ pc[c] = "refreshing"
  /\ Decide(c)
  /\ UNCHANGED current

\* Any exception of the check refuses the call.
CheckFails(c) ==
  /\ Faults
  /\ pc[c] \in Checking
  /\ Goto(c, "budget_unavailable")
  /\ UNCHANGED <<current, zeroes, rowVars, month, logged, metered, peak>>

-----------------------------------------------------------------------------
(* The provider, and _finish: record in a session of its own *)

ProviderAnswers(c) ==
  /\ pc[c] = "provider"
  /\ Goto(c, "answered")
  /\ UNCHANGED <<current, zeroes, rowVars, month, logged, metered, peak>>

\* The call returns a degraded result; nothing is recorded.
ProviderFails(c) ==
  /\ pc[c] = "provider"
  /\ Goto(c, "provider_error")
  /\ UNCHANGED <<current, zeroes, rowVars, month, logged, metered, peak>>

\* get_or_create in record.  The check has left a row, and rows stay.
RecordReads(c) ==
  /\ pc[c] = "answered"
  /\ ReadsClock(c)
  /\ IF period < month
       THEN Goto(c, "rolling_record") /\ MarksZero(c)
       ELSE Goto(c, "updating") /\ UNCHANGED zeroes
  /\ UNCHANGED <<rowVars, month, logged, metered, peak>>

\* The rollover's commit makes the pending usage row durable as well.
RecordRollsOver(c) ==
  /\ pc[c] = "rolling_record"
  /\ RollsOver(c)
  /\ logged' = logged \cup {c}
  /\ Goto(c, "updating")
  /\ UNCHANGED <<current, zeroes, month, metered, peak>>

\* Mutant: the usage row is written by the rollover only.
RecordUpdates_NoLog(c) ==
  /\ pc[c] = "updating"
  /\ spent' = spent + Cost[c]
  /\ metered' = metered \cup {c}
  /\ Goto(c, "metered")
  /\ UNCHANGED <<current, zeroes, exists, period, month, logged, peak>>

\* Mutant: the cost is added twice over.
RecordUpdates_Twice(c) ==
  /\ pc[c] = "updating"
  /\ spent' = spent + Cost[c] + Cost[c]
  /\ logged' = logged \cup {c}
  /\ metered' = metered \cup {c}
  /\ Goto(c, "metered")
  /\ UNCHANGED <<current, zeroes, exists, period, month, peak>>

\* Mutant: a call recorded in another month than it was checked in is dropped.
RecordUpdates_SameMonthOnly(c) ==
  /\ pc[c] = "updating"
  /\ period = month
  /\ spent' = spent + Cost[c]
  /\ logged' = logged \cup {c}
  /\ metered' = metered \cup {c}
  /\ Goto(c, "metered")
  /\ UNCHANGED <<current, zeroes, exists, period, month, peak>>

\* SET spent_usd = spent_usd + :cost, in SQL, with the usage row.
RecordUpdates(c) ==
  /\ pc[c] = "updating"
  /\ spent' = spent + Cost[c]
  /\ logged' = logged \cup {c}
  /\ metered' = metered \cup {c}
  /\ Goto(c, "metered")
  /\ UNCHANGED <<current, zeroes, exists, period, month, peak>>

\* Any exception of record is logged and swallowed: the call succeeds.
RecordFails(c) ==
  /\ Faults
  /\ pc[c] \in Recording
  /\ Goto(c, "unmetered")
  /\ UNCHANGED <<current, zeroes, rowVars, month, logged, metered, peak>>

Dies(c) ==
  /\ Faults
  /\ pc[c] \notin Ended
  /\ Goto(c, "lost")
  /\ UNCHANGED <<current, zeroes, rowVars, month, logged, metered, peak>>

MonthTurns ==
  /\ month < MaxMonth
  /\ month' = month + 1
  /\ UNCHANGED <<pc, current, zeroes, rowVars, logged, metered, peak>>

-----------------------------------------------------------------------------
CheckStep(c) ==
  \/ CheckFindsNoRow(c) \/ CheckFindsStaleRow(c) \/ CheckFindsRow(c)
  \/ CheckInserts(c) \/ CheckRollsOver(c) \/ CheckRefreshes(c) \/ CheckFails(c)

RecordStep(c) ==
  \/ RecordReads(c) \/ RecordRollsOver(c) \/ RecordUpdates(c) \/ RecordFails(c)

Next ==
  \/ \E c \in Calls :
       \/ CheckStep(c)
       \/ ProviderAnswers(c) \/ ProviderFails(c)
       \/ RecordStep(c)
       \/ Dies(c)
  \/ MonthTurns

Spec == Init /\ [][Next]_vars

\* A thread that has its answer goes on with its record.
FairSpec == Spec /\ \A c \in Calls :
  WF_vars(RecordReads(c) \/ RecordRollsOver(c) \/ RecordUpdates(c))

-----------------------------------------------------------------------------
(* Properties *)

(***************************************************************************)
(* The ceiling holds up to the calls already past their check: the meter   *)
(* stays below the ceiling plus the largest cost of as many calls as ever  *)
(* overlapped, through rollovers, failures and deaths.  (With no overlap   *)
(* this is the "one invocation" of the documentation.)                     *)
(***************************************************************************)
OvershootBounded ==
  Enforced => spent + MaxCost * Cardinality(InFlight) < Ceiling + MaxCost * peak

(***************************************************************************)
(* No call "could cost money, leave no record": what moved the meter is in *)
(* the usage log, whatever commit wrote it, and a call ends as metered     *)
(* only when it did.                                                       *)
(***************************************************************************)
MeteredIsLogged ==
  /\ metered \subseteq logged
  /\ \A c \in Calls : pc[c] = "metered" <=> c \in metered

(***************************************************************************)
(* A call that may have to be paid for has a row to be charged to: nothing *)
(* reaches the provider while the workspace has no budget row.             *)
(***************************************************************************)
SpendHasARow == InFlight # {} => exists

(***************************************************************************)
(* "Carrying spend across the period boundary would refuse every call": a  *)
(* call is refused only for spend of the month it was checked in.  (Over   *)
(* one turn of the month: over two, a rollover read in the first and       *)
(* written in the second moves period_start back.)                         *)
(***************************************************************************)
RefusedForThisMonth ==
  [][\A c \in Calls : pc[c] # "over_budget" /\ pc'[c] = "over_budget"
       => spent >= Ceiling /\ period >= current'[c]]_vars

(***************************************************************************)
(* A call the provider answered ends in the meter unless its own record    *)
(* fails or its process dies, however many others roll the month over      *)
(* around it.                                                              *)
(***************************************************************************)
AnsweredIsMetered ==
  \A c \in Calls : (pc[c] = "answered") ~> (c \in metered \/ pc[c] \in {"unmetered", "lost"})

(***************************************************************************)
(* budget_guard.py increments in SQL lest "one increment would silently    *)
(* vanish": the meter only falls when the month is rolled over.            *)
(***************************************************************************)
MeterFallsOnlyAtRollover == [][spent' < spent => period' # period]_vars

=============================================================================
