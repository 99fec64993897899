----------------------------- MODULE AuditChain -----------------------------
(***************************************************************************)
(* The hash-chained audit trail and the middleware that feeds it:          *)
(*   middleware/audit.py                      the request, then the write  *)
(*   services/backbone/audit_service.py       log_action                   *)
(*   services/backbone/audit_chain.py         tip, timestamp, verification *)
(*   frontend/src/lib/audit.ts                the same chain per operator  *)
(*                                                                         *)
(* One entry is one mutation request.  Writes run in background threads of *)
(* several workers: the read of the tip and the INSERT are two steps with  *)
(* no lock.  An entry's hash stands for the entry: sha256 has no           *)
(* collisions here, so prev[e] = x says that e carries x's hash, and a     *)
(* recomputed hash differs exactly when the row was edited.                *)
(***************************************************************************)
EXTENDS Integers, FiniteSets

CONSTANTS
  Entries,    \* the entries that may be written, named by their id
  Trails,     \* workspaces (operators, in the frontend's trail)
  Trail,      \* Trail[e]: the one e belongs to
  Anonymous,  \* the sentinel workspace of unauthenticated requests
  Legacy,     \* rows written before the chain existed: they have no hash
  MaxTime,    \* bound on the clocks, in milliseconds
  Doctored,   \* bound on the rows edited or removed behind the code's back
  Faults      \* may a write fail or a process die?

Genesis == 0   \* prev_hash IS NULL

ASSUME AuditAssumption ==
  /\ Entries \subseteq Nat \ {Genesis}
  /\ IsFiniteSet(Entries)
  /\ Trail \in [Entries -> Trails]
  /\ Anonymous \in Trails
  /\ Legacy \subseteq Entries
  /\ MaxTime \in Nat
  /\ Doctored \in Nat
  /\ Faults \in BOOLEAN

VARIABLES
  pc,       \* pc[e]: where the request and its entry stand
  prev,     \* prev[e]: the entry whose hash e carries, or Genesis
  time,     \* time[e]: its timestamp
  rows,     \* the entries in the table
  altered,  \* rows with a hashed field edited since
  removed,  \* rows deleted since
  stale     \* history: entries whose trail grew between their two steps

vars == <<pc, prev, time, rows, altered, removed, stale>>
chainVars == <<prev, time, rows, altered, removed, stale>>

Pending == {"idle", "answered", "linked"}
Ended   == {"raised", "written", "reported", "lost"}

TypeOK ==
  /\ pc \in [Entries -> Pending \cup Ended]
  /\ prev \in [Entries -> (Entries \ Legacy) \cup {Genesis}]
  /\ time \in [Entries -> Nat]
  /\ rows \in SUBSET Entries
  /\ altered \in SUBSET Entries
  /\ removed \in SUBSET Entries
  /\ stale \in SUBSET Entries

Init ==
  /\ pc = [e \in Entries |-> IF e \in Legacy THEN "written" ELSE "idle"]
  /\ prev = [e \in Entries |-> Genesis]
  /\ time \in {t \in [Entries -> 0..MaxTime] : \A e \in Entries \ Legacy : t[e] = 0}
  /\ rows = Legacy
  /\ altered = {}
  /\ removed = {}
  /\ stale = {}

-----------------------------------------------------------------------------
(* Reading the table *)

RowsOf(w) == {e \in rows : Trail[e] = w}

\* Mutant: the tip of the whole table.
Tips_AnyTrail(w) == {t \in rows : \A x \in rows : time[x] <= time[t]}

\* latest_entry: ORDER BY timestamp DESC, first row of those that tie.
Tips(w) == {t \in RowsOf(w) : \A x \in RowsOf(w) : time[x] <= time[t]}

\* next_timestamp
NextTimestamp(previous, now) ==
  IF now <= time[previous] THEN time[previous] + 1 ELSE now

\* ORDER BY timestamp ASC, id ASC
Precedes(x, y) == time[x] < time[y] \/ (time[x] = time[y] /\ x < y)

Adjacent(x, y) ==
  /\ Trail[x] = Trail[y]
  /\ Precedes(x, y)
  /\ ~\E z \in RowsOf(Trail[x]) : Precedes(x, z) /\ Precedes(z, y)

\* Mutant: only the content of each row is checked.
Broken_ContentOnly(x) == x \in Legacy \/ x \in altered

\* verify_chain's verdict on one row: no hash, an edited field, or a
\* prev_hash that is not the hash of the row before it.
Broken(x) ==
  \/ x \in Legacy
  \/ x \in altered
  \/ \E p \in rows \ Legacy : Adjacent(p, x) /\ prev[x] # p

\* verify_workspace_chain
Breaks(w) == {x \in RowsOf(w) : Broken(x)}

-----------------------------------------------------------------------------
(* The request *)

Goto(e, p) == pc' = [pc EXCEPT ![e] = p]

\* The response goes out, and the write is its background task.
Responds(e) ==
  /\ pc[e] = "idle"
  /\ Goto(e, "answered")
  /\ UNCHANGED chainVars

\* An exception no handler catches passes through dispatch: a 500, no task.
Raises(e) ==
  /\ pc[e] = "idle"
  /\ Goto(e, "raised")
  /\ UNCHANGED chainVars

-----------------------------------------------------------------------------
(* log_action in a session of its own *)

LinksTo(e, t, now) ==
  /\ prev' = [prev EXCEPT ![e] = IF t \in Legacy THEN Genesis ELSE t]
  /\ time' = [time EXCEPT ![e] = NextTimestamp(t, now)]

StartsChain(e, now) ==
  /\ prev' = [prev EXCEPT ![e] = Genesis]
  /\ time' = [time EXCEPT ![e] = now]

\* Mutant: requests without a workspace are dropped.
Links_NotAnonymous(e) ==
  /\ pc[e] = "answered"
  /\ Trail[e] # Anonymous
  /\ Goto(e, "linked")
  /\ \E now \in 0..MaxTime :
       \/ RowsOf(Trail[e]) = {} /\ StartsChain(e, now)
       \/ \E t \in Tips(Trail[e]) : LinksTo(e, t, now)
  /\ UNCHANGED <<rows, altered, removed, stale>>

\* The tip gives both the link and the timestamp.  The workers' clocks agree
\* on nothing.
Links(e) ==
  /\ pc[e] = "answered"
  /\ Goto(e, "linked")
  /\ \E now \in 0..MaxTime :
       \/ RowsOf(Trail[e]) = {} /\ StartsChain(e, now)
       \/ \E t \in Tips(Trail[e]) : LinksTo(e, t, now)
  /\ UNCHANGED <<rows, altered, removed, stale>>

Commits(e) ==
  /\ pc[e] = "linked"
  /\ Goto(e, "written")
  /\ rows' = rows \cup {e}
  /\ stale' = stale \cup {f \in Entries \ {e} : pc[f] = "linked" /\ Trail[f] = Trail[e]}
  /\ UNCHANGED <<prev, time, altered, removed>>

\* Any exception of the write: Sentry and the metric, never the request.
Reports(e) ==
  /\ Faults
  /\ pc[e] \in {"answered", "linked"}
  /\ Goto(e, "reported")
  /\ UNCHANGED chainVars

Dies(e) ==
  /\ Faults
  /\ pc[e] \in {"answered", "linked"}
  /\ Goto(e, "lost")
  /\ UNCHANGED chainVars

-----------------------------------------------------------------------------
(* A restore from a doctored backup; the live table's trigger refuses both. *)

MayDoctor == Cardinality(altered \cup removed) < Doctored

\* An edit of a hashed field (the timestamp is left alone).
Alters(e) ==
  /\ MayDoctor
  /\ e \in rows \ Legacy
  /\ altered' = altered \cup {e}
  /\ UNCHANGED <<pc, prev, time, rows, removed, stale>>

Removes(e) ==
  /\ MayDoctor
  /\ e \in rows
  /\ rows' = rows \ {e}
  /\ removed' = removed \cup {e}
  /\ UNCHANGED <<pc, prev, time, altered, stale>>

-----------------------------------------------------------------------------
AuditStep(e) == Responds(e) \/ Raises(e) \/ Links(e) \/ Commits(e) \/ Reports(e)

Next == \E e \in Entries :
  \/ AuditStep(e) \/ Dies(e)
  \/ Alters(e) \/ Removes(e)

Spec == Init /\ [][Next]_vars

\* A response's background task runs.
FairSpec == Spec /\ \A e \in Entries : WF_vars(Links(e) \/ Commits(e))

-----------------------------------------------------------------------------
(* Properties *)

\* e's link, the link of that entry, and so on.
Ancestor(r, e) ==
  \A S \in SUBSET Entries :
    (\A x \in S \cup {e} : prev[x] \in S \cup {Genesis}) => r \in S

(***************************************************************************)
(* An entry is strictly later than the entry it links to, whatever the     *)
(* workers' clocks say: the links of a trail never form a cycle.           *)
(***************************************************************************)
LinksAscend ==
  \A e \in rows : prev[e] # Genesis => time[prev[e]] < time[e] /\ Trail[prev[e]] = Trail[e]

\* Nothing was removed, and no row was written on a tip that had moved.
Clean(w) ==
  \A e \in Entries : Trail[e] = w => e \notin removed /\ e \notin rows \cap stale

(***************************************************************************)
(* Verification of a trail nothing was removed from, and whose entries     *)
(* were written one at a time, names exactly the rows that were edited and *)
(* the rows older than the chain: no edit is missed and no row is accused. *)
(***************************************************************************)
NamesExactlyTheEdited ==
  \A w \in Trails : Clean(w) => Breaks(w) = {e \in RowsOf(w) : e \in altered \cup Legacy}

(***************************************************************************)
(* Rows cut out of the middle of a trail are noticed: if an entry is gone  *)
(* that links, directly or not, an older surviving row to a newer one,     *)
(* verification reports a break, even in a trail that has forked.          *)
(***************************************************************************)
RemovalInsideIsNoticed ==
  \A r \in removed :
    (\E x, y \in rows : Ancestor(x, r) /\ Ancestor(r, y)) => Breaks(Trail[r]) # {}

(***************************************************************************)
(* "A row saying we do not know who did this is worth far more than no     *)
(* row": the writes of answered requests, of the anonymous workspace as of *)
(* the others, all come to an end, in the table or in a report, unless the *)
(* process dies.                                                           *)
(***************************************************************************)
AnsweredIsOnRecord ==
  []<>(\A e \in Entries : pc[e] \notin {"answered", "linked"})

(***************************************************************************)
(* audit_chain.py reports a mismatch as "an entry was altered or removed": *)
(* a trail nobody touched, without rows older than the chain, verifies.    *)
(***************************************************************************)
BreakMeansTampering ==
  altered \cup removed \cup Legacy = {} => \A w \in Trails : Breaks(w) = {}

=============================================================================
