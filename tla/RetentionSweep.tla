---------------------------- MODULE RetentionSweep ----------------------------
(***************************************************************************)
(* The deletion of one workspace's expired records                         *)
(* (services/backbone/records_governance.py), run by the weekly task in a  *)
(* worker and by an administrator in a server.                             *)
(*                                                                         *)
(* Holds are kept in two places: rows of legal_holds, and the memory of    *)
(* the server whose older endpoint was called.  A sweep asks the rows,     *)
(* then the memory of its own process, class by class, and deletes         *)
(* everything it found free in one transaction.  Rows of audit_logs have a *)
(* trigger that refuses their deletion.                                    *)
(***************************************************************************)
EXTENDS Integers, FiniteSets

CONSTANTS
  Retained,     \* the records, all of them there at first
  Classes,      \* document classes
  ClassOf,      \* [Retained -> Classes]
  AuditClass,   \* the class whose rows are append-only
  Servers,      \* processes that answer requests
  Worker,       \* the process that runs the weekly task
  SweepSlots,   \* bound: one for each sweep under way
  MaxChanges    \* bound: holds placed or released, policies changed, restarts

ASSUME RetentionAssumption ==
  /\ IsFiniteSet(Retained) /\ ClassOf \in [Retained -> Classes]
  /\ MaxChanges \in Nat /\ Worker \notin Servers /\ "rows" \notin Servers \cup {Worker}

VARIABLES
  kept,       \* the records in the tables
  expired,    \* those older than the policy of their class allows
  autoDelete, \* classes whose policy says auto_delete
  holds,      \* active holds: where each is kept and what it protects
  sweeps,     \* sweeps: what each has read, and the holds it must respect
  deletedCount, \* the sum of the counts reported
  overlapped, \* history: two sweeps were under way at once
  changes     \* bound counter

retentionVars == <<kept, expired, autoDelete, holds, sweeps, deletedCount,
                   overlapped, changes>>

Processes == Servers \cup {Worker}
Holds == ({"rows"} \cup Servers) \X Retained
Sweeps == [slot : SweepSlots, process : Processes, due : SUBSET Retained,
           auto : SUBSET Classes, left : SUBSET Classes,
           seen : SUBSET Retained, free : SUBSET Retained, since : SUBSET Holds]

Of(classes) == {r \in Retained : ClassOf[r] \in classes}
HeldIn(place) == {r \in Retained : <<place, r>> \in holds}

RetentionInit ==
  /\ kept = Retained /\ sweeps = {} /\ deletedCount = 0
  /\ expired \in SUBSET Retained /\ autoDelete \in SUBSET Classes
  /\ holds = {} /\ overlapped = FALSE /\ changes = 0

WithinBound == changes < MaxChanges /\ changes' = changes + 1

\* legal_hold.create_hold writes a row, RecordsGovernance.create_legal_hold the
\* memory of the server that answers.
PlaceHold ==
  /\ WithinBound
  /\ \E hold \in Holds \ holds : holds' = holds \cup {hold}
  /\ UNCHANGED <<kept, expired, autoDelete, sweeps, deletedCount, overlapped>>

Released(gone) == {[w EXCEPT !.since = @ \ gone] : w \in sweeps}

ReleaseHold ==
  /\ WithinBound
  /\ \E hold \in holds : holds' = holds \ {hold} /\ sweeps' = Released({hold})
  /\ UNCHANGED <<kept, expired, autoDelete, deletedCount, overlapped>>

\* create_retention_policy replaces the policy of a class.
SetPolicy ==
  /\ WithinBound
  /\ \E class \in Classes, past \in SUBSET Retained, auto \in BOOLEAN :
       /\ past \subseteq Of({class})
       /\ expired' = (expired \ Of({class})) \cup past
       /\ autoDelete' = IF auto THEN autoDelete \cup {class} ELSE autoDelete \ {class}
  /\ UNCHANGED <<kept, holds, sweeps, deletedCount, overlapped>>

\* The holds in a server's memory and the sweeps under way in it are gone.  For
\* the worker this is SweepFails.
Restart ==
  /\ WithinBound
  /\ \E process \in Servers :
       LET gone == {process} \X Retained IN
         /\ holds' = holds \ gone
         /\ sweeps' = {w \in Released(gone) : w.process # process}
  /\ UNCHANGED <<kept, expired, autoDelete, deletedCount, overlapped>>

\* The policies are read, and the time.  The task takes workspaces that have a
\* policy with auto_delete, the endpoint the caller's.
SweepStarts ==
  /\ \E slot \in SweepSlots, process \in Processes :
       /\ \A w \in sweeps : w.slot # slot
       /\ process = Worker => autoDelete # {}
       /\ sweeps' = sweeps \cup
            {[slot |-> slot, process |-> process, due |-> expired, auto |-> autoDelete,
              left |-> Classes, seen |-> {}, free |-> {}, since |-> holds]}
  /\ overlapped' = (overlapped \/ sweeps # {})
  /\ UNCHANGED <<kept, expired, autoDelete, holds, deletedCount, changes>>

Goes(w, next) ==
  /\ sweeps' = (sweeps \ {w}) \cup {next}
  /\ UNCHANGED <<kept, expired, autoDelete, holds, deletedCount, overlapped, changes>>

\* Mutant: only the holds in memory are asked.
ReadsRows_MemoryOnly(w) ==
  /\ w \in sweeps /\ w.seen = {}
  /\ \E class \in w.left :
       Goes(w, [w EXCEPT !.left = @ \ {class}, !.seen = w.due \cap kept \cap Of({class})])

\* The expired rows of a class, and after them the holds on rows of the class.
ReadsRows(w) ==
  /\ w \in sweeps /\ w.seen = {}
  /\ \E class \in w.left :
       Goes(w, [w EXCEPT !.left = @ \ {class},
                         !.seen = (w.due \cap kept \cap Of({class})) \ HeldIn("rows")])

\* Of those, the ones this process's memory holds are left out too.
ReadsMemory(w) ==
  /\ w \in sweeps /\ w.seen # {}
  /\ Goes(w, [w EXCEPT !.free = @ \cup (w.seen \ HeldIn(w.process)), !.seen = {}])

Condemned(w) == w.free \cap Of(w.auto)
Finished(w) == w \in sweeps /\ w.left = {} /\ w.seen = {}

\* Mutant: classes that are not to be deleted are counted.
Commits_CountsAll(w) ==
  /\ Finished(w)
  /\ Condemned(w) \cap Of({AuditClass}) = {}
  /\ kept' = kept \ Condemned(w)
  /\ sweeps' = sweeps \ {w}
  /\ deletedCount' = deletedCount + Cardinality(w.free)
  /\ UNCHANGED <<expired, autoDelete, holds, overlapped, changes>>

\* The rows of the classes with auto_delete are deleted and the ids counted,
\* unless the trigger refuses one of them.
Commits(w) ==
  /\ Finished(w)
  /\ Condemned(w) \cap Of({AuditClass}) = {}
  /\ kept' = kept \ Condemned(w)
  /\ sweeps' = sweeps \ {w}
  /\ deletedCount' = deletedCount + Cardinality(Condemned(w))
  /\ UNCHANGED <<expired, autoDelete, holds, overlapped, changes>>

\* The trigger or a statement raises: the transaction is rolled back.
SweepFails(w) ==
  /\ w \in sweeps /\ sweeps' = sweeps \ {w}
  /\ UNCHANGED <<kept, expired, autoDelete, holds, deletedCount, overlapped, changes>>

RetentionNext ==
  \/ PlaceHold \/ ReleaseHold \/ SetPolicy \/ Restart \/ SweepStarts
  \/ \E w \in sweeps : ReadsRows(w) \/ ReadsMemory(w) \/ Commits(w) \/ SweepFails(w)

RetentionSpec == RetentionInit /\ [][RetentionNext]_retentionVars

-----------------------------------------------------------------------------
\* What a sweep means to delete, it read as expired.
RetentionTypeOK ==
  /\ kept \subseteq Retained /\ expired \subseteq Retained
  /\ autoDelete \subseteq Classes /\ holds \subseteq Holds
  /\ sweeps \subseteq Sweeps
  /\ \A w \in sweeps : w.seen \cup w.free \subseteq w.due /\ w.since \subseteq holds
  /\ deletedCount \in Nat /\ overlapped \in BOOLEAN /\ changes \in 0..MaxChanges

\* A hold in force from before a sweep begins until it commits keeps its
\* record, if it is a row or in the memory of the process that sweeps.  The
\* memory of another process protects nothing, and neither do a hold placed
\* after the class was read or two that follow each other.
HoldsStopSweeps ==
  [][\A w \in sweeps \ sweeps' : \A r \in kept \ kept' :
       <<"rows", r>> \notin w.since /\ <<w.process, r>> \notin w.since]_retentionVars

\* A sweep deletes all it found free, over all classes, or nothing: one expired
\* audit row without a hold, in a class with auto_delete, saves every record.
AllClassesOrNone ==
  [][\A w \in sweeps \ sweeps' : kept' # kept => kept \ kept' = Condemned(w) \cap kept]_retentionVars

\* Unless two sweeps overlap, in one process or two, the counts they report are
\* the records that are gone.
CountsAreExact == ~overlapped => deletedCount = Cardinality(Retained \ kept)
=============================================================================
