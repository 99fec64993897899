--------------------------- MODULE TemplateVersions ---------------------------
(***************************************************************************)
(* The versions of one template (services/backbone/                        *)
(* template_versioning.py), written by several sessions.                   *)
(*                                                                         *)
(* A creation reads the highest number, takes the flag off the active rows *)
(* and inserts its own; a rollback takes the flag off every row and puts   *)
(* it on one.  The bulk UPDATE of each sees the rows committed when it     *)
(* starts, waits for the sessions that hold one of them, then looks at     *)
(* those rows again and holds them until it commits.                       *)
(***************************************************************************)
EXTENDS Integers, Sequences, FiniteSets

CONSTANTS
  WriterSlots,  \* bound: one for each session writing
  MaxVersions   \* bound: rows of the template

ASSUME TemplateVersionsAssumption == MaxVersions \in Nat

VARIABLES
  versions,   \* the committed rows, in the order of their commits
  writers,    \* sessions: what they read, which rows they wait for and hold
  overtaken       \* history: a creation overtook or was overtaken

versionsVars == <<versions, writers, overtaken>>

Versions == [number : 1..MaxVersions, active : BOOLEAN]
Rowids == 1..MaxVersions
Writers == [slot : WriterSlots, kind : {"create", "rollback"},
            step : {"begun", "updating", "updated"},
            number : 1..MaxVersions + 1, sees : SUBSET Rowids, holds : SUBSET Rowids]

Active == {i \in DOMAIN versions : versions[i].active}
Numbers == {versions[i].number : i \in DOMAIN versions}

\* Mutant: two more than the highest.
NextNumber_Skips == IF Numbers = {} THEN 1
                    ELSE 2 + CHOOSE n \in Numbers : \A m \in Numbers : m <= n

NextNumber == IF Numbers = {} THEN 1
              ELSE 1 + CHOOSE n \in Numbers : \A m \in Numbers : m <= n

VersionsInit == versions = <<>> /\ writers = {} /\ overtaken = FALSE

Begins(kind, number) ==
  \E slot \in WriterSlots :
    /\ \A w \in writers : w.slot # slot
    /\ writers' = writers \cup {[slot |-> slot, kind |-> kind, step |-> "begun",
                                 number |-> number, sees |-> {}, holds |-> {}]}
    /\ UNCHANGED <<versions, overtaken>>

\* create_version up to its first statement, which reads the highest number.
CreateReads == Len(versions) < MaxVersions /\ Begins("create", NextNumber)
RollbackBegins == \E number \in 1..MaxVersions : Begins("rollback", number)

Becomes(w, next) == writers' = (writers \ {w}) \cup {next}

\* The UPDATE finds its rows.
UpdateStarts(w) ==
  /\ w \in writers /\ w.step = "begun"
  /\ Becomes(w, [w EXCEPT !.step = "updating",
                          !.sees = IF w.kind = "create" THEN Active ELSE DOMAIN versions])
  /\ UNCHANGED <<versions, overtaken>>

Held(w) == UNION {v.holds : v \in writers \ {w}}

\* No other session holds one of them: those that still match are updated.
UpdateEnds(w) ==
  /\ w \in writers /\ w.step = "updating"
  /\ w.sees \cap Held(w) = {}
  /\ Becomes(w, [w EXCEPT !.step = "updated",
                          !.holds = IF w.kind = "create" THEN w.sees \cap Active ELSE w.sees])
  /\ UNCHANGED <<versions, overtaken>>

Off(rows) == [i \in DOMAIN versions |->
                [versions[i] EXCEPT !.active = @ /\ i \notin rows]]

\* A session commits while another's UPDATE is under way, or two creations have
\* read one number; two rollbacks do not count.
Overtakes(w) ==
  overtaken' = (overtaken \/ \E v \in writers \ {w} :
              \/ w.kind = "create" /\ v.kind = "create"
              \/ "create" \in {w.kind, v.kind} /\ v.step # "begun")

\* Mutant: the flag of the version before stays.
CreateCommits_KeepsOthers(w) ==
  /\ w \in writers /\ w.kind = "create" /\ w.step = "updated"
  /\ Len(versions) < MaxVersions /\ w.number <= MaxVersions
  /\ versions' = Append(versions, [number |-> w.number, active |-> TRUE])
  /\ writers' = writers \ {w}
  /\ Overtakes(w)

\* The row is inserted active.
CreateCommits(w) ==
  /\ w \in writers /\ w.kind = "create" /\ w.step = "updated"
  /\ Len(versions) < MaxVersions /\ w.number <= MaxVersions
  /\ versions' = Append(Off(w.holds), [number |-> w.number, active |-> TRUE])
  /\ writers' = writers \ {w}
  /\ Overtakes(w)

\* The flag is put on a row of the number asked for, which must not be held by
\* another session if it is to change.
RollbackCommits(w) ==
  /\ w \in writers /\ w.kind = "rollback" /\ w.step = "updated"
  /\ \E target \in DOMAIN versions :
       /\ versions[target].number = w.number
       /\ target \in Active \ w.holds \/ target \notin Held(w)
       /\ versions' = [Off(w.holds) EXCEPT ![target].active = TRUE]
  /\ writers' = writers \ {w}
  /\ Overtakes(w)

\* The number is not found, a statement fails, the database breaks a deadlock:
\* nothing is committed.
WriterFails(w) == w \in writers /\ writers' = writers \ {w} /\ UNCHANGED <<versions, overtaken>>

VersionsNext ==
  \/ CreateReads \/ RollbackBegins
  \/ \E w \in writers : UpdateStarts(w) \/ UpdateEnds(w) \/ CreateCommits(w)
                        \/ RollbackCommits(w) \/ WriterFails(w)

VersionsSpec == VersionsInit /\ [][VersionsNext]_versionsVars

-----------------------------------------------------------------------------
\* No number is ahead of the rows.
VersionsTypeOK ==
  /\ versions \in Seq(Versions) /\ Len(versions) <= MaxVersions
  /\ writers \subseteq Writers
  /\ \A n \in Numbers : n <= Len(versions)
  /\ \A w \in writers : w.kind = "create" => w.number <= Len(versions) + 1
  /\ overtaken \in BOOLEAN

\* However writers race, wait and fail, a template that has versions has an
\* active one.  Unless a creation overlaps with another creation, or its UPDATE
\* or that of a rollback with the other's commit, it is the only one and no
\* number is given twice.  Rollbacks may overlap: each waits for the one before.
OneActiveVersion ==
  /\ versions # <<>> => Active # {}
  /\ ~overtaken => Cardinality(Active) <= 1 /\ Cardinality(Numbers) = Len(versions)
=============================================================================
