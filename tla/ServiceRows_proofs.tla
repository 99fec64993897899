-------------------------- MODULE ServiceRows_proofs --------------------------
(***************************************************************************)
(* Proofs about the services that keep rows several sessions write: the    *)
(* sweeps of expired records, for any processes and holds, drip sequences  *)
(* of any length, and template versions, for any number of writers.  At    *)
(* the end they are put beside the pages of ConsoleData_proofs, as TLC     *)
(* runs them.                                                              *)
(***************************************************************************)
EXTENDS MCConsoleData, ConsoleData_proofs, FiniteSetTheorems, TLAPS

-----------------------------------------------------------------------------
(* Sweeps of expired records *)

\* What a sweep has read is under none of the holds it must respect, as far as
\* it has asked.
AskedInv ==
  \A w \in sweeps :
    /\ \A r \in w.seen : <<"rows", r>> \notin w.since
    /\ \A r \in w.free : <<"rows", r>> \notin w.since /\ <<w.process, r>> \notin w.since

RetentionInv == RetentionTypeOK /\ AskedInv

\* What the two invariants say of the sweeps.
SweepOK(w) ==
  /\ w \in Sweeps /\ w.seen \cup w.free \subseteq w.due /\ w.since \subseteq holds
  /\ \A r \in w.seen : <<"rows", r>> \notin w.since
  /\ \A r \in w.free : <<"rows", r>> \notin w.since /\ <<w.process, r>> \notin w.since

\* It is enough to look at the sweeps a step changes.
LEMMA RetentionInvBySweep ==
  RetentionInv <=>
    /\ kept \subseteq Retained /\ expired \subseteq Retained
    /\ autoDelete \subseteq Classes /\ holds \subseteq Holds
    /\ \A w \in sweeps : SweepOK(w)
    /\ deletedCount \in Nat /\ overlapped \in BOOLEAN /\ changes \in 0..MaxChanges
BY DEF RetentionInv, RetentionTypeOK, AskedInv, SweepOK

\* A hold that is released or lost no longer has to be respected.
LEMMA ReleasedKeeps ==
  ASSUME RetentionInv, NEW gone, holds' = holds \ gone, NEW v \in Released(gone)
  PROVE  SweepOK(v)'
<1>1. PICK w \in sweeps : v = [w EXCEPT !.since = @ \ gone]  BY DEF Released
<1>2. SweepOK(w)  BY RetentionInvBySweep
<1>3. v \in Sweeps /\ v.since = w.since \ gone /\ v.seen = w.seen /\ v.free = w.free
      /\ v.process = w.process /\ v.due = w.due
  BY <1>1, <1>2 DEF Sweeps, SweepOK
<1> QED BY <1>2, <1>3 DEF SweepOK

LEMMA RetentionInvInit == RetentionInit => RetentionInv
<1>1. 0 \in 0..MaxChanges  BY RetentionAssumption
<1>2. RetentionInit => AskedInv  BY DEF RetentionInit, AskedInv
<1>3. RetentionInit => sweeps \subseteq Sweeps /\ holds \subseteq Holds /\ deletedCount \in Nat
  BY DEF RetentionInit
<1>4. RetentionInit =>
        \A w \in sweeps : w.seen \cup w.free \subseteq w.due /\ w.since \subseteq holds
  BY DEF RetentionInit
<1>5. RetentionInit => /\ kept \subseteq Retained /\ expired \subseteq Retained
                       /\ autoDelete \subseteq Classes /\ overlapped \in BOOLEAN
                       /\ changes \in 0..MaxChanges
  BY <1>1 DEF RetentionInit
<1> QED BY <1>2, <1>3, <1>4, <1>5 DEF RetentionInv, RetentionTypeOK

\* The records a sweep deletes can be counted.
LEMMA CondemnedIsFinite ==
  ASSUME RetentionInv, NEW w \in sweeps
  PROVE  Cardinality(Condemned(w)) \in Nat
<1>1. Condemned(w) \subseteq Retained
  BY DEF RetentionInv, RetentionTypeOK, Sweeps, Condemned
<1> QED BY <1>1, RetentionAssumption, FS_Subset, FS_CardinalityType

LEMMA RetentionInvNext == RetentionInv /\ [RetentionNext]_retentionVars => RetentionInv'
<1> SUFFICES ASSUME RetentionInv, [RetentionNext]_retentionVars PROVE RetentionInv'
  OBVIOUS
<1>t. /\ kept \subseteq Retained /\ expired \subseteq Retained
      /\ autoDelete \subseteq Classes /\ holds \subseteq Holds
      /\ deletedCount \in Nat /\ overlapped \in BOOLEAN /\ changes \in 0..MaxChanges
  BY RetentionInvBySweep
<1>s. \A w \in sweeps : SweepOK(w)  BY RetentionInvBySweep
<1>b. WithinBound => changes' \in 0..MaxChanges  BY <1>t, RetentionAssumption DEF WithinBound
<1>g. ASSUME /\ kept' \subseteq Retained /\ expired' \subseteq Retained
             /\ autoDelete' \subseteq Classes /\ holds' \subseteq Holds
             /\ deletedCount' \in Nat /\ overlapped' \in BOOLEAN
             /\ changes' \in 0..MaxChanges,
             \A w \in sweeps' : SweepOK(w)'
      PROVE  RetentionInv'
  BY <1>g DEF RetentionInv, RetentionTypeOK, AskedInv, SweepOK
<1>1. CASE PlaceHold
  <2>1. holds \subseteq holds' /\ holds' \subseteq Holds /\ UNCHANGED sweeps
    BY <1>1, <1>t DEF PlaceHold
  <2>2. \A v \in sweeps' : SweepOK(v)'  BY <2>1, <1>s DEF SweepOK
  <2> QED BY <1>1, <2>1, <2>2, <1>t, <1>b, <1>g DEF PlaceHold
<1>2. CASE ReleaseHold
  <2>1. PICK hold \in holds : holds' = holds \ {hold} /\ sweeps' = Released({hold})
    BY <1>2 DEF ReleaseHold
  <2>2. \A v \in sweeps' : SweepOK(v)'  BY <2>1, ReleasedKeeps
  <2> QED BY <1>2, <2>1, <2>2, <1>t, <1>b, <1>g DEF ReleaseHold
<1>3. CASE SetPolicy  
  <2>1. \A v \in sweeps' : SweepOK(v)'  BY <1>3, <1>s DEF SetPolicy, SweepOK
  <2> QED BY <1>3, <2>1, <1>t, <1>b, <1>g DEF SetPolicy, Of
<1>4. CASE Restart
  <2>1. PICK process \in Servers :
          /\ holds' = holds \ ({process} \X Retained)
          /\ sweeps' \subseteq Released({process} \X Retained)
    BY <1>4 DEF Restart
  <2>2. \A v \in sweeps' : SweepOK(v)'  BY <2>1, ReleasedKeeps
  <2> QED BY <1>4, <2>1, <2>2, <1>t, <1>b, <1>g DEF Restart
<1>5. CASE SweepStarts
  <2>1. PICK slot \in SweepSlots, process \in Processes :
          sweeps' = sweeps \cup
            {[slot |-> slot, process |-> process, due |-> expired, auto |-> autoDelete,
              left |-> Classes, seen |-> {}, free |-> {}, since |-> holds]}
    BY <1>5 DEF SweepStarts
  <2> DEFINE v == [slot |-> slot, process |-> process, due |-> expired, auto |-> autoDelete,
                   left |-> Classes, seen |-> {}, free |-> {}, since |-> holds]
  <2>2. v \in Sweeps /\ v.seen = {} /\ v.free = {} /\ v.since = holds
    BY <1>t DEF Sweeps
  <2>4. SweepOK(v)  BY <2>2 DEF SweepOK
  <2>5. sweeps' = sweeps \cup {v} /\ UNCHANGED holds  BY <1>5, <2>1 DEF SweepStarts
  <2> HIDE DEF v
  <2>3. \A u \in sweeps' : SweepOK(u)'  BY <2>4, <2>5, <1>s DEF SweepOK
  <2> QED BY <1>5, <2>3, <1>t, <1>g DEF SweepStarts
<1>6. ASSUME NEW w \in sweeps, ReadsRows(w) PROVE RetentionInv'
  <2>1. PICK class \in w.left :
          Goes(w, [w EXCEPT !.left = @ \ {class},
                            !.seen = (w.due \cap kept \cap Of({class})) \ HeldIn("rows")])
    BY <1>6 DEF ReadsRows
  <2> DEFINE v == [w EXCEPT !.left = @ \ {class},
                            !.seen = (w.due \cap kept \cap Of({class})) \ HeldIn("rows")]
  <2>2. /\ v \in Sweeps /\ v.since = w.since /\ v.free = w.free /\ v.process = w.process
        /\ v.due = w.due /\ v.seen = (w.due \cap kept \cap Of({class})) \ HeldIn("rows")
    BY <1>s, <1>t DEF SweepOK, Sweeps
  <2>3. \A r \in v.seen : <<"rows", r>> \notin w.since
    BY <2>2, <1>s, <1>t DEF HeldIn, SweepOK
  <2>4. SweepOK(v)  BY <2>2, <2>3, <1>s DEF SweepOK
  <2> HIDE DEF v
  <2>5. sweeps' = (sweeps \ {w}) \cup {v} /\ UNCHANGED holds  BY <2>1 DEF Goes, v
  <2>6. \A u \in sweeps' : SweepOK(u)'  BY <2>4, <2>5, <1>s DEF SweepOK
  <2> QED BY <2>1, <2>6, <1>t, <1>g DEF Goes
<1>7. ASSUME NEW w \in sweeps, ReadsMemory(w) PROVE RetentionInv'
  <2> DEFINE v == [w EXCEPT !.free = @ \cup (w.seen \ HeldIn(w.process)), !.seen = {}]
  <2>2. /\ v \in Sweeps /\ v.since = w.since /\ v.process = w.process /\ v.seen = {}
        /\ v.due = w.due /\ v.free = w.free \cup (w.seen \ HeldIn(w.process))
    BY <1>s, <1>t DEF SweepOK, Sweeps
  <2>3. \A r \in w.seen \ HeldIn(w.process) :
          <<"rows", r>> \notin w.since /\ <<w.process, r>> \notin w.since
    BY <1>s, <1>t DEF HeldIn, SweepOK, Sweeps
  <2>4. SweepOK(v)  BY <2>2, <2>3, <1>s DEF SweepOK
  <2> HIDE DEF v
  <2>5. sweeps' = (sweeps \ {w}) \cup {v} /\ UNCHANGED holds
    BY <1>7 DEF ReadsMemory, Goes, v
  <2>6. \A u \in sweeps' : SweepOK(u)'  BY <2>4, <2>5, <1>s DEF SweepOK
  <2> QED BY <1>7, <2>6, <1>t, <1>g DEF ReadsMemory, Goes
<1>8. ASSUME NEW w \in sweeps, Commits(w) PROVE RetentionInv'
  <2>1. Cardinality(Condemned(w)) \in Nat  BY CondemnedIsFinite
  <2>2. \A u \in sweeps' : SweepOK(u)'  BY <1>8, <1>s DEF Commits, SweepOK
  <2>3. deletedCount' \in Nat  BY <1>8, <2>1, <1>t DEF Commits
  <2> QED BY <1>8, <2>2, <2>3, <1>t, <1>g DEF Commits
<1>9. ASSUME NEW w \in sweeps, SweepFails(w) PROVE RetentionInv'
  <2>1. \A u \in sweeps' : SweepOK(u)'  BY <1>9, <1>s DEF SweepFails, SweepOK
  <2> QED BY <1>9, <2>1, <1>t, <1>g DEF SweepFails
<1>10. CASE UNCHANGED retentionVars
  <2>1. \A u \in sweeps' : SweepOK(u)'  BY <1>10, <1>s DEF retentionVars, SweepOK
  <2> QED BY <1>10, <2>1, <1>t, <1>g DEF retentionVars
<1> QED BY <1>1, <1>2, <1>3, <1>4, <1>5, <1>6, <1>7, <1>8, <1>9, <1>10 DEF RetentionNext

\* Whatever is held, released, restarted and swept, the retention of records
\* keeps its types and a sweep means to delete only what it read as expired.
THEOREM RetentionTypeCorrect == RetentionSpec => []RetentionTypeOK
<1>1. RetentionInv => RetentionTypeOK  BY DEF RetentionInv
<1> QED BY <1>1, RetentionInvInit, RetentionInvNext, PTL DEF RetentionSpec

\* A sweep, in whatever process, deletes no record that a row, or the memory of
\* that process, has held since before it began.
THEOREM HoldsProtect == RetentionSpec => HoldsStopSweeps
<1>1. RetentionInv /\ [RetentionNext]_retentionVars =>
        [\A w \in sweeps \ sweeps' : \A r \in kept \ kept' :
           <<"rows", r>> \notin w.since /\ <<w.process, r>> \notin w.since]_retentionVars
  <2> SUFFICES ASSUME RetentionInv, RetentionNext,
                      NEW w \in sweeps \ sweeps', NEW r \in kept \ kept'
               PROVE  <<"rows", r>> \notin w.since /\ <<w.process, r>> \notin w.since
    OBVIOUS
  <2>1. PICK v \in sweeps : Commits(v)
    BY DEF RetentionNext, PlaceHold, ReleaseHold, SetPolicy, Restart, SweepStarts,
           ReadsRows, ReadsMemory, Goes, SweepFails
  <2>2. w = v /\ r \in v.free  BY <2>1 DEF Commits, Condemned
  <2> QED BY <2>2 DEF RetentionInv, AskedInv
<1> QED BY <1>1, RetentionInvInit, RetentionInvNext, PTL DEF RetentionSpec, HoldsStopSweeps

\* A sweep deletes what it found free of every class or, above all when an audit
\* row is among it, nothing.
THEOREM SweepsAreWhole == RetentionSpec => AllClassesOrNone
<1>1. [RetentionNext]_retentionVars =>
        [\A w \in sweeps \ sweeps' :
           kept' # kept => kept \ kept' = Condemned(w) \cap kept]_retentionVars
  <2> SUFFICES ASSUME RetentionNext, NEW w \in sweeps \ sweeps', kept' # kept
               PROVE  kept \ kept' = Condemned(w) \cap kept
    OBVIOUS
  <2>1. PICK v \in sweeps : Commits(v)
    BY DEF RetentionNext, PlaceHold, ReleaseHold, SetPolicy, Restart, SweepStarts,
           ReadsRows, ReadsMemory, Goes, SweepFails
  <2> QED BY <2>1 DEF Commits
<1> QED BY <1>1, PTL DEF RetentionSpec, AllClassesOrNone

\* Unless sweeps overlapped there is one at most, what it has found is still in
\* the tables, and what is gone has been counted.
CountsInv ==
  ~overlapped => /\ \A v, w \in sweeps : v = w
                 /\ \A w \in sweeps : w.seen \cup w.free \subseteq kept
                 /\ deletedCount = Cardinality(Retained \ kept)

\* Records deleted together add their number to those that are gone.
LEMMA GoneByBatch ==
  ASSUME NEW left, left \subseteq Retained, NEW batch, batch \subseteq left
  PROVE  Cardinality(Retained \ (left \ batch)) = Cardinality(Retained \ left) + Cardinality(batch)
<1>1. IsFiniteSet(Retained \ left) /\ IsFiniteSet(batch)
  <2>1. Retained \ left \subseteq Retained /\ batch \subseteq Retained  OBVIOUS
  <2> QED BY <2>1, RetentionAssumption, FS_Subset
<1>2. Retained \ (left \ batch) = (Retained \ left) \cup batch  OBVIOUS
<1>3. (Retained \ left) \cap batch = {}  OBVIOUS
<1>4. Cardinality((Retained \ left) \cup batch)
        = Cardinality(Retained \ left) + Cardinality(batch)
          - Cardinality((Retained \ left) \cap batch)
  BY <1>1, FS_Union
<1>5. Cardinality(Retained \ left) \in Nat /\ Cardinality(batch) \in Nat
  BY <1>1, FS_CardinalityType
<1>6. Cardinality((Retained \ left) \cap batch) = 0  BY <1>3, FS_EmptySet
<1>7. Cardinality((Retained \ left) \cup batch)
        = Cardinality(Retained \ left) + Cardinality(batch)
  BY <1>4, <1>5, <1>6
<1> QED BY <1>2, <1>7

LEMMA CountsStep ==
  RetentionInv /\ CountsInv /\ [RetentionNext]_retentionVars => CountsInv'
<1> SUFFICES ASSUME RetentionInv, CountsInv, [RetentionNext]_retentionVars, ~overlapped'
             PROVE  /\ \A v, w \in sweeps' : v = w
                    /\ \A w \in sweeps' : w.seen \cup w.free \subseteq kept'
                    /\ deletedCount' = Cardinality(Retained \ kept')
  BY DEF CountsInv
<1>o. ~overlapped
  BY DEF RetentionNext, PlaceHold, ReleaseHold, SetPolicy, Restart, SweepStarts, ReadsRows,
         ReadsMemory, Goes, Commits, SweepFails, retentionVars
<1>i. /\ \A v, w \in sweeps : v = w
      /\ \A w \in sweeps : w.seen \cup w.free \subseteq kept
      /\ deletedCount = Cardinality(Retained \ kept)
  BY <1>o DEF CountsInv
<1>t. kept \subseteq Retained /\ sweeps \subseteq Sweeps /\ deletedCount \in Nat
  BY DEF RetentionInv, RetentionTypeOK
<1>q. ASSUME UNCHANGED <<kept, deletedCount>>, sweeps' \subseteq sweeps
      PROVE  /\ \A v, w \in sweeps' : v = w
             /\ \A w \in sweeps' : w.seen \cup w.free \subseteq kept'
             /\ deletedCount' = Cardinality(Retained \ kept')
  BY <1>i, <1>q
<1>r. ASSUME UNCHANGED <<kept, deletedCount>>, NEW gone, sweeps' \subseteq Released(gone)
      PROVE  /\ \A v, w \in sweeps' : v = w
             /\ \A w \in sweeps' : w.seen \cup w.free \subseteq kept'
             /\ deletedCount' = Cardinality(Retained \ kept')
  <2>1. \A v \in sweeps' : \E w \in sweeps : v = [w EXCEPT !.since = @ \ gone]
    BY <1>r DEF Released
  <2>2. \A w \in sweeps : LET v == [w EXCEPT !.since = @ \ gone]
                          IN  v.seen = w.seen /\ v.free = w.free
    BY <1>t DEF Sweeps
  <2>3. \A v, w \in sweeps' : v = w  BY <2>1, <1>i, Zenon
  <2>4. ASSUME NEW v \in sweeps' PROVE v.seen \cup v.free \subseteq kept'
    <3>1. PICK w \in sweeps : v = [w EXCEPT !.since = @ \ gone]  BY <2>1
    <3>2. v.seen = w.seen /\ v.free = w.free  BY <2>2, <3>1, Zenon
    <3> QED BY <1>r, <1>i, <3>2, Zenon
  <2> QED BY <1>r, <2>3, <2>4, <1>i
<1>n. ASSUME NEW w \in sweeps, NEW next, Goes(w, next), next.seen \cup next.free \subseteq kept
      PROVE  /\ \A v, u \in sweeps' : v = u
             /\ \A v \in sweeps' : v.seen \cup v.free \subseteq kept'
             /\ deletedCount' = Cardinality(Retained \ kept')
  <2>1. sweeps' = {next}  BY <1>n, <1>i DEF Goes
  <2> QED BY <1>n, <2>1, <1>i DEF Goes
<1>1. CASE PlaceHold    BY <1>1, <1>q DEF PlaceHold
<1>2. CASE ReleaseHold  BY <1>2, <1>r DEF ReleaseHold
<1>3. CASE SetPolicy    BY <1>3, <1>q DEF SetPolicy
<1>4. CASE Restart      BY <1>4, <1>r DEF Restart
<1>5. CASE SweepStarts
  <2>1. sweeps = {}  BY <1>5 DEF SweepStarts
  <2>2. PICK slot \in SweepSlots, process \in Processes :
          sweeps' = sweeps \cup
            {[slot |-> slot, process |-> process, due |-> expired, auto |-> autoDelete,
              left |-> Classes, seen |-> {}, free |-> {}, since |-> holds]}
    BY <1>5 DEF SweepStarts
  <2> QED BY <1>5, <2>1, <2>2, <1>i DEF SweepStarts
<1>7. CASE \E w \in sweeps : ReadsRows(w)
  <2>1. PICK w \in sweeps : ReadsRows(w)  BY <1>7
  <2>2. PICK class \in w.left :
          Goes(w, [w EXCEPT !.left = @ \ {class},
                            !.seen = (w.due \cap kept \cap Of({class})) \ HeldIn("rows")])
    BY <2>1 DEF ReadsRows
  <2> DEFINE next == [w EXCEPT !.left = @ \ {class},
                               !.seen = (w.due \cap kept \cap Of({class})) \ HeldIn("rows")]
  <2>3. next.free = w.free /\ next.seen \subseteq kept  BY <1>t DEF Sweeps
  <2>4. next.seen \cup next.free \subseteq kept  BY <2>3, <1>i
  <2>5. Goes(w, next)  BY <2>2
  <2> HIDE DEF next
  <2> QED BY <2>4, <2>5, <1>n
<1>8. CASE \E w \in sweeps : ReadsMemory(w)
  <2>1. PICK w \in sweeps : ReadsMemory(w)  BY <1>8
  <2> DEFINE next == [w EXCEPT !.free = @ \cup (w.seen \ HeldIn(w.process)), !.seen = {}]
  <2>3. next.free \subseteq w.free \cup w.seen /\ next.seen = {}  BY <1>t DEF Sweeps
  <2>4. next.seen \cup next.free \subseteq kept  BY <2>3, <1>i
  <2>5. Goes(w, next)  BY <2>1 DEF ReadsMemory
  <2> HIDE DEF next
  <2> QED BY <2>4, <2>5, <1>n
<1>9. CASE \E w \in sweeps : Commits(w)
  <2>1. PICK w \in sweeps : Commits(w)  BY <1>9
  <2>2. Condemned(w) \subseteq kept  BY <1>i DEF Condemned
  <2>3. Cardinality(Retained \ (kept \ Condemned(w)))
          = Cardinality(Retained \ kept) + Cardinality(Condemned(w))
    BY <2>2, <1>t, GoneByBatch
  <2>4. sweeps' = {}  BY <2>1, <1>i DEF Commits
  <2> QED BY <2>1, <2>3, <2>4, <1>i DEF Commits
<1>10. CASE \E w \in sweeps : SweepFails(w)  BY <1>10, <1>q DEF SweepFails
<1>11. CASE UNCHANGED retentionVars  BY <1>11, <1>q DEF retentionVars
<1> QED BY <1>1, <1>2, <1>3, <1>4, <1>5, <1>7, <1>8, <1>9, <1>10, <1>11 DEF RetentionNext

\* Unless two sweeps overlap, whatever is held, released or restarted between
\* their steps, the counts they report are the records that are gone.
THEOREM CountsExact == RetentionSpec => []CountsAreExact
<1>1. RetentionInit => CountsInv
  <2>1. Retained \ Retained = {}  OBVIOUS
  <2> QED BY <2>1, FS_EmptySet DEF RetentionInit, CountsInv
<1>2. CountsInv => CountsAreExact  BY DEF CountsInv, CountsAreExact
<1> QED BY <1>1, <1>2, RetentionInvInit, RetentionInvNext, CountsStep, PTL DEF RetentionSpec

-----------------------------------------------------------------------------
(* Drip sequences *)

\* A session that has read writes to a row there is, and no session holds the
\* step after the last; a row at that step is completed.
HeldRowInv ==
  /\ \A s \in sessions :
       /\ s.row # NoRow => s.row \in DOMAIN dripRows
       /\ s.step < Steps
       /\ s.kind = "stop" /\ s.at = "read" => s.row # NoRow
  /\ \A r \in DOMAIN dripRows : dripRows[r].step = Steps => dripRows[r].completed

DripInv == DripTypeOK /\ HeldRowInv /\ UnsentIsDue

\* What a row may be, and a session.
RowOK(row) ==
  /\ row \in DripRows
  /\ row.step = Steps => row.completed
  /\ row.step = 0 /\ ~row.completed => row.next = "now"
SessionOK(s) ==
  /\ s \in Sessions
  /\ s.row # NoRow => s.row \in DOMAIN dripRows
  /\ s.step < Steps
  /\ s.kind = "stop" /\ s.at = "read" => s.row # NoRow

\* The invariant, row by row and session by session.
LEMMA DripInvByRow ==
  DripInv <=>
    /\ dripRows \in Seq(DripRows) /\ Len(dripRows) <= MaxRows
    /\ reported \in Seq(0..Steps - 1) /\ crossing \in BOOLEAN
    /\ \A r \in DOMAIN dripRows : RowOK(dripRows[r])
    /\ \A s \in sessions : SessionOK(s)
<1>1. dripRows \in Seq(DripRows) => \A r \in DOMAIN dripRows : dripRows[r] \in DripRows
  OBVIOUS
<1> QED BY <1>1 DEF DripInv, DripTypeOK, HeldRowInv, UnsentIsDue, RowOK, SessionOK

\* A row written where one is.
LEMMA RowWritten ==
  ASSUME DripInv, NEW i \in DOMAIN dripRows, NEW row, RowOK(row),
         dripRows' = [dripRows EXCEPT ![i] = row]
  PROVE  /\ dripRows' \in Seq(DripRows) /\ Len(dripRows') <= MaxRows
         /\ DOMAIN dripRows' = DOMAIN dripRows
         /\ \A r \in DOMAIN dripRows' : RowOK(dripRows'[r])
<1>1. dripRows \in Seq(DripRows) /\ row \in DripRows  BY DEF DripInv, DripTypeOK, RowOK
<1>2. dripRows' \in Seq(DripRows) /\ Len(dripRows') = Len(dripRows)
      /\ DOMAIN dripRows' = DOMAIN dripRows
  BY <1>1
<1>3. \A r \in DOMAIN dripRows : dripRows'[r] = IF r = i THEN row ELSE dripRows[r]  BY <1>1
<1> QED BY <1>2, <1>3, DripInvByRow

\* A row added where there is room.
LEMMA RowAdded ==
  ASSUME DripInv, NEW row, RowOK(row), Len(dripRows) < MaxRows,
         dripRows' = Append(dripRows, row)
  PROVE  /\ dripRows' \in Seq(DripRows) /\ Len(dripRows') <= MaxRows
         /\ DOMAIN dripRows \subseteq DOMAIN dripRows'
         /\ \A r \in DOMAIN dripRows' : RowOK(dripRows'[r])
<1>1. dripRows \in Seq(DripRows) /\ row \in DripRows  BY DEF DripInv, DripTypeOK, RowOK
<1>2. MaxRows \in Nat  BY DripAssumption
<1>3. dripRows' \in Seq(DripRows) /\ Len(dripRows') = Len(dripRows) + 1  BY <1>1
<1>4. Len(dripRows') <= MaxRows  BY <1>1, <1>2, <1>3
<1>5. \A r \in DOMAIN dripRows' :
        dripRows'[r] = IF r = Len(dripRows) + 1 THEN row ELSE dripRows[r]
  BY <1>1
<1>6. \A r \in DOMAIN dripRows' : r # Len(dripRows) + 1 => r \in DOMAIN dripRows
  BY <1>1, <1>3
<1>7. DOMAIN dripRows \subseteq DOMAIN dripRows'  BY <1>1, <1>3
<1> QED BY <1>3, <1>4, <1>5, <1>6, <1>7, DripInvByRow

\* A session that goes, and what it leaves, over rows that stay.
LEMMA SessionTurns ==
  ASSUME DripInv, NEW s, NEW next, \A t \in next : SessionOK(t), Turns(s, next)
  PROVE  DripInv'
<1>1. \A t \in sessions' : SessionOK(t)
  BY DripInvByRow DEF Turns
<1>2. UNCHANGED <<dripRows, reported, crossing>>  BY DEF Turns
<1> QED BY <1>1, <1>2, DripInvByRow
     DEF DripInv, DripTypeOK, HeldRowInv, UnsentIsDue, SessionOK, RowOK

\* A step that writes rows well, keeps those there are and leaves sessions well.
LEMMA DripInvKept ==
  ASSUME DripInv,
         dripRows' \in Seq(DripRows), Len(dripRows') <= MaxRows,
         DOMAIN dripRows \subseteq DOMAIN dripRows',
         \A r \in DOMAIN dripRows' : RowOK(dripRows'[r]),
         \A t \in sessions' : SessionOK(t),
         reported' \in Seq(0..Steps - 1), crossing' \in BOOLEAN
  PROVE  DripInv'
<1>1. \A t \in sessions' : /\ t \in Sessions
                           /\ t.row # NoRow => t.row \in DOMAIN dripRows'
                           /\ t.step < Steps
                           /\ t.kind = "stop" /\ t.at = "read" => t.row # NoRow
  BY DEF SessionOK
<1>2. sessions' \subseteq Sessions  BY <1>1
<1>3. \A r \in DOMAIN dripRows' :
        /\ dripRows'[r].step = Steps => dripRows'[r].completed
        /\ dripRows'[r].step = 0 /\ ~dripRows'[r].completed => dripRows'[r].next = "now"
  BY DEF RowOK
<1> QED BY <1>1, <1>2, <1>3 DEF DripInv, DripTypeOK, HeldRowInv, UnsentIsDue

\* The row an advance writes back, over whatever is there by now.
LEMMA AdvancedRow ==
  ASSUME NEW row, RowOK(row), NEW upTo \in 0..Steps - 1
  PROVE  RowOK(Advanced(row, upTo)) /\ (row.completed => Advanced(row, upTo).completed)
<1> DEFINE new == Advanced(row, upTo)
<1>1. Steps \in Nat \ {0} /\ row \in DripRows  BY DripAssumption DEF RowOK
<1>2. upTo + 1 \in 0..Steps /\ upTo + 1 # 0  BY <1>1
<1>3. NextSend(upTo) \in {"none", "later", "now"}  BY DEF NextSend
<1>4. row.completed \in BOOLEAN /\ Ends(upTo) \in BOOLEAN  BY <1>1 DEF DripRows, Ends
<1>5. (row.completed \/ Ends(upTo)) \in BOOLEAN  BY <1>4
<1>6. /\ new \in DripRows /\ new.step = upTo + 1
      /\ new.completed = (row.completed \/ Ends(upTo))
  BY <1>1, <1>2, <1>3, <1>5 DEF DripRows, Advanced
<1>7. new.step = Steps => new.completed  BY <1>6 DEF Ends
<1>8. row.completed => new.completed  BY <1>6
<1> HIDE DEF new
<1>9. RowOK(new)  BY <1>2, <1>6, <1>7 DEF RowOK
<1> QED BY <1>8, <1>9 DEF new

LEMMA DripInvInit == DripInit => DripInv
<1> SUFFICES ASSUME DripInit PROVE DripInv
  OBVIOUS
<1>1. <<>> \in Seq(DripRows) /\ <<>> \in Seq(0..Steps - 1) /\ Len(<<>>) <= MaxRows
  BY DripAssumption
<1>2. DOMAIN dripRows = {}  BY DEF DripInit
<1> QED BY <1>1, <1>2 DEF DripInit, DripInv, DripTypeOK, HeldRowInv, UnsentIsDue

LEMMA DripInvNext == DripInv /\ [DripNext]_dripVars => DripInv'
<1> SUFFICES ASSUME DripInv, [DripNext]_dripVars PROVE DripInv'
  OBVIOUS
<1>t. /\ dripRows \in Seq(DripRows) /\ Len(dripRows) <= MaxRows
      /\ reported \in Seq(0..Steps - 1) /\ crossing \in BOOLEAN
      /\ \A r \in DOMAIN dripRows : RowOK(dripRows[r])
      /\ \A s \in sessions : SessionOK(s)
  BY DripInvByRow
<1>n. Steps \in Nat \ {0} /\ MaxRows \in Nat  BY DripAssumption
<1>c. ASSUME NEW s, Crosses(s) PROVE crossing' \in BOOLEAN  BY <1>c, <1>t DEF Crosses
<1>r. ASSUME NEW s \in sessions, s.kind = "advance", Reports(s)
      PROVE  /\ reported' \in Seq(0..Steps - 1)
             /\ sessions' \subseteq sessions /\ s.step \in 0..Steps - 1
  <2>1. SessionOK(s)  BY <1>t
  <2>2. s.step \in 0..Steps - 1  BY <2>1, <1>r, <1>n DEF SessionOK, Sessions
  <2> QED BY <2>2, <1>r, <1>t DEF Reports
<1>1. CASE Called
  <2>1. PICK slot \in SessionSlots, kind \in SessionKinds :
          sessions' = sessions \cup
            {[slot |-> slot, kind |-> kind, at |-> "called", row |-> NoRow, step |-> 0]}
    BY <1>1 DEF Called
  <2> DEFINE new == [slot |-> slot, kind |-> kind, at |-> "called", row |-> NoRow, step |-> 0]
  <2>2. new \in Sessions /\ new.row = NoRow /\ new.step = 0 /\ new.at = "called"
    BY <1>n DEF Sessions, NoRow
  <2>3. SessionOK(new)  BY <2>2, <1>n DEF SessionOK
  <2>4. \A s \in sessions' : SessionOK(s)  BY <2>1, <2>3, <1>t
  <2> QED BY <1>1, <2>4, <1>t, DripInvKept DEF Called
<1>2. CASE BecomesDue
  <2>1. PICK r \in DOMAIN dripRows :
          dripRows[r].next = "later" /\ dripRows' = [dripRows EXCEPT ![r].next = "now"]
    BY <1>2 DEF BecomesDue
  <2> DEFINE row == [dripRows[r] EXCEPT !.next = "now"]
  <2>2. RowOK(row)  BY <1>t DEF RowOK, DripRows
  <2>3. dripRows' = [dripRows EXCEPT ![r] = row]  BY <2>1
  <2> HIDE DEF row
  <2> QED BY <1>2, <2>2, <2>3, <1>t, RowWritten, DripInvKept DEF BecomesDue
<1>3. ASSUME NEW s \in sessions, EnrolReads(s) PROVE DripInv'
  <2>1. SessionOK([s EXCEPT !.at = "read"])
    BY <1>3, <1>t DEF EnrolReads, SessionOK, Sessions
  <2>2. \E next : Turns(s, next) /\ \A v \in next : SessionOK(v)
    BY <1>3, <2>1 DEF EnrolReads
  <2> QED BY <2>2, SessionTurns
<1>4. ASSUME NEW s \in sessions, EnrolCommits(s) PROVE DripInv'
  <2> DEFINE row == [step |-> 0, completed |-> FALSE, next |-> "now"]
             new == [s EXCEPT !.kind = "advance", !.at = "called"]
  <2>1. RowOK(row)  BY <1>n DEF RowOK, DripRows
  <2>2. s \in Sessions /\ s.kind = "enrol"  BY <1>4, <1>t DEF EnrolCommits, SessionOK
  <2>3. SessionOK(new)  BY <1>t, <2>2 DEF SessionOK, Sessions, SessionKinds
  <2>4. sessions' = (sessions \ {s}) \cup {new}  BY <1>4 DEF EnrolCommits
  <2>5. \A v \in sessions' : SessionOK(v)  BY <2>3, <2>4, <1>t
  <2> HIDE DEF row, new
  <2>6. dripRows' = Append(dripRows, row)  BY <1>4 DEF EnrolCommits, row
  <2> QED BY <1>4, <2>1, <2>5, <2>6, <1>c, <1>t, RowAdded, DripInvKept DEF EnrolCommits
<1>5. ASSUME NEW s \in sessions, AdvanceReads(s) PROVE DripInv'
  <2>1. CASE dripRows = <<>> /\ Turns(s, {[s EXCEPT !.at = "read"]})
    <3>1. SessionOK([s EXCEPT !.at = "read"])
      BY <1>5, <1>t DEF AdvanceReads, SessionOK, Sessions
    <3> QED BY <2>1, <3>1, SessionTurns
  <2>2. ASSUME NEW r \in DOMAIN dripRows,
               Turns(s, IF dripRows[r].completed THEN {}
                        ELSE {[s EXCEPT !.at = "read", !.row = r, !.step = dripRows[r].step]})
        PROVE  DripInv'
    <3>1. CASE dripRows[r].completed  BY <2>2, <3>1, SessionTurns
    <3>2. CASE ~dripRows[r].completed
      <4> DEFINE new == [s EXCEPT !.at = "read", !.row = r, !.step = dripRows[r].step]
      <4>1. RowOK(dripRows[r]) /\ SessionOK(s)  BY <1>t
      <4>2. r \in 0..MaxRows /\ r # NoRow  BY <1>t, <1>n DEF NoRow
      <4>3. dripRows[r].step \in 0..Steps /\ dripRows[r].step < Steps
        BY <4>1, <3>2, <1>n DEF RowOK, DripRows
      <4>4. /\ new \in Sessions /\ new.row = r /\ new.step = dripRows[r].step
            /\ new.kind = s.kind
        BY <4>1, <4>2, <4>3 DEF SessionOK, Sessions
      <4>5. SessionOK(new)  BY <4>2, <4>3, <4>4 DEF SessionOK
      <4> QED BY <2>2, <3>2, <4>5, SessionTurns
    <3> QED BY <3>1, <3>2
  <2> QED BY <1>5, <2>1, <2>2 DEF AdvanceReads
<1>6. ASSUME NEW s \in sessions, AdvanceCommits(s) PROVE DripInv'
  <2>1. SessionOK(s) /\ s.row \in DOMAIN dripRows
    BY <1>6, <1>t DEF AdvanceCommits, SessionOK
  <2>2. /\ reported' \in Seq(0..Steps - 1)
        /\ sessions' \subseteq sessions /\ s.step \in 0..Steps - 1
    BY <1>6, <1>r DEF AdvanceCommits
  <2> DEFINE row == Advanced(dripRows[s.row], s.step)
  <2>3. RowOK(row)  BY <2>1, <2>2, <1>t, AdvancedRow
  <2>4. dripRows' = [dripRows EXCEPT ![s.row] = row]  BY <1>6 DEF AdvanceCommits
  <2> HIDE DEF row
  <2>5. /\ dripRows' \in Seq(DripRows) /\ Len(dripRows') <= MaxRows
        /\ DOMAIN dripRows' = DOMAIN dripRows
        /\ \A r \in DOMAIN dripRows' : RowOK(dripRows'[r])
    BY <2>1, <2>3, <2>4, RowWritten
  <2>6. crossing' \in BOOLEAN  BY <1>6, <1>c DEF AdvanceCommits
  <2>7. \A t \in sessions' : SessionOK(t)  BY <2>2, <1>t
  <2> QED BY <2>2, <2>5, <2>6, <2>7, DripInvKept
<1>7. ASSUME NEW s \in sessions, AdvanceInserts(s) PROVE DripInv'
  <2>2. /\ reported' \in Seq(0..Steps - 1) /\ sessions' \subseteq sessions
    BY <1>7, <1>r DEF AdvanceInserts
  <2> DEFINE row == [step |-> 1, completed |-> Ends(0), next |-> NextSend(0)]
  <2>1. Ends(0) \in BOOLEAN /\ NextSend(0) \in {"none", "later", "now"} /\ 1 \in 0..Steps
    BY <1>n DEF Ends, NextSend
  <2>8. row \in DripRows /\ row.step = 1 /\ row.completed = Ends(0)  BY <2>1 DEF DripRows
  <2>9. Steps = 1 => Ends(0)  BY DEF Ends
  <2>3. RowOK(row)  BY <2>8, <2>9 DEF RowOK
  <2>4. dripRows' = Append(dripRows, row) /\ Len(dripRows) < MaxRows  BY <1>7 DEF AdvanceInserts
  <2> HIDE DEF row
  <2>5. /\ dripRows' \in Seq(DripRows) /\ Len(dripRows') <= MaxRows
        /\ DOMAIN dripRows \subseteq DOMAIN dripRows'
        /\ \A r \in DOMAIN dripRows' : RowOK(dripRows'[r])
    BY <2>3, <2>4, RowAdded
  <2>6. crossing' \in BOOLEAN  BY <1>7, <1>c DEF AdvanceInserts
  <2>7. \A t \in sessions' : SessionOK(t)  BY <2>2, <1>t
  <2> QED BY <2>2, <2>5, <2>6, <2>7, DripInvKept
<1>8. ASSUME NEW s \in sessions, StopReads(s) PROVE DripInv'
  <2>1. CASE Turns(s, {})  BY <2>1, SessionTurns
  <2>2. ASSUME NEW r \in DOMAIN dripRows, Turns(s, {[s EXCEPT !.at = "read", !.row = r]})
        PROVE  DripInv'
    <3> DEFINE new == [s EXCEPT !.at = "read", !.row = r]
    <3>1. SessionOK(s)  BY <1>t
    <3>2. r \in 0..MaxRows /\ r # NoRow  BY <1>t, <1>n DEF NoRow
    <3>3. new \in Sessions /\ new.row = r /\ new.step = s.step
      BY <3>1, <3>2 DEF SessionOK, Sessions
    <3>4. SessionOK(new)  BY <3>1, <3>2, <3>3 DEF SessionOK
    <3> QED BY <2>2, <3>4, SessionTurns
  <2> QED BY <1>8, <2>1, <2>2 DEF StopReads
<1>9. ASSUME NEW s \in sessions, StopCommits(s) PROVE DripInv'
  <2>1. SessionOK(s) /\ s.row \in DOMAIN dripRows
    BY <1>9, <1>t DEF StopCommits, SessionOK
  <2> DEFINE row == [dripRows[s.row] EXCEPT !.completed = TRUE, !.next = "none"]
  <2>2. RowOK(dripRows[s.row])  BY <2>1, <1>t
  <2>3. RowOK(row)  BY <2>2 DEF RowOK, DripRows
  <2>4. dripRows' = [dripRows EXCEPT ![s.row] = row]  BY <1>9, <2>1, <1>t DEF StopCommits
  <2> HIDE DEF row
  <2>5. /\ dripRows' \in Seq(DripRows) /\ Len(dripRows') <= MaxRows
        /\ DOMAIN dripRows' = DOMAIN dripRows
        /\ \A r \in DOMAIN dripRows' : RowOK(dripRows'[r])
    BY <2>1, <2>3, <2>4, RowWritten
  <2>6. crossing' \in BOOLEAN  BY <1>9, <1>c DEF StopCommits
  <2>7. (\A t \in sessions' : SessionOK(t)) /\ reported' = reported
    BY <1>9, <1>t DEF StopCommits
  <2> QED BY <2>5, <2>6, <2>7, <1>t, DripInvKept
<1>10. ASSUME NEW s \in sessions, SessionFails(s) PROVE DripInv'
  BY <1>10, SessionTurns DEF SessionFails
<1>11. CASE UNCHANGED dripVars
  BY <1>11 DEF dripVars, DripInv, DripTypeOK, HeldRowInv, UnsentIsDue
<1> QED BY <1>1, <1>2, <1>3, <1>4, <1>5, <1>6, <1>7, <1>8, <1>9, <1>10, <1>11 DEF DripNext

\* Whichever sessions read, write and fail, rows and sessions keep their types
\* and no step beyond the last is reported.
THEOREM DripTypeCorrect == DripSpec => []DripTypeOK
<1>1. DripInv => DripTypeOK  BY DEF DripInv
<1> QED BY <1>1, DripInvInit, DripInvNext, PTL DEF DripSpec

\* A row that has sent nothing and is not stopped stays due, so that the
\* processor finds it whatever became of the enrolment.
THEOREM UnsentStaysDue == DripSpec => []UnsentIsDue
<1>1. DripInv => UnsentIsDue  BY DEF DripInv
<1> QED BY <1>1, DripInvInit, DripInvNext, PTL DEF DripSpec

\* No session, however old its reading, takes up a sequence that is completed.
THEOREM CompletedStays == DripSpec => CompletedForGood
<1>1. DripInv /\ [DripNext]_dripVars =>
        [\A r \in DOMAIN dripRows : dripRows[r].completed => dripRows'[r].completed]_dripVars
  <2> SUFFICES ASSUME DripInv, DripNext, NEW r \in DOMAIN dripRows, dripRows[r].completed
               PROVE  dripRows'[r].completed
    OBVIOUS
  <2>t. dripRows \in Seq(DripRows) /\ dripRows[r] \in DripRows
    BY DEF DripInv, DripTypeOK
  <2>1. CASE UNCHANGED dripRows  BY <2>1
  <2>2. ASSUME NEW row, dripRows' = Append(dripRows, row) PROVE dripRows'[r].completed
    BY <2>2, <2>t
  <2>3. ASSUME NEW i \in DOMAIN dripRows, NEW row,
               dripRows' = [dripRows EXCEPT ![i] = row],
               dripRows[i].completed => row.completed
        PROVE  dripRows'[r].completed
    BY <2>3, <2>t
  <2>4. CASE BecomesDue
    <3>1. PICK i \in DOMAIN dripRows : dripRows' = [dripRows EXCEPT ![i].next = "now"]
      BY <2>4 DEF BecomesDue
    <3>2. dripRows[i] \in DripRows  BY <2>t
    <3> DEFINE row == [dripRows[i] EXCEPT !.next = "now"]
    <3>3. row.completed = dripRows[i].completed  BY <3>2 DEF DripRows
    <3>4. dripRows' = [dripRows EXCEPT ![i] = row]  BY <3>1
    <3> HIDE DEF row
    <3> QED BY <2>3, <3>3, <3>4
  <2>5. ASSUME NEW s \in sessions, AdvanceCommits(s) PROVE dripRows'[r].completed
    <3>1. /\ s.row \in DOMAIN dripRows /\ RowOK(dripRows[s.row])
          /\ s.step \in Nat /\ s.step < Steps
      BY <2>5, DripInvByRow, DripAssumption DEF AdvanceCommits, SessionOK, Sessions
    <3>2. s.step \in 0..Steps - 1  BY <3>1, DripAssumption
    <3>3. dripRows[s.row].completed => Advanced(dripRows[s.row], s.step).completed
      BY <3>1, <3>2, AdvancedRow
    <3>4. dripRows' = [dripRows EXCEPT ![s.row] = Advanced(dripRows[s.row], s.step)]
      BY <2>5 DEF AdvanceCommits
    <3> QED BY <2>3, <3>1, <3>3, <3>4
  <2>6. ASSUME NEW s \in sessions, StopCommits(s) PROVE dripRows'[r].completed
    <3> DEFINE row == [dripRows[s.row] EXCEPT !.completed = TRUE, !.next = "none"]
    <3>1. s.row \in DOMAIN dripRows /\ dripRows[s.row] \in DripRows
      BY <2>6, <2>t DEF StopCommits, DripInv, HeldRowInv
    <3>2. row.completed  BY <3>1 DEF DripRows
    <3>4. dripRows' = [dripRows EXCEPT ![s.row] = row]  BY <2>6, <3>1, <2>t DEF StopCommits
    <3> HIDE DEF row
    <3> QED BY <2>3, <3>1, <3>2, <3>4
  <2> QED BY <2>1, <2>2, <2>4, <2>5, <2>6
       DEF DripNext, Called, EnrolReads, EnrolCommits, AdvanceReads, AdvanceInserts,
           StopReads, SessionFails, Turns
<1> QED BY <1>1, DripInvInit, DripInvNext, PTL DEF DripSpec, CompletedForGood

\* A session that has read nothing yet has nothing to write; unless commits
\* crossed, what a session has read of the row is what the row says.
Fresh(s) ==
  /\ s.at = "called" \/ s.kind = "enrol" => s.row = NoRow
  /\ s.row = NoRow => s.step = 0
Current(s) ==
  s.at = "read" => /\ s.kind = "enrol" => dripRows = <<>>
                   /\ s.kind = "advance" /\ s.row = NoRow => dripRows = <<>>
                   /\ s.kind = "advance" /\ s.row # NoRow => s.step = Len(reported)
InOrder ==
  /\ \A i \in DOMAIN reported : reported[i] = i - 1
  /\ Len(dripRows) <= 1
  /\ \A r \in DOMAIN dripRows : dripRows[r].step = Len(reported)
  /\ dripRows = <<>> => reported = <<>>

OrderInv ==
  /\ \A s \in sessions : Fresh(s)
  /\ ~crossing => InOrder /\ \A s \in sessions : Current(s)

\* A session that only reads, or ends.
LEMMA OrderTurns ==
  ASSUME OrderInv, NEW s, NEW next, Turns(s, next), \A t \in next : Fresh(t),
         ~crossing => \A t \in next : Current(t)
  PROVE  OrderInv'
<1>1. UNCHANGED <<dripRows, reported, crossing>> /\ sessions' = (sessions \ {s}) \cup next
  BY DEF Turns
<1>2. \A t \in sessions' : Fresh(t)  BY <1>1 DEF OrderInv
<1>3. ~crossing => InOrder /\ \A t \in sessions' : Current(t)  BY <1>1 DEF OrderInv
<1> QED BY <1>1, <1>2, <1>3 DEF OrderInv, InOrder, Current, Fresh

\* A session that commits, and what it leaves: unless it crossed, no other has
\* read.
LEMMA OrderCommits ==
  ASSUME OrderInv, NEW s, Crosses(s), NEW left, sessions' = (sessions \ {s}) \cup left,
         \A t \in left : Fresh(t) /\ t.at = "called",
         ~crossing => InOrder'
  PROVE  OrderInv'
<1>1. \A t \in sessions' : Fresh(t)  BY DEF OrderInv
<1>2. ~crossing' => ~crossing /\ \A t \in sessions' : t.at # "read"  BY DEF Crosses
<1> QED BY <1>1, <1>2 DEF OrderInv, Current, Fresh

LEMMA OrderEnds ==
  ASSUME OrderInv, NEW s, Crosses(s), sessions' = sessions \ {s}, ~crossing => InOrder'
  PROVE  OrderInv'
<1> DEFINE left == {}
<1>1. sessions' = (sessions \ {s}) \cup left /\ \A t \in left : Fresh(t) /\ t.at = "called"
  OBVIOUS
<1> HIDE DEF left
<1> QED BY <1>1, OrderCommits

LEMMA OrderInvNext == DripInv /\ OrderInv /\ [DripNext]_dripVars => OrderInv'
<1> SUFFICES ASSUME DripInv, OrderInv, [DripNext]_dripVars PROVE OrderInv'
  OBVIOUS
<1>t. /\ dripRows \in Seq(DripRows) /\ reported \in Seq(0..Steps - 1)
      /\ \A r \in DOMAIN dripRows : RowOK(dripRows[r])
      /\ \A s \in sessions : SessionOK(s) /\ s \in Sessions /\ Fresh(s)
  BY DripInvByRow DEF OrderInv, SessionOK
<1>n. Steps \in Nat \ {0} /\ MaxRows \in Nat  BY DripAssumption
<1>1. CASE Called
  <2>1. PICK slot \in SessionSlots, kind \in SessionKinds :
          sessions' = sessions \cup
            {[slot |-> slot, kind |-> kind, at |-> "called", row |-> NoRow, step |-> 0]}
    BY <1>1 DEF Called
  <2> DEFINE new == [slot |-> slot, kind |-> kind, at |-> "called", row |-> NoRow, step |-> 0]
  <2>2. new.row = NoRow /\ new.step = 0 /\ new.at = "called"  OBVIOUS
  <2> HIDE DEF new
  <2>3. Fresh(new) /\ Current(new)  BY <2>2 DEF Fresh, Current
  <2>4. sessions' = sessions \cup {new}  BY <2>1 DEF new
  <2> QED BY <1>1, <2>3, <2>4 DEF Called, OrderInv, InOrder, Current, Fresh
<1>2. CASE BecomesDue
  <2>1. PICK r \in DOMAIN dripRows : dripRows' = [dripRows EXCEPT ![r].next = "now"]
    BY <1>2 DEF BecomesDue
  <2>2. Len(dripRows') = Len(dripRows) /\ DOMAIN dripRows' = DOMAIN dripRows  BY <2>1, <1>t
  <2>3. \A i \in DOMAIN dripRows : dripRows'[i].step = dripRows[i].step
    BY <2>1, <1>t DEF RowOK, DripRows
  <2>4. dripRows # <<>> /\ dripRows' # <<>>  BY <2>1, <2>2
  <2> QED BY <1>2, <2>2, <2>3, <2>4 DEF BecomesDue, OrderInv, InOrder, Current, Fresh
<1>3. ASSUME NEW s \in sessions, EnrolReads(s) PROVE OrderInv'
  <2> DEFINE next == [s EXCEPT !.at = "read"]
  <2>1. next.kind = "enrol" /\ next.row = NoRow /\ next.step = 0
    BY <1>3, <1>t DEF EnrolReads, Sessions, Fresh
  <2>2. Fresh(next)  BY <2>1 DEF Fresh
  <2>3. dripRows = <<>> => Current(next)  BY <2>1 DEF Current
  <2> HIDE DEF next
  <2>4. Turns(s, IF dripRows = <<>> THEN {next} ELSE {})  BY <1>3 DEF EnrolReads, next
  <2> QED BY <2>2, <2>3, <2>4, OrderTurns
<1>4. ASSUME NEW s \in sessions, EnrolCommits(s) PROVE OrderInv'
  <2> DEFINE row == [step |-> 0, completed |-> FALSE, next |-> "now"]
  <2>1. dripRows' = Append(dripRows, row) /\ UNCHANGED reported  BY <1>4 DEF EnrolCommits
  <2>2. ~crossing => InOrder'
    <3> SUFFICES ASSUME ~crossing PROVE InOrder'
      OBVIOUS
    <3>1. InOrder /\ Current(s)  BY DEF OrderInv
    <3>2. dripRows = <<>> /\ reported = <<>>  BY <1>4, <3>1 DEF EnrolCommits, Current, InOrder
    <3>3. dripRows' = <<row>>  BY <2>1, <3>2
    <3> QED BY <2>1, <3>1, <3>2, <3>3 DEF InOrder
  <2> DEFINE next == [s EXCEPT !.kind = "advance", !.at = "called"]
  <2>3. next.at = "called" /\ next.row = NoRow /\ next.step = 0
    BY <1>4, <1>t DEF EnrolCommits, Sessions, Fresh
  <2>4. Fresh(next)  BY <2>3 DEF Fresh
  <2>5. sessions' = (sessions \ {s}) \cup {next} /\ Crosses(s)  BY <1>4 DEF EnrolCommits
  <2> HIDE DEF next
  <2> QED BY <2>2, <2>3, <2>4, <2>5, OrderCommits
<1>5. ASSUME NEW s \in sessions, AdvanceReads(s) PROVE OrderInv'
  <2>1. CASE dripRows = <<>> /\ Turns(s, {[s EXCEPT !.at = "read"]})
    <3> DEFINE next == [s EXCEPT !.at = "read"]
    <3>1. next.kind = "advance" /\ next.row = NoRow /\ next.step = 0
      BY <1>5, <1>t DEF AdvanceReads, Sessions, Fresh
    <3>2. Fresh(next) /\ Current(next)  BY <2>1, <3>1 DEF Fresh, Current
    <3> HIDE DEF next
    <3>3. Turns(s, {next})  BY <2>1 DEF next
    <3> QED BY <3>2, <3>3, OrderTurns
  <2>2. ASSUME NEW r \in DOMAIN dripRows,
               Turns(s, IF dripRows[r].completed THEN {}
                        ELSE {[s EXCEPT !.at = "read", !.row = r, !.step = dripRows[r].step]})
        PROVE  OrderInv'
    <3> DEFINE next == [s EXCEPT !.at = "read", !.row = r, !.step = dripRows[r].step]
    <3>1. /\ next.kind = "advance" /\ next.at = "read" /\ next.row = r
          /\ next.step = dripRows[r].step
      BY <1>5, <1>t DEF AdvanceReads, Sessions
    <3>2. r # NoRow  BY <1>t DEF NoRow
    <3>3. Fresh(next)  BY <3>1, <3>2 DEF Fresh
    <3>4. ~crossing => Current(next)  BY <3>1, <3>2 DEF Current, OrderInv, InOrder
    <3> HIDE DEF next
    <3>5. Turns(s, IF dripRows[r].completed THEN {} ELSE {next})  BY <2>2 DEF next
    <3> QED BY <3>3, <3>4, <3>5, OrderTurns
  <2> QED BY <1>5, <2>1, <2>2 DEF AdvanceReads
<1>6. ASSUME NEW s \in sessions, AdvanceCommits(s) PROVE OrderInv'
  <2>1. s.row \in DOMAIN dripRows /\ s.step \in 0..Steps - 1
    BY <1>6, <1>t, <1>n DEF SessionOK, Sessions, AdvanceCommits
  <2>2. ~crossing => InOrder'
    <3> SUFFICES ASSUME ~crossing PROVE InOrder'
      OBVIOUS
    <3>1. InOrder /\ Current(s)  BY DEF OrderInv
    <3>2. s.step = Len(reported)  BY <1>6, <3>1 DEF AdvanceCommits, Current
    <3>3. dripRows' = [dripRows EXCEPT ![s.row] = Advanced(dripRows[s.row], s.step)]
          /\ reported' = Append(reported, s.step)
      BY <1>6 DEF AdvanceCommits, Reports
    <3>4. Len(dripRows') = Len(dripRows) /\ DOMAIN dripRows' = DOMAIN dripRows
      BY <3>3, <1>t
    <3>5. /\ Len(reported') = Len(reported) + 1
          /\ \A i \in DOMAIN reported' : reported'[i] = i - 1
      <4>1. s.step \in 0..Steps - 1 /\ reported \in Seq(0..Steps - 1)  BY <2>1, <1>t
      <4>2. DOMAIN reported' = 1..Len(reported) + 1 /\ Len(reported') = Len(reported) + 1
        BY <4>1, <3>3
      <4>3. \A i \in DOMAIN reported' :
              reported'[i] = IF i = Len(reported) + 1 THEN s.step ELSE reported[i]
        BY <4>1, <3>3
      <4>4. \A i \in 1..Len(reported) : reported[i] = i - 1
        BY <3>1, <4>1 DEF InOrder
      <4> QED BY <4>2, <4>3, <4>4, <3>2
    <3>6. DOMAIN dripRows = {s.row}
      <4>1. Len(dripRows) <= 1 /\ DOMAIN dripRows = 1..Len(dripRows) /\ Len(dripRows) \in Nat
        BY <3>1, <1>t DEF InOrder
      <4> QED BY <4>1, <2>1
    <3>7. dripRows'[s.row].step = s.step + 1
      <4>1. dripRows[s.row] \in DripRows  BY <1>t, <2>1 DEF RowOK
      <4>2. Advanced(dripRows[s.row], s.step).step = s.step + 1
        BY <4>1 DEF Advanced, DripRows
      <4> QED BY <4>2, <3>3, <2>1
    <3>8. dripRows' # <<>>  BY <3>4, <2>1
    <3>9. Len(dripRows') <= 1  BY <3>1, <3>4 DEF InOrder
    <3>10. \A r \in DOMAIN dripRows' : dripRows'[r].step = Len(reported')
      BY <3>2, <3>4, <3>5, <3>6, <3>7
    <3> QED BY <3>5, <3>8, <3>9, <3>10 DEF InOrder
  <2>3. sessions' = sessions \ {s} /\ Crosses(s)
    BY <1>6 DEF AdvanceCommits, Reports
  <2> QED BY <2>2, <2>3, OrderEnds
<1>7. ASSUME NEW s \in sessions, AdvanceInserts(s) PROVE OrderInv'
  <2> DEFINE row == [step |-> 1, completed |-> Ends(0), next |-> NextSend(0)]
  <2>1. dripRows' = Append(dripRows, row) /\ reported' = Append(reported, s.step)
    BY <1>7 DEF AdvanceInserts, Reports
  <2>2. ~crossing => InOrder'
    <3> SUFFICES ASSUME ~crossing PROVE InOrder'
      OBVIOUS
    <3>1. InOrder /\ Current(s)  BY DEF OrderInv
    <3>2. dripRows = <<>> /\ reported = <<>>  BY <1>7, <3>1 DEF AdvanceInserts, Current, InOrder
    <3>3. s.step = 0
      BY <1>7, <1>t DEF AdvanceInserts, Fresh
    <3>4. dripRows' = <<row>> /\ reported' = <<0>>  BY <2>1, <3>2, <3>3
    <3> QED BY <3>4 DEF InOrder
  <2>3. sessions' = sessions \ {s} /\ Crosses(s)
    BY <1>7 DEF AdvanceInserts, Reports
  <2> QED BY <2>2, <2>3, OrderEnds
<1>8. ASSUME NEW s \in sessions, StopReads(s) PROVE OrderInv'
  <2>1. CASE Turns(s, {})  BY <2>1, OrderTurns
  <2>2. ASSUME NEW r \in DOMAIN dripRows, Turns(s, {[s EXCEPT !.at = "read", !.row = r]})
        PROVE  OrderInv'
    <3> DEFINE next == [s EXCEPT !.at = "read", !.row = r]
    <3>1. next.kind = "stop" /\ next.at = "read" /\ next.row = r
      BY <1>8, <1>t DEF StopReads, Sessions
    <3> HIDE DEF next
    <3>4. r # NoRow  BY <1>t DEF NoRow
    <3>2. Fresh(next) /\ Current(next)  BY <3>1, <3>4 DEF Fresh, Current
    <3>3. Turns(s, {next})  BY <2>2 DEF next
    <3> QED BY <3>2, <3>3, OrderTurns
  <2> QED BY <1>8, <2>1, <2>2 DEF StopReads
<1>9. ASSUME NEW s \in sessions, StopCommits(s) PROVE OrderInv'
  <2>1. s.row \in DOMAIN dripRows  BY <1>9, <1>t DEF StopCommits, SessionOK
  <2>2. dripRows' = [dripRows EXCEPT ![s.row].completed = TRUE, ![s.row].next = "none"]
    BY <1>9 DEF StopCommits
  <2>3. Len(dripRows') = Len(dripRows) /\ DOMAIN dripRows' = DOMAIN dripRows  BY <2>2, <1>t
  <2>4. \A i \in DOMAIN dripRows : dripRows'[i].step = dripRows[i].step
    BY <2>1, <2>2, <1>t DEF RowOK, DripRows
  <2>5. dripRows' # <<>>  BY <2>1, <2>3
  <2>6. ~crossing => InOrder'
    BY <1>9, <2>3, <2>4, <2>5 DEF StopCommits, OrderInv, InOrder
  <2>7. sessions' = sessions \ {s} /\ Crosses(s)  BY <1>9 DEF StopCommits
  <2> QED BY <2>6, <2>7, OrderEnds
<1>10. ASSUME NEW s \in sessions, SessionFails(s) PROVE OrderInv'
  BY <1>10, OrderTurns DEF SessionFails
<1>11. CASE UNCHANGED dripVars
  BY <1>11 DEF dripVars, OrderInv, InOrder, Current, Fresh
<1> QED BY <1>1, <1>2, <1>3, <1>4, <1>5, <1>6, <1>7, <1>8, <1>9, <1>10, <1>11 DEF DripNext

\* Unless a session commits while another has read, the user has one row at most
\* and the emails of any sequence were reported in order, each once.
THEOREM StepsInOrder == DripSpec => []EachStepOnce
<1>1. DripInit => OrderInv
  <2> SUFFICES ASSUME DripInit PROVE OrderInv
    OBVIOUS
  <2>1. dripRows = <<>> /\ reported = <<>> /\ sessions = {}  BY DEF DripInit
  <2>2. Len(dripRows) <= 1 /\ DOMAIN dripRows = {} /\ DOMAIN reported = {}  BY <2>1
  <2> QED BY <2>1, <2>2 DEF OrderInv, InOrder
<1>2. OrderInv => EachStepOnce  BY DEF OrderInv, InOrder, EachStepOnce
<1> QED BY <1>1, <1>2, DripInvInit, DripInvNext, OrderInvNext, PTL DEF DripSpec

-----------------------------------------------------------------------------
(* Template versions *)

\* The highest number that a creation asks for is there.
HighestInv == Numbers # {} => \E n \in Numbers : \A m \in Numbers : m <= n

\* Unless it was overtaken, an UPDATE that is under way has found, and has when
\* it ends, all it is to take the flag from, and a creation's number is free.
UpdateInv ==
  ~overtaken => \A w \in writers :
    /\ w.kind = "create" => w.number \notin Numbers
    /\ w.kind = "create" /\ w.step # "begun" => w.sees = Active
    /\ w.kind = "create" /\ w.step = "updated" => w.holds = Active
    /\ w.kind = "rollback" /\ w.step # "begun" => w.sees = DOMAIN versions
    /\ w.kind = "rollback" /\ w.step = "updated" => w.holds = DOMAIN versions

VersionsInv == VersionsTypeOK /\ HighestInv /\ UpdateInv /\ OneActiveVersion

\* An UPDATE takes the flag from rows and leaves all else.
LEMMA OffRows ==
  ASSUME VersionsTypeOK, NEW rows
  PROVE  /\ Off(rows) \in Seq(Versions) /\ Len(Off(rows)) = Len(versions)
         /\ DOMAIN Off(rows) = DOMAIN versions
         /\ \A i \in DOMAIN versions :
              /\ Off(rows)[i].number = versions[i].number
              /\ Off(rows)[i].active <=> versions[i].active /\ i \notin rows
<1>1. versions \in Seq(Versions)  BY DEF VersionsTypeOK
<1>2. Len(versions) \in Nat /\ DOMAIN versions = 1..Len(versions)  BY <1>1
<1>3. \A i \in DOMAIN versions : versions[i] \in Versions  BY <1>1
<1>4. \A i \in DOMAIN versions :
        /\ Off(rows)[i] = [versions[i] EXCEPT !.active = @ /\ i \notin rows]
        /\ Off(rows)[i] \in Versions
        /\ Off(rows)[i].number = versions[i].number
        /\ Off(rows)[i].active <=> versions[i].active /\ i \notin rows
  <2> TAKE i \in DOMAIN versions
  <2>1. Off(rows)[i] = [versions[i] EXCEPT !.active = @ /\ i \notin rows]  BY DEF Off
  <2>2. versions[i].active \in BOOLEAN /\ versions[i] \in Versions  BY <1>3 DEF Versions
  <2>3. (versions[i].active /\ i \notin rows) \in BOOLEAN  OBVIOUS
  <2> DEFINE flag == versions[i].active /\ i \notin rows
  <2>4. Off(rows)[i] = [versions[i] EXCEPT !.active = flag] /\ flag \in BOOLEAN
    BY <2>1, <2>3
  <2>5. flag <=> versions[i].active /\ i \notin rows  OBVIOUS
  <2> HIDE DEF flag
  <2>6. /\ Off(rows)[i] \in Versions /\ Off(rows)[i].number = versions[i].number
        /\ Off(rows)[i].active = flag
    BY <2>2, <2>4 DEF Versions
  <2> QED BY <2>1, <2>5, <2>6
<1>5. DOMAIN Off(rows) = DOMAIN versions  BY DEF Off
<1>6. Off(rows) \in [1..Len(versions) -> Versions]  BY <1>2, <1>4 DEF Off
<1>7. Off(rows) \in Seq(Versions) /\ Len(Off(rows)) = Len(versions)  BY <1>2, <1>6
<1> QED BY <1>4, <1>5, <1>7

\* What a creation commits: a row more, active and of its number.
LEMMA CreatedRows ==
  ASSUME VersionsTypeOK, NEW w \in writers, CreateCommits(w)
  PROVE  /\ versions' \in Seq(Versions) /\ Len(versions') = Len(versions) + 1
         /\ Numbers' = Numbers \cup {w.number}
         /\ Active' = (Active \ w.holds) \cup {Len(versions) + 1}
<1> DEFINE new == [number |-> w.number, active |-> TRUE]
           rest == Off(w.holds)
<1>1. versions' = Append(rest, new)  BY DEF CreateCommits
<1>2. /\ rest \in Seq(Versions) /\ Len(rest) = Len(versions) /\ DOMAIN rest = DOMAIN versions
      /\ \A i \in DOMAIN versions :
           /\ rest[i].number = versions[i].number
           /\ rest[i].active <=> versions[i].active /\ i \notin w.holds
  BY OffRows
<1>3. new \in Versions /\ new.number = w.number /\ new.active = TRUE
  BY TemplateVersionsAssumption DEF CreateCommits, VersionsTypeOK, Writers, Versions
<1> HIDE DEF new, rest
<1>4. versions \in Seq(Versions)  BY DEF VersionsTypeOK
<1>5. versions' \in Seq(Versions) /\ Len(versions') = Len(versions) + 1
  BY <1>1, <1>2, <1>3
<1>6. DOMAIN versions = 1..Len(versions) /\ DOMAIN versions' = 1..Len(versions) + 1
      /\ Len(versions) \in Nat
  BY <1>1, <1>2, <1>3, <1>4
<1>7. \A i \in 1..Len(versions) : versions'[i] = rest[i]  BY <1>1, <1>2, <1>3
<1>8. versions'[Len(versions) + 1] = new  BY <1>1, <1>2, <1>3
<1>9. Numbers' = Numbers \cup {w.number}
  BY <1>2, <1>3, <1>6, <1>7, <1>8 DEF Numbers
<1>10. \A i \in 1..Len(versions) : i # Len(versions) + 1  BY <1>6
<1>11. Active' = (Active \ w.holds) \cup {Len(versions) + 1}
  BY <1>2, <1>3, <1>6, <1>7, <1>8, <1>10 DEF Active
<1> QED BY <1>5, <1>9, <1>11

\* What a rollback commits: the rows there are, its target's the flag.
LEMMA RolledBackRows ==
  ASSUME VersionsTypeOK, NEW w \in writers, RollbackCommits(w)
  PROVE  /\ versions' \in Seq(Versions) /\ Len(versions') = Len(versions)
         /\ DOMAIN versions' = DOMAIN versions
         /\ Numbers' = Numbers
         /\ \E target \in DOMAIN versions : Active' = (Active \ w.holds) \cup {target}
<1> DEFINE rest == Off(w.holds)
<1>1. PICK target \in DOMAIN versions : versions' = [Off(w.holds) EXCEPT ![target].active = TRUE]
  BY DEF RollbackCommits
<1>2. /\ rest \in Seq(Versions) /\ Len(rest) = Len(versions) /\ DOMAIN rest = DOMAIN versions
      /\ \A i \in DOMAIN versions :
           /\ rest[i].number = versions[i].number
           /\ rest[i].active <=> versions[i].active /\ i \notin w.holds
  BY OffRows
<1>3. versions' = [rest EXCEPT ![target].active = TRUE]  BY <1>1
<1> HIDE DEF rest
<1>4. rest[target] \in Versions  BY <1>2
<1> DEFINE row == [rest[target] EXCEPT !.active = TRUE]
<1>5. row \in Versions /\ row.number = rest[target].number /\ row.active = TRUE
  BY <1>4 DEF Versions
<1>6. versions' = [rest EXCEPT ![target] = row]  BY <1>3
<1> HIDE DEF row
<1>7. versions' \in Seq(Versions) /\ Len(versions') = Len(versions)
      /\ DOMAIN versions' = DOMAIN versions
  BY <1>2, <1>5, <1>6
<1>8. \A i \in DOMAIN versions : versions'[i] = IF i = target THEN row ELSE rest[i]
  BY <1>2, <1>6
<1>9. Numbers' = Numbers  BY <1>2, <1>5, <1>7, <1>8 DEF Numbers
<1>10. Active' = (Active \ w.holds) \cup {target}  BY <1>2, <1>5, <1>7, <1>8 DEF Active
<1> QED BY <1>7, <1>9, <1>10

\* The numbers given can be counted.
LEMMA NumbersAreFinite ==
  ASSUME VersionsTypeOK
  PROVE  IsFiniteSet(Numbers) /\ Numbers \subseteq 1..MaxVersions
<1>1. Numbers \subseteq 1..MaxVersions
  <2>1. versions \in Seq(Versions)  BY DEF VersionsTypeOK
  <2>2. \A i \in DOMAIN versions : versions[i] \in Versions  BY <2>1
  <2>3. \A i \in DOMAIN versions : versions[i].number \in 1..MaxVersions
    BY <2>2 DEF Versions
  <2> QED BY <2>3 DEF Numbers
<1>2. IsFiniteSet(1..MaxVersions)
  <2>1. 1 \in Int /\ MaxVersions \in Int  BY TemplateVersionsAssumption
  <2> QED BY <2>1, FS_Interval
<1> QED BY <1>1, <1>2, FS_Subset

\* A creation asks for a number that no row has and that leaves no gap.
LEMMA NextIsFree ==
  ASSUME VersionsTypeOK, HighestInv
  PROVE  NextNumber \in 1..Len(versions) + 1 /\ NextNumber \notin Numbers
<1>t. /\ Len(versions) \in Nat /\ \A n \in Numbers : n \in 1..Len(versions)
  <2>1. versions \in Seq(Versions) /\ \A n \in Numbers : n <= Len(versions)
    BY DEF VersionsTypeOK
  <2>2. \A n \in Numbers : n \in Nat /\ n >= 1
    BY NumbersAreFinite, TemplateVersionsAssumption
  <2> QED BY <2>1, <2>2
<1>1. CASE Numbers = {}  BY <1>1, <1>t DEF NextNumber
<1>2. CASE Numbers # {}
  <2> DEFINE top == CHOOSE n \in Numbers : \A m \in Numbers : m <= n
  <2>1. top \in Numbers /\ \A m \in Numbers : m <= top  BY <1>2 DEF HighestInv
  <2>2. NextNumber = 1 + top  BY <1>2 DEF NextNumber
  <2> HIDE DEF top
  <2> QED BY <2>1, <2>2, <1>t
<1> QED BY <1>1, <1>2

\* Every step keeps the types, and the highest number among the rows.
LEMMA VersionsTypeStep ==
  VersionsTypeOK /\ HighestInv /\ [VersionsNext]_versionsVars => VersionsTypeOK' /\ HighestInv'
<1> SUFFICES ASSUME VersionsTypeOK, HighestInv, [VersionsNext]_versionsVars
             PROVE  VersionsTypeOK' /\ HighestInv'
  OBVIOUS
<1>t. /\ versions \in Seq(Versions) /\ Len(versions) \in Nat /\ Len(versions) <= MaxVersions
      /\ writers \subseteq Writers /\ overtaken \in BOOLEAN
      /\ \A n \in Numbers : n <= Len(versions)
      /\ \A w \in writers : w.kind = "create" => w.number <= Len(versions) + 1
      /\ DOMAIN versions = 1..Len(versions)
  BY DEF VersionsTypeOK
<1>m. MaxVersions \in Nat  BY TemplateVersionsAssumption
<1>d. DOMAIN versions \subseteq Rowids /\ Active \subseteq Rowids
  BY <1>t, <1>m DEF Rowids, Active
<1>n. /\ \A n \in Numbers : n \in Nat
  BY NumbersAreFinite, <1>m
<1>w. ASSUME UNCHANGED <<versions, overtaken>>,
             \A w \in writers' : /\ w \in Writers
                                 /\ w.kind = "create" => w.number <= Len(versions) + 1
      PROVE  VersionsTypeOK' /\ HighestInv'
  <2>1. Numbers' = Numbers  BY <1>w DEF Numbers
  <2>2. HighestInv'  BY <2>1 DEF HighestInv
  <2>3. writers' \subseteq Writers  BY <1>w
  <2>4. UNCHANGED versions /\ UNCHANGED overtaken  BY <1>w
  <2>5. VersionsTypeOK'  BY <1>w, <1>t, <2>1, <2>3, <2>4 DEF VersionsTypeOK
  <2> QED BY <2>2, <2>5
<1>b. ASSUME NEW kind \in {"create", "rollback"}, NEW number \in 1..MaxVersions + 1,
             kind = "create" => number <= Len(versions) + 1, Begins(kind, number)
      PROVE  VersionsTypeOK' /\ HighestInv'
  <2>1. PICK slot \in WriterSlots :
          /\ writers' = writers \cup {[slot |-> slot, kind |-> kind, step |-> "begun",
                                       number |-> number, sees |-> {}, holds |-> {}]}
          /\ UNCHANGED <<versions, overtaken>>
    BY <1>b DEF Begins
  <2> DEFINE new == [slot |-> slot, kind |-> kind, step |-> "begun",
                     number |-> number, sees |-> {}, holds |-> {}]
  <2>2. new \in Writers /\ new.kind = kind /\ new.number = number  BY DEF Writers
  <2> HIDE DEF new
  <2>3. writers' = writers \cup {new}  BY <2>1 DEF new
  <2> QED BY <2>1, <2>2, <2>3, <1>b, <1>t, <1>w
<1>c. ASSUME NEW w \in writers, NEW next, Becomes(w, next), UNCHANGED <<versions, overtaken>>,
             next \in Writers, next.kind = w.kind, next.number = w.number
      PROVE  VersionsTypeOK' /\ HighestInv'
  BY <1>c, <1>t, <1>w DEF Becomes
<1>g. ASSUME NEW w \in writers, writers' = writers \ {w}, Overtakes(w),
             versions' \in Seq(Versions), Len(versions') <= MaxVersions,
             Len(versions) <= Len(versions'),
             \A n \in Numbers' : n <= Len(versions'), HighestInv'
      PROVE  VersionsTypeOK' /\ HighestInv'
  <2>1. \A v \in writers' : v.kind = "create" => v.number <= Len(versions') + 1
    <3>1. \A v \in writers : v.number \in Int  BY <1>t, <1>m DEF Writers
    <3>2. Len(versions') \in Nat  BY <1>g
    <3> QED BY <3>1, <3>2, <1>g, <1>t
  <2>2. overtaken' \in BOOLEAN  BY <1>g, <1>t DEF Overtakes
  <2> QED BY <1>g, <2>1, <2>2, <1>t DEF VersionsTypeOK
<1>1. CASE CreateReads
  <2>1. NextNumber \in 1..Len(versions) + 1  BY NextIsFree
  <2>2. NextNumber \in 1..MaxVersions + 1 /\ NextNumber <= Len(versions) + 1
    BY <2>1, <1>t, <1>m
  <2> QED BY <1>1, <2>2, <1>b DEF CreateReads
<1>2. CASE RollbackBegins
  <2>1. PICK number \in 1..MaxVersions : Begins("rollback", number)
    BY <1>2 DEF RollbackBegins
  <2>2. number \in 1..MaxVersions + 1  BY <1>m
  <2> QED BY <2>1, <2>2, <1>b
<1>3. ASSUME NEW w \in writers, UpdateStarts(w) PROVE VersionsTypeOK' /\ HighestInv'
  <2> DEFINE found == IF w.kind = "create" THEN Active ELSE DOMAIN versions
             next == [w EXCEPT !.step = "updating", !.sees = found]
  <2>1. found \in SUBSET Rowids  BY <1>d
  <2> HIDE DEF found
  <2>2. next \in Writers /\ next.kind = w.kind /\ next.number = w.number
    BY <2>1, <1>t DEF Writers
  <2>3. Becomes(w, next) /\ UNCHANGED <<versions, overtaken>>
    BY <1>3 DEF UpdateStarts, found
  <2> QED BY <2>2, <2>3, <1>c
<1>4. ASSUME NEW w \in writers, UpdateEnds(w) PROVE VersionsTypeOK' /\ HighestInv'
  <2> DEFINE held == IF w.kind = "create" THEN w.sees \cap Active ELSE w.sees
             next == [w EXCEPT !.step = "updated", !.holds = held]
  <2>1. held \in SUBSET Rowids  BY <1>t DEF Writers
  <2> HIDE DEF held
  <2>2. next \in Writers /\ next.kind = w.kind /\ next.number = w.number
    BY <2>1, <1>t DEF Writers
  <2>3. Becomes(w, next) /\ UNCHANGED <<versions, overtaken>>
    BY <1>4 DEF UpdateEnds, held
  <2> QED BY <2>2, <2>3, <1>c
<1>5. ASSUME NEW w \in writers, CreateCommits(w) PROVE VersionsTypeOK' /\ HighestInv'
  <2>1. /\ versions' \in Seq(Versions) /\ Len(versions') = Len(versions) + 1
        /\ Numbers' = Numbers \cup {w.number}
    BY <1>5, CreatedRows
  <2>2. w.number \in Nat /\ w.number <= Len(versions) + 1
    BY <1>5, <1>t, <1>m DEF CreateCommits, Writers
  <2>3. \A n \in Numbers' : n <= Len(versions')  BY <2>1, <2>2, <1>t, <1>n
  <2>4. HighestInv'
    <3>1. CASE \A m \in Numbers : m <= w.number
      <4>1. \A m \in Numbers' : m <= w.number  BY <2>1, <2>2, <3>1
      <4> QED BY <2>1, <4>1 DEF HighestInv
    <3>2. CASE \E m \in Numbers : ~(m <= w.number)
      <4>1. PICK m \in Numbers : ~(m <= w.number)  BY <3>2
      <4>2. PICK n \in Numbers : \A k \in Numbers : k <= n  BY <4>1 DEF HighestInv
      <4>3. w.number <= n  BY <4>1, <4>2, <2>2, <1>n
      <4>4. \A k \in Numbers' : k <= n  BY <2>1, <4>2, <4>3
      <4> QED BY <2>1, <4>2, <4>4 DEF HighestInv
    <3> QED BY <3>1, <3>2
  <2>5. Len(versions') <= MaxVersions  BY <1>5, <2>1, <1>t, <1>m DEF CreateCommits
  <2>6. writers' = writers \ {w} /\ Overtakes(w)  BY <1>5 DEF CreateCommits
  <2>7. Len(versions) <= Len(versions')  BY <2>1, <1>t
  <2> QED BY <2>1, <2>3, <2>4, <2>5, <2>6, <2>7, <1>g
<1>6. ASSUME NEW w \in writers, RollbackCommits(w) PROVE VersionsTypeOK' /\ HighestInv'
  <2>1. versions' \in Seq(Versions) /\ Len(versions') = Len(versions) /\ Numbers' = Numbers
    BY <1>6, RolledBackRows
  <2>2. HighestInv'  BY <2>1 DEF HighestInv
  <2>3. writers' = writers \ {w} /\ Overtakes(w)  BY <1>6 DEF RollbackCommits
  <2> QED BY <2>1, <2>2, <2>3, <1>t, <1>g
<1>7. ASSUME NEW w \in writers, WriterFails(w) PROVE VersionsTypeOK' /\ HighestInv'
  BY <1>7, <1>t, <1>w DEF WriterFails
<1>8. CASE UNCHANGED versionsVars  BY <1>8, <1>t, <1>w DEF versionsVars
<1> QED BY <1>1, <1>2, <1>3, <1>4, <1>5, <1>6, <1>7, <1>8 DEF VersionsNext

\* Every step keeps an UPDATE that is not overtaken whole.
LEMMA UpdateStep ==
  VersionsInv /\ [VersionsNext]_versionsVars => UpdateInv'
<1> SUFFICES ASSUME VersionsInv, [VersionsNext]_versionsVars, ~overtaken',
                    NEW w \in writers'
             PROVE  /\ w.kind = "create" => w.number \notin Numbers'
                    /\ w.kind = "create" /\ w.step # "begun" => w.sees = Active'
                    /\ w.kind = "create" /\ w.step = "updated" => w.holds = Active'
                    /\ w.kind = "rollback" /\ w.step # "begun" => w.sees = DOMAIN versions'
                    /\ w.kind = "rollback" /\ w.step = "updated" => w.holds = DOMAIN versions'
  BY DEF UpdateInv
<1> DEFINE Updates(v) ==
      /\ v.kind = "create" => v.number \notin Numbers
      /\ v.kind = "create" /\ v.step # "begun" => v.sees = Active
      /\ v.kind = "create" /\ v.step = "updated" => v.holds = Active
      /\ v.kind = "rollback" /\ v.step # "begun" => v.sees = DOMAIN versions
      /\ v.kind = "rollback" /\ v.step = "updated" => v.holds = DOMAIN versions
<1>o. ~overtaken
  BY DEF VersionsNext, CreateReads, RollbackBegins, Begins, UpdateStarts, UpdateEnds,
         CreateCommits, RollbackCommits, Overtakes, WriterFails, versionsVars
<1>t. VersionsTypeOK /\ HighestInv /\ writers \subseteq Writers
  BY DEF VersionsInv, VersionsTypeOK
<1>i. \A v \in writers : Updates(v)  BY <1>o DEF VersionsInv, UpdateInv
<1> HIDE DEF Updates
<1>u. ASSUME UNCHANGED versions, Updates(w)
      PROVE  /\ w.kind = "create" => w.number \notin Numbers'
             /\ w.kind = "create" /\ w.step # "begun" => w.sees = Active'
             /\ w.kind = "create" /\ w.step = "updated" => w.holds = Active'
             /\ w.kind = "rollback" /\ w.step # "begun" => w.sees = DOMAIN versions'
             /\ w.kind = "rollback" /\ w.step = "updated" => w.holds = DOMAIN versions'
  BY <1>u DEF Updates, Numbers, Active
<1>b. ASSUME NEW kind \in {"create", "rollback"}, NEW number, Begins(kind, number),
             kind = "create" => number \notin Numbers
      PROVE  UNCHANGED versions /\ Updates(w)
  <2>1. PICK slot \in WriterSlots :
          /\ writers' = writers \cup {[slot |-> slot, kind |-> kind, step |-> "begun",
                                       number |-> number, sees |-> {}, holds |-> {}]}
          /\ UNCHANGED <<versions, overtaken>>
    BY <1>b DEF Begins
  <2> DEFINE new == [slot |-> slot, kind |-> kind, step |-> "begun",
                     number |-> number, sees |-> {}, holds |-> {}]
  <2>2. new.kind = kind /\ new.number = number /\ new.step = "begun"  OBVIOUS
  <2> HIDE DEF new
  <2>3. w \in writers \/ w = new  BY <2>1 DEF new
  <2>4. Updates(new)  BY <2>2, <1>b DEF Updates
  <2> QED BY <2>1, <2>3, <2>4, <1>i
<1>c. ASSUME NEW v \in writers, CreateCommits(v) \/ RollbackCommits(v),
             w.kind = "create" => v.kind = "rollback" /\ w.step = "begun",
             w.kind = "rollback" => v.kind = "rollback" \/ w.step = "begun", w \in writers
      PROVE  /\ w.kind = "create" => w.number \notin Numbers'
             /\ w.kind = "create" /\ w.step # "begun" => w.sees = Active'
             /\ w.kind = "create" /\ w.step = "updated" => w.holds = Active'
             /\ w.kind = "rollback" /\ w.step # "begun" => w.sees = DOMAIN versions'
             /\ w.kind = "rollback" /\ w.step = "updated" => w.holds = DOMAIN versions'
  <2>1. CASE RollbackCommits(v)
    <3>1. Numbers' = Numbers /\ DOMAIN versions' = DOMAIN versions
      BY <1>t, <2>1, RolledBackRows
    <3> QED BY <3>1, <1>c, <1>i DEF Updates
  <2>2. CASE CreateCommits(v)
    <3>1. v.kind = "create"  BY <2>2 DEF CreateCommits
    <3> QED BY <3>1, <1>c, <1>t DEF Writers
  <2> QED BY <1>c, <2>1, <2>2
<1>1. CASE CreateReads
  <2>1. NextNumber \notin Numbers  BY <1>t, NextIsFree
  <2> QED BY <1>1, <2>1, <1>b, <1>u DEF CreateReads
<1>2. CASE RollbackBegins  BY <1>2, <1>b, <1>u DEF RollbackBegins
<1>3. ASSUME NEW v \in writers, UpdateStarts(v) PROVE UNCHANGED versions /\ Updates(w)
  <2> DEFINE found == IF v.kind = "create" THEN Active ELSE DOMAIN versions
             next == [v EXCEPT !.step = "updating", !.sees = found]
  <2>1. /\ next.kind = v.kind /\ next.number = v.number
        /\ next.step = "updating" /\ next.sees = found
    BY <1>t DEF Writers
  <2>2. Updates(next)  BY <2>1, <1>i DEF Updates
  <2> HIDE DEF next
  <2>3. w \in writers \/ w = next  BY <1>3 DEF UpdateStarts, Becomes, next
  <2> QED BY <1>3, <2>2, <2>3, <1>i DEF UpdateStarts
<1>4. ASSUME NEW v \in writers, UpdateEnds(v) PROVE UNCHANGED versions /\ Updates(w)
  <2> DEFINE held == IF v.kind = "create" THEN v.sees \cap Active ELSE v.sees
             next == [v EXCEPT !.step = "updated", !.holds = held]
  <2>1. /\ next.kind = v.kind /\ next.number = v.number /\ next.sees = v.sees
        /\ next.step = "updated" /\ next.holds = held
    BY <1>t DEF Writers
  <2>2. Updates(v) /\ v.step = "updating"  BY <1>4, <1>i DEF UpdateEnds
  <2>3. v.kind = "create" => held = Active  BY <2>2 DEF Updates
  <2>4. v.kind = "rollback" => held = DOMAIN versions  BY <2>2 DEF Updates
  <2> HIDE DEF held
  <2>5. Updates(next)  BY <2>1, <2>2, <2>3, <2>4 DEF Updates
  <2>6. w \in writers \/ w = next  BY <1>4 DEF UpdateEnds, Becomes, held
  <2> HIDE DEF next
  <2> QED BY <1>4, <2>5, <2>6, <1>i DEF UpdateEnds
<1>5. ASSUME NEW v \in writers, CreateCommits(v) \/ RollbackCommits(v)
      PROVE  /\ w.kind = "create" => v.kind = "rollback" /\ w.step = "begun"
             /\ w.kind = "rollback" => v.kind = "rollback" \/ w.step = "begun"
             /\ w \in writers
  <2>1. w \in writers \ {v} /\ v.kind \in {"create", "rollback"}
    BY <1>5, <1>t DEF CreateCommits, RollbackCommits
  <2>2. ~(\E u \in writers \ {v} : \/ v.kind = "create" /\ u.kind = "create"
                                   \/ "create" \in {v.kind, u.kind} /\ u.step # "begun")
    BY <1>5 DEF CreateCommits, RollbackCommits, Overtakes
  <2> QED BY <2>1, <2>2
<1>6. ASSUME NEW v \in writers, WriterFails(v) PROVE UNCHANGED versions /\ Updates(w)
  BY <1>6, <1>i DEF WriterFails
<1>7. CASE UNCHANGED versionsVars
  <2>1. UNCHANGED versions /\ Updates(w)  BY <1>7, <1>i DEF versionsVars
  <2> QED BY <2>1, <1>u
<1>8. CASE \E v \in writers : UpdateStarts(v) \/ UpdateEnds(v) \/ WriterFails(v)
  <2>1. UNCHANGED versions /\ Updates(w)  BY <1>8, <1>3, <1>4, <1>6
  <2> QED BY <2>1, <1>u
<1>9. CASE \E v \in writers : CreateCommits(v) \/ RollbackCommits(v)
  <2>1. PICK v \in writers : CreateCommits(v) \/ RollbackCommits(v)  BY <1>9
  <2> QED BY <2>1, <1>5, <1>c
<1> QED BY <1>1, <1>2, <1>7, <1>8, <1>9 DEF VersionsNext

\* One version is active after any commit, and a creation that was not overtaken
\* takes the flag from every other.
LEMMA ActiveStep == VersionsInv /\ [VersionsNext]_versionsVars => OneActiveVersion'
<1> SUFFICES ASSUME VersionsInv, [VersionsNext]_versionsVars PROVE OneActiveVersion'
  OBVIOUS
<1>t. VersionsTypeOK /\ versions \in Seq(Versions) /\ writers \subseteq Writers
  BY DEF VersionsInv, VersionsTypeOK
<1>1. CASE UNCHANGED <<versions, overtaken>>
  BY <1>1 DEF VersionsInv, OneActiveVersion, Active, Numbers
<1>2. ASSUME NEW w \in writers, CreateCommits(w) PROVE OneActiveVersion'
  <2>1. /\ Len(versions') = Len(versions) + 1 /\ Numbers' = Numbers \cup {w.number}
        /\ Active' = (Active \ w.holds) \cup {Len(versions) + 1}
    BY <1>2, <1>t, CreatedRows
  <2>2. Active' # {}  BY <2>1
  <2>3. ASSUME ~overtaken'
        PROVE  Cardinality(Active') <= 1 /\ Cardinality(Numbers') = Len(versions')
    <3>1. ~overtaken  BY <1>2, <2>3 DEF CreateCommits, Overtakes
    <3>2. w.holds = Active /\ w.number \notin Numbers
      BY <1>2, <3>1 DEF CreateCommits, VersionsInv, UpdateInv
    <3>3. Active' = {Len(versions) + 1}  BY <2>1, <3>2
    <3>4. Cardinality(Active') = 1  BY <3>3, FS_Singleton
    <3>5. IsFiniteSet(Numbers)  BY <1>t, NumbersAreFinite
    <3>6. Cardinality(Numbers \cup {w.number}) = Cardinality(Numbers) + 1
      BY <3>2, <3>5, FS_AddElement
    <3>7. Cardinality(Numbers) = Len(versions)  BY <3>1 DEF VersionsInv, OneActiveVersion
    <3> QED BY <2>1, <3>4, <3>6, <3>7
  <2> QED BY <2>2, <2>3 DEF OneActiveVersion
<1>3. ASSUME NEW w \in writers, RollbackCommits(w) PROVE OneActiveVersion'
  <2>1. /\ Len(versions') = Len(versions) /\ Numbers' = Numbers
        /\ \E target \in DOMAIN versions : Active' = (Active \ w.holds) \cup {target}
    BY <1>3, <1>t, RolledBackRows
  <2>2. Active' # {}  BY <2>1
  <2>3. ASSUME ~overtaken'
        PROVE  Cardinality(Active') <= 1 /\ Cardinality(Numbers') = Len(versions')
    <3>1. ~overtaken  BY <1>3, <2>3 DEF RollbackCommits, Overtakes
    <3>2. w.holds = DOMAIN versions
      BY <1>3, <3>1 DEF RollbackCommits, VersionsInv, UpdateInv
    <3>3. PICK target \in DOMAIN versions : Active' = {target}  BY <2>1, <3>2 DEF Active
    <3>4. Cardinality(Active') = 1  BY <3>3, FS_Singleton
    <3> QED BY <2>1, <3>1, <3>4 DEF VersionsInv, OneActiveVersion
  <2> QED BY <2>2, <2>3 DEF OneActiveVersion
<1> QED BY <1>1, <1>2, <1>3 DEF VersionsNext, CreateReads, RollbackBegins, Begins,
           UpdateStarts, UpdateEnds, WriterFails, versionsVars

LEMMA VersionsInvInit == VersionsInit => VersionsInv
<1> SUFFICES ASSUME VersionsInit PROVE VersionsInv
  OBVIOUS
<1>1. /\ versions = <<>> /\ versions \in Seq(Versions) /\ Len(versions) = 0
      /\ DOMAIN versions = {} /\ writers = {} /\ overtaken = FALSE
  BY DEF VersionsInit
<1>2. Numbers = {} /\ Active = {}  BY <1>1 DEF Numbers, Active
<1>3. VersionsTypeOK
  <2>1. Len(versions) <= MaxVersions  BY <1>1, TemplateVersionsAssumption
  <2>2. \A n \in Numbers : n <= Len(versions)  BY <1>2
  <2> QED BY <1>1, <2>1, <2>2 DEF VersionsTypeOK
<1>4. HighestInv /\ UpdateInv  BY <1>1, <1>2 DEF HighestInv, UpdateInv
<1>5. Cardinality(Active) = 0 /\ Cardinality(Numbers) = 0  BY <1>2, FS_EmptySet
<1>6. OneActiveVersion  BY <1>1, <1>5 DEF OneActiveVersion
<1> QED BY <1>3, <1>4, <1>6 DEF VersionsInv

LEMMA VersionsInvAlways == VersionsSpec => []VersionsInv
<1>1. VersionsInv /\ [VersionsNext]_versionsVars => VersionsInv'
  BY VersionsTypeStep, UpdateStep, ActiveStep DEF VersionsInv
<1> QED BY <1>1, VersionsInvInit, PTL DEF VersionsSpec

\* A template's versions and the sessions that write them keep their types, and
\* no number is ahead of the rows.
THEOREM VersionsTypeCorrect == VersionsSpec => []VersionsTypeOK
<1>1. VersionsInv => VersionsTypeOK  BY DEF VersionsInv
<1> QED BY <1>1, VersionsInvAlways, PTL

\* However many sessions create and roll back, wait and fail, a template that
\* has versions has an active one; unless a creation is overtaken, it has one,
\* and as many numbers as versions.
THEOREM OneActive == VersionsSpec => []OneActiveVersion
<1>1. VersionsInv => OneActiveVersion  BY DEF VersionsInv
<1> QED BY <1>1, VersionsInvAlways, PTL


-----------------------------------------------------------------------------
(* The pages and the services together.  Whichever is open runs as it does *)
(* alone, and the others stand still.                                      *)

LEMMA OpenSteps ==
  [ConsoleNext]_consoleVars =>
         /\ [DiscoverNext]_discoverVars
         /\ [CrisisNext]_crisisVars
         /\ [PlaybooksNext]_playbooksVars
         /\ [DeliverNext]_deliverVars
         /\ [ComposerNext]_composerVars
         /\ [VersionsNext]_versionsVars
         /\ [RetentionNext]_retentionVars
         /\ [DripNext]_dripVars
BY DEF ConsoleNext, consoleVars, shownVars, rowVars

\* Together they are each of them: what is proved of a page or a service alone
\* holds of it as TLC runs it, beside the others.
THEOREM DataRunAlone == ConsoleSpec =>
          /\ DiscoverSpec
          /\ CrisisSpec
          /\ PlaybooksSpec
          /\ DeliverSpec
          /\ ComposerSpec
          /\ VersionsSpec
          /\ RetentionSpec
          /\ DripSpec
<1>1. ConsoleInit => /\ DiscoverInit
                     /\ CrisisInit
                     /\ PlaybooksInit
                     /\ DeliverInit
                     /\ ComposerInit
                     /\ VersionsInit
                     /\ RetentionInit
                     /\ DripInit
  BY DEF ConsoleInit
<1> QED BY <1>1, OpenSteps, PTL
        DEF ConsoleSpec, DiscoverSpec, CrisisSpec, PlaybooksSpec, DeliverSpec,
            ComposerSpec, VersionsSpec, RetentionSpec, DripSpec

\* Every page and every service keeps its types.
THEOREM DataTypesCorrect == ConsoleSpec => []DataTypeOK
<1>1. ConsoleSpec => /\ []DiscoverTypeOK
                     /\ []CrisisTypeOK
                     /\ []PlaybooksTypeOK
                     /\ []DeliverTypeOK
                     /\ []ComposerTypeOK
                     /\ []VersionsTypeOK
                     /\ []RetentionTypeOK
                     /\ []DripTypeOK
  BY DataRunAlone, DiscoverTypeCorrect, CrisisTypeCorrect, PlaybooksTypeCorrect,
     DeliverTypeCorrect, ComposerTypeCorrect, VersionsTypeCorrect, RetentionTypeCorrect,
     DripTypeCorrect
<1>2. /\ DiscoverTypeOK
      /\ CrisisTypeOK
      /\ PlaybooksTypeOK
      /\ DeliverTypeOK
      /\ ComposerTypeOK
      /\ VersionsTypeOK
      /\ RetentionTypeOK
      /\ DripTypeOK
      => DataTypeOK
  BY DEF DataTypeOK
<1> QED BY <1>1, <1>2, PTL
=============================================================================
