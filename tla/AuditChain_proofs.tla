------------------------- MODULE AuditChain_proofs --------------------------
(***************************************************************************)
(* What the audit chain guarantees for any number of entries and trails,   *)
(* any clocks, any edits and removals.                                     *)
(*                                                                         *)
(* The inductive invariant says which entries are in the table (Placed),   *)
(* that links go back in time within a trail (Ascending), and, for a trail *)
(* written one entry at a time, that each hashed row links to the latest   *)
(* of the rows before it (Sequential).  Sequential gives                   *)
(* NamesExactlyTheEdited; RemovalInsideIsNoticed follows from Placed and   *)
(* Ascending by taking suitable sets of entries for the S of Ancestor.     *)
(***************************************************************************)
EXTENDS AuditChain, FiniteSetTheorems, WellFoundedInduction, TLAPS

Placed ==
  /\ rows \cup removed = {e \in Entries : pc[e] = "written"}
  /\ rows \cap removed = {}
  /\ altered \cap Legacy = {}
  /\ Legacy \subseteq rows \cup removed

Ascending ==
  \A e \in Entries : prev[e] # Genesis =>
    /\ time[prev[e]] < time[e]
    /\ Trail[prev[e]] = Trail[e]
    /\ pc[prev[e]] = "written"

\* e's link is the latest of the rows before it that have a hash.
LinkedRight(e) ==
  \A z \in RowsOf(Trail[e]) \ {e} :
    /\ time[z] # time[e]
    /\ z \in Legacy => time[z] < time[e]
    /\ time[z] < time[e] =>
         \/ prev[e] = Genesis /\ z \in Legacy
         \/ prev[e] \in rows /\ time[z] <= time[prev[e]]

IsNewest(e) == \A z \in RowsOf(Trail[e]) : time[z] < time[e]

Sequential ==
  \A e \in Entries \ Legacy : Clean(Trail[e]) =>
    /\ e \in rows => LinkedRight(e)
    /\ pc[e] = "linked" /\ e \notin stale => LinkedRight(e) /\ IsNewest(e)

IInv == TypeOK /\ Placed /\ Ascending /\ Sequential

-----------------------------------------------------------------------------
LEMMA TypeInit == Init => TypeOK
  BY AuditAssumption DEF Init, TypeOK, Pending, Ended

LEMMA TypeStep == TypeOK /\ [Next]_vars => TypeOK'
<1> SUFFICES ASSUME TypeOK, [Next]_vars PROVE TypeOK'
  OBVIOUS
<1> USE AuditAssumption DEF TypeOK, Goto, chainVars, Pending, Ended
<1>1. ASSUME NEW e \in Entries, Responds(e) \/ Raises(e)
      PROVE  TypeOK'
  BY <1>1 DEF Responds, Raises
<1>2. ASSUME NEW e \in Entries, Links(e) PROVE TypeOK'
  <2>1. PICK now \in 0..MaxTime :
          \/ StartsChain(e, now)
          \/ \E t \in Tips(Trail[e]) : LinksTo(e, t, now)
    BY <1>2 DEF Links
  <2>2. CASE StartsChain(e, now)
    BY <1>2, <2>2 DEF Links, StartsChain
  <2>3. ASSUME NEW t \in Tips(Trail[e]), LinksTo(e, t, now) PROVE TypeOK'
    <3>1. t \in Entries
      BY DEF Tips, RowsOf
    <3>2. NextTimestamp(t, now) \in Nat
      BY <3>1 DEF NextTimestamp
    <3> QED BY <1>2, <2>3, <3>1, <3>2 DEF Links, LinksTo
  <2> QED BY <2>1, <2>2, <2>3
<1>3. ASSUME NEW e \in Entries, Commits(e) PROVE TypeOK'
  BY <1>3 DEF Commits
<1>4. ASSUME NEW e \in Entries, Reports(e) \/ Dies(e) PROVE TypeOK'
  BY <1>4 DEF Reports, Dies
<1>5. ASSUME NEW e \in Entries, Alters(e) \/ Removes(e) PROVE TypeOK'
  BY <1>5 DEF Alters, Removes
<1>6. ASSUME UNCHANGED vars PROVE TypeOK'
  BY <1>6 DEF vars
<1> QED BY <1>1, <1>2, <1>3, <1>4, <1>5, <1>6 DEF Next, AuditStep

(* The steps that only move an entry's program counter, and how. *)
LEMMA RequestSteps ==
  ASSUME NEW e \in Entries, TypeOK,
         Responds(e) \/ Raises(e) \/ Reports(e) \/ Dies(e)
  PROVE  /\ UNCHANGED chainVars
         /\ pc[e] # "written" /\ pc'[e] \notin {"linked", "written"}
         /\ \A f \in Entries \ {e} : pc'[f] = pc[f]
  BY DEF Responds, Raises, Reports, Dies, Goto, TypeOK

(* What Links makes of its entry. *)
LEMMA LinksFacts ==
  ASSUME NEW e \in Entries, IInv, Links(e)
  PROVE  /\ pc[e] = "answered" /\ e \notin rows /\ e \notin Legacy
         /\ pc' = [pc EXCEPT ![e] = "linked"]
         /\ UNCHANGED <<rows, altered, removed, stale>>
         /\ \A f \in Entries \ {e} : prev'[f] = prev[f] /\ time'[f] = time[f]
         /\ time'[e] \in Nat
         /\ \/ RowsOf(Trail[e]) = {} /\ prev'[e] = Genesis
            \/ \E t \in Tips(Trail[e]) :
                 /\ prev'[e] = IF t \in Legacy THEN Genesis ELSE t
                 /\ time[t] < time'[e]
<1> USE AuditAssumption DEF IInv, TypeOK
<1>1. /\ pc[e] = "answered"
      /\ pc' = [pc EXCEPT ![e] = "linked"]
      /\ UNCHANGED <<rows, altered, removed, stale>>
  BY DEF Links, Goto
<1>2. e \notin rows /\ e \notin Legacy
  BY <1>1 DEF Placed
<1>3. PICK now \in 0..MaxTime :
        \/ RowsOf(Trail[e]) = {} /\ StartsChain(e, now)
        \/ \E t \in Tips(Trail[e]) : LinksTo(e, t, now)
  BY DEF Links
<1>4. CASE RowsOf(Trail[e]) = {} /\ StartsChain(e, now)
  BY <1>1, <1>2, <1>4 DEF StartsChain
<1>5. ASSUME NEW t \in Tips(Trail[e]), LinksTo(e, t, now)
      PROVE  /\ \A f \in Entries \ {e} : prev'[f] = prev[f] /\ time'[f] = time[f]
             /\ time'[e] \in Nat
             /\ prev'[e] = IF t \in Legacy THEN Genesis ELSE t
             /\ time[t] < time'[e]
  <2>1. time[t] \in Nat
    BY DEF Tips, RowsOf
  <2>2. NextTimestamp(t, now) \in Nat /\ time[t] < NextTimestamp(t, now)
    BY <2>1 DEF NextTimestamp
  <2> QED BY <1>5, <2>2 DEF LinksTo
<1> QED BY <1>1, <1>2, <1>3, <1>4, <1>5

-----------------------------------------------------------------------------
(* Only Commits writes, and only where the entry is linked.                *)
LEMMA PlacedStands ==
  ASSUME IInv, rows' = rows, removed' = removed, altered' = altered,
         \A f \in Entries : pc'[f] = "written" <=> pc[f] = "written"
  PROVE  Placed'
<1>1. {f \in Entries : pc'[f] = "written"} = {f \in Entries : pc[f] = "written"}
  OBVIOUS
<1> QED BY <1>1 DEF IInv, Placed

LEMMA PlacedStep ==
  ASSUME IInv, TypeOK', [Next]_vars
  PROVE  Placed'
<1> USE AuditAssumption DEF IInv, TypeOK
<1>1. ASSUME NEW e \in Entries,
             Responds(e) \/ Raises(e) \/ Reports(e) \/ Dies(e)
      PROVE  Placed'
  <2>1. UNCHANGED chainVars /\ \A f \in Entries : pc'[f] = "written" <=> pc[f] = "written"
    BY <1>1, RequestSteps
  <2> QED BY <2>1, PlacedStands DEF chainVars
<1>2. ASSUME NEW e \in Entries, Links(e) PROVE Placed'
  <2>1. /\ UNCHANGED <<rows, altered, removed>>
        /\ \A f \in Entries : pc'[f] = "written" <=> pc[f] = "written"
    BY <1>2, LinksFacts
  <2> QED BY <2>1, PlacedStands
<1>3. ASSUME NEW e \in Entries, Commits(e) PROVE Placed'
  <2>1. {f \in Entries : pc'[f] = "written"} = {f \in Entries : pc[f] = "written"} \cup {e}
    BY <1>3 DEF Commits, Goto
  <2> QED BY <1>3, <2>1 DEF Commits, Goto, Placed
<1>4. ASSUME NEW e \in Entries, Alters(e) \/ Removes(e) PROVE Placed'
  BY <1>4 DEF Alters, Removes, Placed
<1>5. ASSUME UNCHANGED vars PROVE Placed'
  BY <1>5 DEF vars, Placed
<1> QED BY <1>1, <1>2, <1>3, <1>4, <1>5 DEF Next, AuditStep

LEMMA AscendingStep ==
  ASSUME IInv, TypeOK', [Next]_vars
  PROVE  Ascending'
<1> USE AuditAssumption DEF IInv, TypeOK, Ascending
<1>1. ASSUME NEW e \in Entries,
             Responds(e) \/ Raises(e) \/ Reports(e) \/ Dies(e)
      PROVE  Ascending'
  <2>1. /\ prev' = prev /\ time' = time
        /\ \A f \in Entries : pc[f] = "written" => pc'[f] = "written"
    BY <1>1, RequestSteps DEF chainVars
  <2> QED BY <2>1
<1>2. ASSUME NEW e \in Entries, Links(e) PROVE Ascending'
  <2> SUFFICES ASSUME NEW f \in Entries, prev'[f] # Genesis
               PROVE  /\ time'[prev'[f]] < time'[f]
                      /\ Trail[prev'[f]] = Trail[f]
                      /\ pc'[prev'[f]] = "written"
    OBVIOUS
  <2>1. CASE f = e
    <3>1. PICK t \in Tips(Trail[e]) : prev'[e] = t /\ time[t] < time'[e]
      BY <1>2, <2>1, LinksFacts
    <3>2. t \in Entries /\ pc[t] = "written" /\ Trail[t] = Trail[e] /\ t # e
      BY <1>2, LinksFacts DEF Tips, RowsOf, Placed
    <3> QED BY <1>2, <2>1, <3>1, <3>2, LinksFacts
  <2>2. CASE f # e
    <3>1. /\ \A g \in Entries \ {e} : prev'[g] = prev[g] /\ time'[g] = time[g]
          /\ pc[e] = "answered" /\ pc' = [pc EXCEPT ![e] = "linked"]
      BY <1>2, LinksFacts
    <3>2. prev'[f] = prev[f] /\ prev[f] \in Entries
      BY <2>2, <3>1
    <3>3. /\ time[prev[f]] < time[f] /\ Trail[prev[f]] = Trail[f]
          /\ pc[prev[f]] = "written"
      BY <3>2
    <3>4. prev[f] \in Entries \ {e}
      BY <3>1, <3>2, <3>3
    <3> QED BY <2>2, <3>1, <3>2, <3>3, <3>4
  <2> QED BY <2>1, <2>2
<1>3. ASSUME NEW e \in Entries, Commits(e) PROVE Ascending'
  BY <1>3 DEF Commits, Goto
<1>4. ASSUME NEW e \in Entries, Alters(e) \/ Removes(e) PROVE Ascending'
  BY <1>4 DEF Alters, Removes
<1>5. ASSUME UNCHANGED vars PROVE Ascending'
  BY <1>5 DEF vars
<1> QED BY <1>1, <1>2, <1>3, <1>4, <1>5 DEF Next, AuditStep

(* A step that changes neither the table nor a link leaves a trail as      *)
(* sequential as it was.                                                   *)
LEMMA SequentialStands ==
  ASSUME IInv, rows' = rows, removed' = removed, stale' = stale,
         prev' = prev, time' = time,
         \A e \in Entries : pc'[e] = "linked" => pc[e] = "linked"
  PROVE  Sequential'
  BY DEF IInv, Sequential, Clean, LinkedRight, IsNewest, RowsOf

(* The entry Links has just linked. *)
LEMMA LinksSequential ==
  ASSUME NEW e \in Entries, IInv, TypeOK', Links(e)
  PROVE  Sequential'
<1> USE AuditAssumption DEF IInv, TypeOK
<1>1. SUFFICES ASSUME NEW f \in Entries \ Legacy, Clean(Trail[f])'
               PROVE  /\ f \in rows' => LinkedRight(f)'
                      /\ pc'[f] = "linked" /\ f \notin stale' => LinkedRight(f)' /\ IsNewest(f)'
  BY DEF Sequential
<1>2. Clean(Trail[f])
  BY <1>1, LinksFacts DEF Clean
<1>3. RowsOf(Trail[f])' = RowsOf(Trail[f]) /\ rows' = rows /\ e \notin rows
  BY LinksFacts DEF RowsOf
<1>4. \A z \in RowsOf(Trail[f]) : z \in Entries /\ z \in rows /\ z # e /\ time'[z] = time[z]
  BY <1>3, LinksFacts DEF RowsOf
<1>5. CASE f # e
  <2>1. prev'[f] = prev[f] /\ time'[f] = time[f] /\ pc'[f] = pc[f] /\ stale' = stale
    BY <1>5, LinksFacts
  <2>2. prev[f] # Genesis => prev[f] \in Entries /\ prev[f] # e
    BY LinksFacts DEF Ascending
  <2>3. prev[f] # Genesis => time'[prev[f]] = time[prev[f]]
    BY <2>2, LinksFacts
  <2>4. Genesis \notin rows
    OBVIOUS
  <2>5. LinkedRight(f) => LinkedRight(f)'
    BY <1>3, <1>4, <2>1, <2>3, <2>4 DEF LinkedRight
  <2>6. IsNewest(f) => IsNewest(f)'
    BY <1>3, <1>4, <2>1 DEF IsNewest
  <2> QED BY <1>2, <1>3, <2>1, <2>5, <2>6 DEF Sequential
<1>6. CASE f = e
  <2>1. CASE RowsOf(Trail[e]) = {}
    BY <1>3, <1>6, <2>1 DEF LinkedRight, IsNewest
  <2>2. ASSUME NEW t \in Tips(Trail[e]),
               prev'[e] = IF t \in Legacy THEN Genesis ELSE t, time[t] < time'[e]
        PROVE  LinkedRight(e)' /\ IsNewest(e)'
    <3>1. t \in rows /\ Trail[t] = Trail[e] /\ t # e /\ t \in Entries
      BY <1>3 DEF Tips, RowsOf
    <3>2. \A z \in RowsOf(Trail[e]) : time[z] <= time[t] /\ time'[z] < time'[e]
      BY <1>4, <1>6, <2>2, <3>1 DEF Tips, TypeOK
    <3>3. IsNewest(e)'
      BY <1>3, <1>6, <3>2 DEF IsNewest
    <3>4. CASE t \notin Legacy
      <4>1. prev'[e] = t /\ time'[t] = time[t] /\ t \in rows'
        BY <1>3, <2>2, <3>1, <3>4, LinksFacts
      <4>2. \A z \in RowsOf(Trail[e]) : time'[z] <= time'[t] /\ time'[z] # time'[e]
        BY <1>4, <1>6, <3>2, <4>1
      <4> QED BY <1>3, <1>6, <3>2, <3>3, <4>1, <4>2 DEF LinkedRight
    <3>5. CASE t \in Legacy
      <4>1. \A z \in RowsOf(Trail[e]) : z \in Legacy
        <5> SUFFICES ASSUME NEW z \in RowsOf(Trail[e]), z \notin Legacy PROVE FALSE
          OBVIOUS
        <5>1. LinkedRight(z) /\ Trail[z] = Trail[e] /\ z # t
          BY <1>2, <1>4, <1>6, <3>5 DEF Sequential, RowsOf
        <5>2. t \in RowsOf(Trail[z]) \ {z}
          BY <3>1, <5>1 DEF RowsOf
        <5>3. time[t] < time[z]
          BY <3>5, <5>1, <5>2 DEF LinkedRight
        <5>4. time[z] \in Nat /\ time[t] \in Nat /\ time[z] <= time[t]
          BY <1>4, <1>6, <3>1, <3>2
        <5> QED BY <5>3, <5>4
      <4>2. prev'[e] = Genesis
        BY <2>2, <3>5
      <4>3. \A z \in RowsOf(Trail[e]) : time'[z] # time'[e]
        BY <1>4, <1>6, <3>2
      <4> QED BY <1>3, <1>6, <3>2, <3>3, <4>1, <4>2, <4>3 DEF LinkedRight
    <3> QED BY <3>4, <3>5
  <2> QED BY <1>3, <1>6, <2>1, <2>2, LinksFacts
<1> QED BY <1>5, <1>6

(* A new row comes after all of its trail's, or was stale.                 *)
LEMMA CommitsSequential ==
  ASSUME NEW e \in Entries, IInv, TypeOK', Commits(e)
  PROVE  Sequential'
<1> USE AuditAssumption DEF IInv, TypeOK
<1>1. SUFFICES ASSUME NEW f \in Entries \ Legacy, Clean(Trail[f])'
               PROVE  /\ f \in rows' => LinkedRight(f)'
                      /\ pc'[f] = "linked" /\ f \notin stale' => LinkedRight(f)' /\ IsNewest(f)'
  BY DEF Sequential
<1>2. /\ pc[e] = "linked" /\ pc' = [pc EXCEPT ![e] = "written"]
      /\ rows' = rows \cup {e}
      /\ stale' = stale \cup {g \in Entries \ {e} : pc[g] = "linked" /\ Trail[g] = Trail[e]}
      /\ prev' = prev /\ time' = time /\ removed' = removed
  BY DEF Commits, Goto
<1>3. Clean(Trail[f])
  BY <1>1, <1>2 DEF Clean
<1>4. e \notin Legacy /\ e \notin rows
  BY <1>2 DEF Placed
<1>5. CASE Trail[f] # Trail[e]
  <2>1. RowsOf(Trail[f])' = RowsOf(Trail[f])
    BY <1>2, <1>5 DEF RowsOf
  <2>2. LinkedRight(f) => LinkedRight(f)'
    BY <1>2, <2>1 DEF LinkedRight
  <2>3. IsNewest(f) => IsNewest(f)'
    BY <1>2, <2>1 DEF IsNewest
  <2>4. (f \in rows' => f \in rows) /\ (pc'[f] = "linked" => pc[f] = "linked")
    BY <1>2, <1>5
  <2> QED BY <1>2, <1>3, <2>2, <2>3, <2>4 DEF Sequential
<1>6. CASE Trail[f] = Trail[e]
  <2>1. RowsOf(Trail[f])' = RowsOf(Trail[f]) \cup {e}
    BY <1>2, <1>6 DEF RowsOf
  <2>2. e \notin stale
    BY <1>1, <1>2, <1>6 DEF Clean
  <2>3. LinkedRight(e) /\ IsNewest(e)
    BY <1>2, <1>3, <1>4, <1>6, <2>2 DEF Sequential
  <2>4. pc'[f] # "linked" \/ f \in stale'
    BY <1>2, <1>6
  <2>5. CASE f = e
    <3>1. LinkedRight(e)'
      BY <1>2, <1>6, <2>1, <2>3 DEF LinkedRight
    <3> QED BY <2>4, <2>5, <3>1
  <2>6. CASE f # e /\ f \in rows
    <3>1. LinkedRight(f)
      BY <1>3, <2>6 DEF Sequential
    <3>2. time[f] < time[e]
      BY <1>6, <2>3, <2>6 DEF IsNewest, RowsOf
    <3>3. time[f] \in Nat /\ time[e] \in Nat
      OBVIOUS
    <3>4. LinkedRight(f)'
      BY <1>2, <1>4, <2>1, <3>1, <3>2, <3>3 DEF LinkedRight
    <3> QED BY <2>4, <3>4
  <2>7. CASE f # e /\ f \notin rows
    BY <1>2, <2>4, <2>7
  <2> QED BY <2>5, <2>6, <2>7
<1> QED BY <1>5, <1>6

LEMMA SequentialStep ==
  ASSUME IInv, TypeOK', [Next]_vars
  PROVE  Sequential'
<1>1. ASSUME NEW e \in Entries,
             Responds(e) \/ Raises(e) \/ Reports(e) \/ Dies(e)
      PROVE  Sequential'
  BY <1>1, RequestSteps, SequentialStands DEF chainVars, IInv
<1>2. ASSUME NEW e \in Entries, Links(e) \/ Commits(e) PROVE Sequential'
  BY <1>2, LinksSequential, CommitsSequential
<1>3. ASSUME NEW e \in Entries, Alters(e) PROVE Sequential'
  BY <1>3, SequentialStands DEF Alters
<1>4. ASSUME NEW e \in Entries, Removes(e) PROVE Sequential'
  <2> SUFFICES ASSUME NEW f \in Entries \ Legacy, Clean(Trail[f])'
               PROVE  /\ f \in rows' => LinkedRight(f)'
                      /\ pc'[f] = "linked" /\ f \notin stale' => LinkedRight(f)' /\ IsNewest(f)'
    BY DEF Sequential
  <2>1. /\ rows' = rows \ {e} /\ removed' = removed \cup {e}
        /\ pc' = pc /\ prev' = prev /\ time' = time /\ stale' = stale
    BY <1>4 DEF Removes
  <2>2. Trail[f] # Trail[e]
    BY <2>1 DEF Clean
  <2>3. Clean(Trail[f])
    BY <2>1, <2>2 DEF Clean
  <2>4. RowsOf(Trail[f])' = RowsOf(Trail[f])
    BY <2>1, <2>2 DEF RowsOf
  <2>5. prev[f] \in rows => prev[f] # e
    BY <2>2, AuditAssumption DEF IInv, TypeOK, Ascending
  <2>6. LinkedRight(f) => LinkedRight(f)'
    BY <2>1, <2>4, <2>5 DEF LinkedRight
  <2>7. IsNewest(f) => IsNewest(f)'
    BY <2>1, <2>4 DEF IsNewest
  <2> QED BY <2>1, <2>3, <2>6, <2>7 DEF IInv, Sequential
<1>5. ASSUME UNCHANGED vars PROVE Sequential'
  BY <1>5, SequentialStands DEF vars
<1> QED BY <1>1, <1>2, <1>3, <1>4, <1>5 DEF Next, AuditStep

-----------------------------------------------------------------------------
LEMMA InvInit == Init => IInv
<1> SUFFICES ASSUME Init PROVE IInv
  OBVIOUS
<1>1. TypeOK
  BY TypeInit
<1>2. Placed /\ Ascending
  BY AuditAssumption DEF Init, Placed, Ascending
<1>3. Sequential
  BY AuditAssumption DEF Init, Sequential
<1> QED BY <1>1, <1>2, <1>3 DEF IInv

LEMMA InvStep == IInv /\ [Next]_vars => IInv'
<1> SUFFICES ASSUME IInv, [Next]_vars PROVE IInv'
  OBVIOUS
<1>1. TypeOK'
  BY TypeStep DEF IInv
<1> QED BY <1>1, PlacedStep, AscendingStep, SequentialStep DEF IInv

THEOREM Invariance == Spec => []IInv
<1> QED BY InvInit, InvStep, PTL DEF Spec

(* Type correctness of AuditChain. *)
THEOREM TypeCorrect == Spec => []TypeOK
<1>1. IInv => TypeOK
  BY DEF IInv
<1> QED BY Invariance, <1>1, PTL

(* next_timestamp orders every entry after the one it links to.            *)
THEOREM NoCycles == Spec => []LinksAscend
<1>1. IInv => LinksAscend
  BY DEF IInv, TypeOK, Ascending, LinksAscend
<1> QED BY Invariance, <1>1, PTL

-----------------------------------------------------------------------------
(* Verification of a trail written one entry at a time: a hashed row that  *)
(* nobody edited is never reported.                                        *)
LEMMA VerifiesSequential ==
  ASSUME IInv, NEW w \in Trails, Clean(w),
         NEW x \in RowsOf(w), x \notin altered, x \notin Legacy
  PROVE  ~Broken(x)
<1> USE DEF IInv, TypeOK
<1>1. SUFFICES ASSUME NEW p \in rows \ Legacy, Adjacent(p, x), prev[x] # p PROVE FALSE
  BY DEF Broken
<1>2. x \in Entries /\ p \in Entries /\ Trail[x] = w /\ Trail[p] = w /\ x \in rows
  BY <1>1 DEF RowsOf, Adjacent
<1>3. LinkedRight(x) /\ LinkedRight(p)
  BY <1>2, <1>1 DEF Sequential
<1>4. p # x /\ p \in RowsOf(Trail[x])
  BY <1>1, <1>2, AuditAssumption DEF Adjacent, Precedes, RowsOf
<1>5. time[p] < time[x]
  BY <1>1, <1>3, <1>4 DEF Adjacent, Precedes, LinkedRight
<1>6. prev[x] \in rows /\ time[p] <= time[prev[x]]
  BY <1>1, <1>3, <1>4, <1>5 DEF LinkedRight
<1>7. prev[x] \in Entries /\ prev[x] # Genesis
  BY <1>6, AuditAssumption
<1>8. time[prev[x]] < time[x] /\ Trail[prev[x]] = Trail[x]
  BY <1>2, <1>7 DEF Ascending
<1>9. prev[x] \in RowsOf(Trail[p]) \ {p}
  BY <1>1, <1>2, <1>6, <1>8 DEF RowsOf
<1>10. time[p] < time[prev[x]]
  BY <1>2, <1>3, <1>6, <1>7, <1>9 DEF LinkedRight
<1> QED BY <1>1, <1>2, <1>8, <1>9, <1>10 DEF Adjacent, Precedes, RowsOf

(* verify_chain on a trail written one entry at a time names what was      *)
(* edited and what is older than the chain, and nothing else.              *)
THEOREM VerificationIsExact == Spec => []NamesExactlyTheEdited
<1>1. IInv => NamesExactlyTheEdited
  <2> SUFFICES ASSUME IInv, NEW w \in Trails, Clean(w)
               PROVE  Breaks(w) = {e \in RowsOf(w) : e \in altered \cup Legacy}
    BY DEF NamesExactlyTheEdited
  <2>1. \A x \in RowsOf(w) : Broken(x) <=> x \in altered \cup Legacy
    BY VerifiesSequential DEF Broken
  <2> QED BY <2>1 DEF Breaks
<1> QED BY Invariance, <1>1, PTL

-----------------------------------------------------------------------------
(* The order of verification, on entries. *)
LEMMA PrecedesOrder ==
  ASSUME TypeOK, NEW x \in Entries, NEW y \in Entries, NEW z \in Entries
  PROVE  /\ ~Precedes(x, x)
         /\ Precedes(x, y) /\ Precedes(y, z) => Precedes(x, z)
         /\ x = y \/ Precedes(x, y) \/ Precedes(y, x)
         /\ Precedes(x, y) => time[x] <= time[y]
<1>1. /\ x \in Nat /\ y \in Nat /\ z \in Nat
      /\ time[x] \in Nat /\ time[y] \in Nat /\ time[z] \in Nat
  BY AuditAssumption DEF TypeOK
<1> QED BY <1>1 DEF Precedes

(* A row that is not the first of its trail has a row right before it: of  *)
(* the rows before it, take one with as few as possible between.           *)
LEMMA HasAdjacent ==
  ASSUME TypeOK, NEW z \in rows, NEW u \in rows,
         Trail[u] = Trail[z], Precedes(u, z)
  PROVE  \E p \in rows : Adjacent(p, z)
<1> DEFINE B == {v \in RowsOf(Trail[z]) : Precedes(v, z)}
           Between(v) == {t \in B : Precedes(v, t)}
           T == {Between(v) : v \in B}
<1>1. B \subseteq Entries /\ IsFiniteSet(B) /\ u \in B
  <2>1. B \subseteq Entries /\ u \in B
    BY DEF RowsOf, TypeOK
  <2> QED BY <2>1, FS_Subset, AuditAssumption
<1>2. T \subseteq FiniteSubsetsOf(B) /\ T # {}
  <2>1. \A v \in B : Between(v) \subseteq B
    OBVIOUS
  <2>2. \A v \in B : IsFiniteSet(Between(v))
    BY <1>1, <2>1, FS_Subset
  <2> QED BY <1>1, <2>1, <2>2 DEF FiniteSubsetsOf
<1>3. IsWellFoundedOn(StrictSubsetOrdering(B), FiniteSubsetsOf(B))
  BY FS_StrictSubsetOrderingWellFounded
<1>4. PICK X \in T : \A Y \in T : ~(<<Y, X>> \in StrictSubsetOrdering(B))
  <2> HIDE DEF T
  <2> QED BY <1>2, <1>3, WFMin
<1>5. PICK p \in B : X = Between(p)
  BY <1>4
<1>6. Between(p) = {}
  <2> SUFFICES ASSUME NEW t \in Between(p) PROVE FALSE
    OBVIOUS
  <2>1. Between(t) \subseteq Between(p) /\ t \notin Between(t)
    BY <1>1, PrecedesOrder
  <2>2. Between(t) \in SUBSET B /\ Between(p) \in SUBSET B /\ Between(t) # Between(p)
    BY <2>1
  <2>3. <<Between(t), Between(p)>> \in StrictSubsetOrdering(B)
    BY <2>1, <2>2 DEF StrictSubsetOrdering
  <2> QED BY <1>4, <1>5, <2>3
<1>7. p \in rows /\ Trail[p] = Trail[z] /\ Precedes(p, z)
  BY DEF RowsOf
<1>8. ~\E t \in RowsOf(Trail[p]) : Precedes(p, t) /\ Precedes(t, z)
  BY <1>6, <1>7
<1> QED BY <1>7, <1>8 DEF Adjacent

(* Ancestors share the trail, and come strictly before.                    *)
LEMMA AncestorsBefore ==
  ASSUME IInv, NEW e \in Entries, NEW r, Ancestor(r, e)
  PROVE  r \in Entries /\ Trail[r] = Trail[e] /\ time[r] < time[e]
<1> DEFINE S == {x \in Entries : Trail[x] = Trail[e] /\ time[x] < time[e]}
<1>1. \A x \in S \cup {e} : prev[x] \in S \cup {Genesis}
  <2> SUFFICES ASSUME NEW x \in S \cup {e}, prev[x] # Genesis PROVE prev[x] \in S
    OBVIOUS
  <2>1. x \in Entries /\ Trail[x] = Trail[e] /\ time[x] <= time[e]
    BY DEF IInv, TypeOK
  <2>2. prev[x] \in Entries /\ Trail[prev[x]] = Trail[x] /\ time[prev[x]] < time[x]
    BY <2>1 DEF IInv, TypeOK, Ascending
  <2>3. time[prev[x]] \in Nat /\ time[x] \in Nat /\ time[e] \in Nat
    BY <2>1, <2>2 DEF IInv, TypeOK
  <2> QED BY <2>1, <2>2, <2>3
<1>2. S \in SUBSET Entries
  OBVIOUS
<1>3. r \in S
  BY <1>1, <1>2 DEF Ancestor
<1> QED BY <1>3

(* In a trail without breaks every link of a row leads to a row or back    *)
(* past the first of them, so an entry removed between two survivors is    *)
(* noticed.                                                                *)
THEOREM GapsAreNoticed == Spec => []RemovalInsideIsNoticed
<1>1. IInv => RemovalInsideIsNoticed
  <2> SUFFICES ASSUME IInv, NEW r \in removed, NEW x \in rows, NEW y \in rows,
                      Ancestor(x, r), Ancestor(r, y), Breaks(Trail[r]) = {}
               PROVE  FALSE
    BY DEF RemovalInsideIsNoticed
  <2> USE DEF IInv, TypeOK
  <2>1. r \in Entries /\ x \in Entries /\ y \in Entries /\ r \notin rows
    BY DEF Placed
  <2>2. Trail[x] = Trail[r] /\ time[x] < time[r] /\ Trail[r] = Trail[y]
    BY <2>1, AncestorsBefore
  <2> DEFINE R == RowsOf(Trail[r])
             Early == {e \in Entries : \A z \in R : time[e] < time[z]}
  <2>3. x \in R /\ y \in R /\ R \subseteq Entries
    BY <2>2 DEF RowsOf
  <2>4. \A z \in R : ~Broken(z)
    BY DEF Breaks
  <2>5. ASSUME NEW e \in R \cup Early, prev[e] # Genesis PROVE prev[e] \in R \cup Early
    <3>1. e \in Entries
      BY <2>3
    <3>2. prev[e] \in Entries /\ time[prev[e]] < time[e]
      BY <2>5, <3>1 DEF Ascending
    <3>3. time[prev[e]] \in Nat /\ time[e] \in Nat
      BY <3>1, <3>2
    <3>4. CASE e \in Early
      BY <2>3, <3>2, <3>3, <3>4
    <3>5. CASE e \in R /\ \E u \in R : Precedes(u, e)
      <4>1. PICK p \in rows : Adjacent(p, e)
        BY <3>5, HasAdjacent DEF RowsOf
      <4>2. p \in R
        BY <3>5, <4>1 DEF Adjacent, RowsOf
      <4>3. p \notin Legacy
        BY <2>4, <4>2 DEF Broken
      <4>4. prev[e] = p
        BY <2>4, <3>5, <4>1, <4>3 DEF Broken
      <4> QED BY <4>2, <4>4
    <3>6. CASE e \in R /\ ~\E u \in R : Precedes(u, e)
      <4>1. \A z \in R : time[e] <= time[z]
        BY <2>3, <3>1, <3>3, <3>6, PrecedesOrder
      <4>2. \A z \in R : time[prev[e]] < time[z]
        BY <2>3, <3>2, <3>3, <4>1
      <4> QED BY <3>2, <4>2
    <3> QED BY <3>4, <3>5, <3>6
  <2>6. R \cup Early \in SUBSET Entries
    BY <2>3
  <2>7. r \in R \cup Early
    <3>1. \A e \in (R \cup Early) \cup {y} : prev[e] \in (R \cup Early) \cup {Genesis}
      BY <2>3, <2>5
    <3> HIDE DEF R, Early
    <3> QED BY <2>6, <3>1 DEF Ancestor
  <2>8. r \notin R
    BY <2>1 DEF RowsOf
  <2>9. time[r] < time[x]
    BY <2>3, <2>7, <2>8
  <2> QED BY <2>1, <2>2, <2>9
<1> QED BY Invariance, <1>1, PTL
=============================================================================
