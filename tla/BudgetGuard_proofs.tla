------------------------- MODULE BudgetGuard_proofs -------------------------
(***************************************************************************)
(* The safety of BudgetGuard for any number of calls, any costs up to      *)
(* MaxCost, any ceiling and any calendar.  The inductive invariant adds to *)
(* the properties that peak bounds the calls in flight and that a call     *)
(* between the read of the row and its refresh has seen a row.  That no    *)
(* call is refused for another month's spend is proved of one turn of the  *)
(* month: over two it is false.                                            *)
(***************************************************************************)
EXTENDS BudgetGuard, FiniteSetTheorems, TLAPS

PeakBounds == Cardinality(InFlight) <= peak

SeenRow == \A c \in Calls : pc[c] \in {"rolling", "refreshing"} => exists

IInv ==
  /\ TypeOK
  /\ PeakBounds
  /\ SeenRow
  /\ SpendHasARow
  /\ MeteredIsLogged
  /\ OvershootBounded

Flying == {"provider"} \cup Recording

-----------------------------------------------------------------------------
(* Multiplying by a natural number keeps an order. *)
LEMMA TimesMonotone ==
  ASSUME NEW f \in Nat, NEW i \in Nat, NEW j \in Nat, i <= j
  PROVE  f * i <= f * j
<1>1. f * (j - i) >= 0
  BY SMT
<1>2. f * j = f * i + f * (j - i)
  BY SMT
<1> QED BY <1>1, <1>2, SMT

LEMMA SumBelow ==
  ASSUME NEW x \in Int, NEW y \in Int, NEW k \in Int, NEW l \in Int, x < y, k <= l
  PROVE  x + k < y + l
  OBVIOUS

(* The calls in flight are finitely many. *)
LEMMA InFlightFinite == IsFiniteSet(InFlight) /\ Cardinality(InFlight) \in Nat
<1>1. InFlight \subseteq Calls
  BY DEF InFlight
<1>2. IsFiniteSet(InFlight)
  BY <1>1, BudgetAssumption, FS_Subset
<1> QED BY <1>2, FS_CardinalityType

(* A call that moves enters the calls in flight, stays among them or       *)
(* leaves them, as its new program counter says.                           *)
LEMMA InFlightMoves ==
  ASSUME TypeOK, NEW c \in Calls, NEW p, Goto(c, p)
  PROVE  /\ p \in Flying => InFlight' = InFlight \cup {c}
         /\ p \notin Flying => InFlight' = InFlight \ {c}
<1>1. \A d \in Calls : pc'[d] = IF d = c THEN p ELSE pc[d]
  BY DEF TypeOK, Goto
<1> QED BY <1>1 DEF InFlight, Flying

(* While nobody enters, and the meter does not rise, the bound stands. *)
LEMMA BoundStands ==
  ASSUME TypeOK, TypeOK', PeakBounds, OvershootBounded,
         InFlight' \subseteq InFlight, spent' <= spent, peak' = peak
  PROVE  PeakBounds' /\ OvershootBounded'
<1>1. IsFiniteSet(InFlight') /\ Cardinality(InFlight') <= Cardinality(InFlight)
  BY InFlightFinite, FS_Subset
<1>2. Cardinality(InFlight') \in Nat /\ Cardinality(InFlight) \in Nat
  BY <1>1, InFlightFinite, FS_CardinalityType
<1>3. PeakBounds'
  BY <1>1, <1>2 DEF PeakBounds, TypeOK
<1>4. MaxCost * Cardinality(InFlight') <= MaxCost * Cardinality(InFlight)
  BY <1>1, <1>2, TimesMonotone, BudgetAssumption
<1>5. OvershootBounded'
  <2> DEFINE k == MaxCost * Cardinality(InFlight)
             l == MaxCost * Cardinality(InFlight')
             r == Ceiling + MaxCost * peak
  <2>1. k \in Int /\ l \in Int /\ r \in Int
    BY <1>2, BudgetAssumption DEF TypeOK
  <2>2. Enforced => spent + k < r
    BY DEF OvershootBounded
  <2> HIDE DEF k, l, r
  <2>3. Enforced => spent' + l < r
    BY <2>1, <2>2, <1>4 DEF k, l, TypeOK
  <2> QED BY <2>3 DEF l, r, OvershootBounded
<1> QED BY <1>3, <1>5

(* The refusal at the ceiling is what bounds the meter: a call enters only *)
(* below it.                                                               *)
LEMMA DecideBounds ==
  ASSUME TypeOK, TypeOK', PeakBounds, OvershootBounded, NEW c \in Calls, Decide(c)
  PROVE  PeakBounds' /\ OvershootBounded'
<1>1. CASE Enforced /\ spent >= Ceiling
  <2>1. Goto(c, "over_budget") /\ peak' = peak /\ spent' = spent
    BY <1>1 DEF Decide, rowVars
  <2>2. InFlight' \subseteq InFlight
    BY <2>1, InFlightMoves DEF Flying, Recording
  <2> QED BY <2>1, <2>2, BoundStands DEF TypeOK
<1>2. CASE ~(Enforced /\ spent >= Ceiling)
  <2> DEFINE n == Cardinality(InFlight \cup {c})
  <2>1. /\ Goto(c, "provider")
        /\ peak' = IF n > peak THEN n ELSE peak
        /\ spent' = spent
    BY <1>2 DEF Decide, rowVars
  <2>2. InFlight' = InFlight \cup {c}
    BY <2>1, InFlightMoves DEF Flying
  <2>3. n \in Nat
    BY InFlightFinite, FS_AddElement, FS_CardinalityType
  <2>4. n <= peak' /\ peak' \in Nat
    BY <2>1, <2>3 DEF TypeOK
  <2>5. MaxCost * n <= MaxCost * peak'
    BY <2>3, <2>4, TimesMonotone, BudgetAssumption
  <2>6. ASSUME Enforced PROVE spent' + MaxCost * n < Ceiling + MaxCost * peak'
    <3>1. MaxCost * n \in Int /\ MaxCost * peak' \in Int
      BY <2>3, <2>4, BudgetAssumption
    <3>2. spent' \in Int /\ Ceiling \in Int
      BY BudgetAssumption DEF TypeOK
    <3>3. spent' < Ceiling
      BY <1>2, <2>1, <2>6, <3>2
    <3> HIDE DEF n
    <3> QED BY <2>5, <3>1, <3>2, <3>3, SumBelow
  <2> HIDE DEF n
  <2>7. PeakBounds'
    BY <2>2, <2>4 DEF PeakBounds, n
  <2>8. OvershootBounded'
    BY <2>2, <2>6 DEF OvershootBounded, n
  <2> QED BY <2>7, <2>8
<1> QED BY <1>1, <1>2

(* A record moves one call's cost from the allowance into the meter. *)
LEMMA RecordBounds ==
  ASSUME TypeOK, TypeOK', PeakBounds, OvershootBounded,
         NEW c \in Calls, RecordUpdates(c)
  PROVE  PeakBounds' /\ OvershootBounded'
<1>1. InFlight' = InFlight \ {c} /\ c \in InFlight
  BY InFlightMoves DEF RecordUpdates, Flying, Recording, InFlight
<1>2. Cardinality(InFlight') = Cardinality(InFlight) - 1
  BY <1>1, InFlightFinite, FS_RemoveElement
<1>3. Cardinality(InFlight) \in Nat
  BY InFlightFinite
<1>4. PeakBounds'
  BY <1>2, <1>3 DEF PeakBounds, RecordUpdates, TypeOK
<1>5. OvershootBounded'
  <2> DEFINE n == Cardinality(InFlight)
             k == MaxCost * n
             l == MaxCost * (n - 1)
             r == Ceiling + MaxCost * peak
  <2>1. k \in Int /\ l \in Int /\ r \in Int /\ l = k - MaxCost
    BY <1>3, BudgetAssumption, SMT DEF TypeOK
  <2>2. Enforced => spent + k < r
    BY DEF OvershootBounded
  <2>3. spent' = spent + Cost[c] /\ peak' = peak /\ Cost[c] \in 0..MaxCost
    BY BudgetAssumption DEF RecordUpdates
  <2> HIDE DEF k, l, r
  <2>4. Enforced => spent' + l < r
    BY <2>1, <2>2, <2>3, BudgetAssumption DEF TypeOK
  <2> QED BY <2>3, <2>4, <1>2 DEF l, n, r, OvershootBounded
<1> QED BY <1>4, <1>5

-----------------------------------------------------------------------------
LEMMA TypeInit == Init => TypeOK
<1>1. Init => exists \in BOOLEAN
  BY Zenon DEF Init
<1> QED BY <1>1, BudgetAssumption DEF Init, TypeOK, Checking

LEMMA TypeStep == TypeOK /\ [Next]_vars => TypeOK'
<1> SUFFICES ASSUME TypeOK, [Next]_vars PROVE TypeOK'
  OBVIOUS
<1> USE BudgetAssumption
<1>1. ASSUME NEW c \in Calls, Decide(c), ReadsClock(c) \/ UNCHANGED current
      PROVE  TypeOK'
  <2>1. Cardinality(InFlight \cup {c}) \in Nat
    BY InFlightFinite, FS_AddElement, FS_CardinalityType
  <2>2. exists' \in BOOLEAN
    BY <1>1, Zenon DEF Decide, rowVars, TypeOK
  <2>3. peak' \in Nat
    BY <1>1, <2>1 DEF Decide, TypeOK
  <2> QED BY <1>1, <2>2, <2>3
        DEF Decide, ReadsClock, Goto, rowVars, TypeOK, Ended, Refused
<1>2. ASSUME NEW c \in Calls, CheckStep(c) PROVE TypeOK'
  <2>1. CASE CheckFindsNoRow(c)
    BY <2>1 DEF CheckFindsNoRow, ReadsClock, Goto, rowVars, TypeOK, Checking
  <2>2. CASE CheckFindsStaleRow(c)
    BY <2>2 DEF CheckFindsStaleRow, ReadsClock, MarksZero, Goto, rowVars, TypeOK, Checking
  <2>3. CASE CheckFindsRow(c)
    BY <2>3, <1>1 DEF CheckFindsRow
  <2>4. CASE CheckInserts(c)
    <3>1. exists' \in BOOLEAN
      BY <2>4, Zenon DEF CheckInserts, rowVars, TypeOK
    <3> QED BY <2>4, <3>1
          DEF CheckInserts, Goto, rowVars, TypeOK, Checking, Ended, Refused
  <2>5. CASE CheckRollsOver(c)
    BY <2>5 DEF CheckRollsOver, RollsOver, Goto, TypeOK, Checking
  <2>6. CASE CheckRefreshes(c)
    BY <2>6, <1>1 DEF CheckRefreshes
  <2>7. CASE CheckFails(c)
    BY <2>7 DEF CheckFails, Goto, rowVars, TypeOK, Ended, Refused
  <2> QED BY <1>2, <2>1, <2>2, <2>3, <2>4, <2>5, <2>6, <2>7 DEF CheckStep
<1>3. ASSUME NEW c \in Calls, ProviderAnswers(c) \/ ProviderFails(c) PROVE TypeOK'
  BY <1>3 DEF ProviderAnswers, ProviderFails, Goto, rowVars, TypeOK, Recording, Ended
<1>4. ASSUME NEW c \in Calls, RecordStep(c) PROVE TypeOK'
  BY <1>4 DEF RecordStep, RecordReads, RecordRollsOver, RecordUpdates, RecordFails,
       ReadsClock, MarksZero, RollsOver, Goto, rowVars, TypeOK, Recording, Ended
<1>5. ASSUME NEW c \in Calls, Dies(c) PROVE TypeOK'
  BY <1>5 DEF Dies, Goto, rowVars, TypeOK, Ended
<1>6. ASSUME MonthTurns PROVE TypeOK'
  BY <1>6 DEF MonthTurns, rowVars, TypeOK
<1>7. ASSUME UNCHANGED vars PROVE TypeOK'
  BY <1>7 DEF vars, rowVars, TypeOK
<1> QED BY <1>2, <1>3, <1>4, <1>5, <1>6, <1>7 DEF Next

(* The row, once there, stays, and only calls that saw it go on. *)
LEMMA RowStep ==
  ASSUME IInv, TypeOK', [Next]_vars
  PROVE  SeenRow' /\ SpendHasARow'
<1> USE DEF SeenRow, SpendHasARow, InFlight, Recording, IInv, TypeOK
<1>1. ASSUME NEW c \in Calls, CheckStep(c) PROVE SeenRow' /\ SpendHasARow'
  <2>1. exists => exists'
    BY <1>1, Zenon DEF CheckStep, CheckFindsNoRow, CheckFindsStaleRow, CheckFindsRow,
         CheckInserts, CheckRollsOver, CheckRefreshes, CheckFails, Decide, RollsOver, rowVars
  <2>2. \A d \in Calls : d # c => pc'[d] = pc[d]
    BY <1>1 DEF CheckStep, CheckFindsNoRow, CheckFindsStaleRow, CheckFindsRow,
         CheckInserts, CheckRollsOver, CheckRefreshes, CheckFails, Decide, Goto
  <2>3. pc'[c] \in {"rolling", "refreshing", "provider"} \cup Recording => exists'
    BY <1>1, <2>1 DEF CheckStep, CheckFindsNoRow, CheckFindsStaleRow, CheckFindsRow,
         CheckInserts, CheckRollsOver, CheckRefreshes, CheckFails, Decide, Goto,
         RollsOver, rowVars
  <2> QED BY <2>1, <2>2, <2>3
<1>2. ASSUME NEW c \in Calls,
             ProviderAnswers(c) \/ ProviderFails(c) \/ RecordStep(c) \/ Dies(c)
      PROVE  SeenRow' /\ SpendHasARow'
  <2>1. exists' = exists
    BY <1>2 DEF ProviderAnswers, ProviderFails, RecordStep, RecordReads, RecordRollsOver,
         RecordUpdates, RecordFails, Dies, RollsOver, rowVars
  <2>2. \A d \in Calls : d # c => pc'[d] = pc[d]
    BY <1>2 DEF ProviderAnswers, ProviderFails, RecordStep, RecordReads, RecordRollsOver,
         RecordUpdates, RecordFails, Dies, Goto
  <2>3. /\ pc'[c] \notin {"rolling", "refreshing"}
        /\ pc'[c] \in {"provider"} \cup Recording => pc[c] \in {"provider"} \cup Recording
    BY <1>2 DEF ProviderAnswers, ProviderFails, RecordStep, RecordReads, RecordRollsOver,
         RecordUpdates, RecordFails, Dies, Goto
  <2> QED BY <2>1, <2>2, <2>3
<1>3. ASSUME MonthTurns \/ UNCHANGED vars PROVE SeenRow' /\ SpendHasARow'
  BY <1>3 DEF MonthTurns, vars, rowVars
<1> QED BY <1>1, <1>2, <1>3 DEF Next

(* The meter and the log move together. *)
LEMMA LogStep ==
  ASSUME IInv, TypeOK', [Next]_vars
  PROVE  MeteredIsLogged'
<1> USE DEF MeteredIsLogged, IInv, TypeOK
<1>1. ASSUME NEW c \in Calls, CheckStep(c) PROVE MeteredIsLogged'
  BY <1>1 DEF CheckStep, CheckFindsNoRow, CheckFindsStaleRow, CheckFindsRow,
       CheckInserts, CheckRollsOver, CheckRefreshes, CheckFails, Decide, Goto, Checking
<1>2. ASSUME NEW c \in Calls,
             ProviderAnswers(c) \/ ProviderFails(c) \/ RecordReads(c) \/ RecordFails(c) \/ Dies(c)
      PROVE  MeteredIsLogged'
  BY <1>2 DEF ProviderAnswers, ProviderFails, RecordReads, RecordFails, Dies, Goto,
       Recording, Ended
<1>3. ASSUME NEW c \in Calls, RecordRollsOver(c) PROVE MeteredIsLogged'
  BY <1>3 DEF RecordRollsOver, Goto
<1>4. ASSUME NEW c \in Calls, RecordUpdates(c) PROVE MeteredIsLogged'
  BY <1>4 DEF RecordUpdates, Goto
<1>5. ASSUME MonthTurns \/ UNCHANGED vars PROVE MeteredIsLogged'
  BY <1>5 DEF MonthTurns, vars
<1> QED BY <1>1, <1>2, <1>3, <1>4, <1>5 DEF Next, RecordStep

(* No step of anybody passes the bound. *)
LEMMA BoundStep ==
  ASSUME IInv, TypeOK', [Next]_vars
  PROVE  PeakBounds' /\ OvershootBounded'
<1> USE DEF IInv
<1>1. ASSUME NEW c \in Calls, NEW p, Goto(c, p), p \notin Flying \/ c \in InFlight,
             spent' <= spent, peak' = peak
      PROVE  PeakBounds' /\ OvershootBounded'
  <2>1. InFlight' \subseteq InFlight
    BY <1>1, InFlightMoves
  <2> QED BY <1>1, <2>1, BoundStands
<1>2. ASSUME NEW c \in Calls, CheckStep(c) PROVE PeakBounds' /\ OvershootBounded'
  <2>1. CASE CheckFindsRow(c) \/ CheckRefreshes(c)
    BY <2>1, DecideBounds DEF CheckFindsRow, CheckRefreshes
  <2>2. CASE CheckFindsNoRow(c) \/ CheckFindsStaleRow(c) \/ CheckFails(c)
    BY <2>2, <1>1 DEF CheckFindsNoRow, CheckFindsStaleRow, CheckFails, rowVars,
         Flying, Recording, TypeOK
  <2>3. CASE CheckInserts(c)
    BY <2>3, <1>1 DEF CheckInserts, rowVars, Flying, Recording, TypeOK
  <2>4. CASE CheckRollsOver(c)
    BY <2>4, <1>1 DEF CheckRollsOver, RollsOver, Flying, Recording, TypeOK
  <2> QED BY <1>2, <2>1, <2>2, <2>3, <2>4 DEF CheckStep
<1>3. ASSUME NEW c \in Calls, ProviderAnswers(c) \/ ProviderFails(c) \/ Dies(c)
      PROVE  PeakBounds' /\ OvershootBounded'
  BY <1>3, <1>1 DEF ProviderAnswers, ProviderFails, Dies, rowVars, InFlight,
       Flying, Recording, TypeOK
<1>4. ASSUME NEW c \in Calls, RecordStep(c) PROVE PeakBounds' /\ OvershootBounded'
  <2>1. CASE RecordUpdates(c)
    BY <2>1, RecordBounds
  <2>2. CASE RecordReads(c) \/ RecordRollsOver(c) \/ RecordFails(c)
    <3>1. c \in InFlight
      BY <2>2 DEF RecordReads, RecordRollsOver, RecordFails, InFlight, Recording
    <3>2. spent' <= spent /\ peak' = peak
      BY <2>2 DEF RecordReads, RecordRollsOver, RecordFails, RollsOver, rowVars, TypeOK
    <3>3. \E p : Goto(c, p)
      BY <2>2 DEF RecordReads, RecordRollsOver, RecordFails
    <3> QED BY <3>1, <3>2, <3>3, <1>1
  <2> QED BY <1>4, <2>1, <2>2 DEF RecordStep
<1>5. ASSUME MonthTurns \/ UNCHANGED vars PROVE PeakBounds' /\ OvershootBounded'
  BY <1>5, BoundStands DEF MonthTurns, vars, rowVars, InFlight, TypeOK
<1> QED BY <1>2, <1>3, <1>4, <1>5 DEF Next

-----------------------------------------------------------------------------
LEMMA InvInit == Init => IInv
<1> SUFFICES ASSUME Init PROVE IInv
  OBVIOUS
<1>1. TypeOK
  BY TypeInit
<1>2. InFlight = {}
  BY DEF Init, InFlight, Recording
<1>3. Cardinality(InFlight) = 0
  BY <1>2, FS_EmptySet
<1>4. PeakBounds
  BY <1>3 DEF PeakBounds, Init
<1>5. SeenRow /\ SpendHasARow /\ MeteredIsLogged
  BY <1>2 DEF SeenRow, SpendHasARow, MeteredIsLogged, Init
<1>6. OvershootBounded
  <2>1. spent < Ceiling
    BY BudgetAssumption DEF Init
  <2>2. MaxCost * 0 = 0
    BY BudgetAssumption
  <2> QED BY <1>1, <1>3, <2>1, <2>2, BudgetAssumption DEF OvershootBounded, Init, TypeOK
<1> QED BY <1>1, <1>4, <1>5, <1>6 DEF IInv

LEMMA InvStep == IInv /\ [Next]_vars => IInv'
<1> SUFFICES ASSUME IInv, [Next]_vars PROVE IInv'
  OBVIOUS
<1>1. TypeOK'
  BY TypeStep DEF IInv
<1> QED BY <1>1, RowStep, LogStep, BoundStep DEF IInv

THEOREM Invariance == Spec => []IInv
<1> QED BY InvInit, InvStep, PTL DEF Spec

(* Type correctness of BudgetGuard. *)
THEOREM TypeCorrect == Spec => []TypeOK
<1>1. IInv => TypeOK
  BY DEF IInv
<1> QED BY Invariance, <1>1, PTL

(* The kill switch: get_or_create, assert_within_ceiling and record keep   *)
(* the meter within one cost per overlapping call of the ceiling.          *)
THEOREM CeilingHolds == Spec => []OvershootBounded
<1>1. IInv => OvershootBounded
  BY DEF IInv
<1> QED BY Invariance, <1>1, PTL

(* record leaves no cost in the meter without its usage row. *)
THEOREM NoUnloggedSpend == Spec => []MeteredIsLogged
<1>1. IInv => MeteredIsLogged
  BY DEF IInv
<1> QED BY Invariance, <1>1, PTL

(* No call reaches the provider for a workspace without a budget row. *)
THEOREM NoUnchargedProvider == Spec => []SpendHasARow
<1>1. IInv => SpendHasARow
  BY DEF IInv
<1> QED BY Invariance, <1>1, PTL

-----------------------------------------------------------------------------
(* Refusals, over one turn of the month.  A rollover then writes the last  *)
(* month there is, so period_start never falls behind what a check that    *)
(* refreshes has read of the calendar.                                     *)

MonthInv ==
  /\ \A c \in Calls : pc[c] \in {"rolling", "rolling_record"} => current[c] = MaxMonth
  /\ \A c \in Calls : pc[c] = "refreshing" => exists /\ period >= current[c]

LEMMA MonthStep ==
  ASSUME MaxMonth <= 1, IInv, MonthInv, [Next]_vars
  PROVE  MonthInv'
<1>t. /\ MaxMonth \in Nat /\ month \in 0..MaxMonth /\ period \in 0..MaxMonth
      /\ \A c \in Calls : current[c] \in 0..MaxMonth
      /\ current \in [Calls -> 0..MaxMonth]
      /\ pc \in [Calls -> Checking \cup {"provider"} \cup Recording \cup Ended]
  BY BudgetAssumption DEF IInv, TypeOK
\* Found stale, the row is of the month before the last.
<1>s. period < month => month = MaxMonth  BY <1>t
\* A call that leaves the row and goes nowhere the invariant looks at.
<1>q. ASSUME NEW c \in Calls, NEW p, p \notin {"rolling", "rolling_record", "refreshing"},
             Goto(c, p), ReadsClock(c) \/ UNCHANGED current, UNCHANGED rowVars
      PROVE  MonthInv'
  BY <1>q, <1>t DEF Goto, ReadsClock, rowVars, MonthInv
\* A rollover writes the last month.
<1>r. ASSUME NEW c \in Calls, RollsOver(c), UNCHANGED current, exists,
             \/ pc[c] = "rolling" /\ Goto(c, "refreshing")
             \/ pc[c] = "rolling_record" /\ Goto(c, "updating")
      PROVE  MonthInv'
  <2>1. current[c] = MaxMonth /\ period' = MaxMonth /\ exists'
    BY <1>r DEF MonthInv, RollsOver
  <2>2. \A d \in Calls : /\ pc'[d] \in {"rolling", "rolling_record"} => pc'[d] = pc[d]
                         /\ current'[d] = current[d] /\ current[d] <= MaxMonth
    BY <1>r, <1>t DEF Goto
  <2> QED BY <2>1, <2>2, <1>t DEF MonthInv
<1>d. ASSUME NEW c \in Calls, Decide(c), ReadsClock(c) \/ UNCHANGED current
      PROVE  MonthInv'
  <2>1. PICK p \in {"over_budget", "provider"} : Goto(c, p)  BY <1>d DEF Decide
  <2>2. UNCHANGED rowVars  BY <1>d DEF Decide
  <2> QED BY <1>d, <1>q, <2>1, <2>2
<1>1. ASSUME NEW c \in Calls, CheckFindsNoRow(c) PROVE MonthInv'
  BY <1>1, <1>q DEF CheckFindsNoRow
<1>2. ASSUME NEW c \in Calls, CheckFindsStaleRow(c) PROVE MonthInv'
  BY <1>2, <1>s, <1>t DEF CheckFindsStaleRow, Goto, ReadsClock, rowVars, MonthInv
<1>3. ASSUME NEW c \in Calls, CheckFindsRow(c) PROVE MonthInv'
  BY <1>3, <1>d DEF CheckFindsRow
<1>4. ASSUME NEW c \in Calls, CheckInserts(c) PROVE MonthInv'
  <2>1. CASE exists
    BY <1>4, <1>q, <2>1 DEF CheckInserts
  <2>2. CASE ~exists
    BY <1>4, <1>t, <2>2 DEF CheckInserts, Goto, MonthInv
  <2> QED BY <2>1, <2>2
<1>5. ASSUME NEW c \in Calls, CheckRollsOver(c) PROVE MonthInv'
  <2>1. exists  BY <1>5 DEF CheckRollsOver, IInv, SeenRow
  <2> QED BY <1>5, <1>r, <2>1 DEF CheckRollsOver
<1>6. ASSUME NEW c \in Calls, CheckRefreshes(c) PROVE MonthInv'
  BY <1>6, <1>d DEF CheckRefreshes
<1>7. ASSUME NEW c \in Calls,
             CheckFails(c) \/ ProviderAnswers(c) \/ ProviderFails(c) \/ RecordFails(c) \/ Dies(c)
      PROVE  MonthInv'
  BY <1>7, <1>q DEF CheckFails, ProviderAnswers, ProviderFails, RecordFails, Dies
<1>8. ASSUME NEW c \in Calls, RecordReads(c) PROVE MonthInv'
  BY <1>8, <1>s, <1>t DEF RecordReads, Goto, ReadsClock, rowVars, MonthInv
<1>9. ASSUME NEW c \in Calls, RecordRollsOver(c) PROVE MonthInv'
  <2>1. exists
    BY <1>9 DEF RecordRollsOver, IInv, SpendHasARow, InFlight, Recording
  <2> QED BY <1>9, <1>r, <2>1 DEF RecordRollsOver
<1>10. ASSUME NEW c \in Calls, RecordUpdates(c) PROVE MonthInv'
  BY <1>10, <1>t DEF RecordUpdates, Goto, MonthInv
<1>11. CASE MonthTurns \/ UNCHANGED vars
  BY <1>11 DEF MonthTurns, vars, rowVars, MonthInv
<1> QED BY <1>1, <1>2, <1>3, <1>4, <1>5, <1>6, <1>7, <1>8, <1>9, <1>10, <1>11
        DEF Next, CheckStep, RecordStep

\* A refusal is decided on a row of the month the call has read.
LEMMA RefusedNow ==
  ASSUME IInv, MonthInv, [Next]_vars, NEW c \in Calls,
         pc[c] # "over_budget", pc'[c] = "over_budget"
  PROVE  spent >= Ceiling /\ period >= current'[c]
<1>t. pc \in [Calls -> Checking \cup {"provider"} \cup Recording \cup Ended]
      /\ current \in [Calls -> 0..MaxMonth]
  BY DEF IInv, TypeOK
<1>1. CheckFindsRow(c) \/ CheckRefreshes(c)
  <2>1. ASSUME NEW d \in Calls, NEW p, Goto(d, p) PROVE d = c /\ p = "over_budget"
    BY <2>1, <1>t DEF Goto
  <2>2. ASSUME NEW d \in Calls, CheckStep(d) PROVE CheckFindsRow(c) \/ CheckRefreshes(c)
    <3>1. CASE CheckFindsNoRow(d) \/ CheckFindsStaleRow(d) \/ CheckRollsOver(d) \/ CheckFails(d)
      BY <3>1, <2>1 DEF CheckFindsNoRow, CheckFindsStaleRow, CheckRollsOver, CheckFails
    <3>2. CASE CheckInserts(d)
      BY <3>2, <2>1 DEF CheckInserts
    <3>3. CASE CheckFindsRow(d) \/ CheckRefreshes(d)
      <4>1. Decide(d)  BY <3>3 DEF CheckFindsRow, CheckRefreshes
      <4>2. d = c  BY <4>1, <2>1 DEF Decide
      <4> QED BY <3>3, <4>2
    <3> QED BY <2>2, <3>1, <3>2, <3>3 DEF CheckStep
  <2>3. ASSUME NEW d \in Calls, ProviderAnswers(d) \/ ProviderFails(d) \/ RecordStep(d) \/ Dies(d)
        PROVE  FALSE
    BY <2>3, <2>1 DEF ProviderAnswers, ProviderFails, RecordStep, RecordReads,
                      RecordRollsOver, RecordUpdates, RecordFails, Dies
  <2>4. ~(MonthTurns \/ UNCHANGED vars)  BY DEF MonthTurns, vars
  <2> QED BY <2>2, <2>3, <2>4 DEF Next
<1>2. Decide(c) => spent >= Ceiling  BY <1>t DEF Decide, Goto
<1>3. CASE CheckFindsRow(c)
  BY <1>2, <1>3, <1>t DEF CheckFindsRow, ReadsClock
<1>4. CASE CheckRefreshes(c)
  BY <1>2, <1>4 DEF CheckRefreshes, MonthInv
<1> QED BY <1>1, <1>3, <1>4

(* Over one turn of the month, "carrying spend across the period boundary" *)
(* refuses no call: assert_within_ceiling refuses for the spend of the     *)
(* month it has read.                                                      *)
THEOREM RefusalsAreCurrent ==
  ASSUME MaxMonth <= 1
  PROVE  Spec => RefusedForThisMonth
<1>1. Init => MonthInv  BY DEF Init, MonthInv
<1>2. IInv /\ MonthInv /\ [Next]_vars => MonthInv'  BY MonthStep
<1>3. IInv /\ MonthInv /\ [Next]_vars
        => [\A c \in Calls : pc[c] # "over_budget" /\ pc'[c] = "over_budget"
              => spent >= Ceiling /\ period >= current'[c]]_vars
  BY RefusedNow
<1> QED BY Invariance, <1>1, <1>2, <1>3, PTL DEF Spec, RefusedForThisMonth
=============================================================================
