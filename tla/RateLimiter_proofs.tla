------------------------- MODULE RateLimiter_proofs -------------------------
(***************************************************************************)
(* RateLimiter keeps its types, and its shared and its local windows, and  *)
(* it refuses and admits for no reason but those windows, for any          *)
(* requests, instances, buckets and limits.                                *)
(***************************************************************************)
EXTENDS RateLimiter, FiniteSetTheorems, TLAPS

\* What a step of the script leaves in shared is enough for the next one to
\* see every request the window still counts.
Recent(b) == {q \in counted[b] : now[q] + Window > latest[b]}

RecentIsShared == \A b \in Buckets : Recent(b) \subseteq shared[b]
CountedHasArrived == \A b \in Buckets : \A q \in counted[b] : pc[q] # "idle"

IInv == TypeOK /\ CountedHasArrived /\ RecentIsShared /\ SharedWindowHolds

-----------------------------------------------------------------------------
LEMMA VerdictType ==
  ASSUME NEW S, NEW r
  PROVE  Verdict(S, r) \in Hitting \cup Answers
BY DEF Verdict, Hitting, Answers

LEMMA HitType ==
  ASSUME NEW S \in SUBSET Requests, NEW r \in Requests
  PROVE  Hit(S, r) \in SUBSET Requests
BY DEF Hit, Live

\* The script keeps the types of what it writes.
LEMMA ScriptType ==
  ASSUME RateAssumption, TypeOK, NEW r \in Requests, ScriptRuns(r)
  PROVE  /\ shared' \in [Buckets -> SUBSET Requests]
         /\ latest' \in [Buckets -> 0..MaxTime]
         /\ counted' \in [Buckets -> SUBSET Requests]
<1> DEFINE B == Bucket(r)
<1>1. /\ shared' = [shared EXCEPT ![B] = Hit(shared[B], r)]
      /\ latest' = [latest EXCEPT ![B] = IF now[r] > latest[B] THEN now[r] ELSE latest[B]]
      /\ counted' = [counted EXCEPT ![B] = IF Full(shared[B], r) THEN counted[B]
                                                               ELSE counted[B] \cup {r}]
  BY DEF ScriptRuns
<1>2. B \in Buckets => Hit(shared[B], r) \in SUBSET Requests
  BY HitType DEF TypeOK
<1> HIDE DEF B
<1>3. shared' \in [Buckets -> SUBSET Requests]
  BY <1>1, <1>2 DEF TypeOK
<1>4. latest' \in [Buckets -> 0..MaxTime]
  BY <1>1 DEF TypeOK
<1>5. counted' \in [Buckets -> SUBSET Requests]
  BY <1>1 DEF TypeOK
<1> QED BY <1>3, <1>4, <1>5

LEMMA LocalType ==
  ASSUME RateAssumption, TypeOK, NEW r \in Requests, LocalHit(r)
  PROVE  /\ local' \in [Instances -> [Buckets -> SUBSET Requests]]
         /\ pc' \in [Requests -> {"idle"} \cup Hitting \cup Answers]
<1> DEFINE i == Instance[r]
           B == Bucket(r)
<1>1. /\ local' = [local EXCEPT ![i][B] = Hit(local[i][B], r)]
      /\ pc' = [pc EXCEPT ![r] = Verdict(local[i][B], r)]
  BY DEF LocalHit
<1>2. i \in Instances
  BY DEF RateAssumption
<1>3. B \in Buckets => Hit(local[i][B], r) \in SUBSET Requests
  BY <1>2, HitType DEF TypeOK
<1>4. Verdict(local[i][B], r) \in Hitting \cup Answers
  BY VerdictType
<1> HIDE DEF i, B
<1>5. local' \in [Instances -> [Buckets -> SUBSET Requests]]
  <2>1. [local[i] EXCEPT ![B] = Hit(local[i][B], r)] \in [Buckets -> SUBSET Requests]
    <3>1. local[i] \in [Buckets -> SUBSET Requests]
      BY <1>2 DEF TypeOK
    <3>2. \A v : (B \in Buckets => v \in SUBSET Requests)
                  => [local[i] EXCEPT ![B] = v] \in [Buckets -> SUBSET Requests]
      BY <3>1
    <3> QED BY <1>3, <3>2
  <2>2. local' = [local EXCEPT ![i] = [local[i] EXCEPT ![B] = Hit(local[i][B], r)]]
    BY <1>1, <1>2 DEF TypeOK
  <2> QED BY <1>2, <2>1, <2>2 DEF TypeOK
<1>6. pc' \in [Requests -> {"idle"} \cup Hitting \cup Answers]
  BY <1>1, <1>4 DEF TypeOK
<1> QED BY <1>5, <1>6

-----------------------------------------------------------------------------
LEMMA TypeInit == RateAssumption /\ Init => TypeOK
BY DEF RateAssumption, Init, TypeOK, Connections, Hitting, Answers

LEMMA TypeNext ==
  ASSUME RateAssumption, TypeOK, [Next]_vars
  PROVE  TypeOK'
<1> USE DEF TypeOK
<1>1. ASSUME NEW r \in Requests, Arrives(r) PROVE TypeOK'
  BY <1>1 DEF Arrives, redisVars, historyVars, Hitting
<1>2. ASSUME NEW r \in Requests, Connects(r) PROVE TypeOK'
  <2>1. Instance[r] \in Instances
    BY DEF RateAssumption
  <2> QED BY <1>2, <2>1 DEF Connects, redisVars, Connections
<1>3. ASSUME NEW r \in Requests, HitsShared(r) PROVE TypeOK'
  <2>1. Verdict(shared[Bucket(r)], r) \in Hitting \cup Answers
    BY VerdictType
  <2>2. pc' \in [Requests -> {"idle"} \cup Hitting \cup Answers]
    BY <1>3, <2>1 DEF HitsShared
  <2>3. ScriptRuns(r)
    BY <1>3 DEF HitsShared
  <2> QED BY <1>3, <2>2, <2>3, ScriptType DEF HitsShared, redisVars
<1>4. ASSUME NEW r \in Requests, FailsOver(r) PROVE TypeOK'
  <2>1. conn' \in [Instances -> Connections]
    BY <1>4 DEF FailsOver, Connections
  <2>2. LocalHit(r)
    BY <1>4 DEF FailsOver
  <2>3. /\ shared' \in [Buckets -> SUBSET Requests]
        /\ latest' \in [Buckets -> 0..MaxTime]
        /\ counted' \in [Buckets -> SUBSET Requests]
    <3>1. CASE ScriptRuns(r)
      BY <3>1, ScriptType
    <3>2. CASE UNCHANGED <<shared, latest, counted>>
      BY <3>2
    <3> QED BY <1>4, <3>1, <3>2 DEF FailsOver
  <2>4. /\ local' \in [Instances -> [Buckets -> SUBSET Requests]]
        /\ pc' \in [Requests -> {"idle"} \cup Hitting \cup Answers]
    BY <2>2, LocalType
  <2>5. UNCHANGED <<now, clock, redisUp, outages, wasUp>>
    BY <1>4 DEF FailsOver, redisVars
  <2> QED BY <2>1, <2>3, <2>4, <2>5
<1>5. ASSUME NEW r \in Requests, HitsLocal(r) PROVE TypeOK'
  <2>1. LocalHit(r)
    BY <1>5 DEF HitsLocal
  <2> QED BY <1>5, <2>1, LocalType DEF HitsLocal, redisVars, historyVars
<1>6. ASSUME NEW i \in Instances, Restarts(i) PROVE TypeOK'
  BY <1>6 DEF Restarts, redisVars, Connections, Answers
<1>7. ASSUME RedisFails PROVE TypeOK'
  <2>1. redisUp' \in BOOLEAN
    BY <1>7, Zenon DEF RedisFails
  <2> QED BY <1>7, <2>1 DEF RedisFails, RateAssumption, historyVars
<1>8. ASSUME RedisReturns PROVE TypeOK'
  <2>1. redisUp' \in BOOLEAN
    BY <1>8, Zenon DEF RedisReturns
  <2> QED BY <1>8, <2>1 DEF RedisReturns, historyVars
<1>9. ASSUME Tick PROVE TypeOK'
  BY <1>9 DEF Tick, RateAssumption, redisVars, historyVars
<1>10. ASSUME UNCHANGED vars PROVE TypeOK'
  BY <1>10 DEF vars, redisVars, historyVars
<1> QED BY <1>1, <1>2, <1>3, <1>4, <1>5, <1>6, <1>7, <1>8, <1>9, <1>10 DEF Next, Dispatch

\* The state of the limiter keeps its types, on any number of instances.
THEOREM TypeCorrect == Spec => []TypeOK
<1>1. RateAssumption /\ Init => TypeOK
  BY TypeInit
<1>2. RateAssumption /\ TypeOK /\ [Next]_vars => TypeOK'
  BY TypeNext
<1> QED BY <1>1, <1>2, RateAssumption, PTL DEF Spec

-----------------------------------------------------------------------------
(* The shared window. *)

LEMMA SubsetsFinite ==
  ASSUME RateAssumption, NEW S \in SUBSET Requests
  PROVE  IsFiniteSet(S) /\ Cardinality(S) \in Nat
BY FS_Subset, FS_CardinalityType DEF RateAssumption

LEMMA OneMore ==
  ASSUME NEW S, NEW x, IsFiniteSet(S), Cardinality(S) \in Nat
  PROVE  IsFiniteSet(S \cup {x}) /\ Cardinality(S \cup {x}) <= Cardinality(S) + 1
<1>1. /\ IsFiniteSet(S \cup {x})
      /\ Cardinality(S \cup {x}) = IF x \in S THEN Cardinality(S) ELSE Cardinality(S) + 1
  BY FS_AddElement
<1> QED BY <1>1

\* A smaller window is within whatever limit the larger is.
LEMMA SmallerIsWithin ==
  ASSUME RateAssumption, NEW b, NEW m \in Nat, NEW n \in Nat, m <= n, AtMostLimit(n, b)
  PROVE  AtMostLimit(m, b)
<1>1. PICK r \in Requests : \/ IpBucket[r] = b /\ n <= PathLimit[r]
                            \/ WsBucket[r] = b /\ n <= WsLimit
  BY DEF AtMostLimit
<1>2. PathLimit[r] \in Nat /\ WsLimit \in Nat
  BY DEF RateAssumption
<1>3. \/ IpBucket[r] = b /\ m <= PathLimit[r]
      \/ WsBucket[r] = b /\ m <= WsLimit
  BY <1>1, <1>2
<1> QED BY <1>3 DEF AtMostLimit

\* What the script leaves of the window it ran on: after it, everything still
\* recent is in shared, and is no more than the limit of the request.
LEMMA ScriptKeepsWindow ==
  ASSUME RateAssumption, IInv, NEW r \in Requests, pc[r] \in Hitting,
         ScriptRuns(r), now' = now, NEW b \in Buckets
  PROVE  /\ Recent(b)' \subseteq shared'[b]
         /\ Recent(b)' # {} => AtMostLimit(Cardinality(Recent(b)'), b)
<1> DEFINE t == now[r]
           old == Live(shared[b], t)
<1>1. /\ now \in [Requests -> 0..MaxTime] /\ Window \in Nat /\ MaxTime \in Nat
      /\ shared[b] \in SUBSET Requests /\ counted[b] \in SUBSET Requests
      /\ latest[b] \in 0..MaxTime /\ shared \in [Buckets -> SUBSET Requests]
      /\ latest \in [Buckets -> 0..MaxTime] /\ counted \in [Buckets -> SUBSET Requests]
      /\ t \in 0..MaxTime
  BY DEF IInv, TypeOK, RateAssumption
<1>2. Recent(b) \subseteq shared[b]
  BY DEF IInv, RecentIsShared
<1>3. Recent(b) # {} => AtMostLimit(Cardinality(Recent(b)), b)
  BY DEF IInv, SharedWindowHolds, Recent
<1>4. CASE b # Bucket(r)
  <2>1. /\ shared'[b] = shared[b] /\ latest'[b] = latest[b] /\ counted'[b] = counted[b]
    BY <1>1, <1>4 DEF ScriptRuns
  <2>2. Recent(b)' = Recent(b)
    BY <2>1 DEF Recent
  <2> QED BY <1>2, <1>3, <2>1, <2>2
<1>5. CASE b = Bucket(r)
  <2>1. /\ shared'[b] = Hit(shared[b], r)
        /\ latest'[b] = IF t > latest[b] THEN t ELSE latest[b]
        /\ counted'[b] = IF Full(shared[b], r) THEN counted[b] ELSE counted[b] \cup {r}
    BY <1>1, <1>5 DEF ScriptRuns
  <2>2. latest'[b] \in Int /\ latest'[b] >= t /\ latest'[b] >= latest[b]
    BY <1>1, <2>1
  <2>3. \A q \in Recent(b)' : q \in counted'[b] /\ now[q] + Window > latest'[b]
    BY DEF Recent
  <2>4. \A q \in Recent(b)' : q \in counted[b] => q \in Recent(b) /\ q \in old
    <3> SUFFICES ASSUME NEW q \in Recent(b)', q \in counted[b]
                 PROVE  q \in Recent(b) /\ q \in old
      OBVIOUS
    <3>1. now[q] \in 0..MaxTime
      BY <1>1
    <3>2. now[q] + Window > latest[b] /\ now[q] > t - Window
      BY <1>1, <2>2, <2>3, <3>1
    <3> QED BY <1>2, <3>2 DEF Recent, Live
  <2>5. old \in SUBSET Requests
    BY <1>1 DEF Live
  <2>6. IsFiniteSet(old) /\ Cardinality(old) \in Nat
    BY <2>5, SubsetsFinite
  <2>7. CASE Full(shared[b], r)
    <3>1. shared'[b] = old /\ counted'[b] = counted[b]
      BY <2>1, <2>7 DEF Hit
    <3>2. Recent(b)' \subseteq Recent(b) /\ Recent(b)' \subseteq old
      BY <2>3, <2>4, <3>1
    <3>3. Recent(b) \in SUBSET Requests
      BY <1>1 DEF Recent
    <3>4. IsFiniteSet(Recent(b)) /\ Cardinality(Recent(b)) \in Nat
      BY <3>3, SubsetsFinite
    <3>5. Cardinality(Recent(b)') \in Nat /\ Cardinality(Recent(b)') <= Cardinality(Recent(b))
      BY <3>2, <3>4, FS_Subset, FS_CardinalityType
    <3> QED BY <1>3, <3>1, <3>2, <3>4, <3>5, SmallerIsWithin
  <2>8. CASE ~Full(shared[b], r)
    <3>1. shared'[b] = old \cup {r} /\ counted'[b] = counted[b] \cup {r}
      BY <2>1, <2>8 DEF Hit
    <3>2. Recent(b)' \subseteq old \cup {r}
      BY <2>3, <2>4, <3>1
    <3>3. Limit(r) \in Nat
      BY DEF Limit, RateAssumption
    <3>4. Cardinality(old) < Limit(r)
      BY <2>6, <2>8, <3>3 DEF Full
    <3>5. IsFiniteSet(old \cup {r}) /\ Cardinality(old \cup {r}) <= Cardinality(old) + 1
      BY <2>6, OneMore
    <3>6. /\ Cardinality(Recent(b)') \in Nat
          /\ Cardinality(Recent(b)') <= Cardinality(old \cup {r})
          /\ Cardinality(old \cup {r}) \in Nat
      BY <3>2, <3>5, FS_Subset, FS_CardinalityType
    <3>7. Cardinality(Recent(b)') <= Limit(r)
      BY <2>6, <3>3, <3>4, <3>5, <3>6
    <3>8. \/ IpBucket[r] = b /\ Limit(r) = PathLimit[r]
          \/ WsBucket[r] = b /\ Limit(r) = WsLimit
      BY <1>5 DEF Bucket, Limit
    <3>9. AtMostLimit(Limit(r), b)
      BY <3>3, <3>8 DEF AtMostLimit
    <3> QED BY <3>1, <3>2, <3>3, <3>6, <3>7, <3>9, SmallerIsWithin
  <2> QED BY <2>7, <2>8
<1> QED BY <1>4, <1>5

\* A step that leaves Redis alone, and the times of the counted, keeps it.
LEMMA WindowStands ==
  ASSUME RateAssumption, IInv, UNCHANGED <<shared, latest, counted>>,
         \A b \in Buckets : \A q \in counted[b] : now'[q] = now[q]
  PROVE  RecentIsShared' /\ SharedWindowHolds'
<1>1. \A b \in Buckets : Recent(b)' = Recent(b)
  BY DEF Recent
<1> QED BY <1>1 DEF IInv, RecentIsShared, SharedWindowHolds, Recent

LEMMA ScriptKeeps ==
  ASSUME RateAssumption, IInv, NEW r \in Requests, pc[r] \in Hitting,
         ScriptRuns(r), now' = now
  PROVE  RecentIsShared' /\ SharedWindowHolds'
<1>1. \A b \in Buckets : /\ Recent(b)' \subseteq shared'[b]
                         /\ Recent(b)' # {} => AtMostLimit(Cardinality(Recent(b)'), b)
  BY ScriptKeepsWindow
<1> QED BY <1>1 DEF RecentIsShared, SharedWindowHolds, Recent, AtMostLimit

\* A request that has left its idle state does not return to it, so what the
\* script counts keeps the time it was counted with.
LEMMA ArrivedStays ==
  ASSUME RateAssumption, IInv, [Next]_vars
  PROVE  /\ CountedHasArrived'
         /\ \A b \in Buckets : \A q \in counted[b] : now'[q] = now[q]
<1> USE DEF IInv, TypeOK, CountedHasArrived
<1>1. \A q \in Requests : pc[q] # "idle" => pc'[q] # "idle" /\ now'[q] = now[q]
  <2>1. ASSUME NEW r \in Requests, Dispatch(r)
        PROVE  \A q \in Requests : pc[q] # "idle" => pc'[q] # "idle" /\ now'[q] = now[q]
    <3>1. \A S : Verdict(S, r) # "idle"
      BY DEF Verdict
    <3> QED BY <2>1, <3>1
            DEF Dispatch, Arrives, Connects, HitsShared, FailsOver, HitsLocal, LocalHit
  <2>2. ASSUME NEW i \in Instances, Restarts(i)
        PROVE  \A q \in Requests : pc[q] # "idle" => pc'[q] # "idle" /\ now'[q] = now[q]
    BY <2>2 DEF Restarts
  <2>3. CASE RedisFails \/ RedisReturns \/ Tick \/ UNCHANGED vars
    BY <2>3 DEF RedisFails, RedisReturns, Tick, vars
  <2> QED BY <2>1, <2>2, <2>3 DEF Next
<1>2. \A b \in Buckets : \A q \in counted'[b] :
        q \in counted[b] \/ (q \in Requests /\ pc[q] # "idle")
  <2>1. ASSUME NEW r \in Requests, pc[r] \in Hitting, ScriptRuns(r)
        PROVE  \A b \in Buckets : \A q \in counted'[b] : q \in counted[b] \/ q = r
    BY <2>1 DEF ScriptRuns
  <2>2. "idle" \notin Hitting
    BY DEF Hitting
  <2>3. \/ counted' = counted
        \/ \E r \in Requests : pc[r] \in Hitting /\ ScriptRuns(r)
    BY DEF Next, Dispatch, Arrives, Connects, HitsShared, FailsOver, HitsLocal, Restarts,
           RedisFails, RedisReturns, Tick, vars, historyVars
  <2> QED BY <2>1, <2>2, <2>3
<1>3. \A b \in Buckets : counted[b] \subseteq Requests
  OBVIOUS
<1> QED BY <1>1, <1>2, <1>3

LEMMA WindowNext ==
  ASSUME RateAssumption, IInv, [Next]_vars
  PROVE  RecentIsShared' /\ SharedWindowHolds'
<1>1. \A b \in Buckets : \A q \in counted[b] : now'[q] = now[q]
  BY ArrivedStays
<1>2. CASE UNCHANGED <<shared, latest, counted>>
  BY <1>1, <1>2, WindowStands
<1>3. \/ UNCHANGED <<shared, latest, counted>>
      \/ \E r \in Requests : pc[r] \in Hitting /\ ScriptRuns(r) /\ now' = now
  BY DEF Next, Dispatch, Arrives, Connects, HitsShared, FailsOver, HitsLocal, Restarts,
         RedisFails, RedisReturns, Tick, vars, historyVars
<1>4. ASSUME NEW r \in Requests, pc[r] \in Hitting, ScriptRuns(r), now' = now
      PROVE  RecentIsShared' /\ SharedWindowHolds'
  BY <1>4, ScriptKeeps
<1> QED BY <1>2, <1>3, <1>4

\* Across any number of instances, restarts and outages of Redis, no bucket
\* has more requests counted in a window than the limit.
THEOREM SharedLimitHolds == Spec => []SharedWindowHolds
<1>1. RateAssumption /\ Init => IInv
  <2>1. RateAssumption /\ Init => TypeOK
    BY TypeInit
  <2>2. Init => CountedHasArrived /\ RecentIsShared /\ SharedWindowHolds
    BY DEF Init, CountedHasArrived, RecentIsShared, Recent, SharedWindowHolds
  <2> QED BY <2>1, <2>2 DEF IInv
<1>2. RateAssumption /\ IInv /\ [Next]_vars => IInv'
  <2>1. RateAssumption /\ IInv /\ [Next]_vars => TypeOK'
    BY TypeNext DEF IInv
  <2> QED BY <2>1, ArrivedStays, WindowNext DEF IInv
<1>3. IInv => SharedWindowHolds
  BY DEF IInv
<1> QED BY <1>1, <1>2, <1>3, RateAssumption, PTL DEF Spec

-----------------------------------------------------------------------------
(* The local windows. *)

LEMMA LocalHitKeeps ==
  ASSUME RateAssumption, TypeOK, LocalWindowHolds, NEW r \in Requests, pc[r] \in Hitting,
         LocalHit(r), NEW i \in Instances, NEW b \in Buckets, local'[i][b] # {}
  PROVE  AtMostLimit(Cardinality(local'[i][b]), b)
<1> DEFINE old == Live(local[i][b], now[r])
<1>1. local[i][b] \in SUBSET Requests /\ local[i] \in [Buckets -> SUBSET Requests]
  BY DEF TypeOK
<1>2. local[i][b] # {} => AtMostLimit(Cardinality(local[i][b]), b)
  BY DEF LocalWindowHolds
<1>3. CASE local'[i][b] = local[i][b]
  BY <1>2, <1>3
<1>4. CASE local'[i][b] # local[i][b]
  <2>1. i = Instance[r] /\ b = Bucket(r) /\ local'[i][b] = Hit(local[i][b], r)
    BY <1>1, <1>4 DEF LocalHit, TypeOK, RateAssumption
  <2>2. old \subseteq local[i][b] /\ old \in SUBSET Requests
    BY <1>1 DEF Live
  <2>3. /\ IsFiniteSet(old) /\ Cardinality(old) \in Nat
        /\ IsFiniteSet(local[i][b]) /\ Cardinality(local[i][b]) \in Nat
    BY <1>1, <2>2, SubsetsFinite
  <2>4. CASE Full(local[i][b], r)
    <3>1. local'[i][b] = old
      BY <2>1, <2>4 DEF Hit
    <3>2. Cardinality(old) <= Cardinality(local[i][b])
      BY <2>2, <2>3, FS_Subset
    <3> QED BY <1>2, <2>2, <2>3, <3>1, <3>2, SmallerIsWithin
  <2>5. CASE ~Full(local[i][b], r)
    <3>1. local'[i][b] = old \cup {r}
      BY <2>1, <2>5 DEF Hit
    <3>2. Limit(r) \in Nat
      BY DEF Limit, RateAssumption
    <3>3. Cardinality(old) < Limit(r)
      BY <2>3, <2>5, <3>2 DEF Full
    <3>4. IsFiniteSet(old \cup {r}) /\ Cardinality(old \cup {r}) <= Cardinality(old) + 1
      BY <2>3, OneMore
    <3>5. Cardinality(old \cup {r}) \in Nat
      BY <3>4, FS_CardinalityType
    <3>6. Cardinality(old \cup {r}) <= Limit(r)
      BY <2>3, <3>2, <3>3, <3>4, <3>5
    <3>7. \/ IpBucket[r] = b /\ Limit(r) = PathLimit[r]
          \/ WsBucket[r] = b /\ Limit(r) = WsLimit
      BY <2>1 DEF Bucket, Limit
    <3>8. AtMostLimit(Limit(r), b)
      BY <3>2, <3>7 DEF AtMostLimit
    <3> QED BY <3>1, <3>2, <3>5, <3>6, <3>8, SmallerIsWithin
  <2> QED BY <2>4, <2>5
<1> QED BY <1>3, <1>4

LEMMA LocalNext ==
  ASSUME RateAssumption, TypeOK, LocalWindowHolds, [Next]_vars
  PROVE  LocalWindowHolds'
<1>1. CASE local' = local
  BY <1>1 DEF LocalWindowHolds, AtMostLimit
<1>2. ASSUME NEW r \in Requests, pc[r] \in Hitting, LocalHit(r)
      PROVE  LocalWindowHolds'
  <2>1. \A i \in Instances : \A b \in Buckets :
          local'[i][b] # {} => AtMostLimit(Cardinality(local'[i][b]), b)
    BY <1>2, LocalHitKeeps
  <2> QED BY <2>1 DEF LocalWindowHolds, AtMostLimit
<1>3. ASSUME NEW i \in Instances, Restarts(i)
      PROVE  LocalWindowHolds'
  <2>1. \A j \in Instances : \A b \in Buckets : local'[j][b] = {} \/ local'[j][b] = local[j][b]
    BY <1>3 DEF Restarts, TypeOK
  <2> QED BY <2>1 DEF LocalWindowHolds, AtMostLimit
<1>4. \/ local' = local
      \/ \E r \in Requests : pc[r] \in Hitting /\ LocalHit(r)
      \/ \E i \in Instances : Restarts(i)
  BY DEF Next, Dispatch, Arrives, Connects, HitsShared, FailsOver, HitsLocal,
         RedisFails, RedisReturns, Tick, vars
<1> QED BY <1>1, <1>2, <1>3, <1>4

\* Without Redis no instance lets more than the limit into a window.
THEOREM LocalLimitHolds == Spec => []LocalWindowHolds
<1>1. RateAssumption /\ Init => TypeOK /\ LocalWindowHolds
  <2>1. Init => LocalWindowHolds
    BY DEF Init, LocalWindowHolds
  <2> QED BY <2>1, TypeInit
<1>2. RateAssumption /\ TypeOK /\ LocalWindowHolds /\ [Next]_vars
        => TypeOK' /\ LocalWindowHolds'
  BY TypeNext, LocalNext
<1> QED BY <1>1, <1>2, RateAssumption, PTL DEF Spec

-----------------------------------------------------------------------------
(* Answers.  A request between its two hits has a workspace.               *)

HasBucket == \A r \in Requests : pc[r] = "ws" => WsBucket[r] # NoBucket

LEMMA HasBucketNext ==
  ASSUME RateAssumption, TypeOK, HasBucket, [Next]_vars
  PROVE  HasBucket'
<1>t. pc \in [Requests -> {"idle"} \cup Hitting \cup Answers]  BY DEF TypeOK
<1>1. ASSUME NEW r \in Requests, NEW S, pc' = [pc EXCEPT ![r] = Verdict(S, r)]
      PROVE  HasBucket'
  BY <1>1, <1>t DEF HasBucket, Verdict
<1>2. ASSUME NEW r \in Requests, Dispatch(r) PROVE HasBucket'
  <2>1. CASE Arrives(r) \/ Connects(r)
    BY <2>1, <1>t DEF Arrives, Connects, HasBucket
  <2>2. CASE HitsShared(r) \/ FailsOver(r) \/ HitsLocal(r)
    BY <2>2, <1>1 DEF HitsShared, FailsOver, HitsLocal, LocalHit
  <2> QED BY <1>2, <2>1, <2>2 DEF Dispatch
<1>3. ASSUME NEW i \in Instances, Restarts(i) PROVE HasBucket'
  BY <1>3 DEF Restarts, HasBucket
<1>4. CASE RedisFails \/ RedisReturns \/ Tick \/ UNCHANGED vars
  BY <1>4 DEF RedisFails, RedisReturns, Tick, vars, HasBucket
<1> QED BY <1>2, <1>3, <1>4 DEF Next

\* A request that is answered, or goes on to its workspace's window, has run the
\* script on the window in Redis, or made the hit on its instance's.
LEMMA AnsweredByHit ==
  ASSUME TypeOK, [Next]_vars, NEW r \in Requests, pc[r] \in Hitting,
         pc'[r] \in {"refused", "ws", "admitted"} \ {pc[r]}
  PROVE  \/ ScriptRuns(r) /\ pc'[r] = Verdict(shared[Bucket(r)], r)
         \/ LocalHit(r)
<1>t. pc \in [Requests -> {"idle"} \cup Hitting \cup Answers]  BY DEF TypeOK
<1>1. ASSUME NEW q \in Requests, Dispatch(q)
      PROVE  q = r /\ (HitsShared(q) \/ FailsOver(q) \/ HitsLocal(q))
  <2>1. CASE Arrives(q)
    BY <2>1, <1>t DEF Arrives, Hitting
  <2>2. CASE Connects(q)
    BY <2>2 DEF Connects
  <2>3. CASE HitsShared(q) \/ FailsOver(q) \/ HitsLocal(q)
    BY <2>3, <1>t DEF HitsShared, FailsOver, HitsLocal, LocalHit
  <2> QED BY <1>1, <2>1, <2>2, <2>3 DEF Dispatch
<1>2. ASSUME NEW i \in Instances, Restarts(i) PROVE FALSE
  BY <1>2 DEF Restarts
<1>3. ~(RedisFails \/ RedisReturns \/ Tick \/ UNCHANGED vars)
  BY DEF RedisFails, RedisReturns, Tick, vars
<1>4. HitsShared(r) \/ FailsOver(r) \/ HitsLocal(r)
  BY <1>1, <1>2, <1>3 DEF Next
<1> QED BY <1>4, <1>t DEF HitsShared, FailsOver, HitsLocal

\* What is live at a request's own time is what it counts as recent.
LEMMA LiveIsRecent ==
  ASSUME RateAssumption, TypeOK, NEW S \in SUBSET Requests, NEW r \in Requests
  PROVE  Live(S, now[r]) = {q \in S : now[q] + Window > now[r]}
<1>1. \A q \in S : now[q] \in Int /\ now[r] \in Int  BY DEF TypeOK
<1>2. Window \in Int  BY DEF RateAssumption
<1>3. \A q \in S : now[q] > now[r] - Window <=> now[q] + Window > now[r]
  BY <1>1, <1>2
<1> QED BY <1>3 DEF Live

\* The bucket of a hit is one of the buckets, and its windows hold requests.
LEMMA HitsABucket ==
  ASSUME RateAssumption, TypeOK, HasBucket, NEW r \in Requests, pc[r] \in Hitting
  PROVE  /\ Bucket(r) \in Buckets /\ Instance[r] \in Instances
         /\ shared[Bucket(r)] \in SUBSET Requests
         /\ local[Instance[r]] \in [Buckets -> SUBSET Requests]
<1>1. Bucket(r) \in Buckets /\ Instance[r] \in Instances
  BY DEF Bucket, HasBucket, Hitting, RateAssumption
<1> QED BY <1>1 DEF TypeOK

LEMMA RefusalIsFull ==
  ASSUME RateAssumption, TypeOK, HasBucket, [Next]_vars,
         NEW r \in Requests, pc[r] \in Hitting, pc'[r] = "refused"
  PROVE  \E S \in {shared[Bucket(r)], local[Instance[r]][Bucket(r)]} :
           Cardinality({q \in S : now[q] + Window > now[r]}) >= Limit(r)
<1>1. pc'[r] \in {"refused", "ws", "admitted"} \ {pc[r]}  BY DEF Hitting
<1>2. PICK S \in {shared[Bucket(r)], local[Instance[r]][Bucket(r)]} : pc'[r] = Verdict(S, r)
  <2>1. LocalHit(r) => pc'[r] = Verdict(local[Instance[r]][Bucket(r)], r)
    BY DEF LocalHit, TypeOK
  <2> QED BY <1>1, <2>1, AnsweredByHit
<1>3. Full(S, r)  BY <1>2 DEF Verdict
<1>4. S \in SUBSET Requests  BY <1>2, HitsABucket
<1>5. Live(S, now[r]) = {q \in S : now[q] + Window > now[r]}  BY <1>4, LiveIsRecent
<1> QED BY <1>2, <1>3, <1>5 DEF Full

LEMMA AdmissionIsCounted ==
  ASSUME RateAssumption, TypeOK, HasBucket, [Next]_vars,
         NEW r \in Requests, pc[r] \in Hitting, pc'[r] \in {"ws", "admitted"} \ {pc[r]}
  PROVE  r \in shared'[Bucket(r)] \cup local'[Instance[r]][Bucket(r)]
<1>b. /\ Bucket(r) \in Buckets /\ Instance[r] \in Instances
      /\ local[Instance[r]] \in [Buckets -> SUBSET Requests]
  BY HitsABucket
<1>1. \A S : Verdict(S, r) \in {"ws", "admitted"} => r \in Hit(S, r)
  BY DEF Verdict, Hit
<1>2. CASE ScriptRuns(r) /\ pc'[r] = Verdict(shared[Bucket(r)], r)
  <2>1. shared'[Bucket(r)] = Hit(shared[Bucket(r)], r)
    BY <1>2, <1>b DEF ScriptRuns, TypeOK
  <2> QED BY <1>1, <1>2, <2>1
<1>3. CASE LocalHit(r)
  <2>1. /\ pc'[r] = Verdict(local[Instance[r]][Bucket(r)], r)
        /\ local'[Instance[r]][Bucket(r)] = Hit(local[Instance[r]][Bucket(r)], r)
    BY <1>3, <1>b DEF LocalHit, TypeOK
  <2> QED BY <1>1, <2>1
<1> QED BY <1>2, <1>3, AnsweredByHit

LEMMA HasBucketAlways == Spec => [](TypeOK /\ HasBucket)
<1>1. RateAssumption /\ Init => TypeOK /\ HasBucket
  <2>1. Init => HasBucket  BY DEF Init, HasBucket
  <2> QED BY <2>1, TypeInit
<1>2. RateAssumption /\ TypeOK /\ HasBucket /\ [Next]_vars => TypeOK' /\ HasBucket'
  BY TypeNext, HasBucketNext
<1> QED BY <1>1, <1>2, RateAssumption, PTL DEF Spec

\* It "fails open": a refusal comes of a window that held its limit, in Redis or
\* in the memory of the instance, and of nothing that went wrong.
THEOREM FailsOpen == Spec => RefusedOnlyWhenFull
<1>1. RateAssumption /\ TypeOK /\ HasBucket /\ [Next]_vars
        => [\A r \in Requests : pc[r] \in Hitting /\ pc'[r] = "refused" =>
              \E S \in {shared[Bucket(r)], local[Instance[r]][Bucket(r)]} :
                Cardinality({q \in S : now[q] + Window > now[r]}) >= Limit(r)]_vars
  BY RefusalIsFull
<1> QED BY <1>1, HasBucketAlways, RateAssumption, PTL DEF Spec, RefusedOnlyWhenFull

\* Degraded is not unlimited: whatever fails, a request that gets past a bucket
\* is counted in it, in Redis or in the memory of the instance.
THEOREM AdmissionsCount == Spec => AdmittedIsCounted
<1>1. RateAssumption /\ TypeOK /\ HasBucket /\ [Next]_vars
        => [\A r \in Requests :
              pc[r] \in Hitting /\ pc'[r] \in {"ws", "admitted"} \ {pc[r]} =>
                r \in shared'[Bucket(r)] \cup local'[Instance[r]][Bucket(r)]]_vars
  BY AdmissionIsCounted
<1> QED BY <1>1, HasBucketAlways, RateAssumption, PTL DEF Spec, AdmittedIsCounted
=============================================================================
