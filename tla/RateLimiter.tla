---------------------------- MODULE RateLimiter -----------------------------
(***************************************************************************)
(* The request rate limiter, middleware/rate_limiter.py, on several        *)
(* instances: a sliding window per bucket in Redis, and a window of its    *)
(* own in each instance for when Redis does not answer.                    *)
(*                                                                         *)
(* dispatch reads the clock and makes its hits without awaiting, so one    *)
(* instance works on one request at a time; the Redis script is atomic;    *)
(* everything else interleaves.  A request stands for its own uuid, and    *)
(* now[r] is its score.  The sweep of the local windows and the expiry of  *)
(* Redis keys drop only what the next hit would prune, and are left out.   *)
(***************************************************************************)
EXTENDS Integers, FiniteSets

CONSTANTS
  Requests,
  Instances,
  Instance,    \* Instance[r]: the instance the load balancer sends r to
  Buckets,     \* bucket keys, those of scope "ip" and of scope "ws"
  IpBucket,    \* IpBucket[r]: the client's bucket
  WsBucket,    \* WsBucket[r]: the workspace's bucket, or NoBucket
  NoBucket,
  PathLimit,   \* PathLimit[r]: the limit of r's path
  WsLimit,     \* workspace_limit
  Window,      \* window_seconds, the same for every path
  MaxTime,     \* bound on the clock
  MaxOutages   \* bound on the outages of Redis

ASSUME RateAssumption ==
  /\ IsFiniteSet(Requests)
  /\ Instance \in [Requests -> Instances]
  /\ NoBucket \notin Buckets
  /\ IpBucket \in [Requests -> Buckets]
  /\ WsBucket \in [Requests -> Buckets \cup {NoBucket}]
  /\ \A q, r \in Requests : IpBucket[q] # WsBucket[r]
  /\ PathLimit \in [Requests -> Nat]
  /\ WsLimit \in Nat
  /\ Window \in Nat \ {0}
  /\ MaxTime \in Nat
  /\ MaxOutages \in Nat

VARIABLES
  pc,        \* pc[r]: r's next hit, or its answer
  now,       \* now[r]: time.time() when r's dispatch began
  clock,
  redisUp,   \* does Redis answer within its timeout?
  outages,
  conn,      \* conn[i]: _redis and _redis_ready
  shared,    \* shared[b]: the sorted set of bucket b in Redis
  local,     \* local[i][b]: the window of bucket b in instance i's memory
  latest,    \* history: latest[b], the latest time the script ran with on b
  counted,   \* history: counted[b], every request the script counted in b
  wasUp      \* history: instances that have been connected since they started

redisVars == <<redisUp, outages>>
historyVars == <<latest, counted, wasUp>>
vars == <<pc, now, clock, redisVars, conn, shared, local, historyVars>>

Hitting == {"ip", "ws"}
Answers == {"admitted", "refused", "lost"}

\* unknown: ~_redis_ready; up: a client; pinned: _redis_ready, and no client.
Connections == {"unknown", "up", "pinned"}

(* Windows hold requests, times are times the clock has shown, and a       *)
(* request is idle, making a hit, or answered.                             *)
TypeOK ==
  /\ pc \in [Requests -> {"idle"} \cup Hitting \cup Answers]
  /\ now \in [Requests -> 0..MaxTime]
  /\ clock \in 0..MaxTime
  /\ redisUp \in BOOLEAN
  /\ outages \in 0..MaxOutages
  /\ conn \in [Instances -> Connections]
  /\ shared \in [Buckets -> SUBSET Requests]
  /\ local \in [Instances -> [Buckets -> SUBSET Requests]]
  /\ latest \in [Buckets -> 0..MaxTime]
  /\ counted \in [Buckets -> SUBSET Requests]
  /\ wasUp \in SUBSET Instances

Init ==
  /\ pc = [r \in Requests |-> "idle"]
  /\ now = [r \in Requests |-> 0]
  /\ clock = 0
  /\ redisUp = TRUE
  /\ outages = 0
  /\ conn = [i \in Instances |-> "unknown"]
  /\ shared = [b \in Buckets |-> {}]
  /\ local = [i \in Instances |-> [b \in Buckets |-> {}]]
  /\ latest = [b \in Buckets |-> 0]
  /\ counted = [b \in Buckets |-> {}]
  /\ wasUp = {}

-----------------------------------------------------------------------------
(* The window *)

Bucket(r) == IF pc[r] = "ip" THEN IpBucket[r] ELSE WsBucket[r]
Limit(r)  == IF pc[r] = "ip" THEN PathLimit[r] ELSE WsLimit

\* Mutant: entries are pruned a second late.
Live_Late(S, t) == {q \in S : now[q] >= t - Window}

\* Mutant: entries are pruned a second early.
Live_Early(S, t) == {q \in S : now[q] > t + 1 - Window}

\* What a hit at time t leaves of a window.
Live(S, t) == {q \in S : now[q] > t - Window}

Full(S, r) == Cardinality(Live(S, now[r])) >= Limit(r)

\* The window after r's hit: r is in it when it is admitted, and only then.
Hit(S, r) == IF Full(S, r) THEN Live(S, now[r]) ELSE Live(S, now[r]) \cup {r}

\* The answer of a hit, and what is next: the workspace's window, or the handler.
Verdict(S, r) ==
  IF Full(S, r) THEN "refused"
  ELSE IF pc[r] = "ip" /\ WsBucket[r] # NoBucket THEN "ws" ELSE "admitted"

LocalHit(r) ==
  LET i == Instance[r]
      b == Bucket(r)
  IN  /\ local' = [local EXCEPT ![i][b] = Hit(local[i][b], r)]
      /\ pc' = [pc EXCEPT ![r] = Verdict(local[i][b], r)]

\* The script runs.
ScriptRuns(r) ==
  LET b == Bucket(r) IN
    /\ shared' = [shared EXCEPT ![b] = Hit(shared[b], r)]
    /\ latest' = [latest EXCEPT ![b] = IF now[r] > latest[b] THEN now[r] ELSE latest[b]]
    /\ counted' = [counted EXCEPT ![b] = IF Full(shared[b], r) THEN counted[b]
                                                              ELSE counted[b] \cup {r}]

-----------------------------------------------------------------------------
(* dispatch *)

Arrives(r) ==
  /\ pc[r] = "idle"
  /\ \A q \in Requests : Instance[q] = Instance[r] => pc[q] \notin Hitting
  /\ pc' = [pc EXCEPT ![r] = "ip"]
  /\ now' = [now EXCEPT ![r] = clock]
  /\ UNCHANGED <<clock, redisVars, conn, shared, local, historyVars>>

\* _get_redis: one attempt, whose failure is remembered as no Redis at all.
Connects(r) ==
  /\ pc[r] \in Hitting
  /\ conn[Instance[r]] = "unknown"
  /\ conn' = [conn EXCEPT ![Instance[r]] = IF redisUp THEN "up" ELSE "pinned"]
  /\ wasUp' = IF redisUp THEN wasUp \cup {Instance[r]} ELSE wasUp
  /\ UNCHANGED <<pc, now, clock, redisVars, shared, local, latest, counted>>

HitsShared(r) ==
  /\ pc[r] \in Hitting
  /\ conn[Instance[r]] = "up"
  /\ redisUp
  /\ ScriptRuns(r)
  /\ pc' = [pc EXCEPT ![r] = Verdict(shared[Bucket(r)], r)]
  /\ UNCHANGED <<now, clock, redisVars, conn, local, wasUp>>

\* Mutant: with Redis gone the request is waved through.
FailsOver_Uncounted(r) ==
  /\ pc[r] \in Hitting
  /\ conn[Instance[r]] = "up"
  /\ \/ ~redisUp /\ UNCHANGED <<shared, latest, counted>>
     \/ redisUp /\ ScriptRuns(r)
  /\ conn' = [conn EXCEPT ![Instance[r]] = "unknown"]
  /\ pc' = [pc EXCEPT ![r] = "admitted"]
  /\ UNCHANGED <<now, clock, redisVars, local, wasUp>>

\* The script raises: Redis is down, or ran it and its reply was lost.  The
\* same hit goes to the local window.
FailsOver(r) ==
  /\ pc[r] \in Hitting
  /\ conn[Instance[r]] = "up"
  /\ \/ ~redisUp /\ UNCHANGED <<shared, latest, counted>>
     \/ redisUp /\ ScriptRuns(r)
  /\ conn' = [conn EXCEPT ![Instance[r]] = "unknown"]
  /\ LocalHit(r)
  /\ UNCHANGED <<now, clock, redisVars, wasUp>>

HitsLocal(r) ==
  /\ pc[r] \in Hitting
  /\ conn[Instance[r]] = "pinned"
  /\ LocalHit(r)
  /\ UNCHANGED <<now, clock, redisVars, conn, shared, historyVars>>

\* A deploy: memory is gone, and requests under way with it.
Restarts(i) ==
  /\ conn' = [conn EXCEPT ![i] = "unknown"]
  /\ local' = [local EXCEPT ![i] = [b \in Buckets |-> {}]]
  /\ pc' = [r \in Requests |->
              IF Instance[r] = i /\ pc[r] \in Hitting THEN "lost" ELSE pc[r]]
  /\ wasUp' = wasUp \ {i}
  /\ UNCHANGED <<now, clock, redisVars, shared, latest, counted>>

RedisFails ==
  /\ redisUp
  /\ outages < MaxOutages
  /\ redisUp' = FALSE
  /\ outages' = outages + 1
  /\ UNCHANGED <<pc, now, clock, conn, shared, local, historyVars>>

RedisReturns ==
  /\ ~redisUp
  /\ redisUp' = TRUE
  /\ UNCHANGED <<pc, now, clock, outages, conn, shared, local, historyVars>>

Tick ==
  /\ clock < MaxTime
  /\ clock' = clock + 1
  /\ UNCHANGED <<pc, now, redisVars, conn, shared, local, historyVars>>

-----------------------------------------------------------------------------
Dispatch(r) == Arrives(r) \/ Connects(r) \/ HitsShared(r) \/ FailsOver(r) \/ HitsLocal(r)

Next ==
  \/ \E r \in Requests : Dispatch(r)
  \/ \E i \in Instances : Restarts(i)
  \/ RedisFails \/ RedisReturns \/ Tick

Spec == Init /\ [][Next]_vars

-----------------------------------------------------------------------------
(* Properties *)

\* The largest limit any request of the bucket is held to.
AtMostLimit(n, b) ==
  \E r \in Requests : \/ IpBucket[r] = b /\ n <= PathLimit[r]
                      \/ WsBucket[r] = b /\ n <= WsLimit

(***************************************************************************)
(* "Every instance reads and writes the same one": up to the latest time   *)
(* the script has seen in a bucket, no window of Window seconds holds more *)
(* counted requests than the limit, whatever instances they came through,  *)
(* however late they reached Redis, and over restarts and outages.         *)
(***************************************************************************)
SharedWindowHolds ==
  \A b \in Buckets :
    LET recent == {q \in counted[b] : now[q] + Window > latest[b]}
    IN  recent # {} => AtMostLimit(Cardinality(recent), b)

(***************************************************************************)
(* It "fails open": infrastructure never refuses a request.  A refusal     *)
(* means that the window which refused it, the one in Redis or the one of  *)
(* its instance, held the limit of requests of the last Window seconds.    *)
(***************************************************************************)
RefusedOnlyWhenFull ==
  [][\A r \in Requests : pc[r] \in Hitting /\ pc'[r] = "refused" =>
       \E S \in {shared[Bucket(r)], local[Instance[r]][Bucket(r)]} :
         Cardinality({q \in S : now[q] + Window > now[r]}) >= Limit(r)]_vars

(***************************************************************************)
(* Degraded is not unlimited: a request that reaches the handler was       *)
(* counted in each of its buckets, in Redis or in its instance's memory,   *)
(* when it was admitted.                                                   *)
(***************************************************************************)
AdmittedIsCounted ==
  [][\A r \in Requests : pc[r] \in Hitting /\ pc'[r] \in {"ws", "admitted"} \ {pc[r]} =>
       r \in shared'[Bucket(r)] \cup local'[Instance[r]][Bucket(r)]]_vars

(***************************************************************************)
(* The local windows keep the limit as well: degraded, a bucket lets       *)
(* through at most its limit per instance.                                 *)
(***************************************************************************)
LocalWindowHolds ==
  \A i \in Instances : \A b \in Buckets :
    local[i][b] # {} => AtMostLimit(Cardinality(local[i][b]), b)

(***************************************************************************)
(* rate_limiter.py: "Re-check on the next one rather than pinning to       *)
(* memory for the process lifetime, so the shared window resumes as soon   *)
(* as Redis returns": an instance that had Redis does not count in memory  *)
(* a request it serves while Redis is up, without asking Redis first.      *)
(***************************************************************************)
SharedWindowResumes ==
  [][\A i \in wasUp : redisUp /\ conn[i] = "pinned" => local'[i] = local[i] \/ conn'[i] # conn[i]]_vars
=============================================================================
