---------------------------- MODULE PartnerCalls ----------------------------
(***************************************************************************)
(* Outgoing partner calls of one backend process:                          *)
(*   services/integrations/_resilience.py   CircuitBreaker,                *)
(*                                          call_with_resilience           *)
(*   services/integrations/voiceforge_client.py    _request                *)
(*   services/integrations/visionaudio_client.py   _request                *)
(* Every call shares the partner's one breaker.  The code runs on one      *)
(* event loop, so what happens between two awaits is one step here:        *)
(* `await operation()` is the phase "inflight", `await asyncio.sleep()`    *)
(* the phase "sleeping".  Other calls, the partner and the clock move in   *)
(* between.                                                                *)
(***************************************************************************)
EXTENDS Naturals, FiniteSets

CONSTANTS
  Calls,       \* requests, each made once by some route handler
  Idempotent,  \* may_retry holds for them
  Configured,  \* made by a client that holds an API key
  Attempts,    \* DEFAULT_ATTEMPTS
  Threshold,   \* failure_threshold
  ResetTicks   \* reset_seconds, in ticks of the monotonic clock

ASSUME CallsAssumption ==
  /\ IsFiniteSet(Calls)
  /\ Idempotent \subseteq Calls
  /\ Configured \subseteq Calls
  /\ Attempts \in Nat \ {0}
  /\ Threshold \in Nat \ {0}
  /\ ResetTicks \in Nat \ {0}

VARIABLES
  phase,      \* phase[c]: where call c is, or what its caller was told
  sends,      \* sends[c]: attempts made so far
  wire,       \* wire[c]: attempts the partner has yet to see, if it ever will
  performed,  \* performed[c]: attempts the partner carried out
  failures,   \* _failures
  opened,     \* _opened_at is not None
  elapsed     \* time.monotonic() - _opened_at, counted up to ResetTicks

callVars == <<phase, sends, wire, performed>>
breakerVars == <<failures, opened, elapsed>>
vars == <<phase, sends, wire, performed, failures, opened, elapsed>>

\* Mutant: every method is retried.
Limit_RetryAll(c) == Attempts

\* `total`: the attempts call c may make.
Limit(c) == IF c \in Idempotent THEN Attempts ELSE 1

Answered == {"ok", "contract"}
Refused  == {"not_configured", "circuit_open"}
Failed   == {"unavailable", "lost"}
Outcomes == Answered \cup Refused \cup Failed
Waiting  == {"inflight", "sleeping"}

TypeOK ==
  /\ phase \in [Calls -> {"idle"} \cup Waiting \cup Outcomes]
  /\ sends \in [Calls -> 0..Attempts]
  /\ wire \in [Calls -> SUBSET (1..Attempts)]
  /\ performed \in [Calls -> SUBSET (1..Attempts)]
  /\ failures \in Nat
  /\ opened \in BOOLEAN
  /\ elapsed \in 0..ResetTicks

Init ==
  /\ phase = [c \in Calls |-> "idle"]
  /\ sends = [c \in Calls |-> 0]
  /\ wire = [c \in Calls |-> {}]
  /\ performed = [c \in Calls |-> {}]
  /\ failures = 0
  /\ opened = FALSE
  /\ elapsed = 0

-----------------------------------------------------------------------------
(* The breaker *)

\* Mutant: the cooldown must be exceeded by a clock that stops at it.
BreakerState_NeverHalfOpen ==
  IF ~opened THEN "closed"
  ELSE IF elapsed > ResetTicks THEN "half_open" ELSE "open"

BreakerState ==
  IF ~opened THEN "closed"
  ELSE IF elapsed >= ResetTicks THEN "half_open" ELSE "open"

RecordSuccess ==
  /\ failures' = 0
  /\ opened' = FALSE
  /\ elapsed' = 0

\* Opening is stamped once: a failure of an opened breaker only counts.
RecordFailure ==
  /\ failures' = failures + 1
  /\ opened' = (opened \/ failures + 1 >= Threshold)
  /\ elapsed' = IF opened THEN elapsed ELSE 0

Tick ==
  /\ opened
  /\ elapsed < ResetTicks
  /\ elapsed' = elapsed + 1
  /\ UNCHANGED <<callVars, failures, opened>>

-----------------------------------------------------------------------------
(* One call *)

Finish(c, o) == phase' = [phase EXCEPT ![c] = o]

Send(c) ==
  /\ phase' = [phase EXCEPT ![c] = "inflight"]
  /\ sends' = [sends EXCEPT ![c] = @ + 1]
  /\ wire' = [wire EXCEPT ![c] = @ \cup {sends[c] + 1}]
  /\ UNCHANGED performed

\* No API key: a degraded result, and no request.
StartUnconfigured(c) ==
  /\ phase[c] = "idle"
  /\ c \notin Configured
  /\ Finish(c, "not_configured")
  /\ UNCHANGED <<sends, wire, performed, breakerVars>>

\* Mutant: the breaker is consulted after the request went out.
StartRefused_AfterSending(c) ==
  /\ phase[c] = "idle"
  /\ c \in Configured
  /\ BreakerState = "open"
  /\ Finish(c, "circuit_open")
  /\ wire' = [wire EXCEPT ![c] = @ \cup {1}]
  /\ UNCHANGED <<sends, performed, breakerVars>>

\* before_request raises PartnerCircuitOpen.
StartRefused(c) ==
  /\ phase[c] = "idle"
  /\ c \in Configured
  /\ BreakerState = "open"
  /\ Finish(c, "circuit_open")
  /\ UNCHANGED <<sends, wire, performed, breakerVars>>

StartAdmitted(c) ==
  /\ phase[c] = "idle"
  /\ c \in Configured
  /\ BreakerState # "open"
  /\ Send(c)
  /\ UNCHANGED breakerVars

\* The partner carries out an attempt, possibly one nobody waits for.
PartnerPerforms(c) ==
  /\ \E a \in wire[c] :
       /\ wire' = [wire EXCEPT ![c] = @ \ {a}]
       /\ performed' = [performed EXCEPT ![c] = @ \cup {a}]
  /\ UNCHANGED <<phase, sends, breakerVars>>

\* A 2xx reply: the breaker closes before the response schema is checked.
Reply(c, o) ==
  /\ phase[c] = "inflight"
  /\ sends[c] \in performed[c]
  /\ o \in Answered
  /\ Finish(c, o)
  /\ RecordSuccess
  /\ UNCHANGED <<sends, wire, performed>>

(***************************************************************************)
(* The attempt raises.  A status error means the partner is done with the  *)
(* request; a timeout or a broken connection leaves it on the wire.        *)
(***************************************************************************)
AttemptFails(c) ==
  /\ phase[c] = "inflight"
  /\ \E rest \in {wire[c], wire[c] \ {sends[c]}} :
       wire' = [wire EXCEPT ![c] = rest]
  /\ UNCHANGED <<sends, performed>>

\* Mutant: the breaker counts attempts.
BackOff_Counted(c) ==
  /\ AttemptFails(c)
  /\ sends[c] < Limit(c)
  /\ phase' = [phase EXCEPT ![c] = "sleeping"]
  /\ RecordFailure

\* A retryable error with attempts left: back off, the breaker not told.
BackOff(c) ==
  /\ AttemptFails(c)
  /\ sends[c] < Limit(c)
  /\ phase' = [phase EXCEPT ![c] = "sleeping"]
  /\ UNCHANGED breakerVars

\* Mutant: the loop ends without an answer after the last attempt.
GiveUp_NotOnLast(c) ==
  /\ AttemptFails(c)
  /\ sends[c] < Limit(c)
  /\ Finish(c, "unavailable")
  /\ RecordFailure

\* Mutant: every failure is raised as PartnerCircuitOpen.
GiveUp_AsRefusal(c) ==
  /\ AttemptFails(c)
  /\ Finish(c, "circuit_open")
  /\ RecordFailure

\* The last attempt, or an error that is not retryable, at any attempt.
GiveUp(c) ==
  /\ AttemptFails(c)
  /\ Finish(c, "unavailable")
  /\ RecordFailure

\* The back-off ends.  before_request is not asked again.
Wake(c) ==
  /\ phase[c] = "sleeping"
  /\ Send(c)
  /\ UNCHANGED breakerVars

\* The process dies: its calls are lost and its breaker starts afresh.
Restart ==
  /\ phase' = [c \in Calls |-> IF phase[c] \in Waiting THEN "lost" ELSE phase[c]]
  /\ RecordSuccess
  /\ UNCHANGED <<sends, wire, performed>>

-----------------------------------------------------------------------------
StartCall(c) == StartUnconfigured(c) \/ StartRefused(c) \/ StartAdmitted(c)

CallStep(c) ==
  \/ PartnerPerforms(c)
  \/ \E o \in Answered : Reply(c, o)
  \/ BackOff(c)
  \/ GiveUp(c)
  \/ Wake(c)

Next ==
  \/ \E c \in Calls : StartCall(c) \/ CallStep(c)
  \/ Tick
  \/ Restart

Spec == Init /\ [][Next]_vars

(***************************************************************************)
(* The event loop runs what is ready: an attempt ends, by httpx's 30 s     *)
(* timeout if by nothing else, a back-off ends, and the clock advances.    *)
(* Neither the partner nor the caller owes a step.                         *)
(***************************************************************************)
Fairness ==
  /\ \A c \in Calls : WF_vars(BackOff(c) \/ GiveUp(c) \/ Wake(c))
  /\ WF_vars(Tick)

FairSpec == Spec /\ Fairness

-----------------------------------------------------------------------------
(* Properties *)

(***************************************************************************)
(* POST /calls/initiate places a telephone call: a request that was not    *)
(* declared repeatable reaches the partner's phone system at most once,    *)
(* through timeouts, late deliveries, and the breaker's changes.           *)
(***************************************************************************)
SideEffectAtMostOnce ==
  \A c \in Calls \ Idempotent : Cardinality(performed[c]) <= 1

(***************************************************************************)
(* The answer is honest: a caller told "circuit open" or "not configured"  *)
(* never has a request pending or performed, and a caller given the        *)
(* partner's reply had its request performed.                              *)
(***************************************************************************)
AnswerIsHonest ==
  \A c \in Calls :
    /\ phase[c] \in Refused => wire[c] = {} /\ performed[c] = {}
    /\ phase[c] \in Answered => performed[c] # {}

(***************************************************************************)
(* The breaker counts calls, not attempts: it is open only if that many    *)
(* distinct callers were told the partner is unavailable.                  *)
(***************************************************************************)
Unavailable == {c \in Calls : phase[c] = "unavailable"}
OpenMeansManyFailed == opened => Cardinality(Unavailable) >= Threshold

(***************************************************************************)
(* While the breaker is open its partner gets no traffic but the remaining *)
(* attempts of calls admitted before: the requests sent in an open period  *)
(* belong to calls that had already sent one when it opened.               *)
(***************************************************************************)
OpenAdmitsNoNewCall ==
  [][\A c \in Calls : BreakerState = "open" /\ sends[c] = 0 => sends'[c] = 0]_vars

(***************************************************************************)
(* A handler that started a call gets an answer: no sequence of failures,  *)
(* retries and other calls keeps it waiting for ever.                      *)
(***************************************************************************)
CallsReturn ==
  \A c \in Calls : (phase[c] \in Waiting) ~> (phase[c] \in Outcomes)

(***************************************************************************)
(* An open breaker does not stay open: after the cooldown a probe may go   *)
(* through, or an answer to an older call has closed it.                   *)
(***************************************************************************)
BreakerLetsAProbeThrough == (BreakerState = "open") ~> (BreakerState # "open")

(***************************************************************************)
(* Every call's life, seen from its caller and from the partner, is one of *)
(* the lives PartnerContract allows.                                       *)
(***************************************************************************)
Contract == INSTANCE PartnerContract WITH
  outcome <- [c \in Calls |-> IF phase[c] \in Outcomes THEN phase[c] ELSE "pending"]

ImplementsContract == Contract!Spec
=============================================================================
