-------------------------- MODULE PartnerContract --------------------------
(***************************************************************************)
(* What call_with_resilience and the partner clients promise their callers *)
(* about one outgoing request, whatever happens on the wire: how often the *)
(* partner may perform it, and what the answer given to the caller says    *)
(* about that.  There is no breaker, retry or clock here; PartnerCalls     *)
(* implements this specification.                                          *)
(***************************************************************************)
EXTENDS Naturals

CONSTANTS
  Calls,       \* requests made through the clients
  Idempotent,  \* the calls whose method (or caller) allows a repetition
  Attempts     \* attempts allowed to an idempotent call

VARIABLES
  performed,  \* performed[c]: the attempts of c the partner carried out
  outcome     \* outcome[c]: what the caller was told, "pending" until then

vars == <<performed, outcome>>

\* `total` in the code: the attempts a call may make.
Limit(c) == IF c \in Idempotent THEN Attempts ELSE 1

Answered == {"ok", "contract"}                \* the partner's reply was read
Refused  == {"not_configured", "circuit_open"}  \* nothing was ever sent
Failed   == {"unavailable", "lost"}           \* sent; the reply is unknown
Outcomes == Answered \cup Refused \cup Failed

Init ==
  /\ performed = [c \in Calls |-> {}]
  /\ outcome = [c \in Calls |-> "pending"]

(***************************************************************************)
(* The partner carries out one attempt.  It may do so after the caller has *)
(* given up, but never for a call the client refused to make.              *)
(***************************************************************************)
Perform(c) ==
  /\ outcome[c] \notin Refused
  /\ \E a \in (1..Limit(c)) \ performed[c] :
       performed' = [performed EXCEPT ![c] = @ \cup {a}]
  /\ UNCHANGED outcome

(***************************************************************************)
(* The caller is answered, once.  A reply in the partner's name needs the  *)
(* partner to have performed the request; a refusal needs it not to have.  *)
(***************************************************************************)
Answer(c, o) ==
  /\ outcome[c] = "pending"
  /\ o \in Answered => performed[c] # {}
  /\ o \in Refused => performed[c] = {}
  /\ outcome' = [outcome EXCEPT ![c] = o]
  /\ UNCHANGED performed

\* The process dies with the calls of S unanswered.
Abandon(S) ==
  /\ \A c \in S : outcome[c] = "pending"
  /\ outcome' = [c \in Calls |-> IF c \in S THEN "lost" ELSE outcome[c]]
  /\ UNCHANGED performed

Next ==
  \/ \E c \in Calls : Perform(c)
  \/ \E c \in Calls, o \in Outcomes : Answer(c, o)
  \/ \E S \in SUBSET Calls : Abandon(S)

Spec == Init /\ [][Next]_vars
=============================================================================
