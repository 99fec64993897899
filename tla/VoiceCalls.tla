----------------------------- MODULE VoiceCalls -----------------------------
(***************************************************************************)
(* The two flows that telephone people, over the partner calls they share: *)
(*   services/integrations/voiceforge_crisis.py        CrisisEscalation    *)
(*   services/integrations/voiceforge_secure_comms.py  SecureVoiceComms    *)
(* An escalation rings its contacts one after the other; a delivery        *)
(* verifies its recipient first.  Both run as tasks of the one process     *)
(* whose breaker PartnerCalls models, and both keep their records in its   *)
(* memory.                                                                 *)
(***************************************************************************)
EXTENDS PartnerCalls, Sequences

CONSTANTS
  Escalations,
  Contacts,     \* Contacts[e]: the call to each contact of e, in order
  Deliveries,
  VerifyCall,   \* VerifyCall[d]: the POST /identity/verify of delivery d
  PhoneCall     \* PhoneCall[d]: its POST /calls/initiate

ASSUME VoiceAssumption ==
  /\ Contacts \in [Escalations -> Seq(Calls)]
  /\ VerifyCall \in [Deliveries -> Calls]
  /\ PhoneCall \in [Deliveries -> Calls]
  /\ Idempotent = {}

\* A delivery's own telephone call is made by that delivery and nowhere else.
ASSUME PhoneCallsAssumption ==
  /\ \A d, f \in Deliveries : PhoneCall[d] = PhoneCall[f] => d = f
  /\ \A d, f \in Deliveries : PhoneCall[d] # VerifyCall[f]
  /\ \A d \in Deliveries : \A e \in Escalations :
       \A i \in 1..Len(Contacts[e]) : PhoneCall[d] # Contacts[e][i]

VARIABLES
  task,      \* task[e]: "new", "running", "recorded" in _escalations, "gone"
  statuses,  \* statuses[e]: status of each contact whose call returned
  delivery,  \* delivery[d]: where deliver() is, or its outcome
  identity   \* identity[d]: what the partner said of the recipient

escalationVars == <<task, statuses>>
deliveryVars == <<delivery, identity>>
voiceVars == <<vars, escalationVars, deliveryVars>>

\* What the answer to a verification comes to: `verified` not True; True with a
\* confidence under MIN_CONFIDENCE, at it or above, or stated as no number at
\* all, which the response schema lets through.
Identities == {"not_verified", "low_confidence", "sure", "unstated"}

\* The threshold is applied to a number only.
Disclosable == {"sure", "unstated"}

DeliveryOutcomes == {"delivered", "refused", "unavailable", "gone"}

VoiceTypeOK ==
  /\ TypeOK
  /\ task \in [Escalations -> {"new", "running", "recorded", "gone"}]
  /\ statuses \in [Escalations -> Seq({"initiated", "not_placed"})]
  /\ \A e \in Escalations : Len(statuses[e]) <= Len(Contacts[e])
  /\ delivery \in [Deliveries -> {"new", "verifying", "calling"} \cup DeliveryOutcomes]
  /\ identity \in [Deliveries -> Identities \cup {"unknown"}]

VoiceInit ==
  /\ Init
  /\ task = [e \in Escalations |-> "new"]
  /\ statuses = [e \in Escalations |-> <<>>]
  /\ delivery = [d \in Deliveries |-> "new"]
  /\ identity = [d \in Deliveries |-> "unknown"]

-----------------------------------------------------------------------------
(* CrisisEscalation.initiate_escalation *)

\* Mutant: a call is not placed only if it was refused.
PlacementStatus_Optimistic(c) == IF phase[c] \in Refused THEN "not_placed" ELSE "initiated"

\* `not call_result.get("degraded")`
PlacementStatus(c) == IF phase[c] = "ok" THEN "initiated" ELSE "not_placed"

\* With the statuses s collected: ring the next contact, or record them all.
Proceed(e, s) ==
  /\ statuses' = [statuses EXCEPT ![e] = s]
  /\ IF Len(s) < Len(Contacts[e])
       THEN /\ StartCall(Contacts[e][Len(s) + 1])
            /\ task' = [task EXCEPT ![e] = "running"]
       ELSE /\ task' = [task EXCEPT ![e] = "recorded"]
            /\ UNCHANGED vars
  /\ UNCHANGED deliveryVars

Escalate(e) ==
  /\ task[e] = "new"
  /\ Proceed(e, <<>>)

\* Mutant: a degraded call ends the loop.
ContactReturns_StopsAtFailure(e) ==
  /\ task[e] = "running"
  /\ LET c == Contacts[e][Len(statuses[e]) + 1] IN
       /\ phase[c] = "ok"
       /\ Proceed(e, Append(statuses[e], PlacementStatus(c)))

ContactReturns(e) ==
  /\ task[e] = "running"
  /\ LET c == Contacts[e][Len(statuses[e]) + 1] IN
       /\ phase[c] \in Outcomes
       /\ Proceed(e, Append(statuses[e], PlacementStatus(c)))

-----------------------------------------------------------------------------
(* SecureVoiceComms.deliver *)

BeginDelivery(d) ==
  /\ delivery[d] = "new"
  /\ StartCall(VerifyCall[d])
  /\ delivery' = [delivery EXCEPT ![d] = "verifying"]
  /\ UNCHANGED <<identity, escalationVars>>

\* The verification was degraded: nothing was checked, nothing is said.
VerifyUnavailable(d) ==
  /\ delivery[d] = "verifying"
  /\ phase[VerifyCall[d]] \in Outcomes \ {"ok"}
  /\ delivery' = [delivery EXCEPT ![d] = "unavailable"]
  /\ UNCHANGED <<vars, identity, escalationVars>>

\* Mutant: the confidence is not checked.
VerifyAnswers_AnyConfidence(d, answer) ==
  /\ delivery[d] = "verifying"
  /\ phase[VerifyCall[d]] = "ok"
  /\ identity' = [identity EXCEPT ![d] = answer]
  /\ IF answer # "not_verified"
       THEN /\ StartCall(PhoneCall[d])
            /\ delivery' = [delivery EXCEPT ![d] = "calling"]
       ELSE /\ delivery' = [delivery EXCEPT ![d] = "refused"]
            /\ UNCHANGED vars
  /\ UNCHANGED escalationVars

VerifyAnswers(d, answer) ==
  /\ delivery[d] = "verifying"
  /\ phase[VerifyCall[d]] = "ok"
  /\ identity' = [identity EXCEPT ![d] = answer]
  /\ IF answer \in Disclosable
       THEN /\ StartCall(PhoneCall[d])
            /\ delivery' = [delivery EXCEPT ![d] = "calling"]
       ELSE /\ delivery' = [delivery EXCEPT ![d] = "refused"]
            /\ UNCHANGED vars
  /\ UNCHANGED escalationVars

PhoneReturns(d) ==
  /\ delivery[d] = "calling"
  /\ phase[PhoneCall[d]] \in Outcomes
  /\ delivery' = [delivery EXCEPT ![d] =
                    IF phase[PhoneCall[d]] = "ok" THEN "delivered" ELSE "unavailable"]
  /\ UNCHANGED <<vars, identity, escalationVars>>

-----------------------------------------------------------------------------
\* The partner, the clock and the calls under way move.
CallsMove ==
  /\ Tick \/ \E c \in Calls : CallStep(c)
  /\ UNCHANGED <<escalationVars, deliveryVars>>

\* The process dies, and _escalations and the running tasks with it.
ProcessDies ==
  /\ Restart
  /\ task' = [e \in Escalations |-> IF task[e] = "new" THEN "new" ELSE "gone"]
  /\ delivery' = [d \in Deliveries |->
                    IF delivery[d] \in {"verifying", "calling"} THEN "gone" ELSE delivery[d]]
  /\ UNCHANGED <<statuses, identity>>

VoiceNext ==
  \/ \E e \in Escalations : Escalate(e) \/ ContactReturns(e)
  \/ \E d \in Deliveries :
       \/ BeginDelivery(d)
       \/ VerifyUnavailable(d)
       \/ \E answer \in Identities : VerifyAnswers(d, answer)
       \/ PhoneReturns(d)
  \/ CallsMove
  \/ ProcessDies

VoiceSpec == VoiceInit /\ [][VoiceNext]_voiceVars

\* The event loop resumes a task whose call returned, and ends every call.
VoiceFairness ==
  /\ \A e \in Escalations : WF_voiceVars(ContactReturns(e))
  /\ \A c \in Calls :
       WF_voiceVars(/\ BackOff(c) \/ GiveUp(c) \/ Wake(c)
                    /\ UNCHANGED <<escalationVars, deliveryVars>>)

VoiceFairSpec == VoiceSpec /\ VoiceFairness

-----------------------------------------------------------------------------
(* Properties *)

(***************************************************************************)
(* "Placing the call first and verifying afterwards would have already     *)
(* spoken the message": no message is spoken, now or by a request still on *)
(* the wire, unless the partner was asked about that recipient, answered   *)
(* `verified: true`, and stated no confidence below the threshold.  One    *)
(* that states no number is spoken to: the code looks for a low one.       *)
(***************************************************************************)
SpokenOnlyToVerified ==
  \A d \in Deliveries :
    performed[PhoneCall[d]] \cup wire[PhoneCall[d]] # {}
      => performed[VerifyCall[d]] # {} /\ identity[d] \in Disclosable

(***************************************************************************)
(* "Over-reporting stops them": an escalation claims a contact's call was  *)
(* initiated only if the partner placed it, and placed it exactly once.    *)
(***************************************************************************)
NeverOverReports ==
  \A e \in Escalations : \A i \in 1..Len(statuses[e]) :
    statuses[e][i] = "initiated" => Cardinality(performed[Contacts[e][i]]) = 1

(***************************************************************************)
(* An escalation that was begun is recorded unless the process dies: a     *)
(* partner that never answers does not stop the next contact being rung.   *)
(***************************************************************************)
EscalationCompletes ==
  \A e \in Escalations : (task[e] = "running") ~> (task[e] \in {"recorded", "gone"})

(***************************************************************************)
(* voiceforge_crisis.py says a "degraded client result means no call was   *)
(* placed": a contact reported not_placed was not rung.                    *)
(***************************************************************************)
NotPlacedWasNotRung ==
  \A e \in Escalations : \A i \in 1..Len(statuses[e]) :
    statuses[e][i] = "not_placed" => performed[Contacts[e][i]] = {}
=============================================================================
