--------------------------- MODULE VoiceCalls_proofs ---------------------------
(***************************************************************************)
(* Proofs about VoiceCalls, for any escalations and deliveries.  Every     *)
(* step of the two flows is a step of PartnerCalls, so what was proved of  *)
(* the calls (IInv) holds here too; what the flows add is carried by       *)
(* DeliveryInv and EscalationInv.                                          *)
(***************************************************************************)
EXTENDS VoiceCalls, PartnerCalls_proofs

\* The recipient's verification is answered so that the call is placed.
Confirmed(d) == \E answer \in Disclosable : VerifyAnswers(d, answer)

\* A delivery's telephone call is not started before its recipient is
\* verified, by a request the partner performed.
DeliveryInv ==
  \A d \in Deliveries :
    /\ delivery[d] \in {"new", "verifying"} => phase[PhoneCall[d]] = "idle"
    /\ phase[PhoneCall[d]] # "idle" =>
         identity[d] \in Disclosable /\ performed[VerifyCall[d]] # {}

\* A running escalation waits for one more contact, and claims no call the
\* partner did not place.
EscalationInv ==
  \A e \in Escalations :
    /\ task[e] = "running" => Len(statuses[e]) < Len(Contacts[e])
    /\ \A i \in 1..Len(statuses[e]) :
         statuses[e][i] = "initiated" => performed[Contacts[e][i]] # {}

VoiceInv == VoiceTypeOK /\ IInv /\ DeliveryInv /\ EscalationInv

-----------------------------------------------------------------------------
(* The flows move the calls only as PartnerCalls does. *)

\* What Proceed does to the calls.
LEMMA ProceedStarts ==
  ASSUME VoiceTypeOK, NEW e \in Escalations, NEW s \in Seq({"initiated", "not_placed"}),
         Proceed(e, s)
  PROVE  \/ UNCHANGED vars
         \/ \E i \in 1..Len(Contacts[e]) : Contacts[e][i] \in Calls /\ StartCall(Contacts[e][i])
<1>1. Contacts[e] \in Seq(Calls)  BY VoiceAssumption
<1>2. Len(s) \in Nat /\ Len(Contacts[e]) \in Nat  BY <1>1
<1>3. CASE Len(s) < Len(Contacts[e])
  <2>1. Len(s) + 1 \in 1..Len(Contacts[e])  BY <1>2, <1>3
  <2>2. Contacts[e][Len(s) + 1] \in Calls  BY <1>1, <2>1
  <2> QED BY <1>3, <2>1, <2>2 DEF Proceed
<1>4. CASE ~(Len(s) < Len(Contacts[e]))  BY <1>4 DEF Proceed
<1> QED BY <1>3, <1>4

\* The statuses an escalation goes on with.
LEMMA CollectedStatuses ==
  ASSUME VoiceTypeOK, NEW e \in Escalations, NEW c
  PROVE  /\ <<>> \in Seq({"initiated", "not_placed"})
         /\ Append(statuses[e], PlacementStatus(c)) \in Seq({"initiated", "not_placed"})
<1>1. statuses[e] \in Seq({"initiated", "not_placed"})  BY DEF VoiceTypeOK
<1>2. PlacementStatus(c) \in {"initiated", "not_placed"}  BY DEF PlacementStatus
<1> QED BY <1>1, <1>2

\* What starts in a step of a flow.
LEMMA FlowStarts ==
  ASSUME VoiceTypeOK, [VoiceNext]_voiceVars
  PROVE  \/ [Next]_vars /\ \A c \in Calls : phase[c] = "idle" => phase'[c] = "idle"
         \/ \E e \in Escalations : \E i \in 1..Len(Contacts[e]) :
              Contacts[e][i] \in Calls /\ StartCall(Contacts[e][i]) /\ UNCHANGED deliveryVars
         \/ \E d \in Deliveries : StartCall(VerifyCall[d])
         \/ \E d \in Deliveries : Confirmed(d) /\ StartCall(PhoneCall[d])
<1> DEFINE G == \/ [Next]_vars /\ \A c \in Calls : phase[c] = "idle" => phase'[c] = "idle"
                \/ \E e \in Escalations : \E i \in 1..Len(Contacts[e]) :
                     Contacts[e][i] \in Calls /\ StartCall(Contacts[e][i]) /\ UNCHANGED deliveryVars
                \/ \E d \in Deliveries : StartCall(VerifyCall[d])
                \/ \E d \in Deliveries : Confirmed(d) /\ StartCall(PhoneCall[d])
<1>0. UNCHANGED vars => G  BY DEF vars
<1>1. ASSUME NEW e \in Escalations, Escalate(e) \/ ContactReturns(e) PROVE G
  <2>1. PICK s \in Seq({"initiated", "not_placed"}) : Proceed(e, s)
    BY <1>1, CollectedStatuses DEF Escalate, ContactReturns
  <2>2. UNCHANGED deliveryVars  BY <2>1 DEF Proceed
  <2> QED BY <2>1, <2>2, ProceedStarts, <1>0
<1>2. ASSUME NEW d \in Deliveries, BeginDelivery(d) PROVE G
  BY <1>2 DEF BeginDelivery
<1>3. ASSUME NEW d \in Deliveries, VerifyUnavailable(d) \/ PhoneReturns(d) PROVE G
  BY <1>3, <1>0 DEF VerifyUnavailable, PhoneReturns
<1>4. ASSUME NEW d \in Deliveries, NEW answer \in Identities, VerifyAnswers(d, answer) PROVE G
  <2>1. CASE answer \in Disclosable
    <3>1. StartCall(PhoneCall[d])  BY <1>4, <2>1 DEF VerifyAnswers
    <3>2. Confirmed(d)  BY <1>4, <2>1 DEF Confirmed
    <3> QED BY <3>1, <3>2
  <2>2. CASE answer \notin Disclosable  BY <1>4, <2>2, <1>0 DEF VerifyAnswers
  <2> QED BY <2>1, <2>2
<1>5. CASE CallsMove
  <2>1. CASE Tick  BY <2>1 DEF Tick, callVars, Next
  <2>2. ASSUME NEW c \in Calls, CallStep(c) PROVE G
    <3>1. \A k \in Calls : phase[k] = "idle" => phase'[k] = "idle"
      BY <2>2 DEF CallStep, PartnerPerforms, Reply, BackOff, GiveUp, AttemptFails, Wake, Send,
                  Finish, VoiceTypeOK, TypeOK
    <3> QED BY <2>2, <3>1 DEF Next
  <2> QED BY <1>5, <2>1, <2>2 DEF CallsMove
<1>6. CASE ProcessDies
  <2>1. Restart  BY <1>6 DEF ProcessDies
  <2>2. \A c \in Calls : phase[c] = "idle" => phase'[c] = "idle"
    BY <2>1 DEF Restart, Waiting
  <2> QED BY <2>1, <2>2 DEF Next
<1>7. CASE UNCHANGED voiceVars  BY <1>7, <1>0 DEF voiceVars, vars
<1> QED BY <1>1, <1>2, <1>3, <1>4, <1>5, <1>6, <1>7 DEF VoiceNext

\* Every step of the flows is a step of the calls, or leaves them alone.
LEMMA FlowIsCalls == VoiceTypeOK /\ [VoiceNext]_voiceVars => [Next]_vars
BY FlowStarts, VoiceAssumption DEF Next

LEMMA CallsInvStep == VoiceTypeOK /\ IInv /\ [VoiceNext]_voiceVars => IInv'
BY FlowIsCalls, TypeStep, CallStepKeepsInv, BreakerStepKeepsInv DEF IInv

\* What the partner performed stays performed.
LEMMA PerformedGrows ==
  ASSUME TypeOK, [Next]_vars, NEW c \in Calls
  PROVE  performed[c] \subseteq performed'[c]
BY DEF TypeOK, Next, vars, StartCall, StartUnconfigured, StartRefused, StartAdmitted, Send,
       CallStep, PartnerPerforms, Reply, BackOff, GiveUp, AttemptFails, Wake, Tick, callVars,
       Restart

\* A start moves one call.
LEMMA StartsOne ==
  ASSUME TypeOK, NEW c \in Calls, StartCall(c), NEW k \in Calls, k # c
  PROVE  phase'[k] = phase[k]
BY DEF TypeOK, StartCall, StartUnconfigured, StartRefused, StartAdmitted, Send, Finish

-----------------------------------------------------------------------------
(* Escalations *)

\* What a step of an escalation hands to Proceed.
LEMMA EscalationSteps ==
  ASSUME VoiceInv, NEW e \in Escalations, Escalate(e) \/ ContactReturns(e)
  PROVE  \E s \in Seq({"initiated", "not_placed"}) :
           /\ Proceed(e, s)
           /\ Len(s) <= Len(Contacts[e])
           /\ \A i \in 1..Len(s) : s[i] = "initiated" => performed[Contacts[e][i]] # {}
<1>1. /\ statuses[e] \in Seq({"initiated", "not_placed"})
      /\ Contacts[e] \in Seq(Calls)
  BY VoiceAssumption DEF VoiceInv, VoiceTypeOK
<1>2. CASE Escalate(e)
  <2>1. <<>> \in Seq({"initiated", "not_placed"}) /\ Len(<<>>) = 0  OBVIOUS
  <2>2. Len(<<>>) <= Len(Contacts[e])  BY <1>1, <2>1
  <2>3. \A i \in 1..Len(<<>>) : <<>>[i] = "initiated" => performed[Contacts[e][i]] # {}
    BY <2>1
  <2>4. Proceed(e, <<>>)  BY <1>2, Zenon DEF Escalate, ContactReturns
  <2> QED BY <2>1, <2>2, <2>3, <2>4, Zenon
<1>3. CASE ContactReturns(e)
  <2> DEFINE n == Len(statuses[e]) + 1
             c == Contacts[e][n]
             s == Append(statuses[e], PlacementStatus(c))
  <2>1. Len(statuses[e]) < Len(Contacts[e])
    BY <1>3 DEF ContactReturns, VoiceInv, EscalationInv
  <2>2. Len(statuses[e]) \in Nat /\ Len(Contacts[e]) \in Nat  BY <1>1
  <2>3. c \in Calls  BY <1>1, <2>1, <2>2
  <2>4. s \in Seq({"initiated", "not_placed"}) /\ Len(s) = n
    BY <1>1, CollectedStatuses DEF VoiceInv
  <2>5. PlacementStatus(c) = "initiated" => performed[c] # {}
    BY <2>3 DEF PlacementStatus, VoiceInv, IInv, CallInv, Answered
  <2>6. ASSUME NEW i \in 1..Len(s), s[i] = "initiated"
        PROVE  performed[Contacts[e][i]] # {}
    <3>1. CASE i = n  BY <3>1, <1>1, <2>5, <2>6
    <3>2. CASE i # n
      <4>1. i \in 1..Len(statuses[e])  BY <3>2, <2>2, <2>4
      <4>2. s[i] = statuses[e][i]  BY <4>1, <1>1
      <4> QED BY <4>1, <4>2, <2>6 DEF VoiceInv, EscalationInv
    <3> QED BY <3>1, <3>2
  <2>7. Len(s) <= Len(Contacts[e])  BY <2>1, <2>2, <2>4
  <2>8. Proceed(e, s)  BY <1>3 DEF ContactReturns
  <2> QED BY <2>4, <2>6, <2>7, <2>8
<1> QED BY <1>2, <1>3

\* Proceed keeps the records of the escalations typed and honest.
LEMMA ProceedKeeps ==
  ASSUME VoiceInv, NEW e \in Escalations, NEW s \in Seq({"initiated", "not_placed"}),
         Proceed(e, s), [VoiceNext]_voiceVars,
         Len(s) <= Len(Contacts[e]),
         \A i \in 1..Len(s) : s[i] = "initiated" => performed[Contacts[e][i]] # {}
  PROVE  VoiceTypeOK' /\ EscalationInv'
<1>1. /\ VoiceTypeOK /\ IInv /\ EscalationInv
      /\ statuses \in [Escalations -> Seq({"initiated", "not_placed"})]
      /\ task \in [Escalations -> {"new", "running", "recorded", "gone"}]
  BY DEF VoiceInv, VoiceTypeOK
<1>2. IInv' /\ [Next]_vars  BY <1>1, CallsInvStep, FlowIsCalls
<1>3. statuses' = [statuses EXCEPT ![e] = s] /\ UNCHANGED deliveryVars  BY DEF Proceed
<1>4. /\ task' \in [Escalations -> {"new", "running", "recorded", "gone"}]
      /\ \A f \in Escalations \ {e} : task'[f] = task[f]
      /\ task'[e] = "running" => Len(s) < Len(Contacts[e])
  BY <1>1 DEF Proceed
<1>5. VoiceTypeOK'
  <2>1. TypeOK'  BY <1>2 DEF IInv
  <2>2. statuses' \in [Escalations -> Seq({"initiated", "not_placed"})]  BY <1>1, <1>3
  <2>3. \A f \in Escalations : Len(statuses'[f]) <= Len(Contacts[f])
    BY <1>1, <1>3 DEF VoiceTypeOK
  <2> QED BY <1>1, <1>3, <1>4, <2>1, <2>2, <2>3 DEF VoiceTypeOK, deliveryVars
<1>6. EscalationInv'
  <2> SUFFICES ASSUME NEW f \in Escalations
               PROVE  /\ task'[f] = "running" => Len(statuses'[f]) < Len(Contacts[f])
                      /\ \A i \in 1..Len(statuses'[f]) :
                           statuses'[f][i] = "initiated" => performed'[Contacts[f][i]] # {}
    BY DEF EscalationInv
  <2>1. \A i \in 1..Len(Contacts[f]) :
          performed[Contacts[f][i]] # {} => performed'[Contacts[f][i]] # {}
    <3> TAKE i \in 1..Len(Contacts[f])
    <3>1. Contacts[f][i] \in Calls  BY VoiceAssumption
    <3> QED BY <1>1, <1>2, <3>1, PerformedGrows DEF VoiceTypeOK
  <2>2. CASE f = e
    <3>1. statuses'[f] = s  BY <1>1, <1>3, <2>2
    <3>2. Len(s) \in Nat /\ Len(Contacts[f]) \in Nat  BY VoiceAssumption
    <3>3. \A i \in 1..Len(s) : i \in 1..Len(Contacts[f])  BY <3>2, <2>2
    <3> QED BY <1>4, <2>1, <2>2, <3>1, <3>3
  <2>3. CASE f # e
    <3>1. statuses'[f] = statuses[f] /\ task'[f] = task[f]  BY <1>1, <1>3, <1>4, <2>3
    <3>2. Len(statuses[f]) <= Len(Contacts[f])  BY <1>1 DEF VoiceTypeOK
    <3>3. Len(statuses[f]) \in Nat /\ Len(Contacts[f]) \in Nat  BY <1>1, VoiceAssumption
    <3>4. \A i \in 1..Len(statuses[f]) : i \in 1..Len(Contacts[f])  BY <3>2, <3>3
    <3> QED BY <1>1, <2>1, <3>1, <3>4 DEF EscalationInv
  <2> QED BY <2>2, <2>3
<1> QED BY <1>5, <1>6

\* Any other step leaves the statuses alone and starts no escalation.
LEMMA EscalationRests ==
  ASSUME VoiceInv, [VoiceNext]_voiceVars, UNCHANGED statuses,
         \A e \in Escalations : task'[e] = "running" => task[e] = "running"
  PROVE  EscalationInv'
<1>1. VoiceTypeOK /\ EscalationInv  BY DEF VoiceInv
<1>2. [Next]_vars  BY <1>1, FlowIsCalls
<1> SUFFICES ASSUME NEW f \in Escalations, NEW i \in 1..Len(statuses[f]),
                    statuses[f][i] = "initiated"
             PROVE  performed'[Contacts[f][i]] # {}
  BY <1>1 DEF EscalationInv
<1>3. Len(statuses[f]) <= Len(Contacts[f])  BY <1>1 DEF VoiceTypeOK
<1>4. Len(statuses[f]) \in Nat /\ Contacts[f] \in Seq(Calls)
  BY <1>1, VoiceAssumption DEF VoiceTypeOK
<1>5. Contacts[f][i] \in Calls  BY <1>3, <1>4
<1>6. performed[Contacts[f][i]] # {}  BY <1>1 DEF EscalationInv
<1> QED BY <1>1, <1>2, <1>5, <1>6, PerformedGrows DEF VoiceTypeOK

(***************************************************************************)
(* Every step keeps the types, and the records of the escalations honest.  *)
(***************************************************************************)
LEMMA RecordsStep ==
  ASSUME VoiceInv, [VoiceNext]_voiceVars
  PROVE  VoiceTypeOK' /\ EscalationInv'
<1>1. VoiceTypeOK /\ IInv  BY DEF VoiceInv
<1>2. TypeOK'  BY <1>1, CallsInvStep DEF IInv
<1>3. ASSUME NEW e \in Escalations, Escalate(e) \/ ContactReturns(e)
      PROVE  VoiceTypeOK' /\ EscalationInv'
  BY <1>3, EscalationSteps, ProceedKeeps
<1> DEFINE OnlyDelivery == /\ UNCHANGED escalationVars
                           /\ delivery' \in [Deliveries -> {"new", "verifying", "calling"}
                                                             \cup DeliveryOutcomes]
                           /\ identity' \in [Deliveries -> Identities \cup {"unknown"}]
<1>4. ASSUME OnlyDelivery PROVE VoiceTypeOK' /\ EscalationInv'
  <2>1. UNCHANGED <<task, statuses>>  BY <1>4 DEF escalationVars
  <2>2. VoiceTypeOK'  BY <1>1, <1>2, <1>4, <2>1 DEF VoiceTypeOK
  <2> QED BY <2>1, <2>2, EscalationRests
<1>5. ASSUME NEW d \in Deliveries,
             \/ BeginDelivery(d)
             \/ VerifyUnavailable(d)
             \/ \E answer \in Identities : VerifyAnswers(d, answer)
             \/ PhoneReturns(d)
      PROVE  OnlyDelivery
  <2> DEFINE Ends == {"new", "verifying", "calling"} \cup DeliveryOutcomes
             Known == Identities \cup {"unknown"}
  <2>1. delivery \in [Deliveries -> Ends] /\ identity \in [Deliveries -> Known]
    BY <1>1 DEF VoiceTypeOK
  <2>2. UNCHANGED escalationVars
    BY <1>5 DEF BeginDelivery, VerifyUnavailable, VerifyAnswers, PhoneReturns
  <2>3. /\ \E o \in Ends : delivery' = [delivery EXCEPT ![d] = o]
        /\ identity' = identity \/ \E k \in Known : identity' = [identity EXCEPT ![d] = k]
    BY <1>5 DEF BeginDelivery, VerifyUnavailable, VerifyAnswers, PhoneReturns, DeliveryOutcomes
  <2> HIDE DEF Ends, Known
  <2>4. delivery' \in [Deliveries -> Ends] /\ identity' \in [Deliveries -> Known]
    BY <2>1, <2>3
  <2> QED BY <2>2, <2>4 DEF Ends, Known
<1>6. CallsMove \/ UNCHANGED voiceVars => OnlyDelivery
  BY <1>1 DEF CallsMove, voiceVars, deliveryVars, VoiceTypeOK
<1>7. CASE ProcessDies
  <2>1. VoiceTypeOK'  BY <1>1, <1>2, <1>7 DEF ProcessDies, VoiceTypeOK, DeliveryOutcomes
  <2>2. \A e \in Escalations : task'[e] = "running" => task[e] = "running"
    BY <1>7 DEF ProcessDies
  <2> QED BY <1>7, <2>1, <2>2, EscalationRests DEF ProcessDies
<1> QED BY <1>3, <1>4, <1>5, <1>6, <1>7 DEF VoiceNext

-----------------------------------------------------------------------------
(* Deliveries *)

\* Only a positive verification starts a delivery's telephone call.
LEMMA PhoneStarts ==
  ASSUME VoiceInv, [VoiceNext]_voiceVars, NEW d \in Deliveries,
         phase[PhoneCall[d]] = "idle", phase'[PhoneCall[d]] # "idle"
  PROVE  Confirmed(d)
<1>1. VoiceTypeOK /\ TypeOK  BY DEF VoiceInv, VoiceTypeOK
<1>2. PhoneCall[d] \in Calls  BY VoiceAssumption
<1>3. ASSUME NEW c \in Calls, StartCall(c) PROVE c = PhoneCall[d]
  BY <1>1, <1>2, <1>3, StartsOne
<1>4. ASSUME NEW e \in Escalations, NEW i \in 1..Len(Contacts[e]), Contacts[e][i] \in Calls,
             StartCall(Contacts[e][i])
      PROVE  FALSE
  BY <1>3, <1>4, PhoneCallsAssumption
<1>5. ASSUME NEW f \in Deliveries, StartCall(VerifyCall[f]) PROVE FALSE
  <2>1. VerifyCall[f] \in Calls  BY VoiceAssumption
  <2> QED BY <1>3, <1>5, <2>1, PhoneCallsAssumption
<1>6. ASSUME NEW f \in Deliveries, Confirmed(f), StartCall(PhoneCall[f])
      PROVE  Confirmed(d)
  <2>1. PhoneCall[f] \in Calls  BY VoiceAssumption
  <2>2. f = d  BY <1>3, <1>6, <2>1, PhoneCallsAssumption
  <2> QED BY <1>6, <2>2
<1> QED BY <1>1, <1>2, <1>4, <1>5, <1>6, FlowStarts

\* What the partner said of a recipient changes only while it is asked.
LEMMA IdentityStays ==
  ASSUME VoiceTypeOK, [VoiceNext]_voiceVars, NEW d \in Deliveries
  PROVE  /\ identity'[d] = identity[d] \/ delivery[d] = "verifying"
         /\ delivery'[d] \in {"new", "verifying"} => delivery[d] \in {"new", "verifying"}
<1> DEFINE G == /\ identity'[d] = identity[d] \/ delivery[d] = "verifying"
                /\ delivery'[d] \in {"new", "verifying"} => delivery[d] \in {"new", "verifying"}
<1> USE DEF VoiceTypeOK, escalationVars, deliveryVars
<1>1. ASSUME NEW e \in Escalations, Escalate(e) \/ ContactReturns(e)
      PROVE  UNCHANGED deliveryVars
  BY <1>1 DEF Escalate, ContactReturns, Proceed
<1>2. ASSUME NEW f \in Deliveries,
             \/ BeginDelivery(f)
             \/ VerifyUnavailable(f)
             \/ \E answer \in Identities : VerifyAnswers(f, answer)
             \/ PhoneReturns(f)
      PROVE  G
  BY <1>2 DEF BeginDelivery, VerifyUnavailable, VerifyAnswers, PhoneReturns
<1>3. CASE CallsMove  BY <1>3 DEF CallsMove
<1>4. CASE ProcessDies  BY <1>4 DEF ProcessDies
<1>5. CASE UNCHANGED voiceVars  BY <1>5 DEF voiceVars
<1> QED BY <1>1, <1>2, <1>3, <1>4, <1>5 DEF VoiceNext

(***************************************************************************)
(* Every step keeps the order of verification and message.                 *)
(***************************************************************************)
LEMMA DeliveryStep ==
  ASSUME VoiceInv, [VoiceNext]_voiceVars
  PROVE  DeliveryInv'
<1>1. VoiceTypeOK /\ TypeOK /\ IInv /\ DeliveryInv  BY DEF VoiceInv, VoiceTypeOK
<1>2. [Next]_vars  BY <1>1, FlowIsCalls
<1> SUFFICES ASSUME NEW d \in Deliveries
             PROVE  /\ delivery'[d] \in {"new", "verifying"} => phase'[PhoneCall[d]] = "idle"
                    /\ phase'[PhoneCall[d]] # "idle" =>
                         identity'[d] \in Disclosable /\ performed'[VerifyCall[d]] # {}
  BY DEF DeliveryInv
<1>3. VerifyCall[d] \in Calls  BY VoiceAssumption
<1>4. performed[VerifyCall[d]] \subseteq performed'[VerifyCall[d]]
  BY <1>1, <1>2, <1>3, PerformedGrows
<1>5. CASE phase[PhoneCall[d]] # "idle"
  <2>1. delivery[d] \notin {"new", "verifying"}  BY <1>1, <1>5 DEF DeliveryInv
  <2>2. identity'[d] = identity[d] /\ delivery'[d] \notin {"new", "verifying"}
    BY <1>1, <2>1, IdentityStays
  <2> QED BY <1>1, <1>4, <1>5, <2>2 DEF DeliveryInv
<1>6. CASE phase[PhoneCall[d]] = "idle" /\ phase'[PhoneCall[d]] # "idle"
  <2>1. PICK answer \in Disclosable : VerifyAnswers(d, answer)
    BY <1>6, PhoneStarts DEF Confirmed
  <2>2. performed[VerifyCall[d]] # {}
    BY <1>1, <1>3, <2>1 DEF VerifyAnswers, IInv, CallInv, Answered
  <2>3. identity'[d] = answer /\ delivery'[d] = "calling"
    BY <1>1, <2>1 DEF VerifyAnswers, VoiceTypeOK
  <2> QED BY <1>4, <2>2, <2>3
<1>7. CASE phase[PhoneCall[d]] = "idle" /\ phase'[PhoneCall[d]] = "idle"  BY <1>7
<1> QED BY <1>5, <1>6, <1>7

-----------------------------------------------------------------------------
LEMMA VoiceInvInit == VoiceInit => VoiceInv
<1> SUFFICES ASSUME VoiceInit PROVE VoiceInv  OBVIOUS
<1>1. IInv  BY Inductive DEF VoiceInit
<1>2. TypeOK  BY <1>1 DEF IInv
<1>4. VoiceTypeOK
  <2>1. <<>> \in Seq({"initiated", "not_placed"}) /\ Len(<<>>) = 0  OBVIOUS
  <2>2. statuses \in [Escalations -> Seq({"initiated", "not_placed"})]
    BY <2>1 DEF VoiceInit
  <2>3. ASSUME NEW e \in Escalations PROVE Len(statuses[e]) <= Len(Contacts[e])
    BY <2>1, VoiceAssumption DEF VoiceInit
  <2> QED BY <1>2, <2>2, <2>3 DEF VoiceInit, VoiceTypeOK
<1>5. DeliveryInv  BY VoiceAssumption DEF VoiceInit, Init, DeliveryInv
<1>6. EscalationInv
  <2>1. \A e \in Escalations : task[e] = "new" /\ statuses[e] = <<>>  BY DEF VoiceInit
  <2>2. Len(<<>>) = 0  OBVIOUS
  <2> QED BY <2>1, <2>2 DEF EscalationInv
<1> QED BY <1>1, <1>4, <1>5, <1>6 DEF VoiceInv

LEMMA VoiceInvStep == VoiceInv /\ [VoiceNext]_voiceVars => VoiceInv'
BY CallsInvStep, RecordsStep, DeliveryStep DEF VoiceInv

LEMMA VoiceInvAlways == VoiceSpec => []VoiceInv
BY VoiceInvInit, VoiceInvStep, PTL DEF VoiceSpec

(***************************************************************************)
(* The records of the two flows and the calls under them keep their types. *)
(***************************************************************************)
THEOREM VoiceTypeCorrect == VoiceSpec => []VoiceTypeOK
<1>1. VoiceInv => VoiceTypeOK  BY DEF VoiceInv
<1> QED BY <1>1, VoiceInvAlways, PTL

(***************************************************************************)
(* The flows and the calls under them, composed, run the calls only as     *)
(* PartnerCalls specifies: everything proved of Spec holds of them.        *)
(***************************************************************************)
THEOREM FlowsAreCalls == VoiceSpec => Spec
<1>1. VoiceInit => Init  BY DEF VoiceInit
<1>2. VoiceInv /\ [VoiceNext]_voiceVars => [Next]_vars  BY FlowIsCalls DEF VoiceInv
<1> QED BY <1>1, <1>2, VoiceInvAlways, PTL DEF VoiceSpec, Spec

(***************************************************************************)
(* No message is spoken, now or by a late request, to a recipient the      *)
(* partner has not verified, nor to one it verified with a confidence      *)
(* below the threshold, whatever fails and whenever the process dies.      *)
(***************************************************************************)
THEOREM SpokenVerified == VoiceSpec => []SpokenOnlyToVerified
<1>1. VoiceInv => SpokenOnlyToVerified
  <2> SUFFICES ASSUME VoiceInv, NEW d \in Deliveries,
                      performed[PhoneCall[d]] \cup wire[PhoneCall[d]] # {}
               PROVE  performed[VerifyCall[d]] # {} /\ identity[d] \in Disclosable
    BY DEF SpokenOnlyToVerified
  <2>1. PhoneCall[d] \in Calls  BY VoiceAssumption
  <2>2. /\ wire[PhoneCall[d]] \subseteq 1..sends[PhoneCall[d]]
        /\ performed[PhoneCall[d]] \subseteq 1..sends[PhoneCall[d]]
        /\ phase[PhoneCall[d]] = "idle" => sends[PhoneCall[d]] = 0
    BY <2>1 DEF VoiceInv, IInv, CallInv
  <2>3. phase[PhoneCall[d]] # "idle"  BY <2>2
  <2> QED BY <2>3 DEF VoiceInv, DeliveryInv
<1> QED BY <1>1, VoiceInvAlways, PTL

(***************************************************************************)
(* An escalation that reports a contact's call as initiated had it placed, *)
(* exactly once.                                                           *)
(***************************************************************************)
THEOREM NeverOver == VoiceSpec => []NeverOverReports
<1>1. VoiceInv => NeverOverReports
  <2> SUFFICES ASSUME VoiceInv, NEW e \in Escalations, NEW i \in 1..Len(statuses[e]),
                      statuses[e][i] = "initiated"
               PROVE  Cardinality(performed[Contacts[e][i]]) = 1
    BY DEF NeverOverReports
  <2> DEFINE c == Contacts[e][i]
  <2>1. Len(statuses[e]) <= Len(Contacts[e])  BY DEF VoiceInv, VoiceTypeOK
  <2>2. Len(statuses[e]) \in Nat /\ Contacts[e] \in Seq(Calls)
    BY VoiceAssumption DEF VoiceInv, VoiceTypeOK
  <2>3. c \in Calls  BY <2>1, <2>2
  <2>4. performed[c] # {}  BY DEF VoiceInv, EscalationInv
  <2>5. Limit(c) = 1  BY VoiceAssumption DEF Limit
  <2>6. /\ sends[c] \in Nat /\ sends[c] <= 1
        /\ performed[c] \subseteq 1..sends[c]
    BY <2>3, <2>5, CallsAssumption DEF VoiceInv, IInv, TypeOK, CallInv
  <2>7. performed[c] = {1}  BY <2>4, <2>6
  <2> QED BY <2>7, FS_Singleton
<1> QED BY <1>1, VoiceInvAlways, PTL
=============================================================================
