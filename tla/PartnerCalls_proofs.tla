------------------------ MODULE PartnerCalls_proofs -------------------------
(***************************************************************************)
(* Proofs about PartnerCalls, for any calls, thresholds and attempts.      *)
(* TypeOK is inductive by itself; the rest needs CallInv, which ties a     *)
(* call's phase to what it has put on the wire, and BreakerInv, which ties *)
(* the failure count to the calls that failed.                             *)
(***************************************************************************)
EXTENDS PartnerCalls, FiniteSetTheorems, TLAPS

\* What a call may have on the wire and at the partner in each phase.
CallInv ==
  \A c \in Calls :
    /\ sends[c] <= Limit(c)
    /\ wire[c] \subseteq 1..sends[c]
    /\ performed[c] \subseteq 1..sends[c]
    /\ wire[c] \cap performed[c] = {}
    /\ phase[c] \in {"idle"} \cup Refused => sends[c] = 0
    /\ phase[c] \in Waiting => sends[c] > 0
    /\ phase[c] = "sleeping" => sends[c] < Limit(c)
    /\ phase[c] \in Answered => performed[c] # {}

\* The count behind the breaker never exceeds the calls that failed.
BreakerInv ==
  /\ opened <=> failures >= Threshold
  /\ failures <= Cardinality(Unavailable)

IInv == TypeOK /\ CallInv /\ BreakerInv

-----------------------------------------------------------------------------
\* The number of attempts allowed to a call is positive and at most Attempts.
LEMMA LimitRange == \A c : Limit(c) \in 1..Attempts
  BY CallsAssumption DEF Limit

\* A closed breaker has the breaker's types.
LEMMA RecordSuccessType ==
  RecordSuccess => failures' \in Nat /\ opened' \in BOOLEAN /\ elapsed' \in 0..ResetTicks
<1> SUFFICES ASSUME RecordSuccess
             PROVE  failures' \in Nat /\ opened' \in BOOLEAN /\ elapsed' \in 0..ResetTicks
  OBVIOUS
<1>1. opened' \in BOOLEAN
  BY Zenon DEF RecordSuccess
<1>2. failures' \in Nat /\ elapsed' \in 0..ResetTicks
  BY CallsAssumption DEF RecordSuccess
<1>3. QED BY <1>1, <1>2

(***************************************************************************)
(* The variables of PartnerCalls always have their types.                  *)
(***************************************************************************)
LEMMA TypeStep == TypeOK /\ CallInv /\ [Next]_vars => TypeOK'
<1> SUFFICES ASSUME TypeOK, CallInv, [Next]_vars PROVE TypeOK'
  OBVIOUS
<1> USE CallsAssumption, LimitRange
    DEF TypeOK, Answered, Refused, Failed, Outcomes, Waiting
<1>1. ASSUME NEW c \in Calls, StartCall(c) PROVE TypeOK'
  <2>1. CASE StartUnconfigured(c) \/ StartRefused(c)
    BY <2>1 DEF StartUnconfigured, StartRefused, Finish, breakerVars
  <2>2. CASE StartAdmitted(c)
    BY <2>2 DEF StartAdmitted, Send, breakerVars, CallInv
  <2>3. QED BY <1>1, <2>1, <2>2 DEF StartCall
<1>2. ASSUME NEW c \in Calls, CallStep(c) PROVE TypeOK'
  <2>1. CASE PartnerPerforms(c)
    BY <2>1 DEF PartnerPerforms, breakerVars
  <2>2. ASSUME NEW o \in Answered, Reply(c, o) PROVE TypeOK'
    BY <2>2, RecordSuccessType DEF Reply, Finish
  <2>3. CASE BackOff(c)
    BY <2>3 DEF BackOff, AttemptFails, breakerVars
  <2>4. CASE GiveUp(c)
    BY <2>4 DEF GiveUp, AttemptFails, Finish, RecordFailure
  <2>5. CASE Wake(c)
    BY <2>5 DEF Wake, Send, breakerVars, CallInv
  <2>6. QED BY <1>2, <2>1, <2>2, <2>3, <2>4, <2>5 DEF CallStep
<1>3. CASE Tick
  BY <1>3 DEF Tick, callVars
<1>4. ASSUME Restart PROVE TypeOK'
  <2>1. phase' \in [Calls -> {"idle"} \cup Waiting \cup Outcomes]
    BY <1>4 DEF Restart
  <2>2. QED BY <1>4, <2>1, RecordSuccessType DEF Restart
<1>5. CASE UNCHANGED vars
  BY <1>5 DEF vars
<1>6. QED BY <1>1, <1>2, <1>3, <1>4, <1>5 DEF Next

(***************************************************************************)
(* Each step keeps every call's phase in line with its attempts.           *)
(***************************************************************************)
LEMMA CallStepKeepsInv == TypeOK /\ CallInv /\ [Next]_vars => CallInv'
<1> SUFFICES ASSUME TypeOK, CallInv, [Next]_vars,
                    NEW d \in Calls
             PROVE  (/\ sends[d] <= Limit(d)
                     /\ wire[d] \subseteq 1..sends[d]
                     /\ performed[d] \subseteq 1..sends[d]
                     /\ wire[d] \cap performed[d] = {}
                     /\ phase[d] \in {"idle"} \cup Refused => sends[d] = 0
                     /\ phase[d] \in Waiting => sends[d] > 0
                     /\ phase[d] = "sleeping" => sends[d] < Limit(d)
                     /\ phase[d] \in Answered => performed[d] # {})'
  BY DEF CallInv, Limit
<1> USE CallsAssumption, LimitRange
    DEF TypeOK, CallInv, Answered, Refused, Failed, Outcomes, Waiting
<1>1. ASSUME NEW c \in Calls, StartCall(c) PROVE CallInv!(d)'
  <2>1. CASE StartUnconfigured(c) \/ StartRefused(c)
    BY <2>1 DEF StartUnconfigured, StartRefused, Finish
  <2>2. CASE StartAdmitted(c)
    BY <2>2 DEF StartAdmitted, Send
  <2>3. QED BY <1>1, <2>1, <2>2 DEF StartCall
<1>2. ASSUME NEW c \in Calls, CallStep(c) PROVE CallInv!(d)'
  <2>1. CASE PartnerPerforms(c)
    BY <2>1 DEF PartnerPerforms
  <2>2. CASE \E o \in Answered : Reply(c, o)
    BY <2>2 DEF Reply, Finish
  <2>3. CASE BackOff(c)
    BY <2>3 DEF BackOff, AttemptFails
  <2>4. CASE GiveUp(c)
    BY <2>4 DEF GiveUp, AttemptFails, Finish
  <2>5. CASE Wake(c)
    BY <2>5 DEF Wake, Send
  <2>6. QED BY <1>2, <2>1, <2>2, <2>3, <2>4, <2>5 DEF CallStep
<1>3. CASE Tick
  BY <1>3 DEF Tick, callVars
<1>4. CASE Restart
  BY <1>4 DEF Restart
<1>5. CASE UNCHANGED vars
  BY <1>5 DEF vars
<1>6. QED BY <1>1, <1>2, <1>3, <1>4, <1>5 DEF Next

-----------------------------------------------------------------------------
\* A call that gives up joins the unavailable ones and raises their number.
LEMMA GiveUpCounts ==
  ASSUME TypeOK, NEW c \in Calls, GiveUp(c)
  PROVE  Cardinality(Unavailable') = Cardinality(Unavailable) + 1
<1>1. c \notin Unavailable
  BY DEF GiveUp, AttemptFails, Unavailable
<1>2. Unavailable' = Unavailable \cup {c}
  BY DEF GiveUp, Finish, Unavailable, TypeOK
<1>3. IsFiniteSet(Unavailable)
  BY CallsAssumption, FS_Subset DEF Unavailable
<1>4. QED BY <1>1, <1>2, <1>3, FS_AddElement

\* No step takes a call out of the unavailable ones.
LEMMA UnavailableGrows ==
  ASSUME TypeOK, [Next]_vars
  PROVE  Cardinality(Unavailable) <= Cardinality(Unavailable')
<1>1. Unavailable \subseteq Unavailable'
  <2> SUFFICES ASSUME NEW d \in Calls, phase[d] = "unavailable"
               PROVE  phase'[d] = "unavailable"
    BY DEF Unavailable
  <2> USE DEF TypeOK, Waiting
  <2>1. ASSUME NEW c \in Calls, StartCall(c) PROVE phase'[d] = "unavailable"
    BY <2>1 DEF StartCall, StartUnconfigured, StartRefused, StartAdmitted, Finish, Send
  <2>2. ASSUME NEW c \in Calls, CallStep(c) PROVE phase'[d] = "unavailable"
    BY <2>2 DEF CallStep, PartnerPerforms, Reply, BackOff, GiveUp, AttemptFails, Wake, Finish, Send
  <2>3. CASE Tick \/ Restart \/ UNCHANGED vars
    BY <2>3 DEF Tick, Restart, vars, callVars
  <2>4. QED BY <2>1, <2>2, <2>3 DEF Next
<1>2. IsFiniteSet(Unavailable')
  BY CallsAssumption, FS_Subset DEF Unavailable
<1>3. QED BY <1>1, <1>2, FS_Subset

(***************************************************************************)
(* Each step keeps the breaker opened exactly at its threshold, and its    *)
(* count within the calls that failed.                                     *)
(***************************************************************************)
LEMMA BreakerStepKeepsInv == TypeOK /\ BreakerInv /\ [Next]_vars => BreakerInv'
<1> SUFFICES ASSUME TypeOK, BreakerInv, [Next]_vars PROVE BreakerInv'
  OBVIOUS
<1>1. /\ Cardinality(Unavailable) \in Nat
      /\ Cardinality(Unavailable') \in Nat
      /\ Cardinality(Unavailable) <= Cardinality(Unavailable')
  <2>1. IsFiniteSet(Unavailable) /\ IsFiniteSet(Unavailable')
    BY CallsAssumption, FS_Subset DEF Unavailable
  <2>2. QED BY <2>1, UnavailableGrows, FS_CardinalityType
<1>2. ASSUME UNCHANGED <<failures, opened>> PROVE BreakerInv'
  BY <1>1, <1>2, CallsAssumption DEF BreakerInv, TypeOK
<1>3. ASSUME RecordSuccess PROVE BreakerInv'
  BY <1>1, <1>3, CallsAssumption DEF BreakerInv, RecordSuccess
<1>4. ASSUME NEW c \in Calls, GiveUp(c) PROVE BreakerInv'
  <2>1. Cardinality(Unavailable') = Cardinality(Unavailable) + 1
    BY <1>4, GiveUpCounts
  <2>2. failures' = failures + 1 /\ (opened' <=> opened \/ failures + 1 >= Threshold)
    BY <1>4 DEF GiveUp, RecordFailure
  <2>3. QED BY <1>1, <2>1, <2>2, CallsAssumption DEF BreakerInv, TypeOK
<1>5. ASSUME NEW c \in Calls, StartCall(c) PROVE UNCHANGED <<failures, opened>>
  BY <1>5 DEF StartCall, StartUnconfigured, StartRefused, StartAdmitted, breakerVars
<1>6. ASSUME NEW c \in Calls, PartnerPerforms(c) \/ BackOff(c) \/ Wake(c)
      PROVE  UNCHANGED <<failures, opened>>
  BY <1>6 DEF PartnerPerforms, BackOff, Wake, breakerVars
<1>7. CASE Tick \/ UNCHANGED vars
  BY <1>2, <1>7 DEF Tick, vars
<1>8. ASSUME NEW c \in Calls, NEW o \in Answered, Reply(c, o) PROVE BreakerInv'
  BY <1>3, <1>8 DEF Reply
<1>9. CASE Restart
  BY <1>3, <1>9 DEF Restart
<1>10. QED
  BY <1>2, <1>4, <1>5, <1>6, <1>7, <1>8, <1>9 DEF Next, CallStep

-----------------------------------------------------------------------------
\* IInv holds initially and is kept by every step.
LEMMA Inductive == Init => IInv
<1> SUFFICES ASSUME Init PROVE IInv
  OBVIOUS
<1>1. TypeOK
  <2>1. opened \in BOOLEAN
    BY Zenon DEF Init
  <2>2. QED BY <2>1, CallsAssumption DEF Init, TypeOK
<1>2. CallInv
  BY LimitRange, CallsAssumption DEF Init, CallInv, Answered, Refused, Waiting
<1>3. BreakerInv
  <2>1. Unavailable = {}
    BY DEF Init, Unavailable
  <2>2. QED BY <2>1, FS_EmptySet, CallsAssumption DEF Init, BreakerInv
<1>4. QED BY <1>1, <1>2, <1>3 DEF IInv

THEOREM Invariance == Spec => []IInv
<1>1. IInv /\ [Next]_vars => IInv'
  BY TypeStep, CallStepKeepsInv, BreakerStepKeepsInv DEF IInv
<1>2. QED BY Inductive, <1>1, PTL DEF Spec

\* The state keeps its types.
THEOREM TypeCorrect == Spec => []TypeOK
<1>1. IInv => TypeOK
  BY DEF IInv
<1>2. QED BY <1>1, Invariance, PTL

(***************************************************************************)
(* A request not declared repeatable is performed at most once: its        *)
(* performed attempts lie in 1..sends, and sends never exceeds its limit.  *)
(***************************************************************************)
THEOREM AtMostOnce == Spec => []SideEffectAtMostOnce
<1>1. IInv => SideEffectAtMostOnce
  <2> SUFFICES ASSUME IInv, NEW c \in Calls \ Idempotent
               PROVE  Cardinality(performed[c]) <= 1
    BY DEF SideEffectAtMostOnce
  <2>1. performed[c] \in SUBSET {1}
    BY DEF IInv, TypeOK, CallInv, Limit
  <2>2. IsFiniteSet({1}) /\ Cardinality({1}) = 1
    BY FS_Singleton
  <2>3. QED BY <2>1, <2>2, FS_Subset
<1>2. QED BY <1>1, Invariance, PTL

\* What a caller is told about a request agrees with what became of it.
THEOREM Honest == Spec => []AnswerIsHonest
<1>1. IInv => AnswerIsHonest
  BY DEF IInv, TypeOK, CallInv, AnswerIsHonest
<1>2. QED BY <1>1, Invariance, PTL

\* The breaker is open only if Threshold distinct calls have failed.
THEOREM OpenSound == Spec => []OpenMeansManyFailed
<1>1. IInv => OpenMeansManyFailed
  <2> SUFFICES ASSUME IInv, opened PROVE Cardinality(Unavailable) >= Threshold
    BY DEF OpenMeansManyFailed
  <2>1. IsFiniteSet(Unavailable)
    BY CallsAssumption, FS_Subset DEF Unavailable
  <2>2. Cardinality(Unavailable) \in Nat
    BY <2>1, FS_CardinalityType
  <2>3. QED BY <2>2, CallsAssumption DEF IInv, TypeOK, BreakerInv
<1>2. QED BY <1>1, Invariance, PTL

\* An open breaker gives the partner no traffic but that of older calls.
THEOREM FailsFast == Spec => OpenAdmitsNoNewCall
<1>1. ASSUME IInv, [Next]_vars, NEW d \in Calls, BreakerState = "open", sends[d] = 0
      PROVE  sends'[d] = 0
  <2> USE DEF IInv, TypeOK, CallInv, Waiting
  <2>1. ASSUME NEW c \in Calls, StartCall(c) PROVE sends'[d] = 0
    BY <1>1, <2>1 DEF StartCall, StartUnconfigured, StartRefused, StartAdmitted
  <2>2. ASSUME NEW c \in Calls, Wake(c) PROVE sends'[d] = 0
    <3>1. sends[c] # 0
    BY <2>2, <1>1 DEF Wake
    <3>2. QED BY <1>1, <2>2, <3>1 DEF Wake, Send
  <2>3. ASSUME NEW c \in Calls, CallStep(c), ~Wake(c) PROVE sends'[d] = 0
    BY <1>1, <2>3 DEF CallStep, PartnerPerforms, Reply, BackOff, GiveUp, AttemptFails
  <2>4. CASE Tick \/ Restart \/ UNCHANGED vars
    BY <1>1, <2>4 DEF Tick, Restart, vars, callVars
  <2>5. QED BY <1>1, <2>1, <2>2, <2>3, <2>4 DEF Next
<1>2. IInv /\ [Next]_vars
        => [\A c \in Calls : BreakerState = "open" /\ sends[c] = 0 => sends'[c] = 0]_vars
  BY <1>1
<1>3. QED BY <1>2, Invariance, PTL DEF Spec, OpenAdmitsNoNewCall

-----------------------------------------------------------------------------
(* The refinement of PartnerContract *)

\* The outcome of call c as its caller sees it.
Seen(c) == IF phase[c] \in Outcomes THEN phase[c] ELSE "pending"

\* A step that changes only the phase of c, to an outcome, answers its caller.
LEMMA FinishAnswers ==
  ASSUME TypeOK, NEW c \in Calls, NEW o \in Outcomes,
         phase[c] \notin Outcomes, Finish(c, o), UNCHANGED performed,
         o \in Answered => performed[c] # {},
         o \in Refused => performed[c] = {}
  PROVE  Contract!Answer(c, o)
BY DEF TypeOK, Finish, Contract!Answer, Contract!Answered, Contract!Refused,
       Answered, Refused, Failed, Outcomes

\* A step between two phases that are not outcomes changes nothing to see.
LEMMA MoveStutters ==
  ASSUME TypeOK, NEW c \in Calls, NEW p \in Waiting,
         phase[c] \notin Outcomes, phase' = [phase EXCEPT ![c] = p],
         UNCHANGED performed
  PROVE  UNCHANGED Contract!vars
BY DEF TypeOK, Contract!vars, Answered, Refused, Failed, Outcomes, Waiting

(***************************************************************************)
(* Every step of PartnerCalls is a step of PartnerContract or leaves what  *)
(* the contract speaks of unchanged.                                       *)
(***************************************************************************)
LEMMA StepImplements == IInv /\ [Next]_vars => [Contract!Next]_(Contract!vars)
<1> SUFFICES ASSUME IInv, [Next]_vars
             PROVE  Contract!Next \/ UNCHANGED Contract!vars
  OBVIOUS
<1>0. /\ Contract!Outcomes = Outcomes
      /\ Answered \subseteq Outcomes /\ Refused \subseteq Outcomes
      /\ "unavailable" \in Outcomes /\ "idle" \notin Outcomes
      /\ Waiting \cap Outcomes = {}
      /\ "inflight" \in Waiting /\ "sleeping" \in Waiting
  BY DEF Contract!Outcomes, Contract!Answered, Contract!Refused, Contract!Failed,
         Outcomes, Answered, Refused, Failed, Waiting
<1>1. ASSUME NEW c \in Calls, NEW o \in Outcomes, Contract!Answer(c, o)
      PROVE  Contract!Next
  BY <1>0, <1>1 DEF Contract!Next
<1>2. ASSUME NEW c \in Calls, StartCall(c) PROVE Contract!Next \/ UNCHANGED Contract!vars
  <2>1. phase[c] = "idle" /\ performed[c] = {}
    BY <1>2 DEF StartCall, StartUnconfigured, StartRefused, StartAdmitted, IInv, TypeOK, CallInv
  <2>2. CASE StartUnconfigured(c)
    BY <1>0, <1>1, <2>1, <2>2, FinishAnswers
       DEF StartUnconfigured, IInv, Refused, Answered
  <2>3. CASE StartRefused(c)
    BY <1>0, <1>1, <2>1, <2>3, FinishAnswers DEF StartRefused, IInv, Refused, Answered
  <2>4. CASE StartAdmitted(c)
    BY <1>0, <2>1, <2>4, MoveStutters DEF StartAdmitted, Send, IInv
  <2>5. QED BY <1>2, <2>2, <2>3, <2>4 DEF StartCall
<1>3. ASSUME NEW c \in Calls, PartnerPerforms(c) PROVE Contract!Next
  <2>1. PICK a \in wire[c] : performed' = [performed EXCEPT ![c] = @ \cup {a}]
    BY <1>3 DEF PartnerPerforms
  <2>2. a \in (1..Limit(c)) \ performed[c]
    <3>1. a \in 1..sends[c] /\ a \notin performed[c] /\ sends[c] <= Limit(c)
      BY DEF IInv, CallInv
    <3>2. sends[c] \in Nat /\ Limit(c) \in Nat
      BY LimitRange, CallsAssumption DEF IInv, TypeOK
    <3>3. QED BY <3>1, <3>2
  <2>3. Seen(c) \notin Contract!Refused
    <3>1. sends[c] # 0
      BY DEF IInv, TypeOK, CallInv
    <3>2. QED BY <3>1 DEF IInv, CallInv, Seen, Contract!Refused, Refused
  <2>4. UNCHANGED phase
    BY <1>3 DEF PartnerPerforms
  <2>5. Contract!Perform(c)
    BY <2>1, <2>2, <2>3, <2>4 DEF Contract!Perform, Contract!Limit, Limit, Seen
  <2>6. QED BY <2>5 DEF Contract!Next
<1>4. ASSUME NEW c \in Calls, NEW o \in Answered, Reply(c, o) PROVE Contract!Next
  BY <1>0, <1>1, <1>4, FinishAnswers DEF Reply, IInv, Answered, Refused, Waiting
<1>5. ASSUME NEW c \in Calls, GiveUp(c) PROVE Contract!Next
  BY <1>0, <1>1, <1>5, FinishAnswers DEF GiveUp, AttemptFails, IInv, Answered, Refused, Waiting
<1>6. ASSUME NEW c \in Calls, BackOff(c) \/ Wake(c) PROVE UNCHANGED Contract!vars
  <2>1. phase[c] \in Waiting /\ \E p \in Waiting : phase' = [phase EXCEPT ![c] = p]
    BY <1>0, <1>6 DEF BackOff, AttemptFails, Wake, Send
  <2>2. UNCHANGED performed
    BY <1>6 DEF BackOff, AttemptFails, Wake, Send
  <2>3. QED BY <1>0, <2>1, <2>2, MoveStutters DEF IInv
<1>7. ASSUME Restart PROVE Contract!Next
  <2>1. PICK S \in SUBSET Calls : S = {c \in Calls : phase[c] \in Waiting}
    OBVIOUS
  <2>2. \A c \in S : Seen(c) = "pending"
    BY <1>0, <2>1 DEF Seen
  <2>3. [c \in Calls |-> Seen(c)]' = [c \in Calls |-> IF c \in S THEN "lost" ELSE Seen(c)]
    BY <1>7, <2>1 DEF Restart, Seen, IInv, TypeOK, Waiting, Outcomes, Answered, Refused, Failed
  <2>4. Contract!Abandon(S)
    BY <1>7, <2>2, <2>3 DEF Contract!Abandon, Restart, Seen
  <2>5. QED BY <2>4 DEF Contract!Next
<1>8. CASE Tick \/ UNCHANGED vars
  BY <1>8 DEF Tick, vars, callVars, Contract!vars
<1>9. QED
  BY <1>2, <1>3, <1>4, <1>5, <1>6, <1>7, <1>8 DEF Next, CallStep

(***************************************************************************)
(* Every behaviour of the client and its breaker is one the contract       *)
(* allows, whatever the calls, their methods and the breaker's parameters. *)
(***************************************************************************)
THEOREM Implements == Spec => ImplementsContract
<1>1. Init => Contract!Init
  BY DEF Init, Contract!Init, Outcomes, Answered, Refused, Failed
<1>2. QED
  BY <1>1, StepImplements, Invariance, PTL DEF Spec, Contract!Spec, ImplementsContract
=============================================================================
