---------------------------- MODULE MCConsoleForms ----------------------------
(***************************************************************************)
(* The pages of the console that ask no server for what they show, one     *)
(* page open per behaviour, for TLC.  A page left is unmounted, so two     *)
(* pages never share a state.                                              *)
(***************************************************************************)
EXTENDS Vetting, Onboarding, Automation, Exports, RiskQueue, DecisionRoom, TLC

CONSTANTS q1, q2, q3  \* items of the review queue

MCTypeOf == [r1 |-> "contracts", r2 |-> "contracts", r3 |-> "evidence"]
MCRecords == DOMAIN MCTypeOf
MCOpensAs == q1 :> "Pending" @@ q2 :> "Pending" @@ q3 :> "Archived"
MCRuleOf == q1 :> "GEO-002" @@ q2 :> "SURV-001" @@ q3 :> "MED-001"

VARIABLE opened  \* the page that is open

consoleVars == <<opened, vettingVars, onboardingVars, automationVars, exportsVars,
                 riskQueueVars, decisionRoomVars>>
Open(name) == opened = name /\ UNCHANGED opened

ConsoleInit ==
  /\ opened \in {"vetting", "onboarding", "automation", "exports", "riskQueue",
                 "decisionRoom"}
  /\ VettingInit /\ OnboardingInit /\ AutomationInit /\ ExportsInit
  /\ RiskQueueInit /\ DecisionRoomInit

ConsoleNext ==
  \/ /\ VettingNext /\ Open("vetting")
     /\ UNCHANGED <<onboardingVars, automationVars, exportsVars, riskQueueVars, decisionRoomVars>>
  \/ /\ OnboardingNext /\ Open("onboarding")
     /\ UNCHANGED <<vettingVars, automationVars, exportsVars, riskQueueVars, decisionRoomVars>>
  \/ /\ AutomationNext /\ Open("automation")
     /\ UNCHANGED <<vettingVars, onboardingVars, exportsVars, riskQueueVars, decisionRoomVars>>
  \/ /\ ExportsNext /\ Open("exports")
     /\ UNCHANGED <<vettingVars, onboardingVars, automationVars, riskQueueVars, decisionRoomVars>>
  \/ /\ RiskQueueNext /\ Open("riskQueue")
     /\ UNCHANGED <<vettingVars, onboardingVars, automationVars, exportsVars, decisionRoomVars>>
  \/ /\ DecisionRoomNext /\ Open("decisionRoom")
     /\ UNCHANGED <<vettingVars, onboardingVars, automationVars, exportsVars, riskQueueVars>>

\* The scan's interval ticks.
ConsoleSpec ==
  /\ ConsoleInit /\ [][ConsoleNext]_consoleVars
  /\ WF_consoleVars(/\ ScanTick /\ Open("onboarding")
                    /\ UNCHANGED <<vettingVars, automationVars, exportsVars, riskQueueVars, decisionRoomVars>>)

\* Each page keeps its types.
FormsTypeOK ==
  /\ VettingTypeOK /\ OnboardingTypeOK /\ AutomationTypeOK
  /\ ExportsTypeOK /\ RiskQueueTypeOK /\ DecisionRoomTypeOK
=============================================================================
