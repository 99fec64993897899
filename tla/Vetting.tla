------------------------------- MODULE Vetting -------------------------------
(***************************************************************************)
(* The partner vetting wizard (app/partners/page.tsx).  The wizard is      *)
(* mounted all the time and returns nothing while it is closed, so closing *)
(* it part-way keeps its step and its ticks.                               *)
(***************************************************************************)
EXTENDS Integers

CONSTANT VettingSteps   \* length of VETTING_STEPS

ASSUME VettingAssumption == VettingSteps \in Nat \ {0}

VARIABLES
  wizardOpen,
  vetStep,    \* index into VETTING_STEPS, from 0
  checks,     \* "Mark this step as complete", per step
  vetted      \* history: the ticked steps of each completed vetting

vettingVars == <<wizardOpen, vetStep, checks, vetted>>

Indices == 0..VettingSteps - 1
NoChecks == [i \in Indices |-> FALSE]
Ticked == {i \in Indices : checks[i]}

VettingInit == wizardOpen = FALSE /\ vetStep = 0 /\ checks = NoChecks /\ vetted = {}

StartVetting == wizardOpen' = TRUE /\ UNCHANGED <<vetStep, checks, vetted>>
CloseWizard == wizardOpen /\ wizardOpen' = FALSE /\ UNCHANGED <<vetStep, checks, vetted>>

\* The checkbox drawn is that of the step on screen.
ToggleCheck ==
  /\ wizardOpen
  /\ checks' = [checks EXCEPT ![vetStep] = ~@]
  /\ UNCHANGED <<wizardOpen, vetStep, vetted>>

BackStep == /\ wizardOpen /\ vetStep > 0
            /\ vetStep' = vetStep - 1
            /\ UNCHANGED <<wizardOpen, checks, vetted>>

\* Mutant: any tick will do.
CanNext_AnyTick == wizardOpen /\ Ticked # {}

CanNext == wizardOpen /\ checks[vetStep]
IsLast == vetStep = VettingSteps - 1

NextStep == /\ CanNext /\ ~IsLast
            /\ vetStep' = vetStep + 1
            /\ UNCHANGED <<wizardOpen, checks, vetted>>

CompleteVetting ==
  /\ CanNext /\ IsLast
  /\ vetted' = vetted \cup {Ticked}
  /\ wizardOpen' = FALSE /\ vetStep' = 0 /\ checks' = NoChecks

VettingNext == \/ StartVetting \/ CloseWizard \/ ToggleCheck
               \/ BackStep \/ NextStep \/ CompleteVetting

VettingSpec == VettingInit /\ [][VettingNext]_vettingVars

-----------------------------------------------------------------------------
VettingTypeOK ==
  /\ wizardOpen \in BOOLEAN
  /\ vetStep \in Indices
  /\ checks \in [Indices -> BOOLEAN]
  /\ vetted \subseteq SUBSET Indices

\* However the operator walks back, unticks, closes and reopens, a vetting is
\* completed only with every step ticked: the button tests one step alone.
VettedOnlyWhole == vetted \subseteq {Indices}

\* What makes it so: a step behind the one on screen was ticked when it was
\* passed, and only the step on screen can be unticked.
PassedStepsTicked == \A i \in Indices : i < vetStep => checks[i]

\* The wizard keeps the promise of GatedSteps.
VettingGates == INSTANCE GatedSteps
  WITH Steps <- VettingSteps, at <- vetStep + 1,
       open <- {i + 1 : i \in Ticked},
       completions <- {{i + 1 : i \in ticked} : ticked \in vetted}
VettingIsGated == VettingGates!GatedSpec
=============================================================================
