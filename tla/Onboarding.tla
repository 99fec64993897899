----------------------------- MODULE Onboarding -----------------------------
(***************************************************************************)
(* The onboarding wizard (app/onboarding/page.tsx): six steps, three of    *)
(* them with a gate on Next, and a Skip that tests none.  The scan of the  *)
(* third step is an interval that keeps running while the operator moves   *)
(* to other steps.  Sources and readiness answers only change what is      *)
(* counted on screen and are left out.                                     *)
(***************************************************************************)
EXTENDS Integers

CONSTANT ScanTicks   \* interval ticks from 0 to 100 percent

ASSUME OnboardingAssumption == ScanTicks \in Nat \ {0}

VARIABLES
  currentStep,
  named,         \* the profile has a name that is not blank
  intervals,     \* intervals started by runAiScan and not yet cleared
  scanRunning, scanProgress, scanComplete,
  playbookPicked,
  skipped,       \* history: Skip was used
  entered        \* history: "Go to Dashboard" was pressed

onboardingVars == <<currentStep, named, intervals, scanRunning, scanProgress,
                    scanComplete, playbookPicked, skipped, entered>>
answers == <<named, playbookPicked>>
aiScan == <<intervals, scanRunning, scanProgress, scanComplete>>

OnboardingInit ==
  /\ currentStep = 1 /\ named = FALSE /\ playbookPicked = FALSE
  /\ intervals = 0 /\ scanRunning = FALSE /\ scanProgress = 0 /\ scanComplete = FALSE
  /\ skipped = FALSE /\ entered = FALSE

\* Mutant: the gate of the playbook step is forgotten.
CanProceed_NoPlaybook == CASE currentStep = 1 -> named
                           [] currentStep = 3 -> scanComplete
                           [] OTHER -> TRUE

CanProceed == CASE currentStep = 1 -> named
                [] currentStep = 3 -> scanComplete
                [] currentStep = 5 -> playbookPicked
                [] OTHER -> TRUE

HandleNext ==
  /\ ~entered /\ CanProceed
  /\ IF currentStep < 6
       THEN currentStep' = currentStep + 1 /\ UNCHANGED entered
       ELSE entered' = TRUE /\ UNCHANGED currentStep
  /\ UNCHANGED <<answers, aiScan, skipped>>

\* Mutant: leaving the scan's step clears its interval and nothing else.
HandleBack_StopsScan == /\ ~entered /\ currentStep > 1
                        /\ currentStep' = currentStep - 1 /\ intervals' = 0
                        /\ UNCHANGED <<answers, scanRunning, scanProgress, scanComplete,
                                       skipped, entered>>

HandleBack == /\ ~entered /\ currentStep > 1
              /\ currentStep' = currentStep - 1
              /\ UNCHANGED <<answers, aiScan, skipped, entered>>

HandleSkip == /\ ~entered /\ currentStep < 6
              /\ currentStep' = currentStep + 1 /\ skipped' = TRUE
              /\ UNCHANGED <<answers, aiScan, entered>>

\* The name can be typed and erased; a playbook, once picked, only replaced.
EditName == /\ ~entered /\ currentStep = 1 /\ named' = ~named
            /\ UNCHANGED <<currentStep, playbookPicked, aiScan, skipped, entered>>
PickPlaybook == /\ ~entered /\ currentStep = 5 /\ playbookPicked' = TRUE
                /\ UNCHANGED <<currentStep, named, aiScan, skipped, entered>>

RunButtonShown == ~entered /\ currentStep = 3 /\ ~scanComplete /\ ~scanRunning
RunAiScan ==
  /\ RunButtonShown
  /\ intervals' = intervals + 1
  /\ scanRunning' = TRUE /\ scanProgress' = 0
  /\ UNCHANGED <<currentStep, answers, scanComplete, skipped, entered>>

\* The tick that finds the bar full clears its own interval.  Leaving for the
\* dashboard unmounts the page; what it ticks then is not seen.
ScanTick ==
  /\ intervals > 0 /\ ~entered
  /\ IF scanProgress >= ScanTicks
       THEN /\ intervals' = intervals - 1
            /\ scanRunning' = FALSE /\ scanComplete' = TRUE
            /\ UNCHANGED scanProgress
       ELSE /\ scanProgress' = scanProgress + 1
            /\ UNCHANGED <<intervals, scanRunning, scanComplete>>
  /\ UNCHANGED <<currentStep, answers, skipped, entered>>

OnboardingNext == \/ HandleNext \/ HandleBack \/ HandleSkip
                  \/ EditName \/ PickPlaybook \/ RunAiScan \/ ScanTick

OnboardingSpec == OnboardingInit /\ [][OnboardingNext]_onboardingVars

-----------------------------------------------------------------------------
OnboardingTypeOK ==
  /\ currentStep \in 1..6
  /\ named \in BOOLEAN /\ playbookPicked \in BOOLEAN
  /\ intervals \in Nat
  /\ scanRunning \in BOOLEAN /\ scanComplete \in BOOLEAN
  /\ scanProgress \in 0..ScanTicks
  /\ skipped \in BOOLEAN /\ entered \in BOOLEAN

\* Steps left and come back to never start a second scan over a running one:
\* exactly one interval runs while the bar is shown, and none otherwise.
OneScanInterval == intervals = IF scanRunning THEN 1 ELSE 0

\* Without Skip, whoever stands past a gate, the erased name and the walked
\* back steps included, has it open still.
GatesHoldBehind ==
  ~skipped => /\ currentStep > 1 => named
              /\ currentStep > 3 => scanComplete
              /\ currentStep > 5 => playbookPicked

\* A scan that has begun ends, on whatever step the operator is by then: no
\* step left, walked back to or skipped keeps the gate of step 3 shut.
ScanFinishes == scanRunning ~> scanComplete \/ entered
=============================================================================
