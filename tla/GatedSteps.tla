----------------------------- MODULE GatedSteps -----------------------------
(***************************************************************************)
(* What a gated wizard promises: its steps are walked one at a time, a     *)
(* step is left forwards only through its gate, and the wizard is          *)
(* completed only when every gate is open.  The implementations test one   *)
(* gate at a time, the one of the step on screen.                          *)
(***************************************************************************)
EXTENDS Integers

CONSTANT Steps   \* number of steps

VARIABLES
  at,          \* the step on screen
  open,        \* the steps whose gate is open
  completions  \* the sets of open gates the wizard was completed with

gatedVars == <<at, open, completions>>

GatedInit == at = 1 /\ open \subseteq 1..Steps /\ completions = {}

\* Only the gate of the step on screen is worked on.
Work == /\ \E gates \in SUBSET (1..Steps) :
             /\ open' = gates
             /\ gates \ {at} = open \ {at}
        /\ UNCHANGED <<at, completions>>
Forward == at < Steps /\ at \in open /\ at' = at + 1 /\ UNCHANGED <<open, completions>>
Backward == at > 1 /\ at' = at - 1 /\ UNCHANGED <<open, completions>>
Complete == /\ at = Steps /\ open = 1..Steps
            /\ at' = 1 /\ completions' = completions \cup {1..Steps}
            /\ open' \in SUBSET (1..Steps)

GatedNext == Work \/ Forward \/ Backward \/ Complete
GatedSpec == GatedInit /\ [][GatedNext]_gatedVars
=============================================================================
