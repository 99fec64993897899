--------------------------- MODULE PartnerProbes ----------------------------
(* PartnerCalls with a history variable: which waiting calls are probes. *)
EXTENDS PartnerCalls

VARIABLE probes  \* calls admitted by a half-open breaker and still waiting

\* Call c is let through by a half-open breaker in this step.
LetThrough(c) == BreakerState = "half_open" /\ sends[c] = 0 /\ sends'[c] = 1

ProbeSpec ==
  /\ Init /\ probes = {}
  /\ [][/\ Next
        /\ probes' = {c \in Calls : /\ phase'[c] \in Waiting
                                    /\ c \in probes \/ LetThrough(c)}
       ]_<<vars, probes>>

(***************************************************************************)
(* _resilience.py calls reset_seconds "How long to fail fast before        *)
(* letting a single probe through": once a probe has failed, the partner   *)
(* is failed fast again.                                                   *)
(***************************************************************************)
FailedProbeReopens ==
  [][(\E c \in probes : phase'[c] = "unavailable") => BreakerState' = "open"
    ]_<<vars, probes>>
=============================================================================
