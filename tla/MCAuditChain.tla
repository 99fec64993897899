---------------------------- MODULE MCAuditChain ----------------------------
(* Constants of AuditChain for TLC. *)
EXTENDS AuditChain, TLC

CONSTANTS ws, anonymous

MCTrails == {ws, anonymous}

\* Two entries of the anonymous trail; the others share one workspace.
MCTwoTrails == [e \in Entries |-> IF e \in {1, 5} THEN anonymous ELSE ws]
=============================================================================
