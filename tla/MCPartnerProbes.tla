-------------------------- MODULE MCPartnerProbes ---------------------------
(* Constants of PartnerProbes for TLC. *)
EXTENDS PartnerProbes

CONSTANTS g1, p1, p2

MCCalls == {g1, p1, p2}
MCIdempotent == {g1}
=============================================================================
