--------------------------- MODULE MCPartnerCalls ---------------------------
(* Constants of PartnerCalls for TLC. *)
EXTENDS PartnerCalls, TLC

CONSTANTS g1, g2, p1, p2  \* two GETs and two POSTs

MCCalls == {g1, g2, p1, p2}
MCIdempotent == {g1, g2}
MCConfigured == {g1, g2, p1}  \* p2's client has no API key
=============================================================================
