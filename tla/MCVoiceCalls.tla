---------------------------- MODULE MCVoiceCalls ----------------------------
(* Constants of VoiceCalls for TLC: one escalation to three contacts and   *)
(* one delivery, sharing a breaker that opens after two failures.          *)
EXTENDS VoiceCalls, TLC

CONSTANTS e1, d1, k1, k2, k3, v1, m1

MCCalls == {k1, k2, k3, v1, m1}
MCContacts == e1 :> <<k1, k2, k3>>
MCVerifyCall == d1 :> v1
MCPhoneCall == d1 :> m1
=============================================================================
