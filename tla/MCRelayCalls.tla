---------------------------- MODULE MCRelayCalls -----------------------------
(* RelayCalls for TLC: two devices, two workers of the relay. *)
EXTENDS RelayCalls

CONSTANTS d1, d2, w1, w2
=============================================================================
