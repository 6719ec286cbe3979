----------------------------- MODULE MCHandshake -----------------------------
(* Handshake for TLC: two handshakes of one initiator. *)
EXTENDS Handshake

CONSTANTS h1, h2, alice

MCInitiatorOf == [h \in Handshakes |-> alice]

\* Two instances behind one replay guard, and one instance without a guard
\* whose pool is replenished.
MCDeployments ==
  {[serving |-> {1, 2}, guarded |-> TRUE, replenishes |-> 0],
   [serving |-> {1}, guarded |-> FALSE, replenishes |-> 1]}
=============================================================================
