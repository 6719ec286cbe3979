------------------------------ MODULE MCSession ------------------------------
EXTENDS Session, TLC

\* One long direction, and enough answers for both sides to ratchet and cross.
Sends == (Initiator :> 5) @@ (Responder :> 3)

\* Enough for the two sides to ratchet at once.
CrossingSends == (Initiator :> 3) @@ (Responder :> 3)
=============================================================================
