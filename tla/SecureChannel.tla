---------------------------- MODULE SecureChannel ----------------------------
(***************************************************************************)
(* What a session promises its two users: a message handed to the channel  *)
(* gets an identity of its own, and the other endpoint is given it at most *)
(* once and only if it was sent.  Nothing is promised about order.         *)
(***************************************************************************)
EXTENDS Naturals

CONSTANTS Initiator, Responder

VARIABLES
  sent,       \* sent[p]: identities of the messages p has sent
  delivered,  \* delivered[p]: identities of the messages p was given
  received    \* received[p]: how many times p was given a message

Peers == {Initiator, Responder}
Peer(p) == IF p = Initiator THEN Responder ELSE Initiator

Init ==
  /\ sent = [p \in Peers |-> {}]
  /\ delivered = [p \in Peers |-> {}]
  /\ received = [p \in Peers |-> 0]

Send(p) ==
  /\ \E id \in sent'[p] \ sent[p] : sent' = [sent EXCEPT ![p] = @ \cup {id}]
  /\ UNCHANGED <<delivered, received>>

Deliver(p) ==
  /\ \E id \in sent[Peer(p)] \ delivered[p] :
       delivered' = [delivered EXCEPT ![p] = @ \cup {id}]
  /\ received' = [received EXCEPT ![p] = @ + 1]
  /\ UNCHANGED sent

Next == \E p \in Peers : Send(p) \/ Deliver(p)

Spec == Init /\ [][Next]_<<sent, delivered, received>>
=============================================================================
