----------------------------- MODULE MCRatchets ------------------------------
(***************************************************************************)
(* The two symmetric ratchets whose messages may come late, twice or never,*)
(* for TLC: a VoIP call, and one receiver of a group's sender keys.  A     *)
(* behaviour takes one of them and leaves the other as it starts; the      *)
(* fairness of a part is asked for in its own behaviours only, where an    *)
(* enabled step can be taken.                                              *)
(***************************************************************************)
EXTENDS MCVoipCall, SenderKeys

VARIABLE part

all_vars == <<part, call_vars, vars>>

MCSenders == {1, 3}

Extent(ss, sent, epochs, restores, timed, losses) ==
  [ senders |-> ss, max_sent |-> sent, max_epoch |-> epochs, max_reloads |-> restores,
    max_timed |-> timed, max_lost |-> losses ]

MCExtents ==
  { Extent(MCSenders, 4, 0, 1, 1, 0),  \* two senders sharing the cache
    Extent({1}, 5, 0, 1, 1, 3),        \* gaps as wide as the policy allows, and wider
    Extent({1}, 3, 2, 1, 1, 0),        \* epochs
    Extent({3}, 3, 1, 0, 1, 2) }       \* losses and epochs

PartInit ==
  /\ part \in {"call", "sender_keys"}
  /\ CallInit /\ Init
  /\ part # "call" => scenario = (CHOOSE s \in Scenarios : TRUE)
  /\ part # "sender_keys" => extent = (CHOOSE e \in Extents : TRUE)

PartNext ==
  \/ part = "call" /\ CallNext /\ UNCHANGED <<part, vars>>
  \/ part = "sender_keys" /\ Next /\ UNCHANGED <<part, call_vars>>

CallFairness ==
  LET goes_on(A) == part = "call" /\ A /\ UNCHANGED <<part, scenario, vars>>
  IN  /\ WF_all_vars(goes_on(\E m \in outbox : forward(m)))
      /\ \A p \in Parties : WF_all_vars(goes_on(receive(p)))

DeliveryFairness ==
  WF_all_vars(part = "sender_keys" /\ delivery /\ UNCHANGED <<part, extent, call_vars>>)

PartSpec == PartInit /\ [][PartNext]_all_vars /\ CallFairness /\ DeliveryFairness
=============================================================================
