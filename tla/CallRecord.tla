----------------------------- MODULE CallRecord ------------------------------
(***************************************************************************)
(* What the relay promises the two devices of a call: signals take effect  *)
(* one at a time, each on the record its predecessor left.                 *)
(***************************************************************************)
EXTENDS CallLifecycle

VARIABLES
  store,     \* the call record, if any
  last,      \* the decision made last: type, sender, timestamp
  decisions  \* how many decisions have been made

Decide(type, from, now) ==
  /\ last' = [type |-> type, from |-> from, now |-> now]
  /\ decisions' = decisions + 1

Init ==
  /\ store = {}
  /\ last = [type |-> "None", from |-> {}, now |-> 0]
  /\ decisions = 0

Register(s, now) ==
  /\ s.type = "Init" /\ s.from # s.to
  /\ store = {}
  /\ store' = {new_call(s.from, s.to, now)}
  /\ Decide("Init", {s.from}, now)

Apply(s, now) ==
  /\ s.type # "Init"
  /\ \E c \in store :
       /\ between_participants(c, s)
       /\ ~is_expired(c, now)
       /\ allowed(c, s)
       /\ store' = after(c, s, now)
  /\ Decide(s.type, {s.from}, now)

Expire(now) ==
  /\ \E c \in store : is_expired(c, now)
  /\ store' = {}
  /\ Decide("Expired", {}, now)

Next ==
  LET now == last'.now
  IN  /\ now \in Nat
      /\ \/ \E s \in Signals : Register(s, now) \/ Apply(s, now)
         \/ Expire(now)

Spec == Init /\ [][Next]_<<store, last, decisions>>
=============================================================================
