----------------------------- MODULE RelayCalls ------------------------------
(***************************************************************************)
(* process_voip_signal of src/src/api/relay.rs as run by several relay      *)
(* workers at once on one shared call store.  A call of the function reads *)
(* the record, decides, and writes its decision with compare_exchange_call; *)
(* the store, an external service, makes only find and exchange atomic.    *)
(* The timestamp is taken when a worker starts and may be old by the time  *)
(* its exchange happens.                                                   *)
(***************************************************************************)
EXTENDS CallLifecycle

CONSTANTS
  Workers,     \* concurrent callers of process_voip_signal
  MaxRetries,  \* MAX_VOIP_CALL_COMPARE_EXCHANGE_RETRIES
  MaxSignals,  \* bound: signals handed to the relay
  MaxClock     \* bound: the relay's clock stops here

ASSUME RelayAssumption == MaxRetries \in Nat \ {0}

VARIABLES
  store,      \* the VoipCallStore's record of the call, if any
  clock,      \* unix time of the relay
  worker,     \* worker[w]: the local variables of w's call
  signals,    \* how many signals have been handed to the relay
  last,       \* history: the decision made last
  decisions   \* history: how many decisions have been made

vars == <<store, clock, worker, signals, last, decisions>>

Idle == [pc |-> "idle"]
Busy ==
  [ pc       : {"insert", "find", "swap"},
    signal   : Signals,
    now      : Nat,
    current  : SUBSET ActiveCalls,  \* the record read, expected by the exchange
    next     : SUBSET ActiveCalls,  \* what the exchange puts in its place
    decision : SignalTypes \cup {"Expired"},
    attempts : Nat,  \* exchanges that failed so far
    since    : Nat ] \* history: decisions when the call began

Init ==
  /\ store = {}
  /\ clock = 0
  /\ worker = [w \in Workers |-> Idle]
  /\ signals = 0
  /\ last = [type |-> "None", from |-> {}, now |-> 0]
  /\ decisions = 0

\* A validated envelope reaches the relay; validate_call_init_for_relay refuses
\* an Init between a device and itself.
begin(w, s) ==
  /\ worker[w] = Idle
  /\ signals < MaxSignals
  /\ s.type = "Init" => s.from # s.to
  /\ worker' = [worker EXCEPT ![w] =
       [ pc       |-> IF s.type = "Init" THEN "insert" ELSE "find",
         signal   |-> s,
         now      |-> clock,
         current  |-> {},
         next     |-> IF s.type = "Init" THEN {new_call(s.from, s.to, clock)} ELSE {},
         decision |-> s.type,
         attempts |-> 0,
         since    |-> decisions ]]
  /\ signals' = signals + 1
  /\ UNCHANGED <<store, clock, last, decisions>>

\* The function returns an error; nothing was changed.
fail(w) ==
  /\ worker' = [worker EXCEPT ![w] = Idle]
  /\ UNCHANGED <<store, clock, signals, last, decisions>>

\* Mutant: an update and a removal without comparison.
exchange_unconditionally(w) == worker[w].pc = "insert" => store = {}

\* compare_exchange_call(current, next) returns true.
exchange_succeeds(w) == store = worker[w].current

\* What a successful exchange leaves behind: the function returns.
commit(w) ==
  /\ store' = worker[w].next
  /\ last' = [ type |-> worker[w].decision,
               from |-> IF worker[w].decision = "Expired"
                        THEN {} ELSE {worker[w].signal.from},
               now  |-> worker[w].now ]
  /\ decisions' = decisions + 1
  /\ worker' = [worker EXCEPT ![w] = Idle]
  /\ UNCHANGED <<clock, signals>>

insert(w) ==
  /\ worker[w].pc = "insert"
  /\ IF exchange_succeeds(w) THEN commit(w) ELSE fail(w)

\* Mutant: the copy that the exchange compares with is made after the update.
expected_after_update(c, next) == IF next = {} THEN {c} ELSE next

\* let current = call.clone() before the record is changed.
expected(c, next) == {c}

\* One round of the retry loop up to the exchange.
find(w) ==
  /\ worker[w].pc = "find"
  /\ LET s   == worker[w].signal
         now == worker[w].now
     IN  IF \E c \in store : between_participants(c, s) /\ (is_expired(c, now) \/ allowed(c, s))
         THEN \E c \in store :
                LET next == IF is_expired(c, now) THEN {} ELSE after(c, s, now)
                IN  /\ worker' = [worker EXCEPT
                          ![w].pc       = "swap",
                          ![w].current  = expected(c, next),
                          ![w].next     = next,
                          ![w].decision = IF is_expired(c, now) THEN "Expired" ELSE s.type]
                    /\ UNCHANGED <<store, clock, signals, last, decisions>>
         ELSE fail(w)

\* Mutant: the loop tries the same exchange again and does not count.
retry_without_reading(w) ==
  worker' = [worker EXCEPT ![w].pc = "swap"]

retry(w) ==
  LET attempts == worker[w].attempts + 1
  IN  worker' = [worker EXCEPT ![w] =
        IF attempts < MaxRetries
        THEN [worker[w] EXCEPT !.pc = "find", !.attempts = attempts]
        ELSE Idle]

swap(w) ==
  /\ worker[w].pc = "swap"
  /\ \/ /\ exchange_succeeds(w)
        /\ commit(w)
     \/ /\ ~exchange_succeeds(w)
        /\ retry(w)
        /\ UNCHANGED <<store, clock, signals, last, decisions>>

\* find_call or compare_exchange_call returns an error and the store is as it
\* was.  An error after the exchange took effect leaves what commit leaves.
store_fails(w) ==
  /\ worker[w] # Idle
  /\ fail(w)

tick ==
  /\ clock < MaxClock
  /\ clock' = clock + 1
  /\ UNCHANGED <<store, worker, signals, last, decisions>>

step(w) == insert(w) \/ find(w) \/ swap(w)

Next ==
  \/ tick
  \/ \E w \in Workers :
       \/ \E s \in Signals : begin(w, s)
       \/ step(w)
       \/ store_fails(w)

Spec == Init /\ [][Next]_vars

\* A worker that is inside the function goes on running.
FairSpec == Spec /\ \A w \in Workers : WF_vars(step(w))

-----------------------------------------------------------------------------
(* Properties.                                                             *)

\* The store, the workers' variables and the histories keep their types.
TypeOK ==
  /\ store \in SUBSET ActiveCalls
  /\ \A c, d \in store : c = d
  /\ clock \in Nat
  /\ worker \in [Workers -> {Idle} \cup Busy]
  /\ signals \in Nat
  /\ last \in [type : SignalTypes \cup {"None", "Expired"}, from : SUBSET Devices, now : Nat]
  /\ decisions \in Nat

\* The retry loop gives up only to others' progress: every failed exchange of a
\* call is paid for by a decision some other call made meanwhile.
RetriesArePaidFor ==
  \A w \in Workers :
    worker[w] # Idle => worker[w].attempts <= decisions - worker[w].since

\* A decision is made in this step.
Decides == decisions' # decisions

\* relay-server.md: rekey and rekey-ack are sequenced.  An acknowledgement is
\* let through only directly after the other device's rekey.
AckFollowsRekey ==
  [][(Decides /\ last'.type = "RekeyAck") =>
       last.type = "Rekey" /\ last.from # last'.from]_vars

\* Once a call was ended, rejected or found expired, no signal of it passes until
\* a new Init, whatever the workers had read before.
SilentAfterEnd ==
  [][(Decides /\ last.type \in {"None", "End", "Reject", "Expired"}) =>
       last'.type = "Init"]_vars

\* A call is dropped as expired only when no signal of it passed for longer than
\* the timeout of its state, or it outlived its lifetime.
ExpiredWasIdle ==
  [][(Decides /\ last'.type = "Expired") =>
       \/ last'.now - last.now >
            (IF last.type = "Init" THEN InitTimeout ELSE IdleTimeout)
       \/ \E c \in store : last'.now - c.started_at > MaxLifetime]_vars

Record == INSTANCE CallRecord

\* The workers together behave like one that handles the signals one at a time.
ImplementsRecord == Record!Spec

\* Every call of process_voip_signal returns.
SignalsAnswered == \A w \in Workers : worker[w] # Idle ~> worker[w] = Idle
=============================================================================
