------------------------------ MODULE Handshake ------------------------------
(***************************************************************************)
(* The hybrid X3DH handshake between initiators and one responder identity *)
(* that several processes may serve at once (handshake.rs), and the part   *)
(* of the responder's IdentityKeys it changes: the pool of one-time        *)
(* pre-keys, the fingerprints of accepted HandshakeInit messages, and the  *)
(* sealed replay state that outlives a restart (identity_keys.rs).         *)
(*                                                                         *)
(* A HandshakeResponder::process call borrows its identity mutably, so the *)
(* calls on one instance are serial; calls of different instances meet in  *)
(* the HandshakeInitReplayGuard they share.  The steps of a call are its   *)
(* calls to that guard; everything between two of them is one step.        *)
(*                                                                         *)
(* A key derived by X3DH and ML-KEM is the record of the secrets mixed     *)
(* into it, and a MAC is the key and the transcript it covers.  The        *)
(* fingerprint of an init message is the message.                          *)
(***************************************************************************)
EXTENDS Integers, FiniteSets, Sequences

CONSTANTS
  Instances,      \* processes serving the responder identity
  Handshakes,     \* handshakes the initiators may start
  Initiators,     \* initiating identities
  InitiatorOf,    \* InitiatorOf[h]: who starts h
  Deployments,    \* which instances serve, whether they pass a
                  \* HandshakeInitReplayGuard, and a bound on replenish calls
  OpkIds,         \* identifiers of one-time pre-keys
  SeedPool,       \* identifiers of the pre-keys derived from the master seed
  MaxSeen,        \* MAX_SEEN_HANDSHAKE_INITS
  MaxAccepted     \* bound: handshakes the responder accepts

ASSUME HandshakeAssumption ==
  /\ Deployments \subseteq [serving : SUBSET Instances, guarded : BOOLEAN, replenishes : Nat]
  /\ IsFiniteSet(Handshakes)
  /\ MaxSeen \in Nat \ {0}
  /\ InitiatorOf \in [Handshakes -> Initiators]
  /\ SeedPool \subseteq OpkIds
  /\ MaxAccepted \in Nat

VARIABLES
  deployment, \* the deployment, the same all along
  identity,   \* identity[i]: the responder's IdentityKeysInner in instance i
  call,       \* call[i]: the process call running in instance i
  guard,      \* the replay guard's reserved and committed fingerprints
  bundles,    \* pre-key bundles published so far
  initiator,  \* initiator[h]: the HandshakeInitiator of h
  ephemeral,  \* ephemeral[a]: the ephemeral key a keeps between calls
  acks,       \* HandshakeAck messages sent
  saved,      \* saved[i]: the sealed replay state instance i wrote last
  accepted,   \* history: every acceptance, by any instance, in order
  known,      \* history: the acceptances instance i has not lost by a restart
  leaked      \* history: reservations nobody will release

vars == <<deployment, identity, call, guard, bundles, initiator, ephemeral, acks, saved,
          accepted, known, leaked>>
responder == <<identity, call, guard, acks, accepted, known, leaked>>
others == <<bundles, initiator, ephemeral, saved>>

Guarded == deployment.guarded

\* A one-time pre-key: its identifier and which key pair it names.  Number 0
\* is the pair derived from the seed; a replenished pair is random, hence new.
OpkKeys == OpkIds \X Nat
Seeded == SeedPool \X {0}
Ids(pool) == {k[1] : k \in pool}
NoOpk == {}

-----------------------------------------------------------------------------
(* Messages and keys.                                                      *)

\* The root key mixes the initiator's ephemeral and ML-KEM secrets with the
\* one-time pre-key, when there is one.
Key(h, eph, opk) == [from |-> h, eph |-> eph, opk |-> opk]

\* A HandshakeInit names its pre-key by identifier; its MAC covers the
\* transcript, that is the bundle and the message, under the derived key.
HandshakeInit(h, eph, opk, bundle) ==
  [ from   |-> h,
    eph    |-> eph,
    opk_id |-> Ids(opk),
    mac    |-> [key |-> Key(h, eph, opk), bundle |-> bundle] ]

Inits == {initiator[h].init : h \in {g \in Handshakes : initiator[g].status # "none"}}

\* The pre-key the responder finds under the identifier in the message.
\* find(|opk| opk.id() == id): identifiers in the pool are distinct.
get_one_time_pre_key(pool, m) == {k \in pool : k[1] \in m.opk_id}

responder_key(pool, m) == Key(m.from, m.eph, get_one_time_pre_key(pool, m))

opk_found(pool, m) == m.opk_id \subseteq Ids(pool)

\* The initiator's key confirmation: same key and same transcript.
init_confirmed(pool, m, bundle) ==
  m.mac = [key |-> responder_key(pool, m), bundle |-> bundle]

HandshakeAck(pool, m, bundle) ==
  [key |-> responder_key(pool, m), bundle |-> bundle, from |-> m.from]

-----------------------------------------------------------------------------
NewIdentity(n) ==
  [pool |-> Seeded, inflight |-> {}, recent |-> << >>, replenished |-> n]

NoCall == [pc |-> "idle", init |-> {}, bundle |-> {}, remote_reserved |-> FALSE, ack |-> {}]

NoInitiator == [status |-> "none"]

Init ==
  /\ deployment \in Deployments
  /\ identity = [i \in Instances |-> NewIdentity(0)]
  /\ call = [i \in Instances |-> NoCall]
  /\ guard = [reserved |-> {}, committed |-> {}]
  /\ bundles = {Seeded}
  /\ initiator = [h \in Handshakes |-> NoInitiator]
  /\ ephemeral = [a \in Initiators |-> {}]
  /\ acks = {}
  /\ saved = [i \in Instances |-> [remaining |-> SeedPool, recent |-> << >>, known |-> << >>]]
  /\ accepted = << >>
  /\ known = [i \in Instances |-> << >>]
  /\ leaked = {}

-----------------------------------------------------------------------------
(* The initiator.                                                          *)

\* How many handshakes a has sent out; numbers the key pairs it generates.
SentBy(a) ==
  Cardinality({g \in Handshakes : InitiatorOf[g] = a /\ initiator[g].status # "none"})

\* generate_ephemeral_key_pair keeps the pair an earlier call left behind.
generate_ephemeral_key_pair(a) ==
  IF ephemeral[a] # {} THEN ephemeral[a] ELSE {<<a, SentBy(a)>>}

\* clear_ephemeral_key_pair, the last thing a successful start does.
cleared(eph) == {}

start(h) ==
  LET a == InitiatorOf[h]
      eph == generate_ephemeral_key_pair(a)
  IN  /\ initiator[h].status = "none"
      /\ \E bundle \in bundles :
         \E opk \in IF bundle = {} THEN {NoOpk} ELSE {{k} : k \in bundle} :
           initiator' = [initiator EXCEPT ![h] =
             [ status   |-> "waiting",
               init     |-> HandshakeInit(h, eph, opk, bundle),
               expected |-> [key |-> Key(h, eph, opk), bundle |-> bundle, from |-> h] ]]
      /\ ephemeral' = [ephemeral EXCEPT ![a] = cleared(eph)]
      /\ UNCHANGED <<responder, bundles, saved>>

\* start returned an error after it had generated the ephemeral key pair.
start_fails(h) ==
  /\ initiator[h].status = "none"
  /\ ephemeral' = [ephemeral EXCEPT ![InitiatorOf[h]] =
                     generate_ephemeral_key_pair(InitiatorOf[h])]
  /\ UNCHANGED <<responder, bundles, initiator, saved>>

\* Mutant: the acknowledgement's MAC is not compared.
ack_confirms_any(h, ack) == TRUE

ack_confirms(h, ack) == ack = initiator[h].expected

\* finish consumes the HandshakeInitiator, whatever the acknowledgement.
finish(h, ack) ==
  /\ initiator[h].status = "waiting"
  /\ initiator' = [initiator EXCEPT ![h].status =
                     IF ack_confirms(h, ack) THEN "session" ELSE "failed"]
  /\ UNCHANGED <<responder, bundles, ephemeral, saved>>

-----------------------------------------------------------------------------
(* The responder's pool of one-time pre-keys.                              *)

publish(i) ==
  /\ bundles' = bundles \cup {identity[i].pool}
  /\ UNCHANGED <<responder, initiator, ephemeral, saved>>

replenish_one_time_pre_keys(id, opk) ==
  [ pool        |-> id.pool \cup {opk},
    inflight    |-> id.inflight,
    recent      |-> id.recent,
    replenished |-> id.replenished + 1 ]

\* An identifier is 32 random bits: it is taken to be none of the seed's.
replenish(i, id) ==
  LET n == identity[i].replenished + 1
  IN  /\ call[i].pc = "idle"
      /\ n <= deployment.replenishes
      /\ id \notin Ids(identity[i].pool) \cup SeedPool
      /\ identity' = [identity EXCEPT ![i] = replenish_one_time_pre_keys(@, <<id, n>>)]
      /\ UNCHANGED <<call, guard, acks, accepted, known, leaked, others>>

-----------------------------------------------------------------------------
(* The responder.                                                          *)

\* The message instance i is processing.
Held(i) == call[i].init

\* guard.reserve: only a fingerprint neither reserved nor committed is fresh.
guard_fresh(m) == m \notin guard.reserved \cup guard.committed

\* Mutant: the guard's answer is not looked at.
is_fresh_ignored(m) == TRUE

is_fresh(m) == Guarded => guard_fresh(m)

\* process up to the guard's answer.  accept_session takes the bundle from the
\* current pool, accept_session_for_bundle any bundle published before.  A
\* refusal or an error of the guard ends the call with nothing changed.
reserve_remote(i, m, bundle) ==
  /\ call[i].pc = "idle"
  /\ Len(accepted) < MaxAccepted
  /\ is_fresh(m)
  /\ guard' = IF Guarded THEN [guard EXCEPT !.reserved = @ \cup {m}] ELSE guard
  /\ call' = [call EXCEPT ![i] = [pc |-> "reserved", init |-> {m}, bundle |-> bundle,
                                  remote_reserved |-> Guarded, ack |-> {}]]
  /\ UNCHANGED <<identity, acks, accepted, known, leaked, others>>

\* What releasing the guard's reservation for the messages in ms leaves; a
\* failed release leaves the reservation.
release(ms, works) ==
  /\ guard' = IF works THEN [guard EXCEPT !.reserved = @ \ ms] ELSE guard
  /\ leaked' = IF works THEN leaked ELSE leaked \cup ms

Remote(i) == IF call[i].remote_reserved THEN Held(i) ELSE {}

local_fresh(i) ==
  Held(i) \cap (identity[i].inflight \cup {identity[i].recent[n] : n \in DOMAIN identity[i].recent}) = {}

reserve_handshake_init_fingerprint(id, ms) == [id EXCEPT !.inflight = id.inflight \cup ms]

reserve_local(i) ==
  /\ call[i].pc = "reserved"
  /\ local_fresh(i)
  /\ identity' = [identity EXCEPT ![i] = reserve_handshake_init_fingerprint(@, Held(i))]
  /\ call' = [call EXCEPT ![i] = [call[i] EXCEPT !.pc = "processing"]]
  /\ UNCHANGED <<guard, acks, accepted, known, leaked, others>>

\* The fingerprint is one this instance has accepted: the guard's reservation
\* is given back and the call fails.
reserve_duplicate(i, works) ==
  /\ call[i].pc = "reserved"
  /\ ~local_fresh(i)
  /\ release(Remote(i), works)
  /\ call' = [call EXCEPT ![i] = NoCall]
  /\ UNCHANGED <<identity, acks, accepted, known, others>>

\* The local reservation returned an error: the identity's lock is poisoned, or
\* MAX_INFLIGHT_HANDSHAKE_INITS reservations are open.  process returns at once,
\* and the guard's reservation, which no object owns yet, stays.
reserve_refused(i) ==
  /\ call[i].pc = "reserved"
  /\ leaked' = leaked \cup Remote(i)
  /\ call' = [call EXCEPT ![i] = NoCall]
  /\ UNCHANGED <<identity, guard, acks, accepted, known, others>>

release_handshake_init_fingerprint(id, ms) == [id EXCEPT !.inflight = @ \ ms]

\* Validation, the key confirmation or any later computation failed: Drop
\* releases both reservations.
process_fails(i, works) ==
  /\ call[i].pc = "processing"
  /\ release(Remote(i), works)
  /\ identity' = [identity EXCEPT ![i] = release_handshake_init_fingerprint(@, Held(i))]
  /\ call' = [call EXCEPT ![i] = NoCall]
  /\ UNCHANGED <<acks, accepted, known, others>>

\* Mutant: the window is trimmed one entry early.
remember_one_less(id, m) ==
  LET longer == Append(id.recent, m)
  IN  [id EXCEPT !.inflight = @ \ {m},
                 !.recent = IF Len(longer) >= MaxSeen THEN Tail(longer) ELSE longer]

remember_handshake_init_fingerprint(id, m) ==
  LET longer == Append(id.recent, m)
  IN  [ pool        |-> id.pool,
        inflight    |-> id.inflight \ {m},
        recent      |-> IF Len(longer) > MaxSeen THEN Tail(longer) ELSE longer,
        replenished |-> id.replenished ]

consume_one_time_pre_key(id, m) ==
  [id EXCEPT !.pool = {k \in id.pool : k[1] \notin m.opk_id}]

\* The handshake checks out: the pre-key is consumed and the fingerprint
\* remembered.  commit follows.
process(i) ==
  /\ call[i].pc = "processing"
  /\ \E m \in Held(i) :
       /\ opk_found(identity[i].pool, m)
       /\ init_confirmed(identity[i].pool, m, call[i].bundle)
       /\ identity' = [identity EXCEPT ![i] =
            remember_handshake_init_fingerprint(
              consume_one_time_pre_key(identity[i], m), m)]
       /\ call' = [call EXCEPT ![i] =
            [ pc              |-> "committing",
              init            |-> call[i].init,
              bundle          |-> call[i].bundle,
              remote_reserved |-> call[i].remote_reserved,
              ack             |-> {HandshakeAck(identity[i].pool, m, call[i].bundle)} ]]
  /\ UNCHANGED <<guard, acks, accepted, known, leaked, others>>

\* The guard commits, and process returns the responder and its ack.
commit(i) ==
  /\ call[i].pc = "committing"
  /\ guard' = IF Guarded
              THEN [reserved  |-> guard.reserved \ Held(i),
                    committed |-> guard.committed \cup Held(i)]
              ELSE guard
  /\ \E m \in Held(i) :
       /\ accepted' = Append(accepted, m)
       /\ known' = [known EXCEPT ![i] = Append(@, m)]
  /\ acks' = acks \cup call[i].ack
  /\ call' = [call EXCEPT ![i] = NoCall]
  /\ UNCHANGED <<identity, leaked, others>>

Without(seq, ms) == SelectSeq(seq, LAMBDA m : m \notin ms)

\* Mutant: the fingerprint stays among those this instance has accepted.
forget_only_reservation(id, ms) == [id EXCEPT !.inflight = id.inflight \ ms]

forget_handshake_init_fingerprint(id, ms) ==
  [ pool        |-> id.pool,
    inflight    |-> id.inflight \ ms,
    recent      |-> Without(id.recent, ms),
    replenished |-> id.replenished ]

\* The guard's commit failed.  The marker is forgotten and the reservation
\* released, again by Drop when the first release fails.
commit_fails(i, works) ==
  /\ call[i].pc = "committing"
  /\ Guarded
  /\ identity' = [identity EXCEPT ![i] = forget_handshake_init_fingerprint(@, Held(i))]
  /\ release(Remote(i), works)
  /\ call' = [call EXCEPT ![i] = NoCall]
  /\ UNCHANGED <<acks, accepted, known, others>>

-----------------------------------------------------------------------------
(* Restarts.                                                               *)

export_sealed_replay_state(i) ==
  /\ call[i].pc = "idle"
  /\ saved' = [saved EXCEPT ![i] = [remaining |-> Ids(identity[i].pool),
                                    recent    |-> identity[i].recent,
                                    known     |-> known[i]]]
  /\ UNCHANGED <<responder, bundles, initiator, ephemeral>>

\* restore_sealed_replay_state, of an identity just derived from the seed.
restore_sealed_replay_state(id, blob) ==
  [ pool        |-> {k \in id.pool : k[1] \in blob.remaining},
    inflight    |-> id.inflight,
    recent      |-> blob.recent,
    replenished |-> id.replenished ]

\* The process stops, is started again from the master seed and restores the
\* replay state it wrote last, before it accepts anything.
restart(i) ==
  /\ identity' = [identity EXCEPT ![i] =
       restore_sealed_replay_state(NewIdentity(identity[i].replenished), saved[i])]
  /\ known' = [known EXCEPT ![i] = saved[i].known]
  /\ leaked' = leaked \cup Remote(i)
  /\ call' = [call EXCEPT ![i] = NoCall]
  /\ UNCHANGED <<guard, acks, accepted, others>>

-----------------------------------------------------------------------------
InitiatorStep ==
  \E h \in Handshakes :
    \/ start(h)
    \/ start_fails(h)
    \/ \E ack \in acks : finish(h, ack)

ResponderStep ==
  \E i \in deployment.serving :
    \/ publish(i)
    \/ \E id \in OpkIds : replenish(i, id)
    \/ \E m \in Inits, bundle \in bundles \cup {identity[i].pool} : reserve_remote(i, m, bundle)
    \/ reserve_local(i)
    \/ reserve_refused(i)
    \/ process(i)
    \/ commit(i)
    \/ export_sealed_replay_state(i)
    \/ restart(i)
    \/ \E works \in BOOLEAN :
         \/ reserve_duplicate(i, works)
         \/ process_fails(i, works)
         \/ commit_fails(i, works)

Next == (InitiatorStep \/ ResponderStep) /\ UNCHANGED deployment

Spec == Init /\ [][Next]_vars

-----------------------------------------------------------------------------
(* Properties.                                                             *)

Keys == [from : Handshakes, eph : SUBSET (Initiators \X Nat), opk : SUBSET OpkKeys]
Messages == [from : Handshakes, eph : SUBSET (Initiators \X Nat), opk_id : SUBSET OpkIds,
             mac : [key : Keys, bundle : SUBSET OpkKeys]]
Acks == [key : Keys, bundle : SUBSET OpkKeys, from : Handshakes]
Identities == [pool : SUBSET OpkKeys, inflight : SUBSET Messages, recent : Seq(Messages),
               replenished : Nat]
Calls == [pc : {"idle", "reserved", "processing", "committing"}, init : SUBSET Messages,
          bundle : SUBSET OpkKeys, remote_reserved : BOOLEAN, ack : SUBSET Acks]

\* The state has the shape of the code's structures.
TypeOK ==
  /\ deployment \in Deployments
  /\ identity \in [Instances -> Identities]
  /\ call \in [Instances -> Calls]
  /\ guard \in [reserved : SUBSET Messages, committed : SUBSET Messages]
  /\ bundles \subseteq SUBSET OpkKeys
  /\ initiator \in [Handshakes ->
       {NoInitiator} \cup [status : {"waiting", "session", "failed"},
                           init : Messages, expected : Acks]]
  /\ ephemeral \in [Initiators -> SUBSET (Initiators \X Nat)]
  /\ acks \subseteq Acks
  /\ saved \in [Instances -> [remaining : SUBSET OpkIds, recent : Seq(Messages),
                              known : Seq(Messages)]]
  /\ accepted \in Seq(Messages)
  /\ known \in [Instances -> Seq(Messages)]
  /\ leaked \subseteq Messages

\* With a replay guard a HandshakeInit is accepted at most once, by whichever
\* instance, whatever fails and whatever restarts.
AcceptedAtMostOnce ==
  Guarded => \A j, k \in DOMAIN accepted : accepted[j] = accepted[k] => j = k

\* Without a guard, an instance accepts a HandshakeInit again only after it
\* has accepted MaxSeen others since (recent_handshake_init_order), and only
\* a message without a one-time pre-key.
ReplayOnlyBeyondWindow ==
  ~Guarded =>
    \A i \in Instances : \A j, k \in DOMAIN known[i] :
      j < k /\ known[i][j] = known[i][k]
        => k - j > MaxSeen /\ known[i][j].opk_id = {}

\* A consumed one-time pre-key never comes back: as far as the instance's replay
\* state goes back, no key pair an accepted message used is still in the pool,
\* even after a restart from the seed.
ConsumedStaysConsumed ==
  \A i \in Instances : \A j \in DOMAIN known[i] :
    known[i][j].mac.key.opk \cap identity[i].pool = {}

\* What an instance has accepted stays used up: its pre-key for good, the message
\* itself for as long as the replay state remembers it.
AcceptedIsUsedUp == ReplayOnlyBeyondWindow /\ ConsumedStaysConsumed

\* An instance remembers only what was accepted or is being committed: a call
\* that failed leaves no marker that would refuse a retry.
OnlyAcceptedRemembered ==
  \A i \in Instances :
    \A n \in DOMAIN identity[i].recent :
      LET m == identity[i].recent[n]
      IN  (\E k \in DOMAIN accepted : accepted[k] = m)
          \/ (call[i].pc = "committing" /\ m \in Held(i))

\* A reservation that no running call holds has been committed or released, but
\* for the guard's reservations that the code gives up: the release failed, the
\* process died, or the local reservation that follows returned an error.
NothingReserved ==
  /\ \A i \in Instances : identity[i].inflight \subseteq Held(i)
  /\ guard.reserved \subseteq leaked \cup UNION {Held(i) : i \in Instances}

\* A call of process that fails leaves nothing behind in the instance, neither a
\* reservation nor a marker that would refuse a retry, and in the guard only the
\* reservations the code gives up.
FailuresLeaveNothing == NothingReserved /\ OnlyAcceptedRemembered

\* An initiator that obtained a session has the key of a responder that
\* accepted its own message.
KeysAgree ==
  \A h \in Handshakes :
    initiator[h].status = "session" =>
      \E k \in DOMAIN accepted :
        /\ accepted[k] = initiator[h].init
        /\ accepted[k].mac.key = initiator[h].expected.key

\* An ephemeral key pair that an aborted start left behind is used again, but
\* never by two handshakes that went out.
FreshEphemerals ==
  \A g, h \in Handshakes :
    /\ g # h
    /\ initiator[g].status # "none"
    /\ initiator[h].status # "none"
    => initiator[g].init.eph # initiator[h].init.eph

\* Sessions rest on keys that both sides hold and that no other handshake used.
FreshAgreedKeys == KeysAgree /\ FreshEphemerals
=============================================================================
