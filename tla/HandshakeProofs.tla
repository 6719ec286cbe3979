--------------------------- MODULE HandshakeProofs ---------------------------
(***************************************************************************)
(* For any number of instances and handshakes: the accounting of           *)
(* reservations, and that the replay guard makes acceptance unique.        *)
(* And, by the same counting of finite sets: threads that share a group    *)
(* session never exhaust its epoch.                                        *)
(***************************************************************************)
EXTENDS Handshake, EpochRotation, FiniteSetTheorems, TLAPS

USE DEF Guarded

-----------------------------------------------------------------------------
(* The shapes the steps rely on.  What the messages are does not matter.   *)

IsIdentity(id) ==
  \E p, f, r, n : id = [pool |-> p, inflight |-> f, recent |-> r, replenished |-> n]

IsCall(c) ==
  \E p, m, b, r, a : c = [pc |-> p, init |-> m, bundle |-> b, remote_reserved |-> r, ack |-> a]

Deployed == deployment.serving \subseteq Instances /\ Guarded \in BOOLEAN

Shapes ==
  /\ DOMAIN identity = Instances
  /\ identity = [i \in Instances |-> identity[i]]
  /\ \A i \in Instances : IsIdentity(identity[i])
  /\ call = [i \in Instances |-> call[i]]
  /\ \A i \in Instances : IsCall(call[i])
  /\ guard = [reserved |-> guard.reserved, committed |-> guard.committed]

\* A call holds a message, and the guard's reservation for it, until it ends.
CallsHold ==
  \A i \in Instances :
    /\ call[i].pc = "idle" => call[i].init = {}
    /\ \A m \in call[i].init : call[i].init = {m}
    /\ call[i].pc # "idle" => Remote(i) = IF Guarded THEN call[i].init ELSE {}
    /\ call[i].pc # "processing" => identity[i].inflight = {}
    /\ ~Guarded => guard.reserved = {}

GuardInv ==
  Guarded =>
    /\ \A i \in Instances : Held(i) \subseteq guard.reserved
    /\ \A i, j \in Instances : i # j => Held(i) \cap Held(j) = {}
    /\ guard.reserved \cap guard.committed = {}
    /\ accepted \in Seq(guard.committed)

IInv == Deployed /\ Shapes /\ CallsHold /\ GuardInv /\ AcceptedAtMostOnce /\ NothingReserved

-----------------------------------------------------------------------------
LEMMA InitIInv == Init => IInv
<1> SUFFICES ASSUME Init
             PROVE  IInv
  OBVIOUS
<1>1. Shapes
  BY Zenon DEF Init, Shapes, IsIdentity, IsCall, NewIdentity, NoCall
<1>2. CallsHold
  BY Zenon DEF Init, CallsHold, NoCall, NewIdentity
<1>3. GuardInv
  BY DEF Init, GuardInv, NoCall, Held
<1>4. AcceptedAtMostOnce
  BY DEF Init, AcceptedAtMostOnce
<1>5. NothingReserved
  BY Zenon DEF Init, NothingReserved, NewIdentity
<1>6. Deployed
  BY Zenon, HandshakeAssumption DEF Init, Deployed
<1> QED
  BY <1>1, <1>2, <1>3, <1>4, <1>5, <1>6 DEF IInv

\* A step of the initiators, and one that touches neither the calls nor the
\* guard, keeps the invariant.
LEMMA OtherSteps ==
  ASSUME IInv, UNCHANGED deployment, UNCHANGED <<call, guard, accepted, leaked, identity>>
  PROVE  IInv'
BY DEF IInv, Deployed, Shapes, IsIdentity, IsCall, CallsHold, GuardInv, AcceptedAtMostOnce,
       NothingReserved, Held, Remote

LEMMA ReserveRemoteStep ==
  ASSUME IInv, UNCHANGED deployment,
         NEW i \in Instances, NEW m, NEW bundle, reserve_remote(i, m, bundle)
  PROVE  IInv'
<1> USE HandshakeAssumption
<1> DEFINE c == [pc |-> "reserved", init |-> {m}, bundle |-> bundle,
                 remote_reserved |-> Guarded, ack |-> {}]
<1>1. /\ call' = [j \in Instances |-> IF j = i THEN c ELSE call[j]]
      /\ identity' = identity /\ accepted' = accepted /\ leaked' = leaked
      /\ call[i].pc = "idle"
  BY Zenon DEF reserve_remote, IInv, Shapes
<1>2. guard' = [reserved |-> IF Guarded THEN guard.reserved \cup {m} ELSE guard.reserved,
                committed |-> guard.committed]
  BY Zenon DEF reserve_remote, IInv, Shapes
<1>3. Shapes'
  <2>1. IsCall(c)
    BY Zenon DEF IsCall
  <2>2. \A j \in Instances : IsIdentity(identity'[j]) /\ IsCall(call'[j])
    BY Zenon, <1>1, <2>1 DEF IInv, Shapes
  <2>3. DOMAIN identity' = Instances /\ identity' = [j \in Instances |-> identity'[j]]
    BY Zenon, <1>1 DEF IInv, Shapes
  <2> QED
    BY Zenon, <1>1, <1>2, <2>2, <2>3 DEF Shapes, IsIdentity, IsCall
<1>4. CallsHold'
  BY Zenon, <1>1, <1>2 DEF IInv, CallsHold, Held, Remote
<1>5. GuardInv'
  BY <1>1, <1>2 DEF IInv, GuardInv, Held, reserve_remote, is_fresh, guard_fresh
<1>6. AcceptedAtMostOnce' /\ NothingReserved'
  BY <1>1, <1>2 DEF IInv, AcceptedAtMostOnce, NothingReserved, Held, CallsHold
<1> QED
  BY <1>3, <1>4, <1>5, <1>6 DEF IInv, Deployed

\* A call moves on; what it holds and the guard stay.
LEMMA ProgressStep ==
  ASSUME IInv, UNCHANGED deployment, NEW i \in Instances, NEW id, NEW c, IsIdentity(id), IsCall(c),
         identity' = [identity EXCEPT ![i] = id],
         call' = [call EXCEPT ![i] = c],
         id.inflight \subseteq c.init,
         c.init = call[i].init, c.remote_reserved = call[i].remote_reserved,
         c.pc # "idle", call[i].pc # "idle",
         c.pc # "processing" => id.inflight = {},
         UNCHANGED <<guard, accepted, leaked>>
  PROVE  IInv'
<1>1. /\ identity' = [j \in Instances |-> IF j = i THEN id ELSE identity[j]]
      /\ call' = [j \in Instances |-> IF j = i THEN c ELSE call[j]]
      /\ guard' = guard /\ accepted' = accepted /\ leaked' = leaked
  BY Zenon DEF IInv, Shapes
<1>2. Shapes'
  <2>1. \A j \in Instances : IsIdentity(identity'[j]) /\ IsCall(call'[j])
    BY Zenon, <1>1 DEF IInv, Shapes
  <2>2. guard' = [reserved |-> guard'.reserved, committed |-> guard'.committed]
    BY Zenon, <1>1 DEF IInv, Shapes
  <2> QED
    BY Zenon, <1>1, <2>1, <2>2 DEF Shapes, IsIdentity, IsCall
<1>3. \A j \in Instances : Held(j)' = Held(j) /\ Remote(j)' = Remote(j)
  BY Zenon, <1>1 DEF Held, Remote
<1>4. CallsHold'
  BY <1>1, <1>3 DEF IInv, CallsHold, Held
<1>5. GuardInv'
  BY <1>1, <1>3 DEF IInv, GuardInv
<1>6. AcceptedAtMostOnce'
  BY Zenon, <1>1 DEF IInv, AcceptedAtMostOnce
<1>7. NothingReserved'
  BY <1>1, <1>3 DEF IInv, NothingReserved, Held
<1> QED
  BY Zenon, <1>2, <1>4, <1>5, <1>6, <1>7 DEF IInv, Deployed

\* A call ends: the guard's reservation is released, or leaks.
LEMMA EndStep ==
  ASSUME IInv, UNCHANGED deployment,
         NEW i \in Instances, NEW id, NEW works \in BOOLEAN, IsIdentity(id),
         identity' = [identity EXCEPT ![i] = id],
         call' = [call EXCEPT ![i] = NoCall],
         id.inflight = {},
         release(Remote(i), works),
         accepted' = accepted
  PROVE  IInv'
<1> USE HandshakeAssumption
<1>1. /\ identity' = [j \in Instances |-> IF j = i THEN id ELSE identity[j]]
      /\ call' = [j \in Instances |-> IF j = i THEN NoCall ELSE call[j]]
  BY Zenon DEF IInv, Shapes
<1>2. /\ guard' = [reserved |-> IF works THEN guard.reserved \ Remote(i) ELSE guard.reserved,
                   committed |-> guard.committed]
      /\ leaked' = IF works THEN leaked ELSE leaked \cup Remote(i)
  BY Zenon DEF release, IInv, Shapes
<1>3. Shapes'
  <2>1. IsCall(NoCall)
    BY Zenon DEF IsCall, NoCall
  <2>2. \A j \in Instances : IsIdentity(identity'[j]) /\ IsCall(call'[j])
    BY Zenon, <1>1, <2>1 DEF IInv, Shapes
  <2> QED
    BY Zenon, <1>1, <1>2, <2>2 DEF Shapes, IsIdentity, IsCall
<1>4. /\ Held(i)' = {}
      /\ \A j \in Instances \ {i} : Held(j)' = Held(j) /\ Remote(j)' = Remote(j)
  BY <1>1 DEF Held, Remote, NoCall
<1>5. Remote(i) = IF Guarded THEN Held(i) ELSE {}
  BY Zenon DEF IInv, CallsHold, Held, Remote
<1>6. CallsHold'
  BY <1>1, <1>2, <1>4 DEF IInv, CallsHold, Held, NoCall
<1>7. GuardInv'
  BY <1>1, <1>2, <1>4, <1>5 DEF IInv, GuardInv
<1>8. AcceptedAtMostOnce'
  BY Zenon DEF IInv, AcceptedAtMostOnce
<1>9. NothingReserved'
  <2>1. \A j \in Instances : identity[j].inflight' \subseteq Held(j)'
    BY <1>1, <1>4 DEF IInv, NothingReserved
  <2>2. ASSUME NEW m \in guard.reserved', m \notin leaked'
        PROVE  m \in UNION {Held(j)' : j \in Instances}
    <3>1. m \in guard.reserved /\ m \notin leaked /\ m \notin Remote(i)
      BY Zenon, <1>2, <2>2
    <3>2. PICK j \in Instances : m \in Held(j)
      BY Zenon, <3>1 DEF IInv, NothingReserved
    <3>3. CASE j # i
      BY Zenon, <3>2, <3>3, <1>4
    <3>4. CASE j = i /\ Guarded
      BY Zenon, <3>1, <3>2, <3>4, <1>5
    <3>5. CASE j = i /\ ~Guarded
      BY Zenon, <3>1, <3>5 DEF IInv, CallsHold
    <3> QED
      BY Zenon, <3>3, <3>4, <3>5
  <2> QED
    BY Zenon, <2>1, <2>2 DEF NothingReserved
<1> QED
  BY Zenon, <1>3, <1>6, <1>7, <1>8, <1>9 DEF IInv, Deployed

LEMMA CommitStep ==
  ASSUME IInv, UNCHANGED deployment, NEW i \in Instances, commit(i)
  PROVE  IInv'
<1> USE HandshakeAssumption
<1>1. /\ identity' = identity /\ leaked' = leaked
      /\ call[i].pc = "committing"
      /\ call' = [j \in Instances |-> IF j = i THEN NoCall ELSE call[j]]
  BY Zenon DEF commit, IInv, Shapes
<1>2. PICK m \in Held(i) : accepted' = Append(accepted, m)
  BY Zenon DEF commit
<1>3. /\ guard' = [reserved |-> guard'.reserved, committed |-> guard'.committed]
      /\ Guarded => /\ guard'.reserved = guard.reserved \ Held(i)
                    /\ guard'.committed = guard.committed \cup Held(i)
      /\ ~Guarded => guard' = guard
  BY Zenon DEF commit, IInv, Shapes
<1>4. Shapes'
  <2>1. IsCall(NoCall)
    BY Zenon DEF IsCall, NoCall
  <2>2. \A j \in Instances : IsIdentity(identity'[j]) /\ IsCall(call'[j])
    BY Zenon, <1>1, <2>1 DEF IInv, Shapes
  <2>3. DOMAIN identity' = Instances /\ identity' = [j \in Instances |-> identity'[j]]
    BY Zenon, <1>1 DEF IInv, Shapes
  <2> QED
    BY Zenon, <1>1, <1>3, <2>2, <2>3 DEF Shapes, IsIdentity, IsCall
<1>5. /\ Held(i)' = {}
      /\ \A j \in Instances \ {i} : Held(j)' = Held(j) /\ Remote(j)' = Remote(j)
  BY Zenon, <1>1 DEF Held, Remote, NoCall
<1>6. CallsHold'
  BY <1>1, <1>3, <1>5 DEF IInv, CallsHold, Held, NoCall
<1>7. GuardInv'
  <2> SUFFICES ASSUME Guarded
               PROVE  GuardInv'
    BY Zenon DEF GuardInv
  <2>1. accepted \in Seq(guard'.committed)
    BY <1>3 DEF IInv, GuardInv
  <2>2. accepted' \in Seq(guard'.committed)
    BY <1>2, <1>3, <2>1
  <2>3. /\ \A j \in Instances : Held(j)' \subseteq guard'.reserved
        /\ \A j, k \in Instances : j # k => Held(j)' \cap Held(k)' = {}
    BY <1>3, <1>5 DEF IInv, GuardInv
  <2>4. guard'.reserved \cap guard'.committed = {}
    BY Zenon, <1>3 DEF IInv, GuardInv
  <2> QED
    BY Zenon, <2>2, <2>3, <2>4 DEF GuardInv
<1>8. AcceptedAtMostOnce'
  <2> SUFFICES ASSUME Guarded
               PROVE  \A j, k \in DOMAIN accepted' : accepted'[j] = accepted'[k] => j = k
    BY DEF AcceptedAtMostOnce
  <2>1. accepted \in Seq(guard.committed) /\ m \notin guard.committed
    BY Zenon, <1>2 DEF IInv, GuardInv
  <2>2. \A k \in DOMAIN accepted : accepted[k] # m
    BY <2>1
  <2>3. \A j, k \in DOMAIN accepted : accepted[j] = accepted[k] => j = k
    BY DEF IInv, AcceptedAtMostOnce
  <2>4. /\ DOMAIN accepted' = DOMAIN accepted \cup {Len(accepted) + 1}
        /\ \A k \in DOMAIN accepted : accepted'[k] = accepted[k]
        /\ accepted'[Len(accepted) + 1] = m
    BY <1>2, <2>1
  <2> QED
    BY Zenon, <2>2, <2>3, <2>4
<1>9. NothingReserved'
  <2>1. \A j \in Instances : identity'[j].inflight \subseteq Held(j)'
    BY <1>1, <1>5 DEF IInv, CallsHold, NothingReserved, commit
  <2>2. ASSUME NEW r \in guard'.reserved, r \notin leaked'
        PROVE  r \in UNION {Held(j)' : j \in Instances}
    <3>1. r \in guard.reserved /\ r \notin leaked /\ r \notin Held(i)
      BY Zenon, <1>1, <1>3, <2>2 DEF IInv, CallsHold
    <3>2. PICK j \in Instances : r \in Held(j)
      BY Zenon, <3>1 DEF IInv, NothingReserved
    <3> QED
      BY <3>1, <3>2, <1>5
  <2> QED
    BY <2>1, <2>2 DEF NothingReserved
<1> QED
  BY <1>4, <1>6, <1>7, <1>8, <1>9 DEF IInv, Deployed

-----------------------------------------------------------------------------
(* What each action does to the identity, as the lemmas above need it.     *)

LEMMA ShapeOfRecord ==
  \A p, f, r, n : IsIdentity([pool |-> p, inflight |-> f, recent |-> r, replenished |-> n])
BY DEF IsIdentity

LEMMA ReserveShape ==
  ASSUME NEW id, NEW ms, IsIdentity(id)
  PROVE  /\ IsIdentity(reserve_handshake_init_fingerprint(id, ms))
         /\ reserve_handshake_init_fingerprint(id, ms).inflight = id.inflight \cup ms
<1> PICK p, f, r, k : id = [pool |-> p, inflight |-> f, recent |-> r, replenished |-> k]
  BY DEF IsIdentity
<1>1. reserve_handshake_init_fingerprint(id, ms)
        = [pool |-> p, inflight |-> f \cup ms, recent |-> r, replenished |-> k]
  BY DEF reserve_handshake_init_fingerprint
<1> QED
  BY <1>1, ShapeOfRecord

LEMMA ReleaseShape ==
  ASSUME NEW id, NEW ms, IsIdentity(id)
  PROVE  /\ IsIdentity(release_handshake_init_fingerprint(id, ms))
         /\ release_handshake_init_fingerprint(id, ms).inflight = id.inflight \ ms
<1> PICK p, f, r, k : id = [pool |-> p, inflight |-> f, recent |-> r, replenished |-> k]
  BY DEF IsIdentity
<1>1. release_handshake_init_fingerprint(id, ms)
        = [pool |-> p, inflight |-> f \ ms, recent |-> r, replenished |-> k]
  BY DEF release_handshake_init_fingerprint
<1> QED
  BY <1>1, ShapeOfRecord

LEMMA ForgetShape ==
  ASSUME NEW id, NEW ms, IsIdentity(id)
  PROVE  /\ IsIdentity(forget_handshake_init_fingerprint(id, ms))
         /\ forget_handshake_init_fingerprint(id, ms).inflight = id.inflight \ ms
<1> PICK p, f, r, k : id = [pool |-> p, inflight |-> f, recent |-> r, replenished |-> k]
  BY DEF IsIdentity
<1>1. forget_handshake_init_fingerprint(id, ms)
        = [pool |-> p, inflight |-> f \ ms, recent |-> Without(r, ms), replenished |-> k]
  BY DEF forget_handshake_init_fingerprint
<1> QED
  BY <1>1, ShapeOfRecord

LEMMA ConsumeShape ==
  ASSUME NEW id, NEW m, IsIdentity(id)
  PROVE  /\ IsIdentity(consume_one_time_pre_key(id, m))
         /\ consume_one_time_pre_key(id, m).inflight = id.inflight
<1> PICK p, f, r, k : id = [pool |-> p, inflight |-> f, recent |-> r, replenished |-> k]
  BY DEF IsIdentity
<1>1. \E q : consume_one_time_pre_key(id, m)
               = [pool |-> q, inflight |-> f, recent |-> r, replenished |-> k]
  <2> DEFINE q == {o \in id.pool : o[1] \notin m.opk_id}
  <2>1. consume_one_time_pre_key(id, m) = [id EXCEPT !.pool = q]
    BY DEF consume_one_time_pre_key
  <2> HIDE DEF q
  <2>2. [id EXCEPT !.pool = q] = [pool |-> q, inflight |-> f, recent |-> r, replenished |-> k]
    OBVIOUS
  <2> QED
    BY <2>1, <2>2
<1> QED
  BY <1>1, ShapeOfRecord

LEMMA RememberShape ==
  ASSUME NEW id, NEW m, IsIdentity(id)
  PROVE  /\ IsIdentity(remember_handshake_init_fingerprint(id, m))
         /\ remember_handshake_init_fingerprint(id, m).inflight = id.inflight \ {m}
<1> PICK p, f, r, k : id = [pool |-> p, inflight |-> f, recent |-> r, replenished |-> k]
  BY DEF IsIdentity
<1>1. \E q : remember_handshake_init_fingerprint(id, m)
               = [pool |-> p, inflight |-> f \ {m}, recent |-> q, replenished |-> k]
  BY DEF remember_handshake_init_fingerprint
<1> QED
  BY <1>1, ShapeOfRecord

\* The fingerprints remembered once m is among them.
Pushed(recent, m) ==
  IF Len(Append(recent, m)) > MaxSeen THEN Tail(Append(recent, m)) ELSE Append(recent, m)

\* process consumes the pre-key and then remembers the fingerprint.
LEMMA Remembered ==
  ASSUME NEW live, IsIdentity(live), NEW m,
         NEW id, id = remember_handshake_init_fingerprint(consume_one_time_pre_key(live, m), m)
  PROVE  /\ id.replenished = live.replenished
         /\ id.pool = {k \in live.pool : k[1] \notin m.opk_id}
         /\ id.recent = Pushed(live.recent, m)
<1> PICK p, f, r, q : live = [pool |-> p, inflight |-> f, recent |-> r, replenished |-> q]
  BY DEF IsIdentity
<1> DEFINE pool == {k \in p : k[1] \notin m.opk_id}
<1>1. consume_one_time_pre_key(live, m) = [live EXCEPT !.pool = pool]
  BY DEF consume_one_time_pre_key
<1> HIDE DEF pool
<1>2. consume_one_time_pre_key(live, m)
        = [pool |-> pool, inflight |-> f, recent |-> r, replenished |-> q]
  BY <1>1
<1>3. id.replenished = q /\ id.pool = pool
      /\ id.recent = Pushed(r, m)
  BY <1>2 DEF remember_handshake_init_fingerprint, Pushed
<1> QED
  BY Zenon, <1>3 DEF pool

LEMMA RestoreShape ==
  ASSUME NEW id, NEW blob, IsIdentity(id)
  PROVE  /\ IsIdentity(restore_sealed_replay_state(id, blob))
         /\ restore_sealed_replay_state(id, blob).inflight = id.inflight
<1> PICK p, f, r, k : id = [pool |-> p, inflight |-> f, recent |-> r, replenished |-> k]
  BY DEF IsIdentity
<1>1. \E q : restore_sealed_replay_state(id, blob)
               = [pool |-> q, inflight |-> f, recent |-> blob.recent, replenished |-> k]
  BY DEF restore_sealed_replay_state
<1> QED
  BY <1>1, ShapeOfRecord

LEMMA ReserveLocalStep ==
  ASSUME IInv, UNCHANGED deployment, NEW i \in Instances, reserve_local(i)
  PROVE  IInv'
<1> DEFINE id == reserve_handshake_init_fingerprint(identity[i], Held(i))
           c == [call[i] EXCEPT !.pc = "processing"]
<1>1. IsIdentity(id) /\ id.inflight = identity[i].inflight \cup Held(i)
  <2>1. IsIdentity(identity[i])
    BY DEF IInv, Shapes
  <2> QED
    BY <2>1, ReserveShape
<1>2. identity' = [identity EXCEPT ![i] = id] /\ call' = [call EXCEPT ![i] = c]
  BY DEF reserve_local
<1> HIDE DEF id
<1>3. /\ IsCall(c) /\ c.pc = "processing" /\ c.init = call[i].init
      /\ c.remote_reserved = call[i].remote_reserved
  <2> PICK q, m, b, r, a :
        call[i] = [pc |-> q, init |-> m, bundle |-> b, remote_reserved |-> r, ack |-> a]
    BY Zenon DEF IInv, Shapes, IsCall
  <2>1. c = [pc |-> "processing", init |-> m, bundle |-> b, remote_reserved |-> r, ack |-> a]
    OBVIOUS
  <2> QED
    BY <2>1 DEF IsCall
<1> HIDE DEF c
<1>4. id.inflight \subseteq c.init
  BY Zenon, <1>1, <1>3 DEF IInv, NothingReserved, Held
<1> QED
  BY Zenon, <1>1, <1>2, <1>3, <1>4, ProgressStep DEF reserve_local

LEMMA ProcessStep ==
  ASSUME IInv, UNCHANGED deployment, NEW i \in Instances, process(i)
  PROVE  IInv'
<1>1. PICK m \in Held(i) :
        /\ identity' = [identity EXCEPT ![i] =
             remember_handshake_init_fingerprint(consume_one_time_pre_key(identity[i], m), m)]
        /\ call' = [call EXCEPT ![i] =
             [pc |-> "committing", init |-> call[i].init, bundle |-> call[i].bundle,
              remote_reserved |-> call[i].remote_reserved,
              ack |-> {HandshakeAck(identity[i].pool, m, call[i].bundle)}]]
  BY Zenon DEF process
<1> DEFINE spent == consume_one_time_pre_key(identity[i], m)
           id == remember_handshake_init_fingerprint(spent, m)
           ack == {HandshakeAck(identity[i].pool, m, call[i].bundle)}
           c == [pc |-> "committing", init |-> call[i].init, bundle |-> call[i].bundle,
                 remote_reserved |-> call[i].remote_reserved, ack |-> ack]
<1>2. IsIdentity(spent) /\ spent.inflight = identity[i].inflight
  <2>1. IsIdentity(identity[i])
    BY DEF IInv, Shapes
  <2> QED
    BY <2>1, ConsumeShape
<1>3. IsIdentity(id) /\ id.inflight = spent.inflight \ {m}
  <2> HIDE DEF spent
  <2> QED
    BY <1>2, RememberShape
<1>4. identity' = [identity EXCEPT ![i] = id] /\ call' = [call EXCEPT ![i] = c]
  BY Zenon, <1>1
<1> HIDE DEF id, spent
<1>6. IsCall(c)
  BY Zenon DEF IsCall
<1>7. Held(i) = {m}
  BY Zenon DEF IInv, CallsHold, Held
<1>8. id.inflight = {}
  BY <1>2, <1>3, <1>7 DEF IInv, NothingReserved, Held
<1>9. /\ c.pc = "committing" /\ c.init = call[i].init
      /\ c.remote_reserved = call[i].remote_reserved
      /\ call[i].pc = "processing"
  BY Zenon DEF process
<1> HIDE DEF c
<1> QED
  BY Zenon, <1>3, <1>4, <1>6, <1>8, <1>9, ProgressStep DEF process

LEMMA EndSteps ==
  ASSUME IInv, UNCHANGED deployment, NEW i \in Instances, NEW works \in BOOLEAN,
         reserve_duplicate(i, works) \/ process_fails(i, works) \/ commit_fails(i, works)
  PROVE  IInv'
<1> USE HandshakeAssumption
<1>1. IsIdentity(identity[i]) /\ identity[i].inflight \subseteq Held(i)
  BY Zenon DEF IInv, Shapes, NothingReserved
<1>2. CASE reserve_duplicate(i, works)
  <2>1. identity' = [identity EXCEPT ![i] = identity[i]]
    BY Zenon, <1>2 DEF reserve_duplicate, IInv, Shapes
  <2>2. identity[i].inflight = {}
    BY Zenon, <1>2 DEF reserve_duplicate, IInv, CallsHold
  <2> QED
    BY Zenon, <1>1, <1>2, <2>1, <2>2, EndStep DEF reserve_duplicate
<1>3. CASE process_fails(i, works)
  <2> DEFINE id == release_handshake_init_fingerprint(identity[i], Held(i))
  <2>1. IsIdentity(id) /\ id.inflight = identity[i].inflight \ Held(i)
    BY Zenon, <1>1, ReleaseShape
  <2>2. identity' = [identity EXCEPT ![i] = id]
    BY Zenon, <1>3 DEF process_fails
  <2> HIDE DEF id
  <2>3. id.inflight = {}
    BY Zenon, <1>1, <2>1
  <2> QED
    BY Zenon, <1>3, <2>1, <2>2, <2>3, EndStep DEF process_fails
<1>4. CASE commit_fails(i, works)
  <2> DEFINE id == forget_handshake_init_fingerprint(identity[i], Held(i))
  <2>1. IsIdentity(id) /\ id.inflight = identity[i].inflight \ Held(i)
    BY Zenon, <1>1, ForgetShape
  <2>2. identity' = [identity EXCEPT ![i] = id]
    BY Zenon, <1>4 DEF commit_fails
  <2> HIDE DEF id
  <2>3. id.inflight = {}
    BY Zenon, <1>1, <2>1
  <2> QED
    BY Zenon, <1>4, <2>1, <2>2, <2>3, EndStep DEF commit_fails
<1> QED
  BY <1>2, <1>3, <1>4

\* The local reservation returned an error: as a release that fails.
LEMMA RefusedStep ==
  ASSUME IInv, UNCHANGED deployment, NEW i \in Instances, reserve_refused(i)
  PROVE  IInv'
<1>1. IsIdentity(identity[i]) /\ identity' = [identity EXCEPT ![i] = identity[i]]
  BY Zenon DEF IInv, Shapes, reserve_refused
<1>2. identity[i].inflight = {}
  BY Zenon DEF reserve_refused, IInv, CallsHold
<1>3. release(Remote(i), FALSE)
  BY DEF release, reserve_refused
<1> QED
  BY Zenon, <1>1, <1>2, <1>3, EndStep DEF reserve_refused

LEMMA RestartStep ==
  ASSUME IInv, UNCHANGED deployment, NEW i \in Instances, restart(i)
  PROVE  IInv'
<1> DEFINE new == NewIdentity(identity[i].replenished)
           id == restore_sealed_replay_state(new, saved[i])
<1>1. IsIdentity(new) /\ new.inflight = {}
  BY DEF IsIdentity, NewIdentity
<1>2. IsIdentity(id) /\ id.inflight = {}
  <2> HIDE DEF new
  <2> QED
    BY <1>1, RestoreShape
<1>3. identity' = [identity EXCEPT ![i] = id]
  BY DEF restart
<1> HIDE DEF id
<1>4. release(Remote(i), FALSE)
  BY DEF restart, release
<1> QED
  BY Zenon, <1>2, <1>3, <1>4, EndStep DEF restart

LEMMA ReplenishStep ==
  ASSUME IInv, UNCHANGED deployment, NEW i \in Instances, NEW id \in OpkIds, replenish(i, id)
  PROVE  IInv'
<1> DEFINE new == replenish_one_time_pre_keys(identity[i], <<id, identity[i].replenished + 1>>)
<1>1. /\ identity' = [j \in Instances |-> IF j = i THEN new ELSE identity[j]]
      /\ call' = call /\ guard' = guard /\ accepted' = accepted /\ leaked' = leaked
  BY Zenon DEF replenish, IInv, Shapes
<1>2. IsIdentity(new) /\ new.inflight = identity[i].inflight
  BY Zenon DEF IsIdentity, replenish_one_time_pre_keys
<1> HIDE DEF new
<1>3. Shapes'
  <2>1. \A j \in Instances : IsIdentity(identity'[j]) /\ IsCall(call'[j])
    BY Zenon, <1>1, <1>2 DEF IInv, Shapes
  <2>2. /\ guard' = [reserved |-> guard'.reserved, committed |-> guard'.committed]
        /\ call' = [j \in Instances |-> call'[j]]
    BY Zenon, <1>1 DEF IInv, Shapes
  <2> QED
    BY Zenon, <1>1, <2>1, <2>2 DEF Shapes, IsIdentity, IsCall
<1>4. CallsHold'
  BY Zenon, <1>1, <1>2 DEF IInv, CallsHold, Remote, Held
<1>5. GuardInv' /\ AcceptedAtMostOnce'
  BY Zenon, <1>1 DEF IInv, GuardInv, AcceptedAtMostOnce, Held
<1>6. NothingReserved'
  BY Zenon, <1>1, <1>2 DEF IInv, NothingReserved, Held
<1> QED
  BY <1>3, <1>4, <1>5, <1>6 DEF IInv, Deployed

LEMMA NextIInv == IInv /\ [Next]_vars => IInv'
<1> SUFFICES ASSUME IInv, [Next]_vars
             PROVE  IInv'
  OBVIOUS
<1>0. UNCHANGED deployment
  BY DEF Next, vars
<1>1. CASE UNCHANGED vars
  BY <1>1, OtherSteps DEF vars
<1>2. CASE InitiatorStep
  BY Zenon, <1>0, <1>2, OtherSteps DEF InitiatorStep, start, start_fails, finish, responder
<1>3. ASSUME NEW i \in Instances, publish(i) \/ export_sealed_replay_state(i)
      PROVE  IInv'
  BY Zenon, <1>0, <1>3, OtherSteps DEF publish, export_sealed_replay_state, responder
<1>4. CASE ResponderStep
  BY Zenon, <1>0, <1>4, <1>3, ReplenishStep, ReserveRemoteStep, ReserveLocalStep, ProcessStep, CommitStep,
     RestartStep, RefusedStep, EndSteps DEF ResponderStep, IInv, Deployed
<1> QED
  BY <1>1, <1>2, <1>4 DEF Next

-----------------------------------------------------------------------------
\* The replay guard accepts every HandshakeInit at most once, for any number
\* of instances that share it, whatever fails and whatever restarts.
THEOREM GuardAcceptsOnce == Spec => []AcceptedAtMostOnce
<1>1. IInv => AcceptedAtMostOnce
  BY DEF IInv
<1> QED
  BY InitIInv, NextIInv, <1>1, PTL DEF Spec

\* An instance holds no reservation of a call that has ended, and the guard only
\* those the code gives up: a release that failed, a process that died, and a
\* local reservation that returned an error after the guard's was made.
THEOREM ReservationsAccountedFor == Spec => []NothingReserved
<1>1. IInv => NothingReserved
  BY DEF IInv
<1> QED
  BY InitIInv, NextIInv, <1>1, PTL DEF Spec

-----------------------------------------------------------------------------
(* What both sides of a handshake hold.                                    *)

IsInitiator(x) == \E s, m, e : x = [status |-> s, init |-> m, expected |-> e]

\* The acknowledgement of a responder that accepted m under m's own key.
Answer(m) == [key |-> m.mac.key, bundle |-> m.mac.bundle, from |-> m.from]

\* Calls, acceptances and acknowledgements are all about messages that were
\* sent, and an acknowledgement in a call is the answer to the call's message.
AgreeInv ==
  /\ initiator = [h \in Handshakes |-> initiator[h]]
  /\ \A h \in Handshakes : initiator[h].status # "none" =>
       /\ IsInitiator(initiator[h])
       /\ initiator[h].init.from = h
       /\ initiator[h].expected = Answer(initiator[h].init)
  /\ \A i \in Instances :
       /\ call[i].init \subseteq Inits
       /\ \A a \in call[i].ack : \E m \in call[i].init : a = Answer(m)
  /\ accepted \in Seq(Inits)
  /\ \A a \in acks : \E k \in DOMAIN accepted : a = Answer(accepted[k])
  /\ KeysAgree

LEMMA InitAgree == Init => AgreeInv
BY SMTT(30) DEF Init, AgreeInv, KeysAgree, NoInitiator, NoCall, Inits

\* A step of instance i that accepts nothing.
LEMMA AgreeCall ==
  ASSUME IInv, AgreeInv, NEW i \in Instances, NEW c,
         call' = [call EXCEPT ![i] = c],
         c.init \subseteq Inits,
         \A a \in c.ack : \E m \in c.init : a = Answer(m),
         UNCHANGED <<initiator, accepted, acks>>
  PROVE  AgreeInv'
<1>1. call' = [j \in Instances |-> IF j = i THEN c ELSE call[j]]
  BY Zenon DEF IInv, Shapes
<1>2. Inits' = Inits
  BY DEF Inits
<1>3. \A j \in Instances :
        /\ call'[j].init \subseteq Inits
        /\ \A a \in call'[j].ack : \E m \in call'[j].init : a = Answer(m)
  BY <1>1 DEF AgreeInv
<1>4. KeysAgree'
  BY Zenon DEF AgreeInv, KeysAgree
<1> QED
  BY <1>2, <1>3, <1>4, SMTT(30) DEF AgreeInv, IsInitiator, Answer

LEMMA AgreeSame ==
  ASSUME AgreeInv, UNCHANGED <<call, initiator, accepted, acks>>
  PROVE  AgreeInv'
BY SMTT(30) DEF AgreeInv, KeysAgree, Inits, IsInitiator, Answer

\* A message that was sent stays what it is.
LEMMA AgreeInitiator ==
  ASSUME AgreeInv, NEW h \in Handshakes, NEW x,
         initiator' = [initiator EXCEPT ![h] = x],
         IsInitiator(x), x.status # "none",
         x.init.from = h, x.expected = Answer(x.init),
         initiator[h].status # "none" => x.init = initiator[h].init,
         x.status = "session" =>
           \E k \in DOMAIN accepted : accepted[k] = x.init /\ accepted[k].mac.key = x.expected.key,
         UNCHANGED <<call, accepted, acks>>
  PROVE  AgreeInv' /\ Inits \subseteq Inits'
<1>1. initiator' = [g \in Handshakes |-> IF g = h THEN x ELSE initiator[g]]
  BY Zenon DEF AgreeInv
<1>2. Inits \subseteq Inits'
  <2> SUFFICES ASSUME NEW g \in Handshakes, initiator[g].status # "none"
               PROVE  initiator[g].init \in Inits'
    BY Zenon DEF Inits
  <2>1. initiator'[g].status # "none" /\ initiator'[g].init = initiator[g].init
    BY Zenon, <1>1
  <2> QED
    BY Zenon, <2>1 DEF Inits
<1>3. \A g \in Handshakes : initiator'[g].status # "none" =>
        /\ IsInitiator(initiator'[g])
        /\ initiator'[g].init.from = g
        /\ initiator'[g].expected = Answer(initiator'[g].init)
  BY <1>1 DEF AgreeInv
<1>4. accepted' \in Seq(Inits')
  <2>1. accepted \in Seq(Inits)
    BY Zenon DEF AgreeInv
  <2> HIDE DEF Inits
  <2> QED
    BY <1>2, <2>1
<1>5. KeysAgree'
  BY <1>1, SMTT(30) DEF AgreeInv, KeysAgree
<1>6. \A j \in Instances :
        /\ call'[j].init \subseteq Inits'
        /\ \A a \in call'[j].ack : \E m \in call'[j].init : a = Answer(m)
  BY Zenon, <1>2 DEF AgreeInv
<1>7. \A a \in acks' : \E k \in DOMAIN accepted' : a = Answer(accepted'[k])
  BY Zenon DEF AgreeInv
<1>8. initiator' = [g \in Handshakes |-> initiator'[g]]
  BY Zenon, <1>1
<1> QED
  BY Zenon, <1>2, <1>3, <1>4, <1>5, <1>6, <1>7, <1>8 DEF AgreeInv, IsInitiator, Answer

LEMMA AgreeStart ==
  ASSUME AgreeInv, NEW h \in Handshakes, start(h)
  PROVE  AgreeInv' /\ Inits \subseteq Inits'
<1> DEFINE eph == generate_ephemeral_key_pair(InitiatorOf[h])
           x(bundle, opk) ==
             [ status   |-> "waiting",
               init     |-> HandshakeInit(h, eph, opk, bundle),
               expected |-> [key |-> Key(h, eph, opk), bundle |-> bundle, from |-> h] ]
<1>1. PICK bundle, opk : initiator' = [initiator EXCEPT ![h] = x(bundle, opk)]
  BY Zenon DEF start
<1>2. /\ IsInitiator(x(bundle, opk)) /\ x(bundle, opk).status = "waiting"
      /\ x(bundle, opk).init.from = h
      /\ x(bundle, opk).expected = Answer(x(bundle, opk).init)
  BY Zenon DEF IsInitiator, HandshakeInit, Answer
<1>3. initiator[h].status = "none" /\ UNCHANGED <<call, accepted, acks>>
  BY Zenon DEF start, responder
<1> HIDE DEF x
<1> QED
  BY Zenon, <1>1, <1>2, <1>3, AgreeInitiator

LEMMA AgreeFinish ==
  ASSUME AgreeInv, NEW h \in Handshakes, NEW ack \in acks, finish(h, ack)
  PROVE  AgreeInv' /\ Inits \subseteq Inits'
<1> DEFINE s == IF ack_confirms(h, ack) THEN "session" ELSE "failed"
           x == [status |-> s, init |-> initiator[h].init, expected |-> initiator[h].expected]
<1>1. IsInitiator(initiator[h]) /\ initiator[h].status # "none"
  BY Zenon DEF finish, AgreeInv
<1>2. initiator' = [initiator EXCEPT ![h] = x]
  <2>1. [initiator[h] EXCEPT !.status = s] = x
    BY <1>1 DEF IsInitiator
  <2> QED
    BY Zenon, <2>1 DEF finish, AgreeInv
<1>3. ASSUME s = "session"
      PROVE  \E k \in DOMAIN accepted :
               accepted[k] = initiator[h].init /\ accepted[k].mac.key = initiator[h].expected.key
  <2>1. ack = initiator[h].expected
    BY <1>3 DEF ack_confirms
  <2>2. PICK k \in DOMAIN accepted : ack = Answer(accepted[k])
    BY Zenon DEF AgreeInv
  <2>3. accepted[k] \in Inits
    BY DEF AgreeInv
  <2>4. PICK g \in Handshakes : initiator[g].status # "none" /\ accepted[k] = initiator[g].init
    BY <2>3 DEF Inits
  <2>5. ack.from = accepted[k].from /\ accepted[k].from = g
    BY Zenon, <2>2, <2>4 DEF AgreeInv, Answer
  <2>6. ack.from = h
    <3>1. initiator[h].expected = Answer(initiator[h].init) /\ initiator[h].init.from = h
      BY Zenon, <1>1 DEF AgreeInv
    <3>2. Answer(initiator[h].init).from = initiator[h].init.from
      BY DEF Answer
    <3> QED
      BY <2>1, <3>1, <3>2
  <2> QED
    BY <2>1, <2>2, <2>4, <2>5, <2>6 DEF Answer
<1>4. UNCHANGED <<call, accepted, acks>>
  BY DEF finish, responder
<1>5. /\ IsInitiator(x) /\ x.status # "none" /\ x.status = s
      /\ x.init = initiator[h].init /\ x.expected = initiator[h].expected
      /\ x.init.from = h /\ x.expected = Answer(x.init)
  BY Zenon, <1>1 DEF IsInitiator, AgreeInv
<1> HIDE DEF x, s
<1> QED
  BY Zenon, <1>2, <1>3, <1>4, <1>5, AgreeInitiator

LEMMA AgreeCommit ==
  ASSUME IInv, AgreeInv, NEW i \in Instances, commit(i)
  PROVE  AgreeInv'
<1>1. PICK m \in call[i].init : accepted' = Append(accepted, m)
  BY Zenon DEF commit, Held
<1>2. /\ call' = [j \in Instances |-> IF j = i THEN NoCall ELSE call[j]]
      /\ acks' = acks \cup call[i].ack
      /\ initiator' = initiator
  BY Zenon DEF commit, others, IInv, Shapes
<1>3. Inits' = Inits
  BY <1>2 DEF Inits
<1>4. accepted \in Seq(Inits) /\ m \in Inits
  BY Zenon DEF AgreeInv
<1>5. /\ accepted' \in Seq(Inits)
      /\ DOMAIN accepted' = DOMAIN accepted \cup {Len(accepted) + 1}
      /\ \A k \in DOMAIN accepted : accepted'[k] = accepted[k]
      /\ accepted'[Len(accepted) + 1] = m
  BY <1>1, <1>4
<1>6. \A a \in call[i].ack : a = Answer(m)
  BY DEF AgreeInv, IInv, CallsHold
<1>7. \A a \in acks' : \E k \in DOMAIN accepted' : a = Answer(accepted'[k])
  <2> SUFFICES ASSUME NEW a \in acks'
               PROVE  \E k \in DOMAIN accepted' : a = Answer(accepted'[k])
    OBVIOUS
  <2>1. CASE a \in call[i].ack
    BY <1>5, <1>6, <2>1
  <2>2. CASE a \in acks
    <3>1. PICK k \in DOMAIN accepted : a = Answer(accepted[k])
      BY Zenon, <2>2 DEF AgreeInv
    <3> QED
      BY <1>5, <3>1
  <2> QED
    BY <1>2, <2>1, <2>2
<1>8. \A j \in Instances :
        /\ call'[j].init \subseteq Inits
        /\ \A a \in call'[j].ack : \E n \in call'[j].init : a = Answer(n)
  BY <1>2 DEF AgreeInv, NoCall
<1>9. KeysAgree'
  BY <1>2, <1>5 DEF AgreeInv, KeysAgree
<1> QED
  BY <1>2, <1>3, <1>5, <1>7, <1>8, <1>9, SMTT(30) DEF AgreeInv, IsInitiator, Answer

LEMMA AgreeProcess ==
  ASSUME IInv, AgreeInv, NEW i \in Instances, process(i)
  PROVE  AgreeInv'
<1>1. PICK m \in Held(i) :
        /\ init_confirmed(identity[i].pool, m, call[i].bundle)
        /\ call' = [call EXCEPT ![i] =
             [pc |-> "committing", init |-> call[i].init, bundle |-> call[i].bundle,
              remote_reserved |-> call[i].remote_reserved,
              ack |-> {HandshakeAck(identity[i].pool, m, call[i].bundle)}]]
  BY Zenon DEF process
<1>2. HandshakeAck(identity[i].pool, m, call[i].bundle) = Answer(m)
  BY <1>1 DEF init_confirmed, HandshakeAck, Answer
<1> DEFINE c == [pc |-> "committing", init |-> call[i].init, bundle |-> call[i].bundle,
                 remote_reserved |-> call[i].remote_reserved, ack |-> {Answer(m)}]
<1>3. call' = [call EXCEPT ![i] = c]
  BY Zenon, <1>1, <1>2
<1>4. c.init \subseteq Inits /\ \A a \in c.ack : \E n \in c.init : a = Answer(n)
  BY Zenon DEF AgreeInv, Held
<1>5. UNCHANGED <<initiator, accepted, acks>>
  BY Zenon DEF process, others
<1> HIDE DEF c
<1> QED
  BY <1>3, <1>4, <1>5, AgreeCall

LEMMA NextAgree ==
  ASSUME IInv, AgreeInv, [Next]_vars
  PROVE  AgreeInv' /\ Inits \subseteq Inits'
<1>1. CASE UNCHANGED vars
  <2>1. Inits' = Inits /\ UNCHANGED <<call, initiator, accepted, acks>>
    BY <1>1 DEF vars, Inits
  <2> QED
    BY <2>1, AgreeSame
<1>2. CASE InitiatorStep
  <2>1. ASSUME NEW h \in Handshakes, start_fails(h)
        PROVE  AgreeInv' /\ Inits \subseteq Inits'
    <3>1. Inits' = Inits /\ UNCHANGED <<call, initiator, accepted, acks>>
      BY <2>1 DEF start_fails, responder, Inits
    <3> QED
      BY <3>1, AgreeSame
  <2> QED
    BY <1>2, <2>1, AgreeStart, AgreeFinish DEF InitiatorStep
<1>3. CASE ResponderStep
  <2>1. PICK i \in Instances :
          \/ publish(i)
          \/ \E id \in OpkIds : replenish(i, id)
          \/ \E m \in Inits, bundle \in bundles \cup {identity[i].pool} : reserve_remote(i, m, bundle)
          \/ reserve_local(i)
          \/ reserve_refused(i)
          \/ process(i)
          \/ commit(i)
          \/ export_sealed_replay_state(i)
          \/ restart(i)
          \/ \E works \in BOOLEAN :
               \/ reserve_duplicate(i, works)
               \/ process_fails(i, works)
               \/ commit_fails(i, works)
    BY Zenon, <1>3 DEF ResponderStep, IInv, Deployed
  <2>2. Inits' = Inits
    BY Zenon, <2>1 DEF Inits, publish, replenish, reserve_remote, reserve_local, process, commit, others,
                export_sealed_replay_state, restart, reserve_refused, reserve_duplicate, process_fails,
                commit_fails
  <2>3. CASE publish(i) \/ (\E id \in OpkIds : replenish(i, id)) \/ export_sealed_replay_state(i)
    BY Zenon, <2>2, <2>3, AgreeSame DEF publish, replenish, export_sealed_replay_state, others, responder
  <2>4. ASSUME NEW m \in Inits, NEW bundle, reserve_remote(i, m, bundle)
        PROVE  AgreeInv'
    <3> DEFINE c == [pc |-> "reserved", init |-> {m}, bundle |-> bundle,
                     remote_reserved |-> Guarded, ack |-> {}]
    <3>1. call' = [call EXCEPT ![i] = c] /\ UNCHANGED <<initiator, accepted, acks>>
      BY <2>4 DEF reserve_remote, others
    <3>2. c.init = {m} /\ c.ack = {}
      OBVIOUS
    <3> HIDE DEF c
    <3> QED
      BY <3>1, <3>2, AgreeCall
  <2>5. CASE reserve_local(i)
    <3> DEFINE c == [call[i] EXCEPT !.pc = "processing"]
    <3>1. call' = [call EXCEPT ![i] = c] /\ UNCHANGED <<initiator, accepted, acks>>
      BY <2>5 DEF reserve_local, others
    <3>2. c.init = call[i].init /\ c.ack = call[i].ack
      BY DEF IInv, Shapes, IsCall
    <3> HIDE DEF c
    <3>3. /\ c.init \subseteq Inits
          /\ \A a \in c.ack : \E m \in c.init : a = Answer(m)
      BY <3>2 DEF AgreeInv
    <3> QED
      BY <2>2, <3>1, <3>3, AgreeCall
  <2>6. CASE restart(i) \/ reserve_refused(i) \/ \E works \in BOOLEAN :
               \/ reserve_duplicate(i, works)
               \/ process_fails(i, works)
               \/ commit_fails(i, works)
    <3>1. call' = [call EXCEPT ![i] = NoCall] /\ UNCHANGED <<initiator, accepted, acks>>
      BY Zenon, <2>6 DEF restart, reserve_refused, reserve_duplicate, process_fails, commit_fails, others
    <3>2. NoCall.init = {} /\ NoCall.ack = {}
      BY DEF NoCall
    <3> QED
      BY <2>2, <3>1, <3>2, AgreeCall
  <2> QED
    BY <2>1, <2>2, <2>3, <2>4, <2>5, <2>6, AgreeProcess, AgreeCommit
<1> QED
  BY <1>1, <1>2, <1>3 DEF Next

-----------------------------------------------------------------------------
(* What an instance has accepted stays used up.                            *)

\* The key pairs derived from the seed are the ones with number 0.
Proper(k) == k \in OpkKeys /\ (k[1] \in SeedPool <=> k[2] = 0)

\* The pre-key of m is gone from the pool and no replenished key has its number.
UsedUp(m, pool, n) == \A k \in m.mac.key.opk : k \notin pool /\ k[2] <= n /\ Proper(k)

\* ReplayOnlyBeyondWindow, of one history.
Apart(seq) ==
  \A j, k \in DOMAIN seq : j < k /\ seq[j] = seq[k] => k - j > MaxSeen /\ seq[j].opk_id = {}

\* The remembered fingerprints are the last MaxSeen acceptances.
Window(recent, seq) ==
  /\ Len(recent) = IF Len(seq) > MaxSeen THEN MaxSeen ELSE Len(seq)
  /\ \A n \in 1..Len(recent) : recent[n] = seq[Len(seq) - Len(recent) + n]

\* m is none of the last MaxSeen acceptances.
Unheard(m, seq) == \A j \in DOMAIN seq : seq[j] = m => Len(seq) + 1 - j > MaxSeen

\* Instance with identity id, call c and history seq.  Between process and
\* commit the pool and the window are those of the history to come.
LiveInv(id, c, seq, guarded, M) ==
  /\ id.replenished \in Nat
  /\ seq \in Seq(M)
  /\ \A k \in id.pool : k[2] <= id.replenished /\ Proper(k)
  /\ \A j \in DOMAIN seq : UsedUp(seq[j], id.pool, id.replenished)
  /\ c.pc = "committing" => \A m \in c.init : UsedUp(m, id.pool, id.replenished)
  /\ ~guarded =>
       /\ id.recent \in Seq(M)
       /\ Apart(seq)
       /\ c.pc # "committing" => Window(id.recent, seq)
       /\ c.pc = "processing" => \A m \in c.init : Unheard(m, seq)
       /\ c.pc = "committing" =>
            \A m \in c.init : /\ Window(id.recent, Append(seq, m))
                              /\ Unheard(m, seq)
                              /\ \A j \in DOMAIN seq : seq[j] = m => m.opk_id = {}

\* What a sealed replay state must tell to restore that.
SavedInv(blob, n, guarded, M) ==
  /\ blob.known \in Seq(M)
  /\ \A j \in DOMAIN blob.known : \A k \in blob.known[j].mac.key.opk :
       k[2] <= n /\ Proper(k) /\ (k[2] = 0 => k[1] \notin blob.remaining)
  /\ ~guarded => /\ blob.recent \in Seq(M)
                 /\ Apart(blob.known)
                 /\ Window(blob.recent, blob.known)

UsedInv ==
  /\ known = [i \in Instances |-> known[i]]
  /\ saved = [i \in Instances |-> saved[i]]
  /\ \A i \in Instances :
       /\ LiveInv(identity[i], call[i], known[i], Guarded, Inits)
       /\ SavedInv(saved[i], identity[i].replenished, Guarded, Inits)

LEMMA InitUsed == Init => UsedInv
<1> SUFFICES ASSUME Init
             PROVE  UsedInv
  OBVIOUS
<1> USE HandshakeAssumption
<1> DEFINE M == Inits
<1> HIDE DEF M
<1>1. /\ << >> \in Seq(M)
      /\ Apart(<< >>)
      /\ Window(<< >>, << >>)
  BY DEF Apart, Window
<1>2. ASSUME NEW i \in Instances
      PROVE  LiveInv(identity[i], call[i], known[i], Guarded, M)
  <2>1. /\ identity[i].pool = Seeded /\ identity[i].replenished = 0
        /\ identity[i].recent = << >> /\ call[i].pc = "idle" /\ known[i] = << >>
    BY Zenon DEF Init, NewIdentity, NoCall
  <2>2. \A k \in Seeded : k[2] <= 0 /\ Proper(k)
    BY DEF Seeded, Proper, OpkKeys
  <2> QED
    BY <1>1, <2>1, <2>2, SMTT(30) DEF LiveInv
<1>3. ASSUME NEW i \in Instances
      PROVE  SavedInv(saved[i], identity[i].replenished, Guarded, M)
  <2>1. saved[i].recent = << >> /\ saved[i].known = << >>
    BY Zenon DEF Init
  <2> QED
    BY <1>1, <2>1 DEF SavedInv
<1>4. known = [i \in Instances |-> known[i]] /\ saved = [i \in Instances |-> saved[i]]
  BY Zenon DEF Init
<1> QED
  BY <1>2, <1>3, <1>4 DEF UsedInv, M

\* Both invariants survive a longer list of messages.
LEMMA MoreMessages ==
  ASSUME NEW M, NEW N, M \subseteq N, NEW id, NEW c, NEW seq, NEW blob, NEW n, NEW guarded
  PROVE  /\ LiveInv(id, c, seq, guarded, M) => LiveInv(id, c, seq, guarded, N)
         /\ SavedInv(blob, n, guarded, M) => SavedInv(blob, n, guarded, N)
<1>1. \A s : s \in Seq(M) => s \in Seq(N)
  OBVIOUS
<1>2. LiveInv(id, c, seq, guarded, M) => LiveInv(id, c, seq, guarded, N)
  BY <1>1, Zenon DEF LiveInv
<1>3. SavedInv(blob, n, guarded, M) => SavedInv(blob, n, guarded, N)
  BY <1>1, Zenon DEF SavedInv
<1> QED
  BY <1>2, <1>3

\* What the window does not hold was not accepted lately.
LEMMA WindowUnheard ==
  ASSUME NEW M, NEW seq \in Seq(M), NEW recent \in Seq(M), NEW m, Window(recent, seq),
         \A n \in DOMAIN recent : recent[n] # m
  PROVE  Unheard(m, seq)
<1> USE HandshakeAssumption
<1> SUFFICES ASSUME NEW j \in DOMAIN seq, seq[j] = m, Len(seq) + 1 - j <= MaxSeen
             PROVE  FALSE
  BY DEF Unheard
<1> DEFINE n == j - (Len(seq) - Len(recent))
<1>1. n \in 1..Len(recent)
  BY DEF Window
<1>2. Len(seq) - Len(recent) + n = j
  OBVIOUS
<1>3. recent[n] = seq[Len(seq) - Len(recent) + n]
  BY Zenon, <1>1 DEF Window
<1> QED
  BY <1>1, <1>2, <1>3

\* remember_handshake_init_fingerprint slides the window.
LEMMA WindowSlides ==
  ASSUME NEW M, NEW seq \in Seq(M), NEW recent \in Seq(M), NEW m \in M, Window(recent, seq)
  PROVE  LET longer == Append(recent, m)
             new == IF Len(longer) > MaxSeen THEN Tail(longer) ELSE longer
         IN  new \in Seq(M) /\ Window(new, Append(seq, m))
<1> USE HandshakeAssumption
<1> DEFINE longer == Append(recent, m)
           new == IF Len(longer) > MaxSeen THEN Tail(longer) ELSE longer
           seq2 == Append(seq, m)
<1> SUFFICES new \in Seq(M) /\ Window(new, seq2)
  OBVIOUS
<1>1. /\ longer \in Seq(M) /\ Len(longer) = Len(recent) + 1
      /\ \A n \in 1..Len(recent) : longer[n] = recent[n]
      /\ longer[Len(recent) + 1] = m
  OBVIOUS
<1>2. /\ seq2 \in Seq(M) /\ Len(seq2) = Len(seq) + 1
      /\ \A n \in 1..Len(seq) : seq2[n] = seq[n]
      /\ seq2[Len(seq) + 1] = m
  OBVIOUS
<1>3. Tail(longer) \in Seq(M) /\ Len(Tail(longer)) = Len(recent)
      /\ \A n \in 1..Len(recent) : Tail(longer)[n] = longer[n + 1]
  BY <1>1
<1>4. Len(recent) \in Nat /\ Len(seq) \in Nat
  OBVIOUS
<1> HIDE DEF longer, seq2
<1>5. CASE Len(longer) > MaxSeen
  <2>1. new = Tail(longer) /\ Len(recent) = MaxSeen
    BY <1>1, <1>4, <1>5 DEF Window
  <2>2. ASSUME NEW n \in 1..Len(recent)
        PROVE  Tail(longer)[n] = seq2[Len(seq2) - Len(recent) + n]
    <3>1. CASE n = Len(recent)
      BY <1>1, <1>2, <1>3, <1>4, <3>1
    <3>2. CASE n < Len(recent)
      <4>1. Tail(longer)[n] = recent[n + 1]
        BY <1>1, <1>3, <1>4, <3>2
      <4>0. n + 1 \in 1..Len(recent)
        BY <1>4, <3>2
      <4>2. recent[n + 1] = seq[Len(seq) - Len(recent) + (n + 1)]
        BY Zenon, <4>0 DEF Window
      <4>3. Len(seq) - Len(recent) + (n + 1) \in 1..Len(seq)
        BY <1>4, <3>2, <2>1 DEF Window
      <4>4. Len(seq) - Len(recent) + (n + 1) = Len(seq2) - Len(recent) + n
        BY <1>2, <1>4
      <4> QED
        BY <1>2, <4>1, <4>2, <4>3, <4>4
    <3>3. n = Len(recent) \/ n < Len(recent)
      BY <1>4
    <3> QED
      BY <3>1, <3>2, <3>3
  <2>3. Len(seq2) > MaxSeen
    BY <1>2, <1>4, <2>1 DEF Window
  <2> QED
    BY Zenon, <1>3, <2>1, <2>2, <2>3 DEF Window
<1>6. CASE ~(Len(longer) > MaxSeen)
  <2>1. new = longer /\ Len(recent) = Len(seq) /\ Len(longer) = Len(seq2) /\ ~(Len(seq2) > MaxSeen)
    BY <1>1, <1>2, <1>4, <1>6 DEF Window
  <2>2. ASSUME NEW n \in 1..Len(longer)
        PROVE  longer[n] = seq2[n]
    <3>1. CASE n = Len(recent) + 1
      BY <1>1, <1>2, <2>1, <3>1
    <3>2. CASE n \in 1..Len(recent)
      <4>1. recent[n] = seq[Len(seq) - Len(recent) + n]
        BY <3>2 DEF Window
      <4>2. Len(seq) - Len(recent) + n = n
        BY <1>4, <2>1, <3>2
      <4> QED
        BY <1>1, <1>2, <2>1, <3>2, <4>1, <4>2
    <3> QED
      BY <1>1, <1>4, <3>1, <3>2
  <2>3. \A n \in 1..Len(longer) : Len(seq2) - Len(longer) + n = n
    BY <1>1, <1>2, <1>4, <2>1
  <2> QED
    BY Zenon, <1>1, <1>2, <2>1, <2>2, <2>3 DEF Window
<1> QED
  BY <1>5, <1>6
\* Instance i changes to identity id, call c, history seq and sealed state blob.
LEMMA UsedStep ==
  ASSUME IInv, UsedInv, UNCHANGED deployment, Inits \subseteq Inits',
         NEW i \in Instances, NEW id, NEW c, NEW seq, NEW blob,
         identity' = [identity EXCEPT ![i] = id],
         call' = [call EXCEPT ![i] = c],
         known' = [known EXCEPT ![i] = seq],
         saved' = [saved EXCEPT ![i] = blob],
         LiveInv(id, c, seq, Guarded, Inits),
         SavedInv(blob, id.replenished, Guarded, Inits)
  PROVE  UsedInv'
<1>1. /\ identity' = [j \in Instances |-> IF j = i THEN id ELSE identity[j]]
      /\ call' = [j \in Instances |-> IF j = i THEN c ELSE call[j]]
      /\ known' = [j \in Instances |-> IF j = i THEN seq ELSE known[j]]
      /\ saved' = [j \in Instances |-> IF j = i THEN blob ELSE saved[j]]
  BY Zenon DEF IInv, Shapes, UsedInv
<1>2. Guarded' = Guarded
  OBVIOUS
<1>3. ASSUME NEW j \in Instances
      PROVE  /\ LiveInv(identity'[j], call'[j], known'[j], Guarded, Inits)
             /\ SavedInv(saved'[j], identity'[j].replenished, Guarded, Inits)
  <2>1. CASE j = i
    BY Zenon, <1>1, <2>1
  <2>2. CASE j # i
    BY Zenon, <1>1, <2>2 DEF UsedInv
  <2> QED
    BY Zenon, <2>1, <2>2
<1>4. ASSUME NEW j \in Instances
      PROVE  /\ LiveInv(identity'[j], call'[j], known'[j], Guarded', Inits')
             /\ SavedInv(saved'[j], identity'[j].replenished, Guarded', Inits')
  BY Zenon, <1>2, <1>3, MoreMessages
<1>5. known' = [j \in Instances |-> known'[j]] /\ saved' = [j \in Instances |-> saved'[j]]
  BY Zenon, <1>1
<1> QED
  BY Zenon, <1>4, <1>5 DEF UsedInv

\* The history and the sealed state stay.
LEMMA UsedCall ==
  ASSUME IInv, UsedInv, UNCHANGED <<deployment, known, saved>>, Inits \subseteq Inits',
         NEW i \in Instances, NEW id, NEW c,
         identity' = [identity EXCEPT ![i] = id],
         call' = [call EXCEPT ![i] = c],
         LiveInv(id, c, known[i], Guarded, Inits),
         SavedInv(saved[i], id.replenished, Guarded, Inits)
  PROVE  UsedInv'
<1>1. PICK seq, blob : seq = known[i] /\ blob = saved[i]
  OBVIOUS
<1>2. known' = [known EXCEPT ![i] = seq] /\ saved' = [saved EXCEPT ![i] = blob]
  BY Zenon, <1>1 DEF UsedInv
<1>3. LiveInv(id, c, seq, Guarded, Inits) /\ SavedInv(blob, id.replenished, Guarded, Inits)
  BY <1>1
<1>4. UNCHANGED deployment
  OBVIOUS
<1> QED
  BY Zenon, <1>2, <1>3, <1>4, UsedStep

LEMMA UsedSame ==
  ASSUME UsedInv, UNCHANGED <<deployment, identity, call, known, saved>>, Inits \subseteq Inits'
  PROVE  UsedInv'
<1>1. \A j \in Instances :
        /\ LiveInv(identity[j], call[j], known[j], Guarded, Inits')
        /\ SavedInv(saved[j], identity[j].replenished, Guarded, Inits')
  BY Zenon, MoreMessages DEF UsedInv
<1> QED
  BY Zenon, <1>1 DEF UsedInv

\* A call is given up, before or after it had reserved the fingerprint, or
\* starts: the window and the pool stay.
LEMMA LiveSame ==
  ASSUME NEW id, NEW id2, NEW c, NEW c2, NEW seq, NEW guarded, NEW M,
         LiveInv(id, c, seq, guarded, M),
         id2.replenished = id.replenished, id2.pool = id.pool,
         ~guarded => id2.recent = id.recent /\ c.pc # "committing",
         c2.pc # "committing",
         c2.pc # "processing"
  PROVE  LiveInv(id2, c2, seq, guarded, M)
BY Zenon DEF LiveInv

LEMMA LiveReserve ==
  ASSUME NEW id, NEW id2, NEW c, NEW c2, NEW seq, NEW guarded, NEW M,
         LiveInv(id, c, seq, guarded, M),
         id2.replenished = id.replenished, id2.pool = id.pool, id2.recent = id.recent,
         c.pc = "reserved", c2.pc = "processing",
         \A m \in c2.init : \A n \in DOMAIN id.recent : id.recent[n] # m
  PROVE  LiveInv(id2, c2, seq, guarded, M)
<1>1. ASSUME ~guarded, NEW m \in c2.init
      PROVE  Unheard(m, seq)
  <2>1. seq \in Seq(M) /\ id.recent \in Seq(M) /\ Window(id.recent, seq)
    BY Zenon, <1>1 DEF LiveInv
  <2>2. \A n \in DOMAIN id.recent : id.recent[n] # m
    OBVIOUS
  <2> QED
    BY <2>1, <2>2, WindowUnheard
<1> QED
  BY Zenon, <1>1 DEF LiveInv

\* process: the pre-key leaves the pool, the fingerprint enters the window.
LEMMA LiveProcess ==
  ASSUME NEW id, NEW id2, NEW c, NEW c2, NEW seq, NEW guarded, NEW M, NEW m \in M,
         LiveInv(id, c, seq, guarded, M),
         c.pc = "processing", c.init = {m}, c2.pc = "committing", c2.init = {m},
         opk_found(id.pool, m),
         m.mac.key.opk = get_one_time_pre_key(id.pool, m),
         id2.replenished = id.replenished,
         id2.pool = {k \in id.pool : k[1] \notin m.opk_id},
         id2.recent = Pushed(id.recent, m)
  PROVE  LiveInv(id2, c2, seq, guarded, M)
<1>1. UsedUp(m, id2.pool, id2.replenished)
  BY Zenon DEF UsedUp, get_one_time_pre_key, LiveInv
<1>2. \A j \in DOMAIN seq : UsedUp(seq[j], id2.pool, id2.replenished)
  BY Zenon DEF UsedUp, LiveInv
<1>3. \A k \in id2.pool : k[2] <= id2.replenished /\ Proper(k)
  BY Zenon DEF LiveInv
<1>4. ASSUME NEW j \in DOMAIN seq, seq[j] = m, m.opk_id # {}
      PROVE  FALSE
  <2>1. PICK k \in id.pool : k[1] \in m.opk_id
    BY <1>4, SMTT(30) DEF opk_found, Ids
  <2>2. k \in m.mac.key.opk
    BY <2>1 DEF get_one_time_pre_key
  <2> QED
    BY Zenon, <1>4, <2>1, <2>2 DEF LiveInv, UsedUp
<1>5. ASSUME ~guarded
      PROVE  /\ id2.recent \in Seq(M)
             /\ Window(id2.recent, Append(seq, m))
             /\ Unheard(m, seq)
             /\ Apart(seq)
  <2>1. /\ seq \in Seq(M) /\ id.recent \in Seq(M) /\ Window(id.recent, seq)
        /\ Unheard(m, seq) /\ Apart(seq)
    BY Zenon, <1>5 DEF LiveInv
  <2> QED
    BY SMTT(30), <2>1, WindowSlides DEF Pushed
<1>6. id2.replenished \in Nat /\ seq \in Seq(M)
  BY Zenon DEF LiveInv
<1> QED
  BY Zenon, <1>1, <1>2, <1>3, <1>4, <1>5, <1>6 DEF LiveInv

\* commit: the history catches up.
LEMMA LiveCommit ==
  ASSUME NEW id, NEW c, NEW c2, NEW seq, NEW guarded, NEW M, NEW m \in M,
         LiveInv(id, c, seq, guarded, M),
         c.pc = "committing", c.init = {m}, c2.pc = "idle"
  PROVE  LiveInv(id, c2, Append(seq, m), guarded, M)
<1> DEFINE more == Append(seq, m)
<1>1. seq \in Seq(M)
  BY DEF LiveInv
<1>2. /\ more \in Seq(M)
      /\ DOMAIN more = DOMAIN seq \cup {Len(seq) + 1}
      /\ \A j \in DOMAIN seq : more[j] = seq[j]
      /\ more[Len(seq) + 1] = m
      /\ DOMAIN seq = 1..Len(seq) /\ Len(seq) \in Nat
  BY SMTT(30), <1>1
<1> HIDE DEF more
<1>3. \A j \in DOMAIN more : UsedUp(more[j], id.pool, id.replenished)
  BY Zenon, <1>2 DEF LiveInv
<1>4. ASSUME ~guarded
      PROVE  Apart(more) /\ Window(id.recent, more) /\ id.recent \in Seq(M)
  <2>1. /\ Window(id.recent, more) /\ Unheard(m, seq) /\ Apart(seq) /\ id.recent \in Seq(M)
        /\ \A j \in DOMAIN seq : seq[j] = m => m.opk_id = {}
    BY Zenon, <1>4 DEF LiveInv, more
  <2>2. ASSUME NEW j \in DOMAIN more, NEW k \in DOMAIN more, j < k, more[j] = more[k]
        PROVE  k - j > MaxSeen /\ more[j].opk_id = {}
    <3>1. CASE k \in DOMAIN seq
      <4>1. j \in DOMAIN seq
        BY SMTT(30), <1>2, <2>2, <3>1
      <4> QED
        BY <1>2, <2>1, <2>2, <3>1, <4>1 DEF Apart
    <3>2. CASE k = Len(seq) + 1
      <4>1. j \in DOMAIN seq /\ seq[j] = m
        BY SMTT(30), <1>2, <2>2, <3>2
      <4> QED
        BY <1>2, <2>1, <2>2, <3>2, <4>1, SMTT(30) DEF Unheard
    <3> QED
      BY <1>2, <3>1, <3>2
  <2> QED
    BY <2>1, <2>2 DEF Apart
<1>5. id.replenished \in Nat /\ \A k \in id.pool : k[2] <= id.replenished /\ Proper(k)
  BY Zenon DEF LiveInv
<1>6. LiveInv(id, c2, more, guarded, M)
  BY Zenon, <1>2, <1>3, <1>4, <1>5 DEF LiveInv
<1> QED
  BY <1>6 DEF more

LEMMA LiveReplenish ==
  ASSUME NEW id, NEW id2, NEW c, NEW seq, NEW blob, NEW guarded, NEW M, NEW x \in OpkIds,
         LiveInv(id, c, seq, guarded, M), SavedInv(blob, id.replenished, guarded, M),
         c.pc = "idle", x \notin SeedPool,
         id2.replenished = id.replenished + 1, id2.recent = id.recent,
         id2.pool = id.pool \cup {<<x, id.replenished + 1>>}
  PROVE  /\ LiveInv(id2, c, seq, guarded, M)
         /\ SavedInv(blob, id2.replenished, guarded, M)
<1> DEFINE n == id.replenished
           new == <<x, n + 1>>
<1>1. n \in Nat
  BY Zenon DEF LiveInv
<1>2. new[2] = n + 1 /\ Proper(new)
  BY <1>1, SMTT(30) DEF Proper, OpkKeys
<1>3. \A k : Proper(k) => k[2] \in Nat
  BY DEF Proper, OpkKeys
<1> HIDE DEF n, new
<1>4. \A k \in id2.pool : k[2] <= n + 1 /\ Proper(k)
  BY <1>1, <1>2, <1>3 DEF LiveInv, n, new
<1>5. ASSUME NEW j \in DOMAIN seq
      PROVE  UsedUp(seq[j], id2.pool, n + 1)
  <2> SUFFICES ASSUME NEW k \in seq[j].mac.key.opk
               PROVE  k \notin id2.pool /\ k[2] <= n + 1 /\ Proper(k)
    BY Zenon DEF UsedUp
  <2>1. k \notin id.pool /\ k[2] <= n /\ Proper(k)
    BY Zenon DEF LiveInv, UsedUp, n
  <2>2. k # new
    BY SMTT(30), <1>1, <1>2, <1>3, <2>1
  <2> QED
    BY <1>1, <1>3, <2>1, <2>2 DEF new, n
<1>6. LiveInv(id2, c, seq, guarded, M)
  <2>1. id2.replenished = n + 1 /\ id2.replenished \in Nat
    BY <1>1 DEF n
  <2>2. /\ \A k \in id2.pool : k[2] <= id2.replenished /\ Proper(k)
        /\ \A j \in DOMAIN seq : UsedUp(seq[j], id2.pool, id2.replenished)
    BY <1>4, <1>5, <2>1
  <2> QED
    BY Zenon, <2>1, <2>2 DEF LiveInv
<1>7. SavedInv(blob, n + 1, guarded, M)
  <2>1. \A j \in DOMAIN blob.known : \A k \in blob.known[j].mac.key.opk :
          k[2] <= n + 1 /\ Proper(k) /\ (k[2] = 0 => k[1] \notin blob.remaining)
    BY <1>1, <1>3, SMTT(30) DEF SavedInv, n
  <2> QED
    BY Zenon, <2>1 DEF SavedInv
<1> QED
  BY <1>6, <1>7 DEF n

LEMMA SavedExport ==
  ASSUME NEW id, NEW c, NEW seq, NEW guarded, NEW M, LiveInv(id, c, seq, guarded, M),
         c.pc = "idle", id.pool \subseteq OpkKeys
  PROVE  SavedInv([remaining |-> Ids(id.pool), recent |-> id.recent, known |-> seq],
                  id.replenished, guarded, M)
<1> DEFINE blob == [remaining |-> Ids(id.pool), recent |-> id.recent, known |-> seq]
<1>1. blob.remaining = Ids(id.pool) /\ blob.recent = id.recent /\ blob.known = seq
  OBVIOUS
<1> HIDE DEF blob
<1>2. ASSUME NEW j \in DOMAIN seq, NEW k \in seq[j].mac.key.opk
      PROVE  k[2] <= id.replenished /\ Proper(k) /\ (k[2] = 0 => k[1] \notin Ids(id.pool))
  <2>1. k \notin id.pool /\ k[2] <= id.replenished /\ Proper(k)
    BY Zenon DEF LiveInv, UsedUp
  <2>2. ASSUME k[2] = 0, NEW o \in id.pool, o[1] = k[1]
        PROVE  FALSE
    <3>1. Proper(o)
      BY Zenon DEF LiveInv
    <3>2. o[2] = 0 /\ o = <<o[1], o[2]>> /\ k = <<k[1], k[2]>>
      BY <2>1, <2>2, <3>1 DEF Proper, OpkKeys
    <3> QED
      BY <2>1, <2>2, <3>2
  <2> QED
    BY <2>1, <2>2 DEF Ids
<1>3. SavedInv(blob, id.replenished, guarded, M)
  BY Zenon, <1>1, <1>2 DEF SavedInv, LiveInv
<1> QED
  BY <1>3 DEF blob

LEMMA LiveRestart ==
  ASSUME NEW id, NEW c, NEW blob, NEW n \in Nat, NEW guarded, NEW M, SavedInv(blob, n, guarded, M),
         c.pc = "idle",
         id.pool = {k \in Seeded : k[1] \in blob.remaining},
         id.recent = blob.recent, id.replenished = n
  PROVE  LiveInv(id, c, blob.known, guarded, M)
<1>1. \A k \in id.pool : k[2] <= n /\ Proper(k) /\ k[2] = 0
  BY HandshakeAssumption DEF Seeded, Proper, OpkKeys
<1>2. ASSUME NEW j \in DOMAIN blob.known
      PROVE  UsedUp(blob.known[j], id.pool, n)
  BY Zenon, <1>1 DEF UsedUp, SavedInv
<1> QED
  BY Zenon, <1>1, <1>2 DEF LiveInv, SavedInv
LEMMA NextUsed ==
  ASSUME IInv, AgreeInv, UsedInv, [Next]_vars, Inits \subseteq Inits'
  PROVE  UsedInv'
<1>0. UNCHANGED deployment
  BY DEF Next, vars
<1>1. CASE UNCHANGED vars \/ InitiatorStep
  BY Zenon, <1>0, <1>1, UsedSame DEF vars, InitiatorStep, start, start_fails, finish, responder
<1>2. CASE ResponderStep
  <2>1. PICK i \in Instances :
          \/ publish(i)
          \/ \E id \in OpkIds : replenish(i, id)
          \/ \E m \in Inits, bundle \in bundles \cup {identity[i].pool} : reserve_remote(i, m, bundle)
          \/ reserve_local(i)
          \/ reserve_refused(i)
          \/ process(i)
          \/ commit(i)
          \/ export_sealed_replay_state(i)
          \/ restart(i)
          \/ \E works \in BOOLEAN :
               \/ reserve_duplicate(i, works)
               \/ process_fails(i, works)
               \/ commit_fails(i, works)
    BY Zenon, <1>2 DEF ResponderStep, IInv, Deployed
  <2> DEFINE live == identity[i]
             n == identity[i].replenished
  <2>2. /\ LiveInv(live, call[i], known[i], Guarded, Inits)
        /\ SavedInv(saved[i], n, Guarded, Inits)
        /\ n \in Nat
    BY Zenon DEF UsedInv, LiveInv
  <2>3. /\ known = [known EXCEPT ![i] = known[i]] /\ saved = [saved EXCEPT ![i] = saved[i]]
        /\ identity = [identity EXCEPT ![i] = identity[i]]
    BY Zenon DEF UsedInv, IInv, Shapes
  <2>4. /\ IsIdentity(live)
        /\ \A m \in call[i].init : call[i].init = {m} /\ m \in Inits
    BY Zenon DEF IInv, Shapes, CallsHold, AgreeInv
  <2>5. NoCall.pc = "idle" /\ NoCall.init = {}
    BY DEF NoCall
  <2>6. CASE publish(i)
    BY <1>0, <2>6, UsedSame DEF publish, responder
  <2>7. ASSUME NEW x \in OpkIds, replenish(i, x)
        PROVE  UsedInv'
    <3> DEFINE id == replenish_one_time_pre_keys(live, <<x, n + 1>>)
    <3>1. /\ identity' = [identity EXCEPT ![i] = id] /\ call[i].pc = "idle"
          /\ call' = [call EXCEPT ![i] = call[i]] /\ x \notin SeedPool
          /\ known' = known /\ saved' = saved
      BY Zenon, <2>7 DEF replenish, others, IInv, Shapes
    <3>2. id.replenished = n + 1 /\ id.recent = live.recent /\ id.pool = live.pool \cup {<<x, n + 1>>}
      BY Zenon DEF replenish_one_time_pre_keys
    <3> HIDE DEF id
    <3>3. LiveInv(id, call[i], known[i], Guarded, Inits) /\ SavedInv(saved[i], id.replenished, Guarded, Inits)
      BY Zenon, <2>2, <3>1, <3>2, LiveReplenish
    <3> QED
      BY Zenon, <1>0, <3>1, <3>3, UsedCall
  <2>8. ASSUME NEW m, NEW bundle, reserve_remote(i, m, bundle)
        PROVE  UsedInv'
    <3> DEFINE c == [pc |-> "reserved", init |-> {m}, bundle |-> bundle,
                     remote_reserved |-> Guarded, ack |-> {}]
    <3>1. /\ call' = [call EXCEPT ![i] = c] /\ call[i].pc = "idle"
          /\ identity' = identity /\ known' = known /\ saved' = saved
      BY <2>8 DEF reserve_remote, others
    <3>2. c.pc = "reserved"
      OBVIOUS
    <3> HIDE DEF c
    <3>3. LiveInv(live, c, known[i], Guarded, Inits)
      BY Zenon, <2>2, <3>1, <3>2, LiveSame
    <3>4. identity' = [identity EXCEPT ![i] = live]
      BY <2>3, <3>1
    <3> QED
      BY Zenon, <1>0, <2>2, <3>1, <3>3, <3>4, UsedCall
  <2>9. CASE reserve_local(i)
    <3> DEFINE id == reserve_handshake_init_fingerprint(live, Held(i))
               c == [call[i] EXCEPT !.pc = "processing"]
    <3>1. /\ identity' = [identity EXCEPT ![i] = id] /\ call' = [call EXCEPT ![i] = c]
          /\ known' = known /\ saved' = saved /\ call[i].pc = "reserved"
      BY <2>9 DEF reserve_local, others
    <3>2. c.pc = "processing" /\ c.init = call[i].init
      BY DEF IInv, Shapes, IsCall
    <3>3. /\ id.replenished = n /\ id.pool = live.pool /\ id.recent = live.recent
      BY <2>4 DEF IsIdentity, reserve_handshake_init_fingerprint
    <3>4. \A m \in c.init : \A k \in DOMAIN live.recent : live.recent[k] # m
      BY <2>9, <3>2 DEF reserve_local, local_fresh, Held
    <3> HIDE DEF id, c
    <3>5. LiveInv(id, c, known[i], Guarded, Inits)
      BY Zenon, <2>2, <3>1, <3>2, <3>3, <3>4, LiveReserve
    <3> QED
      BY Zenon, <1>0, <2>2, <3>1, <3>3, <3>5, UsedCall
  <2>10. CASE process(i)
    <3>1. PICK m \in Held(i) :
            /\ opk_found(live.pool, m)
            /\ init_confirmed(live.pool, m, call[i].bundle)
            /\ identity' = [identity EXCEPT ![i] =
                 remember_handshake_init_fingerprint(consume_one_time_pre_key(live, m), m)]
            /\ call' = [call EXCEPT ![i] =
                 [pc |-> "committing", init |-> call[i].init, bundle |-> call[i].bundle,
                  remote_reserved |-> call[i].remote_reserved,
                  ack |-> {HandshakeAck(live.pool, m, call[i].bundle)}]]
      BY Zenon, <2>10 DEF process
    <3> DEFINE id == remember_handshake_init_fingerprint(consume_one_time_pre_key(live, m), m)
               ack == {HandshakeAck(live.pool, m, call[i].bundle)}
               c == [pc |-> "committing", init |-> call[i].init, bundle |-> call[i].bundle,
                     remote_reserved |-> call[i].remote_reserved, ack |-> ack]
    <3>2. /\ identity' = [identity EXCEPT ![i] = id] /\ call' = [call EXCEPT ![i] = c]
          /\ known' = known /\ saved' = saved /\ call[i].pc = "processing"
      BY Zenon, <2>10, <3>1 DEF process, others
    <3>3. call[i].init = {m} /\ m \in Inits
      BY <2>4 DEF Held
    <3>4. c.pc = "committing" /\ c.init = {m}
      BY <3>3
    <3>5. m.mac.key.opk = get_one_time_pre_key(live.pool, m)
      BY <3>1, SMTT(30) DEF init_confirmed, responder_key, Key
    <3>s. id = remember_handshake_init_fingerprint(consume_one_time_pre_key(live, m), m)
      BY Zenon
    <3> HIDE DEF id, c, ack
    <3>6. /\ id.replenished = n
          /\ id.pool = {k \in live.pool : k[1] \notin m.opk_id}
          /\ id.recent = Pushed(live.recent, m)
      BY <2>4, <3>s, Remembered
    <3>7. opk_found(live.pool, m) /\ call[i].pc = "processing" /\ call[i].init = {m} /\ m \in Inits
      BY Zenon, <3>1, <3>2, <3>3
    <3>8. LiveInv(id, c, known[i], Guarded, Inits)
      <4> DEFINE old == call[i]
                 seen == known[i]
                 is == identity[i]
      <4>1. /\ LiveInv(is, old, seen, Guarded, Inits)
            /\ old.pc = "processing" /\ old.init = {m} /\ opk_found(is.pool, m)
            /\ m.mac.key.opk = get_one_time_pre_key(is.pool, m)
            /\ id.replenished = is.replenished
            /\ id.pool = {k \in is.pool : k[1] \notin m.opk_id}
            /\ id.recent = Pushed(is.recent, m)
        BY Zenon, <2>2, <3>5, <3>6, <3>7
      <4> HIDE DEF old, seen, is
      <4>2. LiveInv(id, c, seen, Guarded, Inits)
        BY <3>4, <3>7, <4>1, LiveProcess
      <4> QED
        BY Zenon, <4>2 DEF seen
    <3> QED
      BY Zenon, <1>0, <2>2, <3>2, <3>6, <3>8, UsedCall
  <2>11. CASE commit(i)
    <3>1. PICK m \in Held(i) : known' = [known EXCEPT ![i] = Append(known[i], m)]
      BY Zenon, <2>11 DEF commit
    <3>2. /\ call' = [call EXCEPT ![i] = NoCall] /\ call[i].pc = "committing"
          /\ identity' = identity /\ saved' = saved
      BY Zenon, <2>11 DEF commit, others
    <3>3. call[i].init = {m} /\ m \in Inits
      BY <2>4 DEF Held
    <3>4. LiveInv(live, NoCall, Append(known[i], m), Guarded, Inits)
      BY <2>2, <2>5, <3>2, <3>3, LiveCommit
    <3> QED
      BY Zenon, <1>0, <2>2, <2>3, <3>1, <3>2, <3>4, UsedStep
  <2>12. CASE export_sealed_replay_state(i)
    <3> DEFINE blob == [remaining |-> Ids(live.pool), recent |-> live.recent, known |-> known[i]]
    <3>1. /\ saved' = [saved EXCEPT ![i] = blob] /\ call[i].pc = "idle"
          /\ identity' = identity /\ known' = known /\ call' = [call EXCEPT ![i] = call[i]]
      BY Zenon, <2>12 DEF export_sealed_replay_state, responder, IInv, Shapes
    <3>2. live.pool \subseteq OpkKeys
      BY Zenon, <2>2 DEF LiveInv, Proper
    <3>3. SavedInv(blob, n, Guarded, Inits)
      BY Zenon, <2>2, <3>1, <3>2, SavedExport
    <3> HIDE DEF blob
    <3> QED
      BY Zenon, <1>0, <2>2, <2>3, <3>1, <3>3, UsedStep
  <2>13. CASE restart(i)
    <3> DEFINE id == restore_sealed_replay_state(NewIdentity(n), saved[i])
    <3>1. /\ identity' = [identity EXCEPT ![i] = id] /\ call' = [call EXCEPT ![i] = NoCall]
          /\ known' = [known EXCEPT ![i] = saved[i].known] /\ saved' = saved
      BY <2>13 DEF restart, others
    <3>2. /\ id.pool = {k \in Seeded : k[1] \in saved[i].remaining}
          /\ id.recent = saved[i].recent /\ id.replenished = n
      BY Zenon DEF restore_sealed_replay_state, NewIdentity
    <3> HIDE DEF id
    <3>3. LiveInv(id, NoCall, saved[i].known, Guarded, Inits)
      BY Zenon, <2>2, <2>5, <3>2, LiveRestart
    <3> QED
      BY Zenon, <1>0, <2>2, <2>3, <3>1, <3>2, <3>3, UsedStep
  <2>14. ASSUME NEW id, identity' = [identity EXCEPT ![i] = id], call' = [call EXCEPT ![i] = NoCall],
                known' = known, saved' = saved,
                id.replenished = n, id.pool = live.pool,
                ~Guarded => id.recent = live.recent /\ call[i].pc # "committing"
         PROVE  UsedInv'
    <3>1. LiveInv(id, NoCall, known[i], Guarded, Inits)
      BY Zenon, <2>2, <2>5, <2>14, LiveSame
    <3> QED
      BY Zenon, <1>0, <2>2, <2>14, <3>1, UsedCall
  <2>15. ASSUME NEW works, reserve_duplicate(i, works)
         PROVE  UsedInv'
    <3>1. /\ identity' = [identity EXCEPT ![i] = live] /\ call' = [call EXCEPT ![i] = NoCall]
          /\ known' = known /\ saved' = saved /\ call[i].pc = "reserved"
      BY <2>3, <2>15 DEF reserve_duplicate, others
    <3> QED
      BY <2>14, <3>1
  <2>16. ASSUME NEW works, process_fails(i, works)
         PROVE  UsedInv'
    <3> DEFINE id == release_handshake_init_fingerprint(live, Held(i))
    <3>1. /\ identity' = [identity EXCEPT ![i] = id] /\ call' = [call EXCEPT ![i] = NoCall]
          /\ known' = known /\ saved' = saved /\ call[i].pc = "processing"
      BY <2>16 DEF process_fails, others
    <3>2. id.replenished = n /\ id.pool = live.pool /\ id.recent = live.recent
      BY <2>4 DEF IsIdentity, release_handshake_init_fingerprint
    <3> HIDE DEF id
    <3> QED
      BY <2>14, <3>1, <3>2
  <2>17. ASSUME NEW works, commit_fails(i, works)
         PROVE  UsedInv'
    <3> DEFINE id == forget_handshake_init_fingerprint(live, Held(i))
    <3>1. /\ identity' = [identity EXCEPT ![i] = id] /\ call' = [call EXCEPT ![i] = NoCall]
          /\ known' = known /\ saved' = saved /\ Guarded
      BY <2>17 DEF commit_fails, others
    <3>2. id.replenished = n /\ id.pool = live.pool
      BY DEF forget_handshake_init_fingerprint
    <3> HIDE DEF id
    <3> QED
      BY <2>14, <3>1, <3>2
  <2>18. CASE reserve_refused(i)
    <3>1. /\ identity' = [identity EXCEPT ![i] = live] /\ call' = [call EXCEPT ![i] = NoCall]
          /\ known' = known /\ saved' = saved /\ call[i].pc = "reserved"
      BY <2>3, <2>18 DEF reserve_refused, others
    <3> QED
      BY <2>14, <3>1
  <2> QED
    BY <2>1, <2>6, <2>7, <2>8, <2>9, <2>10, <2>11, <2>12, <2>13, <2>15, <2>16, <2>17, <2>18
<1> QED
  BY <1>1, <1>2 DEF Next

\* An accepted HandshakeInit is used up in the instance that accepted it: its
\* one-time pre-key never returns to the pool, and without a guard the message is
\* accepted again only after MaxSeen others and only if it used no pre-key.
THEOREM AcceptanceUsesUp == Spec => []AcceptedIsUsedUp
<1>1. Init => IInv /\ AgreeInv /\ UsedInv
  BY InitIInv, InitAgree, InitUsed
<1>2. IInv /\ AgreeInv /\ UsedInv /\ [Next]_vars => (IInv /\ AgreeInv /\ UsedInv)'
  BY NextIInv, NextAgree, NextUsed
<1>3. UsedInv => AcceptedIsUsedUp
  <2> SUFFICES ASSUME UsedInv
               PROVE  AcceptedIsUsedUp
    OBVIOUS
  <2>1. ReplayOnlyBeyondWindow
    BY Zenon DEF UsedInv, LiveInv, Apart, ReplayOnlyBeyondWindow
  <2>2. ConsumedStaysConsumed
    BY Zenon DEF UsedInv, LiveInv, UsedUp, ConsumedStaysConsumed
  <2> QED
    BY <2>1, <2>2 DEF AcceptedIsUsedUp
<1> QED
  BY <1>1, <1>2, <1>3, PTL DEF Spec
-----------------------------------------------------------------------------
(* Ephemeral keys.                                                         *)

\* The handshakes a has sent out, which SentBy counts.
Sent(a) == {g \in Handshakes : InitiatorOf[g] = a /\ initiator[g].status # "none"}

\* A key left behind has the next number; every number sent is a lower one.
FreshInv ==
  /\ ephemeral = [a \in Initiators |-> ephemeral[a]]
  /\ \A a \in Initiators : ephemeral[a] = {} \/ ephemeral[a] = {<<a, SentBy(a)>>}
  /\ \A h \in Handshakes : initiator[h].status # "none" =>
       \E n \in Nat : /\ n < SentBy(InitiatorOf[h])
                      /\ initiator[h].init.eph = {<<InitiatorOf[h], n>>}
  /\ FreshEphemerals

LEMMA CountSent ==
  ASSUME NEW a
  PROVE  SentBy(a) = Cardinality(Sent(a)) /\ IsFiniteSet(Sent(a)) /\ SentBy(a) \in Nat
<1>1. SentBy(a) = Cardinality(Sent(a))
  BY DEF SentBy, Sent
<1>2. IsFiniteSet(Sent(a))
  BY FS_Subset, HandshakeAssumption DEF Sent
<1> QED
  BY <1>1, <1>2, FS_CardinalityType

LEMMA InitFresh == Init => FreshInv
<1> SUFFICES ASSUME Init PROVE FreshInv
  OBVIOUS
<1>1. ephemeral = [a \in Initiators |-> {}] /\ initiator = [h \in Handshakes |-> [status |-> "none"]]
  BY Zenon DEF Init, NoInitiator
<1>2. \A h \in Handshakes : initiator[h].status = "none"
  BY <1>1
<1>3. ephemeral = [a \in Initiators |-> ephemeral[a]] /\ \A a \in Initiators : ephemeral[a] = {}
  BY <1>1, Zenon
<1> QED
  BY <1>2, <1>3, Zenon DEF FreshInv, FreshEphemerals

LEMMA SameSent ==
  ASSUME FreshInv, UNCHANGED ephemeral,
         \A h \in Handshakes : /\ (initiator'[h].status # "none") = (initiator[h].status # "none")
                               /\ initiator[h].status # "none" => initiator'[h].init = initiator[h].init
  PROVE  FreshInv'
<1>1. \A a : SentBy(a)' = SentBy(a)
  BY DEF SentBy
<1>2. FreshEphemerals'
  BY DEF FreshEphemerals, FreshInv
<1>3. ASSUME NEW h \in Handshakes, initiator'[h].status # "none"
      PROVE  \E n \in Nat : /\ n < SentBy(InitiatorOf[h])
                            /\ initiator'[h].init.eph = {<<InitiatorOf[h], n>>}
  BY Zenon, <1>3 DEF FreshInv
<1>4. \A a \in Initiators : ephemeral'[a] = {} \/ ephemeral'[a] = {<<a, SentBy(a)>>}
  BY Zenon DEF FreshInv
<1> QED
  BY Zenon, <1>1, <1>2, <1>3, <1>4 DEF FreshInv

LEMMA StartFresh ==
  ASSUME AgreeInv, FreshInv, NEW h \in Handshakes, start(h)
  PROVE  FreshInv'
<1> DEFINE a == InitiatorOf[h]
           eph == {<<a, SentBy(a)>>}
<1>1. a \in Initiators /\ initiator[h].status = "none"
  BY Zenon, HandshakeAssumption DEF start
<1>2. generate_ephemeral_key_pair(a) = eph
  BY Zenon, <1>1 DEF generate_ephemeral_key_pair, FreshInv
<1>3. PICK x : /\ initiator' = [initiator EXCEPT ![h] = x]
               /\ x.status # "none" /\ x.init.eph = eph
  <2>1. PICK bundle, opk : initiator' = [initiator EXCEPT ![h] =
          [ status   |-> "waiting",
            init     |-> HandshakeInit(h, eph, opk, bundle),
            expected |-> [key |-> Key(h, eph, opk), bundle |-> bundle, from |-> h] ]]
    BY Zenon, <1>2 DEF start
  <2> DEFINE x == [ status   |-> "waiting",
                    init     |-> HandshakeInit(h, eph, opk, bundle),
                    expected |-> [key |-> Key(h, eph, opk), bundle |-> bundle, from |-> h] ]
  <2>2. x.status = "waiting" /\ x.init.eph = eph
    BY Zenon DEF HandshakeInit
  <2>3. initiator' = [initiator EXCEPT ![h] = x]
    BY Zenon, <2>1
  <2> HIDE DEF x
  <2> QED
    BY <2>2, <2>3
<1>4. /\ initiator' = [g \in Handshakes |-> IF g = h THEN x ELSE initiator[g]]
      /\ ephemeral' = [b \in Initiators |-> IF b = a THEN {} ELSE ephemeral[b]]
  BY Zenon, <1>3 DEF start, cleared, AgreeInv, FreshInv
<1>5. SentBy(a)' = SentBy(a) + 1
  <2>1. Sent(a)' = Sent(a) \cup {h} /\ h \notin Sent(a)
    BY <1>1, <1>3, <1>4 DEF Sent
  <2>2. Cardinality(Sent(a) \cup {h}) = Cardinality(Sent(a)) + 1
    BY <2>1, CountSent, FS_AddElement
  <2>3. SentBy(a)' = Cardinality(Sent(a)')
    BY DEF SentBy, Sent
  <2> QED
    BY <2>1, <2>2, <2>3, CountSent
<1>6. \A b : b # a => SentBy(b)' = SentBy(b)
  <2> SUFFICES ASSUME NEW b, b # a
               PROVE  SentBy(b)' = SentBy(b)
    OBVIOUS
  <2>1. Sent(b)' = Sent(b)
    BY <1>4 DEF Sent
  <2>2. SentBy(b)' = Cardinality(Sent(b)')
    BY DEF SentBy, Sent
  <2> QED
    BY <2>1, <2>2, CountSent
<1>7. SentBy(a) \in Nat
  BY CountSent
<1> HIDE DEF a
<1>8. \A b \in Initiators : ephemeral'[b] = {} \/ ephemeral'[b] = {<<b, SentBy(b)'>>}
  BY <1>4, <1>6 DEF FreshInv
<1>9. ASSUME NEW g \in Handshakes, initiator'[g].status # "none"
      PROVE  \E n \in Nat : /\ n < SentBy(InitiatorOf[g])'
                            /\ initiator'[g].init.eph = {<<InitiatorOf[g], n>>}
  <2>1. CASE g = h
    BY <1>3, <1>4, <1>5, <1>7, <2>1, SMTT(30) DEF a
  <2>2. CASE g # h
    <3>1. PICK n \in Nat : /\ n < SentBy(InitiatorOf[g])
                           /\ initiator[g].init.eph = {<<InitiatorOf[g], n>>}
      BY <1>4, <1>9, <2>2 DEF FreshInv
    <3>2. CASE InitiatorOf[g] = a
      BY SMTT(30), <1>4, <1>5, <1>7, <2>2, <3>1, <3>2
    <3>3. CASE InitiatorOf[g] # a
      BY <1>4, <1>6, <2>2, <3>1, <3>3
    <3> QED
      BY <3>2, <3>3
  <2> QED
    BY <2>1, <2>2
<1>10. ASSUME NEW g \in Handshakes, g # h, initiator[g].status # "none"
       PROVE  initiator[g].init.eph # eph
  <2>1. PICK n \in Nat : /\ n < SentBy(InitiatorOf[g])
                         /\ initiator[g].init.eph = {<<InitiatorOf[g], n>>}
    BY Zenon, <1>10 DEF FreshInv
  <2>2. SUFFICES ASSUME {<<InitiatorOf[g], n>>} = {<<a, SentBy(a)>>}
                 PROVE  FALSE
    BY <2>1
  <2>3. <<InitiatorOf[g], n>> = <<a, SentBy(a)>>
    BY <2>2
  <2>4. InitiatorOf[g] = a /\ n = SentBy(a)
    BY <2>3
  <2> QED
    BY <1>7, <2>1, <2>4
<1>11. FreshEphemerals'
  BY <1>3, <1>4, <1>10 DEF FreshEphemerals, FreshInv
<1>12. ephemeral' = [b \in Initiators |-> ephemeral'[b]]
  BY <1>4
<1> QED
  BY Zenon, <1>8, <1>9, <1>11, <1>12 DEF FreshInv

LEMMA NextFresh ==
  ASSUME IInv, AgreeInv, FreshInv, [Next]_vars
  PROVE  FreshInv'
<1>1. ASSUME UNCHANGED <<initiator, ephemeral>>
      PROVE  FreshInv'
  BY <1>1, SameSent
<1>2. ASSUME NEW h \in Handshakes, start_fails(h)
      PROVE  FreshInv'
  <2> DEFINE a == InitiatorOf[h]
  <2>1. /\ ephemeral' = [b \in Initiators |->
             IF b = a THEN generate_ephemeral_key_pair(a) ELSE ephemeral[b]]
        /\ initiator' = initiator /\ a \in Initiators
    BY Zenon, <1>2, HandshakeAssumption DEF start_fails, FreshInv
  <2>2. generate_ephemeral_key_pair(a) = {<<a, SentBy(a)>>}
    BY Zenon, <2>1 DEF generate_ephemeral_key_pair, FreshInv
  <2>3. \A b : SentBy(b)' = SentBy(b)
    BY <2>1 DEF SentBy
  <2>4. \A b \in Initiators : ephemeral'[b] = {} \/ ephemeral'[b] = {<<b, SentBy(b)>>}
    BY Zenon, <2>1, <2>2 DEF FreshInv
  <2>5. FreshEphemerals'
    BY Zenon, <2>1 DEF FreshInv, FreshEphemerals
  <2>6. ephemeral' = [b \in Initiators |-> ephemeral'[b]]
    BY <2>1
  <2> QED
    BY Zenon, <2>1, <2>3, <2>4, <2>5, <2>6 DEF FreshInv
<1>3. ASSUME NEW h \in Handshakes, NEW ack, finish(h, ack)
      PROVE  FreshInv'
  <2> DEFINE s == IF ack_confirms(h, ack) THEN "session" ELSE "failed"
  <2>1. IsInitiator(initiator[h]) /\ initiator[h].status = "waiting"
    BY <1>3 DEF finish, AgreeInv
  <2>2. PICK x : /\ initiator' = [initiator EXCEPT ![h] = x]
                 /\ x.status # "none" /\ x.init = initiator[h].init
    <3>1. initiator' = [initiator EXCEPT ![h] = [initiator[h] EXCEPT !.status = s]]
      BY <1>3 DEF finish
    <3>2. [initiator[h] EXCEPT !.status = s].status = s
          /\ [initiator[h] EXCEPT !.status = s].init = initiator[h].init
      BY <2>1 DEF IsInitiator
    <3>3. s # "none"
      OBVIOUS
    <3> HIDE DEF s
    <3> QED
      BY <3>1, <3>2, <3>3
  <2>3. initiator' = [g \in Handshakes |-> IF g = h THEN x ELSE initiator[g]]
    BY Zenon, <2>2 DEF AgreeInv
  <2>4. UNCHANGED ephemeral
    BY <1>3 DEF finish
  <2> QED
    BY <2>1, <2>2, <2>3, <2>4, SameSent
<1>4. CASE InitiatorStep
  BY <1>2, <1>3, <1>4, StartFresh DEF InitiatorStep
<1>5. CASE UNCHANGED vars \/ ResponderStep
  <2>1. UNCHANGED <<initiator, ephemeral>>
    BY Zenon, <1>5 DEF vars, ResponderStep, publish, replenish, reserve_remote, reserve_local, process,
                commit, others, export_sealed_replay_state, restart, reserve_refused, reserve_duplicate,
                process_fails, commit_fails
  <2> QED
    BY <1>1, <2>1
<1> QED
  BY <1>4, <1>5 DEF Next

\* Every session has the key of a responder that accepted its message, and no
\* two handshakes that went out share an ephemeral key pair, although an aborted
\* start leaves its pair behind for the next one.
THEOREM SessionsAreFresh == Spec => []FreshAgreedKeys
<1>1. Init => IInv /\ AgreeInv /\ FreshInv
  BY InitIInv, InitAgree, InitFresh
<1>2. IInv /\ AgreeInv /\ FreshInv /\ [Next]_vars => (IInv /\ AgreeInv /\ FreshInv)'
  BY NextIInv, NextAgree, NextFresh
<1>3. AgreeInv /\ FreshInv => FreshAgreedKeys
  BY Zenon DEF AgreeInv, FreshInv, FreshAgreedKeys
<1> QED
  BY <1>1, <1>2, <1>3, PTL DEF Spec

-----------------------------------------------------------------------------
(* Epoch rotation by several threads. *)

(* Callers that have decided and will encrypt without looking again. *)
Committed == {t \in Callers : pc[t] = "encrypt"}

RotationTypes ==
  /\ epoch \in Nat /\ generation \in 0..MaxMessages
  /\ pc \in [Callers -> {"idle", "rotate", "encrypt"}]
  /\ calls \in [Callers -> Nat]

(* The epoch has a message left for each of them. *)
RotationInv ==
  /\ RotationTypes
  /\ Cardinality(Callers) <= compute_rotation_threshold + 1 =>
       /\ Cardinality(Committed) <= MaxMessages - generation
       /\ failed = {}

(* compute_rotation_threshold is an integer. *)
LEMMA ThresholdType == compute_rotation_threshold \in Int
  BY RotationAssumption DEF compute_rotation_threshold

(* The threads that will encrypt are finitely many, no more than there are. *)
LEMMA CommittedSize ==
  ASSUME NEW P \in SUBSET Callers
  PROVE  /\ IsFiniteSet(P) /\ Cardinality(P) \in Nat
         /\ Cardinality(Callers) \in Nat
         /\ Cardinality(P) <= Cardinality(Callers)
  BY Zenon, RotationAssumption, FS_Subset, FS_CardinalityType

(* A new session satisfies the invariant: nobody has decided anything. *)
LEMMA RotationStart == RotationInit => RotationInv
<1> SUFFICES ASSUME RotationInit PROVE RotationInv
  OBVIOUS
<1>1. RotationTypes
  BY RotationAssumption DEF RotationInit, RotationTypes
<1>2. Committed = {}
  BY DEF RotationInit, Committed
<1>3. Cardinality(Committed) = 0
  BY <1>2, FS_EmptySet
<1>4. QED
  BY <1>1, <1>3, RotationAssumption DEF RotationInv, RotationInit

(* A thread that finds the epoch above the threshold finds a message for    *)
(* itself and for every other thread.                                       *)
LEMMA DecideStep ==
  ASSUME RotationInv, NEW t \in Callers, encrypt_with_auto_rotate(t)
  PROVE  RotationInv'
<1>1. RotationTypes'
  BY DEF RotationInv, RotationTypes, encrypt_with_auto_rotate
<1>2. ASSUME Cardinality(Callers) <= compute_rotation_threshold + 1
      PROVE  Cardinality(Committed') <= MaxMessages - generation /\ failed' = {}
  <2>1. CASE should_rotate_epoch
    <3>1. Committed' = Committed
      BY Zenon, <2>1 DEF encrypt_with_auto_rotate, Committed, RotationInv, RotationTypes
    <3>2. QED
      BY <3>1, <1>2 DEF RotationInv, encrypt_with_auto_rotate
  <2>2. CASE ~should_rotate_epoch
    <3>1. MaxMessages - generation > compute_rotation_threshold
      BY <2>2, ThresholdType, RotationAssumption
      DEF should_rotate_epoch, remaining, RotationInv, RotationTypes
    <3>2. Committed' \in SUBSET Callers
      BY DEF Committed
    <3>3. QED
      BY <3>1, <3>2, <1>2, CommittedSize, ThresholdType, RotationAssumption
      DEF RotationInv, RotationTypes, encrypt_with_auto_rotate
  <2>3. QED
    BY <2>1, <2>2
<1>3. QED
  BY Zenon, <1>1, <1>2 DEF RotationInv, encrypt_with_auto_rotate

(* A rotation leaves a whole epoch, which is more than the threads need. *)
LEMMA RotateStep ==
  ASSUME RotationInv, NEW t \in Callers, rotate_epoch_if_needed(t)
  PROVE  RotationInv'
<1>1. RotationTypes'
  BY RotationAssumption DEF RotationInv, RotationTypes, rotate_epoch_if_needed
<1>2. ASSUME Cardinality(Callers) <= compute_rotation_threshold + 1
      PROVE  Cardinality(Committed') <= MaxMessages - generation' /\ failed' = {}
  <2>1. Committed' \in SUBSET Callers
    BY DEF Committed
  <2>2. generation' = 0 /\ failed' = {}
    BY <1>2 DEF rotate_epoch_if_needed, RotationInv
  <2>3. QED
    BY <2>1, <2>2, <1>2, CommittedSize, ThresholdType, ThresholdAssumption, RotationAssumption
<1>3. QED
  BY Zenon, <1>1, <1>2 DEF RotationInv, rotate_epoch_if_needed

(* A thread that encrypts uses up one message and its own claim to one. *)
LEMMA EncryptStep ==
  ASSUME RotationInv, NEW t \in Callers, encrypt_in_epoch(t)
  PROVE  RotationInv'
<1>1. RotationTypes'
  BY RotationAssumption DEF RotationInv, RotationTypes, encrypt_in_epoch
<1>2. ASSUME Cardinality(Callers) <= compute_rotation_threshold + 1
      PROVE  Cardinality(Committed') <= MaxMessages - generation' /\ failed' = {}
  <2>1. Committed \in SUBSET Callers /\ t \in Committed
    BY DEF Committed, encrypt_in_epoch
  <2>2. Committed' = Committed \ {t}
    BY DEF Committed, encrypt_in_epoch, RotationInv, RotationTypes
  <2>3. Cardinality(Committed') = Cardinality(Committed) - 1 /\ Cardinality(Committed) \in Nat
    BY <2>1, <2>2, CommittedSize, FS_RemoveElement
  <2>4. Cardinality(Committed) >= 1
    BY <2>1, <2>2, <2>3, CommittedSize, FS_RemoveElement, FS_CardinalityType, FS_Subset
  <2>5. generation < MaxMessages
    BY <2>4, <2>3, <1>2, RotationAssumption DEF RotationInv, RotationTypes
  <2>6. generation' = generation + 1 /\ failed' = {}
    BY <2>5, <1>2, RotationAssumption DEF encrypt_in_epoch, RotationInv, RotationTypes
  <2>7. QED
    BY <2>3, <2>6, <1>2, RotationAssumption DEF RotationInv, RotationTypes
<1>3. QED
  BY <1>1, <1>2 DEF RotationInv

(* However many threads, up to one more than the rotation threshold, send   *)
(* with encrypt_with_auto_rotate through one session, none of them is ever  *)
(* told that the epoch's message limit is reached.                          *)
THEOREM NeverExhaustedHolds == RotationSpec => []NeverExhausted
<1>1. RotationInit => RotationInv
  BY RotationStart
<1>2. RotationInv /\ [RotationNext]_rotation_vars => RotationInv'
  <2>1. RotationInv /\ RotationNext => RotationInv'
    BY DecideStep, RotateStep, EncryptStep DEF RotationNext
  <2>2. RotationInv /\ UNCHANGED rotation_vars => RotationInv'
    BY DEF RotationInv, RotationTypes, Committed, rotation_vars
  <2>3. QED
    BY <2>1, <2>2
<1>3. RotationInv => NeverExhausted
  BY DEF RotationInv, NeverExhausted
<1>4. QED
  BY <1>1, <1>2, <1>3, PTL DEF RotationSpec

=============================================================================
