---------------------------- MODULE RatchetProofs ---------------------------
(***************************************************************************)
(* Receivers of a ratchet.                                                 *)
(*                                                                         *)
(* VoIP calls, for every bound, every order and any loss or repetition of  *)
(* frames, signals and consents: a frame counts once, the consent a party  *)
(* heeds is the latest it was sent, and between parties with the same root *)
(* the next frame is accepted.                                             *)
(*                                                                         *)
(* Sender keys, for every number of senders, every limit and every window: *)
(* no message is decrypted twice, and every generation a chain has passed  *)
(* is accounted for.  The argument does not use the replay window at all.  *)
(* It rests on Owner, which says of one generation of one sender where its *)
(* key is: below the chain in exactly one of three places, above it in     *)
(* none.  A decryption moves the keys it passes, and its own, between      *)
(* those places.                                                           *)
(***************************************************************************)
EXTENDS VoipCall, SenderKeys, TLAPS

-----------------------------------------------------------------------------
(* Calls.                                                                  *)

EphemeralKeys == Parties \X Nat
Roots == Seq(EphemeralKeys \X EphemeralKeys)

CallRecords ==
  [ state : {"None", "Calling", "Active", "Ended"}, root : Roots,
    dir : BOOLEAN, hdr : BOOLEAN, send : Seq(BOOLEAN), recv : Seq(BOOLEAN),
    counter : Nat, since : Nat, high : Nat, marked : SUBSET Nat,
    generation : Nat, pending : SUBSET EphemeralKeys,
    local : 0..2, local_ts : Nat, remote : 0..2, remote_ts : Nat ]

MediaFrames ==
  [ from : Parties, root : Roots, dir : BOOLEAN, hdr : BOOLEAN,
    chain : Seq(BOOLEAN), counter : Nat ]

CallSignals ==
  [ type : {"Init", "Accept", "Rekey", "RekeyAck", "End"}, from : Parties,
    generation : Nat, key : EphemeralKeys \cup {<<>>}, root : Roots ]

ConsentMessages == [ from : Parties, consent : 0..2, timestamp : Nat ]

CallTypes ==
  /\ scenario \in Scenarios
  /\ call \in [Parties -> CallRecords]
  /\ made \in [Parties -> Nat]
  /\ frames \subseteq MediaFrames
  /\ outbox \subseteq CallSignals /\ inbox \subseteq CallSignals
  /\ consents \subseteq ConsentMessages
  /\ played \in [Parties -> SUBSET MediaFrames]
  /\ heeded \in [Parties -> SUBSET ConsentMessages]

(* A signal but the last carries a key of its sender. *)
OwnKey(m) ==
  /\ m.type = "Init" => m.from = "caller"
  /\ m.type # "End" => m.key \in EphemeralKeys /\ m.key[1] = m.from

(* Who started the exchange that made a root. *)
Starter(root) == root[Len(root)][1][1]

Directed(p, c) == c.dir = (Starter(c.root) = p)

Matched(p, c) ==
  /\ c.hdr = (Starter(c.root) = p)
  /\ \A i \in 1..Len(c.send) : c.send[i] = (Starter(c.root) = p)
  /\ \A i \in 1..Len(c.recv) : c.recv[i] = (Starter(c.root) = peer(p))

(* Header keys and chains of different directions: a restore leaves them. *)
Turned(c) == c.hdr # c.dir

(* The keys of one session follow from its root, header keys a restore has  *)
(* turned round from the role in the call.                                  *)
Derived(p, c) ==
  /\ c.state \in {"Active", "Ended"} => c.root # <<>>
  /\ \A k \in c.pending : k[1] = p
  /\ c.root # <<>> =>
       /\ Directed(p, c)
       /\ ~Turned(c) => Matched(p, c)
       /\ Turned(c) => c.hdr = (p = "caller")

(* A frame was counted by its sender and sealed with keys of its root. *)
Numbered(f) == f.counter < call[f.from].counter
Headed(f) == ~Turned(f) => f.hdr = (Starter(f.root) = f.from)

(* The replay window remembers every frame played. *)
Recalled(p) ==
  \A f \in played[p] :
    /\ f.counter <= call[p].high
    /\ f.counter \in call[p].marked \/ Window <= call[p].high - f.counter

(* It is not ahead of what the peer has sent. *)
NotAhead(p) ==
  call[p].high < call[peer(p)].counter \/ (call[p].high = 0 /\ call[p].marked = {})

Newest(p) ==
  /\ heeded[p] = {} => call[p].remote = 0
  /\ \A n \in heeded[p] : n.timestamp <= call[p].remote_ts
  /\ heeded[p] # {} =>
       \E m \in heeded[p] :
         /\ m.consent = call[p].remote /\ m.timestamp = call[p].remote_ts
         /\ \A n \in heeded[p] : n # m => n.timestamp # m.timestamp

KeysInv ==
  /\ CallTypes
  /\ \A m \in outbox \cup inbox : OwnKey(m)
  /\ \A p \in Parties : Derived(p, call[p])

CallInv ==
  /\ KeysInv
  /\ \A f \in frames : Numbered(f) /\ Headed(f)
  /\ \A p \in Parties : Recalled(p) /\ NotAhead(p) /\ Newest(p)

(* An exchange makes a root that says who started it. *)
LEMMA NewRoot ==
  ASSUME NEW root \in Roots, NEW k \in EphemeralKeys, NEW l \in EphemeralKeys
  PROVE  LET r == rekey_complete(root, k, l)
         IN  r \in Roots /\ r # <<>> /\ Starter(r) = k[1]
<1> DEFINE e == <<k, l>>
           r == Append(root, e)
<1>1. e \in EphemeralKeys \X EphemeralKeys /\ e[1] = k
  OBVIOUS
<1>2. r \in Roots /\ Len(r) = Len(root) + 1 /\ r[Len(r)] = e
  BY <1>1 DEF Roots
<1>3. r # <<>>
  <2>1. Len(r) # 0
    BY <1>2 DEF Roots
  <2> HIDE DEF r
  <2> QED
    BY <2>1
<1>4. Starter(r) = k[1]
  BY <1>1, <1>2 DEF Starter
<1> QED
  BY Zenon, <1>2, <1>3, <1>4 DEF rekey_complete

(* What derive_call_keys leaves of a session, and what it sets. *)
LEMMA NewKeys ==
  ASSUME NEW c \in CallRecords, NEW root \in Roots, NEW b \in BOOLEAN
  PROVE  LET d == derive_call_keys(c, root, b)
         IN  /\ d \in CallRecords
             /\ d.root = root /\ d.dir = b /\ d.hdr = b /\ d.send = <<>> /\ d.recv = <<>>
             /\ d.state = c.state /\ d.pending = c.pending /\ d.generation = c.generation
             /\ d.counter = c.counter /\ d.high = c.high /\ d.marked = c.marked
             /\ d.remote = c.remote /\ d.remote_ts = c.remote_ts
<1> DEFINE d1 == [c EXCEPT !.root = root]
           d2 == [d1 EXCEPT !.dir = b]
           d3 == [d2 EXCEPT !.hdr = b]
           d4 == [d3 EXCEPT !.send = <<>>]
           d5 == [d4 EXCEPT !.recv = <<>>]
           d6 == [d5 EXCEPT !.since = 0]
<1>0. derive_call_keys(c, root, b) = d6
  BY Zenon DEF derive_call_keys
<1>a. <<>> \in Seq(BOOLEAN)
  OBVIOUS
<1>1. d1 \in CallRecords
  BY Zenon DEF CallRecords
<1> HIDE DEF d1
<1>2. d2 \in CallRecords
  BY Zenon, <1>1 DEF CallRecords
<1> HIDE DEF d2
<1>3. d3 \in CallRecords
  BY Zenon, <1>2 DEF CallRecords
<1> HIDE DEF d3
<1>4. d4 \in CallRecords
  BY Zenon, <1>3, <1>a DEF CallRecords
<1> HIDE DEF d4
<1>5. d5 \in CallRecords
  BY Zenon, <1>4, <1>a DEF CallRecords
<1> HIDE DEF d5
<1>6. d6 \in CallRecords
  BY Zenon, <1>5 DEF CallRecords
<1>7. /\ d6.root = root /\ d6.dir = b /\ d6.hdr = b /\ d6.send = <<>> /\ d6.recv = <<>>
      /\ d6.state = c.state /\ d6.pending = c.pending /\ d6.generation = c.generation
      /\ d6.counter = c.counter /\ d6.high = c.high /\ d6.marked = c.marked
      /\ d6.remote = c.remote /\ d6.remote_ts = c.remote_ts
  BY DEF CallRecords, d1, d2, d3, d4, d5
<1> QED
  BY <1>0, <1>6, <1>7

(* A root is nobody's mismatch but through its last exchange. *)
LEMMA DerivedKeys ==
  ASSUME NEW p \in Parties, NEW c \in CallRecords,
         c.root # <<>>, \A k \in c.pending : k[1] = p,
         c.dir = (Starter(c.root) = p), c.hdr = (Starter(c.root) = p),
         c.send = <<>>, c.recv = <<>>
  PROVE  Derived(p, c)
BY DEF Derived, Directed, Matched, Turned

(* What a step leaves alone of a session. *)
SameKeys(c, d) ==
  /\ d.root = c.root /\ d.dir = c.dir /\ d.hdr = c.hdr
  /\ d.send = c.send /\ d.recv = c.recv
SameCount(c, d) == d.counter = c.counter
SameWindow(c, d) == d.high = c.high /\ d.marked = c.marked
SameConsent(c, d) == d.remote = c.remote /\ d.remote_ts = c.remote_ts
Quiet(c, d) == SameCount(c, d) /\ SameWindow(c, d) /\ SameConsent(c, d)

LEMMA KeysKept ==
  ASSUME NEW p \in Parties, NEW c, NEW d, Derived(p, c), SameKeys(c, d),
         d.state \in {"Active", "Ended"} => c.state \in {"Active", "Ended"},
         \A k \in d.pending : k[1] = p
  PROVE  Derived(p, d)
BY DEF Derived, Directed, Matched, Turned, SameKeys

LEMMA PendingRecord ==
  ASSUME NEW p \in Parties, NEW c \in CallRecords, Derived(p, c),
         NEW keys \in SUBSET EphemeralKeys, \A k \in keys : k[1] = p
  PROVE  LET d == [c EXCEPT !.pending = keys]
         IN  d \in CallRecords /\ Derived(p, d) /\ Quiet(c, d) /\ d.state = c.state
<1> DEFINE d == [c EXCEPT !.pending = keys]
<1>1. d \in CallRecords
  BY Zenon DEF CallRecords
<1>2. /\ d.state = c.state /\ d.pending = keys
      /\ SameKeys(c, d) /\ SameCount(c, d) /\ SameWindow(c, d) /\ SameConsent(c, d)
  BY DEF CallRecords, SameKeys, SameCount, SameWindow, SameConsent
<1>3. Derived(p, d)
  <2> HIDE DEF d
  <2> QED
    BY <1>2, KeysKept
<1> QED
  BY <1>1, <1>2, <1>3 DEF Quiet

LEMMA StateRecord ==
  ASSUME NEW p \in Parties, NEW c \in CallRecords, Derived(p, c),
         NEW s \in {"Calling", "Ended"}, s = "Ended" => c.state \in {"Active", "Ended"}
  PROVE  LET d == [c EXCEPT !.state = s]
         IN  d \in CallRecords /\ Derived(p, d) /\ Quiet(c, d) /\ d.pending = c.pending
<1> DEFINE d == [c EXCEPT !.state = s]
<1>1. d \in CallRecords
  BY Zenon DEF CallRecords
<1>2. /\ d.state = s /\ d.pending = c.pending
      /\ SameKeys(c, d) /\ SameCount(c, d) /\ SameWindow(c, d) /\ SameConsent(c, d)
  BY DEF CallRecords, SameKeys, SameCount, SameWindow, SameConsent
<1>3. Derived(p, d)
  <2>1. \A k \in c.pending : k[1] = p
    BY DEF Derived
  <2> HIDE DEF d
  <2> QED
    BY Zenon, <1>2, <2>1, KeysKept
<1> QED
  BY <1>1, <1>2, <1>3 DEF Quiet

(* rekey: the root is new, the pending keys stay. *)
LEMMA RekeyRecord ==
  ASSUME NEW p \in Parties, NEW c \in CallRecords, \A k \in c.pending : k[1] = p,
         NEW root \in Roots, root # <<>>,
         NEW b \in BOOLEAN, b = (Starter(root) = p), NEW g \in Nat
  PROVE  LET d == [derive_call_keys(c, root, b) EXCEPT !.generation = g]
         IN  d \in CallRecords /\ Derived(p, d) /\ Quiet(c, d)
<1> DEFINE e == derive_call_keys(c, root, b)
           d == [e EXCEPT !.generation = g]
<1>1. /\ e \in CallRecords
      /\ e.root = root /\ e.dir = b /\ e.hdr = b /\ e.send = <<>> /\ e.recv = <<>>
      /\ e.pending = c.pending /\ Quiet(c, e)
  BY NewKeys DEF Quiet, SameCount, SameWindow, SameConsent
<1> HIDE DEF e
<1>2. d \in CallRecords
  BY Zenon, <1>1 DEF CallRecords
<1>3. /\ d.root = root /\ d.dir = b /\ d.hdr = b /\ d.send = <<>> /\ d.recv = <<>>
      /\ d.pending = c.pending /\ Quiet(c, d)
  BY <1>1 DEF CallRecords, Quiet, SameCount, SameWindow, SameConsent
<1>4. Derived(p, d)
  <2> HIDE DEF d
  <2> QED
    BY <1>2, <1>3, DerivedKeys
<1> QED
  BY Zenon, <1>2, <1>3, <1>4 DEF e

LEMMA StartRecord ==
  ASSUME NEW p \in Parties, NEW c \in CallRecords,
         NEW root \in Roots, root # <<>>,
         NEW b \in BOOLEAN, b = (Starter(root) = p)
  PROVE  LET d == from_key_material(c, root, b)
         IN  d \in CallRecords /\ Derived(p, d) /\ Quiet(c, d)
<1> DEFINE e == derive_call_keys(c, root, b)
           a == [e EXCEPT !.state = "Active"]
           d == [a EXCEPT !.pending = {}]
<1>0. from_key_material(c, root, b) = d
  BY Zenon DEF from_key_material
<1>1. /\ e \in CallRecords
      /\ e.root = root /\ e.dir = b /\ e.hdr = b /\ e.send = <<>> /\ e.recv = <<>>
      /\ Quiet(c, e)
  BY NewKeys DEF Quiet, SameCount, SameWindow, SameConsent
<1> HIDE DEF e
<1>2. a \in CallRecords
  BY Zenon, <1>1 DEF CallRecords
<1>3. d \in CallRecords
  <2> HIDE DEF a
  <2> QED
    BY Zenon, <1>2 DEF CallRecords
<1>4. /\ d.root = root /\ d.dir = b /\ d.hdr = b /\ d.send = <<>> /\ d.recv = <<>>
      /\ d.pending = {} /\ Quiet(c, d)
  BY <1>1 DEF CallRecords, Quiet, SameCount, SameWindow, SameConsent
<1>5. Derived(p, d)
  <2> HIDE DEF d
  <2> QED
    BY <1>3, <1>4, DerivedKeys
<1> QED
  BY <1>0, <1>3, <1>4, <1>5

(* from_sealed_state: the header keys by the role in the call. *)
LEMMA RestoredRecord ==
  ASSUME NEW p \in Parties, NEW c \in CallRecords, Derived(p, c), c.state = "Active"
  PROVE  LET d == from_sealed_state(p, c)
         IN  d \in CallRecords /\ Derived(p, d) /\ Quiet(c, d)
<1> DEFINE b == (p = "caller")
           a == [c EXCEPT !.pending = {}]
           d == [a EXCEPT !.hdr = b]
<1>0. from_sealed_state(p, c) = d
  BY Zenon DEF from_sealed_state
<1>1. a \in CallRecords
  BY Zenon DEF CallRecords
<1>2. d \in CallRecords
  <2>1. b \in BOOLEAN
    OBVIOUS
  <2> HIDE DEF a, b
  <2> QED
    BY Zenon, <1>1, <2>1 DEF CallRecords
<1>3. /\ d.root = c.root /\ d.dir = c.dir /\ d.hdr = b /\ d.send = c.send
      /\ d.recv = c.recv /\ d.state = c.state /\ d.pending = {} /\ Quiet(c, d)
  <2> HIDE DEF b
  <2> QED
    BY DEF CallRecords, Quiet, SameCount, SameWindow, SameConsent
<1>4. c.root # <<>>
  BY DEF Derived
<1>5. b = c.dir => ~Turned(c)
  BY <1>4, Zenon DEF Derived, Turned
<1>6. ~Turned(d) => Matched(p, d)
  <2> HIDE DEF d, b
  <2> SUFFICES ASSUME b = c.dir PROVE Matched(p, d)
    BY <1>3, Zenon DEF Turned
  <2>1. Matched(p, c) /\ c.hdr = b
    BY <1>4, <1>5, Zenon DEF Derived, Turned
  <2> QED
    BY <1>3, <2>1, Zenon DEF Matched
<1>7. Derived(p, d)
  <2>1. \A k \in d.pending : k[1] = p
    BY <1>3
  <2>2. d.hdr = (p = "caller")
    BY <1>3
  <2> HIDE DEF d, b
  <2> QED
    BY <1>3, <1>4, <1>6, <2>1, <2>2, Zenon DEF Derived, Directed
<1> QED
  BY <1>0, <1>2, <1>3, <1>7

(* The chain of the next frame goes on with the sender's own prefix. *)
LEMMA NextChain ==
  ASSUME NEW c \in CallRecords
  PROVE  LET s == next_chain(c)
         IN  /\ s \in Seq(BOOLEAN)
             /\ \A i \in 1..Len(s) :
                  (i \in 1..Len(c.send) /\ s[i] = c.send[i]) \/ s[i] = c.hdr
<1>1. c.send \in Seq(BOOLEAN) /\ c.hdr \in BOOLEAN
  BY DEF CallRecords
<1>2. \A S : \A t \in Seq(S), e \in S : Append(t, e) \in Seq(S)
  OBVIOUS
<1>3. next_chain(c) \in Seq(BOOLEAN)
  BY <1>1, <1>2, Zenon DEF next_chain
<1>4. \A i \in 1..Len(next_chain(c)) :
        \/ i \in 1..Len(c.send) /\ next_chain(c)[i] = c.send[i]
        \/ next_chain(c)[i] = c.hdr
  BY DEF next_chain, CallRecords
<1> QED
  BY <1>3, <1>4

(* encrypt_frame: the chain goes on with the sender's own prefix. *)
LEMMA SendingRecord ==
  ASSUME NEW p \in Parties, NEW c \in CallRecords, Derived(p, c), c.state = "Active",
         NEW n \in Nat
  PROVE  LET d == [c EXCEPT !.send = next_chain(c), !.since = n, !.counter = @ + 1]
         IN  /\ d \in CallRecords /\ Derived(p, d)
             /\ d.counter = c.counter + 1 /\ SameWindow(c, d) /\ SameConsent(c, d)
<1> DEFINE s == next_chain(c)
           m == c.counter + 1
           x == [c EXCEPT !.send = s]
           y == [x EXCEPT !.since = n]
           d == [y EXCEPT !.counter = m]
<1>0. [c EXCEPT !.send = next_chain(c), !.since = n, !.counter = @ + 1] = d
  BY DEF CallRecords
<1>1. /\ s \in Seq(BOOLEAN)
      /\ \A i \in 1..Len(s) : (i \in 1..Len(c.send) /\ s[i] = c.send[i]) \/ s[i] = c.hdr
  BY NextChain
<1>2. m \in Nat
  BY DEF CallRecords
<1> HIDE DEF s, m
<1>4. x \in CallRecords
  BY Zenon, <1>1 DEF CallRecords
<1> HIDE DEF x
<1>5. y \in CallRecords
  BY Zenon, <1>4 DEF CallRecords
<1> HIDE DEF y
<1>6. d \in CallRecords
  BY Zenon, <1>2, <1>5 DEF CallRecords
<1>7. /\ d.root = c.root /\ d.dir = c.dir /\ d.hdr = c.hdr /\ d.send = s
      /\ d.recv = c.recv /\ d.state = c.state /\ d.pending = c.pending
      /\ d.counter = m /\ SameWindow(c, d) /\ SameConsent(c, d)
  BY DEF CallRecords, x, y, SameWindow, SameConsent
<1>8. Derived(p, d)
  <2> HIDE DEF d
  <2>1. ~Turned(d) => Matched(p, c)
    BY <1>7 DEF Derived, Turned
  <2>2. ~Turned(d) => Matched(p, d)
    BY <1>1, <1>7, <2>1 DEF Matched
  <2> QED
    BY <1>7, <2>2, Zenon DEF Derived, Directed, Turned
<1> QED
  BY <1>0, <1>6, <1>7, <1>8 DEF m

(* decrypt_frame: the receive chain of a frame is the peer's. *)
LEMMA ReceivedRecord ==
  ASSUME NEW p \in Parties, NEW c \in CallRecords, Derived(p, c), c.state = "Active",
         NEW f \in MediaFrames, authentic(c, f)
  PROVE  LET d == [mark(c, f.counter) EXCEPT !.recv = f.chain]
         IN  /\ d \in CallRecords /\ Derived(p, d)
             /\ d.high = (IF f.counter > c.high THEN f.counter ELSE c.high)
             /\ d.marked = {k \in c.marked \cup {f.counter} : d.high - k < Window}
             /\ SameCount(c, d) /\ SameConsent(c, d)
<1> DEFINE h == IF f.counter > c.high THEN f.counter ELSE c.high
           M == {k \in c.marked \cup {f.counter} : h - k < Window}
           x == [c EXCEPT !.high = h]
           y == [x EXCEPT !.marked = M]
           d == [y EXCEPT !.recv = f.chain]
<1>0. [mark(c, f.counter) EXCEPT !.recv = f.chain] = d
  BY DEF CallRecords, mark
<1>1. h \in Nat /\ M \in SUBSET Nat /\ f.chain \in Seq(BOOLEAN)
  BY Zenon DEF CallRecords, MediaFrames
<1>2. \A i \in 1..Len(f.chain) :
        (i \in 1..Len(c.recv) /\ f.chain[i] = c.recv[i]) \/ f.chain[i] = ~c.hdr
  <2>1. f.chain = chain_at(c, Len(f.chain)) /\ Len(f.chain) \in Nat /\ Len(c.recv) \in Nat
    BY <1>1 DEF authentic, CallRecords
  <2>2. \A i \in 1..Len(f.chain) :
          f.chain[i] = IF i <= Len(c.recv) THEN c.recv[i] ELSE ~c.hdr
    BY <2>1, Zenon DEF chain_at
  <2> QED
    BY <2>1, <2>2
<1> HIDE DEF h, M
<1>3. x \in CallRecords
  BY Zenon, <1>1 DEF CallRecords
<1> HIDE DEF x
<1>4. y \in CallRecords
  BY Zenon, <1>1, <1>3 DEF CallRecords
<1> HIDE DEF y
<1>5. d \in CallRecords
  BY Zenon, <1>1, <1>4 DEF CallRecords
<1>6. /\ d.root = c.root /\ d.dir = c.dir /\ d.hdr = c.hdr /\ d.send = c.send
      /\ d.recv = f.chain /\ d.state = c.state /\ d.pending = c.pending
      /\ d.high = h /\ d.marked = M /\ SameCount(c, d) /\ SameConsent(c, d)
  BY DEF CallRecords, x, y, SameCount, SameConsent
<1>7. Derived(p, d)
  <2> HIDE DEF d
  <2>1. c.root # <<>>
    BY DEF Derived
  <2>2. ~Turned(d) => Matched(p, c)
    BY Zenon, <1>6, <2>1 DEF Derived, Turned
  <2>3. ASSUME Matched(p, c)
        PROVE  (~c.hdr) = (Starter(c.root) = peer(p))
    <3>1. c.root[Len(c.root)] \in EphemeralKeys \X EphemeralKeys
      BY <2>1 DEF CallRecords, Roots
    <3>2. Starter(c.root) \in Parties
      BY Zenon, <3>1 DEF Starter, EphemeralKeys
    <3>3. Starter(c.root) = p <=> Starter(c.root) # peer(p)
      BY <3>2 DEF Parties, peer
    <3>4. c.hdr = (Starter(c.root) = p)
      BY <2>3 DEF Matched
    <3> QED
      BY Zenon, <3>3, <3>4
  <2>4. Matched(p, c) => Matched(p, d)
    <3> SUFFICES ASSUME Matched(p, c), NEW i \in 1..Len(f.chain)
                 PROVE  f.chain[i] = (Starter(c.root) = peer(p))
      BY <1>6, Zenon DEF Matched
    <3> QED
      BY <1>2, <2>3, Zenon DEF Matched
  <2> QED
    BY <1>6, <2>1, <2>2, <2>4, Zenon DEF Derived, Directed, Turned
<1> QED
  BY Zenon, <1>0, <1>5, <1>6, <1>7 DEF h, M

(* Recording consents touch nothing else. *)
LEMMA LocalRecord ==
  ASSUME NEW p \in Parties, NEW c \in CallRecords, Derived(p, c),
         NEW consent \in 0..2, NEW t \in Nat
  PROVE  LET d == [c EXCEPT !.local = consent]
             e == [d EXCEPT !.local_ts = t]
         IN  /\ d \in CallRecords /\ Derived(p, d) /\ Quiet(c, d)
             /\ e \in CallRecords /\ Derived(p, e) /\ Quiet(c, e)
<1> DEFINE d == [c EXCEPT !.local = consent]
           e == [d EXCEPT !.local_ts = t]
<1>1. d \in CallRecords
  BY DEF CallRecords
<1>2. /\ d.state = c.state /\ d.pending = c.pending
      /\ SameKeys(c, d) /\ SameCount(c, d) /\ SameWindow(c, d) /\ SameConsent(c, d)
  BY DEF CallRecords, SameKeys, SameCount, SameWindow, SameConsent
<1> HIDE DEF d
<1>3. e \in CallRecords
  BY Zenon, <1>1 DEF CallRecords
<1>4. /\ e.state = d.state /\ e.pending = d.pending
      /\ SameKeys(d, e) /\ SameCount(d, e) /\ SameWindow(d, e) /\ SameConsent(d, e)
  BY <1>1 DEF CallRecords, SameKeys, SameCount, SameWindow, SameConsent
<1> HIDE DEF e
<1>5. \A k \in c.pending : k[1] = p
  BY DEF Derived
<1>6. Derived(p, d)
  BY <1>2, <1>5, KeysKept
<1>7. Derived(p, e)
  BY <1>2, <1>4, <1>5, <1>6, KeysKept
<1> QED
  BY <1>1, <1>2, <1>3, <1>4, <1>6, <1>7
  DEF Quiet, SameCount, SameWindow, SameConsent, d, e

LEMMA RemoteRecord ==
  ASSUME NEW p \in Parties, NEW c \in CallRecords, Derived(p, c), NEW m \in ConsentMessages
  PROVE  LET d == [c EXCEPT !.remote = m.consent, !.remote_ts = m.timestamp]
         IN  /\ d \in CallRecords /\ Derived(p, d) /\ SameCount(c, d) /\ SameWindow(c, d)
             /\ d.remote = m.consent /\ d.remote_ts = m.timestamp
<1> DEFINE x == [c EXCEPT !.remote = m.consent]
           d == [x EXCEPT !.remote_ts = m.timestamp]
<1>1. x \in CallRecords
  BY Zenon DEF CallRecords, ConsentMessages
<1>2. d \in CallRecords
  <2> HIDE DEF x
  <2> QED
    BY Zenon, <1>1 DEF CallRecords, ConsentMessages
<1>3. /\ d.state = c.state /\ d.pending = c.pending
      /\ SameKeys(c, d) /\ SameCount(c, d) /\ SameWindow(c, d)
      /\ d.remote = m.consent /\ d.remote_ts = m.timestamp
  BY DEF CallRecords, SameKeys, SameCount, SameWindow
<1>4. Derived(p, d)
  <2>1. \A k \in c.pending : k[1] = p
    BY DEF Derived
  <2> HIDE DEF d
  <2> QED
    BY <1>3, <2>1, KeysKept
<1> QED
  BY <1>2, <1>3, <1>4

(* The steps that move only keys. *)
Still ==
  /\ frames' = frames /\ played' = played /\ heeded' = heeded
  /\ \A p \in Parties : Quiet(call[p], call'[p])

Becomes(p, d) == call' = [call EXCEPT ![p] = d]

LEMMA OneSession ==
  ASSUME CallTypes, NEW p \in Parties, NEW d \in CallRecords, Becomes(p, d)
  PROVE  /\ call' \in [Parties -> CallRecords] /\ call'[p] = d
         /\ \A q \in Parties : q # p => call'[q] = call[q]
BY DEF CallTypes, Becomes

LEMMA SessionMoves ==
  ASSUME KeysInv, UNCHANGED scenario,
         NEW p \in Parties, NEW d \in CallRecords, Derived(p, d), Becomes(p, d),
         made' \in [Parties -> Nat], frames' \subseteq MediaFrames,
         outbox' \subseteq CallSignals, inbox' \subseteq CallSignals,
         consents' \subseteq ConsentMessages,
         played' \in [Parties -> SUBSET MediaFrames],
         heeded' \in [Parties -> SUBSET ConsentMessages],
         \A m \in outbox' \cup inbox' : OwnKey(m)
  PROVE  KeysInv'
<1>1. /\ call' \in [Parties -> CallRecords] /\ call'[p] = d
      /\ \A q \in Parties : q # p => call'[q] = call[q]
  BY Zenon, OneSession DEF KeysInv
<1>2. CallTypes'
  BY Zenon, <1>1 DEF KeysInv, CallTypes
<1>3. ASSUME NEW q \in Parties
      PROVE  Derived(q, call[q])'
  <2>1. Derived(q, call'[q])
    BY <1>1 DEF KeysInv
  <2> QED
    BY Zenon, <2>1 DEF Derived, Directed, Matched, Turned
<1> QED
  BY <1>2, <1>3 DEF KeysInv

LEMMA SessionStill ==
  ASSUME CallTypes, NEW p \in Parties, NEW d \in CallRecords, Becomes(p, d),
         Quiet(call[p], d), UNCHANGED <<frames, played, heeded>>
  PROVE  Still
<1>1. /\ call'[p] = d
      /\ \A q \in Parties : q # p => call'[q] = call[q]
  BY OneSession
<1>2. \A q \in Parties : Quiet(call[q], call[q])
  BY DEF Quiet, SameCount, SameWindow, SameConsent
<1> QED
  BY <1>1, <1>2 DEF Still

(* A step that moves the keys of one session and may send signals. *)
LEMMA QuietStep ==
  ASSUME KeysInv, UNCHANGED <<scenario, frames, inbox, played, heeded>>,
         NEW p \in Parties, NEW d \in CallRecords, Derived(p, d), Becomes(p, d),
         Quiet(call[p], d), made' \in [Parties -> Nat],
         NEW signals \in SUBSET CallSignals, outbox' = outbox \cup signals,
         \A m \in signals : OwnKey(m), consents' \subseteq ConsentMessages
  PROVE  KeysInv' /\ Still
<1>1. /\ frames' \subseteq MediaFrames /\ outbox' \subseteq CallSignals
      /\ inbox' \subseteq CallSignals /\ played' \in [Parties -> SUBSET MediaFrames]
      /\ heeded' \in [Parties -> SUBSET ConsentMessages]
  BY DEF KeysInv, CallTypes
<1>2. \A m \in outbox' \cup inbox' : OwnKey(m)
  BY DEF KeysInv
<1>3. KeysInv'
  BY Zenon, <1>1, <1>2, SessionMoves
<1> QED
  BY Zenon, <1>3, SessionStill DEF KeysInv

(* The same without a signal. *)
LEMMA SilentStep ==
  ASSUME KeysInv,
         UNCHANGED <<scenario, made, frames, outbox, inbox, consents, played, heeded>>,
         NEW p \in Parties, NEW d \in CallRecords, Derived(p, d), Becomes(p, d),
         Quiet(call[p], d)
  PROVE  KeysInv' /\ Still
<1>1. /\ consents' \subseteq ConsentMessages /\ made' \in [Parties -> Nat]
      /\ outbox' = outbox \cup {} /\ {} \in SUBSET CallSignals
  BY DEF KeysInv, CallTypes
<1> QED
  BY Zenon, <1>1, QuietStep

(* The signals of a party with a key of its own. *)
LEMMA OwnSignal ==
  ASSUME CallTypes, NEW p \in Parties, NEW g \in Nat, NEW root \in Roots,
         NEW type \in {"Init", "Accept", "Rekey", "RekeyAck"},
         type = "Init" => p = "caller"
  PROVE  /\ ephemeral(p) \in EphemeralKeys /\ ephemeral(p)[1] = p
         /\ signal(type, p, g, ephemeral(p), root) \in CallSignals
         /\ OwnKey(signal(type, p, g, ephemeral(p), root))
<1>1. made[p] + 1 \in Nat
  BY DEF CallTypes
<1>2. ephemeral(p) \in EphemeralKeys /\ ephemeral(p)[1] = p
  BY <1>1 DEF ephemeral, EphemeralKeys
<1> DEFINE s == signal(type, p, g, ephemeral(p), root)
<1>3. s \in CallSignals /\ s.type = type /\ s.from = p /\ s.key = ephemeral(p)
  BY <1>2 DEF signal, CallSignals
<1> HIDE DEF s
<1>4. OwnKey(s)
  BY <1>2, <1>3 DEF OwnKey
<1> QED
  BY Zenon, <1>2, <1>3, <1>4 DEF s

LEMMA InitiateCall ==
  ASSUME KeysInv, UNCHANGED scenario, initiate_call
  PROVE  KeysInv' /\ Still
<1> DEFINE p == "caller"
           key == ephemeral(p)
           c == call[p]
           x == [c EXCEPT !.state = "Calling"]
           d == [x EXCEPT !.pending = {key}]
<1>1. p \in Parties /\ c \in CallRecords /\ Derived(p, c)
  BY DEF Parties, KeysInv, CallTypes
<1>2. <<>> \in Roots
  BY DEF Roots
<1>3. /\ key \in EphemeralKeys /\ key[1] = p
      /\ caller_init(key) \in CallSignals /\ OwnKey(caller_init(key))
  BY Zenon, <1>1, <1>2, OwnSignal DEF KeysInv, caller_init
<1>4. x \in CallRecords /\ Derived(p, x) /\ Quiet(c, x)
  BY Zenon, <1>1, StateRecord
<1>5. d \in CallRecords /\ Derived(p, d) /\ Quiet(x, d)
  <2> HIDE DEF x, key, p
  <2> QED
    BY Zenon, <1>1, <1>3, <1>4, PendingRecord
<1>6. Quiet(c, d)
  <2> HIDE DEF x, d
  <2> QED
    BY Zenon, <1>4, <1>5 DEF Quiet, SameCount, SameWindow, SameConsent
<1>7. Becomes(p, d)
  BY Zenon, <1>1 DEF initiate_call, Becomes, KeysInv, CallTypes
<1>8. /\ made' \in [Parties -> Nat] /\ outbox' = outbox \cup {caller_init(key)}
      /\ UNCHANGED <<frames, inbox, consents, played, heeded>>
  BY <1>1 DEF initiate_call, KeysInv, CallTypes
<1> HIDE DEF p, d, key, c
<1>9. consents' \subseteq ConsentMessages
  BY <1>8 DEF KeysInv, CallTypes
<1>10. Quiet(call[p], d)
  BY <1>6 DEF c
<1>11. {caller_init(key)} \in SUBSET CallSignals
  BY <1>3
<1> QED
  BY Zenon, <1>1, <1>3, <1>5, <1>7, <1>8, <1>9, <1>10, <1>11, QuietStep

LEMMA AcceptCall ==
  ASSUME KeysInv, UNCHANGED scenario, NEW m \in inbox, accept_call(m)
  PROVE  KeysInv' /\ Still
<1> DEFINE p == "callee"
           key == ephemeral(p)
           c == call[p]
           root == rekey_complete(<<>>, m.key, key)
           s == callee_accept(m, key)
           d == from_key_material(c, root, FALSE)
<1>1. p \in Parties /\ c \in CallRecords /\ Derived(p, c)
  BY DEF Parties, KeysInv, CallTypes
<1>2. m.key \in EphemeralKeys /\ m.key[1] = "caller"
  BY DEF accept_call, KeysInv, OwnKey
<1>3. <<>> \in Roots
  BY DEF Roots
<1>4. key \in EphemeralKeys
  BY <1>1, <1>3, OwnSignal DEF KeysInv
<1>5. root \in Roots /\ root # <<>> /\ Starter(root) = "caller"
  <2> HIDE DEF key
  <2> QED
    BY <1>2, <1>3, <1>4, NewRoot
<1>6. s \in CallSignals /\ OwnKey(s) /\ s.root = root
  <2>1. s = signal("Accept", p, 0, key, root)
    BY Zenon DEF callee_accept
  <2>2. s.root = root
    BY <2>1 DEF signal
  <2> HIDE DEF root, s
  <2> QED
    BY <1>1, <1>5, <2>1, <2>2, OwnSignal DEF KeysInv
<1>7. d \in CallRecords /\ Derived(p, d) /\ Quiet(c, d)
  <2>1. FALSE = (Starter(root) = p)
    BY <1>5
  <2> HIDE DEF root
  <2> QED
    BY Zenon, <1>1, <1>5, <2>1, StartRecord
<1>8. Becomes(p, d)
  <2>1. call' = [call EXCEPT ![p] = from_key_material(c, s.root, FALSE)]
    BY Zenon, <1>1 DEF accept_call, KeysInv, CallTypes
  <2> QED
    BY <2>1, <1>6, Zenon DEF Becomes
<1>9. /\ made' \in [Parties -> Nat] /\ outbox' = outbox \cup {s}
      /\ UNCHANGED <<frames, inbox, consents, played, heeded>>
  BY <1>1 DEF accept_call, KeysInv, CallTypes
<1> HIDE DEF p, d, key, c, root, s
<1>10. consents' \subseteq ConsentMessages
  BY <1>9 DEF KeysInv, CallTypes
<1>11. Quiet(call[p], d)
  BY <1>7 DEF c
<1>12. {s} \in SUBSET CallSignals
  BY <1>6
<1> QED
  BY Zenon, <1>1, <1>6, <1>7, <1>8, <1>9, <1>10, <1>11, <1>12, QuietStep

LEMMA CompleteCall ==
  ASSUME KeysInv, UNCHANGED scenario, NEW m \in inbox, complete_call(m)
  PROVE  KeysInv' /\ Still
<1> DEFINE p == "caller"
           c == call[p]
           d == from_key_material(c, m.root, TRUE)
<1>1. p \in Parties /\ c \in CallRecords /\ Derived(p, c)
  BY DEF Parties, KeysInv, CallTypes
<1>2. PICK key \in c.pending : m.root = rekey_complete(<<>>, key, m.key)
  BY DEF complete_call, caller_finish
<1>3. key \in EphemeralKeys /\ key[1] = p /\ m.key \in EphemeralKeys /\ <<>> \in Roots
  BY <1>1 DEF complete_call, KeysInv, OwnKey, Derived, CallRecords, Roots
<1>4. /\ m.root \in Roots /\ m.root # <<>>
      /\ Starter(m.root) = p
  BY <1>2, <1>3, NewRoot
<1>5. d \in CallRecords /\ Derived(p, d) /\ Quiet(c, d)
  <2>1. TRUE = (Starter(m.root) = p)
    BY <1>4
  <2> QED
    BY Zenon, <1>1, <1>4, <2>1, StartRecord
<1>6. Becomes(p, d)
  BY Zenon, <1>1 DEF complete_call, Becomes, KeysInv, CallTypes
<1>7. UNCHANGED <<made, frames, outbox, inbox, consents, played, heeded>>
  BY DEF complete_call
<1> HIDE DEF p, d
<1> QED
  BY <1>1, <1>5, <1>6, <1>7, SilentStep

LEMMA InitiateRekey ==
  ASSUME KeysInv, UNCHANGED scenario, NEW p \in Parties, initiate_rekey(p)
  PROVE  KeysInv' /\ Still
<1> DEFINE key == ephemeral(p)
           c == call[p]
           s == rekey_initiate(p, key)
           d == [c EXCEPT !.pending = {key}]
<1>1. c \in CallRecords /\ Derived(p, c)
  BY DEF KeysInv, CallTypes
<1>2. c.root \in Roots /\ c.generation + 1 \in Nat
  BY <1>1 DEF CallRecords
<1>3. key \in EphemeralKeys /\ key[1] = p /\ s \in CallSignals /\ OwnKey(s)
  BY <1>2, OwnSignal DEF KeysInv, rekey_initiate
<1>4. d \in CallRecords /\ Derived(p, d) /\ Quiet(c, d)
  <2> HIDE DEF key, c
  <2> QED
    BY Zenon, <1>1, <1>3, PendingRecord
<1>5. Becomes(p, d)
  BY Zenon, <1>1 DEF initiate_rekey, Becomes, KeysInv, CallTypes
<1>6. /\ made' \in [Parties -> Nat] /\ outbox' = outbox \cup {s}
      /\ UNCHANGED <<frames, inbox, consents, played, heeded>>
  BY <1>1 DEF initiate_rekey, KeysInv, CallTypes
<1>7. consents' \subseteq ConsentMessages
  BY <1>6 DEF KeysInv, CallTypes
<1> HIDE DEF d, key, s
<1>8. {s} \in SUBSET CallSignals
  BY <1>3
<1> QED
  BY Zenon, <1>3, <1>4, <1>5, <1>6, <1>7, <1>8, QuietStep

LEMMA ProcessRekey ==
  ASSUME KeysInv, UNCHANGED scenario, NEW p \in Parties, NEW m \in inbox,
         process_rekey(p, m)
  PROVE  KeysInv' /\ Still
<1> DEFINE key == ephemeral(p)
           c == call[p]
           root == rekey_complete(c.root, m.key, key)
           s == signal("RekeyAck", p, m.generation, key, root)
           d == [derive_call_keys(c, root, FALSE) EXCEPT !.generation = m.generation]
<1>1. c \in CallRecords /\ Derived(p, c) /\ c.state = "Active"
  BY Zenon DEF KeysInv, CallTypes, process_rekey, accepts_rekey
<1>2. c.root \in Roots /\ c.root # <<>>
  BY Zenon, <1>1 DEF Derived, CallRecords
<1>3. m.key \in EphemeralKeys /\ m.key[1] = peer(p) /\ m.generation \in Nat
  BY Zenon DEF process_rekey, KeysInv, OwnKey, CallTypes, CallSignals
<1>4. key \in EphemeralKeys
  BY Zenon, <1>2, OwnSignal DEF KeysInv
<1>5. root \in Roots /\ root # <<>> /\ Starter(root) = peer(p)
  <2> HIDE DEF key
  <2> QED
    BY Zenon, <1>2, <1>3, <1>4, NewRoot
<1>6. s \in CallSignals /\ OwnKey(s)
  <2> HIDE DEF root
  <2> QED
    BY Zenon, <1>3, <1>5, OwnSignal DEF KeysInv
<1>7. d \in CallRecords /\ Derived(p, d) /\ Quiet(c, d)
  <2>1. FALSE = (Starter(root) = p)
    BY <1>5 DEF peer, Parties
  <2>2. \A k \in c.pending : k[1] = p
    BY Zenon, <1>1 DEF Derived
  <2> HIDE DEF root, c
  <2> QED
    BY Zenon, <1>1, <1>3, <1>5, <2>1, <2>2, RekeyRecord
<1>8. Becomes(p, d)
  BY Zenon, <1>1 DEF process_rekey, responder_is_caller, Becomes, KeysInv, CallTypes
<1>9. /\ made' \in [Parties -> Nat] /\ outbox' = outbox \cup {s}
      /\ UNCHANGED <<frames, inbox, consents, played, heeded>>
  BY <1>1 DEF process_rekey, KeysInv, CallTypes
<1>10. consents' \subseteq ConsentMessages
  BY Zenon, <1>9 DEF KeysInv, CallTypes
<1> HIDE DEF d, key, root, s
<1>11. {s} \in SUBSET CallSignals
  BY <1>6
<1> QED
  BY Zenon, <1>6, <1>7, <1>8, <1>9, <1>10, <1>11, QuietStep

LEMMA ProcessRekeyAck ==
  ASSUME KeysInv, UNCHANGED scenario, NEW p \in Parties, NEW m \in inbox,
         process_rekey_ack(p, m)
  PROVE  KeysInv' /\ Still
<1> DEFINE c == call[p]
           x == cleared(c)
           d == [derive_call_keys(x, m.root, TRUE) EXCEPT !.generation = m.generation]
<1>1. c \in CallRecords /\ Derived(p, c) /\ c.state = "Active"
  BY Zenon DEF KeysInv, CallTypes, process_rekey_ack, accepts_ack
<1>2. c.root \in Roots /\ c.root # <<>>
  BY Zenon, <1>1 DEF Derived, CallRecords
<1>3. PICK key \in c.pending : m.root = rekey_complete(c.root, key, m.key)
  BY Zenon DEF process_rekey_ack, accepts_ack
<1>4. /\ key \in EphemeralKeys /\ key[1] = p
      /\ m.key \in EphemeralKeys /\ m.generation \in Nat
  BY Zenon, <1>1
  DEF process_rekey_ack, KeysInv, OwnKey, CallTypes, CallSignals, Derived, CallRecords
<1>5. m.root \in Roots /\ m.root # <<>> /\ Starter(m.root) = p
  BY <1>2, <1>3, <1>4, NewRoot
<1>6. x \in CallRecords /\ Quiet(c, x) /\ x.pending = {}
  <2>1. x \in CallRecords /\ x.pending = {}
    BY Zenon, <1>1 DEF cleared, CallRecords
  <2> QED
    BY Zenon, <1>1, <2>1, PendingRecord DEF cleared
<1>7. d \in CallRecords /\ Derived(p, d) /\ Quiet(c, d)
  <2>1. TRUE = (Starter(m.root) = p)
    BY <1>5
  <2> HIDE DEF x
  <2>2. d \in CallRecords /\ Derived(p, d) /\ Quiet(x, d)
    BY Zenon, <1>4, <1>5, <1>6, <2>1, RekeyRecord
  <2> HIDE DEF d, c
  <2> QED
    BY <1>6, <2>2 DEF Quiet, SameCount, SameWindow, SameConsent
<1>8. Becomes(p, d)
  BY Zenon, <1>1 DEF process_rekey_ack, Becomes, KeysInv, CallTypes
<1>9. UNCHANGED <<made, frames, outbox, inbox, consents, played, heeded>>
  BY DEF process_rekey_ack
<1> HIDE DEF d
<1> QED
  BY <1>7, <1>8, <1>9, SilentStep

LEMMA Forward ==
  ASSUME KeysInv, UNCHANGED scenario, NEW m \in outbox, forward(m)
  PROVE  KeysInv' /\ Still
<1>1. /\ outbox' \subseteq outbox /\ inbox' \subseteq inbox \cup {m}
      /\ UNCHANGED <<call, made, frames, consents, played, heeded>>
  BY DEF forward
<1>2. CallTypes'
  BY Zenon, <1>1 DEF KeysInv, CallTypes
<1>3. \A s \in outbox' \cup inbox' : OwnKey(s)
  BY <1>1 DEF KeysInv
<1>4. ASSUME NEW p \in Parties
      PROVE  Derived(p, call[p])'
  <2>1. Derived(p, call[p])
    BY DEF KeysInv
  <2> QED
    BY Zenon, <1>1, <2>1 DEF Derived, Directed, Matched, Turned
<1>5. Still
  BY <1>1 DEF Still, Quiet, SameCount, SameWindow, SameConsent
<1> QED
  BY <1>2, <1>3, <1>4, <1>5 DEF KeysInv

LEMMA LoseSignal ==
  ASSUME KeysInv, UNCHANGED scenario, NEW m \in inbox, lose_signal(m)
  PROVE  KeysInv' /\ Still
<1>1. /\ inbox' \subseteq inbox
      /\ UNCHANGED <<call, made, frames, outbox, consents, played, heeded>>
  BY DEF lose_signal
<1>2. CallTypes'
  BY Zenon, <1>1 DEF KeysInv, CallTypes
<1>3. \A s \in outbox' \cup inbox' : OwnKey(s)
  BY <1>1 DEF KeysInv
<1>4. ASSUME NEW p \in Parties
      PROVE  Derived(p, call[p])'
  <2>1. Derived(p, call[p])
    BY DEF KeysInv
  <2> QED
    BY Zenon, <1>1, <2>1 DEF Derived, Directed, Matched, Turned
<1>5. Still
  BY <1>1 DEF Still, Quiet, SameCount, SameWindow, SameConsent
<1> QED
  BY <1>2, <1>3, <1>4, <1>5 DEF KeysInv

LEMMA BuildCallEnd ==
  ASSUME KeysInv, UNCHANGED scenario, NEW p \in Parties, build_call_end(p)
  PROVE  KeysInv' /\ Still
<1> DEFINE s == signal("End", p, 0, <<>>, call[p].root)
<1>1. call[p] \in CallRecords /\ Derived(p, call[p])
  BY DEF KeysInv, CallTypes
<1>2. call[p].root \in Roots
  BY Zenon, <1>1 DEF CallRecords
<1>3. s \in CallSignals /\ s.type = "End"
  BY <1>2 DEF signal, CallSignals
<1>4. /\ outbox' = outbox \cup {s}
      /\ UNCHANGED <<call, made, frames, inbox, consents, played, heeded>>
  BY DEF build_call_end
<1> HIDE DEF s
<1>5. {s} \in SUBSET CallSignals /\ OwnKey(s)
  BY <1>3 DEF OwnKey
<1>6. Becomes(p, call[p])
  BY <1>4 DEF Becomes, KeysInv, CallTypes
<1>7. Quiet(call[p], call[p])
  BY DEF Quiet, SameCount, SameWindow, SameConsent
<1>8. consents' \subseteq ConsentMessages /\ made' \in [Parties -> Nat]
  BY <1>4 DEF KeysInv, CallTypes
<1> QED
  BY Zenon, <1>1, <1>4, <1>5, <1>6, <1>7, <1>8, QuietStep

LEMMA EndCall ==
  ASSUME KeysInv, UNCHANGED scenario, NEW p \in Parties, end_call(p)
  PROVE  KeysInv' /\ Still
<1> DEFINE d == [call[p] EXCEPT !.state = "Ended"]
<1>1. call[p] \in CallRecords /\ Derived(p, call[p])
  BY DEF KeysInv, CallTypes
<1>2. d \in CallRecords /\ Derived(p, d) /\ Quiet(call[p], d)
  BY Zenon, <1>1, StateRecord DEF end_call
<1>3. Becomes(p, d)
  BY DEF end_call, Becomes, KeysInv, CallTypes
<1>4. UNCHANGED <<made, frames, outbox, inbox, consents, played, heeded>>
  BY DEF end_call
<1> HIDE DEF d
<1> QED
  BY <1>2, <1>3, <1>4, SilentStep

LEMMA Restart ==
  ASSUME KeysInv, UNCHANGED scenario, NEW p \in Parties, restart(p)
  PROVE  KeysInv' /\ Still
<1> DEFINE d == from_sealed_state(p, call[p])
<1>1. /\ call[p] \in CallRecords /\ Derived(p, call[p])
      /\ call[p].state = "Active"
  BY Zenon DEF KeysInv, CallTypes, restart
<1>2. d \in CallRecords /\ Derived(p, d) /\ Quiet(call[p], d)
  BY <1>1, RestoredRecord
<1>3. Becomes(p, d)
  BY DEF restart, Becomes, KeysInv, CallTypes
<1>4. UNCHANGED <<made, frames, outbox, inbox, consents, played, heeded>>
  BY DEF restart
<1> HIDE DEF d
<1> QED
  BY <1>2, <1>3, <1>4, SilentStep

LEMMA SetConsent ==
  ASSUME KeysInv, UNCHANGED scenario, NEW p \in Parties, NEW consent \in 0..2,
         set_recording_consent(p, consent)
  PROVE  KeysInv' /\ Still
<1> DEFINE d == [call[p] EXCEPT !.local = consent]
<1>1. call[p] \in CallRecords /\ Derived(p, call[p]) /\ 0 \in Nat
  BY DEF KeysInv, CallTypes
<1>2. d \in CallRecords /\ Derived(p, d) /\ Quiet(call[p], d)
  BY Zenon, <1>1, LocalRecord
<1>3. Becomes(p, d)
  BY DEF set_recording_consent, Becomes, KeysInv, CallTypes
<1>4. UNCHANGED <<made, frames, outbox, inbox, consents, played, heeded>>
  BY DEF set_recording_consent
<1> HIDE DEF d
<1> QED
  BY <1>2, <1>3, <1>4, SilentStep

LEMMA BuildConsent ==
  ASSUME KeysInv, UNCHANGED scenario, NEW p \in Parties, NEW consent \in 0..2,
         NEW t \in 1..scenario.max_timestamp, build_recording_consent_message(p, consent, t)
  PROVE  KeysInv' /\ Still
<1> DEFINE x == [call[p] EXCEPT !.local = consent]
           d == [x EXCEPT !.local_ts = t]
           m == [from |-> p, consent |-> consent, timestamp |-> t]
<1>1. scenario.max_timestamp \in Nat
  BY VoipAssumption DEF KeysInv, CallTypes
<1>2. t \in Nat /\ call[p] \in CallRecords /\ Derived(p, call[p])
  BY <1>1 DEF KeysInv, CallTypes
<1>3. d \in CallRecords /\ Derived(p, d) /\ Quiet(call[p], d)
  BY Zenon, <1>2, LocalRecord
<1>4. Becomes(p, d)
  BY Zenon DEF build_recording_consent_message, Becomes, KeysInv, CallTypes
<1>5. m \in ConsentMessages
  BY <1>2 DEF ConsentMessages
<1>6. /\ consents' = consents \cup {m}
      /\ UNCHANGED <<made, frames, outbox, inbox, played, heeded>>
  BY DEF build_recording_consent_message
<1> HIDE DEF d, m
<1>7. /\ consents' \subseteq ConsentMessages /\ made' \in [Parties -> Nat]
      /\ outbox' = outbox \cup {} /\ {} \in SUBSET CallSignals
  BY <1>5, <1>6 DEF KeysInv, CallTypes
<1> QED
  BY Zenon, <1>3, <1>4, <1>6, <1>7, QuietStep

LEMMA StillKeeps ==
  ASSUME CallInv, KeysInv', UNCHANGED scenario, Still
  PROVE  CallInv'
<1>1. \A p \in Parties :
        /\ call'[p].counter = call[p].counter
        /\ call'[p].high = call[p].high /\ call'[p].marked = call[p].marked
        /\ call'[p].remote = call[p].remote /\ call'[p].remote_ts = call[p].remote_ts
  BY Zenon DEF Still, Quiet, SameCount, SameWindow, SameConsent
<1>2. frames' = frames /\ played' = played /\ heeded' = heeded
  BY DEF Still
<1>3. ASSUME NEW f \in frames'
      PROVE  Numbered(f)' /\ Headed(f)'
  <2>1. f \in frames /\ f.from \in Parties /\ Numbered(f) /\ Headed(f)
    BY Zenon, <1>2 DEF CallInv, KeysInv, CallTypes, MediaFrames
  <2> QED
    BY Zenon, <1>1, <2>1 DEF Numbered, Headed, Turned
<1>4. ASSUME NEW p \in Parties
      PROVE  Recalled(p)' /\ NotAhead(p)' /\ Newest(p)'
  <2>1. Recalled(p) /\ NotAhead(p) /\ Newest(p) /\ peer(p) \in Parties
    BY DEF CallInv, peer, Parties
  <2>2. Recalled(p)' /\ NotAhead(p)'
    BY Zenon, <1>1, <1>2, <2>1 DEF Recalled, NotAhead
  <2>3. Newest(p)'
    BY <1>1, <1>2, <2>1, Zenon DEF Newest
  <2> QED
    BY <2>2, <2>3
<1> QED
  BY <1>3, <1>4 DEF CallInv

LEMMA EncryptFrame ==
  ASSUME CallInv, UNCHANGED scenario, NEW p \in Parties, encrypt_frame(p)
  PROVE  CallInv'
<1> DEFINE c == call[p]
           n == IF chain_advances(c) THEN 1 ELSE c.since + 1
           f == next_frame(p, c)
           d == [c EXCEPT !.send = next_chain(c), !.since = n, !.counter = @ + 1]
<1>1. c \in CallRecords /\ Derived(p, c) /\ c.state = "Active"
  BY Zenon DEF CallInv, KeysInv, CallTypes, encrypt_frame, can_encrypt
<1>2. n \in Nat
  BY <1>1 DEF CallRecords
<1>3. Becomes(p, d)
  BY Zenon, <1>1 DEF encrypt_frame, Becomes, CallInv, KeysInv, CallTypes
<1> HIDE DEF n
<1>4. /\ d \in CallRecords /\ Derived(p, d)
      /\ d.counter = c.counter + 1 /\ SameWindow(c, d) /\ SameConsent(c, d)
  BY Zenon, <1>1, <1>2, SendingRecord
<1>5. /\ f \in MediaFrames /\ f.from = p /\ f.counter = c.counter
      /\ f.root = c.root /\ f.hdr = c.hdr /\ f.dir = c.dir
  <2>1. next_chain(c) \in Seq(BOOLEAN)
    BY <1>1, NextChain
  <2> QED
    BY Zenon, <1>1, <2>1 DEF next_frame, frame_counter, MediaFrames, CallRecords
<1>6. /\ frames' = frames \cup {f}
      /\ UNCHANGED <<made, outbox, inbox, consents, played, heeded>>
  BY Zenon DEF encrypt_frame
<1>7. c.counter \in Nat /\ \A q \in Parties : call[q].counter \in Nat
  BY Zenon, <1>1 DEF CallInv, KeysInv, CallTypes, CallRecords
<1> HIDE DEF d, f
<1>8. /\ call'[p] = d /\ \A q \in Parties : q # p => call'[q] = call[q]
  BY Zenon, <1>3, <1>4, OneSession DEF CallInv, KeysInv
<1>9. KeysInv'
  <2>1. /\ made' \in [Parties -> Nat] /\ frames' \subseteq MediaFrames
        /\ outbox' \subseteq CallSignals /\ inbox' \subseteq CallSignals
        /\ consents' \subseteq ConsentMessages
        /\ played' \in [Parties -> SUBSET MediaFrames]
        /\ heeded' \in [Parties -> SUBSET ConsentMessages]
    BY Zenon, <1>5, <1>6 DEF CallInv, KeysInv, CallTypes
  <2>2. \A m \in outbox' \cup inbox' : OwnKey(m)
    BY <1>6 DEF CallInv, KeysInv
  <2> QED
    BY Zenon, <1>3, <1>4, <2>1, <2>2, SessionMoves DEF CallInv
<1>10. ASSUME NEW g \in frames'
       PROVE  Numbered(g)' /\ Headed(g)'
  <2>1. CASE g = f
    <3>1. Numbered(g)'
      BY <1>4, <1>5, <1>7, <1>8, <2>1 DEF Numbered
    <3>2. ~Turned(c) => c.hdr = (Starter(c.root) = p)
      BY Zenon, <1>1 DEF Derived, Matched
    <3>3. Headed(g)'
      BY <1>5, <2>1, <3>2 DEF Headed, Turned
    <3> QED
      BY <3>1, <3>3
  <2>2. CASE g \in frames
    <3>1. g.from \in Parties /\ g.counter \in Nat /\ Numbered(g) /\ Headed(g)
      BY <2>2 DEF CallInv, KeysInv, CallTypes, MediaFrames
    <3>2. Numbered(g)'
      BY <1>4, <1>7, <1>8, <3>1 DEF Numbered
    <3> QED
      BY <3>1, <3>2 DEF Headed, Turned
  <2> QED
    BY <1>6, <2>1, <2>2
<1>11. ASSUME NEW q \in Parties
       PROVE  Recalled(q)' /\ NotAhead(q)' /\ Newest(q)'
  <2>1. /\ call'[q].high = call[q].high /\ call'[q].marked = call[q].marked
        /\ call'[q].remote = call[q].remote /\ call'[q].remote_ts = call[q].remote_ts
    BY Zenon, <1>4, <1>8 DEF SameWindow, SameConsent
  <2>2. Recalled(q) /\ NotAhead(q) /\ Newest(q) /\ peer(q) \in Parties
    BY DEF CallInv, peer, Parties
  <2>3. call[q].high \in Nat /\ call[peer(q)].counter \in Nat
    BY Zenon, <2>2 DEF CallInv, KeysInv, CallTypes, CallRecords
  <2>4. call'[peer(q)].counter >= call[peer(q)].counter
    BY <1>4, <1>7, <1>8, <2>2
  <2>5. call'[peer(q)].counter \in Nat
    BY <1>4, <1>7, <1>8, <2>2
  <2>6. NotAhead(q)'
    BY <2>1, <2>2, <2>3, <2>4, <2>5 DEF NotAhead
  <2>7. Recalled(q)' /\ Newest(q)'
    BY <1>6, <2>1, <2>2, Zenon DEF Recalled, Newest
  <2> QED
    BY <2>6, <2>7
<1> QED
  BY <1>9, <1>10, <1>11 DEF CallInv

LEMMA DecryptFrame ==
  ASSUME CallInv, UNCHANGED scenario, NEW p \in Parties, NEW f \in frames,
         decrypt_frame(p, f)
  PROVE  CallInv'
<1> DEFINE c == call[p]
           d == [mark(c, f.counter) EXCEPT !.recv = f.chain]
<1>1. c \in CallRecords /\ Derived(p, c) /\ c.state = "Active" /\ authentic(c, f)
  BY Zenon DEF CallInv, KeysInv, CallTypes, decrypt_frame, decrypts
<1>2. f \in MediaFrames /\ Numbered(f) /\ f.from = peer(p)
  BY Zenon DEF CallInv, KeysInv, CallTypes, decrypt_frame
<1>3. Becomes(p, d)
  BY Zenon, <1>1 DEF decrypt_frame, Becomes, CallInv, KeysInv, CallTypes
<1>4. /\ d \in CallRecords /\ Derived(p, d)
      /\ d.high = (IF f.counter > c.high THEN f.counter ELSE c.high)
      /\ d.marked = {k \in c.marked \cup {f.counter} : d.high - k < Window}
      /\ SameCount(c, d) /\ SameConsent(c, d)
  BY Zenon, <1>1, <1>2, ReceivedRecord
<1>5. /\ played' = [played EXCEPT ![p] = @ \cup {f}]
      /\ UNCHANGED <<made, frames, outbox, inbox, consents, heeded>>
  BY DEF decrypt_frame
<1> HIDE DEF d
<1>6. /\ call'[p] = d /\ \A q \in Parties : q # p => call'[q] = call[q]
  BY Zenon, <1>3, <1>4, OneSession DEF CallInv, KeysInv
<1>7. KeysInv'
  <2>1. /\ made' \in [Parties -> Nat] /\ frames' \subseteq MediaFrames
        /\ outbox' \subseteq CallSignals /\ inbox' \subseteq CallSignals
        /\ consents' \subseteq ConsentMessages
        /\ played' \in [Parties -> SUBSET MediaFrames]
        /\ heeded' \in [Parties -> SUBSET ConsentMessages]
    BY Zenon, <1>2, <1>5 DEF CallInv, KeysInv, CallTypes
  <2>2. \A m \in outbox' \cup inbox' : OwnKey(m)
    BY <1>5 DEF CallInv, KeysInv
  <2> QED
    BY Zenon, <1>3, <1>4, <2>1, <2>2, SessionMoves DEF CallInv
<1>8. /\ c.high \in Nat /\ f.counter \in Nat /\ d.high \in Nat
      /\ call[peer(p)].counter \in Nat /\ Window \in Nat \ {0} /\ peer(p) \in Parties
  BY Zenon, <1>1, <1>2, <1>4, VoipAssumption
  DEF CallInv, KeysInv, CallTypes, CallRecords, MediaFrames, peer, Parties
<1>9. \A q \in Parties :
        /\ call'[q].counter = call[q].counter
        /\ call'[q].remote = call[q].remote /\ call'[q].remote_ts = call[q].remote_ts
  BY Zenon, <1>4, <1>6 DEF SameCount, SameConsent
<1>10. ASSUME NEW g \in frames'
       PROVE  Numbered(g)' /\ Headed(g)'
  <2>1. g \in frames /\ g.from \in Parties /\ Numbered(g) /\ Headed(g)
    BY Zenon, <1>5 DEF CallInv, KeysInv, CallTypes, MediaFrames
  <2> QED
    BY Zenon, <1>9, <2>1 DEF Numbered, Headed, Turned
<1>11. ASSUME NEW q \in Parties
       PROVE  Newest(q)'
  <2>1. Newest(q)
    BY DEF CallInv
  <2> QED
    BY <1>5, <1>9, <2>1, Zenon DEF Newest
<1>12. ASSUME NEW q \in Parties, q # p
       PROVE  Recalled(q)' /\ NotAhead(q)'
  <2>1. played'[q] = played[q] /\ call'[q] = call[q] /\ peer(q) \in Parties
    BY Zenon, <1>5, <1>6, <1>12 DEF CallInv, KeysInv, CallTypes, peer, Parties
  <2>2. Recalled(q) /\ NotAhead(q)
    BY DEF CallInv
  <2> QED
    BY Zenon, <1>9, <2>1, <2>2 DEF Recalled, NotAhead
<1>13. NotAhead(p)'
  <2>1. f.counter < call[peer(p)].counter
    BY <1>2 DEF Numbered
  <2>2. NotAhead(p)
    BY DEF CallInv
  <2>3. d.high < call[peer(p)].counter
    BY <1>4, <1>8, <2>1, <2>2 DEF NotAhead
  <2> QED
    BY <1>6, <1>8, <1>9, <2>3 DEF NotAhead
<1>14. Recalled(p)'
  <2> SUFFICES ASSUME NEW g \in played'[p]
               PROVE  /\ g.counter <= d.high
                      /\ g.counter \in d.marked \/ Window <= d.high - g.counter
    BY <1>6 DEF Recalled
  <2>1. g \in played[p] \/ g = f
    BY Zenon, <1>5 DEF CallInv, KeysInv, CallTypes
  <2>2. CASE g = f
    BY <1>4, <1>8, <2>2
  <2>3. CASE g \in played[p]
    <3>1. g.counter \in Nat
      BY <2>3 DEF CallInv, KeysInv, CallTypes, MediaFrames
    <3>2. /\ g.counter <= c.high
          /\ g.counter \in c.marked \/ Window <= c.high - g.counter
      BY Zenon, <2>3 DEF CallInv, Recalled
    <3>3. c.high <= d.high
      BY <1>4, <1>8
    <3>4. Window <= d.high - g.counter \/ d.high - g.counter < Window
      BY <1>8, <3>1
    <3>5. g.counter <= d.high /\ (Window <= c.high - g.counter => Window <= d.high - g.counter)
      BY <1>8, <3>1, <3>2, <3>3
    <3>6. g.counter \in c.marked /\ d.high - g.counter < Window => g.counter \in d.marked
      BY Zenon, <1>4
    <3> QED
      BY <3>2, <3>4, <3>5, <3>6, Zenon
  <2> QED
    BY <2>1, <2>2, <2>3
<1> QED
  BY <1>7, <1>10, <1>11, <1>12, <1>13, <1>14 DEF CallInv

LEMMA ProcessConsent ==
  ASSUME CallInv, UNCHANGED scenario, NEW p \in Parties, NEW m \in consents,
         process_recording_consent_message(p, m)
  PROVE  CallInv'
<1> DEFINE c == call[p]
           d == [c EXCEPT !.remote = m.consent, !.remote_ts = m.timestamp]
<1>1. c \in CallRecords /\ Derived(p, c) /\ m \in ConsentMessages
  BY Zenon DEF CallInv, KeysInv, CallTypes
<1>2. Becomes(p, d)
  BY Zenon, <1>1 DEF process_recording_consent_message, Becomes, CallInv, KeysInv, CallTypes
<1>3. /\ d \in CallRecords /\ Derived(p, d) /\ SameCount(c, d) /\ SameWindow(c, d)
      /\ d.remote = m.consent /\ d.remote_ts = m.timestamp
  BY Zenon, <1>1, RemoteRecord
<1>4. /\ heeded' = [heeded EXCEPT ![p] = @ \cup {m}]
      /\ UNCHANGED <<made, frames, outbox, inbox, consents, played>>
      /\ m.timestamp > c.remote_ts
  BY DEF process_recording_consent_message, is_newer
<1> HIDE DEF d
<1>5. /\ call'[p] = d /\ \A q \in Parties : q # p => call'[q] = call[q]
  BY <1>2, <1>3, OneSession DEF CallInv, KeysInv
<1>6. KeysInv'
  <2>1. /\ made' \in [Parties -> Nat] /\ frames' \subseteq MediaFrames
        /\ outbox' \subseteq CallSignals /\ inbox' \subseteq CallSignals
        /\ consents' \subseteq ConsentMessages
        /\ played' \in [Parties -> SUBSET MediaFrames]
        /\ heeded' \in [Parties -> SUBSET ConsentMessages]
    BY Zenon, <1>1, <1>4 DEF CallInv, KeysInv, CallTypes
  <2>2. \A s \in outbox' \cup inbox' : OwnKey(s)
    BY <1>4 DEF CallInv, KeysInv
  <2> QED
    BY Zenon, <1>2, <1>3, <2>1, <2>2, SessionMoves DEF CallInv
<1>7. \A q \in Parties :
        /\ call'[q].counter = call[q].counter
        /\ call'[q].high = call[q].high /\ call'[q].marked = call[q].marked
  BY <1>3, <1>5 DEF SameCount, SameWindow
<1>8. ASSUME NEW g \in frames'
      PROVE  Numbered(g)' /\ Headed(g)'
  <2>1. g \in frames /\ g.from \in Parties /\ Numbered(g) /\ Headed(g)
    BY Zenon, <1>4 DEF CallInv, KeysInv, CallTypes, MediaFrames
  <2> QED
    BY Zenon, <1>7, <2>1 DEF Numbered, Headed, Turned
<1>9. ASSUME NEW q \in Parties
      PROVE  Recalled(q)' /\ NotAhead(q)'
  <2>1. Recalled(q) /\ NotAhead(q) /\ peer(q) \in Parties
    BY DEF CallInv, peer, Parties
  <2> QED
    BY Zenon, <1>4, <1>7, <2>1 DEF Recalled, NotAhead
<1>10. ASSUME NEW q \in Parties, q # p
       PROVE  Newest(q)'
  <2>1. heeded'[q] = heeded[q] /\ call'[q] = call[q]
    BY Zenon, <1>4, <1>5, <1>10 DEF CallInv, KeysInv, CallTypes
  <2>2. Newest(q)
    BY DEF CallInv
  <2> QED
    BY <2>1, <2>2, Zenon DEF Newest
<1>11. Newest(p)'
  <2>1. heeded'[p] = heeded[p] \cup {m} /\ heeded[p] \subseteq ConsentMessages
    BY Zenon, <1>4 DEF CallInv, KeysInv, CallTypes
  <2>2. c.remote_ts \in Nat /\ m.timestamp \in Nat
        /\ \A n \in heeded[p] : n.timestamp \in Nat /\ n.timestamp <= c.remote_ts
    BY Zenon, <1>1, <2>1 DEF CallRecords, ConsentMessages, CallInv, Newest
  <2>3. \A n \in heeded[p] : n.timestamp < m.timestamp /\ n.timestamp # m.timestamp
    BY <1>4, <2>2
  <2>4. \A n \in heeded'[p] : n.timestamp <= m.timestamp /\ (n # m => n.timestamp # m.timestamp)
    BY <2>1, <2>2, <2>3
  <2>5. m \in heeded'[p]
    BY <2>1
  <2> QED
    BY <1>3, <1>5, <2>4, <2>5, Zenon DEF Newest
<1> QED
  BY <1>6, <1>8, <1>9, <1>10, <1>11 DEF CallInv

LEMMA CallStarts == CallInit => CallInv
<1> SUFFICES ASSUME CallInit PROVE CallInv
  OBVIOUS
<1>1. NoCall \in CallRecords
  BY DEF NoCall, CallRecords, Roots
<1>2. CallTypes
  BY <1>1, Zenon DEF CallInit, CallTypes
<1>3. ASSUME NEW p \in Parties
      PROVE  Derived(p, call[p]) /\ Recalled(p) /\ NotAhead(p) /\ Newest(p)
  <2>1. call[p] = NoCall /\ played[p] = {} /\ heeded[p] = {}
    BY DEF CallInit
  <2>2. /\ NoCall.state = "None" /\ NoCall.root = <<>> /\ NoCall.pending = {}
        /\ NoCall.high = 0 /\ NoCall.marked = {} /\ NoCall.remote = 0
    BY Zenon DEF NoCall
  <2> QED
    BY Zenon, <2>1, <2>2 DEF Derived, Recalled, NotAhead, Newest
<1>4. frames = {} /\ outbox = {} /\ inbox = {}
  BY DEF CallInit
<1> QED
  BY <1>2, <1>3, <1>4 DEF CallInv, KeysInv

LEMMA CallContinues == CallInv /\ [CallNext]_call_vars => CallInv'
<1> SUFFICES ASSUME CallInv, [CallNext]_call_vars PROVE CallInv'
  OBVIOUS
<1>0. KeysInv
  BY DEF CallInv
<1>1. CASE UNCHANGED call_vars
  <2>1. UNCHANGED <<scenario, call, made, frames, outbox, inbox, consents, played, heeded>>
    BY <1>1 DEF call_vars
  <2>2. CallTypes' /\ \A m \in outbox' \cup inbox' : OwnKey(m)
    BY <1>0, <2>1 DEF KeysInv, CallTypes
  <2>3. ASSUME NEW p \in Parties
        PROVE  Derived(p, call[p])'
    <3>1. Derived(p, call[p])
      BY <1>0 DEF KeysInv
    <3> QED
      BY Zenon, <2>1, <3>1 DEF Derived, Directed, Matched, Turned
  <2>4. Still
    BY <2>1 DEF Still, Quiet, SameCount, SameWindow, SameConsent
  <2>5. KeysInv'
    BY <2>2, <2>3 DEF KeysInv
  <2> QED
    BY <2>1, <2>4, <2>5, StillKeeps
<1>2. CASE CallNext
  <2>0. UNCHANGED scenario /\ CallStep
    BY <1>2, Zenon DEF CallNext
  <2>1. CASE initiate_call
    BY <1>0, <2>0, <2>1, InitiateCall, StillKeeps, Zenon
  <2>2. CASE \E m \in outbox : forward(m)
    BY <1>0, <2>0, <2>2, Forward, StillKeeps, Zenon
  <2>3. ASSUME NEW p \in Parties, receive(p)
        PROVE  CallInv'
    <3>1. PICK m \in inbox : accept_call(m) \/ complete_call(m)
                             \/ process_rekey(p, m) \/ process_rekey_ack(p, m)
      BY <2>3, Zenon DEF receive
    <3> QED
      BY <1>0, <2>0, <3>1, AcceptCall, CompleteCall, ProcessRekey, ProcessRekeyAck,
         StillKeeps, Zenon
  <2>4. ASSUME NEW p \in Parties, encrypt_frame(p)
        PROVE  CallInv'
    BY <2>0, <2>4, EncryptFrame, Zenon
  <2>5. ASSUME NEW p \in Parties, NEW f \in frames, decrypt_frame(p, f)
        PROVE  CallInv'
    BY <2>0, <2>5, DecryptFrame, Zenon
  <2>6. ASSUME NEW p \in Parties, initiate_rekey(p)
        PROVE  CallInv'
    BY <1>0, <2>0, <2>6, InitiateRekey, StillKeeps, Zenon
  <2>7. ASSUME NEW p \in Parties, build_call_end(p) \/ end_call(p)
        PROVE  CallInv'
    BY <1>0, <2>0, <2>7, BuildCallEnd, EndCall, StillKeeps, Zenon
  <2>8. ASSUME NEW p \in Parties, NEW m \in inbox, process_call_end(p, m)
        PROVE  CallInv'
    <3>1. end_call(p)
      BY <2>8, Zenon DEF process_call_end
    <3> QED
      BY <2>7, <3>1, Zenon
  <2>9. ASSUME NEW p \in Parties, restart(p)
        PROVE  CallInv'
    BY <1>0, <2>0, <2>9, Restart, StillKeeps, Zenon
  <2>11. CASE \E m \in inbox : lose_signal(m)
    BY <1>0, <2>0, <2>11, LoseSignal, StillKeeps, Zenon
  <2>10. ASSUME NEW p \in Parties, consent_step(p)
         PROVE  CallInv'
    <3>1. CASE \E m \in consents : process_recording_consent_message(p, m)
      BY <2>0, <3>1, ProcessConsent, Zenon
    <3>2. ASSUME NEW consent \in 0..2,
                 \/ set_recording_consent(p, consent)
                 \/ \E t \in 1..scenario.max_timestamp :
                      build_recording_consent_message(p, consent, t)
          PROVE  CallInv'
      BY <1>0, <2>0, <3>2, SetConsent, BuildConsent, StillKeeps, Zenon
    <3> QED
      BY <2>10, <3>1, <3>2, Zenon DEF consent_step
  <2> QED
    BY <2>0, <2>1, <2>2, <2>3, <2>4, <2>5, <2>6, <2>7, <2>8, <2>9, <2>10, <2>11, Zenon
    DEF CallStep
<1> QED
  BY <1>1, <1>2, Zenon

(* What two sessions derive from the root they share, whatever happened in  *)
(* between: set-up, rekeys from either side, restores, lost signals.        *)
LEMMA CallInvariance == CallSpec => []CallInv
<1> QED
  BY CallStarts, CallContinues, PTL DEF CallSpec

(* FramesOnce for every replay window and every number of frames, rekeys and *)
(* restores: no frame is decrypted twice, no header nonce is used twice.     *)
THEOREM FramesCountOnce == CallSpec => []FramesOnce
<1>1. CallInv => FramesOnce
  <2> SUFFICES ASSUME CallInv PROVE FramesOnce
    OBVIOUS
  <2>1. ASSUME NEW p \in Parties, NEW f \in played[p]
        PROVE  ~decrypts(call[p], f)
    <3>1. /\ f.counter <= call[p].high
          /\ f.counter \in call[p].marked \/ Window <= call[p].high - f.counter
      BY DEF CallInv, Recalled
    <3>2. f.counter \in Nat /\ call[p].high \in Nat /\ Window \in Nat
      <4>1. call[p] \in CallRecords /\ f \in MediaFrames
        BY DEF CallInv, KeysInv, CallTypes
      <4> QED
        BY Zenon, <4>1, VoipAssumption DEF CallRecords, MediaFrames
    <3>3. ~(Window <= call[p].high - f.counter /\ call[p].high - f.counter < Window)
      BY <3>2
    <3> QED
      BY <3>1, <3>3, Zenon DEF decrypts, in_window
  <2>2. ASSUME NEW p \in Parties, call[p].state = "Active", NEW f \in frames,
               next_frame(p, call[p]).hdr = next_frame(p, call[p]).dir, f.hdr = f.dir,
               f.root = next_frame(p, call[p]).root, f.hdr = next_frame(p, call[p]).hdr,
               f.counter = next_frame(p, call[p]).counter
        PROVE  FALSE
    <3>1. /\ f.root = call[p].root /\ f.hdr = call[p].hdr /\ f.counter = call[p].counter
          /\ ~Turned(call[p]) /\ ~Turned(f)
      BY Zenon, <2>2 DEF next_frame, frame_counter, Turned
    <3>2. Numbered(f) /\ Headed(f) /\ f.from \in Parties /\ f.counter \in Nat
      BY DEF CallInv, KeysInv, CallTypes, MediaFrames
    <3>3. f.from # p
      BY <3>1, <3>2 DEF Numbered
    <3>4. /\ call[p].hdr = (Starter(call[p].root) = p) /\ call[p].root # <<>>
          /\ call[p] \in CallRecords
      BY Zenon, <2>2, <3>1 DEF CallInv, KeysInv, CallTypes, Derived, Matched
    <3>5. f.hdr = (Starter(f.root) = f.from)
      BY Zenon, <3>1, <3>2 DEF Headed
    <3>6. Starter(call[p].root) \in Parties
      <4>1. call[p].root[Len(call[p].root)] \in EphemeralKeys \X EphemeralKeys
        BY <3>4 DEF CallRecords, Roots
      <4> QED
        BY Zenon, <4>1 DEF Starter, EphemeralKeys
    <3>7. Starter(call[p].root) = p <=> Starter(call[p].root) # f.from
      BY <3>2, <3>3, <3>6 DEF Parties
    <3> QED
      BY <3>1, <3>4, <3>5, <3>7
  <2> QED
    BY <2>1, <2>2, Zenon DEF FramesOnce, NoFrameTwice, NoncesUnique
<1> QED
  BY <1>1, CallInvariance, PTL

(* ConsentIsLatest for every run of timestamps. *)
THEOREM ConsentStaysLatest == CallSpec => []ConsentIsLatest
<1>1. CallInv => ConsentIsLatest
  BY Zenon DEF CallInv, Newest, ConsentIsLatest
<1> QED
  BY <1>1, CallInvariance, PTL

(* NextFrameAccepted for every ratchet interval, skip limit and window: two   *)
(* parties with the same root understand each other.                          *)
THEOREM FramesAreUnderstood == CallSpec => []NextFrameAccepted
<1>1. CallInv => NextFrameAccepted
  <2>0. \A p \in Parties : peer(p) \in Parties
    BY DEF peer, Parties
  <2> SUFFICES ASSUME CallInv, NEW p \in Parties,
                      call[p].state = "Active", call[peer(p)].state = "Active",
                      call[p].root = call[peer(p)].root, ~Mismatched,
                      can_encrypt(call[p]),
                      reachable(call[peer(p)], Len(next_frame(p, call[p]).chain))
               PROVE  decrypts(call[peer(p)], next_frame(p, call[p]))
    BY <2>0, Zenon DEF NextFrameAccepted, RestoredCallContinues, Established
  <2> DEFINE q == peer(p)
             b == call[p]
             c == call[q]
             s == next_chain(b)
             f == next_frame(p, b)
             t == (Starter(c.root) = p)
  <2>1. q \in Parties /\ peer(q) = p /\ q # p
    BY DEF peer, Parties
  <2>2. b \in CallRecords /\ c \in CallRecords
    BY Zenon, <2>1 DEF CallInv, KeysInv, CallTypes
  <2>3. Derived(p, b) /\ Derived(q, c) /\ ~Turned(b) /\ ~Turned(c) /\ NotAhead(q)
    BY Zenon, <2>1 DEF CallInv, KeysInv, Turned, Mismatched
  <2>4. c.root # <<>> /\ b.root = c.root
    BY Zenon, <2>3 DEF Derived
  <2>5. (Starter(c.root) = q) = ~t
    <3>1. c.root[Len(c.root)] \in EphemeralKeys \X EphemeralKeys
      BY <2>2, <2>4 DEF CallRecords, Roots
    <3>2. Starter(c.root) \in Parties
      BY Zenon, <3>1 DEF Starter, EphemeralKeys
    <3> QED
      BY Zenon, <2>1, <3>2 DEF Parties
  <2>6. /\ b.dir = t /\ b.hdr = t /\ \A i \in 1..Len(b.send) : b.send[i] = t
    BY Zenon, <2>3, <2>4 DEF Derived, Directed, Matched
  <2>7. /\ c.dir = ~t /\ c.hdr = ~t /\ \A i \in 1..Len(c.recv) : c.recv[i] = t
    BY Zenon, <2>1, <2>3, <2>4, <2>5 DEF Derived, Directed, Matched
  <2>8. /\ f.root = b.root /\ f.dir = b.dir /\ f.hdr = b.hdr
        /\ f.chain = s /\ f.counter = b.counter
    BY Zenon DEF next_frame, frame_counter
  <2>9. s \in Seq(BOOLEAN) /\ \A i \in 1..Len(s) : s[i] = t
    <3>1. /\ s \in Seq(BOOLEAN)
          /\ \A i \in 1..Len(s) : (i \in 1..Len(b.send) /\ s[i] = b.send[i]) \/ s[i] = b.hdr
      BY Zenon, <2>2, NextChain
    <3> HIDE DEF s, b, t
    <3> QED
      BY Zenon, <2>6, <3>1
  <2>10. s = chain_at(c, Len(s))
    <3>1. Len(s) \in Nat /\ Len(c.recv) \in Nat /\ DOMAIN s = 1..Len(s)
          /\ s = [i \in 1..Len(s) |-> s[i]]
      <4>1. c.recv \in Seq(BOOLEAN)
        BY Zenon, <2>2 DEF CallRecords
      <4> HIDE DEF s, c
      <4> QED
        BY <2>9, <4>1
    <3>2. ASSUME NEW i \in 1..Len(s)
          PROVE  s[i] = IF i <= Len(c.recv) THEN c.recv[i] ELSE ~c.hdr
      <4>1. s[i] = t
        BY Zenon, <2>9
      <4>2. i <= Len(c.recv) => c.recv[i] = t
        BY <2>7, <3>1
      <4>3. (~c.hdr) = t
        BY Zenon, <2>7
      <4> HIDE DEF s, c, t
      <4>4. CASE i <= Len(c.recv)
        BY <4>1, <4>2, <4>4, Zenon
      <4>5. CASE ~(i <= Len(c.recv))
        BY <4>1, <4>3, <4>5
      <4> QED
        BY <4>4, <4>5, Zenon
    <3> HIDE DEF s, c
    <3> QED
      BY <3>1, <3>2, Zenon DEF chain_at
  <2>11. authentic(c, f)
    <3>1. f.dir = ~c.dir /\ f.hdr = ~c.hdr
      BY Zenon, <2>6, <2>7, <2>8
    <3> QED
      BY <2>4, <2>8, <2>10, <3>1, Zenon DEF authentic
  <2>12. in_window(c, f.counter)
    <3>1. c.high \in Nat /\ b.counter \in Nat /\ Window \in Nat \ {0}
      BY Zenon, <2>2, VoipAssumption DEF CallRecords
    <3>2. c.high < b.counter \/ (c.high = 0 /\ c.marked = {})
      BY Zenon, <2>1, <2>3 DEF NotAhead
    <3>3. f.counter = b.counter
      BY Zenon, <2>8
    <3> HIDE DEF b, c, f
    <3> QED
      BY <3>1, <3>2, <3>3 DEF in_window
  <2> QED
    BY <2>11, <2>12, Zenon DEF decrypts
<1> QED
  BY <1>1, CallInvariance, PTL

-----------------------------------------------------------------------------
(* Sender keys.                                                           *)

Sent == [s : Senders, epoch : Nat, gen : Nat, timed : BOOLEAN]

(* Where the key of generation g of s is. *)
Owner(s, g) ==
  /\ g < chain[s] => accepted(s, g) \/ <<s, g>> \in skipped \/ <<s, g>> \in gone
  /\ accepted(s, g) => g < chain[s] /\ <<s, g>> \notin skipped /\ <<s, g>> \notin gone
  /\ <<s, g>> \in skipped => g < chain[s] /\ <<s, g>> \notin gone
  /\ <<s, g>> \in gone => g < chain[s]

(* What the proof needs of the types; the bounds of TypeOK are not used. *)
Types ==
  /\ sender_epoch \in [Senders -> Nat] /\ own \in [Senders -> Nat]
  /\ net \subseteq Sent /\ got \subseteq Sent
  /\ epoch \in Nat /\ chain \in [Senders -> Nat]

IInv ==
  /\ Types
  /\ \A m \in got : m.epoch <= epoch
  /\ \A s \in Senders : \A g \in Nat : Owner(s, g)
  /\ again = {}

(* enforce_cache_limit only takes keys out. *)
LEMMA EnforceShrinks == \A keys : enforce_cache_limit(keys) \subseteq keys
BY DEF enforce_cache_limit, within_total_limit, within_sender_limit

(* The generations that advance_to passes on the way to g. *)
LEMMA PassedAre ==
  ASSUME NEW s \in Senders, NEW g \in Nat, chain \in [Senders -> Nat]
  PROVE  \A r, h : <<r, h>> \in passed(s, g) <=>
                     r = s /\ h \in Nat /\ chain[s] <= h /\ h < g
<1>1. chain[s] \in Nat
  OBVIOUS
<1>2. \A h : h \in chain[s]..g - 1 <=> h \in Nat /\ chain[s] <= h /\ h < g
  BY <1>1
<1> QED
  BY <1>2 DEF passed

(* What get_message_key leaves in the cache: no more than what was there or *)
(* was passed, and not the key it hands out.                                *)
LEMMA CacheAfter ==
  ASSUME IInv, NEW s \in Senders, NEW g \in Nat, has_key(s, g)
  PROVE  /\ skipped_after(s, g) \subseteq skipped \cup passed(s, g)
         /\ <<s, g>> \notin skipped_after(s, g)
<1>0. /\ chain \in [Senders -> Nat] /\ chain[s] \in Nat
      /\ <<s, g>> \notin passed(s, g)
  BY PassedAre DEF IInv, Types
<1>1. CASE <<s, g>> \in skipped
  BY <1>1 DEF skipped_after
<1>2. CASE <<s, g>> \notin skipped
  <2>1. enforce_cache_limit(skipped \cup passed(s, g)) \subseteq skipped \cup passed(s, g)
    BY EnforceShrinks
  <2> QED
    BY Zenon, <1>0, <1>2, <2>1 DEF skipped_after
<1> QED
  BY <1>1, <1>2

(* One generation through get_message_key: its key goes from the chain or   *)
(* the cache to the cache, to the given-up ones, or, for <<s, g>>, to the   *)
(* message, which is either accepted or refused.                            *)
LEMMA OwnerMoves ==
  ASSUME IInv, NEW s \in Senders, NEW g \in Nat, get_message_key(s, g),
         epoch' = epoch,
         NEW r \in Senders, NEW h \in Nat,
         \/ /\ accepted(r, h)' <=> accepted(r, h) \/ (r = s /\ h = g)
            /\ gone' = gone \cup evicted(s, g)
         \/ /\ accepted(r, h)' <=> accepted(r, h)
            /\ gone' = gone \cup evicted(s, g) \cup {<<s, g>>}
  PROVE  Owner(r, h)'
<1> DEFINE P == passed(s, g)
           S == skipped_after(s, g)
           k == <<s, g>>
           c == IF k \in skipped THEN chain[s] ELSE g + 1
<1>1. /\ chain \in [Senders -> Nat] /\ has_key(s, g) /\ skipped' = S
      /\ chain' = [chain EXCEPT ![s] = c]
  BY DEF IInv, Types, get_message_key
<1>2. Owner(r, h) /\ Owner(s, g)
  BY DEF IInv
<1>3. S \subseteq skipped \cup P /\ k \notin S
  BY Zenon, <1>1, CacheAfter
<1>4. <<r, h>> \in P <=> r = s /\ chain[s] <= h /\ h < g
  BY Zenon, <1>1, PassedAre
<1>5. evicted(s, g) = (skipped \cup P) \ (S \cup {k})
  BY DEF evicted
<1>6. k \in skipped \/ g >= chain[s]
  BY <1>1 DEF has_key
<1>7. chain'[r] = (IF r = s THEN c ELSE chain[r])
  BY <1>1
<1>8. <<r, h>> = k <=> r = s /\ h = g
  OBVIOUS
<1>9. chain[s] \in Nat /\ chain[r] \in Nat
  BY <1>1
<1>10. ~accepted(s, g) /\ k \notin gone /\ (k \in skipped => g < chain[s])
  BY <1>2, <1>6, <1>9 DEF Owner
<1>11. h < chain[r] => h < chain'[r]
  BY <1>6, <1>7, <1>9, <1>10
<1> HIDE DEF P, S
<1>12. CASE <<r, h>> = k
  <2>1. r = s /\ h = g /\ h < chain'[r] /\ <<r, h>> \notin evicted(s, g)
    BY <1>5, <1>7, <1>8, <1>9, <1>10, <1>12
  <2>2. <<r, h>> \notin skipped'
    BY Zenon, <1>1, <1>3, <1>12
  <2> QED
    BY Zenon, <2>1, <2>2, <1>10, <1>12 DEF Owner
<1>13. CASE <<r, h>> # k
  <2>1. accepted(r, h)' <=> accepted(r, h)
    BY <1>8, <1>13
  <2>2. <<r, h>> \in gone' <=> <<r, h>> \in gone \/ <<r, h>> \in (skipped \cup P) \ S
    BY <1>5, <1>13
  <2>3. <<r, h>> \in skipped' => <<r, h>> \in skipped \cup P
    BY <1>1, <1>3
  <2>4. h < chain'[r] <=> h < chain[r] \/ <<r, h>> \in P
    BY <1>4, <1>6, <1>7, <1>8, <1>9, <1>10, <1>13
  <2>5. <<r, h>> \in P => ~(h < chain[r])
    BY <1>4, <1>9
  <2> QED
    BY Zenon, <2>1, <2>2, <2>3, <2>4, <2>5, <1>1, <1>2 DEF Owner
<1> QED
  BY <1>12, <1>13

(* The chains, the cache and the history are initially empty. *)
LEMMA InitInv == Init => IInv
BY DEF Init, IInv, Types, Owner, accepted

(* Messages that arrive have not been accepted: their key is still there.   *)
LEMMA DecryptPreserves ==
  ASSUME IInv, NEW m \in net, decrypt(m)
  PROVE  IInv'
<1>1. m \in Sent /\ m.s \in Senders /\ m.gen \in Nat /\ m.epoch = epoch
  BY Zenon DEF IInv, Types, Sent, decrypt, opens
<1>2. /\ get_message_key(m.s, m.gen) /\ got' = got \cup {m} /\ epoch' = epoch
      /\ again' = again \cup ({m} \cap got)
      /\ gone' = gone \cup evicted(m.s, m.gen)
      /\ net' = net /\ sender_epoch' = sender_epoch /\ own' = own
  BY DEF decrypt
<1>3. m \notin got
  <2>1. SUFFICES ASSUME m \in got PROVE FALSE
    OBVIOUS
  <2>2. accepted(m.s, m.gen)
    BY <1>1, <2>1 DEF accepted
  <2>3. Owner(m.s, m.gen) /\ chain[m.s] \in Nat
    BY <1>1 DEF IInv, Types
  <2> QED
    BY <1>1, <1>2, <2>2, <2>3 DEF Owner, get_message_key, has_key
<1>4. ASSUME NEW r \in Senders, NEW h \in Nat PROVE Owner(r, h)'
  <2>1. accepted(r, h)' <=> accepted(r, h) \/ (r = m.s /\ h = m.gen)
    BY <1>1, <1>2 DEF accepted
  <2> QED
    BY Zenon, <1>1, <1>2, <2>1, OwnerMoves
<1>5. chain' \in [Senders -> Nat]
  BY <1>1, <1>2 DEF IInv, Types, get_message_key
<1> QED
  BY <1>1, <1>2, <1>3, <1>4, <1>5 DEF IInv, Types

(* A refused message takes its key with it. *)
LEMMA ExpiredPreserves ==
  ASSUME IInv, NEW m \in net, decrypt_expired(m)
  PROVE  IInv'
<1>1. m.s \in Senders /\ m.gen \in Nat
  BY DEF IInv, Types, Sent
<1>2. /\ get_message_key(m.s, m.gen) /\ got' = got /\ epoch' = epoch /\ again' = again
      /\ gone' = gone \cup evicted(m.s, m.gen) \cup {<<m.s, m.gen>>}
      /\ net' = net /\ sender_epoch' = sender_epoch /\ own' = own
  BY DEF decrypt_expired
<1>3. ASSUME NEW r \in Senders, NEW h \in Nat PROVE Owner(r, h)'
  <2>1. accepted(r, h)' <=> accepted(r, h)
    BY <1>2 DEF accepted
  <2> QED
    BY Zenon, <1>1, <1>2, <2>1, OwnerMoves
<1>4. chain' \in [Senders -> Nat]
  BY <1>1, <1>2 DEF IInv, Types, get_message_key
<1> QED
  BY Zenon, <1>2, <1>3, <1>4 DEF IInv, Types

(* Keys move only with the chains, the cache and what is accepted. *)
LEMMA KeysAtRest ==
  ASSUME IInv, UNCHANGED <<epoch, chain, skipped, got, gone, again>>, Types'
  PROVE  IInv'
<1>1. ASSUME NEW s \in Senders, NEW g \in Nat PROVE Owner(s, g)'
  <2>1. Owner(s, g)
    BY Zenon DEF IInv
  <2>2. accepted(s, g)' <=> accepted(s, g)
    BY Zenon DEF accepted
  <2> QED
    BY Zenon, <2>1, <2>2 DEF Owner
<1> QED
  BY Zenon, <1>1 DEF IInv

(* Every step keeps the inductive invariant. *)
LEMMA StepPreserves == IInv /\ [Next]_vars => IInv'
<1> SUFFICES ASSUME IInv, [Next]_vars PROVE IInv'
  OBVIOUS
<1>1. ASSUME NEW s \in Senders, NEW timed \in BOOLEAN, encrypt(s, timed) PROVE IInv'
  <2> DEFINE m == [s |-> s, epoch |-> sender_epoch[s], gen |-> own[s], timed |-> timed]
  <2>1. m \in Sent
    BY DEF IInv, Types, Sent
  <2>2. /\ net' = net \cup {m} /\ own' = [own EXCEPT ![s] = @ + 1]
        /\ UNCHANGED <<sender_epoch, epoch, chain, skipped, got, gone, again>>
    BY Zenon, <1>1 DEF encrypt
  <2> HIDE DEF m
  <2>3. Types'
    BY <2>1, <2>2 DEF IInv, Types
  <2> QED
    BY Zenon, <2>2, <2>3, KeysAtRest
<1>2. ASSUME NEW m \in net, decrypt(m) PROVE IInv'
  BY <1>2, DecryptPreserves
<1>3. ASSUME NEW m \in net, decrypt_expired(m) PROVE IInv'
  BY <1>3, ExpiredPreserves
<1>4. ASSUME NEW m \in net, lose(m) PROVE IInv'
  <2>1. UNCHANGED <<sender_epoch, own, net, epoch, chain, skipped, got, gone, again>>
    BY Zenon, <1>4 DEF lose
  <2>2. Types'
    BY Zenon, <2>1 DEF IInv, Types
  <2> QED
    BY Zenon, <2>1, <2>2, KeysAtRest
<1>5. ASSUME NEW s \in Senders, sender_next_epoch(s) PROVE IInv'
  <2>1. own' \in [Senders -> Nat] /\ sender_epoch' \in [Senders -> Nat]
    BY <1>5 DEF sender_next_epoch, IInv, Types
  <2>2. UNCHANGED <<net, epoch, chain, skipped, got, gone, again>>
    BY Zenon, <1>5 DEF sender_next_epoch
  <2>3. Types'
    BY Zenon, <2>1, <2>2 DEF IInv, Types
  <2> QED
    BY Zenon, <2>2, <2>3, KeysAtRest
<1>6. CASE next_epoch
  <2>1. ASSUME NEW s \in Senders, NEW g \in Nat PROVE Owner(s, g)'
    <3>1. ~accepted(s, g)'
      BY <1>6 DEF next_epoch, accepted, IInv, Types, Sent
    <3> QED
      BY <1>6, <3>1 DEF next_epoch, Owner
  <2>2. Types' /\ (\A m \in got : m.epoch <= epoch)' /\ again' = {}
    BY <1>6 DEF next_epoch, IInv, Types, Sent
  <2> QED
    BY <2>1, <2>2 DEF IInv
<1>7. CASE reload
  <2>1. ASSUME NEW s \in Senders, NEW g \in Nat PROVE Owner(s, g)'
    <3>1. (accepted(s, g)' <=> accepted(s, g)) /\ Owner(s, g)
      BY <1>7 DEF reload, accepted, IInv
    <3> QED
      BY Zenon, <1>7, <3>1 DEF reload, Owner
  <2> QED
    BY Zenon, <1>7, <2>1 DEF reload, IInv, Types
<1>8. CASE UNCHANGED vars
  <2>1. UNCHANGED <<sender_epoch, own, net, epoch, chain, skipped, got, gone, again>>
    BY Zenon, <1>8 DEF vars
  <2>2. Types'
    BY Zenon, <2>1 DEF IInv, Types
  <2> QED
    BY Zenon, <2>1, <2>2, KeysAtRest
<1> QED
  BY Zenon, <1>1, <1>2, <1>3, <1>4, <1>5, <1>6, <1>7, <1>8 DEF Next, Step, delivery

(* decrypt accepts no message a second time, whatever is delivered again,   *)
(* cached, evicted, sealed and restored in between.                         *)
THEOREM NoMessageTwice == Spec => []AcceptedOnce
<1>1. IInv => AcceptedOnce
  BY DEF IInv, AcceptedOnce
<1> QED
  BY InitInv, StepPreserves, <1>1, PTL DEF Spec

(* get_message_key, enforce_cache_limit and the sealed state lose no key    *)
(* unaccounted and keep none of a message that was accepted.                *)
THEOREM NoKeyForgotten == Spec => []GenerationsAccounted
<1>1. IInv => GenerationsAccounted
  <2> SUFFICES ASSUME IInv, NEW s \in Senders, NEW g \in 0..MaxGeneration - 1
      PROVE IF g < chain[s]
            THEN /\ accepted(s, g) \/ <<s, g>> \in skipped \/ <<s, g>> \in gone
                 /\ ~(accepted(s, g) /\ <<s, g>> \in skipped)
                 /\ ~(accepted(s, g) /\ <<s, g>> \in gone)
                 /\ ~(<<s, g>> \in skipped /\ <<s, g>> \in gone)
            ELSE ~accepted(s, g) /\ <<s, g>> \notin skipped \cup gone
    BY Zenon DEF GenerationsAccounted
  <2>1. g \in Nat
    BY SenderKeysAssumption
  <2>2. Owner(s, g)
    BY <2>1 DEF IInv
  <2> QED
    BY <2>2 DEF Owner
<1> QED
  BY InitInv, StepPreserves, <1>1, PTL DEF Spec

=============================================================================
