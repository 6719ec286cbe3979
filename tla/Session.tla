------------------------------- MODULE Session -------------------------------
(***************************************************************************)
(* The 1:1 session of src/src/protocol/session.rs: two endpoints that      *)
(* share a root key after the handshake, each with a sending chain, a      *)
(* receiving chain, a cache of skipped message keys, a cache of old        *)
(* metadata keys and a replay cache, exchanging SecureEnvelopes over a     *)
(* network that may lose, duplicate, delay, reorder or damage them.        *)
(*                                                                         *)
(* Every public operation runs under the session's mutex, so it is one     *)
(* action.  The HKDF output of one ratchet step (root, chain and metadata  *)
(* key) is one term: the sequence of ratchet contributions mixed in so     *)
(* far.  The X25519 key pair and the ML-KEM key pair of an endpoint are    *)
(* always replaced together and are one key identity <<owner, number>>.    *)
(* AEAD opening succeeds exactly when the terms agree and nothing was      *)
(* damaged on the way.                                                     *)
(***************************************************************************)
EXTENDS Integers, FiniteSets, Sequences

CONSTANTS
  Initiator, Responder,    \* the two endpoints
  MaxMessagesPerChain,     \* ProtocolState.max_messages_per_chain
  MaxNonceCounter,         \* MAX_NONCE_COUNTER
  MaxSkippedMessageKeys,   \* MAX_SKIPPED_MESSAGE_KEYS
  MaxCachedMetadataKeys,   \* MAX_CACHED_METADATA_KEYS
  MaxKeyEpochAge,          \* MAX_METADATA_KEY_EPOCH_AGE, MAX_SKIPPED_KEY_EPOCH_AGE
  MaxSeenNonces,           \* MAX_SEEN_NONCES
  MaxTotalMessages,        \* bound: the u64 message counters stop here
  MaxSent                  \* bound: how many messages each endpoint sends

ASSUME EndpointsDiffer == Initiator # Responder

ASSUME LimitsAssumption ==
  /\ MaxMessagesPerChain \in Nat \ {0}
  /\ MaxNonceCounter \in Nat
  /\ MaxMessagesPerChain <= MaxNonceCounter
  /\ MaxSkippedMessageKeys \in Nat
  /\ MaxCachedMetadataKeys \in Nat
  /\ MaxKeyEpochAge \in Nat
  /\ MaxKeyEpochAge <= MaxCachedMetadataKeys
  /\ MaxSeenNonces \in Nat
  /\ MaxTotalMessages \in Nat

VARIABLES
  session,    \* session[p]: the SessionInner of endpoint p
  network,    \* every SecureEnvelope an encrypt call has returned
  accepted    \* history: accepted[p] = the <<epoch, index>> p has decrypted

vars == <<session, network, accepted>>

Peers == {Initiator, Responder}
Peer(p) == IF p = Initiator THEN Responder ELSE Initiator

Keys == Peers \X Nat
Steps == [new : Keys, to : Keys]
Secrets == Seq(Steps)
MessageIds == Nat \X Nat

\* Saturating subtraction of unsigned integers.
SatSub(a, b) == IF a >= b THEN a - b ELSE 0

\* derive_key_bytes over DH(new, to), the ML-KEM secret and the new public key.
Kdf(root, new, to) == Append(root, [new |-> new, to |-> to])

-----------------------------------------------------------------------------
(* The state after a handshake: both endpoints hold the same root key, the *)
(* initiator's sending chain is the responder's receiving chain.           *)

NewSession(p) ==
  [ destroyed            |-> FALSE,
    root_key             |-> << >>,
    send_chain           |-> << >>,
    send_index           |-> 0,
    send_epoch           |-> 0,
    recv_chain           |-> << >>,
    recv_index           |-> 0,
    recv_epoch           |-> 0,
    dh_local             |-> <<p, 0>>,
    dh_remote            |-> <<Peer(p), 0>>,
    nonce                |-> [prefix |-> <<p, 0>>, counter |-> 0],
    skipped_message_keys |-> {},
    cached_metadata_keys |-> {},
    seen_payload_nonces  |-> << >>,
    send_ratchet_pending |-> FALSE,
    total_sent           |-> 0,
    total_received       |-> 0 ]

Init ==
  /\ session = [p \in Peers |-> NewSession(p)]
  /\ network = {}
  /\ accepted = [p \in Peers |-> {}]

-----------------------------------------------------------------------------
(* Bounded caches.  The BTreeMaps are ordered by (epoch, index) and lose   *)
(* their smallest keys first.                                              *)

KeyBefore(a, b) == a[1] < b[1] \/ (a[1] = b[1] /\ a[2] < b[2])
EpochBefore(a, b) == a[1] < b[1]

\* What pop_first leaves of S once at most n entries remain.
Newest(S, n, Before(_, _)) ==
  {k \in S : Cardinality({j \in S : Before(k, j)}) < n}

evict_aged_skipped_keys(s) ==
  {k \in s.skipped_message_keys : k[1] >= SatSub(s.recv_epoch, MaxKeyEpochAge)}

reserve_skipped_capacity(s, needed) ==
  Newest(evict_aged_skipped_keys(s), MaxSkippedMessageKeys - needed, KeyBefore)

enforce_cache_limit(s) ==
  Newest(evict_aged_skipped_keys(s), MaxSkippedMessageKeys, KeyBefore)

\* Runs before the caller increments the receive epoch.
enforce_metadata_cache_limit(cache, recv_epoch) ==
  Newest({k \in cache : k[1] >= SatSub(recv_epoch, MaxKeyEpochAge)},
         MaxCachedMetadataKeys, EpochBefore)

\* Mutant: the limit is compared before the nonce is added.
remember_one_more(seen, nonce) ==
  Append(IF Len(seen) > MaxSeenNonces THEN Tail(seen) ELSE seen, nonce)

remember_seen_payload_nonce(seen, nonce) ==
  LET longer == Append(seen, nonce)
  IN  IF Len(longer) > MaxSeenNonces THEN Tail(longer) ELSE longer

-----------------------------------------------------------------------------
(* Sending.                                                                *)

send_ratchet_rotation_needed(s) ==
  s.send_ratchet_pending \/ s.send_index >= MaxMessagesPerChain

\* Mutant: the counter restarts under the old prefix.
rotate_keeps_prefix(s, k) ==
  LET root == Kdf(s.root_key, k, s.dh_remote)
  IN  [s EXCEPT !.root_key = root, !.send_chain = root, !.send_index = 0,
                !.send_epoch = @ + 1, !.dh_local = k,
                !.send_ratchet_pending = FALSE, !.nonce.counter = 0]

\* The rotating half of maybe_rotate_send_ratchet, with fresh key pair k.
rotate_send_ratchet(s, k) ==
  LET root == Kdf(s.root_key, k, s.dh_remote)
  IN  [s EXCEPT !.root_key = root,
                !.send_chain = root,
                !.send_index = 0,
                !.send_epoch = @ + 1,
                !.dh_local = k,
                !.send_ratchet_pending = FALSE,
                !.nonce = [prefix |-> k, counter |-> 0]]

maybe_rotate_send_ratchet(s, k) ==
  IF send_ratchet_rotation_needed(s) THEN rotate_send_ratchet(s, k) ELSE s

\* next_send_message_key followed by the nonce generator's next.
take_send_key(s) ==
  [s EXCEPT !.send_index = @ + 1, !.nonce.counter = @ + 1]

\* Every rotation draws fresh keys; a failed rotation publishes nothing, so
\* the number of the epoch names the key pair it starts with.
FreshKey(p) == <<p, session[p].send_epoch + 1>>

\* The envelope built from the state before (s) and after (r) the rotation.
\* dh_public_key and previous_chain_length are read only when ratchet is set.
Envelope(p, s, r) ==
  [ from                  |-> p,
    ratchet               |-> send_ratchet_rotation_needed(s),
    ratchet_epoch         |-> r.send_epoch,
    dh_public_key         |-> r.dh_local,
    previous_chain_length |-> IF send_ratchet_rotation_needed(s)
                              THEN s.send_index ELSE 0,
    chain                 |-> r.send_chain,
    message_index         |-> r.send_index,
    payload_nonce         |-> [prefix  |-> r.nonce.prefix,
                               counter |-> r.nonce.counter,
                               index   |-> r.send_index] ]

can_encrypt(s) ==
  /\ ~s.destroyed
  /\ s.total_sent < MaxTotalMessages

encrypt(p) ==
  LET s == session[p]
      r == maybe_rotate_send_ratchet(s, FreshKey(p))
  IN  /\ can_encrypt(s) /\ s.total_sent < MaxSent[p]
      /\ r.nonce.counter < MaxNonceCounter
      /\ session' = [session EXCEPT ![p] =
                       [take_send_key(r) EXCEPT !.total_sent = @ + 1]]
      /\ network' = network \cup {Envelope(p, s, r)}
      /\ UNCHANGED accepted

\* Mutant: a failed rotation only takes its chain progress back.
rollback_progress_only(s, t) ==
  [t EXCEPT !.send_chain = s.send_chain,
            !.send_index = s.send_index,
            !.nonce      = s.nonce]

\* SendRatchetSnapshot::restore puts the ProtocolState and both private key
\* handles back; SendProgressSnapshot::restore only the chain and the nonce.
rollback_send_encrypt_state(s, t) ==
  IF send_ratchet_rotation_needed(s)
  THEN [s EXCEPT !.skipped_message_keys = t.skipped_message_keys,
                 !.cached_metadata_keys = t.cached_metadata_keys,
                 !.seen_payload_nonces  = t.seen_payload_nonces]
  ELSE [t EXCEPT !.send_chain = s.send_chain,
                 !.send_index = s.send_index,
                 !.nonce      = s.nonce]

\* An encrypt call that fails after the key and nonce were taken (entropy,
\* AEAD, clock) or because the nonce counter is exhausted.
encrypt_fails(p) ==
  LET s == session[p]
      t == take_send_key(maybe_rotate_send_ratchet(s, FreshKey(p)))
  IN  /\ can_encrypt(s)
      /\ session' = [session EXCEPT ![p] = rollback_send_encrypt_state(s, t)]
      /\ UNCHANGED <<network, accepted>>

-----------------------------------------------------------------------------
(* Receiving.                                                              *)

skip_old_chain_keys(s, previous_chain_length) ==
  IF s.recv_index >= previous_chain_length
  THEN s
  ELSE [s EXCEPT
         !.skipped_message_keys =
            reserve_skipped_capacity(s, previous_chain_length - s.recv_index)
              \cup ({s.recv_epoch} \X (s.recv_index .. previous_chain_length - 1)),
         !.recv_index = previous_chain_length]

apply_recv_ratchet(s, m) ==
  LET k    == skip_old_chain_keys(s, m.previous_chain_length)
      root == Kdf(k.root_key, m.dh_public_key, k.dh_local)
      t    == [k EXCEPT
                 !.cached_metadata_keys = enforce_metadata_cache_limit(
                    @ \cup {<<k.recv_epoch, k.recv_chain>>}, k.recv_epoch),
                 !.root_key = root,
                 !.recv_chain = root,
                 !.recv_index = 0,
                 !.recv_epoch = @ + 1,
                 !.dh_remote = m.dh_public_key,
                 !.send_ratchet_pending = TRUE]
  IN  [t EXCEPT !.skipped_message_keys = enforce_cache_limit(t)]

\* The structural checks decrypt makes before it touches the state.
admissible(s, m) ==
  /\ ~s.destroyed
  /\ s.total_received < MaxTotalMessages
  /\ IF m.ratchet
     THEN /\ m.ratchet_epoch = s.recv_epoch + 1
          /\ m.previous_chain_length <= MaxMessagesPerChain
          /\ SatSub(m.previous_chain_length, s.recv_index) <= MaxSkippedMessageKeys
     ELSE m.ratchet_epoch <= s.recv_epoch

\* The state the envelope is opened in.
candidate(s, m) == IF m.ratchet THEN apply_recv_ratchet(s, m) ELSE s

is_old_epoch(c, m) == m.ratchet_epoch < c.recv_epoch
MessageId(m) == <<m.ratchet_epoch, m.message_index>>

metadata_opens(c, m) ==
  IF is_old_epoch(c, m)
  THEN <<m.ratchet_epoch, m.chain>> \in c.cached_metadata_keys
  ELSE c.recv_chain = m.chain

\* try_skipped_key for an old epoch, get_recv_message_key for the current one.
from_skipped(c, m) == is_old_epoch(c, m) \/ m.message_index < c.recv_index

\* Mutant: a passed message needs no cached key.
message_key_always_available(c, m) ==
  from_skipped(c, m) \/ m.message_index - c.recv_index <= MaxSkippedMessageKeys

message_key_available(c, m) ==
  IF from_skipped(c, m)
  THEN MessageId(m) \in c.skipped_message_keys
  ELSE m.message_index - c.recv_index <= MaxSkippedMessageKeys

\* Mutant: the keys of a gap are not cached.
get_recv_message_key_drops_gap(c, m) ==
  IF from_skipped(c, m)
  THEN [c EXCEPT !.skipped_message_keys = @ \ {MessageId(m)}]
  ELSE [c EXCEPT !.recv_index = m.message_index + 1]

get_recv_message_key(c, m) ==
  IF from_skipped(c, m)
  THEN [c EXCEPT !.skipped_message_keys = @ \ {MessageId(m)}]
  ELSE [c EXCEPT
         !.skipped_message_keys =
            reserve_skipped_capacity(c, m.message_index - c.recv_index)
              \cup ({c.recv_epoch} \X (c.recv_index .. m.message_index - 1)),
         !.recv_index = m.message_index + 1]

\* Everything decrypt checks up to the payload AEAD.
key_obtained(s, m) ==
  LET c == candidate(s, m)
  IN  /\ admissible(s, m)
      /\ metadata_opens(c, m)
      /\ m.message_index < MaxMessagesPerChain
      /\ \A i \in DOMAIN c.seen_payload_nonces :
            c.seen_payload_nonces[i] # m.payload_nonce
      /\ message_key_available(c, m)

decrypt(p, m) ==
  LET s == session[p]
      t == get_recv_message_key(candidate(s, m), m)
  IN  /\ m.from = Peer(p)
      /\ key_obtained(s, m)
      /\ session' = [session EXCEPT ![p] =
           [t EXCEPT !.seen_payload_nonces = remember_seen_payload_nonce(@, m.payload_nonce),
                     !.send_ratchet_pending = TRUE,
                     !.total_received = @ + 1]]
      /\ accepted' = [accepted EXCEPT ![p] = @ \cup {MessageId(m)}]
      /\ UNCHANGED network

\* Mutant: the candidate state stays.
rollback_nothing(s, t) == t

\* rollback_ratchet: the snapshot holds the ProtocolState, both key caches
\* and the pending flag; the replay cache is not part of it.
rollback_ratchet(s, t) ==
  [s EXCEPT !.seen_payload_nonces = t.seen_payload_nonces]

\* The metadata does not open (wrong key, damaged envelope), the nonce was
\* seen before, or no message key is left.
reject_before_payload(s, m) ==
  IF m.ratchet THEN rollback_ratchet(s, candidate(s, m)) ELSE s

\* The payload AEAD or the padding fails after the message key was taken.
\* Keys that reserve_skipped_capacity evicted on the way are not put back.
reject_payload(s, m) ==
  LET t == get_recv_message_key(candidate(s, m), m)
  IN  CASE m.ratchet -> rollback_ratchet(s, t)
        [] ~m.ratchet /\ from_skipped(s, m) ->
             [t EXCEPT !.skipped_message_keys = @ \cup {MessageId(m)}]
        [] OTHER ->
             [t EXCEPT
               !.skipped_message_keys =
                  @ \ ({s.recv_epoch} \X (s.recv_index .. m.message_index - 1)),
               !.recv_index = s.recv_index]

\* A call that fails before the payload is reached.  damaged: the metadata,
\* the ratchet header or the associated data changed on the way.
decrypt_rejects(p, m, damaged) ==
  LET s == session[p]
  IN  /\ m.from = Peer(p)
      /\ IF damaged THEN admissible(s, m) ELSE ~key_obtained(s, m)
      /\ session' = [session EXCEPT ![p] =
           IF admissible(s, m) THEN reject_before_payload(s, m) ELSE s]
      /\ UNCHANGED <<network, accepted>>

\* A call whose payload was damaged on the way.
decrypt_payload_fails(p, m) ==
  LET s == session[p]
  IN  /\ m.from = Peer(p)
      /\ key_obtained(s, m)
      /\ session' = [session EXCEPT ![p] = reject_payload(s, m)]
      /\ UNCHANGED <<network, accepted>>

-----------------------------------------------------------------------------
\* destroy wipes the keys and clears the caches; version 0 marks the session.
\* Every operation checks the version first, so the wiped keys, kept here, are
\* never read again.
destroy(p) ==
  /\ ~session[p].destroyed
  /\ session' = [session EXCEPT ![p] =
       [@ EXCEPT !.destroyed = TRUE,
                 !.skipped_message_keys = {},
                 !.cached_metadata_keys = {},
                 !.seen_payload_nonces = << >>]]
  /\ UNCHANGED <<network, accepted>>

-----------------------------------------------------------------------------
(* What from_state_internal requires of an exported session.  Key sizes,   *)
(* the HMAC and the identity binding are those the export wrote.           *)

importable_chains(s) ==
  /\ s.send_index <= MaxMessagesPerChain
  /\ s.recv_index <= MaxMessagesPerChain
  /\ s.nonce.counter <= MaxNonceCounter

importable_skipped_keys(s) ==
  /\ Cardinality(s.skipped_message_keys) <= MaxSkippedMessageKeys
  /\ \A k \in s.skipped_message_keys : k[1] <= s.recv_epoch

importable_metadata_keys(s) ==
  /\ Cardinality(s.cached_metadata_keys) <= MaxCachedMetadataKeys
  /\ \A k, l \in s.cached_metadata_keys :
       k[1] <= s.recv_epoch /\ (k[1] = l[1] => k = l)

\* rebuild_seen_payload_nonce_cache remembers the exported nonces in order; it
\* drops repetitions and what exceeds the limit.
rebuild_loses_nothing(seen) ==
  /\ Len(seen) <= MaxSeenNonces
  /\ \A i, j \in DOMAIN seen : seen[i] = seen[j] => i = j

Next ==
  \E p \in Peers :
    \/ encrypt(p)
    \/ encrypt_fails(p)
    \/ destroy(p)
    \/ \E m \in network :
         \/ decrypt(p, m)
         \/ \E damaged \in BOOLEAN : decrypt_rejects(p, m, damaged)
         \/ decrypt_payload_fails(p, m)

Spec == Init /\ [][Next]_vars

\* The relay keeps an envelope until the recipient acknowledges it
\* (PendingEventStore), so an envelope that would be accepted is not withheld
\* for ever.
Delivery(p) == \E m \in network : decrypt(p, m)

FairSpec == Spec /\ \A p \in Peers : WF_vars(Delivery(p))

-----------------------------------------------------------------------------
(* Properties.                                                             *)

Sessions ==
  [ destroyed            : BOOLEAN,
    root_key             : Secrets,
    send_chain           : Secrets,
    send_index           : Nat,
    send_epoch           : Nat,
    recv_chain           : Secrets,
    recv_index           : Nat,
    recv_epoch           : Nat,
    dh_local             : Keys,
    dh_remote            : Keys,
    nonce                : [prefix : Keys, counter : Nat],
    skipped_message_keys : SUBSET MessageIds,
    cached_metadata_keys : SUBSET (Nat \X Secrets),
    seen_payload_nonces  : Seq([prefix : Keys, counter : Nat, index : Nat]),
    send_ratchet_pending : BOOLEAN,
    total_sent           : Nat,
    total_received       : Nat ]

Envelopes ==
  [ from                  : Peers,
    ratchet               : BOOLEAN,
    ratchet_epoch         : Nat,
    dh_public_key         : Keys,
    previous_chain_length : Nat,
    chain                 : Secrets,
    message_index         : Nat,
    payload_nonce         : [prefix : Keys, counter : Nat, index : Nat] ]

\* Every field of SessionInner and of SecureEnvelope keeps its type.
TypeOK ==
  /\ session \in [Peers -> Sessions]
  /\ network \in SUBSET Envelopes
  /\ accepted \in [Peers -> SUBSET MessageIds]

\* decrypt never returns the same message twice, whatever is duplicated or
\* reordered and however small the replay cache is.
AtMostOnce ==
  \A p \in Peers : Cardinality(accepted[p]) = session[p].total_received

\* Whatever keys the receiver holds for an epoch are the sender's keys.
KeysAgree ==
  \A p \in Peers, m \in network :
    m.from = Peer(p) =>
      /\ m.ratchet_epoch = session[p].recv_epoch => m.chain = session[p].recv_chain
      /\ \A k \in session[p].cached_metadata_keys :
           m.ratchet_epoch = k[1] => m.chain = k[2]

\* The message lies behind the receiver's position in its chains.
Passed(s, id) ==
  id[1] < s.recv_epoch \/ (id[1] = s.recv_epoch /\ id[2] < s.recv_index)

Forgotten(p, id) ==
  /\ Passed(session[p], id)
  /\ id \notin accepted[p]
  /\ id \notin session[p].skipped_message_keys

SentTo(p) == {MessageId(m) : m \in {n \in network : n.from = Peer(p)}}

\* The epoch of the message is too old, or the peer has sent more messages after
\* it than the cache holds keys.
Outlived(p, id) ==
  \/ session[p].recv_epoch - id[1] > MaxKeyEpochAge
  \/ Cardinality({k \in SentTo(p) : KeyBefore(id, k)}) > MaxSkippedMessageKeys

\* No two envelopes share a message key, and no two share an AEAD nonce.
FreshKeysAndNonces ==
  \A m, n \in network :
    (\/ m.from = n.from /\ m.chain = n.chain /\ m.message_index = n.message_index
     \/ m.payload_nonce = n.payload_nonce)
      => m = n

\* A session exported in any state is accepted by from_state_internal and comes
\* back whole: no index, nonce counter or cache is ever out of the range the
\* import enforces, and the rebuilt replay cache is the exported one.
Importable ==
  \A p \in Peers : LET s == session[p] IN
    ~s.destroyed =>
      /\ importable_chains(s)
      /\ importable_skipped_keys(s)
      /\ importable_metadata_keys(s)
      /\ rebuild_loses_nothing(s.seen_payload_nonces)

\* The nonce budget of a chain never runs out before the chain does.
NonceBudgetSuffices ==
  \A p \in Peers :
    \/ session[p].nonce.counter < MaxNonceCounter
    \/ send_ratchet_rotation_needed(session[p])

\* Each endpoint has rotated its sending chain past what the other accepted.
Crossed == \A p \in Peers : session[p].send_epoch > session[Peer(p)].recv_epoch

\* simultaneous_send_convergence: the next ratchet envelope of the peer is
\* admitted by decrypt and opens, whatever the two endpoints sent meanwhile.
NextRatchetOpens ==
  \A p \in Peers, m \in network :
    LET s == session[p]
    IN  (/\ m.from = Peer(p) /\ m.ratchet
         /\ m.ratchet_epoch = s.recv_epoch + 1
         /\ ~s.destroyed
         /\ s.total_received < MaxTotalMessages)
        => admissible(s, m) /\ metadata_opens(candidate(s, m), m)

\* p's session is the same after a step in which no call of p succeeded, but
\* for skipped keys that are gone.
FailedCallKeeps(p) ==
  LET s == session[p]
      t == session'[p]
  IN  (t.total_sent = s.total_sent /\ t.total_received = s.total_received
        /\ t.destroyed = s.destroyed)
      => \E keys \in SUBSET s.skipped_message_keys :
           t = [s EXCEPT !.skipped_message_keys = keys]

\* A call that fails leaves the session as it was, but for the oldest skipped
\* keys a damaged payload may have pushed out of a full cache.
FailureKeepsState == [][\A p \in Peers : FailedCallKeeps(p)]_vars

Channel == INSTANCE SecureChannel WITH
  sent      <- [p \in Peers |-> SentTo(Peer(p))],
  delivered <- accepted,
  received  <- [p \in Peers |-> session[p].total_received]

\* encrypt and decrypt implement the channel the users see: fresh identities,
\* each decrypted at most once and only if the peer encrypted it; every other
\* step is invisible.
ImplementsChannel == Channel!Spec

\* Of the keys skipped, the caches drop the oldest: a message whose key is gone is
\* older than every message whose key is held.
OldestDropped ==
  \A p \in Peers : \A id \in SentTo(p), k \in session[p].skipped_message_keys :
    Forgotten(p, id) => KeyBefore(id, k)

\* Once the peer has sent its messages each of them is decrypted, unless its key
\* was dropped as it must be, rotations crossed or an endpoint was destroyed; and
\* what reserve_skipped_capacity drops from a full cache is always the oldest.
EventuallyDecrypted ==
  /\ []OldestDropped
  /\ \A p \in Peers :
       <>[](\A id \in SentTo(p) :
              \/ id \in accepted[p]
              \/ Forgotten(p, id) /\ Outlived(p, id)
              \/ Crossed \/ session[p].destroyed)
=============================================================================
