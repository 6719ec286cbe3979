# TLA+ verification of the Aura protocol

This directory holds TLA+ models of the Rust implementation, TLC configurations
that check them on small instances, and proofs that TLAPS checks. Paths below
are relative to the repository (`src/protocol/session.rs` is the crate's file).

## 1. Inventory

| Part | Code | State | Operations | Interacts with |
|---|---|---|---|---|
| Session | `src/protocol/session.rs` | root key, send and receive chain, DH and ML-KEM keys, skipped message keys, old metadata keys, replay cache, nonce state, `send_ratchet_pending` | `encrypt`, `decrypt`, `destroy`, sealed export and restore, TTL | handshake (initial state), relay (delivery), sealed state |
| Nonce generator | `src/protocol/nonce.rs` | prefix, counter, limit | `next`, restore | session |
| Sealed state, slot, counter tracker | `src/api/mod.rs`, `session.rs` | generation, external counters, blob | export, restore, persist | session, group, VoIP |
| Handshake | `src/protocol/handshake.rs` | initiator state, replay reservation | start, process, finish | identity keys, session |
| Identity keys | `src/identity/identity_keys.rs` | pre-key pool, fingerprint caches | replenish, consume, reserve, remember, release, forget, sealed replay state | handshake |
| Group session | `src/protocol/group/` | epoch, tree, sender keys, replay windows, pending state | create, add, remove, update, process commit, external join, encrypt, decrypt | relay, sealed state |
| Ratchet tree | `group/tree.rs`, `tree_kem.rs`, `key_schedule.rs` | nodes, path secrets | add or blank leaf, resolution, encap, decap | group |
| VoIP call | `src/protocol/voip/` | call state, media ratchets, pending rekey, replay windows, consent | frames, rekey, rekey ack, end | relay, sealed state |
| Relay | `src/api/relay.rs` | call records, rosters, pending events | validate, compare-exchange, store, fetch, ack | all clients |
| Attachments | `src/protocol/attachment.rs` | chunk progress | streaming encrypt and decrypt | session |
| Channel messages | `src/protocol/channel.rs` | sequence, rights | post, verify | relay |
| C FFI, Swift | `src/ffi`, `swift` | handles | marshalling | everything |
| Primitives | `src/crypto`, `src/security` | none | AEAD, HKDF, KEM, padding | everything |

What makes each part hard, and what must hold:

* **Session.** Envelopes are lost, duplicated, delayed, reordered and damaged;
  both ends ratchet one shared root key; every call can fail half-way; three
  bounded caches decide what can still be read. Must hold: the two ends agree on
  every key they share, no key or nonce is used twice, no message is accepted
  twice, a failed call leaves no trace, delayed messages stay readable within
  the limits, and the conversation goes on.
* **Sealed state.** A generation is taken under the lock and given back under
  another; blobs, trackers and envelopes leave in different orders; crashes.
  Must hold: generations of live exports differ; a restored state is never older
  than one already accepted; nothing sent is forgotten.
* **Handshake and identity.** Duplicate inits in parallel, an external replay
  guard that fails, bounded caches. Must hold: one init makes at most one
  session, one pre-key serves at most one session, reservations are returned.
* **Group.** Two commits for one epoch, late messages, welcome racing commit.
  Must hold: members in the same epoch agree on tree and secrets; a removed
  member learns no later secret; an application message is accepted once.
* **VoIP and relay calls.** Concurrent signals on one record, lost rekey acks,
  both sides rekeying, expiry. Must hold: call records move only along the life
  cycle, one rekey at a time, the peers' keys meet again, frames accepted once.
* **Relay delivery.** A commit is installed by its author before the relay has
  decided about it; events come late and again. Must hold: an accepted message
  reaches the members of its epoch and nobody else; stored events lead every
  client to where the roster says.
* **Attachments, channels.** Chunks and posts out of order, repeated, mixed up
  between files, devices and keys; two downloads that share one progress record.
* **C FFI.** Threads that share a handle, callbacks that call back, panics. Must
  hold: one call at a time, no flag left up, nothing answered from torn state.
* **Secret sharing, padding.** Table arithmetic and masks whose errors show for
  single bytes only.

`PROJECT.json` lists these hazards with their lines.

## 2. Modules

| Module | Models | Checked by | Proofs |
|---|---|---|---|
| `Session`, `SecureChannel` | the double ratchet and what it promises | `MCSession` | `SessionProofs` |
| `Handshake` | X3DH, pre-keys, replay guard, sealed replay state | `MCHandshake` | `HandshakeProofs` |
| `SealedState` | sealed export, tracker, slot, crash and restore | `MCBuildingBlocks` | `StoredProofs` |
| `CallLifecycle`, `RelayCalls`, `CallRecord` | the relay's call store and the atomic record it implements | `MCRelayCalls` | `StoredProofs` |
| `VoipCall` | two call sessions and the relay between them | `MCRatchets`, `MCVoipCall` | `RatchetProofs` |
| `Group`, `TreeMath` | membership, commits, TreeKEM, roster; tree arithmetic | `MCGroup`, `MCBuildingBlocks` | |
| `RelayDelivery` | group traffic through roster and mailboxes | `MCDelivery` | `RelayMailProofs`, `RelayTrafficProofs`, `RelayDeliveryProofs` |
| `SenderKeys` | sender chains, skipped keys, replay windows | `MCRatchets` | `RatchetProofs` |
| `FfiHandle` | the life of a call through the C interface | `MCFfiHandle` | `BuildingBlocksProofs` |
| `Attachment`, `ChunkProgress` | file upload and download; resume record | `MCDelivery`, `MCBuildingBlocks` | |
| `ReplayWindow` | the frame replay bitmap | `MCBuildingBlocks` | `BuildingBlocksProofs` |
| `EpochRotation` | threads that rotate an epoch in time | `MCBuildingBlocks` | `HandshakeProofs` |
| `Channel` | channel keys and posts | `MCBuildingBlocks` | `BuildingBlocksProofs` |
| `GroupContent` | message policies, annotations, franking | `MCBuildingBlocks` | `BuildingBlocksProofs` |
| `Gf256`, `Shamir` | field tables and secret sharing | `MCBuildingBlocks` | |
| `Padding` | message padding | `MCBuildingBlocks` | |

Three conventions hold everywhere. Keys, MACs and ciphertexts are terms: two
are equal exactly when what went into them is, and a ciphertext opens under its
own key and associated data only. Definitions carry the names of the functions
they translate, and `PROJECT.json` maps each to its lines. A definition marked
*Defect* or *Mutant* is a wrong variant of the definition after it; nothing uses
it, and putting it in the place of the right one makes TLC report the property
it is meant for.

## 3. The session

`Session.tla` models two endpoints and the network between them.

| TLA+ | Code |
|---|---|
| `session[p]` | `SessionInner` of endpoint `p` with its `ProtocolState` |
| `network` | every envelope an `encrypt` call returned; nothing is ever taken out, so an envelope may arrive never, late, in any order and again |
| `accepted[p]` | history: identities `<<epoch, index>>` that `decrypt` returned |
| `encrypt`, `encrypt_fails` | `encrypt_internal` and its error paths with `rollback_send_encrypt_state` |
| `decrypt` | `decrypt` to its end |
| `decrypt_rejects` | every rejection up to the message key, with `rollback_ratchet` |
| `decrypt_payload_fails` | payload or padding failure, three ways to roll back |
| `destroy` | `destroy` |

Helpers carry the names of the functions they translate. All public operations
hold the session's mutex from start to end, so each is one action.

Abstractions:

* *Keys are terms.* A root, chain and metadata key come out of one HKDF call; the
  model keeps one term, the sequence of ratchet contributions. A message key is
  a chain term with an index. Hash collisions do not exist.
* *Key pairs.* X25519 and ML-KEM keys of an endpoint change together: one
  identity `<<owner, number>>`. A failed rotation publishes nothing, so its
  number may be used again.
* *AEAD* opens exactly when key and data agree. The parameter `damaged` and the
  action `decrypt_payload_fails` stand for envelopes changed on the way, before
  and after the metadata.
* *Time.* An expired session refuses every call, which is a session that takes
  no further step; the safety properties cover it. The liveness run has no
  expiry.
* *Constants.* Handshakes give both ends the same chain limit
  (`handshake.rs:950`) and `MAX_NONCE_COUNTER`; `LimitsAssumption` states the
  relations between the limits that the source's constants satisfy.
* Left out: event callbacks, the stalling counter that only feeds one,
  envelope type, id and correlation id, allocation failure inside a rollback.

`MaxTotalMessages` stands where the code's `u64` counters would overflow; it
is the bound that makes the state space finite.

`SecureChannel.tla` is the abstract specification: a message handed over gets a
fresh identity, and the other end receives it at most once and only if it was
sent. `Session!ImplementsChannel` maps identities sent, accepted identities and
the number of successful `decrypt` calls to its variables.

## 4. The relay's call records

`process_voip_signal` (`src/api/relay.rs`) may run in several relay workers at
once. It reads the call record, decides, and writes with
`compare_exchange_call`, at most eight times. The store is external: `find_call`
and the exchange are atomic, nothing else is.

| TLA+ | Code |
|---|---|
| `CallLifecycle` | `ActiveCall`, `is_expired`, the checks of each signal type (`allowed`) and the record written (`after`), as operators |
| `RelayCalls` | `store`, the clock, and `worker[w]`: the locals of a running call |
| `begin`, `insert` | entry with the timestamp taken; the Init branch |
| `find`, `swap`, `retry` | one round of the retry loop, split where another worker may run |
| `store_fails` | the store returns an error |
| `CallRecord` | abstract: `Register`, `Apply`, `Expire`, one signal at a time |

An Option is a set with at most one element. One call id is enough since
records of different calls never meet. `last`, `decisions` and `since` are history:
the decision committed last, how many there were, and how many when a call began.
Sizes and byte lengths checked by `validate_voip_envelope` are left out; what
passes is a member of `Signals`. The state `Ended` is never stored. A worker may
hold an old timestamp, so `touch` may set `last_activity_at` back: this is in the
model. A record that expired stays stored until a participant's next signal.

## 5. The other parts

### Sealed state

`SealedState` has several exporting threads, the tracker (`&mut`, so one thread at
a time has it), the host's storage and a crash at any step. An export takes a
generation and a copy under the lock, seals without it, and takes the lock again
to give the generation back after a failure: three actions. A host that uses the
slot writes one record; the other two kinds of host write blob and tracker apart,
one the blob first, one the tracker first, and may die in between. A state is the
number of envelopes sent. `lag` lets the storage of a host with separate blobs
serve an older completed snapshot; it serves neither half-written ones nor an
older tracker, and a slot always comes back as it was last written. A slot, or a
blob with its tracker, that is replaced by an older one cannot be told from a
legitimate one (`SECURITY.md:34`); that is outside the model. That a snapshot
restores the whole session is the invariant `Importable` of `Session`, the checks
of `from_sealed_state` one by one.

### Handshake

Calls of one `HandshakeResponder` instance are serial; instances meet in the
`HandshakeInitReplayGuard`, which is external and may fail at every call. The
steps of `process` are its calls to the guard. Failures of field validation,
signatures and key derivation are one action, `process_fails`. A local
reservation that returns an error (`reserve_refused`: poisoned lock, or
`MAX_INFLIGHT_HANDSHAKE_INITS` reached) returns before an object owns the guard's
reservation, which then stays: `leaked` collects these, the failed releases and
those of calls that a restart ended. A pre-key made by `replenish` gets an
identifier that is neither in the pool nor one of the master seed's. The code draws
32 random bits and compares them with the identifiers it holds
(`identity_keys.rs:565-570`), not with those already consumed; the model assumes
that a draw never hits one of those, without which a restart, which derives the
seed's keys again, could put two keys under one identifier. An init may arrive after
the pool it was made for has changed; the responder then computes another
transcript and refuses it.

### VoIP

`VoipCall` composes two call sessions with the relay's record of `CallLifecycle`.
A root secret is the sequence of exchanges that led to it, a derived key the root
with the `is_caller` flag. A signal is submitted to the relay once and what it
forwards may arrive repeatedly; a frame may arrive late, again or never; in some
scenarios a forwarded signal never arrives (`lose_signal`). Restarts are from the
state just exported, at any time of an active call, also with a rekey pending,
which the restored session has forgotten. Expiry is left to `RelayCalls`. A
behaviour follows one of the `Scenarios`, which say who starts rekeys, whether the
call ends, whether it is restored, how many signals are lost, and how much media
and how many exchanges there are. `ReplayWindow` is the bitmap itself: words,
shifts with carry, bits.

### Groups

`Group` starts from a group whose creator added the others in turn. A commit is a
number that stands for the path secrets drawn; a node's key pair is `<<node,
commit>>`, so a member can open a path secret exactly if it has the pair. Members
commit on any branch; in a setup with `follows_relay` they commit on the relay's
head only, which is the discipline of the client program
(`docs/relay-server.md:79` calls the roster tentative without it). `TreeMath` is
compared with a tree drawn from its definition. `create_commit` works on the
session's own tree, so a call that fails after it began leaves a changed tree
behind (`commit_fails`, `draft`); such a session is out of step with its group,
and `ResolutionCoversMembers` and `MembersKeepUp` speak of commits that were built
on the tree of their epoch. Pre-shared keys, the expiry of external-join
authorizations and the tree and parent hashes are left out.

`RelayDelivery` keeps of a group only who is at which commit, and adds the relay
server of `docs/relay-server.md` ("typical steps"), which is external: validate,
compute recipients, store. A commit and its Welcome are stored in one transaction.
Clients are external too; the model assumes of them that they process their mail
in order and try every event once; that they wait for the relay's answer to a
commit before they make another or read on, hold back what they encrypted after
it, and return to the state before it when refused; and that they pass
`from_welcome_with_min_epoch` one more than the last epoch they installed. A
removed client's session is not ended for it: `process_commit` of its removal
fails and the session stays in its old epoch. Which members cannot open a commit's
path (section 7) is any choice among those that came by a Welcome. Each assumption
is needed: the relay compares epoch numbers, and a message of a refused commit's
epoch would pass.

`SenderKeys` is one receiver with its senders; the window's bitmap is a set. Both
cache limits evict as the code does. A restore is from the state just exported; an
older export of the same group is not covered, there or in the proofs.
`GroupContent` sends one message from every `encrypt_*` function with valid and
invalid arguments, sizes at and above `MAX_GROUP_MESSAGE_SIZE` (`MAX_MESSAGE`)
among them: only the receiver checks the size; the `prev_message_hash` chain is
left out. `EpochRotation` splits `encrypt_with_auto_rotate` at its three
acquisitions of the lock.

### Attachments and channels

The caller of a `StreamingEncryptor` finishes at the end of the file or after a
failed write; a file does not change between retries; a chunk is on disk before
the progress is saved; unwrapped file keys survive a crash of the receiver. The
storage serves any chunk for any index. In `Channel` the server combines fields of
different posts and hands out any blob; which channel key is current is the
caller's decision. Thumbnails, collages and other metadata are stateless checks
and left out.

### C interface

A call occupies a slot `<<thread, depth>>`; a callback's calls are one deeper. The
actions are the steps between which another thread can run: swap of the flag, look
at the `Option`, lock of the mutex, callback, return, panic with unwinding (guards
drop, the mutex is poisoned, the object may be torn). Four getters take a
reference without the flag (`get`): those of a group and
`aura_session_is_expired`. The guarded getters of a session (`read`) enter a
poisoned mutex by `PoisonError::into_inner`; they read fields that are fixed when
the session is made, and `TornNeverAnswers` leaves them out. VoIP sessions use
`into_inner` throughout and identities in their getters; the property does not
speak of them. In `ffi_handle` callbacks use every operation but `get`;
`ffi_reentrant` adds it. `destroy` is left out, since its contract forbids any use
of the handle during and after it, and so are handles without a flag.

### Secret sharing and padding

`Gf256` builds the log and exponent tables as the code does and compares
multiplication and inverse with polynomial arithmetic for all bytes. `Shamir`
splits and reconstructs through the C interface, tags included; shares are
gathered in any order, twice, damaged or from two splits. `Padding` keeps the
widths of the mask arithmetic; `Block = 3` and `Word = 16` stand for 64 and 64.


## 6. Runs

`PROJECT.json` says for every run what it checks, and for every property which
wrong variant of the code TLC must catch. The bounds, and why they suffice:

| Run | Instance | Why it is enough |
|---|---|---|
| `session` | 5 and 3 messages, chains of 2, caches of 2, a replay cache of 1 | a chain ends, every cache overflows, both sides ratchet, a skipped chain outlives its metadata key |
| `session_crossing` | 3 and 3 messages | both sides rotate before either hears of it |
| `relay_calls` | 2 workers, 4 signals, 2 rounds, all timeouts 0, clock 0..1 | an exchange is lost, retried and given up after the last round; a record expires between read and exchange |
| `handshake` | 2 inits of one initiator, 2 instances with a guard or 1 without, window of 1 | the fingerprint window slides, a pre-key is replenished, a call dies after every step |
| `ratchets` | a call: six scenarios of up to 3 frames, 3 exchanges, 1 lost signal and 2 consents, window of 2; sender keys: four extents, up to 5 messages of a sender, caches of 2 and 3, window of 3 | frames fall out of the window; rekeys cross, repeat, are lost and are restored between; both cache limits evict, gaps wider than the limit, two epochs, a restore |
| `voip_restore` | the same scenarios | a rekey of the callee and a restore after it |
| `group` | five setups of 2 to 4 members, up to 5 commits, one restore, one failed commit | a leaf is blanked and filled again, branches diverge, a member stays offline over two commits |
| `group_late_joiner` | 4 users, 4 commits, two committers that follow the relay | a leaf is filled below a key older than its member |
| `delivery` | relay: 3 clients, 3 commits, 1 message, 1 repetition; attachments: 2 files of 3 chunks, 2 threads, 2 crashes or failures | a commit is refused behind another, a client is removed and comes back while its mail waits; a thread overwrites newer progress; every way to declare a size wrongly |
| `ffi_handle`, `ffi_reentrant` | 2 threads, callbacks one deep, 3 calls, a handle of each of the four kinds | a call on every step of another, a nested call on a held handle, a panic at each point |
| `building_blocks` | counters at the word borders, trees of up to 40 leaves, all 256 bytes, buffers of up to 6 bytes, secrets of up to 2 bytes, 3 threads at the rotation threshold; sealed state: 3 threads, 3 envelopes, 4 generations, 2 lags, three kinds of host | every border of the arithmetic, at full width for the bitmap and the field; two exports in flight while a third fails and gives its generation back; a crash between two writes |

Runs have no deadlock check: a conversation, a transfer or a call may simply be
over, and every bound ends the behaviour.

In `ratchets`, `delivery` and `building_blocks` a behaviour takes one part and leaves
the others as they start (variable `part`), so the state spaces add up instead of
multiplying; pure algorithms have no steps, every input is an initial state. The
fairness of a part is that of its module, conjoined with `part` naming it, since
elsewhere its steps are not the behaviour's to take. Symmetry is used in
`building_blocks` only, over the threads of the sealed state, which are
interchangeable; nothing but invariants is checked there.

### Fairness

Every fair specification is the plain one with weak fairness of these steps, and
strong fairness where it says so:

| Module | Fair steps | What in the code justifies it |
|---|---|---|
| `Session` | delivery of an envelope that would be accepted | the relay keeps an event until it is acknowledged (`PendingEventStore`) |
| `RelayCalls` | the next step of a worker inside `process_voip_signal` | a running function goes on; the store answers or returns an error |
| `VoipCall` | the relay forwards, a party takes what was forwarded | the same store |
| `SenderKeys` | delivery of what is not lost | the same store; a loss is final, and counted |
| `Attachment` | unwrapping the key under the right id, making a progress record, the steps of a download thread | the receiver's program goes on; crashes and failures are bounded |
| `RelayDelivery` | the relay serves its queues, a client reads its mail | the same store; nobody is obliged to commit, send or fetch again |
| `FfiHandle` | the library's steps of a call that has begun, the return of a callback; strong fairness of a call's return | a function that is not waiting goes on, and emits finitely many events before it returns; nothing is assumed of new calls |

No fairness is assumed of anything a user decides.

## 7. What the models show about the code

Four runs end in a counterexample and are findings; the properties of the other
runs hold, with these limits, each of which a property's text names:

* **Crossed rotations do not heal** (`session_crossing`). Both ends advance one root
  key; when both rotate before either hears of it, the roots part for good: neither
  can open the other's next envelope, and no call repairs that.
  `EventuallyDecrypted` excepts it.
* **A late joiner falls out** (`group_late_joiner`). A member that joined by a Welcome
  has the key of a node above its leaf only if the member that added it had it, yet
  later path secrets may be encrypted to that node (`tree_kem.rs:292`).
  `ResolutionCoversMembers` excepts this, and `MembersServed` and
  `EventuallyCurrent` except a member so shut out, until it is added again.
* **A restored call may be deaf** (`voip_restore`). `from_sealed_state` derives header
  keys and nonce prefixes by the role in the call (`voip/mod.rs:907-913`), a rekey by
  who started it: after a rekey the callee started, a restored party's keys do not
  match its peer's until the next rekey. `NextFrameAccepted` and `FramesOnce` except
  this (`Mismatched`, and frames whose `hdr` is not their `dir`).
* **A getter in a callback waits for itself** (`ffi_reentrant`). Getters of a group, and
  `aura_session_is_expired`, lock the mutex without the busy flag, and event handlers
  run inside it; `docs/ffi-api.md:172` promises `AURA_ERROR_BUSY` instead of blocking.
  `EveryCallReturns` holds for callbacks that call guarded functions only.
* Rekeys of both sides that the relay lets cross are each answered by the other side,
  and the roots part for good; `RekeysKeepStep` excepts these (`Crossed`). After a rekey
  signal is lost, or a restart forgets a pending rekey, no later rekey completes;
  `RekeyCompletes` excepts these (`Interrupted`).
* A commit that fails half-way leaves its changes in the session's tree, although
  `docs/aura-group-paper.tex:828-833` calls the installation of an epoch transactional;
  what such a session commits next, no other member can process.
* A group message larger than `MAX_GROUP_MESSAGE_SIZE` is encrypted, at the cost of a
  key, and refused by every receiver; `BothSidesAgree` excepts it.
* A failed `decrypt` may cost skipped keys: the rollback restores the position,
  not what the cache evicted. `FailureKeepsState` says so.
* A metadata key is kept one epoch longer than `MAX_KEY_EPOCH_AGE` counts.
* A rekey the callee starts too early stays pending, and the relay forwards a rekey
  of a generation that is complete.
* A pending ReInit is not sealed and is lost on a restore. Members of a group share
  one history only if they follow the relay.
* A disappearing message that is refused as expired has used up its key.
* Marking a chunk twice counts its bytes twice in the progress record.

## 8. Proofs

Each theorem holds for every value of the constants that satisfies the named
assumptions of its module; they say that limits are numbers (not zero where the
code divides or indexes by them) and how the code's constants are ordered. Each
invariant is proved from an inductive one, found and checked with TLC first.

**Session** (`SessionProofs`). `IInv` ties the two ends and the network together:
`ReceiverInv` says how position, skipped keys, metadata keys and replay cache of a
receiver fit what it accepted; `SenderInv` and `NetworkInv` say which envelopes a
sender can have made and with which keys; `AgreementInv` that the roots the ends
have in common are the same. From it: keys agree (`ChainAgreement`), no key or
nonce is used twice (`Freshness`, `NonceBudget`), no message is decrypted twice
(`DecryptsAtMostOnce`), failed calls are atomic (`FailureAtomicity`), and the
session implements `SecureChannel` (`Refinement`). `ExportsImport` shows that
`from_sealed_state` accepts every state a session can be exported in: the caches
stay within the limits that an import checks, which needs a second invariant
about the order and the bounds of the caches.

**Handshake** (`HandshakeProofs`). `IInv` accounts for reservations: a call holds
its message from `reserve` to `commit` or `release`, the guard's reserved set is
what calls hold and what was leaked, and committed and reserved are disjoint. It
gives `GuardAcceptsOnce` and `ReservationsAccountedFor`; that no marker of a failed
call stays (`OnlyAcceptedRemembered`) is left to TLC. `AgreeInv` adds that an
acknowledgement in transit is the answer to an accepted init. `UsedInv` follows one
instance: a pre-key that an accepted init named is not in the pool and its number
is not above the replenish counter, an accepted init is in the fingerprint window
or more than `MaxSeen` acceptances back, and the saved state says the same of
itself, so that a restart keeps it (`AcceptanceUsesUp`). `FreshInv` numbers the
ephemeral keys by the inits sent; with `AgreeInv` it gives `SessionsAreFresh`.

**Sealed state** (`StoredProofs`). Generations are distinct because a failed export
gives its generation back only while it is the last one taken (`GenInv`).
`RollInv` orders the storage: a completed snapshot's counter is at or below the
floor its tracker imposes, counters order states, and the one export that holds
the tracker is newer than all of them, for either order of the host's writes and for
blobs served late. From it `NoRestoreGoesBack`; from `FloorOK`,
which says that the tracker's floor is backed by a snapshot,
`RefusalsAreJustified`.

**Relay calls** (`StoredProofs`). A worker's variables justify the exchange it is
about to try (`Decided`) and the exchanges it lost (`Paid`). Every committed exchange
is then a step of `CallRecord`, and `RekeysSequenced`, `NothingAfterEnd` and
`ExpiryJustified` follow from `CallRecord` alone.

**Relay delivery** (`RelayMailProofs`, `RelayTrafficProofs`, `RelayDeliveryProofs`).
`MembersAreServed` says that for any group and any traffic a message the relay
accepted is for the members of its epoch, all of them and nobody else, but for those
that had committed past it or were shut out by a commit. That a
message waits in a mailbox is not inductive: it must also come up while the
session is in its epoch. `IInv` has eight parts. The accepted commits form one
chain with the roster at its end (`CommitsInv`, `LogInv`), and who is a member later
was added in between (`JoinInv`). A client is where its mail has led it, or one own
unanswered commit ahead (`SessionInv`), and what it hands to the relay is in the
order in which the relay can accept it (`OutboxInv`). A mailbox holds the changes
above the client's level in the order of their epochs (`MailInv`) and all of them
(`CompleteInv`). A message stands after the changes up to its epoch and before
those above it (`InPlace` in `MessageInv`). The first module proves that reading
and repeated delivery keep this, the second that making commits and messages and
a refusal do, the third that accepting a message or a commit does.

**VoIP calls** (`RatchetProofs`). A root names who started the exchange that made it, and
`KeysInv` says that directions, header keys and chains of a party follow from its
root alone: set-up, both ends of a rekey and a restore all keep this, but for a
restored party after a rekey the callee started. Two parties with one root
therefore derive matching keys, and since the receiver's window is never ahead of
the sender's counter the next frame is accepted (`FramesAreUnderstood`). Frames are
numbered by a counter that no rekey resets, and the window remembers every counter
played or has passed it (`FramesCountOnce`). The consent shown is that of the newest
message heeded (`ConsentStaysLatest`).

**Sender keys** (`RatchetProofs`). A generation a chain has passed is accepted,
cached or given up, and only one of them; this gives `NoKeyForgotten` (the limits of
the cache are checked by TLC only) and, through restores and epochs,
`NoMessageTwice`, whatever the replay window holds.

**C interface** (`BuildingBlocksProofs`). A handle's flag is up exactly while one
call holds it, and a mutex is owned by the call inside it; a torn object's mutex is
poisoned. From these follow `OneHolderHolds`, `ConsumedOnceHolds` and
`TornNeverAnswersHolds`, for every operation but the `read` getters of a session.

**Building blocks** (`BuildingBlocksProofs`, rotation in `HandshakeProofs`, which has
the theorems on finite sets). The replay bitmap stands for exactly the
accepted counters of the window, for every word size and every jump
(`WindowIsExact`, `CheckIsExact`). A group's threads, up to one more than the rotation
threshold, never meet the message limit (`NeverExhaustedHolds`): the calls past the
check are counted against what the epoch has left. What a device reads from a
channel is one post of its sender, read with a key wrapped for the device,
whichever fields the server combined (`ChannelsReadAsPosted`): the signature names
the ciphertext, the ciphertext its associated data. A group message is shown as it was
sent, refused for its time or size only, never shown late or oversized, and its franking verifies
(`MessagesAgreed`), for any requests and clocks.

### Only model-checked

* *Liveness*: `EventuallyDecrypted`, `SignalsAnswered`, `RekeyCompletes`,
  `EventuallySettled`, `EventuallyDownloaded`, `EventuallyCurrent`, `EveryCallReturns`.
  The prover does not reason about fairness.
* *Groups*: `KeysFollowTree`, `RelayFollowsGroup`, `ResolutionCoversMembers`. They rest
  on paths and resolutions of the tree, which are recursive; what a recursion
  computes for every input needs induction over data, which the prover lacks.
* *Pure algorithms*: `ArithmeticIsExact`,
  `ReconstructsTheSecret`, for the same reason and because of bitwise operators.
* *Attachments*: `ReceivedIsFile`. What a stream has put out is a concatenation of
  chunks, defined by a fold.
* *Rekeys*: `RekeysKeepStep`. *Handshake*: the second half of `FailuresLeaveNothing`.
  *Sender keys*: the cache limits of `KeysAccounted`.
* The four counterexamples need no proof.

## 9. Not modelled

Field and size checks that keep no state, encodings, event callbacks' contents,
statistics, thumbnails and other metadata, master-key derivation, key validation,
pre-shared keys and authorizations' expiry in groups, tree and parent hashes,
`destroy` of the C interface, the Swift wrappers. Cryptography is perfect by
assumption. `PROJECT.json` gives the reason for each part.

## 10. Running

In this directory, with TLC, the community modules and TLAPS:

    tlc -config MCSession.cfg MCSession        # any MC module with its cfg
    tlapm SessionProofs.tla                    # any of the proof modules

The relay delivery proofs form a chain of three modules that extend one another;
each is checked separately.
