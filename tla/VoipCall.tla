------------------------------ MODULE VoipCall -------------------------------
(***************************************************************************)
(* A VoIP call between two devices: call set-up, media frames, rekeying,   *)
(* the end of the call, sealed export and restore, and recording consent   *)
(* (protocol/voip), with the signals passing the relay's call record       *)
(* (CallLifecycle, from api/relay.rs).                                     *)
(*                                                                         *)
(* A root secret is the sequence of the key exchanges that led to it.  A    *)
(* key derived from it is the root and the flag is_caller of               *)
(* derive_call_keys: what one side derives for sending with TRUE, the other *)
(* derives for receiving with FALSE.  A media chain is the root, the flag  *)
(* and the nonce prefixes mixed into it so far, one per generation.        *)
(***************************************************************************)
EXTENDS Integers, Sequences, FiniteSets

CONSTANTS
  Interval,              \* ratchet_interval_frames
  MaxSkip,               \* MAX_SKIPPED_RATCHET_GENERATIONS
  MaxRatchetGeneration,  \* MAX_RATCHET_GENERATION
  Window,                \* WINDOW_SIZE of the replay window
  Scenarios              \* the ways the call is used, with their bounds

Parties == {"caller", "callee"}
peer(p) == IF p = "caller" THEN "callee" ELSE "caller"

ASSUME VoipAssumption ==
  /\ Interval \in Nat \ {0} /\ Window \in Nat \ {0}
  /\ MaxSkip \in Nat /\ MaxRatchetGeneration \in Nat
  /\ Scenarios \subseteq
       [ initiators   : SUBSET Parties,  \* the parties that start rekeys
         ends         : BOOLEAN,         \* the parties may end the call
         restarts     : BOOLEAN,         \* a party may be restored from its sealed state
         max_losses   : Nat,             \* bound: forwarded signals that never arrive
         max_frames   : Nat,             \* bound: frames each party sends
         max_exchanges : Nat,            \* bound: with so many keys a party starts nothing
         max_timestamp : Nat ]           \* bound: timestamps of recording consents

VARIABLES
  scenario,  \* one of Scenarios, the same all along
  call,      \* call[p]: p's VoipSession
  made,      \* made[p]: ephemeral keys p has generated
  frames,    \* the media frames sent: each may arrive late, again or never
  outbox,    \* signals on their way to the relay
  inbox,     \* signals the relay has forwarded: may arrive late or again
  undelivered,  \* signals the relay has forwarded that never arrived
  record,    \* the relay's record of the call, if any
  consents,  \* recording consent messages sent
  played,    \* history: played[p], the frames p has decrypted
  heeded,    \* history: heeded[p], the consent messages p has processed
  dropped    \* history: keys of rekeys whose starter forgot them in a restart

call_vars == <<scenario, call, made, frames, outbox, inbox, undelivered, record, consents,
               played, heeded, dropped>>
mishaps == <<undelivered, dropped>>

Relay == INSTANCE CallLifecycle
  WITH Devices <- Parties, InitTimeout <- 0, IdleTimeout <- 0, MaxLifetime <- 0,
       MaxRekeyGeneration <- MaxRatchetGeneration

NoCall ==
  [ state      |-> "None",   \* None, Calling (AuraCallInitiator), Active, Ended
    root       |-> <<>>,     \* root_secret
    dir        |-> FALSE,    \* is_caller of the derivation of the media chains
    hdr        |-> FALSE,    \* is_caller of that of header keys and nonce prefixes
    send       |-> <<>>,     \* send_ratchet: the prefixes mixed in; generation = length
    recv       |-> <<>>,     \* recv_ratchet
    counter    |-> 0,        \* send_frame_counter
    since      |-> 0,        \* frames_since_ratchet
    high       |-> 0,        \* replay_window.high_water
    marked     |-> {},       \* replay_window.bitmap, as a set of counters
    generation |-> 0,        \* ratchet_generation: rekeys done
    pending    |-> {},       \* pending_rekey, or the init output of the caller
    local      |-> 0,        \* local_recording_consent and its timestamp
    local_ts   |-> 0,
    remote     |-> 0,        \* remote_recording_consent and its timestamp
    remote_ts  |-> 0 ]

CallInit ==
  /\ scenario \in Scenarios
  /\ call = [p \in Parties |-> NoCall]
  /\ made = [p \in Parties |-> 0]
  /\ frames = {} /\ outbox = {} /\ inbox = {} /\ record = {} /\ consents = {}
  /\ played = [p \in Parties |-> {}]
  /\ heeded = [p \in Parties |-> {}]
  /\ undelivered = {} /\ dropped = {}

(***************************************************************************)
(* Key derivation                                                          *)
(***************************************************************************)

\* derive_call_keys, with both ratchets and the header keys replaced.
derive_call_keys(c, root, is_caller) ==
  [c EXCEPT !.root = root, !.dir = is_caller, !.hdr = is_caller,
            !.send = <<>>, !.recv = <<>>, !.since = 0]

\* rekey_complete: the new root depends on the old one and on both sides' keys.
rekey_complete(root, initiator_key, responder_key) ==
  Append(root, <<initiator_key, responder_key>>)

ephemeral(p) == <<p, made[p] + 1>>

signal(type, p, generation, key, root) ==
  [type |-> type, from |-> p, generation |-> generation, key |-> key, root |-> root]

(***************************************************************************)
(* Call set-up                                                             *)
(***************************************************************************)

\* from_key_material: the session starts active.
from_key_material(c, root, is_caller) ==
  [derive_call_keys(c, root, is_caller) EXCEPT !.state = "Active", !.pending = {}]

\* caller_init: the CallInit carries the caller's ephemeral key.
caller_init(key) == signal("Init", "caller", 0, key, <<>>)

initiate_call ==
  /\ call["caller"].state = "None"
  /\ made["caller"] < scenario.max_exchanges
  /\ LET key == ephemeral("caller")
     IN  /\ call' = [call EXCEPT !["caller"].state = "Calling", !["caller"].pending = {key}]
         /\ outbox' = outbox \cup {caller_init(key)}
  /\ made' = [made EXCEPT !["caller"] = @ + 1]
  /\ UNCHANGED <<frames, inbox, record, consents, played, heeded, mishaps>>

\* callee_accept: the CallAccept confirms the root with a MAC.
callee_accept(m, key) == signal("Accept", "callee", 0, key, rekey_complete(<<>>, m.key, key))

\* accept_call: the callee has its keys before the caller has them.
accept_call(m) ==
  /\ m.type = "Init"
  /\ call["callee"].state = "None"
  /\ LET accept == callee_accept(m, ephemeral("callee"))
     IN  /\ call' = [call EXCEPT !["callee"] = from_key_material(@, accept.root, FALSE)]
         /\ outbox' = outbox \cup {accept}
  /\ made' = [made EXCEPT !["callee"] = @ + 1]
  /\ UNCHANGED <<frames, inbox, record, consents, played, heeded, mishaps>>

\* caller_finish: the MAC was made with the root the caller computes.
caller_finish(c, m) == \E key \in c.pending : m.root = rekey_complete(<<>>, key, m.key)

\* complete_from_accept consumes the AuraCallInitiator.
complete_call(m) ==
  /\ m.type = "Accept"
  /\ call["caller"].state = "Calling"
  /\ caller_finish(call["caller"], m)
  /\ call' = [call EXCEPT !["caller"] = from_key_material(@, m.root, TRUE)]
  /\ UNCHANGED <<made, frames, outbox, inbox, record, consents, played, heeded, mishaps>>

(***************************************************************************)
(* Media frames                                                            *)
(***************************************************************************)

\* Mutant: the counter starts again with every media generation.
frame_counter_per_generation(c) == c.since % Interval

frame_counter(c) == c.counter

\* encrypt_frame moves to the next generation after Interval frames.
chain_advances(c) == c.since >= Interval
next_chain(c) == IF chain_advances(c) THEN Append(c.send, c.hdr) ELSE c.send

can_encrypt(c) == c.state = "Active" /\ (chain_advances(c) => Len(c.send) < MaxRatchetGeneration)

\* The frame c's next encrypt_frame makes: its media key, header key and nonce.
next_frame(p, c) ==
  [ from |-> p, root |-> c.root, dir |-> c.dir, hdr |-> c.hdr,
    chain |-> next_chain(c), counter |-> frame_counter(c) ]

encrypt_frame(p) ==
  /\ can_encrypt(call[p])
  /\ call[p].counter < scenario.max_frames
  /\ frames' = frames \cup {next_frame(p, call[p])}
  /\ call' = [call EXCEPT
       ![p].send    = next_chain(call[p]),
       ![p].since   = IF chain_advances(call[p]) THEN 1 ELSE @ + 1,
       ![p].counter = @ + 1]
  /\ UNCHANGED <<made, outbox, inbox, record, consents, played, heeded, mishaps>>

\* ReplayWindow::check; ReplayWindow.tla shows what the bitmap computes.
in_window(c, counter) ==
  counter <= c.high => c.high - counter < Window /\ counter \notin c.marked

\* speculative_sync_to: only forwards, and not too far.
reachable(c, generation) ==
  Len(c.recv) <= generation /\ generation <= Len(c.recv) + MaxSkip

\* The receive chain moved on to a generation with c's own receive prefix.
chain_at(c, generation) ==
  [i \in 1 .. generation |-> IF i <= Len(c.recv) THEN c.recv[i] ELSE ~c.hdr]

\* Payload, header and nonce prefix were made with the keys c derives.
authentic(c, f) ==
  /\ f.root = c.root /\ f.dir = ~c.dir /\ f.hdr = ~c.hdr
  /\ f.chain = chain_at(c, Len(f.chain))

decrypts(c, f) ==
  /\ c.state = "Active"
  /\ in_window(c, f.counter)
  /\ reachable(c, Len(f.chain))
  /\ authentic(c, f)

mark(c, counter) ==
  LET high == IF counter > c.high THEN counter ELSE c.high
  IN  [c EXCEPT !.high = high,
                !.marked = {k \in @ \cup {counter} : high - k < Window}]

\* decrypt_frame: a frame that fails a check changes nothing but statistics.
decrypt_frame(p, f) ==
  /\ f.from = peer(p)
  /\ decrypts(call[p], f)
  /\ call' = [call EXCEPT ![p] = [mark(@, f.counter) EXCEPT !.recv = f.chain]]
  /\ played' = [played EXCEPT ![p] = @ \cup {f}]
  /\ UNCHANGED <<made, frames, outbox, inbox, record, consents, heeded, mishaps>>

(***************************************************************************)
(* Rekeying                                                                *)
(***************************************************************************)

\* rekey_initiate: the CallRekey's MAC is made with the root of its sender.
rekey_initiate(p, key) == signal("Rekey", p, call[p].generation + 1, key, call[p].root)

initiate_rekey(p) ==
  /\ p \in scenario.initiators
  /\ call[p].state = "Active"
  /\ call[p].pending = {}
  /\ call[p].generation < MaxRatchetGeneration
  /\ made[p] < scenario.max_exchanges
  /\ LET key == ephemeral(p)
     IN  /\ call' = [call EXCEPT ![p].pending = {key}]
         /\ outbox' = outbox \cup {rekey_initiate(p, key)}
  /\ made' = [made EXCEPT ![p] = @ + 1]
  /\ UNCHANGED <<frames, inbox, record, consents, played, heeded, mishaps>>

\* The generation is the next one and the MAC is made with c's root.
accepts_rekey(c, m) ==
  c.state = "Active" /\ m.generation = c.generation + 1 /\ m.root = c.root

\* Mutant: the keys are derived by the role in the call, not in the rekey.
responder_is_caller_by_role(p) == p = "caller"

responder_is_caller(p) == FALSE

\* process_rekey installs the new keys and leaves a pending rekey of its own.
process_rekey(p, m) ==
  /\ m.type = "Rekey" /\ m.from = peer(p)
  /\ accepts_rekey(call[p], m)
  /\ LET key  == ephemeral(p)
         root == rekey_complete(call[p].root, m.key, key)
     IN  /\ call' = [call EXCEPT ![p] =
               [derive_call_keys(@, root, responder_is_caller(p)) EXCEPT
                  !.generation = m.generation]]
         /\ outbox' = outbox \cup {signal("RekeyAck", p, m.generation, key, root)}
  /\ made' = [made EXCEPT ![p] = @ + 1]
  /\ UNCHANGED <<frames, inbox, record, consents, played, heeded, mishaps>>

\* Mutant: the acknowledgement is expected to name the generation before the rekey.
accepts_ack_of_last(c, m) ==
  /\ c.state = "Active" /\ m.generation = c.generation
  /\ \E key \in c.pending : m.root = rekey_complete(c.root, key, m.key)

\* The MAC of the acknowledgement is made with the new root.
accepts_ack(c, m) ==
  /\ c.state = "Active" /\ m.generation = c.generation + 1
  /\ \E key \in c.pending : m.root = rekey_complete(c.root, key, m.key)

cleared(c) == [c EXCEPT !.pending = {}]

\* Mutant: the initiator does not count the rekey.
process_rekey_ack_uncounted(p, m) ==
  /\ m.type = "RekeyAck" /\ m.from = peer(p)
  /\ accepts_ack(call[p], m)
  /\ call' = [call EXCEPT ![p] = derive_call_keys(cleared(@), m.root, TRUE)]
  /\ UNCHANGED <<made, frames, outbox, inbox, record, consents, played, heeded, mishaps>>

process_rekey_ack(p, m) ==
  /\ m.type = "RekeyAck" /\ m.from = peer(p)
  /\ accepts_ack(call[p], m)
  /\ call' = [call EXCEPT ![p] =
       [derive_call_keys(cleared(@), m.root, TRUE) EXCEPT !.generation = m.generation]]
  /\ UNCHANGED <<made, frames, outbox, inbox, record, consents, played, heeded, mishaps>>

(***************************************************************************)
(* The relay, and the end of the call                                      *)
(***************************************************************************)

as_relayed(m) == [type |-> m.type, from |-> m.from, to |-> peer(m.from)]

\* process_voip_signal forwards a signal its record allows and refuses others.
forward(m) ==
  /\ m \in outbox
  /\ outbox' = outbox \ {m}
  /\ LET s == as_relayed(m)
     IN  \/ /\ m.type = "Init" /\ record = {}
            /\ record' = {Relay!new_call(s.from, s.to, 0)}
            /\ inbox' = inbox \cup {m}
         \/ /\ m.type # "Init"
            /\ \E c \in record : Relay!allowed(c, s) /\ record' = Relay!after(c, s, 0)
            /\ inbox' = inbox \cup {m}
         \/ /\ IF m.type = "Init" THEN record # {}
               ELSE ~\E c \in record : Relay!allowed(c, s)
            /\ UNCHANGED <<record, inbox>>
  /\ UNCHANGED <<call, made, frames, consents, played, heeded, mishaps>>

\* The relay forwards a signal once and keeps no copy.
lose_signal(m) ==
  /\ Cardinality(undelivered) < scenario.max_losses
  /\ inbox' = inbox \ {m}
  /\ undelivered' = undelivered \cup {m}
  /\ UNCHANGED <<call, made, frames, outbox, record, consents, played, heeded, dropped>>

build_call_end(p) ==
  /\ call[p].state \in {"Active", "Ended"}
  /\ outbox' = outbox \cup {signal("End", p, 0, <<>>, call[p].root)}
  /\ UNCHANGED <<call, made, frames, inbox, record, consents, played, heeded, mishaps>>

end_call(p) ==
  /\ call[p].state \in {"Active", "Ended"}
  /\ call' = [call EXCEPT ![p].state = "Ended"]
  /\ UNCHANGED <<made, frames, outbox, inbox, record, consents, played, heeded, mishaps>>

\* The HMAC of a CallEnd is made with the root its sender has.
process_call_end(p, m) ==
  /\ m.type = "End" /\ m.from = peer(p)
  /\ m.root = call[p].root
  /\ end_call(p)

(***************************************************************************)
(* Sealed state                                                            *)
(***************************************************************************)

\* The chains come back as they were; header keys and nonce prefixes are derived
\* again from the root, by the role in the call; a pending rekey is not saved.
from_sealed_state(p, c) == [c EXCEPT !.pending = {}, !.hdr = (p = "caller")]

\* A party stops right after export_sealed_state and is restored.  An export is
\* refused once the call has ended.
restart(p) ==
  /\ scenario.restarts
  /\ call[p].state = "Active"
  /\ call' = [call EXCEPT ![p] = from_sealed_state(p, @)]
  /\ dropped' = dropped \cup call[p].pending
  /\ UNCHANGED <<made, frames, outbox, inbox, record, consents, played, heeded, undelivered>>

(***************************************************************************)
(* Recording consent: 0 pending, 1 granted, 2 denied                       *)
(***************************************************************************)

set_recording_consent(p, consent) ==
  /\ call[p].state = "Active"
  /\ call' = [call EXCEPT ![p].local = consent]
  /\ UNCHANGED <<made, frames, outbox, inbox, record, consents, played, heeded, mishaps>>

build_recording_consent_message(p, consent, timestamp) ==
  /\ call[p].state = "Active"
  /\ timestamp > call[p].local_ts
  /\ call' = [call EXCEPT ![p].local = consent, ![p].local_ts = timestamp]
  /\ consents' = consents \cup {[from |-> p, consent |-> consent, timestamp |-> timestamp]}
  /\ UNCHANGED <<made, frames, outbox, inbox, record, played, heeded, mishaps>>

\* Mutant: a delayed consent is applied.
is_newer_or_not(c, m) == TRUE

is_newer(c, m) == m.timestamp > c.remote_ts

process_recording_consent_message(p, m) ==
  /\ m.from = peer(p)
  /\ call[p].state = "Active"
  /\ is_newer(call[p], m)
  /\ call' = [call EXCEPT ![p].remote = m.consent, ![p].remote_ts = m.timestamp]
  /\ heeded' = [heeded EXCEPT ![p] = @ \cup {m}]
  /\ UNCHANGED <<made, frames, outbox, inbox, record, consents, played, mishaps>>

(***************************************************************************)
(* Next                                                                    *)
(***************************************************************************)

receive(p) ==
  \E m \in inbox :
    \/ p = "callee" /\ accept_call(m)
    \/ p = "caller" /\ complete_call(m)
    \/ process_rekey(p, m)
    \/ process_rekey_ack(p, m)

consent_step(p) ==
  \/ \E consent \in 0 .. 2 :
       \/ scenario.max_timestamp > 0 /\ set_recording_consent(p, consent)
       \/ \E timestamp \in 1 .. scenario.max_timestamp :
            build_recording_consent_message(p, consent, timestamp)
  \/ \E m \in consents : process_recording_consent_message(p, m)

CallStep ==
  \/ initiate_call
  \/ \E m \in outbox : forward(m)
  \/ \E m \in inbox : lose_signal(m)
  \/ \E p \in Parties :
       \/ receive(p)
       \/ encrypt_frame(p)
       \/ \E f \in frames : decrypt_frame(p, f)
       \/ initiate_rekey(p)
       \/ scenario.ends /\ (build_call_end(p) \/ end_call(p))
       \/ \E m \in inbox : process_call_end(p, m)
       \/ restart(p)
       \/ consent_step(p)

CallNext == CallStep /\ UNCHANGED scenario

CallSpec == CallInit /\ [][CallNext]_call_vars

\* The relay answers what reaches it, and a signal it has forwarded is handed to
\* its recipient in the end, unless it was lost.
CallFairSpec ==
  /\ CallSpec
  /\ WF_call_vars((\E m \in outbox : forward(m)) /\ UNCHANGED scenario)
  /\ \A p \in Parties : WF_call_vars(receive(p) /\ UNCHANGED scenario)

(***************************************************************************)
(* Properties                                                              *)
(***************************************************************************)

Established == \A p \in Parties : call[p].state = "Active"

\* from_sealed_state derives header keys and nonce prefixes by the role in the call,
\* the chains keep the direction of the last rekey.  The two differ in a party that
\* was restored after a rekey the callee had started, until the next rekey.
Mismatched == \E p \in Parties : call[p].hdr # call[p].dir

\* Whenever both sides hold the same root, the next frame either of them sends is
\* one the other can decrypt, unless so many frames were lost that the receiver
\* would have to skip too many media generations: set-up, both ends of a rekey and
\* a restore derive matching directions, chains, header keys and nonce prefixes.
RestoredCallContinues ==
  \A p \in Parties :
    LET f == next_frame(p, call[p])
        c == call[peer(p)]
    IN  /\ Established
        /\ call[p].root = c.root
        /\ can_encrypt(call[p])
        /\ reachable(c, Len(f.chain))
        => decrypts(c, f)

\* The same, but for a party whose header keys a restore has turned round.
NextFrameAccepted == ~Mismatched => RestoredCallContinues

\* A frame that has been decrypted is never decrypted again, through rekeys (which
\* keep the replay window), generation changes and restores.
NoFrameTwice ==
  \A p \in Parties : \A f \in played[p] : ~decrypts(call[p], f)

\* The header key of a root is not ratcheted, so its nonces rest on the frame
\* counter alone: the next frame of either side never repeats the root, direction
\* and counter of a frame already sent, unless one of the two was made with header
\* keys a restore has turned round.
NoncesUnique ==
  \A p \in Parties : \A f \in frames :
    LET n == next_frame(p, call[p])
    IN  call[p].state = "Active" /\ n.hdr = n.dir /\ f.hdr = f.dir =>
          <<f.root, f.hdr, f.counter>> # <<n.root, n.hdr, n.counter>>

\* Every frame counts once, for the receiver that opens it and for the key that
\* seals it.
FramesOnce == NoFrameTwice /\ NoncesUnique

\* The consent shown for the peer is that of the newest of the peer's messages
\* processed so far: a delayed or repeated grant never undoes a later denial.
ConsentIsLatest ==
  \A p \in Parties :
    IF heeded[p] = {}
    THEN call[p].remote = 0
    ELSE \E m \in heeded[p] :
           /\ m.consent = call[p].remote
           /\ \A n \in heeded[p] : n.timestamp <= m.timestamp /\ (n # m => n.timestamp # m.timestamp)

Over == record = {} \/ \E p \in Parties : call[p].state = "Ended"

\* The relay let a rekey of each side through for one generation: the later one had
\* been on its way until the first was acknowledged.
Crossed ==
  \E m, n \in inbox \cup undelivered :
    m.type = "Rekey" /\ n.type = "Rekey" /\ m.from # n.from /\ m.generation = n.generation

\* However signals are delayed, repeated or lost and whoever is restored in the
\* middle, the two sides are never more than one rekey apart, and the one behind
\* holds the root the other's was made from; at the same generation they hold the
\* same root.  Only rekeys of both sides that the relay let cross break this: each
\* side then answers the other's, and the roots part for good.
RekeysKeepStep ==
  Established /\ ~Crossed =>
    \A p \in Parties :
      LET c == call[p]
          d == call[peer(p)]
      IN  \/ c.generation = d.generation /\ c.root = d.root
          \/ c.generation = d.generation + 1 /\ d.root = SubSeq(c.root, 1, Len(c.root) - 1)
          \/ d.generation = c.generation + 1 /\ c.root = SubSeq(d.root, 1, Len(d.root) - 1)

\* A signal of rekey m or of an earlier exchange never arrived, or its starter forgot
\* it in a restart.  No rekey after that completes: one side expects a generation the
\* other has passed.
Interrupted(m) ==
  \E n \in inbox \cup undelivered :
    /\ n.type \in {"Accept", "Rekey", "RekeyAck"} /\ n.generation <= m.generation
    /\ n \in undelivered \/ n.key \in dropped

\* A rekey the relay has let through reaches both sides in the end, unless the call
\* is over or the rekey was interrupted: whoever starts rekeys, and however their
\* signals are delayed and repeated.
RekeyCompletes ==
  <>[](Over \/
         \A m \in inbox : m.type = "Rekey" /\ ~Interrupted(m) =>
           \A p \in Parties : call[p].generation >= m.generation)
=============================================================================
