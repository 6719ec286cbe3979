----------------------------- MODULE SenderKeys ------------------------------
(***************************************************************************)
(* Application messages of a group as one member receives them: the sender *)
(* chains and the cache of skipped keys (group/sender_key.rs), the replay  *)
(* window of each sender and encrypt / decrypt (group/mod.rs).             *)
(*                                                                         *)
(* The key of generation g of a sender's chain is g: each is derived once, *)
(* on the way to the next, and is either used, cached or given up.  The    *)
(* bitmap of a window is the set of its one bits; that shifting words with *)
(* carry moves exactly those bits is the subject of ReplayWindow, whose    *)
(* shift loop is the same.                                                 *)
(***************************************************************************)
EXTENDS Integers, FiniteSets

CONSTANTS
  Senders,             \* the leaf indices of the other members
  MaxGeneration,       \* effective_max_messages_per_epoch
  MaxSkippedPerSender, \* effective_max_skipped_per_sender
  MaxSkippedTotal,     \* MAX_SKIPPED_SENDER_KEYS
  WINDOW,              \* REPLAY_WINDOW_BITS
  Extents              \* the senders that send, and bounds on what happens

ASSUME SenderKeysAssumption ==
  /\ Senders \subseteq Nat
  /\ {MaxGeneration, MaxSkippedPerSender, MaxSkippedTotal, WINDOW} \subseteq Nat \ {0}
  /\ \A x \in Extents :
       {x.max_sent, x.max_epoch, x.max_reloads, x.max_timed, x.max_lost} \subseteq Nat

VARIABLES
  extent,       \* one of Extents, the same all along: senders, the ones that
                \* send; max_sent, messages of each in an epoch; max_epoch;
                \* max_reloads, seal-and-restore cycles; max_timed,
                \* disappearing messages; max_lost, messages the network loses
  sender_epoch, \* sender_epoch[s]: the epoch s's session is in
  own,          \* own[s]: generation of s's own chain
  net,          \* messages encrypted so far, any of which may arrive any time
  lost,         \* those the network will not deliver
  epoch,        \* the receiver's epoch
  chain,        \* chain[s]: generation of the receiver's chain for s
  skipped,      \* skipped_keys: set of <<s, generation>>
  window,       \* window[s]: SenderReplayWindow
  got,          \* messages decrypted (history)
  again,        \* messages decrypted a second time (history)
  gone,         \* keys given up in this epoch: evicted, dropped, or taken by
                \* a message that was then refused (history)
  reloads

vars == <<extent, sender_epoch, own, net, lost, epoch, chain, skipped, window, got, again, gone,
          reloads>>

Messages == [s : Senders, epoch : 0..extent.max_epoch, gen : 0..MaxGeneration - 1, timed : BOOLEAN]

-----------------------------------------------------------------------------
(* SenderReplayWindow *)

NoWindow == [initialized |-> FALSE, high |-> 0, bits |-> {}]

is_duplicate_or_too_old(w, g) ==
  /\ w.initialized /\ g <= w.high
  /\ (w.high - g >= WINDOW \/ w.high - g \in w.bits)

shift_window(bits, by) == {d \in 0..WINDOW - 1 : d - by \in bits}

mark_seen(w, g) ==
  IF ~w.initialized THEN [initialized |-> TRUE, high |-> g, bits |-> {0}]
  ELSE IF g > w.high
       THEN [initialized |-> TRUE, high |-> g,
             bits |-> shift_window(w.bits, g - w.high) \cup {0}]
  ELSE IF w.high - g < WINDOW
       THEN [initialized |-> TRUE, high |-> w.high, bits |-> w.bits \cup {w.high - g}]
  ELSE w

-----------------------------------------------------------------------------
(* SenderKeyStore *)

(* The newest MaxSkippedPerSender keys of each sender. *)
within_sender_limit(keys) ==
  {k \in keys : Cardinality({j \in keys : j[1] = k[1] /\ j[2] > k[2]}) < MaxSkippedPerSender}

(* BTreeMap order of (leaf, generation). *)
after(j, k) == j[1] > k[1] \/ (j[1] = k[1] /\ j[2] > k[2])

(* The last MaxSkippedTotal keys of the map. *)
within_total_limit(keys) ==
  {k \in keys : Cardinality({j \in keys : after(j, k)}) < MaxSkippedTotal}

(* Defect: the keys of all senders together are not limited. *)
enforce_sender_limit(keys) == within_sender_limit(keys)

enforce_cache_limit(keys) == within_total_limit(within_sender_limit(keys))

(* Defect: the limit is reached one generation early. *)
advances_short(s, g) == g < MaxGeneration /\ g - chain[s] < MaxSkippedPerSender

(* advance_to's limits; the chain does not move when they are exceeded. *)
advances(s, g) == g < MaxGeneration /\ g - chain[s] <= MaxSkippedPerSender

has_key(s, g) ==
  \/ <<s, g>> \in skipped
  \/ g >= chain[s] /\ advances(s, g)

passed(s, g) == {<<s, h>> : h \in chain[s]..g - 1}

skipped_after(s, g) ==
  IF <<s, g>> \in skipped THEN skipped \ {<<s, g>>}
  ELSE IF g = chain[s] THEN skipped
  ELSE enforce_cache_limit(skipped \cup passed(s, g))

(* Defect: a key taken out of order stays in the cache. *)
get_message_key_kept(s, g) ==
  /\ has_key(s, g)
  /\ skipped' = IF <<s, g>> \in skipped THEN skipped ELSE skipped_after(s, g)
  /\ chain' = [chain EXCEPT ![s] = IF <<s, g>> \in skipped THEN @ ELSE g + 1]

(* get_message_key: the key is consumed whatever happens to the message. *)
get_message_key(s, g) ==
  /\ has_key(s, g)
  /\ skipped' = skipped_after(s, g)
  /\ chain' = [chain EXCEPT ![s] = IF <<s, g>> \in skipped THEN @ ELSE g + 1]

evicted(s, g) == (skipped \cup passed(s, g)) \ (skipped_after(s, g) \cup {<<s, g>>})

-----------------------------------------------------------------------------
Init ==
  /\ extent \in Extents
  /\ sender_epoch = [s \in Senders |-> 0]
  /\ own = [s \in Senders |-> 0]
  /\ net = {} /\ lost = {}
  /\ epoch = 0
  /\ chain = [s \in Senders |-> 0]
  /\ skipped = {}
  /\ window = [s \in Senders |-> NoWindow]
  /\ got = {} /\ again = {} /\ gone = {}
  /\ reloads = 0

(* encrypt_internal: the next key of the sender's own chain. *)
encrypt(s, timed) ==
  /\ s \in extent.senders /\ own[s] < MaxGeneration /\ own[s] < extent.max_sent
  /\ timed => Cardinality({m \in net : m.timed}) < extent.max_timed
  /\ net' = net \cup {[s |-> s, epoch |-> sender_epoch[s], gen |-> own[s], timed |-> timed]}
  /\ own' = [own EXCEPT ![s] = @ + 1]
  /\ UNCHANGED <<sender_epoch, lost, epoch, chain, skipped, window, got, again, gone, reloads>>

(* Everything decrypt checks before it takes the key. *)
opens(m) ==
  /\ m.epoch = epoch
  /\ ~is_duplicate_or_too_old(window[m.s], m.gen)

decrypt(m) ==
  /\ opens(m)
  /\ get_message_key(m.s, m.gen)
  /\ window' = [window EXCEPT ![m.s] = mark_seen(@, m.gen)]
  /\ got' = got \cup {m}
  /\ again' = again \cup ({m} \cap got)
  /\ gone' = gone \cup evicted(m.s, m.gen)
  /\ UNCHANGED <<sender_epoch, own, net, lost, epoch, reloads>>

(* parse_group_plaintext refuses a disappearing message past its time, when *)
(* its key has been taken.                                                  *)
decrypt_expired(m) ==
  /\ m.timed
  /\ opens(m)
  /\ get_message_key(m.s, m.gen)
  /\ gone' = gone \cup evicted(m.s, m.gen) \cup {<<m.s, m.gen>>}
  /\ UNCHANGED <<sender_epoch, own, net, lost, epoch, window, got, again, reloads>>

lose(m) ==
  /\ m \notin lost \cup got /\ Cardinality(lost) < extent.max_lost
  /\ lost' = lost \cup {m}
  /\ UNCHANGED <<sender_epoch, own, net, epoch, chain, skipped, window, got, again, gone, reloads>>

(* A commit: the sender's chains start again in the next epoch. *)
sender_next_epoch(s) ==
  /\ s \in extent.senders
  /\ sender_epoch[s] < extent.max_epoch
  /\ sender_epoch' = [sender_epoch EXCEPT ![s] = @ + 1]
  /\ own' = [own EXCEPT ![s] = 0]
  /\ UNCHANGED <<net, lost, epoch, chain, skipped, window, got, again, gone, reloads>>

(* process_commit of the receiver: new_epoch_with_policy, replay_windows.clear. *)
next_epoch ==
  /\ epoch < extent.max_epoch
  /\ epoch' = epoch + 1
  /\ chain' = [s \in Senders |-> 0]
  /\ skipped' = {}
  /\ window' = [s \in Senders |-> NoWindow]
  /\ gone' = {}
  /\ UNCHANGED <<sender_epoch, own, net, lost, got, again, reloads>>

(* Windows are encoded when initialized and come back initialized when some *)
(* bit is one.                                                              *)
restored_window(w) ==
  IF w.initialized THEN [initialized |-> w.bits # {}, high |-> w.high, bits |-> w.bits]
  ELSE NoWindow

(* Defect: the chains are derived again from the epoch secret, and the      *)
(* windows start empty.                                                     *)
reload_from_epoch ==
  /\ reloads < extent.max_reloads
  /\ skipped' = {}
  /\ chain' = [s \in Senders |-> 0]
  /\ window' = [s \in Senders |-> NoWindow]
  /\ gone' = {}
  /\ reloads' = reloads + 1
  /\ UNCHANGED <<sender_epoch, own, net, lost, epoch, got, again>>

(* export_sealed_state then from_sealed_state: chains and windows are kept, *)
(* the skipped keys are not.                                                *)
reload ==
  /\ reloads < extent.max_reloads
  /\ skipped' = {}
  /\ chain' = chain
  /\ window' = [s \in Senders |-> restored_window(window[s])]
  /\ gone' = gone \cup skipped
  /\ reloads' = reloads + 1
  /\ UNCHANGED <<sender_epoch, own, net, lost, epoch, got, again>>

delivery == \E m \in net \ lost : decrypt(m)

Step ==
  \/ \E s \in Senders, timed \in BOOLEAN : encrypt(s, timed)
  \/ delivery
  \/ \E m \in net \ lost : decrypt_expired(m)
  \/ \E m \in net : lose(m)
  \/ \E s \in Senders : sender_next_epoch(s)
  \/ next_epoch
  \/ reload

Next == Step /\ UNCHANGED extent

Spec == Init /\ [][Next]_vars

(* The relay goes on delivering what it has not lost. *)
FairSpec == Spec /\ WF_vars(delivery /\ UNCHANGED extent)

-----------------------------------------------------------------------------
(* Properties *)

accepted(s, g) == \E m \in got : m.epoch = epoch /\ m.s = s /\ m.gen = g

(* Generations stay below the policy's maximum and what is decrypted was    *)
(* sent.                                                                    *)
TypeOK ==
  /\ extent \in Extents
  /\ sender_epoch \in [Senders -> 0..extent.max_epoch] /\ own \in [Senders -> 0..MaxGeneration]
  /\ net \subseteq Messages /\ lost \subseteq net
  /\ epoch \in 0..extent.max_epoch /\ chain \in [Senders -> 0..MaxGeneration]
  /\ skipped \subseteq Senders \X (0..MaxGeneration - 1)
  /\ gone \subseteq Senders \X (0..MaxGeneration - 1)
  /\ window \in [Senders -> [initialized : BOOLEAN, high : 0..MaxGeneration - 1,
                             bits : SUBSET (0..WINDOW - 1)]]
  /\ got \subseteq net /\ again \subseteq net

(* No message is decrypted twice: not when it is delivered again, not after *)
(* the session was sealed and restored, not when its key was cached first.  *)
AcceptedOnce == again = {}

(* Every generation a chain has passed is accounted for in exactly one way: *)
(* its message was decrypted, its key is cached, or it was given up.        *)
GenerationsAccounted ==
  \A s \in Senders : \A g \in 0..MaxGeneration - 1 :
    IF g < chain[s]
    THEN /\ accepted(s, g) \/ <<s, g>> \in skipped \/ <<s, g>> \in gone
         /\ ~(accepted(s, g) /\ <<s, g>> \in skipped)
         /\ ~(accepted(s, g) /\ <<s, g>> \in gone)
         /\ ~(<<s, g>> \in skipped /\ <<s, g>> \in gone)
    ELSE ~accepted(s, g) /\ <<s, g>> \notin skipped \cup gone

(* The cache stays within both limits. *)
CacheBounded ==
  /\ Cardinality(skipped) <= MaxSkippedTotal
  /\ \A s \in Senders :
       Cardinality({k \in skipped : k[1] = s}) <= MaxSkippedPerSender

(* No key is lost unnoticed, and no more are kept than the limits of the    *)
(* policy and of the store allow, however gaps of several senders overlap.  *)
KeysAccounted == GenerationsAccounted /\ CacheBounded

(* The gap to m is one the policy does not let the chain jump over. *)
walled(m) == m.gen - chain[m.s] > MaxSkippedPerSender

(* A message that is not lost is decrypted in the end, unless its key was   *)
(* given up, it is too old for the window, its epoch has passed or not yet  *)
(* come, or more messages before it were lost than the policy lets the      *)
(* receiver skip.                                                           *)
EventuallySettled ==
  <>[](\A m \in net \ lost :
         \/ m \in got
         \/ m.epoch # epoch
         \/ <<m.s, m.gen>> \in gone
         \/ walled(m)
         \/ window[m.s].initialized /\ window[m.s].high - m.gen >= WINDOW)
=============================================================================
