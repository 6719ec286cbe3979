---------------------------- MODULE SealedState ----------------------------
(***************************************************************************)
(* Sealed snapshots of a session: export_sealed_state and                  *)
(* from_sealed_state of session.rs, with the counter tracker and the slot  *)
(* of api/mod.rs that guard a snapshot against rollback.                   *)
(*                                                                         *)
(* Several threads of the host export one session.  An export takes a      *)
(* generation and copies the state under the session's lock, seals the     *)
(* copy WITHOUT the lock, and takes the lock again to give the generation  *)
(* back when the sealing failed.  One of the exporters at a time holds the *)
(* tracker (`&mut` in the code) and writes its snapshot to the host's      *)
(* storage; the others export without a tracker.  The host may crash at    *)
(* any step and restore from what its storage holds.                       *)
(*                                                                         *)
(* A session's state is reduced to `sent`, the number of envelopes it has  *)
(* encrypted: it stands for the ratchet position, so "older state" is      *)
(* "smaller sent".                                                         *)
(***************************************************************************)
EXTENDS Integers, FiniteSets

CONSTANTS
    Threads,        \* threads of the host that export the session
    Hosts,          \* how hosts store a snapshot: as a "slot", or blob and tracker
                    \* apart, "blob_first" or "tracker_first"
    MaxSent,        \* bound on the envelopes encrypted
    MaxGeneration,  \* where state_counter overflows (u64::MAX in the code)
    MaxLags         \* bound on the times the storage serves an old snapshot

ASSUME SealedAssumption ==
    /\ Hosts \subseteq {"slot", "blob_first", "tracker_first"}
    /\ MaxSent \in Nat /\ MaxGeneration \in Nat /\ MaxLags \in Nat

VARIABLES
    host,       \* how this host stores a snapshot: as a SealedStateSlot or apart
    session,    \* [status, gen, sent]: state_counter and the ratchet position
    export,     \* per thread: where its export stands and what it copied
    tracker,    \* the SealedStateCounterTracker in memory
    owner,      \* the thread that holds the tracker, if any
    disk,       \* [tracker, blob]: what the host's storage holds
    sealed,     \* snapshots sealed since the session was created or restored
    complete,   \* snapshots whose write was completed (blob and tracker)
    lags        \* times the storage served an old snapshot

store_vars == <<host, session, export, tracker, owner, disk, sealed, complete, lags>>

Blob == [counter : Nat, gen : Nat, sent : Nat]
Tracker == [max_restored : Nat, latest_issued : Nat]
NoExport == [at |-> "idle", tracked |-> FALSE, counter |-> 0, gen |-> 0, sent |-> 0]
Places == {"idle", "sealing", "sealed", "half"}

-----------------------------------------------------------------------------
(* The counter tracker. *)

new_tracker == [max_restored |-> 0, latest_issued |-> 0]

(* Mutant: a floor that only knows what was restored. *)
min_import_restored_only(t) == t.max_restored

min_import_counter(t) ==
    IF t.latest_issued > t.max_restored THEN t.latest_issued ELSE t.max_restored

next_export_counter(t) == t.latest_issued + 1

export_counter_ok(t, c) == c > 0 /\ c > t.latest_issued /\ c >= t.max_restored

note_successful_export(t, c) ==
    IF export_counter_ok(t, c) THEN [t EXCEPT !.latest_issued = c] ELSE t

note_successful_restore(t, c) ==
    [max_restored  |-> IF c > t.max_restored THEN c ELSE t.max_restored,
     latest_issued |-> IF t.latest_issued < c THEN c ELSE t.latest_issued]

(* Mutant: equality is a rollback. *)
accepts_strict(t, b) == b.counter > min_import_counter(t)

(* from_sealed_state accepts a blob: its counter is positive and not below
   the floor (an authentic blob of this session decrypts). *)
accepts(t, b) == b.counter > 0 /\ b.counter >= min_import_counter(t)

-----------------------------------------------------------------------------
blob_of(e) == [counter |-> e.counter, gen |-> e.gen, sent |-> e.sent]

StoreInit ==
    /\ host \in Hosts
    /\ session = [status |-> "live", gen |-> 0, sent |-> 0]
    /\ export = [t \in Threads |-> NoExport]
    /\ tracker = new_tracker /\ owner = {}
    /\ disk = [tracker |-> new_tracker, blob |-> {}]
    /\ sealed = {} /\ complete = {} /\ lags = 0

(* Session::encrypt, as far as a snapshot can see it. *)
session_encrypt ==
    /\ session.status = "live" /\ session.sent < MaxSent
    /\ session' = [session EXCEPT !.sent = session.sent + 1]
    /\ UNCHANGED <<export, tracker, owner, disk, sealed, complete, lags>>

(* Under the lock: take the next generation and copy the state.  A tracked
   export first takes the tracker and its next counter; an untracked one
   (AuraSession::serialize) is given a counter by its caller. *)
begin_export(t, tracked) ==
    /\ export[t].at = "idle" /\ session.status = "live" /\ session.gen < MaxGeneration
    /\ tracked => owner = {}
    /\ owner' = IF tracked THEN {t} ELSE owner
    /\ session' = [session EXCEPT !.gen = session.gen + 1]
    /\ export' = [export EXCEPT ![t] =
           [at |-> "sealing", tracked |-> tracked, gen |-> session.gen + 1, sent |-> session.sent,
            counter |-> IF tracked THEN next_export_counter(tracker) ELSE 1]]
    /\ UNCHANGED <<tracker, disk, sealed, complete, lags>>

(* Sealing succeeds; a tracked export records its counter. *)
seal(t) ==
    /\ export[t].at = "sealing"
    /\ sealed' = sealed \union {blob_of(export[t])}
    /\ IF export[t].tracked
       THEN /\ export' = [export EXCEPT ![t].at = "sealed"]
            /\ tracker' = note_successful_export(tracker, export[t].counter)
       ELSE /\ export' = [export EXCEPT ![t] = NoExport]
            /\ tracker' = tracker
    /\ UNCHANGED <<session, owner, disk, complete, lags>>

(* Mutant: the generation is taken back whoever exported since. *)
give_back_always(gen, e) == e.gen - 1

(* What a failed export leaves in state_counter: it takes its generation
   back only when no later export has taken one since. *)
give_back(gen, e) == IF gen = e.gen THEN e.gen - 1 ELSE gen

(* Encoding, key provider or AES failed: the second critical section. *)
seal_fails(t) ==
    /\ export[t].at = "sealing"
    /\ session' = [session EXCEPT !.gen = give_back(session.gen, export[t])]
    /\ export' = [export EXCEPT ![t] = NoExport]
    /\ owner' = owner \ {t}
    /\ UNCHANGED <<tracker, disk, sealed, complete, lags>>

-----------------------------------------------------------------------------
(* The host writes a snapshot: a slot in one record, or blob and tracker in
   two writes of the order it chose, and lets go of the tracker. *)
written(t) ==
    /\ complete' = complete \union {blob_of(export[t])}
    /\ export' = [export EXCEPT ![t] = NoExport]
    /\ owner' = {}

persist_slot(t) ==
    /\ host = "slot" /\ export[t].at = "sealed"
    /\ disk' = [tracker |-> tracker, blob |-> {blob_of(export[t])}]
    /\ written(t)
    /\ UNCHANGED <<session, tracker, sealed, lags>>

write_blob(t) == disk' = [disk EXCEPT !.blob = {blob_of(export[t])}]
write_tracker == disk' = [disk EXCEPT !.tracker = tracker]

persist_first(t) ==
    /\ host # "slot" /\ export[t].at = "sealed"
    /\ IF host = "blob_first" THEN write_blob(t) ELSE write_tracker
    /\ export' = [export EXCEPT ![t].at = "half"]
    /\ UNCHANGED <<session, tracker, owner, sealed, complete, lags>>

persist_second(t) ==
    /\ export[t].at = "half"
    /\ IF host = "blob_first" THEN write_tracker ELSE write_blob(t)
    /\ written(t)
    /\ UNCHANGED <<session, tracker, sealed, lags>>

-----------------------------------------------------------------------------
(* Session::destroy wipes the keys and marks the session; state_counter and
   the exports in flight, which hold their own copy, go on. *)
destroy ==
    /\ session.status = "live"
    /\ session' = [session EXCEPT !.status = "destroyed"]
    /\ UNCHANGED <<export, tracker, owner, disk, sealed, complete, lags>>

(* The process dies: memory is gone, the storage stays. *)
crash ==
    /\ session.status # "dead"
    /\ session' = [status |-> "dead", gen |-> 0, sent |-> 0]
    /\ export' = [t \in Threads |-> NoExport]
    /\ owner' = {} /\ tracker' = new_tracker /\ sealed' = {}
    /\ UNCHANGED <<disk, complete, lags>>

(* The storage serves an earlier completed snapshot in place of the blob.  A
   slot is one record: an earlier slot brings its own tracker back, which no
   restore can tell from the latest. *)
lag(b) ==
    /\ session.status = "dead" /\ lags < MaxLags /\ host # "slot"
    /\ disk' = [disk EXCEPT !.blob = {b}]
    /\ lags' = lags + 1
    /\ UNCHANGED <<session, export, tracker, owner, sealed, complete>>

(* Restart: the tracker is deserialized and a blob it accepts is restored. *)
restore(b) ==
    /\ session.status = "dead"
    /\ accepts(disk.tracker, b)
    /\ tracker' = note_successful_restore(disk.tracker, b.counter)
    /\ session' = [status |-> "live", gen |-> b.gen, sent |-> b.sent]
    /\ sealed' = {b}
    /\ UNCHANGED <<export, owner, disk, complete, lags>>

(* After a restore the host writes the advanced watermark. *)
persist_watermark ==
    /\ session.status = "live" /\ owner = {} /\ disk.tracker # tracker
    /\ disk' = [disk EXCEPT !.tracker = tracker]
    /\ complete' = complete \union disk.blob
    /\ UNCHANGED <<session, export, tracker, owner, sealed, lags>>

Step ==
    \/ session_encrypt \/ destroy \/ crash \/ persist_watermark
    \/ \E t \in Threads :
          \/ \E tracked \in BOOLEAN : begin_export(t, tracked)
          \/ seal(t) \/ seal_fails(t)
          \/ persist_slot(t) \/ persist_first(t) \/ persist_second(t)
    \/ \E b \in complete : lag(b)
    \/ \E b \in disk.blob : restore(b)

StoreNext == Step /\ UNCHANGED host

StoreSpec == StoreInit /\ [][StoreNext]_store_vars

-----------------------------------------------------------------------------
StoreTypeOK ==
    /\ session \in [status : {"live", "destroyed", "dead"}, gen : Nat, sent : Nat]
    /\ export \in [Threads -> [at : Places, tracked : BOOLEAN, counter : Nat, gen : Nat, sent : Nat]]
    /\ tracker \in Tracker /\ owner \subseteq Threads
    /\ disk \in [tracker : Tracker, blob : SUBSET Blob]
    /\ sealed \subseteq Blob /\ complete \subseteq Blob
    /\ lags \in Nat

(* The snapshots of this session object: sealed ones and copies in flight. *)
InFlight == {t \in Threads : export[t].at = "sealing"}

(* state_counter numbers the snapshots of a session: no two exports, however
   they interleave and whichever of them fail and give their generation back,
   seal different states under one generation, and the counter never falls
   below a generation in use (the `state_counter == next_gen` test in
   export_sealed_state's error path). *)
GenerationsDistinct ==
    /\ \A t, u \in InFlight : export[t].gen = export[u].gen => t = u
    /\ \A t \in InFlight :
          export[t].gen <= session.gen /\ \A b \in sealed : b.gen # export[t].gen
    /\ \A b \in sealed : b.gen <= session.gen

(* A later generation never holds an older ratchet position: copy and
   generation are taken under one lock. *)
LaterHoldsNewer ==
    \A b \in sealed :
        /\ \A c \in sealed : b.gen < c.gen => b.sent <= c.sent
        /\ \A t \in InFlight : b.gen < export[t].gen => b.sent <= export[t].sent

(* The generations of a session's snapshots are in the order of what they
   hold, and no two hold different states under one. *)
GenerationsOrdered == GenerationsDistinct /\ LaterHoldsNewer

(* Whatever the step at which the process died, a blob found in the storage
   is restored, unless a snapshot with a larger counter was completed: a slot,
   and the order blob, then tracker, lose no session.  The other order does: a
   crash between the writes leaves a floor above every blob there is. *)
RefusedOnlyIfSuperseded ==
    host \in {"slot", "blob_first"} =>
    \A b \in disk.blob : accepts(disk.tracker, b) \/ \E c \in complete : c.counter > b.counter

(* A running session is never behind a snapshot that was completed, in
   whichever order a host makes its two writes and even if the storage served
   an older blob after a crash: no ratchet position, hence no message key, is
   used a second time below it. *)
NoRollback ==
    session.status # "dead" => \A b \in complete : b.sent <= session.sent
=============================================================================
