----------------------------- MODULE StoredProofs -----------------------------
(***************************************************************************)
(* What is stored for later is not taken back.                             *)
(*                                                                         *)
(* Relay calls, for any number of workers, devices and retries: a worker's *)
(* variables justify the exchange it is about to try (Decided) and the     *)
(* exchanges it lost (Paid); a committed exchange is then a step of        *)
(* CallRecord, and the order of the signals follows from CallRecord alone. *)
(*                                                                         *)
(* Sealed state: generations of concurrent exports stay distinct and       *)
(* ordered, and no restore goes behind a completed snapshot, for any       *)
(* number of threads, any bounds, any order of the host's two writes and   *)
(* any crashes.                                                            *)
(***************************************************************************)
EXTENDS SealedState, RelayCalls, TLAPS

-----------------------------------------------------------------------------
(* Sealed state.                                                          *)

Export == [at : Places, tracked : BOOLEAN, counter : Nat, gen : Nat, sent : Nat]

(* A thread's export holds a well-formed snapshot. *)
LEMMA BlobOfExport == ASSUME NEW e \in Export PROVE blob_of(e) \in Blob
BY DEF Export, blob_of, Blob

LEMMA IdleIsExport == NoExport \in Export
BY DEF NoExport, Export, Places

LEMMA TrackerTypes ==
    ASSUME NEW t \in Tracker, NEW c \in Nat
    PROVE  /\ note_successful_export(t, c) \in Tracker
           /\ note_successful_restore(t, c) \in Tracker
           /\ next_export_counter(t) \in Nat
           /\ min_import_counter(t) \in Nat
           /\ new_tracker \in Tracker
BY DEF Tracker, note_successful_export, note_successful_restore, next_export_counter,
       min_import_counter, new_tracker

(* Every step keeps the types, given that an export in flight has taken a
   generation. *)
LEMMA TypeStep ==
    ASSUME StoreTypeOK, \A t \in InFlight : export[t].gen >= 1, [StoreNext]_store_vars
    PROVE  StoreTypeOK'
<1> DEFINE Session == [status : {"live", "destroyed", "dead"}, gen : Nat, sent : Nat]
<1>1. /\ session \in Session /\ export \in [Threads -> Export] /\ tracker \in Tracker
      /\ owner \subseteq Threads /\ disk \in [tracker : Tracker, blob : SUBSET Blob]
      /\ sealed \subseteq Blob /\ complete \subseteq Blob /\ lags \in Nat
  BY DEF StoreTypeOK, Export
<1>3. CASE session_encrypt
  BY <1>1, <1>3 DEF session_encrypt, StoreTypeOK, Export
<1>4. CASE destroy
  BY Zenon, <1>1, <1>4 DEF destroy, StoreTypeOK, Export
<1>5. CASE crash
  BY Zenon, <1>1, <1>5, IdleIsExport, TrackerTypes DEF crash, StoreTypeOK, Export
<1>6. CASE persist_watermark
  BY Zenon, <1>1, <1>6 DEF persist_watermark, StoreTypeOK, Export
<1>7. ASSUME NEW t \in Threads, NEW tracked \in BOOLEAN, begin_export(t, tracked)
      PROVE  StoreTypeOK'
  <2> DEFINE e == [at |-> "sealing", tracked |-> tracked, gen |-> session.gen + 1, sent |-> session.sent,
                   counter |-> IF tracked THEN next_export_counter(tracker) ELSE 1]
  <2>0. next_export_counter(tracker) \in Nat
    BY <1>1, TrackerTypes
  <2>1. e \in Export
    BY <1>1, <2>0 DEF Export, Places
  <2>2. export' = [export EXCEPT ![t] = e]
    BY <1>7 DEF begin_export
  <2>3. session' \in Session
    BY <1>1, <1>7 DEF begin_export
  <2> HIDE DEF e
  <2>4. export' \in [Threads -> Export]
    BY <1>1, <2>1, <2>2
  <2> QED
    BY Zenon, <1>1, <1>7, <2>3, <2>4 DEF begin_export, StoreTypeOK, Export
<1>8. ASSUME NEW t \in Threads, seal(t) PROVE StoreTypeOK'
  <2>1. export[t] \in Export /\ export[t].counter \in Nat
    BY <1>1 DEF Export
  <2>2. [export[t] EXCEPT !.at = "sealed"] \in Export
    BY <2>1 DEF Export, Places
  <2>3. export' \in [Threads -> Export]
    BY Zenon, <1>1, <1>8, <2>2, IdleIsExport DEF seal
  <2>4. tracker' \in Tracker
    BY Zenon, <1>1, <1>8, <2>1, TrackerTypes DEF seal
  <2>5. sealed' \subseteq Blob
    BY Zenon, <1>1, <1>8, <2>1, BlobOfExport DEF seal
  <2> QED
    BY Zenon, <1>1, <1>8, <2>3, <2>4, <2>5 DEF seal, StoreTypeOK, Export
<1>9. ASSUME NEW t \in Threads, seal_fails(t) PROVE StoreTypeOK'
  <2>1. export[t] \in Export /\ export[t].gen >= 1
    BY <1>1, <1>9 DEF seal_fails, InFlight
  <2>2. give_back(session.gen, export[t]) \in Nat
    BY <1>1, <2>1 DEF give_back, Export
  <2>3. session' \in Session
    BY <1>1, <1>9, <2>2 DEF seal_fails
  <2>4. export' \in [Threads -> Export]
    BY <1>1, <1>9, IdleIsExport DEF seal_fails
  <2> QED
    BY Zenon, <1>1, <1>9, <2>3, <2>4 DEF seal_fails, StoreTypeOK, Export
<1>10. ASSUME NEW t \in Threads, persist_slot(t) \/ persist_first(t) \/ persist_second(t)
       PROVE  StoreTypeOK'
  <2>1. export[t] \in Export /\ blob_of(export[t]) \in Blob
    BY <1>1, BlobOfExport
  <2>2. [export[t] EXCEPT !.at = "half"] \in Export
    BY <2>1 DEF Export, Places
  <2>3. export' \in [Threads -> Export]
    BY Zenon, <1>1, <1>10, <2>2, IdleIsExport DEF persist_slot, persist_first, persist_second, written
  <2>4. disk' \in [tracker : Tracker, blob : SUBSET Blob]
    BY <1>1, <1>10, <2>1 DEF persist_slot, persist_first, persist_second, write_blob, write_tracker
  <2>5. complete' \subseteq Blob /\ owner' \subseteq Threads
    BY Zenon, <1>1, <1>10, <2>1 DEF persist_slot, persist_first, persist_second, written
  <2> QED
    BY Zenon, <1>1, <1>10, <2>3, <2>4, <2>5 DEF persist_slot, persist_first, persist_second, StoreTypeOK, Export
<1>11. ASSUME NEW b \in complete, lag(b) PROVE StoreTypeOK'
  BY <1>1, <1>11 DEF lag, StoreTypeOK, Export
<1>12. ASSUME NEW b \in disk.blob, restore(b) PROVE StoreTypeOK'
  <2>1. b \in Blob /\ b.counter \in Nat /\ b.gen \in Nat /\ b.sent \in Nat
    BY <1>1 DEF Blob
  <2>2. tracker' \in Tracker
    BY Zenon, <1>1, <1>12, <2>1, TrackerTypes DEF restore
  <2> QED
    BY Zenon, <1>1, <1>12, <2>1, <2>2 DEF restore, StoreTypeOK, Export
<1>13. CASE UNCHANGED store_vars
  BY Zenon, <1>1, <1>13 DEF store_vars, StoreTypeOK, Export
<1> QED
  BY Zenon, <1>3, <1>4, <1>5, <1>6, <1>7, <1>8, <1>9, <1>10, <1>11, <1>12, <1>13 DEF StoreNext, Step

-----------------------------------------------------------------------------
(* What relates the copies to the session they were taken from: a copy is
   never ahead of the session, and the copies in flight are ordered by
   generation as the sealed ones are. *)
Copies ==
    /\ \A t \in InFlight : export[t].gen >= 1 /\ export[t].sent <= session.sent
    /\ \A b \in sealed : b.sent <= session.sent
    /\ \A t, u \in InFlight : export[t].gen < export[u].gen => export[t].sent <= export[u].sent
    /\ \A t \in InFlight : \A b \in sealed : export[t].gen < b.gen => export[t].sent <= b.sent
    /\ session.status = "dead" => InFlight = {} /\ sealed = {}

GenInv == StoreTypeOK /\ GenerationsDistinct /\ LaterHoldsNewer /\ Copies

(* What persists a snapshot takes no copy and gives no generation. *)
LEMMA PersistMoves ==
  ASSUME StoreTypeOK, NEW t \in Threads, persist_slot(t) \/ persist_first(t) \/ persist_second(t)
  PROVE  /\ session' = session /\ sealed' = sealed
         /\ InFlight' = InFlight /\ \A u \in InFlight : export'[u] = export[u]
<1>1. session' = session /\ sealed' = sealed
  BY DEF persist_slot, persist_first, persist_second
<1>2. PICK x : export' = [export EXCEPT ![t] = x] /\ x.at # "sealing"
  <2>1. CASE persist_slot(t) \/ persist_second(t)
    BY Zenon, <2>1 DEF persist_slot, persist_second, written, NoExport
  <2>2. CASE persist_first(t)
    <3>1. export' = [export EXCEPT ![t] = [export[t] EXCEPT !.at = "half"]]
      BY <2>2 DEF persist_first, StoreTypeOK
    <3>2. [export[t] EXCEPT !.at = "half"].at = "half"
      BY DEF StoreTypeOK
    <3> QED
      BY Zenon, <3>1, <3>2
  <2> QED
    BY <2>1, <2>2
<1>3. export[t].at # "sealing"
  BY DEF persist_slot, persist_first, persist_second
<1>4. \A u \in Threads : export'[u] = IF u = t THEN x ELSE export[u]
  BY <1>2 DEF StoreTypeOK
<1> QED
  BY <1>1, <1>2, <1>3, <1>4 DEF InFlight

(* The generations only speak of the session and the copies taken of it. *)
LEMMA SameCopies ==
  ASSUME GenerationsDistinct, LaterHoldsNewer, Copies, session' = session, sealed' = sealed,
         InFlight' = InFlight, \A u \in InFlight : export'[u] = export[u]
  PROVE  GenerationsDistinct' /\ LaterHoldsNewer' /\ Copies'
BY DEF GenerationsDistinct, LaterHoldsNewer, Copies

LEMMA GenStep == GenInv /\ [StoreNext]_store_vars => GenInv'
<1> SUFFICES ASSUME GenInv, [StoreNext]_store_vars PROVE GenInv'
  OBVIOUS
<1>0. StoreTypeOK'
  BY TypeStep DEF GenInv, Copies
<1>1. /\ session.gen \in Nat /\ session.sent \in Nat
      /\ \A t \in Threads : export[t].gen \in Nat /\ export[t].sent \in Nat /\ export[t].at \in Places
      /\ \A b \in sealed : b.gen \in Nat /\ b.sent \in Nat
      /\ \A b \in disk.blob : b.gen \in Nat /\ b.sent \in Nat
  BY DEF GenInv, StoreTypeOK, Blob
<1>2. GenerationsDistinct /\ LaterHoldsNewer /\ Copies /\ DOMAIN export = Threads
  BY DEF GenInv, StoreTypeOK
<1> USE DEF GenerationsDistinct, LaterHoldsNewer, Copies, InFlight
<1> SUFFICES (GenerationsDistinct /\ LaterHoldsNewer /\ Copies)'
  BY Zenon, <1>0 DEF GenInv
<1>3. CASE session_encrypt
  BY <1>1, <1>2, <1>3 DEF session_encrypt, GenInv, StoreTypeOK
<1>4. CASE destroy
  BY <1>1, <1>2, <1>4 DEF destroy, GenInv, StoreTypeOK
<1>5. CASE crash
  BY Zenon, <1>5 DEF crash, NoExport
<1>6. CASE persist_watermark
  BY <1>2, <1>6 DEF persist_watermark
<1>7. ASSUME NEW t \in Threads, NEW tracked \in BOOLEAN, begin_export(t, tracked)
      PROVE  (GenerationsDistinct /\ LaterHoldsNewer /\ Copies)'
  <2>1. /\ session'.gen = session.gen + 1 /\ session'.sent = session.sent
        /\ session'.status # "dead" /\ sealed' = sealed
    BY Zenon, <1>7 DEF begin_export, GenInv, StoreTypeOK
  <2>2. /\ export'[t].at = "sealing" /\ export'[t].gen = session.gen + 1
        /\ export'[t].sent = session.sent
        /\ \A u \in Threads \ {t} : export'[u] = export[u]
    BY Zenon, <1>7, <1>2 DEF begin_export
  <2>3. \A u \in Threads : u \in InFlight' <=> u = t \/ u \in InFlight
    BY <2>2
  <2> QED
    BY <1>1, <1>2, <2>1, <2>2, <2>3
<1>8. ASSUME NEW t \in Threads, seal(t) PROVE (GenerationsDistinct /\ LaterHoldsNewer /\ Copies)'
  <2>1. /\ session' = session /\ sealed' = sealed \union {blob_of(export[t])}
        /\ blob_of(export[t]).gen = export[t].gen /\ blob_of(export[t]).sent = export[t].sent
    BY <1>8 DEF seal, blob_of
  <2>2. export'[t].at # "sealing" /\ \A u \in Threads \ {t} : export'[u] = export[u]
    BY <1>8, <1>2 DEF seal, NoExport, GenInv, StoreTypeOK
  <2>3. \A u \in Threads : u \in InFlight' <=> u # t /\ u \in InFlight
    BY <2>2
  <2>4. t \in InFlight
    BY <1>8 DEF seal
  <2> QED
    BY <1>1, <1>2, <2>1, <2>2, <2>3, <2>4
<1>9. ASSUME NEW t \in Threads, seal_fails(t) PROVE (GenerationsDistinct /\ LaterHoldsNewer /\ Copies)'
  <2>1. /\ session'.gen = give_back(session.gen, export[t])
        /\ session'.sent = session.sent /\ session'.status = session.status /\ sealed' = sealed
    BY Zenon, <1>9 DEF seal_fails, GenInv, StoreTypeOK
  <2>2. export'[t].at # "sealing" /\ \A u \in Threads \ {t} : export'[u] = export[u]
    BY Zenon, <1>9, <1>2 DEF seal_fails, NoExport, GenInv, StoreTypeOK
  <2>3. \A u \in Threads : u \in InFlight' <=> u # t /\ u \in InFlight
    BY <2>2
  <2>4. t \in InFlight
    BY <1>9 DEF seal_fails
  <2> QED
    BY <1>1, <1>2, <2>1, <2>2, <2>3, <2>4 DEF give_back
<1>10. ASSUME NEW t \in Threads, persist_slot(t) \/ persist_first(t) \/ persist_second(t)
       PROVE  (GenerationsDistinct /\ LaterHoldsNewer /\ Copies)'
  BY Zenon, <1>2, <1>10, PersistMoves, SameCopies DEF GenInv
<1>11. ASSUME NEW b \in complete, lag(b) PROVE (GenerationsDistinct /\ LaterHoldsNewer /\ Copies)'
  BY Zenon, <1>2, <1>11 DEF lag
<1>12. ASSUME NEW b \in disk.blob, restore(b) PROVE (GenerationsDistinct /\ LaterHoldsNewer /\ Copies)'
  BY <1>1, <1>2, <1>12 DEF restore
<1>13. CASE UNCHANGED store_vars
  BY <1>2, <1>13 DEF store_vars
<1> QED
  BY Zenon, <1>3, <1>4, <1>5, <1>6, <1>7, <1>8, <1>9, <1>10, <1>11, <1>12, <1>13 DEF StoreNext, Step

LEMMA GenInvariant == StoreSpec => []GenInv
<1>1. StoreInit => GenInv
  BY DEF StoreInit, GenInv, StoreTypeOK, GenerationsDistinct, LaterHoldsNewer, Copies, InFlight,
         NoExport, Places, new_tracker, Tracker, Blob
<1> QED
  BY <1>1, GenStep, PTL DEF StoreSpec

(* Every variable keeps its type; that a failed export never takes
   state_counter below zero needs the generation it had taken. *)
THEOREM StoreTypeCorrect == StoreSpec => []StoreTypeOK
BY GenInvariant, PTL DEF GenInv

(* However the exports of a session interleave and fail, no two snapshots
   share a generation and state_counter stays above them all. *)
THEOREM GenerationsStayDistinct == StoreSpec => []GenerationsDistinct
BY GenInvariant, PTL DEF GenInv

(* A snapshot with a later generation never holds an older state. *)
THEOREM LaterGenerationsHoldNewerState == StoreSpec => []LaterHoldsNewer
BY GenInvariant, PTL DEF GenInv

(* Both together: generations number the snapshots in the order of what they
   hold. *)
THEOREM GenerationsStayOrdered == StoreSpec => []GenerationsOrdered
BY GenInvariant, PTL DEF GenInv, GenerationsOrdered

-----------------------------------------------------------------------------
Ordered(S, T) ==
    \A b \in S : \A c \in T :
        /\ b.counter >= c.counter => b.sent >= c.sent
        /\ b.counter <= c.counter => b.sent <= c.sent

Running == session.status # "dead"

(* The storage: a completed snapshot's counter is at or below the floor its
   tracker imposes, and counters order the states of the snapshots in it. *)
StorageOK ==
    /\ disk.tracker.latest_issued >= disk.tracker.max_restored
    /\ \A b, c \in disk.blob : b = c
    /\ \A c \in complete : c.counter <= disk.tracker.latest_issued
    /\ Ordered(complete, complete) /\ Ordered(disk.blob, complete)

(* The memory of a running process is not behind its storage. *)
MemoryOK ==
    /\ tracker.latest_issued >= tracker.max_restored
    /\ Running => \A c \in complete \union disk.blob :
                      c.sent <= session.sent /\ c.counter <= tracker.latest_issued

(* What the first of the two writes has left in the storage. *)
Half(t) ==
    IF host = "blob_first" THEN disk.blob = {blob_of(export[t])} ELSE disk.tracker = tracker

(* The one export that holds the tracker is newer than every completed
   snapshot, and half-written snapshots are where the host left them. *)
HolderOK ==
    \A t \in Threads :
        /\ export[t].at \in {"sealed", "half"} => export[t].tracked
        /\ ~Running => export[t].at = "idle"
        /\ export[t].at # "idle" /\ export[t].tracked =>
              /\ owner = {t} /\ export[t].sent <= session.sent
              /\ \A c \in complete : c.counter < export[t].counter /\ c.sent <= export[t].sent
              /\ export[t].at = "sealing" => export[t].counter = tracker.latest_issued + 1
              /\ export[t].at # "sealing" => export[t].counter = tracker.latest_issued
              /\ export[t].at = "half" => Half(t)

RollInv == StoreTypeOK /\ StorageOK /\ MemoryOK /\ HolderOK

LEMMA RollInit == StoreInit => RollInv
<1> SUFFICES ASSUME StoreInit PROVE RollInv
  OBVIOUS
<1>1. StoreTypeOK
  BY Zenon DEF StoreInit, StoreTypeOK, NoExport, Places, new_tracker, Tracker
<1>2. StorageOK
  BY DEF StoreInit, StorageOK, Ordered, new_tracker
<1>3. MemoryOK
  BY DEF StoreInit, MemoryOK, new_tracker
<1>4. HolderOK
  BY Zenon DEF StoreInit, HolderOK, Running, NoExport
<1> QED
  BY <1>1, <1>2, <1>3, <1>4 DEF RollInv

LEMMA RollStep == GenInv /\ RollInv /\ [StoreNext]_store_vars => RollInv'
<1> SUFFICES ASSUME GenInv, RollInv, [StoreNext]_store_vars PROVE RollInv'
  OBVIOUS
<1>0. StoreTypeOK'
  BY TypeStep DEF GenInv, Copies
<1>1. /\ session.sent \in Nat /\ session.status \in {"live", "destroyed", "dead"}
      /\ export \in [Threads -> Export]
      /\ DOMAIN export = Threads /\ \A t \in Threads : export[t] \in Export
      /\ tracker \in Tracker /\ disk.tracker \in Tracker
      /\ complete \subseteq Blob /\ disk.blob \subseteq Blob
      /\ disk \in [tracker : Tracker, blob : SUBSET Blob]
      /\ session = [session EXCEPT !.sent = session.sent]
      /\ host' = host
  BY DEF RollInv, StoreTypeOK, Export, StoreNext, store_vars
<1>2. StorageOK /\ MemoryOK /\ HolderOK
  BY DEF RollInv
<1> SUFFICES (StorageOK /\ MemoryOK /\ HolderOK)'
  BY <1>0 DEF RollInv
<1> USE DEF StorageOK, MemoryOK, HolderOK, Running, Half, Ordered, Tracker, Blob, Export
<1>3. CASE session_encrypt
  <2>1. /\ session'.sent = session.sent + 1 /\ session'.status = session.status
        /\ UNCHANGED <<export, tracker, owner, disk, complete>>
    BY Zenon, <1>3 DEF session_encrypt, RollInv, StoreTypeOK
  <2> QED
    BY <1>1, <1>2, <2>1
<1>4. CASE destroy
  <2>1. /\ session'.sent = session.sent /\ session.status = "live" /\ session'.status = "destroyed"
        /\ UNCHANGED <<export, tracker, owner, disk, complete>>
    BY Zenon, <1>4 DEF destroy, RollInv, StoreTypeOK
  <2> QED
    BY <1>1, <1>2, <2>1
<1>5. CASE crash
  BY <1>1, <1>2, <1>5 DEF crash, NoExport, new_tracker
<1>6. CASE persist_watermark
  <2>1. /\ session' = session /\ export' = export /\ tracker' = tracker /\ owner' = owner /\ owner = {}
        /\ session.status = "live" /\ complete' = complete \union disk.blob
        /\ disk'.blob = disk.blob /\ disk'.tracker = tracker
    BY Zenon, <1>1, <1>6 DEF persist_watermark
  <2>2. \A t \in Threads : export[t].at # "idle" => ~export[t].tracked
    BY Zenon, <1>2, <2>1
  <2>3. StorageOK'
    BY <1>1, <1>2, <2>1
  <2>4. MemoryOK'
    BY Zenon, <1>1, <1>2, <2>1
  <2>5. HolderOK'
    BY Zenon, <1>1, <1>2, <2>1, <2>2
  <2> QED
    BY Zenon, <2>3, <2>4, <2>5
<1>7. ASSUME NEW t \in Threads, NEW tracked \in BOOLEAN, begin_export(t, tracked)
      PROVE  (StorageOK /\ MemoryOK /\ HolderOK)'
  <2>1. /\ session'.sent = session.sent /\ session'.status = session.status
        /\ session.status = "live" /\ UNCHANGED <<tracker, disk, complete>>
    BY Zenon, <1>7 DEF begin_export, RollInv, StoreTypeOK
  <2>2. StorageOK' /\ MemoryOK'
    BY Zenon, <1>1, <1>2, <2>1
  <2>3. /\ export'[t].at = "sealing" /\ export'[t].tracked = tracked /\ export'[t].sent = session.sent
        /\ tracked => export'[t].counter = tracker.latest_issued + 1
        /\ \A u \in Threads \ {t} : export'[u] = export[u]
        /\ IF tracked THEN owner = {} /\ owner' = {t} ELSE owner' = owner
    BY Zenon, <1>7, <1>1 DEF begin_export, next_export_counter
  <2>4. HolderOK'
    <3>1. ASSUME NEW u \in Threads \ {t} PROVE (HolderOK!(u))'
      <4>1. export'[u] = export[u] /\ (owner = {u} => owner' = owner)
        BY Zenon, <2>3
      <4>2. HolderOK!(u)
        BY Zenon, <1>2
      <4> QED
        BY Zenon, <1>1, <2>1, <4>1, <4>2
    <3>2. (HolderOK!(t))'
      BY <1>1, <1>2, <2>1, <2>3
    <3> QED
      BY Zenon, <3>1, <3>2
  <2> QED
    BY Zenon, <2>2, <2>4
<1>8. ASSUME NEW t \in Threads, seal(t) PROVE (StorageOK /\ MemoryOK /\ HolderOK)'
  <2>1. /\ UNCHANGED <<session, owner, disk, complete>> /\ export[t].at = "sealing"
        /\ \A u \in Threads \ {t} : export'[u] = export[u]
    BY <1>8, <1>1 DEF seal
  <2>2. CASE export[t].tracked
    <3>0. export'[t] = [export[t] EXCEPT !.at = "sealed"]
      BY Zenon, <1>8, <1>1, <2>2 DEF seal
    <3>1. /\ export'[t].at = "sealed" /\ export'[t].tracked
          /\ export'[t].counter = export[t].counter /\ export'[t].sent = export[t].sent
      BY <1>1, <2>2, <3>0
    <3>2. owner = {t} /\ export[t].counter = tracker.latest_issued + 1
      BY Zenon, <1>2, <2>1, <2>2
    <3>3. tracker'.latest_issued = export[t].counter /\ tracker'.max_restored = tracker.max_restored
      BY <1>8, <1>1, <1>2, <2>2, <3>2 DEF seal, note_successful_export, export_counter_ok
    <3>4. \A u \in Threads \ {t} : export[u].at # "idle" => ~export[u].tracked
      BY Zenon, <1>2, <3>2
    <3>5. StorageOK' /\ MemoryOK'
      BY <1>1, <1>2, <2>1, <3>2, <3>3
    <3>6. HolderOK'
      <4> SUFFICES ASSUME NEW u \in Threads PROVE (HolderOK!(u))'
        BY Zenon
      <4> QED
        BY <1>1, <1>2, <2>1, <2>2, <3>1, <3>2, <3>3, <3>4
    <3> QED
      BY Zenon, <3>5, <3>6
  <2>3. CASE ~export[t].tracked
    BY <1>8, <1>1, <1>2, <2>1, <2>3 DEF seal, NoExport
  <2> QED
    BY Zenon, <2>2, <2>3
<1>9. ASSUME NEW t \in Threads, seal_fails(t) PROVE (StorageOK /\ MemoryOK /\ HolderOK)'
  <2>1. /\ session'.sent = session.sent /\ session'.status = session.status
        /\ UNCHANGED <<tracker, disk, complete>> /\ owner' = owner \ {t}
    BY Zenon, <1>9 DEF seal_fails, RollInv, StoreTypeOK
  <2>2. export'[t].at = "idle" /\ \A u \in Threads \ {t} : export'[u] = export[u]
    BY Zenon, <1>9, <1>1 DEF seal_fails, NoExport
  <2> QED
    BY <1>1, <1>2, <2>1, <2>2
<1>10. ASSUME NEW t \in Threads, persist_slot(t) \/ persist_second(t)
       PROVE  (StorageOK /\ MemoryOK /\ HolderOK)'
  <2> DEFINE b == blob_of(export[t])
  <2>1. /\ UNCHANGED <<session, tracker>> /\ owner' = {} /\ complete' = complete \union {b}
        /\ export'[t].at = "idle" /\ \A u \in Threads \ {t} : export'[u] = export[u]
        /\ export[t].at \in {"sealed", "half"}
    BY <1>10, <1>1 DEF persist_slot, persist_second, written, NoExport
  <2>2. /\ b \in Blob /\ b.counter = export[t].counter /\ b.sent = export[t].sent
    BY Zenon, <1>1, BlobOfExport DEF blob_of
  <2>3. /\ export[t].tracked /\ owner = {t} /\ export[t].sent <= session.sent
        /\ export[t].counter = tracker.latest_issued /\ session.status # "dead"
        /\ \A c \in complete : c.counter < export[t].counter /\ c.sent <= export[t].sent
        /\ export[t].at = "half" => Half(t)
    BY Zenon, <1>2, <2>1
  <2>4. disk'.tracker = tracker /\ disk'.blob = {b}
    BY <1>10, <1>1, <2>3 DEF persist_slot, persist_second, write_blob, write_tracker
  <2>5. \A u \in Threads \ {t} : export[u].at # "idle" => ~export[u].tracked
    BY Zenon, <1>2, <2>3
  <2> HIDE DEF b
  <2>6. StorageOK'
    BY <1>1, <1>2, <2>1, <2>2, <2>3, <2>4
  <2>7. MemoryOK'
    BY <1>1, <1>2, <2>1, <2>2, <2>3, <2>4
  <2>8. HolderOK'
    BY <1>1, <1>2, <2>1, <2>3, <2>5
  <2> QED
    BY Zenon, <2>6, <2>7, <2>8
<1>11. ASSUME NEW t \in Threads, persist_first(t) PROVE (StorageOK /\ MemoryOK /\ HolderOK)'
  <2> DEFINE b == blob_of(export[t])
  <2>1. /\ UNCHANGED <<session, tracker, owner, complete>> /\ export[t].at = "sealed"
        /\ \A u \in Threads \ {t} : export'[u] = export[u]
        /\ export'[t].at = "half" /\ export'[t].tracked = export[t].tracked
        /\ export'[t].counter = export[t].counter /\ export'[t].sent = export[t].sent
        /\ blob_of(export'[t]) = b
    BY <1>11, <1>1 DEF persist_first, blob_of
  <2>2. /\ b \in Blob /\ b.counter = export[t].counter /\ b.sent = export[t].sent
    BY Zenon, <1>1, BlobOfExport DEF blob_of
  <2>3. /\ export[t].tracked /\ owner = {t} /\ export[t].sent <= session.sent
        /\ export[t].counter = tracker.latest_issued /\ session.status # "dead"
        /\ \A c \in complete : c.counter < export[t].counter /\ c.sent <= export[t].sent
    BY Zenon, <1>2, <2>1
  <2>4. IF host = "blob_first" THEN disk'.tracker = disk.tracker /\ disk'.blob = {b}
                               ELSE disk'.tracker = tracker /\ disk'.blob = disk.blob
    BY Zenon, <1>11, <1>1 DEF persist_first, write_blob, write_tracker
  <2>5. \A u \in Threads \ {t} : export[u].at # "idle" => ~export[u].tracked
    BY Zenon, <1>2, <2>3
  <2>6. StorageOK'
    <3> HIDE DEF b
    <3> QED
      BY <1>1, <1>2, <2>1, <2>2, <2>3, <2>4
  <2>7. MemoryOK'
    <3> HIDE DEF b
    <3> QED
      BY <1>1, <1>2, <2>1, <2>2, <2>3, <2>4
  <2>8. Half(t)'
    BY Zenon, <1>1, <2>1, <2>4
  <2>9. HolderOK'
    <3>1. ASSUME NEW u \in Threads \ {t} PROVE (HolderOK!(u))'
      BY <1>1, <1>2, <2>1, <2>3, <2>5
    <3>2. (HolderOK!(t))'
      BY Zenon, <1>1, <1>2, <2>1, <2>3, <2>8
    <3> QED
      BY Zenon, <3>1, <3>2
  <2> QED
    BY Zenon, <2>6, <2>7, <2>9
<1>12. ASSUME NEW b \in complete, lag(b) PROVE (StorageOK /\ MemoryOK /\ HolderOK)'
  <2>1. /\ UNCHANGED <<session, export, tracker, owner, complete>> /\ session.status = "dead"
        /\ disk'.tracker = disk.tracker /\ disk'.blob = {b}
    BY Zenon, <1>12, <1>1 DEF lag
  <2> QED
    BY Zenon, <1>1, <1>2, <2>1
<1>13. ASSUME NEW b \in disk.blob, restore(b) PROVE (StorageOK /\ MemoryOK /\ HolderOK)'
  <2>1. /\ UNCHANGED <<export, owner, disk, complete>> /\ session.status = "dead"
        /\ session'.sent = b.sent /\ session'.status = "live"
        /\ tracker' = note_successful_restore(disk.tracker, b.counter)
        /\ b.counter >= min_import_counter(disk.tracker)
    BY Zenon, <1>13 DEF restore, accepts
  <2>2. disk.blob = {b} /\ b.counter \in Nat /\ b.sent \in Nat
    BY <1>1, <1>2
  <2>3. b.counter >= disk.tracker.latest_issued
    BY <1>1, <1>2, <2>1, <2>2 DEF min_import_counter
  <2>4. tracker'.latest_issued = b.counter /\ tracker'.max_restored <= b.counter
    BY <1>1, <1>2, <2>1, <2>2, <2>3 DEF note_successful_restore
  <2>5. tracker'.max_restored \in Nat
    BY <1>0 DEF StoreTypeOK
  <2> QED
    BY <1>1, <1>2, <2>1, <2>2, <2>3, <2>4, <2>5
<1>14. CASE UNCHANGED store_vars
  BY Zenon, <1>2, <1>14 DEF store_vars
<1> QED
  BY Zenon, <1>3, <1>4, <1>5, <1>6, <1>7, <1>8, <1>9, <1>10, <1>11, <1>12, <1>13, <1>14 DEF StoreNext, Step

LEMMA RollInvariant == StoreSpec => [](GenInv /\ RollInv)
<1>1. StoreInit => RollInv
  BY RollInit
<1> QED
  BY <1>1, RollStep, GenInvariant, PTL DEF StoreSpec

(* A running session is never behind a completed snapshot: the floor an
   earlier snapshot left in the storage refuses every older blob. *)
THEOREM NoRestoreGoesBack == StoreSpec => []NoRollback
<1>1. RollInv => NoRollback
  BY DEF RollInv, MemoryOK, Running, NoRollback
<1> QED
  BY <1>1, RollInvariant, PTL

-----------------------------------------------------------------------------
(* A floor that stands for a snapshot of S. *)
Backed(t, S) == t.latest_issued = 0 \/ \E b \in S : b.counter = t.latest_issued

Writing == \E t \in Threads : export[t].at \in {"sealed", "half"}

(* Unless the tracker is written first, the floor in the storage is always
   that of a completed snapshot.  The one in memory is ahead of the storage only while an export that was sealed is
   being written. *)
FloorOK ==
    /\ \A b \in disk.blob \union complete : b.counter > 0
    /\ \A t \in Threads : export[t].at \in {"sealed", "half"} => export[t].counter > 0
    /\ host \in {"slot", "blob_first"} => Backed(disk.tracker, complete)
    /\ host \in {"slot", "blob_first"} /\ Running /\ ~Writing => Backed(tracker, disk.blob \union complete)

LEMMA FloorStep == GenInv /\ RollInv /\ FloorOK /\ [StoreNext]_store_vars => FloorOK'
<1> SUFFICES ASSUME GenInv, RollInv, FloorOK, [StoreNext]_store_vars PROVE FloorOK'
  OBVIOUS
<1>0. host' = host
  BY DEF StoreNext, store_vars
<1>1. /\ session \in [status : {"live", "destroyed", "dead"}, gen : Nat, sent : Nat]
      /\ DOMAIN export = Threads /\ \A t \in Threads : export[t] \in Export
      /\ tracker \in Tracker /\ disk.tracker \in Tracker
      /\ complete \subseteq Blob /\ disk.blob \subseteq Blob
      /\ disk \in [tracker : Tracker, blob : SUBSET Blob]
  BY DEF RollInv, StoreTypeOK, Export
<1>2. HolderOK /\ StorageOK
  BY DEF RollInv
<1> USE <1>0 DEF FloorOK, Backed, Running, Writing
<1>3. CASE session_encrypt \/ destroy
  <2>1. /\ UNCHANGED <<export, tracker, disk, complete>>
        /\ session'.status # "dead" /\ session.status # "dead"
    BY Zenon, <1>1, <1>3 DEF session_encrypt, destroy
  <2> QED
    BY Zenon, <2>1
<1>4. CASE crash
  BY Zenon, <1>4 DEF crash, NoExport
<1>5. CASE persist_watermark
  <2>1. /\ UNCHANGED <<session, export, tracker>> /\ owner = {} /\ session.status = "live"
        /\ complete' = complete \union disk.blob
        /\ disk'.tracker = tracker /\ disk'.blob = disk.blob
    BY Zenon, <1>1, <1>5 DEF persist_watermark
  <2>2. ~Writing
    BY Zenon, <1>2, <2>1 DEF HolderOK
  <2> QED
    BY Zenon, <2>1, <2>2
<1>6. ASSUME NEW t \in Threads, NEW tracked \in BOOLEAN, begin_export(t, tracked) PROVE FloorOK'
  <2>1. /\ UNCHANGED <<tracker, disk, complete>> /\ session.status = "live"
        /\ export[t].at = "idle" /\ export'[t].at = "sealing"
        /\ \A u \in Threads \ {t} : export'[u] = export[u]
    BY Zenon, <1>1, <1>6 DEF begin_export
  <2> QED
    BY Zenon, <2>1
<1>7. ASSUME NEW t \in Threads, seal(t) PROVE FloorOK'
  <2>1. /\ UNCHANGED <<session, disk, complete>> /\ export[t].at = "sealing"
        /\ \A u \in Threads \ {t} : export'[u] = export[u]
    BY Zenon, <1>1, <1>7 DEF seal
  <2>2. CASE export[t].tracked
    <3>1. export'[t].at = "sealed" /\ export'[t].counter = export[t].counter
      BY <1>1, <1>7, <2>2 DEF seal, Export
    <3>2. export[t].counter > 0
      BY <1>1, <1>2, <2>1, <2>2 DEF HolderOK, Tracker
    <3> QED
      BY Zenon, <2>1, <3>1, <3>2
  <2>3. CASE ~export[t].tracked
    BY <1>1, <1>7, <2>1, <2>3 DEF seal, NoExport
  <2> QED
    BY Zenon, <2>2, <2>3
<1>8. ASSUME NEW t \in Threads, seal_fails(t) PROVE FloorOK'
  <2>1. /\ UNCHANGED <<tracker, disk, complete>> /\ session'.status = session.status
        /\ export[t].at = "sealing" /\ export'[t].at = "idle"
        /\ \A u \in Threads \ {t} : export'[u] = export[u]
    BY Zenon, <1>1, <1>8 DEF seal_fails, NoExport
  <2> QED
    BY Zenon, <2>1
<1>9. ASSUME NEW t \in Threads, persist_slot(t) \/ persist_second(t) PROVE FloorOK'
  <2> DEFINE b == blob_of(export[t])
  <2>1. /\ UNCHANGED <<session, tracker>> /\ complete' = complete \union {b}
        /\ export'[t].at = "idle" /\ \A u \in Threads \ {t} : export'[u] = export[u]
        /\ export[t].at \in {"sealed", "half"}
    BY <1>1, <1>9 DEF persist_slot, persist_second, written, NoExport
  <2>2. /\ b.counter = tracker.latest_issued /\ b.counter > 0
        /\ export[t].at = "half" => Half(t)
    BY Zenon, <1>2, <2>1 DEF HolderOK, blob_of
  <2>3. disk'.tracker = tracker /\ disk'.blob = {b}
    BY <1>1, <1>9, <2>2 DEF persist_slot, persist_second, Half, write_blob, write_tracker
  <2> HIDE DEF b
  <2> QED
    BY Zenon, <2>1, <2>2, <2>3
<1>10. ASSUME NEW t \in Threads, persist_first(t) PROVE FloorOK'
  <2>1. /\ UNCHANGED <<session, tracker, complete>> /\ export[t].at = "sealed"
        /\ export'[t].at = "half" /\ export'[t].counter = export[t].counter
        /\ \A u \in Threads \ {t} : export'[u] = export[u]
        /\ host # "slot"
    BY Zenon, <1>1, <1>10 DEF persist_first, Export
  <2>2. CASE host = "blob_first"
    <3>1. disk'.tracker = disk.tracker /\ disk'.blob = {blob_of(export[t])}
      BY Zenon, <1>1, <1>10, <2>2 DEF persist_first, write_blob
    <3> QED
      BY <2>1, <3>1 DEF blob_of
  <2>3. CASE host # "blob_first"
    <3>1. disk'.blob = disk.blob
      BY Zenon, <1>1, <1>10, <2>3 DEF persist_first, write_tracker
    <3> QED
      BY Zenon, <2>1, <2>3, <3>1
  <2> QED
    BY Zenon, <2>2, <2>3
<1>11. ASSUME NEW b \in complete, lag(b) PROVE FloorOK'
  <2>1. /\ UNCHANGED <<session, export, tracker, complete>> /\ session.status = "dead"
        /\ disk'.tracker = disk.tracker /\ disk'.blob = {b}
    BY Zenon, <1>1, <1>11 DEF lag
  <2> QED
    BY Zenon, <2>1
<1>12. ASSUME NEW b \in disk.blob, restore(b) PROVE FloorOK'
  <2>1. /\ UNCHANGED <<export, disk, complete>>
        /\ tracker' = note_successful_restore(disk.tracker, b.counter)
    BY Zenon, <1>12 DEF restore
  <2>2. tracker'.latest_issued \in {disk.tracker.latest_issued, b.counter}
    BY Zenon, <2>1 DEF note_successful_restore
  <2> QED
    BY Zenon, <2>1, <2>2
<1>13. CASE UNCHANGED store_vars
  BY Zenon, <1>13 DEF store_vars
<1> QED
  BY Zenon, <1>3, <1>4, <1>5, <1>6, <1>7, <1>8, <1>9, <1>10, <1>11, <1>12, <1>13 DEF StoreNext, Step

(* Whatever the step at which the process died, the blob in the storage can be
   restored unless a newer snapshot was completed: the floor written after the
   blob never outruns it. *)
THEOREM RefusalsAreJustified == StoreSpec => []RefusedOnlyIfSuperseded
<1>1. StoreInit => FloorOK
  BY DEF StoreInit, FloorOK, Backed, Writing, NoExport, new_tracker
<1>2. ASSUME RollInv, FloorOK PROVE RefusedOnlyIfSuperseded
  <2>1. /\ disk.tracker.latest_issued \in Nat /\ disk.tracker.max_restored \in Nat
        /\ disk.tracker.latest_issued >= disk.tracker.max_restored
        /\ \A b \in disk.blob : b.counter \in Nat
    BY <1>2 DEF RollInv, StoreTypeOK, Tracker, Blob, StorageOK
  <2>2. min_import_counter(disk.tracker) = disk.tracker.latest_issued
    BY <2>1 DEF min_import_counter
  <2> QED
    BY <1>2, <2>1, <2>2 DEF FloorOK, Backed, RefusedOnlyIfSuperseded, accepts
<1> QED
  BY <1>1, <1>2, FloorStep, RollInvariant, PTL DEF StoreSpec

-----------------------------------------------------------------------------
(* Relay calls.                                                            *)

\* The exchange that v holds is the one its signal calls for on the record read.
Decided(v) ==
  /\ v.pc = "find" => v.signal.type # "Init"
  /\ v.pc = "insert" =>
       /\ v.signal.type = "Init" /\ v.signal.from # v.signal.to
       /\ v.current = {}
       /\ v.next = {new_call(v.signal.from, v.signal.to, v.now)}
       /\ v.decision = "Init"
  /\ v.pc = "swap" =>
       /\ v.signal.type # "Init"
       /\ \E c \in v.current :
            /\ v.current = {c}
            /\ between_participants(c, v.signal)
            /\ \/ is_expired(c, v.now) /\ v.next = {} /\ v.decision = "Expired"
               \/ /\ ~is_expired(c, v.now)
                  /\ allowed(c, v.signal)
                  /\ v.next = after(c, v.signal, v.now)
                  /\ v.decision = v.signal.type

\* Others decided at least as often as v's exchange failed, and once more when
\* the record that v read is no longer the one stored.
Paid(v, stored, n) ==
  /\ v.attempts <= n - v.since
  /\ v.pc = "swap" /\ stored # v.current => v.attempts < n - v.since

WorkersInv ==
  \A w \in Workers :
    worker[w] # Idle => Decided(worker[w]) /\ Paid(worker[w], store, decisions)

\* What the decision made last says about the record.
RecordInv ==
  /\ store = {} <=> last.type \in {"None", "End", "Reject", "Expired"}
  /\ \A c \in store :
       /\ c.last_activity_at = last.now
       /\ c.state = "Initiated" <=> last.type = "Init"
       /\ c.state = "Rekeying" => last.type = "Rekey" /\ c.pending_rekey_from = last.from

IInv == TypeOK /\ WorkersInv /\ RecordInv

-----------------------------------------------------------------------------
(* The operators of CallLifecycle.                                         *)

\* ActiveCall::new makes a call record.
LEMMA NewCallType ==
  ASSUME NEW from \in Devices, NEW to \in Devices, NEW now \in Nat
  PROVE  new_call(from, to, now) \in ActiveCalls
BY DEF new_call, ActiveCalls

\* An allowed signal leaves at most one record, touched by the signal: none for
\* Reject and End, a rekeying one of its sender for Rekey, an active one otherwise.
LEMMA AfterShape ==
  ASSUME NEW c \in ActiveCalls, NEW s \in Signals, NEW now \in Nat, s.type # "Init"
  PROVE  /\ after(c, s, now) \in SUBSET ActiveCalls
         /\ \A d, e \in after(c, s, now) : d = e
         /\ after(c, s, now) = {} <=> s.type \in {"Reject", "End"}
         /\ \A d \in after(c, s, now) :
              /\ d.last_activity_at = now
              /\ d.state # "Initiated"
              /\ d.state = "Rekeying" => s.type = "Rekey" /\ d.pending_rekey_from = {s.from}
<1> s.type \in {"Accept", "Reject", "End", "Rekey", "RekeyAck"} /\ s.from \in Devices
  BY DEF Signals, SignalTypes
<1>1. CASE s.type = "Accept"
  <2> DEFINE d == [c EXCEPT !.state = "Active", !.pending_rekey_from = {},
                            !.last_activity_at = now]
  <2>1. after(c, s, now) = {d}
    BY <1>1 DEF after
  <2>2. d \in ActiveCalls /\ d.state = "Active" /\ d.last_activity_at = now
    BY Zenon DEF ActiveCalls
  <2> QED
    BY <1>1, <2>1, <2>2
<1>2. CASE s.type = "Rekey"
  <2> DEFINE d == [c EXCEPT !.state = "Rekeying", !.pending_rekey_from = {s.from},
                            !.last_activity_at = now]
  <2>1. after(c, s, now) = {d}
    BY <1>2 DEF after
  <2>2. d \in ActiveCalls /\ d.state = "Rekeying" /\ d.last_activity_at = now
        /\ d.pending_rekey_from = {s.from}
    BY Zenon DEF ActiveCalls
  <2> QED
    BY <1>2, <2>1, <2>2
<1>3. CASE s.type = "RekeyAck"
  <2> DEFINE g == c.rekey_generation + 1
             d == [c EXCEPT !.state = "Active", !.rekey_generation = g,
                            !.pending_rekey_from = {}, !.last_activity_at = now]
  <2>1. after(c, s, now) = {d}
    BY <1>3 DEF after
  <2>2. g \in Nat
    BY DEF ActiveCalls
  <2> HIDE DEF g
  <2>3. d \in ActiveCalls /\ d.state = "Active" /\ d.last_activity_at = now
    BY Zenon, <2>2 DEF ActiveCalls
  <2> QED
    BY <1>3, <2>1, <2>3
<1>4. CASE s.type \in {"Reject", "End"}
  <2>1. after(c, s, now) = {}
    BY <1>4 DEF after
  <2> QED
    BY <1>4, <2>1
<1> QED
  BY Zenon, <1>1, <1>2, <1>3, <1>4

-----------------------------------------------------------------------------
(* A worker's variables.                                                   *)

\* A worker inside the function is not idle, and its variables have their types.
LEMMA BusyTypes ==
  ASSUME TypeOK, NEW w \in Workers, worker[w] # Idle
  PROVE  worker[w] \in Busy
BY DEF TypeOK

\* pc tells a busy worker from an idle one.
LEMMA BusyByPc ==
  ASSUME TypeOK, NEW w \in Workers, worker[w].pc \in {"insert", "find", "swap"}
  PROVE  worker[w] # Idle
BY DEF Idle

\* A worker that has tried nothing has lost nothing.
LEMMA PaidAtFirst ==
  ASSUME NEW v, NEW stored, NEW n \in Nat, v.attempts = 0, v.since = n, v.pc # "swap"
  PROVE  Paid(v, stored, n)
BY DEF Paid

\* Decisions of others never make a worker's lost exchanges unpaid.
LEMMA PaidAfterDecision ==
  ASSUME NEW v \in Busy, NEW old, NEW new, NEW n \in Nat, Paid(v, old, n)
  PROVE  Paid(v, new, n + 1)
<1> v.attempts \in Nat /\ v.since \in Nat
  BY DEF Busy
<1> QED
  BY DEF Paid

\* A step that gives worker w the variables x keeps the workers' invariant when x
\* satisfies it and the others are not disturbed.
LEMMA OneWorkerMoves ==
  ASSUME TypeOK, WorkersInv, NEW w \in Workers, NEW x \in {Idle} \cup Busy,
         worker' = [worker EXCEPT ![w] = x],
         x # Idle => Decided(x) /\ Paid(x, store', decisions'),
         \/ UNCHANGED <<store, decisions>>
         \/ decisions' = decisions + 1
  PROVE  worker' \in [Workers -> {Idle} \cup Busy] /\ WorkersInv'
<1>1. worker' \in [Workers -> {Idle} \cup Busy]
  BY DEF TypeOK
<1>2. ASSUME NEW u \in Workers, worker'[u] # Idle
      PROVE  Decided(worker'[u]) /\ Paid(worker'[u], store', decisions')
  <2>1. CASE u = w
    <3>1. worker'[u] = x
      BY <2>1 DEF TypeOK
    <3> QED
      BY <1>2, <3>1
  <2>2. CASE u # w
    <3>1. worker'[u] = worker[u]
      BY <2>2 DEF TypeOK
    <3>2. worker[u] \in Busy /\ Decided(worker[u]) /\ Paid(worker[u], store, decisions)
      BY Zenon, <1>2, <3>1, BusyTypes DEF WorkersInv
    <3>3. CASE UNCHANGED <<store, decisions>>
      BY Zenon, <3>1, <3>2, <3>3
    <3>4. CASE decisions' = decisions + 1
      BY Zenon, <3>1, <3>2, <3>4, PaidAfterDecision DEF TypeOK
    <3> QED
      BY Zenon, <3>3, <3>4
  <2> QED
    BY Zenon, <2>1, <2>2
<1> QED
  BY Zenon, <1>1, <1>2 DEF WorkersInv

-----------------------------------------------------------------------------
(* CallRecord: one decision at a time.                                     *)

\* The instance of CallRecord uses the same operators on records.
LEMMA SameOperators ==
  /\ Record!Signals = Signals
  /\ \A from, to, now : Record!new_call(from, to, now) = new_call(from, to, now)
  /\ \A c, now : Record!is_expired(c, now) <=> is_expired(c, now)
  /\ \A c, s : Record!between_participants(c, s) <=> between_participants(c, s)
  /\ \A c, s : Record!allowed(c, s) <=> allowed(c, s)
  /\ \A c, s, now : Record!after(c, s, now) = after(c, s, now)
<1>1. Record!Signals = Signals
  BY DEF Record!Signals, Signals, Record!SignalTypes, SignalTypes
<1>2. \A from, to, now : Record!new_call(from, to, now) = new_call(from, to, now)
  BY DEF Record!new_call, new_call
<1>3. \A c, now : Record!is_expired(c, now) <=> is_expired(c, now)
  BY DEF Record!is_expired, is_expired
<1>4. \A c, s : Record!between_participants(c, s) <=> between_participants(c, s)
  BY DEF Record!between_participants, between_participants
<1>5. \A c, s : Record!allowed(c, s) <=> allowed(c, s)
  BY DEF Record!allowed, allowed
<1>6. \A c, s, now : Record!after(c, s, now) = after(c, s, now)
  BY DEF Record!after, after
<1> QED
  BY <1>1, <1>2, <1>3, <1>4, <1>5, <1>6

\* A step of CallRecord registers a new call, applies a signal to the record, or
\* drops an expired record; the decision made says which.
LEMMA RecordSteps ==
  ASSUME Record!Next
  PROVE  /\ last'.now \in Nat
         /\ decisions' = decisions + 1
         /\ \/ \E s \in Signals :
                 /\ s.type = "Init" /\ s.from # s.to
                 /\ store = {}
                 /\ store' = {new_call(s.from, s.to, last'.now)}
                 /\ last' = [type |-> "Init", from |-> {s.from}, now |-> last'.now]
            \/ \E s \in Signals, c \in store :
                 /\ s.type # "Init"
                 /\ ~is_expired(c, last'.now)
                 /\ allowed(c, s)
                 /\ store' = after(c, s, last'.now)
                 /\ last' = [type |-> s.type, from |-> {s.from}, now |-> last'.now]
            \/ /\ \E c \in store : is_expired(c, last'.now)
               /\ store' = {}
               /\ last' = [type |-> "Expired", from |-> {}, now |-> last'.now]
BY Zenon, SameOperators
DEF Record!Next, Record!Register, Record!Apply, Record!Expire, Record!Decide

\* The decision made last goes on describing the record.
LEMMA RecordPreserved ==
  ASSUME TypeOK, RecordInv, Record!Next
  PROVE  /\ store' \in SUBSET ActiveCalls
         /\ \A c, d \in store' : c = d
         /\ last' \in [type : SignalTypes \cup {"None", "Expired"},
                       from : SUBSET Devices, now : Nat]
         /\ RecordInv'
<1> DEFINE now == last'.now
<1>1. now \in Nat
  BY RecordSteps
<1>2. CASE \E s \in Signals :
             /\ s.type = "Init"
             /\ store' = {new_call(s.from, s.to, now)}
             /\ last' = [type |-> "Init", from |-> {s.from}, now |-> now]
  <2> HIDE DEF now
  <2>1. PICK s \in Signals :
             /\ store' = {new_call(s.from, s.to, now)}
             /\ last' = [type |-> "Init", from |-> {s.from}, now |-> now]
    BY Zenon, <1>2
  <2> DEFINE c == new_call(s.from, s.to, now)
  <2>2. s.from \in Devices /\ s.to \in Devices
    BY DEF Signals
  <2>3. c \in ActiveCalls
    BY <1>1, <2>2, NewCallType
  <2>4. c.last_activity_at = now /\ c.state = "Initiated"
    BY DEF new_call
  <2>5. last'.type = "Init" /\ last'.now = now
    BY <2>1
  <2>6. store' = {c}
    BY <2>1
  <2>7. last' \in [type : SignalTypes \cup {"None", "Expired"},
                   from : SUBSET Devices, now : Nat]
    BY <1>1, <2>1, <2>2 DEF SignalTypes
  <2> HIDE DEF c
  <2> QED
    BY <2>3, <2>4, <2>5, <2>6, <2>7 DEF RecordInv
<1>3. CASE \E s \in Signals, c \in store :
             /\ s.type # "Init"
             /\ store' = after(c, s, now)
             /\ last' = [type |-> s.type, from |-> {s.from}, now |-> now]
  <2> HIDE DEF now
  <2>1. PICK s \in Signals, c \in store :
             /\ s.type # "Init"
             /\ store' = after(c, s, now)
             /\ last' = [type |-> s.type, from |-> {s.from}, now |-> now]
    BY Zenon, <1>3
  <2>2. s.from \in Devices /\ s.type \in SignalTypes /\ c \in ActiveCalls
    BY DEF Signals, TypeOK
  <2>3. last'.type = s.type /\ last'.from = {s.from} /\ last'.now = now
    BY <2>1
  <2>4. last' \in [type : SignalTypes \cup {"None", "Expired"},
                   from : SUBSET Devices, now : Nat]
    BY <1>1, <2>1, <2>2
  <2>5. /\ store' \in SUBSET ActiveCalls
        /\ \A d, e \in store' : d = e
        /\ store' = {} <=> s.type \in {"Reject", "End"}
        /\ \A d \in store' :
             /\ d.last_activity_at = now
             /\ d.state # "Initiated"
             /\ d.state = "Rekeying" => s.type = "Rekey" /\ d.pending_rekey_from = {s.from}
    BY <1>1, <2>1, <2>2, AfterShape
  <2>6. s.type \in {"Accept", "Reject", "End", "Rekey", "RekeyAck"}
    BY <2>1, <2>2 DEF SignalTypes
  <2>7. store' = {} <=> last'.type \in {"None", "End", "Reject", "Expired"}
    BY <2>3, <2>5, <2>6
  <2>8. last'.type # "Init"
    BY <2>1, <2>3
  <2> QED
    BY Zenon, <2>3, <2>4, <2>5, <2>7, <2>8 DEF RecordInv
<1>4. CASE /\ store' = {}
           /\ last' = [type |-> "Expired", from |-> {}, now |-> now]
  <2> HIDE DEF now
  <2>1. last'.type = "Expired"
    BY <1>4
  <2> QED
    BY Zenon, <1>1, <1>4, <2>1 DEF RecordInv
<1> QED
  BY Zenon, <1>2, <1>3, <1>4, RecordSteps

-----------------------------------------------------------------------------
(* The steps of a worker.                                                  *)

\* A successful exchange is a step of CallRecord.
LEMMA CommitIsDecision ==
  ASSUME IInv, NEW w \in Workers, worker[w].pc \in {"insert", "swap"},
         exchange_succeeds(w), commit(w)
  PROVE  Record!Next
<1> DEFINE v == worker[w]
           s == v.signal
           now == v.now
<1>1. v \in Busy /\ v # Idle /\ Decided(v)
  BY Zenon, BusyTypes, BusyByPc DEF IInv, WorkersInv
<1>2. s \in Signals /\ now \in Nat /\ store = v.current /\ store' = v.next
      /\ decisions' = decisions + 1
  BY Zenon, <1>1 DEF Busy, exchange_succeeds, commit
<1>3. last' = [ type |-> v.decision,
                from |-> IF v.decision = "Expired" THEN {} ELSE {s.from},
                now  |-> now ]
  BY Zenon DEF commit
<1>4. last'.now = now
  BY Zenon, <1>3
<1> SUFFICES (\E t \in Signals : Record!Register(t, now) \/ Record!Apply(t, now))
             \/ Record!Expire(now)
  BY Zenon, <1>2, <1>4, SameOperators DEF Record!Next
<1>5. CASE v.pc = "insert"
  <2>1. /\ s.type = "Init" /\ s.from # s.to /\ v.current = {}
        /\ v.next = {new_call(s.from, s.to, now)} /\ v.decision = "Init"
    BY Zenon, <1>1, <1>5 DEF Decided
  <2> HIDE DEF v, s, now
  <2>2. last' = [type |-> "Init", from |-> {s.from}, now |-> now]
    BY Zenon, <1>3, <2>1
  <2>3. Record!Register(s, now)
    BY Zenon, <1>2, <2>1, <2>2, SameOperators DEF Record!Register, Record!Decide
  <2> QED
    BY <1>2, <2>3
<1>6. CASE v.pc = "swap"
  <2>1. s.type # "Init"
    BY Zenon, <1>1, <1>6 DEF Decided
  <2>2. PICK c \in v.current :
          /\ between_participants(c, s)
          /\ \/ is_expired(c, now) /\ v.next = {} /\ v.decision = "Expired"
             \/ /\ ~is_expired(c, now)
                /\ allowed(c, s)
                /\ v.next = after(c, s, now)
                /\ v.decision = s.type
    BY Zenon, <1>1, <1>6 DEF Decided
  <2>3. s.type # "Expired"
    BY Zenon, <1>2 DEF Signals, SignalTypes
  <2> HIDE DEF v, s, now
  <2>4. CASE is_expired(c, now)
    <3>1. v.next = {} /\ v.decision = "Expired"
      BY <2>2, <2>4
    <3>2. last' = [type |-> "Expired", from |-> {}, now |-> now]
      BY <1>3, <3>1
    <3>3. Record!Expire(now)
      BY Zenon, <1>2, <2>2, <2>4, <3>1, <3>2, SameOperators DEF Record!Expire, Record!Decide
    <3> QED
      BY <3>3
  <2>5. CASE ~is_expired(c, now)
    <3>1. allowed(c, s) /\ v.next = after(c, s, now) /\ v.decision = s.type
      BY Zenon, <2>2, <2>5
    <3>2. last' = [type |-> s.type, from |-> {s.from}, now |-> now]
      BY Zenon, <1>3, <2>3, <3>1
    <3>3. Record!Apply(s, now)
      BY Zenon, <1>2, <2>1, <2>2, <2>5, <3>1, <3>2, SameOperators DEF Record!Apply, Record!Decide
    <3> QED
      BY <1>2, <3>3
  <2> QED
    BY <2>4, <2>5
<1> QED
  BY Zenon, <1>5, <1>6

\* A successful exchange keeps the invariant.
LEMMA CommitPreserves ==
  ASSUME IInv, NEW w \in Workers, worker[w].pc \in {"insert", "swap"},
         exchange_succeeds(w), commit(w)
  PROVE  IInv'
<1>1. Record!Next
  BY CommitIsDecision
<1>2. /\ store' \in SUBSET ActiveCalls
      /\ \A c, d \in store' : c = d
      /\ last' \in [type : SignalTypes \cup {"None", "Expired"},
                    from : SUBSET Devices, now : Nat]
      /\ RecordInv'
  BY <1>1, RecordPreserved DEF IInv
<1>3. worker' \in [Workers -> {Idle} \cup Busy] /\ WorkersInv'
  BY Zenon, OneWorkerMoves DEF IInv, commit
<1>4. clock' \in Nat /\ signals' \in Nat /\ decisions' \in Nat
  BY DEF IInv, TypeOK, commit
<1> QED
  BY Zenon, <1>2, <1>3, <1>4 DEF IInv, TypeOK

\* A step that only gives a worker new variables keeps the invariant if these
\* are as they should be.
LEMMA LocalStepPreserves ==
  ASSUME IInv, NEW w \in Workers, NEW x \in {Idle} \cup Busy,
         worker' = [worker EXCEPT ![w] = x],
         x # Idle => Decided(x) /\ Paid(x, store, decisions),
         UNCHANGED <<store, clock, last, decisions>>,
         signals' \in Nat
  PROVE  IInv'
<1>1. worker' \in [Workers -> {Idle} \cup Busy] /\ WorkersInv'
  BY Zenon, OneWorkerMoves DEF IInv
<1>2. RecordInv'
  BY DEF IInv, RecordInv
<1> QED
  BY Zenon, <1>1, <1>2 DEF IInv, TypeOK

\* An error leaves everything but the worker as it was.
LEMMA FailPreserves ==
  ASSUME IInv, NEW w \in Workers, fail(w)
  PROVE  IInv'
BY Zenon, LocalStepPreserves DEF fail, IInv, TypeOK

\* A signal that arrives has lost no exchange yet.
LEMMA BeginPreserves ==
  ASSUME IInv, NEW w \in Workers, NEW s \in Signals, begin(w, s)
  PROVE  IInv'
<1> DEFINE pc   == IF s.type = "Init" THEN "insert" ELSE "find"
           next == IF s.type = "Init" THEN {new_call(s.from, s.to, clock)} ELSE {}
           x    == [ pc |-> pc, signal |-> s, now |-> clock, current |-> {}, next |-> next,
                     decision |-> s.type, attempts |-> 0, since |-> decisions ]
<1>1. worker' = [worker EXCEPT ![w] = x]
  BY Zenon DEF begin
<1>2. s.from \in Devices /\ s.to \in Devices /\ s.type \in SignalTypes
      /\ clock \in Nat /\ decisions \in Nat
  BY DEF Signals, IInv, TypeOK
<1>3. pc \in {"insert", "find", "swap"} /\ next \in SUBSET ActiveCalls
  BY <1>2, NewCallType
<1>4. /\ pc = "insert" => s.type = "Init" /\ s.from # s.to
      /\ pc = "insert" => next = {new_call(s.from, s.to, clock)}
      /\ pc = "find" => s.type # "Init"
      /\ pc # "swap"
  BY Zenon DEF begin
<1> HIDE DEF pc, next
<1>5. x \in Busy
  BY Zenon, <1>2, <1>3 DEF Busy
<1>6. /\ x.pc = pc /\ x.signal = s /\ x.now = clock /\ x.current = {} /\ x.next = next
      /\ x.decision = s.type /\ x.attempts = 0 /\ x.since = decisions
  OBVIOUS
<1> HIDE DEF x
<1>7. Decided(x)
  BY Zenon, <1>4, <1>6 DEF Decided
<1>8. Paid(x, store, decisions)
  BY <1>2, <1>4, <1>6, PaidAtFirst
<1>9. UNCHANGED <<store, clock, last, decisions>> /\ signals' \in Nat
  <2>1. UNCHANGED <<store, clock, last, decisions>> /\ signals' = signals + 1 /\ signals \in Nat
    BY Zenon DEF begin, IInv, TypeOK
  <2> QED
    BY <2>1
<1> QED
  BY Zenon, <1>1, <1>5, <1>7, <1>8, <1>9, LocalStepPreserves

\* What find prepares is justified by the record it read, which is still stored.
LEMMA FindPreserves ==
  ASSUME IInv, NEW w \in Workers, find(w)
  PROVE  IInv'
<1> DEFINE v == worker[w]
           s == v.signal
           now == v.now
<1>1. v \in Busy /\ v # Idle /\ Decided(v) /\ Paid(v, store, decisions) /\ v.pc = "find"
  BY Zenon, BusyTypes, BusyByPc DEF IInv, WorkersInv, find
<1>2. CASE fail(w)
  BY <1>2, FailPreserves
<1>3. ASSUME NEW c \in store, between_participants(c, s),
             is_expired(c, now) \/ allowed(c, s),
             NEW next, next = (IF is_expired(c, now) THEN {} ELSE after(c, s, now)),
             NEW dec, dec = (IF is_expired(c, now) THEN "Expired" ELSE s.type),
             worker' = [worker EXCEPT ![w].pc = "swap", ![w].current = {c},
                                      ![w].next = next, ![w].decision = dec],
             UNCHANGED <<store, clock, signals, last, decisions>>
      PROVE  IInv'
  <2> DEFINE x == [v EXCEPT !.pc = "swap", !.current = {c}, !.next = next, !.decision = dec]
  <2>1. worker' = [worker EXCEPT ![w] = x]
    BY Zenon, <1>3 DEF IInv, TypeOK
  <2>2. c \in ActiveCalls /\ store = {c} /\ s \in Signals /\ now \in Nat /\ s.type # "Init"
    <3>1. c \in ActiveCalls /\ store = {c}
      BY DEF IInv, TypeOK
    <3>2. s \in Signals /\ now \in Nat
      BY Zenon, <1>1 DEF Busy
    <3>3. s.type # "Init"
      BY Zenon, <1>1 DEF Decided
    <3> QED
      BY Zenon, <3>1, <3>2, <3>3
  <2>3. next \in SUBSET ActiveCalls
    BY Zenon, <1>3, <2>2, AfterShape
  <2>4. dec \in SignalTypes \cup {"Expired"}
    BY Zenon, <1>3, <2>2 DEF Signals
  <2>5. x \in Busy
    BY Zenon, <1>1, <2>2, <2>3, <2>4 DEF Busy
  <2>6. /\ x.pc = "swap" /\ x.signal = s /\ x.now = now /\ x.current = {c} /\ x.next = next
        /\ x.decision = dec /\ x.attempts = v.attempts /\ x.since = v.since
    BY <1>1 DEF Busy
  <2> HIDE DEF x, v, s, now
  <2>7. Decided(x)
    BY Zenon, <1>3, <2>2, <2>6 DEF Decided
  <2>8. Paid(x, store, decisions)
    BY <1>1, <2>2, <2>6 DEF Paid
  <2>9. signals' \in Nat
    BY Zenon, <1>3 DEF IInv, TypeOK
  <2> QED
    BY Zenon, <1>3, <2>1, <2>5, <2>7, <2>8, <2>9, LocalStepPreserves
<1>4. CASE \E c \in store : between_participants(c, s) /\ (is_expired(c, now) \/ allowed(c, s))
  <2>1. PICK c \in store :
          /\ worker' = [worker EXCEPT
               ![w].pc       = "swap",
               ![w].current  = {c},
               ![w].next     = IF is_expired(c, now) THEN {} ELSE after(c, s, now),
               ![w].decision = IF is_expired(c, now) THEN "Expired" ELSE s.type]
          /\ UNCHANGED <<store, clock, signals, last, decisions>>
    BY Zenon, <1>4 DEF find, expected
  <2>2. between_participants(c, s) /\ (is_expired(c, now) \/ allowed(c, s))
    BY Zenon, <1>4 DEF IInv, TypeOK
  <2> QED
    BY Zenon, <1>3, <2>1, <2>2
<1> QED
  BY Zenon, <1>2, <1>4 DEF find

\* A lost exchange was lost to a decision made since the record was read.
LEMMA RetryPreserves ==
  ASSUME IInv, NEW w \in Workers, worker[w].pc = "swap", ~exchange_succeeds(w), retry(w),
         UNCHANGED <<store, clock, signals, last, decisions>>
  PROVE  IInv'
<1> DEFINE v == worker[w]
           n == v.attempts + 1
           x == [v EXCEPT !.pc = "find", !.attempts = n]
<1>1. v \in Busy /\ v # Idle /\ Decided(v) /\ Paid(v, store, decisions)
  BY Zenon, BusyTypes, BusyByPc DEF IInv, WorkersInv
<1>2. v.attempts \in Nat /\ v.since \in Nat /\ decisions \in Nat /\ n \in Nat
  BY <1>1 DEF Busy, IInv, TypeOK
<1>3. n <= decisions - v.since
  BY <1>1, <1>2 DEF Paid, exchange_succeeds
<1>4. worker' = [worker EXCEPT ![w] = x] \/ worker' = [worker EXCEPT ![w] = Idle]
  BY Zenon DEF retry, IInv, TypeOK
<1>5. signals' \in Nat
  BY DEF IInv, TypeOK
<1>6. v.signal.type # "Init"
  BY Zenon, <1>1 DEF Decided
<1> HIDE DEF n
<1>7. x \in Busy
  BY Zenon, <1>1, <1>2 DEF Busy
<1>8. x.pc = "find" /\ x.signal = v.signal /\ x.attempts = n /\ x.since = v.since
  BY <1>1 DEF Busy
<1> HIDE DEF x, v
<1>9. Decided(x) /\ Paid(x, store, decisions)
  BY Zenon, <1>3, <1>6, <1>8 DEF Decided, Paid
<1>10. CASE worker' = [worker EXCEPT ![w] = x]
  BY Zenon, <1>5, <1>7, <1>9, <1>10, LocalStepPreserves
<1>11. CASE worker' = [worker EXCEPT ![w] = Idle]
  BY Zenon, <1>5, <1>11, LocalStepPreserves
<1> QED
  BY <1>4, <1>10, <1>11

-----------------------------------------------------------------------------
(* The theorems.                                                           *)

\* Before the first signal there is neither a record nor a busy worker.
LEMMA InitInv ==
  Init => IInv
<1> SUFFICES ASSUME Init PROVE IInv
  OBVIOUS
<1>1. last.type = "None"
  BY DEF Init
<1>2. TypeOK
  BY DEF Init, TypeOK
<1>3. WorkersInv
  BY DEF Init, WorkersInv
<1>4. RecordInv
  BY <1>1 DEF Init, RecordInv
<1> QED
  BY <1>2, <1>3, <1>4 DEF IInv

\* Every step keeps the invariant.
LEMMA NextPreserves ==
  IInv /\ [Next]_vars => IInv'
<1> SUFFICES ASSUME IInv, [Next]_vars PROVE IInv'
  OBVIOUS
<1>1. CASE UNCHANGED vars
  BY Zenon, <1>1 DEF vars, IInv, TypeOK, WorkersInv, RecordInv
<1>2. CASE tick
  <2>1. UNCHANGED <<store, worker, signals, last, decisions>> /\ clock' \in Nat
    BY <1>2 DEF tick, IInv, TypeOK
  <2>2. TypeOK'
    BY <2>1 DEF IInv, TypeOK
  <2>3. WorkersInv' /\ RecordInv'
    BY Zenon, <2>1 DEF IInv, WorkersInv, RecordInv
  <2> QED
    BY <2>2, <2>3 DEF IInv
<1>3. ASSUME NEW w \in Workers, NEW s \in Signals, begin(w, s) PROVE IInv'
  BY <1>3, BeginPreserves
<1>4. ASSUME NEW w \in Workers, insert(w) PROVE IInv'
  BY <1>4, CommitPreserves, FailPreserves DEF insert
<1>5. ASSUME NEW w \in Workers, find(w) PROVE IInv'
  BY <1>5, FindPreserves
<1>6. ASSUME NEW w \in Workers, swap(w) PROVE IInv'
  BY <1>6, CommitPreserves, RetryPreserves DEF swap
<1>7. ASSUME NEW w \in Workers, store_fails(w) PROVE IInv'
  BY <1>7, FailPreserves DEF store_fails
<1> QED
  BY <1>1, <1>2, <1>3, <1>4, <1>5, <1>6, <1>7 DEF Next, step

\* Every step is a step of CallRecord or leaves its variables alone.
LEMMA StepRefines ==
  IInv /\ [Next]_vars => [Record!Next]_<<store, last, decisions>>
<1> SUFFICES ASSUME IInv, [Next]_vars PROVE Record!Next \/ UNCHANGED <<store, last, decisions>>
  OBVIOUS
<1>1. CASE UNCHANGED vars \/ tick \/ \E w \in Workers, s \in Signals : begin(w, s)
  BY Zenon, <1>1 DEF vars, tick, begin
<1>2. ASSUME NEW w \in Workers, step(w) \/ store_fails(w)
      PROVE  Record!Next \/ UNCHANGED <<store, last, decisions>>
  <2>1. CASE insert(w)
    BY <2>1, CommitIsDecision DEF insert, fail
  <2>2. CASE find(w)
    BY Zenon, <2>2 DEF find, fail
  <2>3. CASE swap(w)
    BY <2>3, CommitIsDecision DEF swap
  <2>4. CASE store_fails(w)
    BY <2>4 DEF store_fails, fail
  <2> QED
    BY <1>2, <2>1, <2>2, <2>3, <2>4 DEF step
<1> QED
  BY <1>1, <1>2 DEF Next

\* The inductive invariant holds in every reachable state.
THEOREM Invariance == Spec => []IInv
<1> QED
  BY InitInv, NextPreserves, PTL DEF Spec

\* At most one record is stored and all variables keep their types, for any
\* number of concurrent calls of process_voip_signal.
THEOREM TypeCorrect == Spec => []TypeOK
<1>1. IInv => TypeOK
  BY DEF IInv
<1> QED
  BY <1>1, Invariance, PTL

\* A call that gives up after MAX_VOIP_CALL_COMPARE_EXCHANGE_RETRIES lost every one
\* of its exchanges to a decision that another call made meanwhile.
THEOREM LostOnlyToProgress == Spec => []RetriesArePaidFor
<1>1. IInv => RetriesArePaidFor
  BY DEF IInv, WorkersInv, Paid, RetriesArePaidFor
<1> QED
  BY <1>1, Invariance, PTL

\* Whatever the interleaving, the signals take effect one at a time, each on the
\* record its predecessor left.
THEOREM RefinesRecord == Spec => ImplementsRecord
<1>1. Init => Record!Init
  BY DEF Init, Record!Init
<1> QED
  BY <1>1, Invariance, StepRefines, PTL DEF Spec, ImplementsRecord, Record!Spec

\* A step that makes a decision is a step of CallRecord.
LEMMA DecisionsAreRecordSteps ==
  ASSUME IInv, [Next]_vars, Decides
  PROVE  Record!Next
BY StepRefines DEF Decides

\* Rekeys are sequenced: what the relay lets through as an acknowledgement follows
\* directly on the other device's rekey.
THEOREM RekeysSequenced == Spec => AckFollowsRekey
<1>1. ASSUME IInv, [Next]_vars, Decides, last'.type = "RekeyAck"
      PROVE  last.type = "Rekey" /\ last.from # last'.from
  <2>1. Record!Next
    BY <1>1, DecisionsAreRecordSteps
  <2>2. PICK s \in Signals, c \in store :
          /\ allowed(c, s)
          /\ last' = [type |-> s.type, from |-> {s.from}, now |-> last'.now]
    BY <1>1, <2>1, RecordSteps
  <2>3. s.type = "RekeyAck" /\ last'.from = {s.from}
    BY <1>1, <2>2
  <2>4. c.state = "Rekeying" /\ s.from \notin c.pending_rekey_from
    BY <2>2, <2>3 DEF allowed
  <2>5. last.type = "Rekey" /\ c.pending_rekey_from = last.from
    BY <1>1, <2>4 DEF IInv, RecordInv
  <2> QED
    BY <2>3, <2>4, <2>5
<1> QED
  BY <1>1, Invariance, PTL DEF Spec, AckFollowsRekey

\* After an end, a rejection or an expiry only a new Init passes, however old the
\* records are that other workers had read.
THEOREM NothingAfterEnd == Spec => SilentAfterEnd
<1>1. ASSUME IInv, [Next]_vars, Decides, last.type \in {"None", "End", "Reject", "Expired"}
      PROVE  last'.type = "Init"
  <2>1. store = {}
    BY <1>1 DEF IInv, RecordInv
  <2>2. Record!Next
    BY <1>1, DecisionsAreRecordSteps
  <2> QED
    BY <2>1, <2>2, RecordSteps
<1> QED
  BY <1>1, Invariance, PTL DEF Spec, SilentAfterEnd

\* The relay drops a call as expired only if it was silent for too long or is too
\* old.
THEOREM ExpiryJustified == Spec => ExpiredWasIdle
<1> DEFINE Idled ==
      \/ last'.now - last.now > (IF last.type = "Init" THEN InitTimeout ELSE IdleTimeout)
      \/ \E c \in store : last'.now - c.started_at > MaxLifetime
<1>1. ASSUME IInv, [Next]_vars, Decides, last'.type = "Expired"
      PROVE  Idled
  <2>1. Record!Next
    BY <1>1, DecisionsAreRecordSteps
  <2>2. \A s \in Signals : s.type # "Expired"
    BY DEF Signals, SignalTypes
  <2>3. PICK c \in store : is_expired(c, last'.now)
    BY <1>1, <2>1, <2>2, RecordSteps
  <2>4. c.last_activity_at = last.now /\ (c.state = "Initiated" <=> last.type = "Init")
    BY <1>1 DEF IInv, RecordInv
  <2> QED
    BY <2>3, <2>4 DEF is_expired
<1> QED
  BY <1>1, Invariance, PTL DEF Spec, ExpiredWasIdle

===============================================================================
