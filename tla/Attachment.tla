----------------------------- MODULE Attachment -----------------------------
(***************************************************************************)
(* A file sent as encrypted chunks (src/src/protocol/attachment.rs and the *)
(* aura_attachment_* functions of src/src/ffi/api.rs).  The sender feeds   *)
(* the file to a StreamingEncryptor, uploads the chunks it returns, and    *)
(* sends a manifest with the file key wrapped by the chat session.  The    *)
(* receiver validates the manifest, unwraps the key, and decrypts what the *)
(* storage serves, in the order the storage serves it: with a              *)
(* StreamingDecryptor, or chunk by chunk on several download threads that  *)
(* share a saved ChunkProgress.                                            *)
(*                                                                         *)
(* A plaintext is a sequence of bytes, byte n of every file being n.  A    *)
(* ciphertext is what its AEAD binds: key, nonce, associated data and      *)
(* plaintext.  The storage keeps every chunk ever uploaded and may serve   *)
(* any of them, of any file, for any index it is asked for.                *)
(***************************************************************************)
EXTENDS ChunkProgress

CONSTANTS
    Files,                      \* attachment ids; each has a file key of its own
    FileLen,                    \* length in bytes of every file
    CHUNK,                      \* chunk_size of every manifest
    Threads,                    \* download threads of the receiver
    Transfers                   \* what is sent and how it is received, with its bound

ASSUME AttachmentAssumption ==
    /\ FileLen \in Nat \ {0} /\ CHUNK \in Nat \ {0}
    /\ \A x \in Transfers :
        /\ x.declared \in [Files -> SUBSET (Nat \X Nat)] /\ x.max_faults \in Nat
        /\ x.threads \subseteq Threads /\ x.streaming \in BOOLEAN

VARIABLES
    transfer,   \* one of Transfers, the same all along: declared, Files -> the
                \* <<total_size, chunk_count>> a sender may declare, none for a
                \* file that is not sent; threads, the download threads that run;
                \* streaming, the StreamingDecryptor is used; max_faults, bound
                \* on crashes and on mixed-up ids
    enc,        \* Files -> at most one StreamingEncryptor
    returned,   \* Files -> the chunks this encryptor's caller has received
    sent,       \* Files -> at most one manifest, once finish succeeded
    storage,    \* the uploaded chunks
    opened,     \* file-key envelopes the receiver's session has consumed
    keyring,    \* Files -> at most one unwrapped file key
    dec,        \* Files -> at most one StreamingDecryptor
    disk,       \* Files -> the chunks written to the receiver's disk
    progress,   \* Files -> at most one saved ChunkProgress
    marking,    \* Threads -> at most one progress computed and not yet saved
    faults      \* crashes and mixed-up ids so far

transfer_vars == <<transfer, enc, returned, sent, storage, opened, keyring, dec, disk,
          progress, marking, faults>>

senderVars == <<enc, returned, sent, storage>>
receiverVars == <<opened, keyring, dec, disk, progress, marking>>

Content == [n \in 1..FileLen |-> n]

-----------------------------------------------------------------------------
(* Manifests and chunks. *)

\* The manifest declares a file that takes exactly chunk_count chunks.
validate_manifest(m) ==
    /\ m.total > 0
    /\ validate_progress_chunk_count(m.count)
    /\ m.total > (m.count - 1) * CHUNK
    /\ m.total <= m.count * CHUNK

manifest_create(m) == IF validate_manifest(m) THEN {m} ELSE {}

manifest_validate(m) == validate_manifest(m)

chunk_aad(f, m, i) == <<f, m.total, m.count, i>>

derive_chunk_nonce(key, f, i) == <<key, f, i>>

encrypt_chunk(key, f, m, i, plaintext) ==
    [index |-> i, key |-> key, nonce |-> derive_chunk_nonce(key, f, i),
     aad |-> chunk_aad(f, m, i), data |-> plaintext]

\* decrypt_chunk succeeds for chunk c presented as chunk i of file f.
decrypt_chunk_any_index(key, f, m, i, c) ==
    i < m.count /\ c.key = key /\ c.aad[1] = f

decrypt_chunk(key, f, m, i, c) ==
    /\ i < m.count
    /\ Len(c.data) <= CHUNK
    /\ c.nonce = derive_chunk_nonce(key, f, i)
    /\ c.key = key
    /\ c.aad = chunk_aad(f, m, i)

validate_chunk_shape(m, i, c) ==
    validate_manifest(m) /\ i < m.count /\ Len(c.data) <= CHUNK

-----------------------------------------------------------------------------
(* The StreamingEncryptor.  An operation yields the encryptor after it, the *)
(* chunks its caller receives and whether it succeeded.                     *)

\* failed: the caller has seen a write fail.
NewEncryptor(m) == [m |-> m, index |-> 0, buffer |-> <<>>, failed |-> FALSE]

Cut(bytes, k) == SubSeq(bytes, k * CHUNK + 1, (k + 1) * CHUNK)

\* The encryptor after chunk_count chunks: flush_buffer fails and the buffer
\* stays full, so that every later flush fails as well.
refuse(e, bytes) ==
    [e EXCEPT !.index = e.m.count, !.buffer = Cut(bytes, e.m.count - e.index),
              !.failed = TRUE]

\* write cuts the buffered and the new bytes into full chunks.  When one of
\* them is past chunk_count the call fails: the chunks cut before it in this
\* call are not returned, the rest of the data is dropped.
write(e, f, data) ==
    LET bytes == e.buffer \o data
        full  == Len(bytes) \div CHUNK
    IN  IF e.index + full > e.m.count
        THEN [e |-> refuse(e, bytes), chunks |-> <<>>, ok |-> FALSE]
        ELSE [e |-> [e EXCEPT !.index = e.index + full,
                              !.buffer = SubSeq(bytes, full * CHUNK + 1, Len(bytes))],
              chunks |-> [k \in 1..full |->
                             encrypt_chunk(f, f, e.m, e.index + k - 1, Cut(bytes, k - 1))],
              ok |-> TRUE]

\* finish flushes what is buffered and accepts only a full count of chunks.
finish(e, f) ==
    IF e.buffer = <<>>
    THEN [chunks |-> <<>>, ok |-> e.index = e.m.count]
    ELSE [chunks |-> <<encrypt_chunk(f, f, e.m, e.index, e.buffer)>>,
          ok |-> e.index + 1 = e.m.count]

\* What the encryptor has been fed: the chunks it has cut and its buffer.
Fed(e) == e.index * CHUNK + Len(e.buffer)

-----------------------------------------------------------------------------
TransferInit ==
    /\ transfer \in Transfers
    /\ enc = [f \in Files |-> {}]
    /\ returned = [f \in Files |-> <<>>]
    /\ sent = [f \in Files |-> {}]
    /\ storage = {}
    /\ opened = {}
    /\ keyring = [f \in Files |-> {}]
    /\ dec = [f \in Files |-> {}]
    /\ disk = [f \in Files |-> {}]
    /\ progress = [f \in Files |-> {}]
    /\ marking = [t \in Threads |-> {}]
    /\ faults = 0

(* The sender. *)

\* A sender starts, or starts again, to encrypt a file it has not sent.  The
\* encryptor accepts any positive total_size and chunk_count.
streaming_encryptor_create(f) ==
    /\ enc[f] = {} /\ sent[f] = {}
    /\ \E g \in transfer.declared[f] :
        /\ g[1] > 0 /\ g[2] > 0
        /\ enc' = [enc EXCEPT ![f] = {NewEncryptor([total |-> g[1], count |-> g[2]])}]
    /\ returned' = [returned EXCEPT ![f] = <<>>]
    /\ UNCHANGED <<sent, storage, faults, receiverVars>>

\* The caller uploads what the call returns.
streaming_encryptor_write(f) ==
    \E e \in enc[f] : \E n \in Fed(e) + 1 .. FileLen :
        LET r == write(e, f, SubSeq(Content, Fed(e) + 1, n)) IN
        /\ ~e.failed
        /\ enc' = [enc EXCEPT ![f] = {r.e}]
        /\ returned' = [returned EXCEPT ![f] = @ \o r.chunks]
        /\ storage' = storage \cup ToSet(r.chunks)
        /\ UNCHANGED <<sent, faults, receiverVars>>

\* At the end of the file, or after a failed write, the caller finishes.  The
\* handle gives up its encryptor even when finish fails.  On success the
\* caller wraps the file key and creates the manifest, which is validated.
streaming_encryptor_finish(f) ==
    \E e \in enc[f] :
        LET r == finish(e, f)
            m == e.m
        IN
        /\ Fed(e) = FileLen \/ e.failed
        /\ enc' = [enc EXCEPT ![f] = {}]
        /\ IF r.ok
           THEN /\ returned' = [returned EXCEPT ![f] = @ \o r.chunks]
                /\ storage' = storage \cup ToSet(r.chunks)
                /\ sent' = [sent EXCEPT ![f] = manifest_create(m)]
           ELSE UNCHANGED <<returned, storage, sent>>
        /\ UNCHANGED <<faults, receiverVars>>

sender_crash(f) ==
    /\ enc[f] # {} /\ faults < transfer.max_faults
    /\ enc' = [enc EXCEPT ![f] = {}]
    /\ faults' = faults + 1
    /\ UNCHANGED <<returned, sent, storage, receiverVars>>

(* The receiver. *)

encrypt_file_key_for_session(key, id) == [key |-> key, correlation_id |-> id]

\* What unwrapping yields: nothing when the envelope names another attachment.
decrypt_file_key_from_session(envelope, id) ==
    IF envelope.correlation_id = id THEN {envelope.key} ELSE {}

\* The receiver validates the manifest of f and unwraps its key for the
\* attachment id it names.  The session consumes the envelope before the id is
\* compared.
decrypt_file_key(f, id) ==
    /\ (\E m \in sent[f] : manifest_validate(m)) /\ keyring[id] = {} /\ f \notin opened
    /\ f # id => faults < transfer.max_faults /\ sent[id] # {}
    /\ opened' = opened \cup {f}
    /\ keyring' = [keyring EXCEPT ![id] =
            decrypt_file_key_from_session(encrypt_file_key_for_session(f, f), id)]
    /\ faults' = IF f # id THEN faults + 1 ELSE faults
    /\ UNCHANGED <<senderVars, dec, disk, progress, marking>>

NewDecryptor(key, m) == [key |-> key, m |-> m, next |-> 0, out |-> <<>>]

streaming_decryptor_create(f) ==
    /\ transfer.streaming /\ dec[f] = {}
    /\ \E key \in keyring[f], m \in sent[f] :
        dec' = [dec EXCEPT ![f] = {NewDecryptor(key, m)}]
    /\ UNCHANGED <<senderVars, opened, keyring, disk, progress, marking, faults>>

is_complete(d) == d.next >= d.m.count

decrypt_next(d, f, i, c) == i = d.next /\ decrypt_chunk(d.key, f, d.m, i, c)

\* The decryptor takes a chunk the storage serves under index i.
streaming_decryptor_write(f) ==
    \E d \in dec[f], c \in storage : \E i \in 0..d.m.count :
        /\ decrypt_next(d, f, i, c)
        /\ dec' = [dec EXCEPT ![f] = {[d EXCEPT !.next = @ + 1, !.out = @ \o c.data]}]
        /\ UNCHANGED <<senderVars, opened, keyring, disk, progress, marking, faults>>

progress_create(f) ==
    /\ progress[f] = {} /\ keyring[f] # {}
    /\ \E m \in sent[f] : progress' = [progress EXCEPT ![f] = {create_chunk_progress(m.count)}]
    /\ UNCHANGED <<senderVars, opened, keyring, dec, disk, marking, faults>>

\* A download thread fetches a chunk the saved progress says is missing,
\* decrypts it, writes it to disk and computes the progress to save.
download(t, f) ==
    /\ marking[t] = {}
    /\ \E p \in progress[f], key \in keyring[f], m \in sent[f] :
        \E i \in get_remaining_chunks(p), c \in storage :
            /\ validate_chunk_shape(m, i, c)
            /\ decrypt_chunk(key, f, m, i, c)
            /\ disk' = [disk EXCEPT ![f] = @ \cup {<<i, c.data>>}]
            /\ marking' = [marking EXCEPT ![t] =
                    {[file |-> f, progress |-> q] : q \in progress_mark_completed(p, i, Len(c.data))}]
    /\ UNCHANGED <<senderVars, opened, keyring, dec, progress, faults>>

\* The thread saves its progress over whatever another thread saved since.
progress_save(t) ==
    /\ \E w \in marking[t] : progress' = [progress EXCEPT ![w.file] = {w.progress}]
    /\ marking' = [marking EXCEPT ![t] = {}]
    /\ UNCHANGED <<senderVars, opened, keyring, dec, disk, faults>>

\* A crash keeps the disk, the saved progress and the unwrapped keys.
receiver_crash ==
    /\ faults < transfer.max_faults
    /\ \/ \E f \in Files : dec[f] # {}
       \/ \E t \in Threads : marking[t] # {}
    /\ dec' = [f \in Files |-> {}]
    /\ marking' = [t \in Threads |-> {}]
    /\ faults' = faults + 1
    /\ UNCHANGED <<senderVars, opened, keyring, disk, progress>>

thread_step(t) == progress_save(t) \/ \E f \in Files : download(t, f)

SenderNext ==
    \E f \in Files : \/ streaming_encryptor_create(f) \/ streaming_encryptor_write(f)
                     \/ streaming_encryptor_finish(f) \/ sender_crash(f)

ReceiverNext ==
    \/ \E f, id \in Files : decrypt_file_key(f, id)
    \/ \E f \in Files : \/ streaming_decryptor_create(f) \/ streaming_decryptor_write(f)
                        \/ progress_create(f)
    \/ \E t \in transfer.threads : thread_step(t)
    \/ receiver_crash

TransferNext == (SenderNext \/ ReceiverNext) /\ UNCHANGED transfer

TransferSpec == TransferInit /\ [][TransferNext]_transfer_vars

\* The receiver keeps going: it unwraps the keys under the right id, creates a
\* progress, and every download thread takes the steps it can.
TransferFairness ==
    /\ WF_transfer_vars((\E f \in Files : decrypt_file_key(f, f)) /\ UNCHANGED transfer)
    /\ WF_transfer_vars((\E f \in Files : progress_create(f)) /\ UNCHANGED transfer)
    /\ \A t \in Threads : WF_transfer_vars(t \in transfer.threads /\ thread_step(t) /\ UNCHANGED transfer)

TransferFairSpec == TransferSpec /\ TransferFairness

-----------------------------------------------------------------------------
\* What a StreamingDecryptor has put out is a prefix of the file, whichever
\* chunks the storage serves and in whatever order, and is the whole file
\* when is_complete says so (attachment.rs:938, 964).
DecryptedIsFile ==
    \A f \in Files : \A d \in dec[f] :
        /\ IsPrefix(d.out, Content)
        /\ is_complete(d) => d.out = Content

\* A chunk the saved progress reports as completed is on the receiver's disk
\* with the bytes of the file at its place, through crashes and through
\* threads that overwrite each other's progress (attachment.rs:504).
ProgressIsOnDisk ==
    \A f \in Files : \A p \in progress[f] :
        \A i \in (0..p.count - 1) \ get_remaining_chunks(p) :
            \E w \in disk[f] :
                /\ w[1] = i
                /\ w[2] = SubSeq(Content, i * CHUNK + 1,
                                 IF (i + 1) * CHUNK < FileLen THEN (i + 1) * CHUNK ELSE FileLen)

\* What the receiver has, by the stream and by the resumable download, is the
\* sender's file and never more than it reports.
ReceivedIsFile == DecryptedIsFile /\ ProgressIsOnDisk

\* A file that was sent ends up downloaded for good, although a thread may
\* overwrite a complete progress with an older one, unless the receiver
\* unwrapped its key under another id and so used up the envelope
\* (attachment.rs:1006).
Downloaded(f) == \E p \in progress[f] : is_transfer_complete(p)

EventuallyDownloaded ==
    transfer.threads # {} =>
        <>[](\A f \in Files : sent[f] # {} =>
                Downloaded(f) \/ (f \in opened /\ keyring[f] = {}))
=============================================================================
