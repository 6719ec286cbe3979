---------------------------- MODULE ChunkProgress ----------------------------
(***************************************************************************)
(* The resume record of an attachment transfer                             *)
(* (src/src/protocol/attachment.rs:485-603): a bitmap with one bit for     *)
(* each chunk.  A record is bytes in the caller's hands: every function    *)
(* decodes one, and mark_chunk_completed returns an updated copy.  A byte  *)
(* of the bitmap is the set of its bits that are set.                      *)
(***************************************************************************)
EXTENDS Integers, FiniteSets, SequencesExt

CONSTANTS
    BITS,                       \* bits in a byte of the bitmap (8 in the code)
    MAX_ATTACHMENT_CHUNK_COUNT

ASSUME ProgressAssumption == BITS \in Nat \ {0} /\ MAX_ATTACHMENT_CHUNK_COUNT \in Nat

validate_progress_chunk_count(count) ==
    count > 0 /\ count <= MAX_ATTACHMENT_CHUNK_COUNT

bitmap_len(count) == (count + BITS - 1) \div BITS

create_chunk_progress(count) ==
    [count |-> count, bitmap |-> [b \in 1..bitmap_len(count) |-> {}], total_bytes |-> 0]

is_chunk_completed(p, i) ==
    /\ i \div BITS + 1 <= Len(p.bitmap)
    /\ i % BITS \in p.bitmap[i \div BITS + 1]

completed_chunk_count(p) ==
    FoldLeft(LAMBDA n, byte : n + Cardinality(byte), 0, p.bitmap)

\* The bitmap has the length the count asks for and no bit past the count.
validate_chunk_progress(p) ==
    /\ validate_progress_chunk_count(p.count)
    /\ Len(p.bitmap) = bitmap_len(p.count)
    /\ p.count % BITS # 0 => \A bit \in p.bitmap[bitmap_len(p.count)] : bit < p.count % BITS

get_remaining_chunks(p) == {i \in 0..p.count - 1 : ~is_chunk_completed(p, i)}

is_transfer_complete_beyond(p) ==
    validate_chunk_progress(p) /\ completed_chunk_count(p) > p.count

is_transfer_complete(p) ==
    validate_chunk_progress(p) /\ completed_chunk_count(p) >= p.count

\* Marking a chunk twice sets its bit once and adds its bytes twice.
mark_chunk_completed(p, i, bytes) ==
    [p EXCEPT !.bitmap[i \div BITS + 1] = @ \cup {i % BITS},
              !.total_bytes = @ + bytes]

\* The record the caller gets back, when the one it passed is well formed.
progress_mark_completed(p, i, bytes) ==
    IF validate_chunk_progress(p) /\ i < p.count
    THEN {mark_chunk_completed(p, i, bytes)} ELSE {}
=============================================================================
