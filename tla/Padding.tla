------------------------------- MODULE Padding -------------------------------
(***************************************************************************)
(* Message padding (crypto/padding.rs): a sentinel byte 1, then zeros up to *)
(* a multiple of the block, and its removal without branches on the data.   *)
(* The masks of the code are all ones or zero and are kept as Booleans; the *)
(* arithmetic that makes them keeps its width.                              *)
(***************************************************************************)
EXTENDS Integers, Sequences, SequencesExt

CONSTANTS
    Block,      \* MESSAGE_PADDING_BLOCK_SIZE
    Word        \* bits of usize

ASSUME BlockAssumption == Block \in Nat \ {0} /\ Word \in Nat \ {0}

bit_at(v, k) == (v \div 2^k) % 2

padded_length(len) == ((len + 1 + Block - 1) \div Block) * Block

(* Vec::resize to n: cut, or filled with zeros. *)
Resize(s, n) == [i \in 1..n |-> IF i <= Len(s) THEN s[i] ELSE 0]

pad(plaintext) == Resize(Append(plaintext, 1), padded_length(Len(plaintext)))

(* ((diff | diff.wrapping_neg()) >> 7) & 1 in sixteen bits. *)
is_nonzero(diff) == bit_at(diff, 7) = 1 \/ bit_at((2^16 - diff) % 2^16, 7) = 1

(* byte ^ 0x01 *)
Flip(byte) == IF byte % 2 = 1 THEN byte - 1 ELSE byte + 1

(* Mutant of ct_gt_mask: the shift is by the whole word. *)
ct_gt_mask_word(a, b) == bit_at((b - a) % 2^Word, Word) = 1

(* b.wrapping_sub(a) as isize >> (BITS - 1): the sign of the difference. *)
ct_gt_mask(a, b) == bit_at((b - a) % 2^Word, Word - 1) = 1

(* The last position, from 0, of the sentinel; found says there is one. *)
Sentinel(padded) ==
    FoldLeft(LAMBDA r, i : IF is_nonzero(Flip(padded[i])) THEN r
                           ELSE [found |-> TRUE, pos |-> i - 1],
             [found |-> FALSE, pos |-> 0], [i \in DOMAIN padded |-> i])

Refused == [ok |-> FALSE]

unpad(padded) ==
    LET s == Sentinel(padded)
    IN IF \/ padded = <<>> \/ Len(padded) % Block # 0 \/ ~s.found
          \/ \E i \in DOMAIN padded : ct_gt_mask(i - 1, s.pos) /\ padded[i] # 0
       THEN Refused
       ELSE [ok |-> TRUE, plain |-> SubSeq(padded, 1, s.pos)]
=============================================================================
