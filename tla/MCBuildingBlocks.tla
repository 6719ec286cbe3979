-------------------------- MODULE MCBuildingBlocks --------------------------
(***************************************************************************)
(* The parts that stand alone, for TLC: a behaviour takes one of them and  *)
(* leaves the others as they start.  The pure algorithms have no steps;    *)
(* every input is an initial state, and the code's arithmetic is compared  *)
(* with a reference definition.                                            *)
(***************************************************************************)
EXTENDS ReplayWindow, TreeMath, Padding, ChunkProgress, Shamir, GroupContent, Channel,
        EpochRotation, SealedState

CONSTANTS
  MaxLeaves,      \* trees of 1..MaxLeaves leaves
  Bytes, MaxLen   \* buffers of at most MaxLen of the Bytes

VARIABLES
  part,           \* the part this behaviour is about
  input           \* a pure algorithm's input

-----------------------------------------------------------------------------
(* Threads that export are interchangeable, and no other part has them. *)
Symmetry == Permutations(Threads)

(* Counters at, below and above the borders of the 64-bit words and the     *)
(* window.                                                                  *)
BorderCounters == {0, 1, 2, 62, 63, 64, 65, 127, 128, 129, 191, 192, 256}

MCSecrets == {<<83>>, <<202, 0>>}

Mentions == [leaf : {0}, offset : 0..2, length : 0..2] \cup
            [leaf : {1}, offset : {0}, length : {1}]
Replies == {{r} : r \in [to : {"id", "bad"}, root : Refs, depth : 0..2]}

Policies ==
  [type : ContentTypes, ttl : {0, 1, MAX_TTL, MAX_TTL + 1}, frankable : BOOLEAN,
   ref : Refs, mentions : {<<>>}, reply : {{}}]

Annotated ==
  [type : {"normal"}, ttl : {0}, frankable : {FALSE}, ref : {"none"},
   mentions : UNION {[1..k -> Mentions] : k \in 0..3}, reply : {{}}] \cup
  [type : {"normal", "sealed"}, ttl : {0}, frankable : {TRUE}, ref : {"none"},
   mentions : {<<>>}, reply : Replies]

Calls ==
  {encrypt(3), encrypt(MAX_MESSAGE + 1), encrypt_sealed(MAX_MESSAGE, 1),
   encrypt_sealed(MAX_MESSAGE - 1, 1), encrypt_sealed(3, 1), encrypt_sealed(3, 0), encrypt_frankable(3),
   encrypt_disappearing(3, 1), encrypt_sealed_disappearing(3, 1, 2),
   encrypt_edit(3, "id"), encrypt_edit(3, "bad"), encrypt_delete("id"),
   encrypt_reaction(2), encrypt_read_receipt(2), encrypt_typing} \cup
  {encrypt_with_policy(3, p) : p \in Policies \cup Annotated}

-----------------------------------------------------------------------------
(* A resume record may be any bytes of the right kind: from an older        *)
(* release, from a peer, from a torn save.                                  *)
Records ==
  [count : 0..MAX_ATTACHMENT_CHUNK_COUNT + 1,
   bitmap : UNION {[1..k -> SUBSET (0..BITS - 1)] : k \in 0..2},
   total_bytes : {0}]

Inputs(name) ==
  CASE name = "tree" -> UNION {{n} \X (0..n - 1) : n \in 1..MaxLeaves}
    [] name = "field" -> Byte
    [] name = "padding" -> UNION {[1..k -> Bytes] : k \in 0..MaxLen}
    [] name = "progress" -> Records
    [] OTHER -> {0}

PartInit ==
  /\ part \in {"tree", "field", "padding", "progress",
               "window", "sharing", "content", "channel", "rotation", "store"}
  /\ input \in Inputs(part)
  /\ Init /\ SharingInit /\ ContentInit /\ ChannelInit /\ RotationInit /\ StoreInit
  /\ part # "content" => ~mandatory /\ sender_now = 0
  /\ part # "store" => host = "slot"

PartStep ==
  \/ /\ part = "window" /\ Next
     /\ UNCHANGED <<sharing_vars, content_vars, channel_vars, rotation_vars, store_vars>>
  \/ /\ part = "sharing" /\ SharingNext
     /\ UNCHANGED <<vars, content_vars, channel_vars, rotation_vars, store_vars>>
  \/ /\ part = "content" /\ ContentNext
     /\ UNCHANGED <<vars, sharing_vars, channel_vars, rotation_vars, store_vars>>
  \/ /\ part = "channel" /\ ChannelNext
     /\ UNCHANGED <<vars, sharing_vars, content_vars, rotation_vars, store_vars>>
  \/ /\ part = "rotation" /\ RotationNext
     /\ UNCHANGED <<vars, sharing_vars, content_vars, channel_vars, store_vars>>
  \/ /\ part = "store" /\ StoreNext
     /\ UNCHANGED <<vars, sharing_vars, content_vars, channel_vars, rotation_vars>>

PartNext == PartStep /\ UNCHANGED <<part, input>>

PartSpec ==
  PartInit /\ [][PartNext]_<<part, input, vars, sharing_vars, content_vars,
                             channel_vars, rotation_vars, store_vars>>

-----------------------------------------------------------------------------
(* The ratchet tree by its definition: the subtree over the leaves lo..hi-1 *)
(* splits after the largest power of two smaller than its size.             *)

SplitOf(lo, hi) == lo + 2^(CHOOSE j \in 0..hi : 2^j < hi - lo /\ hi - lo <= 2^(j + 1))

NodeOf(lo, hi) == IF hi - lo = 1 THEN 2 * lo ELSE 2 * SplitOf(lo, hi) - 1

(* The intervals of the nodes above leaf l, lowest first, with the interval *)
(* of the other child beside each.                                          *)
RECURSIVE Above(_, _, _)
Above(l, lo, hi) ==
  IF hi - lo = 1 THEN <<>>
  ELSE LET m == SplitOf(lo, hi)
       IN  IF l < m THEN Above(l, lo, m) \o << <<lo, hi, m, hi>> >>
                    ELSE Above(l, m, hi) \o << <<lo, hi, lo, m>> >>

(* The direct path computed with the bit arithmetic of tree.rs, and the     *)
(* search of parent_walk where an index falls outside the array, is the     *)
(* path from the leaf to the root of the left-balanced tree.                *)
DirectPathIsTreePath ==
  part = "tree" =>
    LET up == Above(input[2], 0, input[1])
    IN  direct_path(input[2], input[1]) = [i \in DOMAIN up |-> NodeOf(up[i][1], up[i][2])]

(* The copath of tree.rs names the other child at every step of the path,   *)
(* so that a path secret encrypted to the copath reaches every other leaf.  *)
CopathIsTheOtherChild ==
  part = "tree" =>
    LET up == Above(input[2], 0, input[1])
    IN  copath(input[2], input[1]) = [i \in DOMAIN up |-> NodeOf(up[i][3], up[i][4])]

(* Appending a leaf (add_leaf) never takes a node away from above a leaf:   *)
(* node indices are stable, so keys stored for the smaller tree stay on the *)
(* direct path and blank_leaf still blanks all of them.                     *)
GrowthKeepsAncestors ==
  part = "tree" =>
    ToSet(direct_path(input[2], input[1])) \subseteq ToSet(direct_path(input[2], input[1] + 1))

-----------------------------------------------------------------------------
(* GF(256) by its definition: v times x^k, reduced each time the degree     *)
(* reaches 8, and the product as the sum of those by the bits of b.         *)

Shifts(v) ==
  FoldLeft(LAMBDA t, k : Append(t, IF t[k] >= 128 THEN Xor((2 * t[k]) % 256, 27) ELSE 2 * t[k]),
           <<v>>, <<1, 2, 3, 4, 5, 6, 7>>)

Product(shifts, b) ==
  FoldLeft(LAMBDA r, k : IF Bit(b, k - 1) = 1 THEN Xor(r, shifts[k]) ELSE r,
           0, <<1, 2, 3, 4, 5, 6, 7, 8>>)

(* gf_mul is multiplication modulo 0x11B, 0 and the carries of the          *)
(* logarithms included.                                                     *)
MulIsProduct ==
  part = "field" =>
    LET shifts == Shifts(input) IN \A b \in Byte : gf_mul(input, b) = Product(shifts, b)

(* gf_inv inverts every byte but 0, so the denominators of                  *)
(* lagrange_interpolate, products of differences of distinct x, divide.     *)
InvInverts == part = "field" /\ input # 0 => Product(Shifts(input), gf_inv(input)) = 1

-----------------------------------------------------------------------------
(* unpad gives back what pad was given, whatever its last bytes, and pad    *)
(* adds at least a byte and at most a block (padding.rs).                   *)
UnpadInvertsPad ==
  part = "padding" =>
    /\ unpad(pad(input)) = [ok |-> TRUE, plain |-> input]
    /\ Len(pad(input)) \in (Len(input) + 1)..(Len(input) + Block)

(* On any buffer unpad accepts exactly whole blocks that end in a sentinel  *)
(* and zeros, and cuts before that sentinel.                                *)
UnpadIsExact ==
  part = "padding" =>
    LET ends == {p \in DOMAIN input : input[p] = 1 /\ \A q \in (p + 1)..Len(input) : input[q] = 0}
    IN  unpad(input) = IF Len(input) % Block = 0 /\ ends # {}
                       THEN [ok |-> TRUE, plain |-> SubSeq(input, 1, (CHOOSE p \in ends : TRUE) - 1)]
                       ELSE Refused

-----------------------------------------------------------------------------
(* A transfer counts as complete exactly when the record is well formed and *)
(* no chunk remains: counting the set bits of the whole bitmap              *)
(* (attachment.rs:536-562) agrees with looking at each chunk's own bit.     *)
CompleteIsNoneRemaining ==
  part = "progress" =>
    (is_transfer_complete(input)
       <=> validate_chunk_progress(input) /\ get_remaining_chunks(input) = {})

(* mark_chunk_completed keeps a record well formed and completes the chunk  *)
(* it is given, no other, forgetting none (attachment.rs:504).              *)
MarkCompletesOne ==
  part = "progress" =>
    \A i \in 0..MAX_ATTACHMENT_CHUNK_COUNT : \A q \in progress_mark_completed(input, i, 1) :
      /\ validate_chunk_progress(q)
      /\ get_remaining_chunks(q) = get_remaining_chunks(input) \ {i}

(* The bit arithmetic of the ratchet tree's indices, of the field, of       *)
(* padding and of the resume bitmap computes what it stands for, at every   *)
(* border of word, byte, block and count (tree.rs, shamir.rs, padding.rs,   *)
(* attachment.rs).                                                          *)
ArithmeticIsExact ==
  /\ DirectPathIsTreePath /\ CopathIsTheOtherChild /\ GrowthKeepsAncestors
  /\ MulIsProduct /\ InvInverts
  /\ UnpadInvertsPad /\ UnpadIsExact
  /\ CompleteIsNoneRemaining /\ MarkCompletesOne
=============================================================================
