---------------------------- MODULE ReplayWindow -----------------------------
(***************************************************************************)
(* The replay window of a VoIP call (voip/replay_window.rs): the highest   *)
(* frame counter accepted and a bitmap of the counters just below it, in   *)
(* words of WordBits bits.  A word is the set of its bits that are one; bit *)
(* number delta of the whole bitmap stands for the counter high - delta.   *)
(***************************************************************************)
EXTENDS Integers, FiniteSets

CONSTANTS
  WordBits,  \* bits of a word: 64
  Words,     \* BITMAP_WORDS: 2
  Counters   \* the frame counters the network delivers

ASSUME WindowAssumption ==
  /\ WordBits \in Nat \ {0}
  /\ Words \in Nat \ {0}
  /\ Counters \subseteq Nat

WINDOW_SIZE == Words * WordBits

Bits == 0 .. WordBits - 1
Bitmaps == [0 .. Words - 1 -> SUBSET Bits]

VARIABLES
  high_water,  \* the highest counter marked
  bitmap,      \* bitmap[i]: the bits of word i that are set
  seen         \* history: the counters accepted so far

vars == <<high_water, bitmap, seen>>

is_set(map, idx) == (idx % WordBits) \in map[idx \div WordBits]

\* Mutant: a counter older than the window is looked up as if inside it.
check_wrapped(high, map, counter) ==
  counter <= high => ~is_set(map, (high - counter) % WINDOW_SIZE)

check(high, map, counter) ==
  counter <= high =>
    high - counter < WINDOW_SIZE /\ ~is_set(map, high - counter)

\* word << by and word >> by on WordBits bits
shl(word, by) == {b \in Bits : b - by \in word}
shr(word, by) == {b \in Bits : b + by \in word}

\* The words moved up by whole words; the lowest ones become zero.
word_shifted(map, by) ==
  [i \in 0 .. Words - 1 |-> IF i >= by THEN map[i - by] ELSE {}]

\* The bits moved up inside the words, with the carry from the word below.
\* The loop runs from the top word down, so every word reads the old one below.
bit_shifted(map, by) ==
  IF by = 0
  THEN map
  ELSE [i \in 0 .. Words - 1 |->
          shl(map[i], by) \cup
            (IF i > 0 THEN shr(map[i - 1], WordBits - by) ELSE {})]

shift_window(map, shift) ==
  IF shift >= WINDOW_SIZE
  THEN [i \in 0 .. Words - 1 |-> {}]
  ELSE bit_shifted(word_shifted(map, shift \div WordBits), shift % WordBits)

set_bit(map, idx) ==
  [map EXCEPT ![idx \div WordBits] = @ \cup {idx % WordBits}]

Init ==
  /\ high_water = 0
  /\ bitmap = [i \in 0 .. Words - 1 |-> {}]
  /\ seen = {}

mark(counter) ==
  IF counter > high_water
  THEN /\ high_water' = counter
       /\ bitmap' = set_bit(shift_window(bitmap, counter - high_water), 0)
  ELSE /\ high_water' = high_water
       /\ bitmap' = IF high_water - counter < WINDOW_SIZE
                    THEN set_bit(bitmap, high_water - counter)
                    ELSE bitmap

\* decrypt_frame marks a counter after it has passed the check and the frame
\* has been authenticated; a frame that fails either leaves the window alone.
accept(counter) ==
  /\ check(high_water, bitmap, counter)
  /\ mark(counter)
  /\ seen' = seen \cup {counter}

Next == \E counter \in Counters : accept(counter)

Spec == Init /\ [][Next]_vars

(***************************************************************************)
(* Properties                                                              *)
(***************************************************************************)

\* The window's fields are within their types.
TypeOK ==
  /\ high_water \in Nat
  /\ bitmap \in Bitmaps
  /\ seen \subseteq Counters

\* The high-water mark and the bitmap say exactly which counters of the window
\* were accepted: shift_window, whatever mix of whole words and carried bits a
\* jump of the counter needs, neither drops a mark nor invents one.
BitmapIsExact ==
  /\ \A c \in seen : c <= high_water
  /\ \A idx \in 0 .. WINDOW_SIZE - 1 :
       is_set(bitmap, idx) <=> (high_water - idx) \in seen

\* check refuses a counter that was accepted before, for ever, and refuses a new
\* one only when it has fallen a full window behind the high-water mark.
ChecksExactly ==
  \A c \in Counters :
    check(high_water, bitmap, c) <=>
      (c \notin seen /\ high_water - c < WINDOW_SIZE)
=============================================================================
