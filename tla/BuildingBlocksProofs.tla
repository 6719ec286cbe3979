------------------------ MODULE BuildingBlocksProofs ------------------------
(***************************************************************************)
(* Parts that stand alone, for every value of their constants: the replay  *)
(* window of a call is exact, a channel is read as it was written, and the *)
(* two sides of a group message agree on it.                               *)
(*                                                                         *)
(* And the handles of the FFI layer, for every set of threads and handles  *)
(* and every nesting depth: one call at a time holds a handle, the busy    *)
(* flag is up exactly while one does, a streaming object is taken once,    *)
(* and what a panic tore inside a mutex is not answered from.              *)
(***************************************************************************)
EXTENDS ReplayWindow, Channel, GroupContent, FfiHandle, TLAPS

-----------------------------------------------------------------------------
(* The replay window. *)

\* A counter difference splits into a word number and a bit number.
LEMMA Split ==
  ASSUME NEW a \in Nat
  PROVE  /\ a \div WordBits \in Nat
         /\ a % WordBits \in Bits
         /\ a = (a \div WordBits) * WordBits + (a % WordBits)
<1>1. a % WordBits \in Bits
  BY WindowAssumption DEF Bits
<1>2. a \div WordBits \in Nat
  BY WindowAssumption
<1>3. a = (a \div WordBits) * WordBits + (a % WordBits)
  BY WindowAssumption, Z3T(40)
<1> QED BY <1>1, <1>2, <1>3

\* ... and in one way only.
LEMMA SplitUnique ==
  ASSUME NEW q \in Nat, NEW r \in Bits, NEW p \in Nat, NEW s \in Bits,
         q * WordBits + r = p * WordBits + s
  PROVE  q = p /\ r = s
<1>1. CASE q < p
  <2>1. p >= q + 1 BY <1>1
  <2>2. p * WordBits >= (q + 1) * WordBits BY <2>1, WindowAssumption, Z3
  <2> QED BY <2>2, WindowAssumption, Z3 DEF Bits
<1>2. CASE p < q
  <2>1. q >= p + 1 BY <1>2
  <2>2. q * WordBits >= (p + 1) * WordBits BY <2>1, WindowAssumption, Z3
  <2> QED BY <2>2, WindowAssumption, Z3 DEF Bits
<1>3. CASE p = q
  BY <1>3, WindowAssumption, Z3 DEF Bits
<1> QED BY <1>1, <1>2, <1>3

\* Every index of the window lies in a word of the bitmap.
LEMMA InWindow ==
  ASSUME NEW q \in Nat, NEW r \in Bits
  PROVE  q * WordBits + r < WINDOW_SIZE <=> q < Words
<1>1. CASE q < Words
  <2>1. Words * WordBits >= (q + 1) * WordBits BY <1>1, WindowAssumption, Z3
  <2> QED BY <1>1, <2>1, WindowAssumption, Z3 DEF Bits, WINDOW_SIZE
<1>2. CASE q >= Words
  <2>1. q * WordBits >= Words * WordBits BY <1>2, WindowAssumption, Z3
  <2> QED BY <1>2, <2>1, WindowAssumption, Z3 DEF Bits, WINDOW_SIZE
<1> QED BY <1>1, <1>2, WindowAssumption

\* The bit that stands for word q, bit r is bit r of word q.
LEMMA IsSetAt ==
  ASSUME NEW map \in Bitmaps, NEW q \in Nat, NEW r \in Bits
  PROVE  is_set(map, q * WordBits + r) <=> r \in map[q]
<1> DEFINE a == q * WordBits + r
<1>1. a \in Nat BY WindowAssumption DEF Bits
<1>2. /\ a \div WordBits \in Nat
      /\ a % WordBits \in Bits
      /\ a = (a \div WordBits) * WordBits + (a % WordBits)
  BY Zenon, <1>1, Split
<1>3. a \div WordBits = q /\ a % WordBits = r
  BY <1>2, SplitUnique
<1> QED BY <1>3 DEF is_set

\* shift_window returns a bitmap.
LEMMA ShiftType ==
  ASSUME NEW map \in Bitmaps, NEW shift \in Nat
  PROVE  shift_window(map, shift) \in Bitmaps
<1>1. CASE shift >= WINDOW_SIZE
  BY <1>1 DEF shift_window, Bitmaps
<1>2. CASE ~(shift >= WINDOW_SIZE)
  <2> DEFINE ws == shift \div WordBits
             bs == shift % WordBits
             moved == word_shifted(map, ws)
  <2>1. ws \in Nat /\ bs \in Bits BY Split
  <2>2. moved \in Bitmaps
    BY <2>1, WindowAssumption DEF word_shifted, Bitmaps
  <2> HIDE DEF moved, ws, bs
  <2>3. bit_shifted(moved, bs) \in Bitmaps
    <3>1. CASE bs = 0 BY <3>1, <2>2 DEF bit_shifted
    <3>2. CASE bs # 0
      <4>1. \A i \in 0 .. Words - 1 :
              shl(moved[i], bs) \cup
                (IF i > 0 THEN shr(moved[i - 1], WordBits - bs) ELSE {}) \in SUBSET Bits
        BY DEF shl, shr
      <4> QED BY Zenon, <3>2, <4>1 DEF bit_shifted, Bitmaps
    <3> QED BY <3>1, <3>2
  <2> QED BY <1>2, <2>3 DEF shift_window, moved, ws, bs
<1> QED BY <1>1, <1>2

\* shift_window moves every bit up by shift, the low ones become zero.
LEMMA ShiftExact ==
  ASSUME NEW map \in Bitmaps, NEW shift \in Nat, shift < WINDOW_SIZE,
         NEW idx \in 0 .. WINDOW_SIZE - 1
  PROVE  is_set(shift_window(map, shift), idx) <=>
           (idx >= shift /\ is_set(map, idx - shift))
<1> DEFINE ws == shift \div WordBits
           bs == shift % WordBits
           q == idx \div WordBits
           r == idx % WordBits
           moved == word_shifted(map, ws)
           out == bit_shifted(moved, bs)
<1>0. WINDOW_SIZE \in Nat BY WindowAssumption DEF WINDOW_SIZE
<1>1. /\ ws \in Nat /\ bs \in Bits
      /\ shift = ws * WordBits + bs
  BY Split
<1>2. idx \in Nat BY <1>0
<1>3. /\ q \in Nat /\ r \in Bits
      /\ idx = q * WordBits + r
  BY <1>2, Split
<1>4. q < Words /\ ws < Words
  BY <1>0, <1>1, <1>3, InWindow
<1>5. is_set(shift_window(map, shift), idx) <=> r \in out[q]
  BY <1>0, <1>1 DEF shift_window, is_set
<1>6. moved = [i \in 0 .. Words - 1 |-> IF i >= ws THEN map[i - ws] ELSE {}]
  BY DEF word_shifted
<1> HIDE DEF q, r, ws, bs, moved
<1>7. CASE r >= bs
  <2>1. r \in out[q] <=> r - bs \in moved[q]
    <3>1. CASE bs = 0
      BY <3>1, <1>3, <1>7, WindowAssumption DEF bit_shifted, Bits
    <3>2. CASE bs # 0
      <4>1. out[q] = shl(moved[q], bs) \cup
                       (IF q > 0 THEN shr(moved[q - 1], WordBits - bs) ELSE {})
        BY <3>2, <1>3, <1>4, WindowAssumption DEF bit_shifted
      <4>2. r \in shl(moved[q], bs) <=> r - bs \in moved[q]
        BY <1>3 DEF shl
      <4>3. ASSUME q > 0 PROVE r \notin shr(moved[q - 1], WordBits - bs)
        <5>1. moved[q - 1] \subseteq Bits
          BY <1>1, <1>3, <1>4, <1>6, <4>3, WindowAssumption DEF Bitmaps
        <5>2. r + (WordBits - bs) \notin Bits
          BY <1>1, <1>3, <1>7, WindowAssumption DEF Bits
        <5> QED BY <5>1, <5>2 DEF shr
      <4> QED BY Zenon, <4>1, <4>2, <4>3
    <3> QED BY Zenon, <3>1, <3>2
  <2>2. CASE q >= ws
    <3>1. moved[q] = map[q - ws]
      BY <2>2, <1>1, <1>3, <1>4, <1>6, WindowAssumption
    <3>2. q - ws \in Nat /\ r - bs \in Bits
      BY <2>2, <1>1, <1>3, <1>7, WindowAssumption DEF Bits
    <3>3. idx - shift = (q - ws) * WordBits + (r - bs)
      BY <1>1, <1>3, <3>2, WindowAssumption, Z3 DEF Bits
    <3>4. idx >= shift
      BY <1>1, <1>2, <1>3, <3>2, <3>3, WindowAssumption, Z3 DEF Bits
    <3>5. is_set(map, idx - shift) <=> r - bs \in map[q - ws]
      BY <3>2, <3>3, IsSetAt
    <3> QED BY <1>5, <2>1, <3>1, <3>4, <3>5
  <2>3. CASE ~(q >= ws)
    <3>1. moved[q] = {}
      BY <2>3, <1>1, <1>3, <1>4, <1>6, WindowAssumption
    <3>2. ws * WordBits >= (q + 1) * WordBits
      BY <2>3, <1>1, <1>3, WindowAssumption, Z3
    <3>3. ~(idx >= shift)
      BY <3>2, <1>1, <1>3, WindowAssumption, Z3 DEF Bits
    <3> QED BY <1>5, <2>1, <3>1, <3>3
  <2> QED BY <2>2, <2>3
<1>8. CASE ~(r >= bs)
  <2>1. bs # 0 /\ bs \in Nat /\ r \in Nat
    BY <1>1, <1>3, <1>8, WindowAssumption DEF Bits
  <2>2. out[q] = shl(moved[q], bs) \cup
                   (IF q > 0 THEN shr(moved[q - 1], WordBits - bs) ELSE {})
    BY <2>1, <1>3, <1>4, WindowAssumption DEF bit_shifted
  <2>3. moved[q] \subseteq Bits
    BY <1>1, <1>3, <1>4, <1>6, WindowAssumption DEF Bitmaps
  <2>4. r \notin shl(moved[q], bs)
    <3>1. r - bs \notin Bits BY <1>8, <2>1, WindowAssumption DEF Bits
    <3> QED BY <2>3, <3>1 DEF shl
  <2>5. r + (WordBits - bs) \in Bits
    BY <1>1, <1>3, <1>8, <2>1, WindowAssumption DEF Bits
  <2>6. CASE q >= ws + 1
    <3>1. moved[q - 1] = map[q - 1 - ws]
      BY <2>6, <1>1, <1>3, <1>4, <1>6, WindowAssumption
    <3>2. q - 1 - ws \in Nat BY <2>6, <1>1, <1>3
    <3>3. idx - shift = (q - 1 - ws) * WordBits + (r + (WordBits - bs))
      BY <1>1, <1>3, <2>5, <3>2, WindowAssumption, Z3 DEF Bits
    <3>4. idx >= shift
      BY <1>1, <1>2, <1>3, <2>5, <3>2, <3>3, WindowAssumption, Z3 DEF Bits
    <3>5. is_set(map, idx - shift) <=> r + (WordBits - bs) \in map[q - 1 - ws]
      BY <2>5, <3>2, <3>3, IsSetAt
    <3>6. r \in out[q] <=> r + (WordBits - bs) \in moved[q - 1]
      BY <1>1, <1>3, <2>2, <2>4, <2>6 DEF shr
    <3> QED BY Zenon, <1>5, <3>1, <3>4, <3>5, <3>6
  <2>7. CASE ~(q >= ws + 1)
    <3>1. q > 0 => moved[q - 1] = {}
      BY <2>7, <1>1, <1>3, <1>4, <1>6, WindowAssumption
    <3>2. r \notin out[q]
      BY Zenon, <2>2, <2>4, <3>1 DEF shr
    <3>3. ws * WordBits >= q * WordBits
      BY <2>7, <1>1, <1>3, WindowAssumption, Z3
    <3>4. ~(idx >= shift)
      BY <3>3, <1>1, <1>3, <1>8, <2>1, WindowAssumption, Z3
    <3> QED BY <1>5, <3>2, <3>4
  <2> QED BY Zenon, <2>6, <2>7, <1>1, <1>3
<1> QED BY <1>7, <1>8

\* set_bit sets the one bit and keeps the others.
LEMMA SetBitExact ==
  ASSUME NEW map \in Bitmaps, NEW n \in 0 .. WINDOW_SIZE - 1
  PROVE  /\ set_bit(map, n) \in Bitmaps
         /\ \A idx \in 0 .. WINDOW_SIZE - 1 :
              is_set(set_bit(map, n), idx) <=> (idx = n \/ is_set(map, idx))
<1>0. WINDOW_SIZE \in Nat BY WindowAssumption DEF WINDOW_SIZE
<1> DEFINE w == n \div WordBits
           b == n % WordBits
<1>1. n \in Nat BY <1>0
<1>2. w \in Nat /\ b \in Bits /\ n = w * WordBits + b
  BY <1>1, Split
<1>3. w < Words BY <1>0, <1>2, InWindow
<1>4. set_bit(map, n) = [map EXCEPT ![w] = @ \cup {b}]
  BY DEF set_bit
<1> HIDE DEF w, b
<1>5. set_bit(map, n) \in Bitmaps
  BY Zenon, <1>2, <1>3, <1>4, WindowAssumption DEF Bitmaps
<1>6. ASSUME NEW idx \in 0 .. WINDOW_SIZE - 1
      PROVE  is_set(set_bit(map, n), idx) <=> (idx = n \/ is_set(map, idx))
  <2> DEFINE q == idx \div WordBits
             r == idx % WordBits
  <2>1. idx \in Nat BY <1>0
  <2>2. q \in Nat /\ r \in Bits /\ idx = q * WordBits + r
    BY <2>1, Split
  <2>3. q < Words BY <1>0, <2>2, InWindow
  <2>4. is_set(set_bit(map, n), idx) <=> r \in set_bit(map, n)[q]
    BY DEF is_set
  <2>5. is_set(map, idx) <=> r \in map[q]
    BY DEF is_set
  <2> HIDE DEF q, r
  <2>6. r \in set_bit(map, n)[q] <=> ((q = w /\ r = b) \/ r \in map[q])
    <3>1. q \in 0 .. Words - 1 /\ w \in 0 .. Words - 1
      BY <1>2, <1>3, <2>2, <2>3, WindowAssumption
    <3>2. [map EXCEPT ![w] = @ \cup {b}][q] = IF q = w THEN map[w] \cup {b} ELSE map[q]
      BY <3>1 DEF Bitmaps
    <3> QED BY <1>4, <3>2
  <2>7. idx = n <=> (q = w /\ r = b)
    BY <1>2, <2>2, SplitUnique
  <2> QED BY <2>4, <2>5, <2>6, <2>7
<1> QED BY <1>5, <1>6

\* What every step preserves: the fields have their types and the bitmap is exact.
WindowInv == TypeOK /\ BitmapIsExact

\* accept keeps the bitmap exact: a newer counter moves every mark up by the
\* distance, an older one sets the bit that stands for it.
LEMMA AcceptPreserves ==
  ASSUME WindowInv, NEW counter \in Counters, accept(counter)
  PROVE  WindowInv'
<1>0. WINDOW_SIZE \in Nat /\ WINDOW_SIZE > 0
  BY WindowAssumption, Z3 DEF WINDOW_SIZE
<1>1. counter \in Nat /\ high_water \in Nat /\ bitmap \in Bitmaps /\ seen \subseteq Nat
  BY WindowAssumption DEF WindowInv, TypeOK
<1>2. seen' = seen \cup {counter} /\ seen' \subseteq Counters
  BY DEF accept, WindowInv, TypeOK
<1>3. \A c \in seen : c <= high_water
  BY DEF WindowInv, BitmapIsExact
<1>4. \A idx \in 0 .. WINDOW_SIZE - 1 :
        is_set(bitmap, idx) <=> (high_water - idx) \in seen
  BY DEF WindowInv, BitmapIsExact
<1>5. CASE counter > high_water
  <2> DEFINE shift == counter - high_water
             moved == shift_window(bitmap, shift)
  <2>1. high_water' = counter /\ bitmap' = set_bit(moved, 0)
    BY <1>5 DEF accept, mark
  <2>2. shift \in Nat /\ shift > 0 BY <1>1, <1>5
  <2>3. moved \in Bitmaps BY <1>1, <2>2, ShiftType
  <2>4. \A idx \in 0 .. WINDOW_SIZE - 1 :
          is_set(moved, idx) <=> (counter - idx) \in seen
    <3> TAKE idx \in 0 .. WINDOW_SIZE - 1
    <3>1. idx \in Nat /\ idx < WINDOW_SIZE BY <1>0
    <3>2. CASE shift < WINDOW_SIZE
      <4>1. is_set(moved, idx) <=> (idx >= shift /\ is_set(bitmap, idx - shift))
        BY <1>1, <2>2, <3>2, ShiftExact
      <4>2. CASE idx >= shift
        <5>1. idx - shift \in 0 .. WINDOW_SIZE - 1 BY <1>0, <2>2, <3>1, <4>2
        <5>2. high_water - (idx - shift) = counter - idx BY <1>1, <3>1
        <5> QED BY <1>4, <4>1, <4>2, <5>1, <5>2
      <4>3. CASE ~(idx >= shift)
        <5>1. ~(counter - idx <= high_water) BY <1>1, <3>1, <4>3
        <5> QED BY <1>3, <4>1, <4>3, <5>1
      <4> QED BY <4>2, <4>3
    <3>3. CASE ~(shift < WINDOW_SIZE)
      <4>1. ~(counter - idx <= high_water) BY <1>0, <1>1, <3>1, <3>3
      <4>2. moved = [i \in 0 .. Words - 1 |-> {}]
        BY <1>0, <2>2, <3>3 DEF shift_window
      <4>3. /\ idx \div WordBits \in Nat /\ idx % WordBits \in Bits
            /\ idx = (idx \div WordBits) * WordBits + (idx % WordBits)
        BY <3>1, Split
      <4>4. idx \div WordBits < Words BY <3>1, <4>3, InWindow
      <4>5. moved[idx \div WordBits] = {}
        BY <4>2, <4>3, <4>4, WindowAssumption
      <4> QED BY <1>3, <4>1, <4>5 DEF is_set
    <3> QED BY <3>2, <3>3
  <2> HIDE DEF moved
  <2>5. 0 \in 0 .. WINDOW_SIZE - 1 BY <1>0
  <2>6. /\ bitmap' \in Bitmaps
        /\ \A idx \in 0 .. WINDOW_SIZE - 1 :
             is_set(bitmap', idx) <=> (idx = 0 \/ is_set(moved, idx))
    BY <2>1, <2>3, <2>5, SetBitExact
  <2>7. TypeOK' BY <1>1, <1>2, <2>1, <2>6 DEF TypeOK
  <2>8. \A c \in seen' : c <= high_water'
    BY <1>1, <1>2, <1>3, <1>5, <2>1
  <2>9. \A idx \in 0 .. WINDOW_SIZE - 1 :
          is_set(bitmap', idx) <=> (high_water' - idx) \in seen'
    <3> TAKE idx \in 0 .. WINDOW_SIZE - 1
    <3>1. idx = 0 <=> counter - idx = counter BY <1>0, <1>1
    <3> QED BY <1>2, <2>1, <2>4, <2>6, <3>1
  <2> QED BY <2>7, <2>8, <2>9 DEF WindowInv, BitmapIsExact, WINDOW_SIZE
<1>6. CASE ~(counter > high_water)
  <2> DEFINE delta == high_water - counter
  <2>1. delta \in 0 .. WINDOW_SIZE - 1
    BY <1>0, <1>1, <1>6 DEF accept, check
  <2>2. high_water' = high_water /\ bitmap' = set_bit(bitmap, delta)
    BY <1>0, <1>1, <1>6, <2>1 DEF accept, mark
  <2>3. /\ bitmap' \in Bitmaps
        /\ \A idx \in 0 .. WINDOW_SIZE - 1 :
             is_set(bitmap', idx) <=> (idx = delta \/ is_set(bitmap, idx))
    BY <1>1, <2>1, <2>2, SetBitExact
  <2>4. TypeOK' BY <1>1, <1>2, <2>2, <2>3 DEF TypeOK
  <2>5. \A c \in seen' : c <= high_water'
    BY <1>1, <1>2, <1>3, <1>6, <2>2
  <2>6. \A idx \in 0 .. WINDOW_SIZE - 1 :
          is_set(bitmap', idx) <=> (high_water' - idx) \in seen'
    <3> TAKE idx \in 0 .. WINDOW_SIZE - 1
    <3>1. idx = delta <=> high_water - idx = counter BY <1>0, <1>1
    <3> QED BY <1>2, <1>4, <2>2, <2>3, <3>1
  <2> QED BY <2>4, <2>5, <2>6 DEF WindowInv, BitmapIsExact, WINDOW_SIZE
<1> QED BY <1>5, <1>6

\* The window starts out exact.
LEMMA WindowInit == Init => WindowInv
<1> SUFFICES ASSUME Init PROVE WindowInv OBVIOUS
<1>0. WINDOW_SIZE \in Nat BY WindowAssumption DEF WINDOW_SIZE
<1>1. TypeOK BY DEF Init, TypeOK, Bitmaps
<1>2. ASSUME NEW idx \in 0 .. WINDOW_SIZE - 1 PROVE ~is_set(bitmap, idx)
  <2>1. idx \in Nat /\ idx < WINDOW_SIZE BY <1>0
  <2>2. /\ idx \div WordBits \in Nat /\ idx % WordBits \in Bits
        /\ idx = (idx \div WordBits) * WordBits + (idx % WordBits)
    BY <2>1, Split
  <2>3. idx \div WordBits < Words BY <2>1, <2>2, InWindow
  <2> QED BY <2>2, <2>3, WindowAssumption DEF Init, is_set
<1> QED BY Zenon, <1>1, <1>2 DEF WindowInv, BitmapIsExact, Init

\* The bitmap of a call's replay window (mark, shift_window) always stands for
\* exactly the accepted counters of the window.
THEOREM WindowIsExact == Spec => []BitmapIsExact
<1>1. WindowInv /\ [Next]_vars => WindowInv'
  <2> SUFFICES ASSUME WindowInv, [Next]_vars PROVE WindowInv' OBVIOUS
  <2>1. CASE Next BY <2>1, AcceptPreserves DEF Next
  <2>2. CASE UNCHANGED vars
    BY Zenon, <2>2 DEF vars, WindowInv, TypeOK, BitmapIsExact, is_set
  <2> QED BY <2>1, <2>2
<1>2. WindowInv => BitmapIsExact BY DEF WindowInv
<1> QED BY WindowInit, <1>1, <1>2, PTL DEF Spec

\* check accepts a counter exactly when it is new and inside the window, so no
\* frame counter is ever accepted twice by decrypt_frame.
THEOREM CheckIsExact == Spec => []ChecksExactly
<1>1. WindowInv => ChecksExactly
  <2> SUFFICES ASSUME WindowInv, NEW c \in Counters
               PROVE  check(high_water, bitmap, c) <=>
                        (c \notin seen /\ high_water - c < WINDOW_SIZE)
    BY DEF ChecksExactly
  <2>0. WINDOW_SIZE \in Nat /\ WINDOW_SIZE > 0
    BY WindowAssumption, Z3 DEF WINDOW_SIZE
  <2>1. c \in Nat /\ high_water \in Nat BY WindowAssumption DEF WindowInv, TypeOK
  <2>2. \A k \in seen : k <= high_water BY DEF WindowInv, BitmapIsExact
  <2>3. CASE c > high_water
    BY <2>0, <2>1, <2>2, <2>3 DEF check
  <2>4. CASE ~(c > high_water) /\ high_water - c < WINDOW_SIZE
    <3>1. high_water - c \in 0 .. WINDOW_SIZE - 1 BY <2>0, <2>1, <2>4
    <3>2. high_water - (high_water - c) = c BY <2>1
    <3>3. is_set(bitmap, high_water - c) <=> c \in seen
      BY <3>1, <3>2 DEF WindowInv, BitmapIsExact
    <3> QED BY <2>1, <2>4, <3>3 DEF check
  <2>5. CASE ~(c > high_water) /\ ~(high_water - c < WINDOW_SIZE)
    BY <2>1, <2>5 DEF check
  <2> QED BY <2>3, <2>4, <2>5
<1>2. WindowInv /\ [Next]_vars => WindowInv'
  <2> SUFFICES ASSUME WindowInv, [Next]_vars PROVE WindowInv' OBVIOUS
  <2>1. CASE Next BY <2>1, AcceptPreserves DEF Next
  <2>2. CASE UNCHANGED vars
    BY Zenon, <2>2 DEF vars, WindowInv, TypeOK, BitmapIsExact, is_set
  <2> QED BY <2>1, <2>2
<1> QED BY WindowInit, <1>1, <1>2, PTL DEF Spec

-----------------------------------------------------------------------------
(* A broadcast channel.  Every signature on the server is over what its     *)
(* sender said, every blob was made for one device, and a device holds only *)
(* what it could open.                                                      *)
Utterance(channel, k, gen, sender, body) ==
  [channel |-> channel, key_id |-> k, generation |-> gen,
   sender |-> sender, body |-> body]

Signed(p, spoken) ==
  \E channel, k, gen, sender, body, nonce :
    /\ p.signature = encrypt_message(body, k, channel, k, gen, sender, nonce).signature
    /\ Utterance(channel, k, gen, sender, body) \in spoken

ChannelInv ==
  /\ read = [d \in Devices |-> read[d]] /\ cache = [d \in Devices |-> cache[d]]
  /\ \A p \in posts : Signed(p, said)
  /\ \A blob \in blobs : \E k, d : blob = wrap_key(k, d)
  /\ \A d \in Devices : \A k \in cache[d] : wrap_key(k, d) \in blobs
  /\ ReadAsPosted

(* Fields that decrypt_message accepts are those of one post, whichever     *)
(* posts they were taken from: the signature names the ciphertext and the   *)
(* associated data in it the key.                                           *)
LEMMA AcceptedWasSaid ==
  ASSUME ChannelInv, NEW fields \in Served, NEW k, NEW channel, NEW sender,
         decrypt_message_accepts(fields, k, channel, sender)
  PROVE  /\ Utterance(channel, fields.key_id, fields.generation, sender, fields.ciphertext.body)
              \in said
         /\ fields.key_id = k
<1>1. PICK p \in posts : fields.signature = p.signature
  BY DEF Served
<1>2. PICK ch, key, g, s, body, nonce :
        /\ p.signature = encrypt_message(body, key, ch, key, g, s, nonce).signature
        /\ Utterance(ch, key, g, s, body) \in said
  BY Zenon DEF ChannelInv, Signed
<1> DEFINE c == [key |-> key, nonce |-> nonce, aad |-> <<ch, key, g>>, body |-> body]
<1>3. fields.signature.by = s /\ fields.signature.over = <<ch, g, c>>
  BY <1>1, <1>2, SMTT(30) DEF encrypt_message, build_message_aad, build_signed_payload
<1>4. /\ sender = s /\ <<channel, fields.generation, fields.ciphertext>> = <<ch, g, c>>
      /\ fields.ciphertext.key = k
      /\ fields.ciphertext.aad = <<channel, fields.key_id, fields.generation>>
  BY Zenon, <1>3 DEF decrypt_message_accepts, verifies, build_message_aad, build_signed_payload
<1>5. channel = ch /\ fields.generation = g /\ fields.ciphertext = c
  BY Zenon, <1>4
<1>6. c.key = key /\ c.aad = <<ch, key, g>> /\ c.body = body
  OBVIOUS
<1> HIDE DEF c
<1>7. <<channel, fields.key_id, fields.generation>> = <<ch, key, g>> /\ k = key
  BY <1>4, <1>5, <1>6
<1>8. fields.key_id = key
  BY <1>7
<1> QED
  BY <1>2, <1>4, <1>5, <1>6, <1>7, <1>8

LEMMA ChannelStep == ChannelInv /\ [ChannelNext]_channel_vars => ChannelInv'
<1> SUFFICES ASSUME ChannelInv, [ChannelNext]_channel_vars PROVE ChannelInv'
  OBVIOUS
<1> USE DEF ChannelInv, ReadAsPosted, ReadIsSaid, OnlyWrappedReaders
<1>1. ASSUME NEW channel \in Channels, generate_channel_key(channel) PROVE ChannelInv'
  BY <1>1 DEF generate_channel_key, Signed
<1>2. ASSUME NEW k \in DOMAIN keys, NEW d \in Devices, wrap_key_for_device(k, d) PROVE ChannelInv'
  BY <1>2 DEF wrap_key_for_device, Signed
<1>3. ASSUME NEW d \in Devices, unwrap_key_blob(d) PROVE ChannelInv'
  <2>1. PICK blob \in blobs : /\ unwrap_key_blob_opens(blob, d)
                              /\ cache' = [cache EXCEPT ![d] = @ \cup {blob.key}]
    BY Zenon, <1>3 DEF unwrap_key_blob
  <2>2. PICK k, e : blob = wrap_key(k, e)
    OBVIOUS
  <2>3. e = d
    BY Zenon, <2>1, <2>2 DEF wrap_key, unwrap_key_blob_opens, derive_wrap_key
  <2>4. blob.key = k
    BY Zenon, <2>2 DEF wrap_key
  <2> QED
    BY Zenon, <1>3, <2>1, <2>2, <2>3, <2>4 DEF unwrap_key_blob, Signed
<1>4. ASSUME NEW d \in Devices, NEW s \in Senders, NEW k \in DOMAIN keys, NEW g \in 0..1,
             NEW body \in Bodies, post(d, s, k, g, body)
      PROVE  ChannelInv'
  <2> DEFINE n == Cardinality(posts) + 1
             new == encrypt_message(body, k, keys[k], k, g, s, n)
  <2>1. /\ posts' = posts \cup {new}
        /\ said' = said \cup {Utterance(keys[k], k, g, s, body)}
        /\ UNCHANGED <<keys, blobs, cache, read>>
    BY Zenon, <1>4 DEF post, Utterance
  <2>2. Signed(new, said')
    <3>1. Utterance(keys[k], k, g, s, body) \in said'
      BY Zenon, <2>1
    <3> QED
      BY Zenon, <3>1 DEF Signed
  <2> HIDE DEF new
  <2>3. \A p \in posts' : Signed(p, said')
    BY <2>1, <2>2 DEF Signed
  <2> QED
    BY Zenon, <2>1, <2>3
<1>5. ASSUME NEW d \in Devices, NEW s \in Senders, NEW k \in DOMAIN keys, NEW channel \in Channels,
             decrypt_message(d, s, k, channel)
      PROVE  ChannelInv'
  <2>1. PICK fields \in Served :
          /\ decrypt_message_accepts(fields, k, channel, s)
          /\ read' = [read EXCEPT ![d] = @ \cup
                {Utterance(channel, fields.key_id, fields.generation, s, fields.ciphertext.body)}]
    BY Zenon, <1>5 DEF decrypt_message, Utterance
  <2> DEFINE m == Utterance(channel, fields.key_id, fields.generation, s, fields.ciphertext.body)
  <2>2. m \in said /\ m.key_id = k
    BY Zenon, <2>1, AcceptedWasSaid DEF Utterance
  <2>3. k \in cache[d] /\ UNCHANGED <<keys, blobs, cache, posts, said>>
    BY Zenon, <1>5 DEF decrypt_message
  <2> HIDE DEF m
  <2>4. read' = [e \in Devices |-> IF e = d THEN read[d] \cup {m} ELSE read[e]]
    BY Zenon, <2>1 DEF m
  <2> QED
    BY <2>2, <2>3, <2>4 DEF Signed
<1>6. CASE UNCHANGED channel_vars
  BY <1>6 DEF channel_vars, Signed
<1> QED
  BY Zenon, <1>1, <1>2, <1>3, <1>4, <1>5, <1>6 DEF ChannelNext

(* Whatever the server combines and whomever it serves, a device reads what *)
(* the named sender posted there, under a key that was wrapped for it       *)
(* (decrypt_message, unwrap_key_blob of channel.rs).                        *)
THEOREM ChannelsReadAsPosted == ChannelSpec => []ReadAsPosted
<1>1. ChannelInit => ChannelInv
  BY DEF ChannelInit, ChannelInv, ReadAsPosted, ReadIsSaid, OnlyWrappedReaders
<1>2. ChannelInv => ReadAsPosted
  BY DEF ChannelInv
<1> QED
  BY <1>1, <1>2, ChannelStep, PTL DEF ChannelSpec

-----------------------------------------------------------------------------
(* Group messages.  What the sender has checked and built is what the       *)
(* receiver checks, but for the clock and the size.                         *)
WellBuilt(m) ==
  /\ m.sent \in Nat
  /\ validate_annotations_against_tree(m.content, m.mentions, m.reply)
  /\ validate_ttl(m.type, m.ttl)
  /\ refers(m.type) => m.ref = "id"
  /\ franking_holds(m)
  /\ is_sealed(m.type) => \E p : [key |-> seal_key, of |-> p] \in m.sealed

ContentInv ==
  /\ receiver_now \in Nat /\ sender_now \in Nat
  /\ \A m \in msg : WellBuilt(m) /\ msg = {m}
  /\ \A r \in result : r.msg \in msg /\ r.at \in Nat /\ in_time(r.msg, r.at)
                       /\ fits(r.msg)
                       /\ r.franking = franking_data(r.msg)
  /\ refused_at # {} => msg # {}
  /\ RoundTrip

LEMMA BuiltWell ==
  ASSUME ContentInv, NEW call \in Requests, accepts_policy(call),
         is_sealed(call.policy.type) => call.real # {}
  PROVE  WellBuilt(build_group_plaintext(call, effective_policy(call.policy), sender_now))
<1> DEFINE p == effective_policy(call.policy)
           m == build_group_plaintext(call, p, sender_now)
<1>1. /\ p.type = call.policy.type /\ p.ttl = call.policy.ttl /\ p.ref = call.policy.ref
      /\ p.mentions = call.policy.mentions /\ p.reply = call.policy.reply
      /\ mandatory => p.frankable
  BY Zenon, ContentAssumption DEF effective_policy, Policy
<1> HIDE DEF p
<1>2. /\ m.sent = sender_now /\ m.content = call.content /\ m.type = p.type /\ m.ttl = p.ttl
      /\ m.ref = p.ref /\ m.mentions = p.mentions /\ m.reply = p.reply
  BY Zenon DEF build_group_plaintext
<1>3. m.franking_key = IF p.frankable THEN {franking_key} ELSE {}
  BY Zenon DEF build_group_plaintext
<1>4. \A k \in m.franking_key :
        m.tag = {[key |-> k, input |-> franking_input(m.type, m.content, m.sealed,
                                         IF is_sealed(m.type) THEN {seal_key} ELSE {})]}
  BY Zenon DEF build_group_plaintext
<1>5. is_sealed(m.type) => m.sealed = {[key |-> seal_key, of |-> q] : q \in call.real}
  BY Zenon DEF build_group_plaintext
<1> HIDE DEF m
<1>6. is_sealed(m.type) => \E q : [key |-> seal_key, of |-> q] \in m.sealed
  BY Zenon, <1>1, <1>2, <1>5
<1>7. franking_holds(m)
  BY Zenon, <1>1, <1>3, <1>4 DEF franking_holds
<1> QED
  BY Zenon, <1>1, <1>2, <1>6, <1>7 DEF WellBuilt, accepts_policy, ContentInv, m, p

(* What a message is does not depend on the clocks. *)
LEMMA StaysWellBuilt ==
  ASSUME NEW m, WellBuilt(m), mandatory' = mandatory
  PROVE  WellBuilt(m)'
<1>1. franking_holds(m) => franking_holds(m)'
  BY Zenon DEF franking_holds
<1> QED
  BY Zenon, <1>1 DEF WellBuilt

(* A well-built message of a legal size is refused for its time only. *)
LEMMA RefusedForTime ==
  ASSUME ContentInv, NEW m \in msg, fits(m), ~decrypt_accepts(m)
  PROVE  is_disappearing(m.type) /\ (receiver_now > m.sent + m.ttl \/ m.sent > receiver_now + SKEW)
<1>1. WellBuilt(m)
  BY DEF ContentInv
<1>2. ~in_time(m, receiver_now)
  BY Zenon, <1>1 DEF WellBuilt, decrypt_accepts, parse_group_plaintext, validate_sealed_payload_fields
<1>3. is_disappearing(m.type) /\ m.ttl \in Nat
  BY <1>1, <1>2, ContentAssumption, SMTT(30) DEF WellBuilt, validate_ttl, in_time
<1> QED
  BY <1>1, <1>2, <1>3, ContentAssumption, SMTT(30) DEF WellBuilt, in_time, ContentInv

LEMMA ContentStep == ContentInv /\ [ContentNext]_content_vars => ContentInv'
<1> SUFFICES ASSUME ContentInv, [ContentNext]_content_vars PROVE ContentInv'
  OBVIOUS
<1>1. ASSUME NEW call \in Requests, encrypt_internal(call) PROVE ContentInv'
  <2>1. PICK m : msg' = {m} /\ WellBuilt(m)
    BY <1>1, BuiltWell DEF encrypt_internal
  <2>2. /\ msg = {} /\ mandatory' = mandatory
        /\ UNCHANGED <<sender_now, receiver_now, result, refused_at>>
    BY <1>1 DEF encrypt_internal
  <2>3. result = {} /\ refused_at = {}
    BY <2>2 DEF ContentInv
  <2>4. WellBuilt(m)'
    BY <2>1, <2>2, StaysWellBuilt
  <2> QED
    BY <2>1, <2>2, <2>3, <2>4 DEF ContentInv, RoundTrip
<1>2. ASSUME NEW m \in msg, decrypt(m) PROVE ContentInv'
    <2>1. \A k \in msg' : WellBuilt(k)'
    BY Zenon, <1>2, StaysWellBuilt DEF decrypt, ContentInv
  <2>2. /\ UNCHANGED <<sender_now, receiver_now, msg>> /\ result = {} /\ refused_at = {}
        /\ msg = {m} /\ receiver_now \in Nat
    BY Zenon, <1>2 DEF decrypt, ContentInv
  <2>3. CASE decrypt_accepts(m)
    <3>1. /\ result' = {[msg |-> m, at |-> receiver_now, franking |-> franking_data(m)]}
          /\ refused_at' = {}
      BY <1>2, <2>2, <2>3 DEF decrypt
    <3>2. in_time(m, receiver_now) /\ fits(m)
      BY <2>3 DEF decrypt_accepts, parse_group_plaintext
    <3> QED
      BY <2>1, <2>2, <3>1, <3>2, SMTT(30) DEF ContentInv, RoundTrip
  <2>4. CASE ~decrypt_accepts(m)
    <3>1. result' = {} /\ refused_at' = {receiver_now}
      BY <1>2, <2>2, <2>4 DEF decrypt
    <3>2. \/ ~fits(m)
          \/ is_disappearing(m.type) /\ (receiver_now > m.sent + m.ttl
                                          \/ m.sent > receiver_now + SKEW)
      BY Zenon, <2>4, RefusedForTime
    <3> QED
      BY Zenon, <2>1, <2>2, <3>1, <3>2 DEF ContentInv, RoundTrip
  <2> QED
    BY <2>3, <2>4
<1>3. CASE tick
  <2>1. \A m \in msg' : WellBuilt(m)'
    BY <1>3, StaysWellBuilt DEF tick, ContentInv
  <2> QED
    BY <1>3, <2>1, SMTT(30) DEF tick, ContentInv, RoundTrip
<1>4. CASE UNCHANGED content_vars
  <2>1. \A m \in msg' : WellBuilt(m)'
    BY <1>4, StaysWellBuilt DEF content_vars, ContentInv
  <2> QED
    BY Zenon, <1>4, <2>1 DEF content_vars, ContentInv, RoundTrip
<1> QED
  BY <1>1, <1>2, <1>3, <1>4 DEF ContentNext

(* A message that encrypt_internal let through is read unless its time is   *)
(* over or it is too large, is never shown otherwise, and in a group that   *)
(* requires franking comes with a report that verifies and opens.           *)
THEOREM MessagesAgreed == ContentSpec => []BothSidesAgree
<1>1. ContentInit => ContentInv
  BY ContentAssumption DEF ContentInit, ContentInv, RoundTrip
<1>2. ASSUME ContentInv PROVE BothSidesAgree
  <2>1. RoundTrip
    BY <1>2 DEF ContentInv
  <2>2. NeverShownLate
    BY Zenon, <1>2 DEF ContentInv, NeverShownLate, in_time
  <2>4. OversizedNeverShown
    BY <1>2 DEF ContentInv, OversizedNeverShown
  <2>3. ReportsVerify
    <3> SUFFICES ASSUME NEW r \in result
                 PROVE  /\ mandatory => r.franking # {}
                        /\ \A d \in r.franking :
                             verify_franking(d) /\ (is_sealed(d.type) => reveal_sealed(d) # {})
      BY DEF ReportsVerify
    <3>1. WellBuilt(r.msg) /\ r.franking = franking_data(r.msg)
      BY <1>2 DEF ContentInv
    <3>2. mandatory => r.franking # {}
      <4>1. mandatory => r.msg.franking_key # {}
        BY <3>1, Zenon DEF WellBuilt, franking_holds
      <4> QED
        BY Zenon, <3>1, <4>1 DEF franking_data
    <3>3. ASSUME NEW d \in r.franking
          PROVE  verify_franking(d) /\ (is_sealed(d.type) => reveal_sealed(d) # {})
      <4>1. PICK k \in r.msg.franking_key :
              d = [key |-> k, type |-> r.msg.type, content |-> r.msg.content,
                   sealed |-> r.msg.sealed,
                   seal_key |-> IF is_sealed(r.msg.type) THEN {seal_key} ELSE {},
                   tag |-> r.msg.tag]
        BY Zenon, <3>1, <3>3 DEF franking_data
      <4>2. verify_franking(d)
        BY Zenon, <3>1, <4>1 DEF WellBuilt, franking_holds, verify_franking
      <4>3. ASSUME is_sealed(d.type) PROVE reveal_sealed(d) # {}
        <5>1. d.sealed = r.msg.sealed /\ d.type = r.msg.type /\ d.seal_key = {seal_key}
          BY Zenon, <4>1, <4>3
        <5>2. PICK p : [key |-> seal_key, of |-> p] \in d.sealed
          BY Zenon, <3>1, <4>3, <5>1 DEF WellBuilt
        <5> QED
          BY <5>1, <5>2, SMTT(30) DEF reveal_sealed
      <4> QED
        BY <4>2, <4>3
    <3> QED
      BY <3>2, <3>3
  <2> QED
    BY <2>1, <2>2, <2>3, <2>4 DEF BothSidesAgree
<1> QED
  BY <1>1, <1>2, ContentStep, PTL DEF ContentSpec

-----------------------------------------------------------------------------
(* Handles.                                                                *)

(* The object is in the handle until it is taken. *)
Taken == \A h \in Handles : consumed[h] <= 1 /\ (some[h] => consumed[h] = 0)

(* A call inside the mutex of a session or a group. *)
Inside(c) == at[c] = "locked" \/ (at[c] = "callback" /\ has_mutex(job[c].h))

(* Who is inside the mutex owns it alone, found it clean unless it does not *)
(* mind, and it is clean still.                                             *)
Clean(c) == Inside(c) => /\ owner[job[c].h] = {c}
                         /\ ~refuses_poison(c)
                         /\ has_mutex(job[c].h)

Mutexes ==
    /\ \A c \in Slots : Clean(c)
    /\ \A h \in Handles : has_mutex(h) /\ torn[h] => poisoned[h]
    /\ \A c \in Slots : at[c] = "callback" => job[c].op = "call"
    /\ \A c \in Slots : at[c] = "held" => job[c].op \in Guarded

HandlesIInv == HandlesTypeOK /\ OneHolder /\ FlagIsHeld /\ Taken /\ Mutexes

LEMMA OpsType == \A h \in Handles : Ops(Kind[h]) \subseteq {"start", "call", "read", "get", "write", "finish"}
  <1>1. TAKE h \in Handles
  <1>2. Kind[h] \in Kinds  BY KindAssumption
  <1>3. CASE Kind[h] = "identity"  BY <1>3 DEF Ops
  <1>4. CASE Kind[h] = "group"  BY <1>4 DEF Ops
  <1>5. CASE Kind[h] = "stream"  BY <1>5 DEF Ops
  <1>6. CASE Kind[h] = "session"  BY <1>6 DEF Ops
  <1> QED  BY <1>2, <1>3, <1>4, <1>5, <1>6 DEF Kinds

LEMMA InitIInv == HandlesInit => HandlesIInv
  <1> SUFFICES ASSUME HandlesInit PROVE HandlesIInv  OBVIOUS
  <1>0. (CHOOSE h \in Handles : TRUE) \in Handles  BY HandleAssumption
  <1>1. HandlesTypeOK
    <2>1. job \in [Slots -> Jobs]  BY <1>0 DEF HandlesInit, Jobs
    <2> QED  BY <2>1 DEF HandlesInit, HandlesTypeOK, Places, Codes
  <1>2. OneHolder /\ FlagIsHeld  BY DEF HandlesInit, OneHolder, FlagIsHeld, Holds
  <1>3. Taken  BY DEF HandlesInit, Taken
  <1>4. Mutexes  BY DEF HandlesInit, Mutexes, Clean, Inside, refuses_poison
  <1> QED  BY <1>1, <1>2, <1>3, <1>4 DEF HandlesIInv

-----------------------------------------------------------------------------
(* A step of slot c leaves the other slots alone. *)
Others(c) == \A d \in Slots : d # c => at'[d] = at[d] /\ job'[d] = job[d]

Flags == OneHolder /\ FlagIsHeld

(* The flag was down and c raises it. *)
LEMMA Raises ==
  ASSUME HandlesTypeOK, Flags, NEW c \in Slots, NEW h \in Handles, Others(c),
         ~in_use[h], in_use' = [in_use EXCEPT ![h] = TRUE],
         \A k \in Handles : ~Holds(c, k),
         \A k \in Handles : Holds(c, k)' <=> k = h
  PROVE  Flags'
  <1>1. \A k \in Handles : \A d \in Slots : d # c => (Holds(d, k)' <=> Holds(d, k))
    BY Zenon DEF Others, Holds
  <1>2. \A k \in Handles : in_use'[k] <=> (k = h \/ in_use[k])  BY DEF HandlesTypeOK
  <1>3. OneHolder'
    BY <1>1 DEF Flags, OneHolder, FlagIsHeld
  <1>4. FlagIsHeld'
    BY <1>1, <1>2 DEF Flags, OneHolder, FlagIsHeld
  <1> QED  BY <1>3, <1>4 DEF Flags

(* c held the flag and lowers it. *)
LEMMA Lowers ==
  ASSUME HandlesTypeOK, Flags, NEW c \in Slots, NEW h \in Handles, Others(c),
         Holds(c, h), in_use' = [in_use EXCEPT ![h] = FALSE],
         \A k \in Handles : Holds(c, k) => k = h,
         \A k \in Handles : ~Holds(c, k)'
  PROVE  Flags'
  <1>1. \A k \in Handles : \A d \in Slots : d # c => (Holds(d, k)' <=> Holds(d, k))
    BY Zenon DEF Others, Holds
  <1>2. \A k \in Handles : in_use'[k] <=> (k # h /\ in_use[k])  BY DEF HandlesTypeOK
  <1>3. OneHolder'
    BY <1>1 DEF Flags, OneHolder, FlagIsHeld
  <1>4. FlagIsHeld'
    BY <1>1, <1>2 DEF Flags, OneHolder, FlagIsHeld
  <1> QED  BY <1>3, <1>4 DEF Flags

(* c moves without touching the flag. *)
LEMMA Keeps ==
  ASSUME Flags, NEW c \in Slots, Others(c), in_use' = in_use,
         \A k \in Handles : Holds(c, k)' <=> Holds(c, k)
  PROVE  Flags'
  <1>1. \A k \in Handles : \A d \in Slots : Holds(d, k)' <=> Holds(d, k)
    BY DEF Others, Holds
  <1> QED  BY <1>1 DEF Flags, OneHolder, FlagIsHeld

-----------------------------------------------------------------------------
LEMMA JobType == HandlesTypeOK => \A c \in Slots : job[c].h \in Handles /\ job[c] \in Jobs
  BY DEF HandlesTypeOK, Jobs

LEMMA StepType == HandlesTypeOK /\ [HandlesNext]_handles_vars => HandlesTypeOK'
  <1> SUFFICES ASSUME HandlesTypeOK, [HandlesNext]_handles_vars PROVE HandlesTypeOK'  OBVIOUS
  <1>s. CASE UNCHANGED handles_vars  BY Zenon, <1>s DEF HandlesTypeOK, handles_vars
  <1>j. \A c \in Slots : job[c].h \in Handles /\ job[c] \in Jobs  BY JobType
  <1>1. ASSUME NEW c \in Slots, NEW h \in Handles, NEW op \in Ops(Kind[h]), Call(c, op, h)
        PROVE HandlesTypeOK'
    <2>1. [op |-> op, h |-> h] \in Jobs  BY OpsType DEF Jobs
    <2> QED  BY <1>1, <2>1 DEF Call, HandlesTypeOK, Places
  <1>2. ASSUME NEW c \in Slots, invoke_c_callback_returns(c) PROVE HandlesTypeOK'
    BY Zenon, <1>2, <1>j DEF invoke_c_callback_returns, shared, Goes, Returns, HandlesTypeOK, Places, Codes
  <1>3. ASSUME NEW c \in Slots, Acquire(c) PROVE HandlesTypeOK'
    <2>1. CASE in_use[job[c].h]
      BY <1>3, <2>1 DEF Acquire, try_acquire_busy, Returns, HandlesTypeOK, Places, Codes
    <2>2. CASE ~in_use[job[c].h]
      BY <1>3, <1>j, <2>2, ZenonT(30) DEF Acquire, try_acquire_busy, Goes, HandlesTypeOK, Places
    <2> QED  BY <2>1, <2>2
  <1>4. ASSUME NEW c \in Slots, clone_identity_time_provider(c) PROVE HandlesTypeOK'
    <2>1. [op |-> "call", h |-> job[c].h] \in Jobs  BY <1>j DEF Jobs
    <2> QED  BY Zenon, <1>4, <1>j, <2>1 DEF clone_identity_time_provider, DropGuard, Goes, Returns, HandlesTypeOK, Places, Codes
  <1>5. ASSUME NEW c \in Slots, Disposed(c) PROVE HandlesTypeOK'
    BY Zenon, <1>5, <1>j DEF Disposed, DropGuard, shared, Goes, Returns, HandlesTypeOK, Places, Codes
  <1>6. ASSUME NEW c \in Slots, require_mut(c) PROVE HandlesTypeOK'
    BY Zenon, <1>6, <1>j DEF require_mut, shared, Goes, Returns, HandlesTypeOK, Places, Codes
  <1>7. ASSUME NEW c \in Slots, take_inner(c) PROVE HandlesTypeOK'
    BY <1>7, <1>j DEF take_inner, shared, Goes, Returns, HandlesTypeOK, Places, Codes
  <1>8. ASSUME NEW c \in Slots, group_ref_or_none(c) PROVE HandlesTypeOK'
    BY Zenon, <1>8, <1>j DEF group_ref_or_none, shared, Goes, Returns, HandlesTypeOK, Places, Codes
  <1>9. ASSUME NEW c \in Slots, lock(c) PROVE HandlesTypeOK'
    <2>1. CASE refuses_poison(c)
      <3>1. in_use' \in [Handles -> BOOLEAN]
        BY Zenon, <1>9, <1>j, <2>1 DEF lock, DropGuard, HandlesTypeOK
      <3>2. ret' \in [Slots -> Codes] /\ at' \in [Slots -> Places]
        BY Zenon, <1>9, <2>1 DEF lock, Returns, HandlesTypeOK, Codes, Places
      <3> QED  BY Zenon, <1>9, <2>1, <3>1, <3>2 DEF lock, Returns, HandlesTypeOK
    <2>2. CASE ~refuses_poison(c)
      BY <1>9, <1>j, <2>2 DEF lock, Goes, HandlesTypeOK, Places
    <2> QED  BY <2>1, <2>2
  <1>10. ASSUME NEW c \in Slots, Finish(c) PROVE HandlesTypeOK'
    BY Zenon, <1>10, <1>j DEF Finish, DropGuard, Working, shared, Goes, Returns, HandlesTypeOK, Places, Codes
  <1>11. ASSUME NEW c \in Slots, Notify(c) PROVE HandlesTypeOK'
    BY Zenon, <1>11, <1>j DEF Notify, Working, shared, Goes, Returns, HandlesTypeOK, Places, Codes
  <1>12. ASSUME NEW c \in Slots, Panic(c) PROVE HandlesTypeOK'
    BY Zenon, <1>12, <1>j DEF Panic, DropGuard, Working, shared, Goes, Returns, HandlesTypeOK, Places, Codes
  <1> QED
    BY Zenon, <1>s, <1>1, <1>2, <1>3, <1>4, <1>5, <1>6, <1>7, <1>8, <1>9, <1>10, <1>11, <1>12 DEF HandlesNext, Library

(* The busy flag over one step: one of the three lemmas above per action. *)
LEMMA StepFlags == HandlesIInv /\ [HandlesNext]_handles_vars => Flags'
  <1> SUFFICES ASSUME HandlesIInv, [HandlesNext]_handles_vars PROVE Flags'  OBVIOUS
  <1>i. HandlesTypeOK /\ Flags /\ Mutexes  BY DEF HandlesIInv, Flags
  <1>j. \A c \in Slots : job[c].h \in Handles /\ job[c] \in Jobs  BY <1>i, JobType
  <1>s. CASE UNCHANGED handles_vars
    <2>1. \A k \in Handles : \A d \in Slots : Holds(d, k)' <=> Holds(d, k)
      BY <1>s DEF handles_vars, Holds
    <2> QED  BY Zenon, <1>i, <1>s, <2>1 DEF handles_vars, Flags, OneHolder, FlagIsHeld
  <1>1. ASSUME NEW c \in Slots, NEW h \in Handles, NEW op \in Ops(Kind[h]), Call(c, op, h)
        PROVE Flags'
    <2>1. Others(c) /\ in_use' = in_use  BY Zenon, <1>1, <1>i DEF Call, Others, HandlesTypeOK
    <2>2. \A k \in Handles : ~Holds(c, k) /\ ~Holds(c, k)'
      BY Zenon, <1>1, <1>i DEF Call, MayCall, Holds, HandlesTypeOK
    <2> QED  BY <1>i, <2>1, <2>2, Keeps
  <1>2. ASSUME NEW c \in Slots, invoke_c_callback_returns(c) PROVE Flags'
    <2>1. Others(c) /\ in_use' = in_use
      BY Zenon, <1>2, <1>i DEF invoke_c_callback_returns, Others, HandlesTypeOK
    <2>2. \A k \in Handles : Holds(c, k)' <=> Holds(c, k)
      BY Zenon, <1>2, <1>i DEF invoke_c_callback_returns, Holds, HandlesTypeOK
    <2> QED  BY <1>i, <2>1, <2>2, Keeps
  <1>3. ASSUME NEW c \in Slots, Acquire(c) PROVE Flags'
    <2>1. CASE in_use[job[c].h]
      <3>1. Others(c) /\ in_use' = in_use
        BY Zenon, <1>3, <1>i, <2>1 DEF Acquire, try_acquire_busy, Returns, Others, HandlesTypeOK
      <3>2. \A k \in Handles : ~Holds(c, k) /\ ~Holds(c, k)'
        BY <1>3, <1>i, <2>1 DEF Acquire, try_acquire_busy, Returns, Holds, HandlesTypeOK
      <3> QED  BY <1>i, <3>1, <3>2, Keeps
    <2>2. CASE ~in_use[job[c].h]
      <3>1. Others(c) /\ in_use' = [in_use EXCEPT ![job[c].h] = TRUE]
        BY Zenon, <1>3, <1>i, <2>2 DEF Acquire, try_acquire_busy, Goes, Others, HandlesTypeOK
      <3>2. \A k \in Handles : ~Holds(c, k) /\ (Holds(c, k)' <=> k = job[c].h)
        BY Zenon, <1>3, <1>i, <2>2 DEF Acquire, try_acquire_busy, Goes, Holds, HandlesTypeOK
      <3> QED  BY Zenon, <1>i, <1>j, <2>2, <3>1, <3>2, Raises
    <2> QED  BY <2>1, <2>2
  <1>4. ASSUME NEW c \in Slots, clone_identity_time_provider(c) PROVE Flags'
    <2>1. Others(c) /\ in_use' = [in_use EXCEPT ![job[c].h] = FALSE]
      BY Zenon, <1>4, <1>i DEF clone_identity_time_provider, DropGuard, Others, HandlesTypeOK
    <2>2. Holds(c, job[c].h) /\ \A k \in Handles : Holds(c, k) => k = job[c].h
      BY Zenon, <1>4, <1>i DEF clone_identity_time_provider, Holds, Mutexes
    <2>3. \A k \in Handles : ~Holds(c, k)'
      BY Zenon, <1>4, <1>i DEF clone_identity_time_provider, Holds, HandlesTypeOK
    <2> QED  BY Zenon, <1>i, <1>j, <2>1, <2>2, <2>3, Lowers
  <1>5. ASSUME NEW c \in Slots, Disposed(c) PROVE Flags'
    <2>1. Others(c) /\ in_use' = [in_use EXCEPT ![job[c].h] = FALSE]
      BY Zenon, <1>5, <1>i DEF Disposed, DropGuard, Returns, Others, HandlesTypeOK
    <2>2. Holds(c, job[c].h) /\ \A k \in Handles : Holds(c, k) => k = job[c].h
      BY Zenon, <1>5, <1>i DEF Disposed, Holds, Mutexes
    <2>3. \A k \in Handles : ~Holds(c, k)'
      BY Zenon, <1>5, <1>i DEF Disposed, Returns, Holds, HandlesTypeOK
    <2> QED  BY Zenon, <1>i, <1>j, <2>1, <2>2, <2>3, Lowers
  <1>6. ASSUME NEW c \in Slots, require_mut(c) PROVE Flags'
    <2>1. Others(c) /\ in_use' = in_use
      BY Zenon, <1>6, <1>i DEF require_mut, Goes, shared, Others, HandlesTypeOK
    <2>2. \A k \in Handles : Holds(c, k)' <=> Holds(c, k)
      BY Zenon, <1>6, <1>i DEF require_mut, Goes, shared, Holds, HandlesTypeOK
    <2> QED  BY <1>i, <2>1, <2>2, Keeps
  <1>7. ASSUME NEW c \in Slots, take_inner(c) PROVE Flags'
    <2>1. Others(c) /\ in_use' = in_use
      BY Zenon, <1>7, <1>i DEF take_inner, Goes, Others, HandlesTypeOK
    <2>2. \A k \in Handles : Holds(c, k)' <=> Holds(c, k)
      BY Zenon, <1>7, <1>i DEF take_inner, Goes, Holds, HandlesTypeOK
    <2> QED  BY <1>i, <2>1, <2>2, Keeps
  <1>8. ASSUME NEW c \in Slots, group_ref_or_none(c) PROVE Flags'
    <2>1. Others(c) /\ in_use' = in_use
      BY Zenon, <1>8, <1>i DEF group_ref_or_none, Goes, Returns, shared, Others, HandlesTypeOK
    <2>2. \A k \in Handles : Holds(c, k)' <=> Holds(c, k)
      BY Zenon, <1>8, <1>i DEF group_ref_or_none, Goes, Returns, shared, Guarded, Holds, HandlesTypeOK
    <2> QED  BY <1>i, <2>1, <2>2, Keeps
  <1>9. ASSUME NEW c \in Slots, lock(c) PROVE Flags'
    <2>1. CASE refuses_poison(c) /\ job[c].op # "get"
      <3>1. Others(c) /\ in_use' = [in_use EXCEPT ![job[c].h] = FALSE]
        BY Zenon, <1>9, <1>i, <2>1 DEF lock, DropGuard, Returns, Others, HandlesTypeOK
      <3>2. Holds(c, job[c].h) /\ \A k \in Handles : Holds(c, k) => k = job[c].h
        BY Zenon, <1>9, <1>j, <2>1 DEF lock, NeedsLock, Holds, Guarded, Jobs
      <3>3. \A k \in Handles : ~Holds(c, k)'
        BY <1>9, <1>i, <2>1 DEF lock, Returns, Holds, HandlesTypeOK
      <3> QED  BY Zenon, <1>i, <1>j, <3>1, <3>2, <3>3, Lowers
    <2>2. CASE refuses_poison(c) /\ job[c].op = "get"
      <3>1. Others(c) /\ in_use' = in_use
        BY Zenon, <1>9, <1>i, <2>2 DEF lock, Returns, Others, HandlesTypeOK
      <3>2. \A k \in Handles : ~Holds(c, k) /\ ~Holds(c, k)'
        BY Zenon, <1>9, <1>i, <2>2 DEF lock, Returns, Holds, Guarded, HandlesTypeOK
      <3> QED  BY <1>i, <3>1, <3>2, Keeps
    <2>3. CASE ~refuses_poison(c)
      <3>1. Others(c) /\ in_use' = in_use
        BY Zenon, <1>9, <1>i, <2>3 DEF lock, Goes, Others, HandlesTypeOK
      <3>2. \A k \in Handles : Holds(c, k)' <=> Holds(c, k)
        BY Zenon, <1>9, <1>i, <2>3 DEF lock, NeedsLock, Goes, Holds, HandlesTypeOK
      <3> QED  BY <1>i, <3>1, <3>2, Keeps
    <2> QED  BY Zenon, <2>1, <2>2, <2>3
  <1>10. ASSUME NEW c \in Slots, Finish(c) PROVE Flags'
    <2>1. CASE job[c].op = "get"
      <3>1. Others(c) /\ in_use' = in_use
        BY Zenon, <1>10, <1>i, <2>1 DEF Finish, Returns, Others, HandlesTypeOK
      <3>2. \A k \in Handles : ~Holds(c, k) /\ ~Holds(c, k)'
        BY Zenon, <1>10, <1>i, <2>1 DEF Finish, Returns, Holds, Guarded, HandlesTypeOK
      <3> QED  BY <1>i, <3>1, <3>2, Keeps
    <2>2. CASE job[c].op # "get"
      <3>1. Others(c) /\ in_use' = [in_use EXCEPT ![job[c].h] = FALSE]
        BY Zenon, <1>10, <1>i, <2>2 DEF Finish, DropGuard, Returns, Others, HandlesTypeOK
      <3>2. Holds(c, job[c].h) /\ \A k \in Handles : Holds(c, k) => k = job[c].h
        BY Zenon, <1>10, <1>j, <2>2 DEF Finish, Working, Holds, Guarded, Jobs
      <3>3. \A k \in Handles : ~Holds(c, k)'
        BY Zenon, <1>10, <1>i DEF Finish, Returns, Holds, HandlesTypeOK
      <3> QED  BY Zenon, <1>i, <1>j, <3>1, <3>2, <3>3, Lowers
    <2> QED  BY <2>1, <2>2
  <1>11. ASSUME NEW c \in Slots, Notify(c) PROVE Flags'
    <2>1. Others(c) /\ in_use' = in_use
      BY Zenon, <1>11, <1>i DEF Notify, Goes, shared, Others, HandlesTypeOK
    <2>2. \A k \in Handles : Holds(c, k)' <=> Holds(c, k)
      BY Zenon, <1>11, <1>i DEF Notify, Goes, shared, Working, Holds, HandlesTypeOK
    <2> QED  BY <1>i, <2>1, <2>2, Keeps
  <1>12. ASSUME NEW c \in Slots, Panic(c) PROVE Flags'
    <2>1. Others(c) /\ in_use' = [in_use EXCEPT ![job[c].h] = FALSE]
      BY Zenon, <1>12, <1>i DEF Panic, DropGuard, Returns, Others, HandlesTypeOK
    <2>2. Holds(c, job[c].h) /\ \A k \in Handles : Holds(c, k) => k = job[c].h
      BY Zenon, <1>12, <1>j DEF Panic, Working, Holds, Guarded, Jobs
    <2>3. \A k \in Handles : ~Holds(c, k)'
      BY Zenon, <1>12, <1>i DEF Panic, Returns, Holds, HandlesTypeOK
    <2> QED  BY Zenon, <1>i, <1>j, <2>1, <2>2, <2>3, Lowers
  <1> QED
    BY Zenon, <1>s, <1>1, <1>2, <1>3, <1>4, <1>5, <1>6, <1>7, <1>8, <1>9, <1>10, <1>11, <1>12
    DEF HandlesNext, Library

LEMMA StepTaken == HandlesIInv /\ [HandlesNext]_handles_vars => Taken'
  <1> SUFFICES ASSUME HandlesIInv, [HandlesNext]_handles_vars PROVE Taken'  OBVIOUS
  <1>i. HandlesTypeOK /\ Taken  BY DEF HandlesIInv
  <1>j. \A c \in Slots : job[c].h \in Handles  BY <1>i, JobType
  <1>1. CASE UNCHANGED <<some, consumed>>  BY <1>i, <1>1 DEF Taken
  <1>2. ASSUME NEW c \in Slots, take_inner(c) PROVE Taken'
    BY <1>2, <1>i, <1>j DEF take_inner, Taken, HandlesTypeOK
  <1>3. UNCHANGED <<some, consumed>> \/ \E c \in Slots : take_inner(c)
    BY Zenon DEF HandlesNext, handles_vars, Call, Library, shared, invoke_c_callback_returns, Acquire, clone_identity_time_provider, Disposed, require_mut, group_ref_or_none, lock, Finish, Notify, Panic
  <1> QED  BY <1>1, <1>2, <1>3

LEMMA StepMutexes == HandlesIInv /\ [HandlesNext]_handles_vars => Mutexes'
  <1> SUFFICES ASSUME HandlesIInv, [HandlesNext]_handles_vars PROVE Mutexes'  OBVIOUS
  <1>i. HandlesTypeOK /\ Mutexes  BY DEF HandlesIInv
  <1>j. \A c \in Slots : job[c].h \in Handles /\ job[c] \in Jobs  BY <1>i, JobType
  <1>s. CASE UNCHANGED handles_vars  BY Zenon, <1>i, <1>s DEF handles_vars, Mutexes, Clean, Inside, refuses_poison
  <1>1. ASSUME NEW c \in Slots, NEW h \in Handles, NEW op \in Ops(Kind[h]), Call(c, op, h)
        PROVE Mutexes'
    BY Zenon, <1>1, <1>i DEF Call, Mutexes, Clean, Inside, refuses_poison, HandlesTypeOK
  <1>2. ASSUME NEW c \in Slots, invoke_c_callback_returns(c) PROVE Mutexes'
    BY Zenon, <1>2, <1>i, <1>j DEF invoke_c_callback_returns, Mutexes, Clean, Inside, refuses_poison, HandlesTypeOK
  <1>3. ASSUME NEW c \in Slots, Acquire(c) PROVE Mutexes'
    <2>1. PICK p \in {"held", "idle"} : at' = [at EXCEPT ![c] = p]
      BY Zenon, <1>3 DEF Acquire, try_acquire_busy, Goes, Returns
    <2>2. UNCHANGED <<job, owner, poisoned, torn>> /\ job[c].op \in Guarded
      BY Zenon, <1>3 DEF Acquire, try_acquire_busy, Goes, Returns
    <2> QED
      BY Zenon, <2>1, <2>2, <1>i, <1>j DEF Mutexes, Clean, Inside, refuses_poison, HandlesTypeOK
  <1>4. ASSUME NEW c \in Slots, clone_identity_time_provider(c) PROVE Mutexes'
    BY Zenon, <1>4, <1>i, <1>j DEF clone_identity_time_provider, Mutexes, Clean, Inside, refuses_poison, HandlesTypeOK
  <1>5. ASSUME NEW c \in Slots, Disposed(c) PROVE Mutexes'
    BY Zenon, <1>5, <1>i, <1>j DEF Disposed, Returns, Mutexes, Clean, Inside, refuses_poison, HandlesTypeOK
  <1>6. ASSUME NEW c \in Slots, require_mut(c) PROVE Mutexes'
    BY Zenon, <1>6, <1>i, <1>j DEF require_mut, Goes, shared, Mutexes, Clean, Inside, refuses_poison, HandlesTypeOK
  <1>7. ASSUME NEW c \in Slots, take_inner(c) PROVE Mutexes'
    BY Zenon, <1>7, <1>i, <1>j DEF take_inner, Goes, Mutexes, Clean, Inside, refuses_poison, HandlesTypeOK
  <1>8. ASSUME NEW c \in Slots, group_ref_or_none(c) PROVE Mutexes'
    <2>1. PICK p \in {"inner", "idle"} : at' = [at EXCEPT ![c] = p]
      BY Zenon, <1>8 DEF group_ref_or_none, Goes, Returns
    <2>2. UNCHANGED <<job, owner, poisoned, torn>>
      BY Zenon, <1>8 DEF group_ref_or_none, Goes, Returns, shared
    <2> QED
      BY Zenon, <2>1, <2>2, <1>i, <1>j DEF Mutexes, Clean, Inside, refuses_poison, HandlesTypeOK
  <1>9. ASSUME NEW c \in Slots, lock(c) PROVE Mutexes'
    <2>1. CASE refuses_poison(c)
      <3>1. /\ UNCHANGED <<owner, poisoned, torn, job>>
            /\ at' = [at EXCEPT ![c] = "idle"]
        BY Zenon, <1>9, <2>1 DEF lock, Returns
      <3> QED  BY Zenon, <3>1, <1>i, <1>j DEF Mutexes, Clean, Inside, refuses_poison, HandlesTypeOK
    <2>2. CASE ~refuses_poison(c)
      <3>1. /\ UNCHANGED <<poisoned, torn, job>> /\ owner[job[c].h] = {}
            /\ owner' = [owner EXCEPT ![job[c].h] = {c}]
            /\ at' = [at EXCEPT ![c] = "locked"] /\ has_mutex(job[c].h)
        BY Zenon, <1>9, <2>2 DEF lock, NeedsLock, Goes
      <3> QED  BY Zenon, <2>2, <3>1, <1>i, <1>j DEF Mutexes, Clean, Inside, refuses_poison, HandlesTypeOK
    <2> QED  BY <2>1, <2>2
  <1>10. ASSUME NEW c \in Slots, Finish(c) PROVE Mutexes'
    <2>1. /\ UNCHANGED <<poisoned, torn, job>> /\ at' = [at EXCEPT ![c] = "idle"]
          /\ owner' = [owner EXCEPT ![job[c].h] = owner[job[c].h] \ {c}]
      BY Zenon, <1>10 DEF Finish, Returns
    <2>2. ASSUME NEW d \in Slots PROVE Clean(d)'
      <3>1. CASE d = c
        BY Zenon, <2>1, <3>1, <1>i, <1>j DEF Clean, Inside, HandlesTypeOK
      <3>2. CASE d # c
        <4>1. at'[d] = at[d] /\ job'[d] = job[d]
          BY Zenon, <2>1, <3>2, <1>i, <1>j DEF HandlesTypeOK
        <4>2. Clean(d)
          BY Zenon, <1>i DEF Mutexes
        <4>3. owner[job[d].h] = {d} => owner'[job[d].h] = {d}
          BY Zenon, <2>1, <3>2, <1>i, <1>j DEF HandlesTypeOK
        <4> QED
          BY Zenon, <2>1, <4>1, <4>2, <4>3 DEF Clean, Inside, refuses_poison
      <3> QED
        BY <3>1, <3>2
    <2>3. \A d \in Slots : at'[d] = at[d] \/ at'[d] = "idle"
      BY Zenon, <2>1, <1>i, <1>j DEF HandlesTypeOK
    <2> QED
      BY Zenon, <2>1, <2>2, <2>3, <1>i DEF Mutexes
  <1>11. ASSUME NEW c \in Slots, Notify(c) PROVE Mutexes'
    BY Zenon, <1>11, <1>i, <1>j DEF Notify, Working, Goes, shared, Mutexes, Clean, Inside, refuses_poison, HandlesTypeOK
  <1>12. ASSUME NEW c \in Slots, Panic(c) PROVE Mutexes'
    <2> DEFINE g == job[c].h
    <2>1. g \in Handles /\ UNCHANGED job /\ at' = [at EXCEPT ![c] = "idle"]
      BY Zenon, <1>12, <1>j DEF Panic, Returns
    <2>2. \A h \in Handles \ {g} : UNCHANGED <<owner[h], poisoned[h], torn[h]>>
      BY Zenon, <1>12, <1>i DEF Panic, HandlesTypeOK
    <2>3. has_mutex(g) => poisoned'[g]
      BY Zenon, <1>12, <2>1, <1>i DEF Panic, HandlesTypeOK
    <2>4. \A h \in Handles : has_mutex(h) /\ torn'[h] => poisoned'[h]
      BY Zenon, <2>1, <2>2, <2>3, <1>i DEF Mutexes
    <2>5. ASSUME NEW d \in Slots, at[d] = "locked" \/ at[d] = "callback", d # c
          PROVE  Clean(d)'
      <3>1. CASE job[d].h # g
        BY Zenon, <2>1, <2>2, <2>5, <3>1, <1>i, <1>j DEF Mutexes, Clean, Inside, refuses_poison, HandlesTypeOK
      <3>2. CASE job[d].h = g /\ has_mutex(g)
        <4>1. owner[g] = {c} /\ owner[g] = {d}
          BY Zenon, <1>12, <2>5, <3>2, <1>i DEF Panic, Working, Mutexes, Clean, Inside, refuses_poison
        <4> QED  BY Zenon, <4>1, <2>5
      <3>3. CASE job[d].h = g /\ ~has_mutex(g)
        BY Zenon, <2>1, <2>5, <3>3, <1>i DEF Mutexes, Clean, Inside, refuses_poison, HandlesTypeOK
      <3> QED  BY Zenon, <3>1, <3>2, <3>3
    <2>6. ASSUME NEW d \in Slots PROVE Clean(d)'
      BY Zenon, <2>1, <2>5, <1>i DEF Clean, Inside, HandlesTypeOK
    <2> QED  BY Zenon, <2>1, <2>4, <2>6, <1>i DEF Mutexes, HandlesTypeOK
  <1> QED
    BY Zenon, <1>s, <1>1, <1>2, <1>3, <1>4, <1>5, <1>6, <1>7, <1>8, <1>9, <1>10, <1>11, <1>12
    DEF HandlesNext, Library

-----------------------------------------------------------------------------
LEMMA Inductive == HandlesIInv /\ [HandlesNext]_handles_vars => HandlesIInv'
  BY StepType, StepFlags, StepTaken, StepMutexes DEF HandlesIInv, Flags

LEMMA AlwaysIInv == HandlesSpec => []HandlesIInv
  BY InitIInv, Inductive, PTL DEF HandlesSpec

(***************************************************************************)
(* Whatever the threads and however callbacks nest, one call at a time      *)
(* holds the mutable reference of a handle (try_acquire_busy).              *)
(***************************************************************************)
THEOREM OneHolderHolds == HandlesSpec => []OneHolder
  <1>1. HandlesIInv => OneHolder  BY DEF HandlesIInv
  <1> QED  BY <1>1, AlwaysIInv, PTL

(***************************************************************************)
(* The busy flag is up exactly while a call holds it: every return, error   *)
(* and panic lowers it (BusyGuard's drop), and none lowers another's.       *)
(***************************************************************************)
THEOREM FlagIsHeldHolds == HandlesSpec => []FlagIsHeld
  <1>1. HandlesIInv => FlagIsHeld  BY DEF HandlesIInv
  <1> QED  BY <1>1, AlwaysIInv, PTL

(* A streaming object leaves its handle once (the take in finish). *)
THEOREM ConsumedOnceHolds == HandlesSpec => []ConsumedOnce
  <1>1. HandlesIInv => ConsumedOnce  BY DEF HandlesIInv, Taken, ConsumedOnce
  <1> QED  BY <1>1, AlwaysIInv, PTL

(***************************************************************************)
(* Nothing answers from a session or a group that a panic left half         *)
(* changed, the guarded getters of a session aside: whoever answers is      *)
(* inside a clean mutex.                                                    *)
(***************************************************************************)
THEOREM TornNeverAnswersHolds == HandlesSpec => TornNeverAnswers
  <1>1. HandlesIInv /\ [HandlesNext]_handles_vars =>
          [\A c \in Slots :
             ReturnsNow(c, "Answered") /\ has_mutex(job[c].h) /\ job[c].op # "read"
               => ~torn[job[c].h]]_handles_vars
    <2> SUFFICES ASSUME HandlesIInv, HandlesNext, NEW c \in Slots, ReturnsNow(c, "Answered"),
                        has_mutex(job[c].h), job[c].op # "read"
                 PROVE  ~torn[job[c].h]
      OBVIOUS
    <2>i. HandlesTypeOK /\ Mutexes /\ job[c].h \in Handles  BY JobType DEF HandlesIInv
    <2>1. Finish(c)
      <3> USE DEF ReturnsNow, HandlesTypeOK
      <3>1. ASSUME NEW d \in Slots, NEW h \in Handles, NEW op \in Ops(Kind[h]), Call(d, op, h)
            PROVE FALSE
        BY Zenon, <3>1, <2>i DEF Call
      <3>2. ASSUME NEW d \in Slots, invoke_c_callback_returns(d) PROVE FALSE
        BY Zenon, <3>2, <2>i DEF invoke_c_callback_returns
      <3>3. ASSUME NEW d \in Slots, Acquire(d) PROVE FALSE
        BY <3>3, <2>i DEF Acquire, try_acquire_busy, Goes, Returns
      <3>4. ASSUME NEW d \in Slots, clone_identity_time_provider(d) PROVE FALSE
        BY Zenon, <3>4, <2>i DEF clone_identity_time_provider
      <3>5. ASSUME NEW d \in Slots, Disposed(d) PROVE FALSE
        BY Zenon, <3>5, <2>i DEF Disposed, Returns
      <3>6. ASSUME NEW d \in Slots, require_mut(d) PROVE FALSE
        BY Zenon, <3>6, <2>i DEF require_mut, Goes
      <3>7. ASSUME NEW d \in Slots, take_inner(d) PROVE FALSE
        BY Zenon, <3>7, <2>i DEF take_inner, Goes
      <3>8. ASSUME NEW d \in Slots, group_ref_or_none(d) PROVE FALSE
        BY <3>8, <2>i DEF group_ref_or_none, Goes, Returns
      <3>9. ASSUME NEW d \in Slots, lock(d) PROVE FALSE
        BY <3>9, <2>i DEF lock, Goes, Returns
      <3>10. ASSUME NEW d \in Slots, Finish(d) PROVE d = c
        BY Zenon, <3>10, <2>i DEF Finish, Returns
      <3>11. ASSUME NEW d \in Slots, Notify(d) PROVE FALSE
        BY Zenon, <3>11, <2>i DEF Notify, Goes
      <3>12. ASSUME NEW d \in Slots, Panic(d) PROVE FALSE
        BY Zenon, <3>12, <2>i DEF Panic, Returns
      <3> QED
        BY <3>1, <3>2, <3>3, <3>4, <3>5, <3>6, <3>7, <3>8, <3>9, <3>10, <3>11, <3>12
        DEF HandlesNext, Library
    <2>2. at[c] = "locked"  BY Zenon, <2>1 DEF Finish, Working
    <2> QED  BY Zenon, <2>i, <2>2 DEF Mutexes, Clean, Inside, refuses_poison
  <1> QED  BY <1>1, AlwaysIInv, PTL DEF HandlesSpec, TornNeverAnswers

=============================================================================
