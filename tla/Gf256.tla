------------------------------- MODULE Gf256 -------------------------------
(***************************************************************************)
(* The arithmetic of GF(256), modulo x^8 + x^4 + x^3 + x + 1, by tables of  *)
(* logarithms, and the polynomials over it (crypto/shamir_secret_sharing.rs)*)
(***************************************************************************)
EXTENDS Integers, Sequences, SequencesExt, FiniteSetsExt

Byte == 0..255

Bit(v, k) == (v \div 2^k) % 2
Xor4 == [p \in (0..15) \X (0..15) |->
           SumSet({2^k : k \in {i \in 0..3 : Bit(p[1], i) # Bit(p[2], i)}})]
Xor(a, b) == 16 * Xor4[<<a \div 16, b \div 16>>] + Xor4[<<a % 16, b % 16>>]

(* One turn of the table's loop: times the generator x + 1, in sixteen bits,*)
(* reduced by 0x11B.  The ninth bit of the shift is kept apart.             *)
TimesGenerator(v) ==
    LET shifted == (2 * v) % 256
        sum == Xor(shifted, v)
    IN IF v >= 128 THEN Xor(sum, 27) ELSE sum

(* The 512 turns of the loop, as 16 runs of 32 (each fold stays short).     *)
(* EXP_TABLE[i] of the code is the entry i + 1.                             *)
Powers(v) == FoldLeft(LAMBDA t, i : Append(t, TimesGenerator(t[i])), <<v>>,
                      [i \in 1..31 |-> i])
EXP_TABLE == FoldLeft(LAMBDA t, i : t \o Powers(TimesGenerator(t[32 * i])), Powers(1),
                      [i \in 1..15 |-> i])

(* The last index of a value wins; 0 keeps the initial 0. *)
LOG_TABLE == [v \in Byte |-> Max({0} \cup {i \in 0..254 : EXP_TABLE[i + 1] = v})]

gf_mul(a, b) ==
    IF a = 0 \/ b = 0 THEN 0 ELSE EXP_TABLE[LOG_TABLE[a] + LOG_TABLE[b] + 1]

gf_inv(a) == IF a = 0 THEN 0 ELSE EXP_TABLE[255 - LOG_TABLE[a] + 1]

(* Horner's rule from the highest coefficient down. *)
evaluate_polynomial(coefficients, x) ==
    FoldLeft(LAMBDA r, coef : Xor(gf_mul(r, x), coef), 0, Reverse(coefficients))

(* Mutant of lagrange_interpolate: the term of i is divided by the          *)
(* differences to x rather than to xs[i].                                   *)
interpolate_self(xs, ys, x) ==
    LET Term(i) ==
            LET others == SelectSeq([j \in DOMAIN xs |-> j], LAMBDA j : j # i)
                numerator == FoldLeft(LAMBDA n, j : gf_mul(n, Xor(x, xs[j])), ys[i], others)
                denominator == FoldLeft(LAMBDA d, j : gf_mul(d, Xor(x, xs[j])), 1, others)
            IN gf_mul(numerator, gf_inv(denominator))
    IN FoldLeft(LAMBDA r, i : Xor(r, Term(i)), 0, [i \in DOMAIN xs |-> i])

lagrange_interpolate(xs, ys, x) ==
    LET Term(i) ==
            LET others == SelectSeq([j \in DOMAIN xs |-> j], LAMBDA j : j # i)
                numerator == FoldLeft(LAMBDA n, j : gf_mul(n, Xor(x, xs[j])), ys[i], others)
                denominator == FoldLeft(LAMBDA d, j : gf_mul(d, Xor(xs[i], xs[j])), 1, others)
            IN gf_mul(numerator, gf_inv(denominator))
    IN FoldLeft(LAMBDA r, i : Xor(r, Term(i)), 0, [i \in DOMAIN xs |-> i])
=============================================================================
