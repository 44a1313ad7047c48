------------------------------- MODULE Galois -------------------------------
(***************************************************************************)
(* The arithmetic of lib/crypto/evhash.cpp: the ring of polynomials over   *)
(* GF(2) modulo f = x^Bits + Modulus, with the tables by which the code    *)
(* multiplies with one fixed element alpha.                                *)
(*                                                                         *)
(* A polynomial is the set of the exponents it has, so that a blob_t is a  *)
(* set of numbers below Bits, and a word of it those that lie in the word. *)
(* The loops over words and bits are sums over sets: XOR has no order.     *)
(***************************************************************************)
EXTENDS Integers, SequencesExt

CONSTANTS
    Bits,           \* GF_BITS, the width of a blob
    WordBits,       \* WORD_BITS
    Modulus,        \* f without its highest term
    PrecalcBits,    \* PRECALC_BITS, the width of an index to a table
    MaxPow          \* MAX_POW, the number of powers of alpha in the table

(* The tables for what a shift pushes out keep one word of each product    *)
(* (evhash.cpp:790, 794).  The moduli of the constructor have a degree of  *)
(* at most 10, two indices 16 bits, a word 32.                             *)
ASSUME GaloisAssumption ==
    /\ Bits % WordBits = 0 /\ WordBits % (2 * PrecalcBits) = 0
    /\ \A m \in Modulus : m \in Nat /\ m + 2 * PrecalcBits <= WordBits

Exponents == 0 .. Bits - 1
Elements == SUBSET Exponents
Indices == SUBSET (0 .. PrecalcBits - 1)

Plus(a, b) == (a \ b) \cup (b \ a)
Sum(Of(_), S) ==
    LET added[s \in SUBSET Int, T \in SUBSET Int] ==
            IF T = {} THEN s
            ELSE LET e == CHOOSE x \in T : TRUE IN  added[Plus(s, Of(e)), T \ {e}]
    IN  added[{}, S]
Raised(p, n) == {e + n : e \in p}
LowWord(p) == {e \in p : e < WordBits}

-----------------------------------------------------------------------------
(* What stays in a blob shifted by n bits, and what is pushed out.         *)
Shifted(p, n) ==
    LET q == Raised(p, n) IN  [kept |-> q \cap Exponents, over |-> Raised(q \ Exponents, -Bits)]

(* Whole words first, then the bits; what the second shift pushes out of   *)
(* the blob goes to the low word of the overflow, which was shifted too.   *)
BlobShiftLeft(p, bits) ==
    LET words == Shifted(p, (bits \div WordBits) * WordBits)
        subbits == Shifted(words.kept, bits % WordBits)
    IN  [kept |-> subbits.kept,
         over |-> Plus(Shifted(words.over, bits % WordBits).kept, subbits.over)]

(* table[e] is x^e reduced.                                                *)
Reduce(table, p, over) ==
    Plus(p, Sum(LAMBDA e : table[e + Bits], over))

Shift(table, p, bits) ==
    LET s == BlobShiftLeft(p, bits) IN  Reduce(table, s.kept, s.over)

MulWith(table, a, b) == Sum(LAMBDA e : Shift(table, a, e), b)

(* Faulty: x^(Bits + i) is taken for x^i Modulus without reducing it. *)
ReduceBitShifted(table, e) ==
    IF e < Bits THEN BlobShiftLeft({0}, e).kept
    ELSE BlobShiftLeft(Modulus, e - Bits).kept

ReduceBitSlow(table, e) ==
    IF e < Bits THEN BlobShiftLeft({0}, e).kept
    ELSE MulWith(table, BlobShiftLeft({0}, e - Bits).kept, Modulus)

(* The code fills it from below: an entry needs smaller ones only. *)
BitreductionTable[e \in 0 .. 2 * Bits - 1] == ReduceBitSlow(BitreductionTable, e)

Mul(a, b) == MulWith(BitreductionTable, a, b)

-----------------------------------------------------------------------------
(* gf2_fast_alpha: the tables for alpha, in one step or in two.            *)
OverflowTable == [v \in Indices |-> LowWord(Mul(v, Modulus))]
OverflowTable2 == [v \in Indices |-> LowWord(Mul(Raised(v, PrecalcBits), Modulus))]

AlphaPow(alpha) ==
    LET squared[v \in Elements, j \in Nat] == IF j = 0 THEN v ELSE squared[Mul(v, v), j - 1]
    IN  [i \in 1 .. MaxPow |-> [pow |-> 2 ^ (MaxPow - i), value |-> squared[alpha, MaxPow - i]]]

FastAlpha(alpha, twoStep) ==
    [alpha |-> alpha, twoStep |-> twoStep,
     table |-> [v \in Indices |-> Mul(alpha, v)],
     table2 |-> [v \in Indices |-> IF twoStep THEN Mul(alpha, Raised(v, PrecalcBits)) ELSE {}],
     powers |-> AlphaPow(alpha)]

HornerBits(field) == IF field.twoStep THEN 2 * PrecalcBits ELSE PrecalcBits

(* The two indices in a chunk of HornerBits bits.                          *)
Low(v) == {e \in v : e < PrecalcBits}
High(v) == Raised(v \ Low(v), -PrecalcBits)

PrecalcShift(field, p) ==
    LET s == BlobShiftLeft(p, HornerBits(field))
        over == LowWord(s.over)
    IN  IF field.twoStep
        THEN Plus(Plus(s.kept, OverflowTable2[High(over)]), OverflowTable[Low(over)])
        ELSE Plus(s.kept, OverflowTable[over])

(* Horner's rule over the chunks, the highest first. *)
TimesAlpha(field, p) ==
    LET h == HornerBits(field)
        chunk(v, i) == Raised(v \cap (h * i .. h * i + h - 1), -(h * i))
        step(q, v, i) ==
            IF field.twoStep
            THEN Plus(Plus(PrecalcShift(field, q), field.table2[High(chunk(v, i))]),
                      field.table[Low(chunk(v, i))])
            ELSE Plus(PrecalcShift(field, q), field.table[chunk(v, i)])
        horner[q \in Elements, v \in Elements, i \in Int] ==
            IF i < 0 THEN q ELSE horner[step(q, v, i), v, i - 1]
    IN  horner[{}, p, Bits \div h - 1]

(* Each power of the table, the greatest first, as often as it fits. *)
TimesAlphaPow(field, p, n) ==
    LET times[q \in Elements, k \in Nat, i \in Nat] ==
            IF k = 0 THEN q
            ELSE IF field.powers[i].pow <= k
                 THEN times[Mul(q, field.powers[i].value), k - field.powers[i].pow, i]
                 ELSE times[q, k, i + 1]
    IN  times[p, n, 1]

-----------------------------------------------------------------------------
(* Reference definitions: the product of two polynomials has the exponents *)
(* that are the sum of two in an odd number of ways, and its remainder is  *)
(* that of the long division by f.                                         *)
Product(a, b) ==
    {e \in 0 .. 2 * Bits - 2 : Cardinality({i \in a : e - i \in b}) % 2 = 1}

Remainder(p) ==
    LET divided[r \in SUBSET (0 .. 2 * Bits), i \in Int] ==
            IF i < 0 THEN r
            ELSE divided[IF Bits + i \in r THEN Plus(r, Raised(Modulus \cup {Bits}, i)) ELSE r, i - 1]
    IN  divided[p, Bits - 1]

Times(a, b) == Remainder(Product(a, b))
=============================================================================
