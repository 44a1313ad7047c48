------------------------------- MODULE EvHash -------------------------------
(***************************************************************************)
(* The evaluation hash by which messages are authenticated: evhash_impl of *)
(* lib/crypto/evhash.cpp and the context crypto_evhash around it.  Modules *)
(* feed a context with messages of any size (module.cpp:834, 1020), hand   *)
(* it on with the key as a string (module.cpp:1630), join contexts when    *)
(* they join keys (qkd-resize.cpp:240), and qkd-auth finalizes them; both  *)
(* peers do so on their own and compare tags.                              *)
(*                                                                         *)
(* A byte is a set of exponents, as in Galois; memory is a sequence of     *)
(* bytes, the first one with the highest exponents.                        *)
(***************************************************************************)
EXTENDS Galois

CONSTANTS
    Contexts,
    ByteBits,       \* bits of a byte
    ByteValues,     \* the bytes messages are made of
    Alphas,         \* the keys
    MaxMessage,     \* bytes of a message
    MaxLog          \* bound: bytes that went into a context, padding included

VARIABLES
    gf,     \* the key that all contexts have, and how its tables are used
    ctx,    \* the contexts
    log     \* history: the bytes that went into a context

vars == <<gf, ctx, log>>

ASSUME EvHashAssumption ==
    /\ WordBits % ByteBits = 0 /\ Alphas \subseteq Elements
    /\ ByteValues \subseteq SUBSET (0 .. ByteBits - 1)

BlockSize == Bits \div ByteBits
Messages == SeqOf(ByteValues, MaxMessage)

(* blob_from_memory(): network byte order. *)
Blob(bytes) == UNION {Raised(bytes[i], (BlockSize - i) * ByteBits) : i \in 1 .. BlockSize}

(* m_cGF2 of a key, and what it makes of each blob: the tables are made    *)
(* once, when the key is set, and never change.                            *)
Keys == [alpha : Alphas, twoStep : BOOLEAN]
TimesKey ==
    [k \in Keys |-> [p \in Elements |-> TimesAlpha(FastAlpha(k.alpha, k.twoStep), p)]]
TimesKeyPow ==
    [k \in Keys |-> [p \in Elements, n \in 0 .. MaxLog \div BlockSize |->
        TimesAlphaPow(FastAlpha(k.alpha, k.twoStep), p, n)]]

(* buf is m_cRemainder, of which the first n bytes count; the others are   *)
(* what was in the memory allocated, or in the buffer before.              *)
Fresh(junk) ==
    [tag |-> {}, buf |-> [i \in 1 .. BlockSize |-> junk], n |-> 0, blocks |-> 0]

Copied(buf, at, bytes) ==
    [i \in 1 .. BlockSize |-> IF i - at \in 1 .. Len(bytes) THEN bytes[i - at] ELSE buf[i]]

Init ==
    /\ gf \in Keys
    /\ \E junk \in ByteValues : ctx = [c \in Contexts |-> Fresh(junk)]
    /\ log = [c \in Contexts |-> <<>>]

-----------------------------------------------------------------------------
(* One step of Horner's rule. *)
UpdateBlock(tag, bytes) == TimesKey[gf][Plus(tag, Blob(bytes))]

(* All the whole blocks of the memory; what is left goes to the buffer.    *)
UpdateBlocks(x, m) ==
    LET fed[tag \in Elements, l \in Seq(SUBSET Nat)] ==
            IF Len(l) < BlockSize THEN tag
            ELSE fed[UpdateBlock(tag, SubSeq(l, 1, BlockSize)), SubSeq(l, BlockSize + 1, Len(l))]
        n == Len(m) % BlockSize
    IN  [x EXCEPT !.tag = fed[@, m], !.blocks = @ + Len(m) \div BlockSize,
                  !.buf = Copied(@, 0, SubSeq(m, Len(m) - n + 1, Len(m))), !.n = n]

(* Faulty: the bytes that complete the buffer are taken again as part of   *)
(* the message.                                                            *)
UpdateTwice(x, m) ==
    IF x.n + Len(m) < BlockSize
    THEN [x EXCEPT !.buf = Copied(@, x.n, m), !.n = @ + Len(m)]
    ELSE LET full == IF x.n = 0 THEN <<>> ELSE Copied(x.buf, x.n, m)
         IN  UpdateBlocks([x EXCEPT !.buf = Copied(@, 0, full), !.n = 0], full \o m)

(* A block begun is completed first, in the buffer. *)
Update(x, m) ==
    IF x.n + Len(m) < BlockSize
    THEN [x EXCEPT !.buf = Copied(@, x.n, m), !.n = @ + Len(m)]
    ELSE LET full == IF x.n = 0 THEN <<>> ELSE Copied(x.buf, x.n, m)
             used == IF x.n = 0 THEN 0 ELSE BlockSize - x.n
         IN  UpdateBlocks([x EXCEPT !.buf = Copied(@, 0, full), !.n = 0],
                          full \o SubSeq(m, used + 1, Len(m)))

(* A block begun is filled with zeros; there is nothing left after it. *)
Finalized(x) ==
    IF x.n = 0 THEN x
    ELSE LET full == [i \in 1 .. BlockSize |-> IF i <= x.n THEN x.buf[i] ELSE {}]
         IN  UpdateBlocks([x EXCEPT !.buf = full, !.n = 0], full)

(* times(): the tag moves up by the blocks of another. *)
MovedUp(x, rounds) ==
    [x EXCEPT !.tag = TimesKeyPow[gf][@, rounds], !.blocks = @ + rounds]

-----------------------------------------------------------------------------
Padded(l) == l \o [i \in 1 .. (-Len(l)) % BlockSize |-> {}]

AddMemory(c, m) ==
    /\ Len(log[c]) + Len(m) <= MaxLog
    /\ ctx' = [ctx EXCEPT ![c] = Update(@, m)]
    /\ log' = [log EXCEPT ![c] = @ \o m]
    /\ UNCHANGED gf

(* Both contexts are finalized, the other one too, though it is only read. *)
(* A context may be added to itself.                                       *)
AddContext(c, o) ==
    /\ Len(Padded(log[c])) + Len(Padded(log[o])) <= MaxLog
    /\ LET other == Finalized(ctx[o])
           moved == MovedUp(Finalized(ctx[c]), other.blocks)
       IN  ctx' = [ctx EXCEPT ![o] = other,
                              ![c] = [moved EXCEPT !.tag = Plus(other.tag, @)]]
    /\ log' = [log EXCEPT ![o] = Padded(log[o]), ![c] = Padded(log[c]) \o Padded(log[o])]
    /\ UNCHANGED gf

(* finalize() leaves the context in use. *)
Finalize(c) ==
    /\ Len(Padded(log[c])) <= MaxLog
    /\ ctx' = [ctx EXCEPT ![c] = Finalized(@)]
    /\ log' = [log EXCEPT ![c] = Padded(@)]
    /\ UNCHANGED gf

(* What a scheme string holds of a context, and the context made from it:  *)
(* the bytes of the buffer that count, and no others.                      *)
State(x) == [tag |-> x.tag, rest |-> SubSeq(x.buf, 1, x.n), blocks |-> x.blocks]

SetState(x, s) ==
    [tag |-> s.tag, buf |-> Copied(x.buf, 0, s.rest), n |-> Len(s.rest), blocks |-> s.blocks]

(* A key is handed on with the scheme of its context, from which the next  *)
(* module makes a context of its own; a clone is made in the same way.     *)
HandOn(c, o) ==
    /\ c # o
    /\ \E junk \in ByteValues :
         ctx' = [ctx EXCEPT ![o] = SetState(Fresh(junk), State(ctx[c]))]
    /\ log' = [log EXCEPT ![o] = log[c]]
    /\ UNCHANGED gf

Next ==
    \E c \in Contexts :
        \/ \E m \in Messages : AddMemory(c, m)
        \/ Finalize(c)
        \/ \E o \in Contexts : AddContext(c, o) \/ HandOn(c, o)

Spec == Init /\ [][Next]_vars

-----------------------------------------------------------------------------
(* Reference definition of the hash: for blocks m_1 to m_n, the sum of     *)
(* m_i alpha^(n - i + 1), by the long division of Galois.                  *)
Hash(alpha, l) ==
    LET n == Len(l) \div BlockSize
        block(i) == SubSeq(l, (i - 1) * BlockSize + 1, i * BlockSize)
        power[v \in Elements, k \in Nat] == IF k = 0 THEN v ELSE power[Times(alpha, v), k - 1]
    IN  Sum(LAMBDA i : power[Blob(block(i)), n - i + 1], 1 .. n)

(* A context is the hash of what went into it, whatever the pieces it came *)
(* in, the modules it passed and the contexts it was joined with: joining  *)
(* hashes the one log behind the other, each filled up to whole blocks.    *)
(* So two peers that exchanged the same bytes have the same tag.           *)
TagOfLog ==
    \A c \in Contexts :
        LET full == (Len(log[c]) \div BlockSize) * BlockSize
        IN  /\ ctx[c].tag = Hash(gf.alpha, SubSeq(log[c], 1, full))
            /\ State(ctx[c]).rest = SubSeq(log[c], full + 1, Len(log[c]))
            /\ ctx[c].blocks * BlockSize = full

(* The keys, and the powers of x, for which every product, and every power *)
(* of theirs, is that of the reference definition; and the bits that are   *)
(* reduced as by it.                                                       *)
Multiplying ==
    {fast \in {FastAlpha(a, two) : a \in Alphas \cup {{e} : e \in Exponents}, two \in BOOLEAN} :
        /\ \A p \in Elements : \A q \in {Times(fast.alpha, p)} :
             Mul(fast.alpha, p) = q /\ TimesAlpha(fast, p) = q
        /\ \A n \in 0 .. 2 ^ (MaxPow + 1) : \A q \in {TimesAlphaPow(fast, {0}, n)} :
             TimesAlphaPow(fast, {0}, n + 1) = Times(fast.alpha, q)}
KeysMultiplying == {<<fast.alpha, fast.twoStep>> : fast \in Multiplying}
BitsReduced == {e \in 0 .. 2 * Bits - 1 : BitreductionTable[e] = Remainder({e})}

(* The tables multiply: whatever is reduced by table, shifted out by table *)
(* or taken in chunks of one or two indices, the product is that of the    *)
(* polynomials modulo f, for the key and for each single power of x.       *)
TablesMultiply ==
    /\ BitsReduced = 0 .. 2 * Bits - 1
    /\ \A alpha \in {gf.alpha} \cup {{e} : e \in Exponents} :
         <<alpha, gf.twoStep>> \in KeysMultiplying
=============================================================================
