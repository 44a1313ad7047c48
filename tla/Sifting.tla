------------------------------ MODULE Sifting ------------------------------
(***************************************************************************)
(* BB84 sifting (src/bin/modules/qkd-sifting-bb84/qkd-sifting-bb84.cpp).   *)
(* Alice and Bob compare the bases of a raw key, keep the bits where they  *)
(* have measured alike, and collect the bits of several raw keys until a   *)
(* new key is long enough.  Only bases are exchanged: each side appends,   *)
(* counts and cuts its bits on its own, so the n-th keys of the two are    *)
(* the same key only as long as their books are.                           *)
(*                                                                         *)
(*      Alice: HEADER (length)  Bob: his bases  Alice: the common bases    *)
(*                                                                         *)
(* Both work on the same raw keys in the same order (KeySync).  D-Bus      *)
(* clients set the length on the main thread, between any two steps.       *)
(***************************************************************************)
EXTENDS Sides, Integers, Sequences, FiniteSets, SequencesExt

CONSTANTS
    Tables,    \* what the bases of the pulses of a raw key may be
    Lengths,   \* values of rawkey_length, in bytes
    (* bounds of the exploration *)
    MaxKeys,   \* raw keys
    MaxSets    \* settings of the length

ASSUME ByteAssumption == Byte \in Nat \ {0} /\ Lengths \subseteq Nat
ASSUME TablesAssumption ==
    \A t, u \in Tables : t \in Seq({"diagonal", "rectilinear", "invalid"}) /\ Len(t) = Len(u)
ASSUME BoundsAssumption == MaxKeys \in Nat /\ MaxSets \in Nat

Lost == <<0, 0>>   \* a bit that was cleared or never written

VARIABLES
    at,       \* side -> where it stands in process()
    net,      \* side -> the message on its way to it, if any
    raw,      \* the raw key both work on: number, and the bases of each side
    length,   \* side -> nRawKeyLength
    bits,     \* side -> the bits so far, as <<raw key, pulse>>; their number
              \* is nCurrentPosition
    keyId,    \* side -> nKeyId
    out,      \* side -> keys forwarded
    sifted,   \* side -> history: bits ever appended
    sets,     \* settings so far (bound)
    amid      \* history: one of them came in the midst of an exchange

vars == <<at, net, raw, length, bits, keyId, out, sifted, sets, amid>>

Init ==
    /\ at = [s \in Side |-> "idle"] /\ net = [s \in Side |-> <<>>]
    /\ raw = [id |-> 0, bases |-> [s \in Side |-> <<>>]]
    /\ length \in [Side -> Lengths]
    /\ bits = [s \in Side |-> <<>>] /\ keyId = [s \in Side |-> 1]
    /\ out = [s \in Side |-> <<>>] /\ sifted = [s \in Side |-> 0] /\ sets = 0 /\ amid = FALSE

-----------------------------------------------------------------------------
(* cBits.resize(): the bits beyond the new length are masked out, while    *)
(* the position to write next stays where it is.                           *)
Resized(b, n) == [i \in DOMAIN b |-> IF i > n * Byte THEN Lost ELSE b[i]]

(* Faulty: Bob does not adopt the length of Alice's header. *)
LengthKept(s, n) == UNCHANGED <<length, bits>>

SetRawkeyLength(s, n) ==
    /\ length' = [length EXCEPT ![s] = n]
    /\ bits' = [bits EXCEPT ![s] = IF n = length[s] THEN @ ELSE Resized(@, n)]

(* The common bases: those that differ are made invalid. *)
Common(t, u) == [p \in DOMAIN t |-> IF t[p] = u[p] THEN t[p] ELSE "invalid"]

(* bases_to_bits(): the pulses left, in their order. *)
Detected(t) ==
    LET kept == {p \in DOMAIN t : t[p] # "invalid"}
    IN  [j \in 1 .. Cardinality(kept) |->
            CHOOSE p \in kept : Cardinality({q \in kept : q <= p}) = j]
Sift(s, t) ==
    LET new == Detected(t)
    IN  /\ bits' = [bits EXCEPT ![s] = @ \o [i \in DOMAIN new |-> <<raw.id, new[i]>>]]
        /\ sifted' = [sifted EXCEPT ![s] = @ + Len(new)]

-----------------------------------------------------------------------------
(* The worker.                                                             *)

Pick(t, u) ==
    /\ at = [s \in Side |-> "idle"] /\ raw.id < MaxKeys
    /\ raw' = [id |-> raw.id + 1, bases |-> [s \in Side |-> IF s = "alice" THEN t ELSE u]]
    /\ at' = [s \in Side |-> "header"]
    /\ UNCHANGED <<net, length, bits, keyId, out, sifted, sets, amid>>

AliceHeader ==
    /\ at["alice"] = "header"
    /\ net' = [net EXCEPT !["bob"] = <<length["alice"]>>]
    /\ at' = [at EXCEPT !["alice"] = "bases"]
    /\ UNCHANGED <<raw, length, bits, keyId, out, sifted, sets, amid>>

(* Faulty: Bob's bases are not sent if the length is as it was. *)
BobHeaderSilent ==
    /\ at["bob"] = "header" /\ net["bob"] # <<>>
    /\ SetRawkeyLength("bob", Head(net["bob"]))
    /\ net' = [alice |-> IF Head(net["bob"]) = length["bob"] THEN <<>> ELSE <<raw.bases["bob"]>>,
               bob |-> <<>>]
    /\ at' = [at EXCEPT !["bob"] = "mask"]
    /\ UNCHANGED <<raw, keyId, out, sifted, sets, amid>>

BobHeader ==
    /\ at["bob"] = "header" /\ net["bob"] # <<>>
    /\ SetRawkeyLength("bob", Head(net["bob"]))
    /\ net' = [alice |-> <<raw.bases["bob"]>>, bob |-> <<>>]
    /\ at' = [at EXCEPT !["bob"] = "mask"]
    /\ UNCHANGED <<raw, keyId, out, sifted, sets, amid>>

AliceBases ==
    /\ at["alice"] = "bases" /\ net["alice"] # <<>>
    /\ LET common == Common(raw.bases["alice"], Head(net["alice"]))
       IN  /\ net' = [alice |-> <<>>, bob |-> <<common>>]
           /\ Sift("alice", common)
    /\ at' = [at EXCEPT !["alice"] = "check"]
    /\ UNCHANGED <<raw, length, keyId, out, sets, amid>>

BobMask ==
    /\ at["bob"] = "mask" /\ net["bob"] # <<>>
    /\ net' = [net EXCEPT !["bob"] = <<>>]
    /\ Sift("bob", Head(net["bob"]))
    /\ at' = [at EXCEPT !["bob"] = "check"]
    /\ UNCHANGED <<raw, length, keyId, out, sets, amid>>

(* The bits of a new key: cut at a byte, what is left over is dropped.     *)
CutRoundedUp(b) == [i \in 1 .. ((Len(b) + Byte - 1) \div Byte) * Byte |->
                        IF i <= Len(b) THEN b[i] ELSE b[Len(b)]]  \* faulty
Cut(b) == SubSeq(b, 1, (Len(b) \div Byte) * Byte)

(* The length is read again, under the lock that is kept to the end. *)
Check(s) ==
    /\ at[s] = "check" /\ at' = [at EXCEPT ![s] = "idle"]
    /\ \/ /\ Len(bits[s]) < length[s] * Byte
          /\ UNCHANGED <<bits, keyId, out>>
       \/ /\ Len(bits[s]) >= length[s] * Byte
          /\ out' = [out EXCEPT ![s] = Append(@, [id |-> keyId[s], bits |-> Cut(bits[s])])]
          /\ keyId' = [keyId EXCEPT ![s] = @ + 1]
          /\ bits' = [bits EXCEPT ![s] = <<>>]
    /\ UNCHANGED <<net, raw, length, sifted, sets, amid>>

(* set_rawkey_length() called over D-Bus, at any time: what Alice's header *)
(* has told and what she goes by in the end may be two lengths.            *)
Set(s, n) ==
    /\ sets < MaxSets /\ sets' = sets + 1
    /\ n # length[s] /\ SetRawkeyLength(s, n)
    /\ amid' = (amid \/ at[s] \notin {"idle", "header"})
    /\ UNCHANGED <<at, net, raw, keyId, out, sifted>>

Worker == AliceHeader \/ BobHeader \/ AliceBases \/ BobMask \/ \E s \in Side : Check(s)

Next ==
    \/ \E t, u \in Tables : Pick(t, u)
    \/ Worker
    \/ \E s \in Side, n \in Lengths : Set(s, n)

(* The worker threads run. *)
Spec == Init /\ [][Next]_vars /\ WF_vars(Worker)

-----------------------------------------------------------------------------
(* The n-th keys of the two sides are one key: the same id and length, and *)
(* no place in it where they have kept different pulses, although each has *)
(* counted, cut and numbered its bits alone and in its own time; between   *)
(* two raw keys they have got equally far.  Unless the length was set in   *)
(* the midst of an exchange: this nothing mends.                           *)
KeysAlike ==
    ~amid =>
        /\ \A n \in DOMAIN out["alice"] \cap DOMAIN out["bob"] :
             LET a == out["alice"][n]  b == out["bob"][n]
             IN  /\ a.id = b.id /\ Len(a.bits) = Len(b.bits)
                 /\ \A i \in DOMAIN a.bits :
                      Lost \in {a.bits[i], b.bits[i]} \/ a.bits[i] = b.bits[i]
        /\ at = [s \in Side |-> "idle"] =>
             Len(out["alice"]) = Len(out["bob"]) /\ Len(bits["alice"]) = Len(bits["bob"])

(* Every sifted bit goes into one key, in order: no bit is in two keys, or *)
(* in a key and still in hand, and with each key forwarded less than a     *)
(* byte is dropped.  A place is a key forwarded, or the one in hand, and a *)
(* position in it.                                                         *)
Chunk(s, n) == IF n <= Len(out[s]) THEN out[s][n].bits ELSE bits[s]
Places(s) == UNION {{n} \X DOMAIN Chunk(s, n) : n \in 1 .. Len(out[s]) + 1}
Before(x, y) == x[1] < y[1] \/ (x[1] = y[1] /\ x[2] < y[2])

EachBitOnce ==
    \A s \in Side :
        /\ \A x, y \in Places(s) :
             LET b == Chunk(s, x[1])[x[2]]
                 c == Chunk(s, y[1])[y[2]]
             IN  Before(x, y) /\ Lost \notin {b, c} => Before(b, c)
        /\ sifted[s] - Cardinality(Places(s)) \in 0 .. (Byte - 1) * Len(out[s])

(* Neither side waits for ever for a message of the other: work on a raw   *)
(* key comes to its end, whatever is set meanwhile.                        *)
ExchangeEnds == \A s \in Side : at[s] # "idle" ~> at[s] = "idle"

(* qkd-sifting-bb84.h:86, current_length is "the current key length in     *)
(* bits we have sifted so far": every bit counted is a sifted one.         *)
OnlySifted == \A s \in Side : Lost \notin ToSet(bits[s])
=============================================================================
