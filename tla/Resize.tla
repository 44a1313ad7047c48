------------------------------- MODULE Resize -------------------------------
(***************************************************************************)
(* The module that cuts and joins keys to a size                           *)
(* (src/bin/modules/qkd-resize/qkd-resize.cpp).  Keys are kept in a buffer,*)
(* with a count of its bytes beside it, until there are enough for keys of *)
(* exactly the size set, or for one of at least the size set.  Its peer    *)
(* does the same with the same keys and hears nothing of it: a byte lost,  *)
(* doubled or out of its place makes all following keys differ.            *)
(*                                                                         *)
(* Setting one size clears the other, in one step.  The worker reads the   *)
(* two one after the other and again and again, so that D-Bus clients may  *)
(* set them in between.                                                    *)
(***************************************************************************)
EXTENDS Integers, Sequences, SequencesExt

CONSTANTS
    KeySizes,   \* sizes of the keys that come, in bytes
    Sizes,      \* sizes set
    (* bounds of the exploration *)
    MaxInputs,  \* keys that come
    MaxSettings \* settings of a size

ASSUME SizesAssumption == KeySizes \subseteq Nat \ {0} /\ Sizes \subseteq Nat
ASSUME ResizeBounds == MaxInputs \in Nat /\ MaxSettings \in Nat

VARIABLES
    exact, minimum,   \* nExactKeySize, nMinimumKeySize, 0 is not set
    cutAt,            \* where the worker stands in process()
    cutKey,           \* the key in work, a sequence of bytes <<key, byte>>
    buffer,           \* cWorkReceived: the keys received, and parts of them
    current,          \* nCurrentSize
    cutOut,           \* keys forwarded, with the test that made them
    came, cutSets,    \* bounds
    total             \* history: bytes that came

resizeVars == <<exact, minimum, cutAt, cutKey, buffer, current, cutOut, came, cutSets, total>>

ResizeInit ==
    /\ exact \in Sizes /\ minimum \in Sizes /\ 0 \in {exact, minimum}
    /\ cutAt = "idle" /\ cutKey = <<>> /\ buffer = <<>> /\ current = 0
    /\ cutOut = <<>> /\ came = 0 /\ cutSets = 0 /\ total = 0

-----------------------------------------------------------------------------
(* Cutting and joining.                                                    *)

(* A key whose first n bytes fill up what is in hand to the size e, cut    *)
(* there and then every e bytes, with what remains, maybe nothing, last.   *)
Pieces(k, n, e) ==
    LET full == ((Len(k) - n) \div e) + 1
        Stop(j) == n + (j - 1) * e
    IN  [j \in 1 .. full + 1 |->
            SubSeq(k, IF j = 1 THEN 1 ELSE Stop(j - 1) + 1,
                      IF j > full THEN Len(k) ELSE Stop(j))]

(* First run: split the keys where one of exact size ends.  After a cut    *)
(* the count begins at 0 with the next key, without what remains of this.  *)
SplitNext(acc, k, e) ==
    IF acc.size + Len(k) < e
    THEN [size |-> acc.size + Len(k), list |-> Append(acc.list, k)]
    ELSE [size |-> 0, list |-> acc.list \o Pieces(k, e - acc.size, e)]

SplitAt(b, e) ==
    LET run[i \in 0 .. Len(b)] ==
            IF i = 0 THEN [size |-> 0, list |-> <<>>] ELSE SplitNext(run[i - 1], b[i], e)
    IN  run[Len(b)].list

(* Second run: join the pieces, forward whenever the size is reached, and  *)
(* leave the pieces behind the last key forwarded in the buffer.           *)
JoinNextKeepsLast(acc, k, i, e) ==
    LET now == acc.now \o k IN
    IF Len(now) = e
    THEN [now |-> <<>>, done |-> Append(acc.done, now), used |-> i - 1]   \* faulty
    ELSE [acc EXCEPT !.now = now]

JoinNext(acc, k, i, e) ==
    LET now == acc.now \o k IN
    IF Len(now) = e
    THEN [now |-> <<>>, done |-> Append(acc.done, now), used |-> i]
    ELSE [acc EXCEPT !.now = now]

Joined(list, e) ==
    LET run[i \in 0 .. Len(list)] ==
            IF i = 0 THEN [now |-> <<>>, done |-> <<>>, used |-> 0]
            ELSE JoinNext(run[i - 1], list[i], i, e)
    IN  run[Len(list)]

As(test, keys) == [i \in DOMAIN keys |-> [test |-> test, key |-> keys[i]]]

-----------------------------------------------------------------------------
(* process().                                                              *)

Arrive(n) ==
    /\ cutAt = "idle" /\ came < MaxInputs
    /\ came' = came + 1 /\ cutKey' = [i \in 1 .. n |-> <<came + 1, i>>]
    /\ cutAt' = "neither" /\ total' = total + n
    /\ UNCHANGED <<exact, minimum, buffer, current, cutOut, cutSets>>

(* The two tests of the settings.  Each reads exact_key_size(), and        *)
(* minimum_key_size() only if it matters: "neither2" and "both2" are the   *)
(* places between the two readings.                                        *)
Test ==
    /\ \/ cutAt = "neither" /\ cutAt' = (IF exact = 0 THEN "neither2" ELSE "both")
       \/ cutAt = "neither2" /\ minimum # 0 /\ cutAt' = "both"
       \/ cutAt = "both" /\ cutAt' = (IF exact > 0 THEN "both2" ELSE "push")
       \/ cutAt = "both2" /\ minimum = 0 /\ cutAt' = "push"
    /\ UNCHANGED <<exact, minimum, cutKey, buffer, current, cutOut, came, cutSets, total>>

(* The key is shipped as it is, past those in the buffer. *)
ShipAsIs ==
    /\ \/ cutAt = "neither2" /\ minimum = 0 /\ cutOut' = cutOut \o As("neither", <<cutKey>>)
       \/ cutAt = "both2" /\ minimum # 0 /\ cutOut' = cutOut \o As("both", <<cutKey>>)
    /\ cutAt' = "idle" /\ cutKey' = <<>>
    /\ UNCHANGED <<exact, minimum, buffer, current, came, cutSets, total>>

Push ==
    /\ cutAt = "push" /\ cutAt' = "exact"
    /\ buffer' = Append(buffer, cutKey) /\ current' = current + Len(cutKey) /\ cutKey' = <<>>
    /\ UNCHANGED <<exact, minimum, cutOut, came, cutSets, total>>

(* pick_exact_keys().  With bytes left for another key it throws, which    *)
(* ends the process with the keys just made.                               *)
PickExact ==
    /\ cutAt = "exact"
    /\ \/ /\ exact = 0 \/ current < exact
          /\ cutAt' = "minimum" /\ UNCHANGED <<buffer, current, cutOut>>
       \/ /\ exact > 0 /\ current >= exact
          /\ LET list == SplitAt(buffer, exact)
                 joined == Joined(list, exact)
             IN  /\ buffer' = SubSeq(list, joined.used + 1, Len(list))
                 /\ current' = current - exact * Len(joined.done)
                 /\ \/ current' < exact /\ cutAt' = "minimum"
                       /\ cutOut' = cutOut \o As("exact", joined.done)
                    \/ current' >= exact /\ cutAt' = "thrown" /\ cutOut' = cutOut
    /\ UNCHANGED <<exact, minimum, cutKey, came, cutSets, total>>

(* pick_minimum_key(): all there is becomes one key. *)
PickMinimum ==
    /\ cutAt = "minimum" /\ cutAt' = "idle"
    /\ \/ /\ minimum = 0 \/ current < minimum
          /\ UNCHANGED <<buffer, current, cutOut>>
       \/ /\ minimum > 0 /\ current >= minimum
          /\ cutOut' = cutOut \o As("minimum", <<FlattenSeq(buffer)>>)
          /\ buffer' = <<>> /\ current' = 0
    /\ UNCHANGED <<exact, minimum, cutKey, came, cutSets, total>>

SetSize(n) ==
    /\ cutSets < MaxSettings /\ cutSets' = cutSets + 1
    /\ \/ exact' = n /\ minimum' = 0
       \/ minimum' = n /\ exact' = 0
    /\ UNCHANGED <<cutAt, cutKey, buffer, current, cutOut, came, total>>

ResizeNext ==
    \/ \E n \in KeySizes : Arrive(n)
    \/ Test \/ ShipAsIs \/ Push \/ PickExact \/ PickMinimum
    \/ \E n \in Sizes : SetSize(n)

ResizeSpec == ResizeInit /\ [][ResizeNext]_resizeVars

-----------------------------------------------------------------------------
(* The keys that one of these tests has made, one after the other. *)
BytesBy(tests) ==
    FlattenSeq([i \in DOMAIN cutOut |-> IF cutOut[i].test \in tests THEN cutOut[i].key ELSE <<>>])

(* The stream is what came: the keys cut and joined, with the buffer, are  *)
(* the bytes of the keys received one after the other, none lost, doubled  *)
(* or moved, in whatever pieces, and however the sizes are set meanwhile.  *)
(* Only a key shipped as it is overtakes the buffer, and it does so whole. *)
(* The count of the bytes, by which alone everything is decided, is true.  *)
StreamKept ==
    LET stream == BytesBy({"exact", "minimum"}) \o FlattenSeq(buffer)
        asis == BytesBy({"neither", "both"})
    IN  /\ current = Len(FlattenSeq(buffer))
        /\ cutAt # "thrown" =>
            /\ \A i \in 1 .. Len(stream) :
                 \/ stream[i][2] = 1 /\ (i > 1 => stream[i][1] > stream[i - 1][1])
                 \/ i > 1 /\ stream[i] = <<stream[i - 1][1], stream[i - 1][2] + 1>>
            /\ Len(stream) + Len(asis) + Len(cutKey) = total
            /\ {b[1] : b \in ToSet(stream)} \cap {b[1] : b \in ToSet(asis)} = {}

(* qkd-resize.cpp:278, the code throws "still key bytes left to forward",  *)
(* which is to say: the cutting leaves less than one key of exact size.    *)
NothingLeft == cutAt # "thrown"

(* qkd-resize.cpp:373, "both minimum and exact size set": that is reported *)
(* of, and a key shipped for, settings that are both set.                  *)
BothMeansBoth == \A i \in DOMAIN cutOut : cutOut[i].test # "both"
=============================================================================
