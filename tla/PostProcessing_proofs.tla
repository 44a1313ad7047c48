------------------------ MODULE PostProcessing_proofs ------------------------
(***************************************************************************)
(* Theorems about the modules of the post processing.                      *)
(*                                                                         *)
(* Sifting: the n-th keys of the two sides are the same key (KeysAlike),   *)
(* and every bit sifted goes into one key, in order (EachBitOnce), for     *)
(* all bases, sizes and settings of the length, and any number of raw keys.*)
(* Talk says what is under way for each pair of places; Phase, what the    *)
(* two sides have and will have: a side that has looked at its length has  *)
(* what the other will have when it looks.  InOrder counts and orders what *)
(* a side has stored.                                                      *)
(*                                                                         *)
(* Distill: a key that is final on both sides is the same key              *)
(* (OneFinalKey), and no bit disclosed in the estimation stays in it       *)
(* (DisclosedGone), for every size of key, all settings and rounds, and    *)
(* any number of errors, failures and calls of clients.  While neither     *)
(* side has dropped the key, the two sides are at one of the seventeen     *)
(* pairs of places of Pairs; at each the two keys stand in a known         *)
(* relation (KeysAgree), and so do what is on its way and what both sides  *)
(* have come to (Carried, Judged).                                         *)
(*                                                                         *)
(* Resize: the stream of bytes is kept (StreamKept), for keys of any sizes *)
(* and any sizes set.  What the two runs compute is proved along their     *)
(* steps (Steps, Counting): the pieces of a key are the key, the pieces of *)
(* the buffer are the buffer, and the keys joined with the pieces left are *)
(* the pieces.                                                             *)
(***************************************************************************)
EXTENDS Sifting, Distill, Resize, FiniteSetTheorems, SequenceTheorems, WellFoundedInduction, TLAPS

Bit == Nat \X Nat
NewKey == [id : Nat, bits : Seq(Bit)]

Typed ==
    /\ at \in [Side -> {"idle", "header", "bases", "mask", "check"}]
    /\ DOMAIN net = Side /\ length \in [Side -> Lengths]
    /\ raw.id \in Nat
    /\ bits \in [Side -> Seq(Bit)] /\ out \in [Side -> Seq(NewKey)]
    /\ keyId = [s \in Side |-> Len(out[s]) + 1]
    /\ sifted \in [Side -> Nat] /\ amid \in BOOLEAN

(* The bases both sides come to, and the bits they stand for. *)
Agreed == Common(raw.bases["alice"], raw.bases["bob"])
Fresh == [i \in DOMAIN Detected(Agreed) |-> <<raw.id, Detected(Agreed)[i]>>]

(* What is under way for each pair of places. *)
Talk ==
    LET a == at["alice"]
        b == at["bob"]
        Net(x, y) == net["alice"] = x /\ net["bob"] = y
    IN  /\ a # "idle" \/ b # "idle" =>
             \A s \in Side : raw.bases[s] \in Seq({"diagonal", "rectilinear", "invalid"})
        /\ a # "idle" \/ b # "idle" => Len(raw.bases["alice"]) = Len(raw.bases["bob"])
        /\ \/ a \in {"idle", "check"} /\ b \in {"idle", "check"} /\ Net(<<>>, <<>>)
           \/ a \in {"idle", "check"} /\ b = "mask" /\ Net(<<>>, <<Agreed>>)
           \/ a = "header" /\ b = "header" /\ Net(<<>>, <<>>)
           \/ a = "bases" /\ b = "header" /\ \E n \in Lengths : Net(<<>>, <<n>>)
           \/ a = "bases" /\ b = "mask" /\ Net(<<raw.bases["bob"]>>, <<>>)

-----------------------------------------------------------------------------
Alike(b, c) ==
    Len(b) = Len(c) /\ \A i \in 1 .. Len(b) : Lost \in {b[i], c[i]} \/ b[i] = c[i]

KeysMatch(p, q) ==
    /\ Len(p) = Len(q)
    /\ \A n \in 1 .. Len(p) : p[n].id = q[n].id /\ Alike(p[n].bits, q[n].bits)

(* The bits of side s when it has sifted the raw key in hand, and its keys *)
(* and bits when it has looked at the length too.                          *)
Collected(s) == IF at[s] = "mask" THEN bits[s] \o Fresh ELSE bits[s]
Enough(s) == Len(Collected(s)) >= length[s] * Byte
OutAfter(s) ==
    IF Enough(s) THEN Append(out[s], [id |-> keyId[s], bits |-> Cut(Collected(s))]) ELSE out[s]
BitsAfter(s) == IF Enough(s) THEN <<>> ELSE Collected(s)

Even == Alike(bits["alice"], bits["bob"]) /\ KeysMatch(out["alice"], out["bob"])

Ready ==
    /\ at["alice"] \in {"idle", "header", "bases"} /\ at["bob"] \in {"idle", "header"}
    /\ at["alice"] = "bases" => net["bob"] = <<length["alice"]>>
    /\ Even
Told ==
    /\ at["alice"] = "bases" /\ at["bob"] = "mask"
    /\ length["alice"] = length["bob"] /\ Even
Both ==
    /\ at["alice"] = "check" /\ at["bob"] \in {"mask", "check"}
    /\ length["alice"] = length["bob"]
    /\ Alike(Collected("alice"), Collected("bob")) /\ KeysMatch(out["alice"], out["bob"])
One(s) ==
    LET o == Peer(s)
    IN  /\ at[s] = "idle" /\ at[o] \in {"mask", "check"}
        /\ Alike(bits[s], BitsAfter(o)) /\ KeysMatch(out[s], OutAfter(o))

Phase == Ready \/ Told \/ Both \/ \E s \in Side : One(s)

IInv == Typed /\ Talk /\ (~amid => Phase)
-----------------------------------------------------------------------------
(* What is stored of each bit: those of the raw key in hand come last.     *)
Sifted(s) == at[s] \in {"idle", "check"}

Line(o, b, n) == IF n <= Len(o) THEN o[n].bits ELSE b
Spots(o, b) == UNION {{n} \X DOMAIN Line(o, b, n) : n \in 1 .. Len(o) + 1}
BitAt(o, b, x) == Line(o, b, x[1])[x[2]]

(* Keys o and bits b hold h bits sifted, in order, less those dropped; of   *)
(* raw key r there are some only when it has been sifted, z.                *)
InOrder(o, b, r, z, h) ==
    /\ \A x \in Spots(o, b) :
         BitAt(o, b, x)[1] <= r /\ (BitAt(o, b, x)[1] = r => z \/ BitAt(o, b, x) = Lost)
    /\ \A x, y \in Spots(o, b) :
         Before(x, y) /\ BitAt(o, b, x) # Lost /\ BitAt(o, b, y) # Lost =>
             Before(BitAt(o, b, x), BitAt(o, b, y))
    /\ IsFiniteSet(Spots(o, b))
    /\ h - Cardinality(Spots(o, b)) \in 0 .. (Byte - 1) * Len(o)

Ordered(s) == InOrder(out[s], bits[s], raw.id, Sifted(s), sifted[s])

OrderInv == Typed /\ Talk /\ \A s \in Side : Ordered(s)

-----------------------------------------------------------------------------
(* The operators.                                                          *)

LEMMA Sides ==
    /\ "alice" \in Side /\ "bob" \in Side /\ "alice" # "bob"
    /\ Peer("alice") = "bob" /\ Peer("bob") = "alice"
    /\ \A s \in Side : s = "alice" \/ s = "bob"
BY DEF Side, Peer

(* A finite set of numbers has a first, a second and so on up to its last. *)
LEMMA Nth ==
    ASSUME NEW S \in SUBSET Int, IsFiniteSet(S), NEW j \in 1 .. Cardinality(S)
    PROVE  \E i \in S : Cardinality({h \in S : h <= i}) = j
<1> DEFINE Upto(i) == {h \in S : h <= i}
           place == [i \in S |-> Cardinality(Upto(i))]
           R == 1 .. Cardinality(S)
<1>2. IsFiniteSet(S) /\ Cardinality(S) \in Nat
  BY FS_CardinalityType
<1>3. ASSUME NEW i \in S
      PROVE  IsFiniteSet(Upto(i)) /\ Cardinality(Upto(i)) \in R
  <2>1. Upto(i) \subseteq S /\ i \in Upto(i)
    OBVIOUS
  <2>2. /\ IsFiniteSet(Upto(i)) /\ Cardinality(Upto(i)) \in Nat
        /\ Cardinality(Upto(i)) <= Cardinality(S)
    BY <1>2, <2>1, FS_Subset, FS_CardinalityType
  <2>3. Cardinality(Upto(i)) # 0
    BY <2>1, <2>2, FS_EmptySet
  <2> QED
    BY <1>2, <2>2, <2>3
<1>4. ASSUME NEW i \in S, NEW k \in S, i < k
      PROVE  Cardinality(Upto(i)) # Cardinality(Upto(k))
  <2>0. i \in Int /\ k \in Int /\ \A h \in S : h \in Int
    OBVIOUS
  <2>1. Upto(i) \subseteq Upto(k) /\ k \in Upto(k) /\ k \notin Upto(i)
    <3>1. \A h \in S : h <= i => h <= k
      BY <1>4, <2>0
    <3>2. k <= k /\ ~(k <= i)
      BY <1>4, <2>0
    <3> QED
      BY <3>1, <3>2
  <2>2. Upto(i) # Upto(k)
    BY <2>1
  <2> QED
    BY <1>3, <2>1, <2>2, FS_Subset
<1>5. \A i, k \in S : place[i] = place[k] => i = k
  <2> SUFFICES ASSUME NEW i \in S, NEW k \in S, i # k PROVE place[i] # place[k]
    OBVIOUS
  <2>1. i < k \/ k < i
    OBVIOUS
  <2> QED
    BY <1>4, <2>1
<1>6. place \in Injection(S, R)
  BY <1>3, <1>5 DEF Injection, IsInjective
<1>7. IsFiniteSet(R) /\ Cardinality(R) = Cardinality(S)
  BY <1>2, FS_Interval
<1>8. place \in Surjection(S, R)
  BY <1>6, <1>7, FS_Injection
<1>9. \E i \in S : place[i] = j
  BY <1>8 DEF Surjection
<1> QED
  BY <1>9

(* The pulses detected are listed in their order. *)
LEMMA DetectedInOrder ==
    ASSUME NEW t, NEW n \in Nat, DOMAIN t = 1 .. n
    PROVE  LET d == Detected(t)
           IN  /\ d \in Seq(1 .. n)
               /\ \A i, j \in DOMAIN d : i < j => d[i] < d[j]
<1> DEFINE kept == {p \in 1 .. n : t[p] # "invalid"}
           Upto(p) == {q \in kept : q <= p}
           d == [j \in 1 .. Cardinality(kept) |-> CHOOSE p \in kept : Cardinality(Upto(p)) = j]
<1>1. Detected(t) = d
  BY DEF Detected
<1>2. IsFiniteSet(kept) /\ Cardinality(kept) \in Nat /\ kept \in SUBSET Int
  <2>1. kept \subseteq 1 .. n /\ IsFiniteSet(1 .. n)
    BY FS_Interval
  <2> HIDE DEF kept
  <2>2. IsFiniteSet(kept)
    BY <2>1, FS_Subset
  <2> QED
    BY <2>1, <2>2, FS_CardinalityType
<1>3. ASSUME NEW j \in DOMAIN d PROVE d[j] \in kept /\ Cardinality(Upto(d[j])) = j
  <2> HIDE DEF kept
  <2>1. \E p \in kept : Cardinality(Upto(p)) = j
    BY <1>2, Nth
  <2> QED
    BY <2>1
<1>4. ASSUME NEW i \in DOMAIN d, NEW j \in DOMAIN d, i < j PROVE d[i] < d[j]
  <2> DEFINE x == d[i]
             y == d[j]
  <2>1. x \in kept /\ y \in kept /\ Cardinality(Upto(x)) = i /\ Cardinality(Upto(y)) = j
    BY <1>3
  <2> HIDE DEF x, y, d
  <2> SUFFICES ASSUME ~(x < y) PROVE FALSE
    BY DEF x, y
  <2>2. y <= x
    BY <1>2, <2>1
  <2>3. Upto(y) \subseteq Upto(x)
    BY <2>1, <2>2
  <2>4. IsFiniteSet(Upto(x)) /\ Cardinality(Upto(y)) <= Cardinality(Upto(x))
    BY <1>2, <2>3, FS_Subset
  <2>5. i \in Int /\ j \in Int
    BY <1>2 DEF d
  <2> QED
    BY <1>4, <2>1, <2>4, <2>5
<1>5. d \in Seq(1 .. n)
  <2>1. \A j \in DOMAIN d : d[j] \in 1 .. n
    BY <1>3
  <2> DEFINE m == Cardinality(kept)
  <2>2. m \in Nat /\ DOMAIN d = 1 .. m /\ d = [j \in 1 .. m |-> d[j]]
    <3> HIDE DEF kept
    <3> QED
      BY <1>2
  <2> HIDE DEF d, m
  <2> QED
    BY <2>1, <2>2
<1> QED
  BY <1>1, <1>4, <1>5

(* A key takes whole bytes from the front, and drops less than one. *)
LEMMA CutBits ==
    ASSUME NEW b \in Seq(Bit)
    PROVE  /\ Cut(b) \in Seq(Bit) /\ Len(Cut(b)) <= Len(b) /\ Len(b) - Len(Cut(b)) <= Byte - 1
           /\ \A i \in 1 .. Len(Cut(b)) : Cut(b)[i] = b[i]
           /\ Len(Cut(b)) = (Len(b) \div Byte) * Byte
<1> DEFINE n == Len(b)
           q == n \div Byte
           m == q * Byte
<1>1. n \in Nat /\ Byte \in Nat /\ Byte > 0
  BY ByteAssumption
<1>2. q \in Nat /\ n = Byte * q + (n % Byte) /\ n % Byte \in 0 .. Byte - 1
  BY <1>1
<1>3. m \in Nat /\ m <= n /\ n - m <= Byte - 1
  BY <1>1, <1>2
<1> HIDE DEF q
<1>4. Cut(b) = SubSeq(b, 1, m)
  BY DEF Cut, q
<1> HIDE DEF m
<1>5. SubSeq(b, 1, m) = [i \in 1 .. m |-> b[i]]
  BY <1>3
<1>6. Len(Cut(b)) = m
  BY <1>3, <1>4, <1>5
<1> QED
  BY <1>1, <1>3, <1>4, <1>5, <1>6 DEF m, q

LEMMA CutAlike ==
    ASSUME NEW b \in Seq(Bit), NEW c \in Seq(Bit), Alike(b, c)
    PROVE  Alike(Cut(b), Cut(c))
<1>1. Len(Cut(b)) = Len(Cut(c)) /\ Len(Cut(b)) <= Len(b) /\ Len(Cut(b)) \in Nat
  BY CutBits DEF Alike
<1>2. \A i \in 1 .. Len(Cut(b)) : Cut(b)[i] = b[i] /\ Cut(c)[i] = c[i]
  BY <1>1, CutBits
<1>3. \A i \in 1 .. Len(Cut(b)) : i \in 1 .. Len(b)
  BY <1>1
<1> QED
  BY <1>1, <1>2, <1>3 DEF Alike

LEMMA ResizedBits ==
    ASSUME NEW b \in Seq(Bit), NEW n
    PROVE  /\ Resized(b, n) \in Seq(Bit) /\ Len(Resized(b, n)) = Len(b)
           /\ \A i \in 1 .. Len(b) : Resized(b, n)[i] \in {b[i], Lost}
<1> DEFINE r == Resized(b, n)
<1>1. DOMAIN r = DOMAIN b /\ r = [i \in DOMAIN b |-> r[i]]
      /\ \A i \in DOMAIN b : r[i] \in {b[i], Lost}
  BY DEF Resized
<1>2. Lost \in Bit
  BY DEF Lost, Bit
<1> HIDE DEF r
<1>3. DOMAIN b = 1 .. Len(b) /\ Len(b) \in Nat /\ \A i \in 1 .. Len(b) : b[i] \in Bit
  OBVIOUS
<1>4. r \in Seq(Bit) /\ Len(r) = Len(b)
  BY <1>1, <1>2, <1>3
<1> QED
  BY <1>1, <1>3, <1>4 DEF r

LEMMA AddAlike ==
    ASSUME NEW b \in Seq(Bit), NEW c \in Seq(Bit), NEW d \in Seq(Bit), Alike(b, c)
    PROVE  Alike(b \o d, c \o d)
<1> DEFINE p == b \o d
           q == c \o d
<1>1. Len(b) \in Nat /\ Len(c) = Len(b) /\ Len(d) \in Nat
      /\ \A i \in 1 .. Len(b) : Lost \in {b[i], c[i]} \/ b[i] = c[i]
  BY DEF Alike
<1>2. Len(p) = Len(b) + Len(d) /\ Len(q) = Len(b) + Len(d)
  BY <1>1
<1>3. /\ \A i \in 1 .. Len(b) : p[i] = b[i] /\ q[i] = c[i]
      /\ \A i \in Len(b) + 1 .. Len(b) + Len(d) : p[i] = q[i]
  BY <1>1
<1> HIDE DEF p, q
<1>4. Alike(p, q)
  <2> SUFFICES ASSUME NEW i \in 1 .. Len(b) + Len(d) PROVE Lost \in {p[i], q[i]} \/ p[i] = q[i]
    BY <1>2 DEF Alike
  <2>1. i \in 1 .. Len(b) \/ i \in Len(b) + 1 .. Len(b) + Len(d)
    BY <1>1
  <2> QED
    BY <1>1, <1>3, <2>1
<1> QED
  BY <1>4 DEF p, q

(* The bits of the raw key in hand. *)
LEMMA FreshBits ==
    ASSUME raw.id \in Nat, NEW n \in Nat, DOMAIN raw.bases["alice"] = 1 .. n
    PROVE  /\ Fresh \in Seq(Bit) /\ Len(Fresh) = Len(Detected(Agreed))
           /\ \A i \in DOMAIN Fresh : Fresh[i][1] = raw.id
           /\ \A i, j \in DOMAIN Fresh : i < j => Before(Fresh[i], Fresh[j])
<1> DEFINE d == Detected(Agreed)
<1>1. DOMAIN Agreed = 1 .. n
  BY DEF Agreed, Common
<1>2. d \in Seq(1 .. n) /\ \A i, j \in DOMAIN d : i < j => d[i] < d[j]
  BY <1>1, DetectedInOrder
<1> HIDE DEF d
<1>3. Fresh = [i \in DOMAIN d |-> <<raw.id, d[i]>>]
  BY DEF Fresh, d
<1>4. \A i \in DOMAIN d : d[i] \in Nat /\ <<raw.id, d[i]>> \in Bit
  BY <1>2 DEF Bit
<1>5. Fresh \in Seq(Bit) /\ Len(Fresh) = Len(d) /\ DOMAIN Fresh = DOMAIN d
  BY <1>2, <1>3, <1>4
<1> QED
  BY <1>2, <1>3, <1>5 DEF Before, d

(* Sifting with the bases agreed on. *)
LEMMA SiftAdds ==
    ASSUME NEW s \in Side, Typed, Sift(s, Agreed),
           raw.bases["alice"] \in Seq({"diagonal", "rectilinear", "invalid"})
    PROVE  /\ bits' = [bits EXCEPT ![s] = @ \o Fresh]
           /\ sifted' = [sifted EXCEPT ![s] = @ + Len(Fresh)]
           /\ bits' \in [Side -> Seq(Bit)] /\ sifted' \in [Side -> Nat]
<1>1. Fresh \in Seq(Bit) /\ Len(Fresh) = Len(Detected(Agreed))
  BY FreshBits DEF Typed
<1>2. /\ bits' = [bits EXCEPT ![s] = @ \o Fresh]
      /\ sifted' = [sifted EXCEPT ![s] = @ + Len(Detected(Agreed))]
  BY DEF Sift, Fresh
<1>3. bits[s] \o Fresh \in Seq(Bit) /\ sifted[s] + Len(Fresh) \in Nat
  BY <1>1 DEF Typed
<1> QED
  BY <1>1, <1>2, <1>3 DEF Typed

LEMMA ResizedTyped ==
    ASSUME Typed, NEW s \in Side, NEW n \in Lengths, SetRawkeyLength(s, n)
    PROVE  /\ bits' \in [Side -> Seq(Bit)] /\ length' \in [Side -> Lengths]
           /\ bits' = [bits EXCEPT ![s] = bits'[s]]
           /\ Len(bits'[s]) = Len(bits[s])
           /\ \A i \in 1 .. Len(bits[s]) : bits'[s][i] \in {bits[s][i], Lost}
<1>1. Resized(bits[s], n) \in Seq(Bit) /\ Len(Resized(bits[s], n)) = Len(bits[s])
      /\ \A i \in 1 .. Len(bits[s]) : Resized(bits[s], n)[i] \in {bits[s][i], Lost}
  BY ResizedBits DEF Typed
<1>2. bits'[s] = bits[s] \/ bits'[s] = Resized(bits[s], n)
  BY DEF SetRawkeyLength, Typed
<1>3. bits' = [bits EXCEPT ![s] = bits'[s]] /\ length' \in [Side -> Lengths]
  BY DEF SetRawkeyLength, Typed
<1>4. bits'[s] \in Seq(Bit)
  BY <1>1, <1>2 DEF Typed
<1> QED
  BY <1>1, <1>2, <1>3, <1>4 DEF Typed

LEMMA InitTyped == Init => Typed /\ Talk
<1> SUFFICES ASSUME Init PROVE Typed /\ Talk
  OBVIOUS
<1>1. /\ bits \in [Side -> Seq(Bit)] /\ out \in [Side -> Seq(NewKey)]
      /\ at = [s \in Side |-> "idle"] /\ net = [s \in Side |-> <<>>]
  BY DEF Init
<1>2. keyId = [s \in Side |-> Len(out[s]) + 1]
  BY DEF Init
<1>3. Typed
  BY <1>1, <1>2 DEF Init, Typed
<1>4. at["alice"] = "idle" /\ at["bob"] = "idle" /\ net["alice"] = <<>> /\ net["bob"] = <<>>
  BY <1>1, Sides
<1> QED
  BY <1>3, <1>4 DEF Talk

LEMMA StepTyped == ASSUME Typed, Talk, Next PROVE Typed' /\ Talk'
<1> USE Sides
<1>0. DOMAIN at = Side /\ DOMAIN net = Side
  BY DEF Typed
<1>1. ASSUME NEW t \in Tables, NEW u \in Tables, Pick(t, u) PROVE Typed' /\ Talk'
  <2>1. Typed'
    BY <1>1 DEF Typed, Pick
  <2>2. /\ t \in Seq({"diagonal", "rectilinear", "invalid"})
        /\ u \in Seq({"diagonal", "rectilinear", "invalid"}) /\ Len(t) = Len(u)
    BY TablesAssumption
  <2>3. raw'.bases["alice"] = t /\ raw'.bases["bob"] = u
    BY <1>1 DEF Pick
  <2>4. net["alice"] = <<>> /\ net["bob"] = <<>>
    BY <1>1 DEF Pick, Talk
  <2>5. at'["alice"] = "header" /\ at'["bob"] = "header" /\ net' = net
    BY <1>1 DEF Pick
  <2>6. \A s \in Side : raw'.bases[s] \in Seq({"diagonal", "rectilinear", "invalid"})
    BY <2>2, <2>3
  <2> QED
    BY <2>1, <2>2, <2>3, <2>4, <2>5, <2>6 DEF Talk
<1>2. CASE AliceHeader
  <2>1. Typed'
    BY <1>2 DEF Typed, AliceHeader
  <2>2. at["bob"] = "header" /\ net["alice"] = <<>>
    BY <1>2 DEF Talk, AliceHeader
  <2>3. at'["alice"] = "bases" /\ at'["bob"] = "header" /\ net'["alice"] = <<>>
        /\ net'["bob"] = <<length["alice"]>> /\ raw' = raw
    BY <1>0, <1>2, <2>2 DEF AliceHeader
  <2>4. length["alice"] \in Lengths
    BY DEF Typed
  <2> QED
    BY <1>2, <2>1, <2>2, <2>3, <2>4 DEF Talk, AliceHeader
<1>3. CASE BobHeader
  <2>0. DOMAIN at' = Side /\ DOMAIN net' = Side
    BY <1>0, <1>3 DEF BobHeader, Side
  <2>2. at["alice"] = "bases" /\ at["bob"] = "header" /\ Head(net["bob"]) \in Lengths
    BY <1>3 DEF Talk, BobHeader
  <2>1. Typed'
    <3>1. bits' \in [Side -> Seq(Bit)] /\ length' \in [Side -> Lengths]
      BY <1>3, <2>2, ResizedTyped DEF BobHeader
    <3> QED
      BY <1>3, <2>0, <3>1 DEF Typed, BobHeader
  <2>3. at'["alice"] = "bases" /\ at'["bob"] = "mask" /\ net'["alice"] = <<raw.bases["bob"]>>
        /\ net'["bob"] = <<>> /\ raw' = raw
    BY <1>0, <1>3, <2>2 DEF BobHeader
  <2> QED
    BY <2>1, <2>2, <2>3 DEF Talk
<1>4. CASE AliceBases
  <2>2. at["alice"] = "bases" /\ at["bob"] = "mask" /\ net["alice"] = <<raw.bases["bob"]>>
    BY <1>4 DEF Talk, AliceBases
  <2>3. raw.bases["alice"] \in Seq({"diagonal", "rectilinear", "invalid"})
    BY <2>2 DEF Talk
  <2>4. Head(net["alice"]) = raw.bases["bob"]
    BY <2>2
  <2>5. Sift("alice", Agreed) /\ net' = [alice |-> <<>>, bob |-> <<Agreed>>]
    BY <1>4, <2>4 DEF AliceBases, Agreed
  <2>6. bits' \in [Side -> Seq(Bit)] /\ sifted' \in [Side -> Nat]
    BY <2>3, <2>5, SiftAdds
  <2>7. Typed'
    BY <1>4, <2>5, <2>6 DEF Typed, AliceBases, Side
  <2>8. at'["alice"] = "check" /\ at'["bob"] = "mask" /\ net'["alice"] = <<>>
        /\ net'["bob"] = <<Agreed>> /\ raw' = raw /\ Agreed' = Agreed
    BY <1>0, <1>4, <2>2, <2>5 DEF AliceBases, Agreed
  <2> QED
    BY <2>2, <2>7, <2>8 DEF Talk
<1>5. CASE BobMask
  <2>2. at["alice"] \in {"idle", "check"} /\ at["bob"] = "mask" /\ net["bob"] = <<Agreed>>
        /\ net["alice"] = <<>>
    BY <1>5 DEF Talk, BobMask
  <2>3. raw.bases["alice"] \in Seq({"diagonal", "rectilinear", "invalid"})
    BY <2>2 DEF Talk
  <2>4. Head(net["bob"]) = Agreed
    BY <2>2
  <2>5. Sift("bob", Agreed)
    BY <1>5, <2>4 DEF BobMask
  <2>6. bits' \in [Side -> Seq(Bit)] /\ sifted' \in [Side -> Nat]
    BY <2>3, <2>5, SiftAdds
  <2>7. Typed'
    BY <1>5, <2>6 DEF Typed, BobMask
  <2>8. at'["alice"] = at["alice"] /\ at'["bob"] = "check" /\ net'["alice"] = <<>>
        /\ net'["bob"] = <<>> /\ raw' = raw
    BY <1>0, <1>5, <2>2 DEF BobMask
  <2> QED
    BY <2>2, <2>7, <2>8 DEF Talk
<1>6. ASSUME NEW s \in Side, Check(s) PROVE Typed' /\ Talk'
  <2>1. /\ Cut(bits[s]) \in Seq(Bit) /\ bits[s] \in Seq(Bit)
        /\ out[s] \in Seq(NewKey) /\ keyId[s] = Len(out[s]) + 1
    BY CutBits DEF Typed
  <2>2. bits' \in [Side -> Seq(Bit)] /\ out' \in [Side -> Seq(NewKey)]
        /\ keyId' = [x \in Side |-> Len(out'[x]) + 1]
    <3>1. CASE UNCHANGED <<bits, keyId, out>>
      BY <3>1 DEF Typed
    <3>2. CASE /\ out' = [out EXCEPT ![s] = Append(@, [id |-> keyId[s], bits |-> Cut(bits[s])])]
               /\ keyId' = [keyId EXCEPT ![s] = @ + 1]
               /\ bits' = [bits EXCEPT ![s] = <<>>]
      <4> DEFINE k == [id |-> keyId[s], bits |-> Cut(bits[s])]
      <4>1. k \in NewKey
        BY <2>1 DEF NewKey
      <4> HIDE DEF k
      <4>2. Append(out[s], k) \in Seq(NewKey) /\ Len(Append(out[s], k)) = Len(out[s]) + 1
        BY <2>1, <4>1
      <4>3. out' = [out EXCEPT ![s] = Append(out[s], k)]
        BY <3>2 DEF k
      <4>4. out' \in [Side -> Seq(NewKey)]
        BY <4>2, <4>3 DEF Typed
      <4>5. bits' \in [Side -> Seq(Bit)]
        BY <3>2 DEF Typed
      <4>6. ASSUME NEW x \in Side PROVE keyId'[x] = Len(out'[x]) + 1
        BY <2>1, <3>2, <4>2, <4>3 DEF Typed
      <4>7. keyId' = [x \in Side |-> keyId'[x]]
        BY <3>2 DEF Typed
      <4> QED
        BY <4>4, <4>5, <4>6, <4>7
    <3> QED
      BY <1>6, <3>1, <3>2 DEF Check
  <2>3. Typed'
    BY <1>6, <2>2 DEF Typed, Check
  <2>4. /\ at'[s] = "idle" /\ at[s] = "check" /\ at' = [at EXCEPT ![s] = "idle"]
        /\ UNCHANGED <<net, raw>>
    BY <1>0, <1>6 DEF Check
  <2>5. /\ at["alice"] \in {"idle", "check"}
        /\ at["bob"] \in {"idle", "check", "mask"}
        /\ s = "bob" => at["bob"] # "mask"
    BY <2>4 DEF Talk
  <2>6. Agreed' = Agreed
    BY <2>4 DEF Agreed
  <2> QED
    BY <1>0, <2>3, <2>4, <2>5, <2>6 DEF Talk
<1>7. ASSUME NEW s \in Side, NEW n \in Lengths, Set(s, n) PROVE Typed' /\ Talk'
  <2>1. Typed'
    BY <1>7, ResizedTyped DEF Typed, Set
  <2>2. UNCHANGED <<at, net, raw>> /\ Agreed' = Agreed
    BY <1>7 DEF Set, Agreed
  <2> QED
    BY <2>1, <2>2 DEF Talk
<1> QED
  BY <1>1, <1>2, <1>3, <1>4, <1>5, <1>6, <1>7 DEF Next, Worker

-----------------------------------------------------------------------------
(* Both sides keep the same bits in the same places.                       *)

LEMMA AlikeTurned ==
    /\ \A b, c : Alike(b, c) => Alike(c, b)
    /\ \A p, q : KeysMatch(p, q) => KeysMatch(q, p)
BY DEF Alike, KeysMatch

(* Bits that are lost on one side are in nobody's way. *)
LEMMA LostAlike ==
    ASSUME NEW b, NEW c, NEW d, Alike(b, c), Len(d) = Len(b),
           \A i \in 1 .. Len(b) : d[i] \in {b[i], Lost}
    PROVE  Alike(d, c)
BY DEF Alike

LEMMA CollectedTyped ==
    ASSUME Typed, Talk, NEW s \in Side PROVE Collected(s) \in Seq(Bit)
<1>1. bits[s] \in Seq(Bit)
  BY DEF Typed
<1>2. CASE at[s] = "mask"
  <2>1. raw.bases["alice"] \in Seq({"diagonal", "rectilinear", "invalid"})
    BY <1>2, Sides DEF Talk
  <2>2. Fresh \in Seq(Bit)
    BY <2>1, FreshBits DEF Typed
  <2> QED
    BY <1>1, <2>2 DEF Collected
<1> QED
  BY <1>1, <1>2 DEF Collected

(* Sides that have the same bits, keys and length go on alike. *)
LEMMA GoOnAlike ==
    ASSUME Typed, Talk, NEW s \in Side, NEW o \in Side, length[s] = length[o],
           Alike(Collected(s), Collected(o)), KeysMatch(out[s], out[o])
    PROVE  Alike(BitsAfter(s), BitsAfter(o)) /\ KeysMatch(OutAfter(s), OutAfter(o))
<1> DEFINE b == Collected(s)
           c == Collected(o)
<1>1. b \in Seq(Bit) /\ c \in Seq(Bit)
  BY CollectedTyped
<1>2. Enough(s) <=> Enough(o)
  BY DEF Alike, Enough
<1>3. Alike(<<>>, <<>>)
  BY DEF Alike
<1>4. Alike(BitsAfter(s), BitsAfter(o))
  BY <1>2, <1>3 DEF BitsAfter
<1>5. Alike(Cut(b), Cut(c))
  BY <1>1, CutAlike
<1> HIDE DEF b, c
<1> DEFINE k == [id |-> keyId[s], bits |-> Cut(b)]
           l == [id |-> keyId[o], bits |-> Cut(c)]
<1>6. out[s] \in Seq(NewKey) /\ out[o] \in Seq(NewKey) /\ Len(out[s]) = Len(out[o])
      /\ keyId[s] = keyId[o]
  BY DEF Typed, KeysMatch
<1>7. k.id = l.id /\ Alike(k.bits, l.bits)
  BY <1>5, <1>6
<1> HIDE DEF k, l
<1>8. KeysMatch(Append(out[s], k), Append(out[o], l))
  <2> DEFINE p == Append(out[s], k)
             q == Append(out[o], l)
             n == Len(out[s])
  <2>1. n \in Nat /\ Len(p) = n + 1 /\ Len(q) = n + 1
    BY <1>6
  <2>2. \A i \in 1 .. n : p[i] = out[s][i] /\ q[i] = out[o][i]
    BY <1>6
  <2>3. p[n + 1] = k /\ q[n + 1] = l
    BY <1>6
  <2> HIDE DEF p, q
  <2>4. ASSUME NEW i \in 1 .. n + 1 PROVE p[i].id = q[i].id /\ Alike(p[i].bits, q[i].bits)
    <3>1. CASE i = n + 1
      BY <1>7, <2>3, <3>1
    <3>2. CASE i \in 1 .. n
      BY <2>2, <3>2 DEF KeysMatch
    <3> QED
      BY <2>1, <3>1, <3>2
  <2> QED
    BY <2>1, <2>4 DEF KeysMatch, p, q
<1> QED
  BY <1>2, <1>4, <1>8 DEF OutAfter, k, l, b, c

(* What the length is looked at for. *)
LEMMA CheckIsAfter ==
    ASSUME Typed, NEW s \in Side, Check(s)
    PROVE  /\ bits' = [bits EXCEPT ![s] = BitsAfter(s)]
           /\ out' = [out EXCEPT ![s] = OutAfter(s)]
<1>1. Collected(s) = bits[s]
  BY DEF Check, Collected
<1>2. CASE Enough(s)
  <2>1. ~(Len(bits[s]) < length[s] * Byte)
    <3>1. Len(bits[s]) \in Nat /\ length[s] \in Nat /\ Byte \in Nat
      <4>1. bits[s] \in Seq(Bit) /\ length[s] \in Lengths
        BY DEF Typed
      <4>2. Len(bits[s]) \in Nat
        BY <4>1
      <4>3. length[s] \in Nat
        BY <4>1, ByteAssumption
      <4>4. Byte \in Nat
        BY ByteAssumption
      <4> QED
        BY <4>2, <4>3, <4>4
    <3>2. length[s] * Byte \in Nat
      BY <3>1
    <3> QED
      BY <1>1, <1>2, <3>1, <3>2 DEF Enough
  <2> QED
    BY <1>1, <1>2, <2>1 DEF Check, BitsAfter, OutAfter
<1>3. CASE ~Enough(s)
  <2>1. UNCHANGED <<bits, out>>
    BY <1>1, <1>3 DEF Check, Enough
  <2> QED
    BY <1>1, <1>3, <2>1 DEF Typed, BitsAfter, OutAfter
<1> QED
  BY <1>2, <1>3

(* What a side will have stays what it is while nothing of it changes. *)
LEMMA AfterStays ==
    ASSUME NEW s, UNCHANGED <<at[s], bits[s], out[s], keyId[s], length[s], raw>>
    PROVE  /\ Collected(s)' = Collected(s) /\ BitsAfter(s)' = BitsAfter(s)
           /\ OutAfter(s)' = OutAfter(s)
<1>1. Fresh' = Fresh
  BY DEF Fresh, Agreed
<1>2. Collected(s)' = Collected(s)
  BY <1>1 DEF Collected
<1>3. Enough(s)' = Enough(s)
  BY <1>2 DEF Enough
<1> QED
  BY <1>2, <1>3 DEF BitsAfter, OutAfter

LEMMA InitPhase == Init => Phase
<1> SUFFICES ASSUME Init PROVE Ready
  BY DEF Phase
<1>1. \A s \in Side : at[s] = "idle" /\ bits[s] = <<>> /\ out[s] = <<>>
  BY DEF Init
<1> QED
  BY <1>1, Sides DEF Ready, Even, Alike, KeysMatch

LEMMA ExchangePhase ==
    ASSUME Typed, Talk, Phase, AliceHeader \/ BobHeader \/ AliceBases \/ BobMask
    PROVE  Phase'
<1> USE Sides
<1>0. DOMAIN at = Side /\ DOMAIN net = Side /\ DOMAIN length = Side /\ DOMAIN bits = Side
  BY DEF Typed
<1>1. CASE AliceHeader
  <2>1. at["bob"] = "header" /\ at["alice"] = "header"
    BY <1>1 DEF Talk, AliceHeader
  <2>2. Ready
    BY <2>1 DEF Phase, Told, Both, One
  <2>3. at'["alice"] = "bases" /\ at'["bob"] = "header" /\ net'["bob"] = <<length["alice"]>>
        /\ UNCHANGED <<length, bits, out>>
    BY <1>0, <1>1, <2>1 DEF AliceHeader
  <2> QED
    BY <2>2, <2>3 DEF Phase, Ready, Even
<1>2. CASE BobHeader
  <2>1. at["bob"] = "header" /\ at["alice"] = "bases"
    BY <1>2 DEF Talk, BobHeader
  <2>2. Ready /\ Head(net["bob"]) = length["alice"]
    BY <2>1 DEF Phase, Told, Both, One, Ready
  <2>3. SetRawkeyLength("bob", length["alice"]) /\ length["alice"] \in Lengths
    BY <1>2, <2>2 DEF BobHeader, Typed
  <2>4. /\ bits'["alice"] = bits["alice"] /\ Len(bits'["bob"]) = Len(bits["bob"])
        /\ \A i \in 1 .. Len(bits["bob"]) : bits'["bob"][i] \in {bits["bob"][i], Lost}
    BY <1>0, <2>3, ResizedTyped
  <2>5. Alike(bits["bob"], bits["alice"]) /\ KeysMatch(out["alice"], out["bob"])
    BY <2>2, AlikeTurned DEF Ready, Even
  <2>6. Alike(bits'["bob"], bits["alice"])
    BY <2>4, <2>5, LostAlike
  <2>7. Alike(bits'["alice"], bits'["bob"])
    BY <2>4, <2>6, AlikeTurned
  <2>8. /\ at'["alice"] = "bases" /\ at'["bob"] = "mask"
        /\ length'["alice"] = length'["bob"] /\ out' = out
    BY <1>0, <1>2, <2>1, <2>3 DEF BobHeader, SetRawkeyLength
  <2> QED
    BY <2>5, <2>7, <2>8 DEF Phase, Told, Even
<1>3. CASE AliceBases
  <2>1. at["bob"] = "mask" /\ at["alice"] = "bases" /\ net["alice"] = <<raw.bases["bob"]>>
    BY <1>3 DEF Talk, AliceBases
  <2>2. Told
    BY <2>1 DEF Phase, Ready, Both, One
  <2>3. raw.bases["alice"] \in Seq({"diagonal", "rectilinear", "invalid"})
    BY <2>1 DEF Talk
  <2>4. Sift("alice", Agreed)
    BY <1>3, <2>1 DEF AliceBases, Agreed
  <2>5. bits' = [bits EXCEPT !["alice"] = @ \o Fresh]
    BY <2>3, <2>4, SiftAdds
  <2>6. Fresh \in Seq(Bit) /\ bits["alice"] \in Seq(Bit) /\ bits["bob"] \in Seq(Bit)
    <3>1. /\ DOMAIN raw.bases["alice"] = 1 .. Len(raw.bases["alice"])
          /\ Len(raw.bases["alice"]) \in Nat
      BY <2>3
    <3>2. Fresh \in Seq(Bit)
      BY <3>1, FreshBits DEF Typed
    <3> QED
      BY <3>2 DEF Typed
  <2>7. Alike(bits["alice"] \o Fresh, bits["bob"] \o Fresh)
    BY <2>2, <2>6, AddAlike DEF Told, Even
  <2>8. at'["alice"] = "check" /\ at'["bob"] = "mask" /\ UNCHANGED <<length, out, raw>>
    BY <1>0, <1>3, <2>1 DEF AliceBases
  <2>9. Fresh' = Fresh
    BY <2>8 DEF Fresh, Agreed
  <2>10. Collected("alice")' = bits["alice"] \o Fresh /\ Collected("bob")' = bits["bob"] \o Fresh
    BY <1>0, <2>5, <2>8, <2>9 DEF Collected
  <2> QED
    BY <2>2, <2>7, <2>8, <2>10 DEF Phase, Both, Told, Even
<1>4. CASE BobMask
  <2>1. /\ at["bob"] = "mask" /\ at["alice"] \in {"idle", "check"} /\ net["bob"] = <<Agreed>>
    BY <1>4 DEF Talk, BobMask
  <2>2. raw.bases["alice"] \in Seq({"diagonal", "rectilinear", "invalid"})
    BY <2>1 DEF Talk
  <2>3. Sift("bob", Agreed)
    BY <1>4, <2>1 DEF BobMask
  <2>4. bits' = [bits EXCEPT !["bob"] = @ \o Fresh]
    BY <2>2, <2>3, SiftAdds
  <2>5. at'["alice"] = at["alice"] /\ at'["bob"] = "check" /\ UNCHANGED <<length, out, raw, keyId>>
        /\ bits'["alice"] = bits["alice"]
    BY <1>0, <1>4, <2>4 DEF BobMask
  <2>6. Collected("bob")' = Collected("bob")
    BY <1>0, <2>1, <2>4, <2>5 DEF Collected
  <2>7. Collected("alice")' = Collected("alice")
    BY <2>1, <2>5 DEF Collected
  <2>8. Enough("bob")' = Enough("bob")
    BY <2>5, <2>6 DEF Enough
  <2>9. BitsAfter("bob")' = BitsAfter("bob") /\ OutAfter("bob")' = OutAfter("bob")
    BY <2>5, <2>6, <2>8 DEF BitsAfter, OutAfter
  <2>10. CASE Both
    <3>1. Both'
      BY <2>5, <2>6, <2>7, <2>10 DEF Both
    <3> QED
      BY <3>1 DEF Phase
  <2>11. CASE One("alice")
    <3>1. One("alice")'
      BY <2>5, <2>9, <2>11 DEF One
    <3> QED
      BY <3>1 DEF Phase
  <2>12. Both \/ One("alice")
    BY <2>1 DEF Phase, Ready, Told, One
  <2> QED
    BY <2>10, <2>11, <2>12
<1> QED
  BY <1>1, <1>2, <1>3, <1>4

LEMMA CheckPhase == ASSUME Typed, Talk, Phase, NEW s \in Side, Check(s) PROVE Phase'
<1> DEFINE o == Peer(s)
<1> USE Sides
<1>0. /\ DOMAIN at = Side /\ DOMAIN out = Side /\ DOMAIN bits = Side
      /\ o \in Side /\ o # s /\ Peer(o) = s
      /\ \A t \in Side : t = s \/ t = o
  BY DEF Typed
<1>1. bits' = [bits EXCEPT ![s] = BitsAfter(s)] /\ out' = [out EXCEPT ![s] = OutAfter(s)]
  BY CheckIsAfter
<1>2. at[s] = "check" /\ at' = [at EXCEPT ![s] = "idle"] /\ UNCHANGED <<raw, length>>
      /\ keyId'[o] = keyId[o]
  <2>1. keyId' = keyId \/ keyId' = [keyId EXCEPT ![s] = @ + 1]
    BY DEF Check
  <2>2. DOMAIN keyId = Side
    BY DEF Typed
  <2> QED
    BY <1>0, <2>1, <2>2 DEF Check
<1>3. at'[s] = "idle" /\ at'[o] = at[o] /\ bits'[s] = BitsAfter(s) /\ out'[s] = OutAfter(s)
      /\ bits'[o] = bits[o] /\ out'[o] = out[o]
  BY <1>0, <1>1, <1>2
<1>4. BitsAfter(o)' = BitsAfter(o) /\ OutAfter(o)' = OutAfter(o)
  BY <1>2, <1>3, AfterStays
<1> HIDE DEF o
<1>5. CASE Both
  <2>1. length[s] = length[o] /\ Alike(Collected(s), Collected(o)) /\ KeysMatch(out[s], out[o])
        /\ at[o] \in {"mask", "check"}
    <3>1. CASE s = "alice"
      BY <1>0, <1>5, <3>1 DEF Both, o
    <3>2. CASE s = "bob"
      BY <1>0, <1>5, <3>2, AlikeTurned DEF Both, o
    <3> QED
      BY <3>1, <3>2
  <2>2. Alike(BitsAfter(s), BitsAfter(o)) /\ KeysMatch(OutAfter(s), OutAfter(o))
    BY <1>0, <2>1, GoOnAlike
  <2>3. One(s)'
    BY <1>3, <1>4, <2>1, <2>2 DEF One, o
  <2> QED
    BY <2>3 DEF Phase
<1>6. CASE One(o)
  <2>1. at[o] = "idle" /\ Alike(bits[o], BitsAfter(s)) /\ KeysMatch(out[o], OutAfter(s))
    BY <1>0, <1>6 DEF One
  <2>2. Alike(bits'[o], bits'[s]) /\ KeysMatch(out'[o], out'[s])
    BY <1>3, <2>1
  <2>3. Even'
    <3>1. CASE s = "alice"
      BY <1>0, <2>2, <3>1, AlikeTurned DEF Even, o
    <3>2. CASE s = "bob"
      BY <1>0, <2>2, <3>2 DEF Even, o
    <3> QED
      BY <3>1, <3>2
  <2>4. \A t \in Side : at'[t] = "idle"
    BY <1>0, <1>3, <2>1
  <2>5. Ready'
    BY <2>3, <2>4 DEF Ready
  <2> QED
    BY <2>5 DEF Phase
<1>7. Both \/ One(o)
  <2>1. ~Ready /\ ~Told /\ ~One(s)
    BY <1>2 DEF Ready, Told, One
  <2> QED
    BY <1>0, <2>1 DEF Phase
<1> QED
  BY <1>5, <1>6, <1>7

LEMMA SetPhase ==
    ASSUME Typed, Talk, Phase, NEW s \in Side, NEW n \in Lengths, Set(s, n), ~amid'
    PROVE  Phase'
<1> DEFINE o == Peer(s)
<1> USE Sides
<1>0. DOMAIN length = Side /\ DOMAIN bits = Side /\ o \in Side /\ o # s /\ Peer(o) = s
      /\ \A t \in Side : t = s \/ t = o
  BY DEF Typed
<1>1. at[s] \in {"idle", "header"} /\ UNCHANGED <<at, net, raw, keyId, out>>
  BY DEF Set
<1>2. /\ bits' = [bits EXCEPT ![s] = bits'[s]] /\ Len(bits'[s]) = Len(bits[s])
      /\ \A i \in 1 .. Len(bits[s]) : bits'[s][i] \in {bits[s][i], Lost}
      /\ length' = [length EXCEPT ![s] = n]
  BY ResizedTyped DEF Set, SetRawkeyLength
<1>3. bits'[o] = bits[o] /\ length'[o] = length[o]
  BY <1>0, <1>2
<1>4. \A c : Alike(bits[s], c) => Alike(bits'[s], c)
  BY <1>2, LostAlike
<1> HIDE DEF o
<1>5. CASE Ready
  <2>1. Alike(bits[s], bits[o])
    <3>1. CASE s = "alice"
      BY <1>0, <1>5, <3>1 DEF Ready, Even, o
    <3>2. CASE s = "bob"
      BY <1>0, <1>5, <3>2, AlikeTurned DEF Ready, Even, o
    <3> QED
      BY <3>1, <3>2
  <2>2. Alike(bits'[s], bits'[o])
    BY <1>3, <1>4, <2>1
  <2>3. Even'
    <3>1. CASE s = "alice"
      BY <1>0, <1>1, <1>5, <2>2, <3>1 DEF Ready, Even, o
    <3>2. CASE s = "bob"
      BY <1>0, <1>1, <1>5, <2>2, <3>2, AlikeTurned DEF Ready, Even, o
    <3> QED
      BY <3>1, <3>2
  <2>4. at["alice"] = "bases" => length'["alice"] = length["alice"]
    BY <1>0, <1>1, <1>3
  <2>5. Ready'
    BY <1>1, <1>5, <2>3, <2>4 DEF Ready
  <2> QED
    BY <2>5 DEF Phase
<1>6. CASE One(s)
  <2>1. BitsAfter(o)' = BitsAfter(o) /\ OutAfter(o)' = OutAfter(o)
    BY <1>1, <1>3, AfterStays
  <2>2. One(s)'
    BY <1>1, <1>4, <1>6, <2>1 DEF One, o
  <2> QED
    BY <2>2 DEF Phase
<1>7. Ready \/ One(s)
  <2>1. ~Told /\ ~Both /\ ~One(o)
    BY <1>0, <1>1 DEF Told, Both, One
  <2> QED
    BY <1>0, <2>1 DEF Phase
<1> QED
  BY <1>5, <1>6, <1>7

LEMMA StepPhase == ASSUME Typed, Talk, Next, ~amid => Phase, ~amid' PROVE Phase'
<1>1. ~amid
  BY DEF Next, Worker, Pick, AliceHeader, BobHeader, AliceBases, BobMask, Check, Set, Typed
<1>2. ASSUME NEW t, NEW u, Pick(t, u) PROVE Phase'
  <2>1. \A s \in Side : at[s] = "idle" /\ at'[s] = "header"
    BY <1>2 DEF Pick
  <2>2. Ready /\ UNCHANGED <<bits, out>>
    BY <1>1, <1>2, <2>1, Sides DEF Phase, Told, Both, One, Pick
  <2> QED
    BY <2>1, <2>2, Sides DEF Phase, Ready, Even
<1> QED
  BY <1>1, <1>2, ExchangePhase, CheckPhase, SetPhase DEF Next, Worker

LEMMA PhaseKeys == ASSUME Typed, Talk, Phase PROVE KeysAlike
<1> USE Sides
(* Two keys of one number, and the bits at one place of them. *)
<1> DEFINE Same(k, l) == k.id = l.id /\ Alike(k.bits, l.bits)
<1>1. \A s \in Side : out[s] \in Seq(NewKey)
  BY DEF Typed
<1>2. ASSUME NEW s \in Side, NEW o \in Side, s # o,
             KeysMatch(out[s], out[o]) \/ KeysMatch(out[s], OutAfter(o)),
             NEW n \in DOMAIN out[s] \cap DOMAIN out[o]
      PROVE  Same(out[s][n], out[o][n])
  <2>1. n \in 1 .. Len(out[s]) /\ n \in 1 .. Len(out[o])
    BY <1>1
  <2>2. CASE KeysMatch(out[s], out[o])
    BY <2>1, <2>2 DEF KeysMatch
  <2>3. CASE KeysMatch(out[s], OutAfter(o))
    <3>1. OutAfter(o)[n] = out[o][n]
      BY <1>1, <2>1 DEF OutAfter
    <3>2. Same(out[s][n], OutAfter(o)[n])
      BY <2>1, <2>3 DEF KeysMatch
    <3> QED
      BY <3>1, <3>2
  <2> QED
    BY <1>2, <2>2, <2>3
<1>3. \E s, o \in Side : s # o /\ (KeysMatch(out[s], out[o]) \/ KeysMatch(out[s], OutAfter(o)))
  <2>1. CASE Ready \/ Told \/ Both
    BY <2>1 DEF Ready, Told, Both, Even
  <2>2. ASSUME NEW s \in Side, One(s) PROVE KeysMatch(out[s], OutAfter(Peer(s)))
    BY <2>2 DEF One
  <2> QED
    BY <2>1, <2>2 DEF Phase
<1>4. ASSUME NEW n \in DOMAIN out["alice"] \cap DOMAIN out["bob"]
      PROVE  Same(out["alice"][n], out["bob"][n])
  <2>1. Same(out["alice"][n], out["bob"][n]) \/ Same(out["bob"][n], out["alice"][n])
    BY <1>2, <1>3
  <2> QED
    BY <2>1, AlikeTurned
<1>5. ASSUME NEW n \in DOMAIN out["alice"] \cap DOMAIN out["bob"]
      PROVE  LET a == out["alice"][n]  b == out["bob"][n]
             IN  /\ a.id = b.id /\ Len(a.bits) = Len(b.bits)
                 /\ \A i \in DOMAIN a.bits :
                      Lost \in {a.bits[i], b.bits[i]} \/ a.bits[i] = b.bits[i]
  <2>1. out["alice"][n].bits \in Seq(Bit)
    <3>1. out["alice"] \in Seq(NewKey) /\ n \in 1 .. Len(out["alice"])
      BY <1>1
    <3>2. out["alice"][n] \in NewKey
      BY <3>1
    <3> QED
      BY <3>2 DEF NewKey
  <2>2. DOMAIN out["alice"][n].bits = 1 .. Len(out["alice"][n].bits)
    BY <2>1
  <2> QED
    BY <1>4, <2>2 DEF Alike
<1>6. ASSUME at = [s \in Side |-> "idle"]
      PROVE  Len(out["alice"]) = Len(out["bob"]) /\ Len(bits["alice"]) = Len(bits["bob"])
  <2>1. Ready
    BY <1>6 DEF Phase, Told, Both, One
  <2> QED
    BY <2>1 DEF Ready, Even, Alike, KeysMatch
<1> QED
  BY <1>5, <1>6 DEF KeysAlike

(* The n-th keys of the two sides are one key: each has counted, cut and   *)
(* numbered its bits alone (qkd-sifting-bb84.cpp:340-375, 438-462).        *)
THEOREM SameKeys == Spec => []KeysAlike
<1>1. Init => IInv
  BY InitTyped, InitPhase DEF IInv
<1>2. IInv /\ [Next]_vars => IInv'
  <2> SUFFICES ASSUME IInv, [Next]_vars PROVE IInv'
    OBVIOUS
  <2>1. CASE Next
    BY <2>1, StepTyped, StepPhase DEF IInv
  <2>2. CASE UNCHANGED vars
    <3>1. \A s \in Side : Collected(s)' = Collected(s) /\ BitsAfter(s)' = BitsAfter(s)
                          /\ OutAfter(s)' = OutAfter(s)
      BY <2>2, AfterStays DEF vars
    <3>2. Typed' /\ Talk'
      BY <2>2 DEF IInv, Typed, Talk, vars, Agreed
    <3>3. Ready' = Ready /\ Told' = Told
      BY <2>2 DEF Ready, Told, Even, vars
    <3>4. Both => Both'
      BY <2>2, <3>1, Sides DEF Both, vars
    <3>5. \A s \in Side : One(s) => One(s)'
      <4> SUFFICES ASSUME NEW s \in Side, One(s) PROVE One(s)'
        OBVIOUS
      <4>1. Peer(s) \in Side
        BY Sides
      <4> QED
        BY <2>2, <3>1, <4>1 DEF One, vars
    <3> QED
      BY <2>2, <3>2, <3>3, <3>4, <3>5 DEF IInv, Phase, vars
  <2> QED
    BY <2>1, <2>2
<1>3. IInv => KeysAlike
  BY PhaseKeys DEF IInv, KeysAlike
<1> QED
  BY <1>1, <1>2, <1>3, PTL DEF Spec

-----------------------------------------------------------------------------
(* Every sifted bit goes into one key, in order.                           *)

LEMMA SpotsAre ==
    ASSUME NEW o \in Seq(NewKey), NEW b \in Seq(Bit)
    PROVE  /\ \A n \in 1 .. Len(o) + 1 : Line(o, b, n) \in Seq(Bit)
           /\ \A x : x \in Spots(o, b) <=>
                /\ x = <<x[1], x[2]>> /\ x[1] \in 1 .. Len(o) + 1
                /\ x[2] \in 1 .. Len(Line(o, b, x[1]))
           /\ \A x \in Spots(o, b) : x[1] \in Nat /\ x[2] \in Nat /\ BitAt(o, b, x) \in Bit
<1>1. ASSUME NEW n \in 1 .. Len(o) + 1 PROVE Line(o, b, n) \in Seq(Bit)
  <2>1. CASE n <= Len(o)
    <3>1. o[n] \in NewKey
      BY <2>1
    <3> QED
      BY <2>1, <3>1 DEF Line, NewKey
  <2> QED
    BY <2>1 DEF Line
<1>2. \A n \in 1 .. Len(o) + 1 : DOMAIN Line(o, b, n) = 1 .. Len(Line(o, b, n))
  BY <1>1
<1>3. ASSUME NEW x
      PROVE  x \in Spots(o, b) <=>
                /\ x = <<x[1], x[2]>> /\ x[1] \in 1 .. Len(o) + 1
                /\ x[2] \in 1 .. Len(Line(o, b, x[1]))
  <2>1. x \in Spots(o, b) <=> \E n \in 1 .. Len(o) + 1 : x \in {n} \X DOMAIN Line(o, b, n)
    BY DEF Spots
  <2>2. \A n : x \in {n} \X DOMAIN Line(o, b, n) <=>
                 x = <<x[1], x[2]>> /\ x[1] = n /\ x[2] \in DOMAIN Line(o, b, n)
    OBVIOUS
  <2> QED
    BY <1>2, <2>1, <2>2
<1>4. ASSUME NEW x \in Spots(o, b)
      PROVE  x[1] \in Nat /\ x[2] \in Nat /\ BitAt(o, b, x) \in Bit
  <2>1. x[1] \in 1 .. Len(o) + 1 /\ x[2] \in 1 .. Len(Line(o, b, x[1]))
    BY <1>3
  <2>2. Line(o, b, x[1]) \in Seq(Bit)
    BY <1>1, <2>1
  <2>3. Line(o, b, x[1])[x[2]] \in Bit
    BY <2>1, <2>2
  <2> QED
    BY <2>1, <2>3 DEF BitAt
<1> QED
  BY <1>1, <1>3, <1>4

(* So many places are those of a stretch of one key. *)
LEMMA Stretch ==
    ASSUME NEW n, NEW i \in Nat, NEW j \in Nat, i <= j
    PROVE  /\ IsFiniteSet({n} \X (i + 1 .. j))
           /\ Cardinality({n} \X (i + 1 .. j)) = j - i
<1> DEFINE S == i + 1 .. j
<1>1. IsFiniteSet(S) /\ Cardinality(S) = j - i
  <2>1. i + 1 \in Int /\ j \in Int
    OBVIOUS
  <2>2. IsFiniteSet(S) /\ Cardinality(S) = IF i + 1 > j THEN 0 ELSE j - (i + 1) + 1
    BY <2>1, FS_Interval
  <2> HIDE DEF S
  <2> QED
    BY <2>2
<1> HIDE DEF S
<1>2. IsFiniteSet({n}) /\ Cardinality({n}) = 1
  BY FS_Singleton
<1>3. IsFiniteSet({n} \X S) /\ Cardinality({n} \X S) = Cardinality({n}) * Cardinality(S)
  BY <1>1, <1>2, FS_Product
<1>4. Cardinality({n} \X S) = j - i
  BY <1>1, <1>2, <1>3
<1> QED
  BY <1>3, <1>4 DEF S

LEMMA MoreBits ==
    ASSUME NEW o \in Seq(NewKey), NEW b \in Seq(Bit), NEW d \in Seq(Bit),
           NEW r \in Nat, NEW h \in Nat, InOrder(o, b, r, FALSE, h),
           \A i \in DOMAIN d : d[i][1] = r,
           \A i, j \in DOMAIN d : i < j => Before(d[i], d[j])
    PROVE  InOrder(o, b \o d, r, TRUE, h + Len(d))
<1> DEFINE m == Len(o)
           k == Len(b)
           c == b \o d
           N == {m + 1} \X (k + 1 .. k + Len(d))
           S == Spots(o, b)
           T == Spots(o, c)
<1>1. m \in Nat /\ k \in Nat /\ Len(d) \in Nat /\ c \in Seq(Bit) /\ Len(c) = k + Len(d)
      /\ (\A i \in 1 .. k : c[i] = b[i])
      /\ \A i \in k + 1 .. k + Len(d) : c[i] = d[i - k] /\ i - k \in DOMAIN d
  OBVIOUS
<1>2. \A n \in 1 .. m : Line(o, c, n) = Line(o, b, n)
  BY <1>1 DEF Line
<1>3. Line(o, c, m + 1) = c /\ Line(o, b, m + 1) = b
  BY <1>1 DEF Line
<1> HIDE DEF c
<1>4. T = S \cup N
  <2>1. ASSUME NEW x PROVE x \in T <=> x \in S \/ x \in N
    <3>1. x \in T <=> /\ x = <<x[1], x[2]>> /\ x[1] \in 1 .. m + 1
                       /\ x[2] \in 1 .. Len(Line(o, c, x[1]))
      BY <1>1, SpotsAre
    <3>2. x \in S <=> /\ x = <<x[1], x[2]>> /\ x[1] \in 1 .. m + 1
                       /\ x[2] \in 1 .. Len(Line(o, b, x[1]))
      BY <1>1, SpotsAre
    <3>3. x \in N <=> x = <<x[1], x[2]>> /\ x[1] = m + 1 /\ x[2] \in k + 1 .. k + Len(d)
      OBVIOUS
    <3> HIDE DEF S, T, N
    <3>4. CASE x[1] = m + 1
      <4>1. x \in T <=> x = <<x[1], x[2]>> /\ x[2] \in 1 .. k + Len(d)
        BY <1>1, <1>3, <3>1, <3>4
      <4>2. x \in S <=> x = <<x[1], x[2]>> /\ x[2] \in 1 .. k
        BY <1>1, <1>3, <3>2, <3>4
      <4>3. x \in N <=> x = <<x[1], x[2]>> /\ x[2] \in k + 1 .. k + Len(d)
        BY <3>3, <3>4
      <4>4. x[2] \in 1 .. k + Len(d) <=> x[2] \in 1 .. k \/ x[2] \in k + 1 .. k + Len(d)
        BY <1>1
      <4> QED
        BY <4>1, <4>2, <4>3, <4>4
    <3>5. CASE x[1] # m + 1
      <4>1. x[1] \in 1 .. m + 1 <=> x[1] \in 1 .. m
        BY <1>1, <3>5
      <4>2. x[1] \in 1 .. m => Line(o, c, x[1]) = Line(o, b, x[1])
        BY <1>2
      <4>3. x \in T <=> x \in S
        BY <3>1, <3>2, <4>1, <4>2
      <4> QED
        BY <3>3, <3>5, <4>3
    <3> QED
      BY <3>4, <3>5
  <2> HIDE DEF S, T, N
  <2> QED
    BY <2>1
<1>5. \A x \in S : BitAt(o, c, x) = BitAt(o, b, x)
  <2> SUFFICES ASSUME NEW x \in S PROVE BitAt(o, c, x) = BitAt(o, b, x)
    OBVIOUS
  <2>1. x[1] \in 1 .. m + 1 /\ x[2] \in 1 .. Len(Line(o, b, x[1]))
    BY <1>1, SpotsAre
  <2>2. CASE x[1] = m + 1
    <3>1. x[2] \in 1 .. k /\ Line(o, c, x[1]) = c /\ Line(o, b, x[1]) = b
      BY <1>3, <2>1, <2>2
    <3>2. c[x[2]] = b[x[2]]
      BY <1>1, <3>1
    <3> QED
      BY <3>1, <3>2 DEF BitAt
  <2>3. CASE x[1] # m + 1
    <3>1. x[1] \in 1 .. m
      BY <1>1, <2>1, <2>3
    <3> QED
      BY <1>2, <3>1 DEF BitAt
  <2> QED
    BY <2>2, <2>3
<1>6. \A x \in N : /\ x[1] = m + 1 /\ x[2] \in k + 1 .. k + Len(d) /\ x[2] - k \in DOMAIN d
                   /\ BitAt(o, c, x) = d[x[2] - k]
  <2> SUFFICES ASSUME NEW x \in N
               PROVE  /\ x[1] = m + 1 /\ x[2] \in k + 1 .. k + Len(d) /\ x[2] - k \in DOMAIN d
                      /\ BitAt(o, c, x) = d[x[2] - k]
    OBVIOUS
  <2>1. x[1] = m + 1 /\ x[2] \in k + 1 .. k + Len(d)
    OBVIOUS
  <2> DEFINE i == x[2]
  <2>2. i - k \in DOMAIN d /\ c[i] = d[i - k]
    <3>1. i \in k + 1 .. k + Len(d)
      BY <2>1
    <3>2. \A j \in k + 1 .. k + Len(d) : c[j] = d[j - k] /\ j - k \in DOMAIN d
      BY ONLY <1>1, Zenon
    <3> HIDE DEF i, k
    <3> QED
      BY ONLY <3>1, <3>2
  <2>3. BitAt(o, c, x) = c[x[2]]
    BY <1>3, <2>1 DEF BitAt
  <2> QED
    BY <2>1, <2>2, <2>3
<1>7. \A x \in S : /\ x[1] \in Nat /\ x[2] \in Nat /\ x[1] <= m + 1
                   /\ x[1] = m + 1 => x[2] <= k
                   /\ BitAt(o, b, x) \in Bit
  BY <1>1, <1>3, SpotsAre
<1>8. IsFiniteSet(N) /\ Cardinality(N) = Len(d) /\ S \cap N = {}
  <2>1. IsFiniteSet(N) /\ Cardinality(N) = Len(d)
    <3>1. k \in Nat /\ k + Len(d) \in Nat /\ k <= k + Len(d) /\ k + Len(d) - k = Len(d)
      BY <1>1
    <3> DEFINE j == k + Len(d)
    <3>2. k \in Nat /\ j \in Nat /\ k <= j /\ j - k = Len(d)
      BY <3>1
    <3> HIDE DEF k, j
    <3>3. IsFiniteSet({m + 1} \X (k + 1 .. j)) /\ Cardinality({m + 1} \X (k + 1 .. j)) = j - k
      BY <3>2, Stretch
    <3> QED
      BY <3>2, <3>3 DEF j
  <2>2. ASSUME NEW x \in S, x \in N PROVE FALSE
    BY <1>1, <1>6, <1>7, <2>2
  <2> HIDE DEF S, N
  <2> QED
    BY <2>1, <2>2
<1> HIDE DEF S, T, N, m, k
<1>9. IsFiniteSet(S) /\ Cardinality(S) \in Nat /\ h - Cardinality(S) \in 0 .. (Byte - 1) * m
  BY FS_CardinalityType DEF InOrder, S, m
<1>10. IsFiniteSet(T) /\ Cardinality(T) = Cardinality(S) + Len(d)
  <2>1. Cardinality(S \cap N) = 0
    BY <1>8, FS_EmptySet
  <2>2. /\ IsFiniteSet(S \cup N)
        /\ Cardinality(S \cup N) = Cardinality(S) + Cardinality(N) - Cardinality(S \cap N)
    BY <1>8, <1>9, FS_Union
  <2>3. Cardinality(T) = Cardinality(S) + Len(d) - 0
    BY <1>4, <1>8, <2>1, <2>2
  <2> QED
    BY <1>1, <1>4, <1>9, <2>2, <2>3
<1>11. (h + Len(d)) - Cardinality(T) \in 0 .. (Byte - 1) * m
  BY <1>1, <1>9, <1>10
<1>12. \A x \in S : /\ BitAt(o, b, x)[1] \in Nat /\ BitAt(o, b, x)[1] <= r
                    /\ BitAt(o, b, x) # Lost => BitAt(o, b, x)[1] < r
  BY <1>7 DEF InOrder, S, Bit
<1>13. \A x \in T : BitAt(o, c, x)[1] <= r
  BY <1>4, <1>5, <1>6, <1>12
<1>14. ASSUME NEW x \in T, NEW y \in T, Before(x, y), BitAt(o, c, x) # Lost, BitAt(o, c, y) # Lost
       PROVE  Before(BitAt(o, c, x), BitAt(o, c, y))
  <2>1. CASE x \in S /\ y \in S
    <3>1. BitAt(o, c, x) = BitAt(o, b, x) /\ BitAt(o, c, y) = BitAt(o, b, y)
      BY <1>5, <2>1
    <3>2. Before(x, y) /\ BitAt(o, b, x) # Lost /\ BitAt(o, b, y) # Lost =>
              Before(BitAt(o, b, x), BitAt(o, b, y))
      BY <2>1 DEF InOrder, S
    <3> QED
      BY <1>14, <3>1, <3>2
  <2>2. CASE x \in S /\ y \in N
    <3>1. BitAt(o, c, x)[1] < r /\ BitAt(o, c, y)[1] = r
      BY <1>5, <1>6, <1>12, <1>14, <2>2
    <3> QED
      BY <3>1 DEF Before
  <2>3. CASE x \in N /\ y \in S
    <3>1. x[1] = m + 1 /\ y[1] \in Nat /\ y[1] <= m + 1 /\ (y[1] = m + 1 => y[2] <= k)
          /\ x[2] \in k + 1 .. k + Len(d) /\ y[2] \in Nat
      BY <1>6, <1>7, <2>3
    <3>2. ~Before(x, y)
      BY <1>1, <3>1 DEF Before
    <3> QED
      BY <1>14, <3>2
  <2>4. CASE x \in N /\ y \in N
    <3>1. /\ x[1] = m + 1 /\ x[2] \in k + 1 .. k + Len(d) /\ x[2] - k \in DOMAIN d
          /\ y[1] = m + 1 /\ y[2] \in k + 1 .. k + Len(d) /\ y[2] - k \in DOMAIN d
          /\ BitAt(o, c, x) = d[x[2] - k] /\ BitAt(o, c, y) = d[y[2] - k]
      BY <1>6, <2>4
    <3>2. x[2] < y[2]
      BY <1>1, <1>14, <3>1 DEF Before
    <3>3. x[2] - k < y[2] - k
      <4>1. x[2] \in Int /\ y[2] \in Int /\ k \in Nat
        BY <1>1, <3>1
      <4> QED
        BY ONLY <3>2, <4>1
    <3> QED
      BY <3>1, <3>3
  <2> QED
    BY <1>4, <2>1, <2>2, <2>3, <2>4
<1>15. InOrder(o, c, r, TRUE, h + Len(d))
  <2>1. \A x \in T : /\ BitAt(o, c, x)[1] <= r
                     /\ BitAt(o, c, x)[1] = r => TRUE \/ BitAt(o, c, x) = Lost
    BY <1>13
  <2>2. \A x, y \in T : Before(x, y) /\ BitAt(o, c, x) # Lost /\ BitAt(o, c, y) # Lost =>
                           Before(BitAt(o, c, x), BitAt(o, c, y))
    BY <1>14
  <2> QED
    <3>1. (h + Len(d)) - Cardinality(T) \in 0 .. (Byte - 1) * Len(o)
      BY ONLY <1>11 DEF m
    <3> QED
      BY ONLY <1>10, <2>1, <2>2, <3>1 DEF InOrder, T
<1> QED
  BY <1>15 DEF c

LEMMA KeyTaken ==
    ASSUME NEW o \in Seq(NewKey), NEW b \in Seq(Bit), NEW r \in Nat, NEW h \in Nat,
           NEW id \in Nat, InOrder(o, b, r, TRUE, h)
    PROVE  InOrder(Append(o, [id |-> id, bits |-> Cut(b)]), <<>>, r, TRUE, h)
<1> DEFINE m == Len(o)
           k == Len(b)
           l == Len(Cut(b))
           p == Append(o, [id |-> id, bits |-> Cut(b)])
           N == {m + 1} \X (l + 1 .. k)
           S == Spots(o, b)
           T == Spots(p, <<>>)
<1>1. Cut(b) \in Seq(Bit) /\ l \in Nat /\ k \in Nat /\ m \in Nat /\ l <= k /\ k - l <= Byte - 1
      /\ \A i \in 1 .. l : Cut(b)[i] = b[i]
  <2>1. Cut(b) \in Seq(Bit) /\ l <= k /\ k - l <= Byte - 1 /\ \A i \in 1 .. l : Cut(b)[i] = b[i]
    BY CutBits
  <2>2. l \in Nat /\ k \in Nat /\ m \in Nat
    BY <2>1
  <2> QED
    BY <2>1, <2>2
<1>2. p \in Seq(NewKey) /\ Len(p) = m + 1 /\ (\A i \in 1 .. m : p[i] = o[i])
      /\ p[m + 1].bits = Cut(b) /\ <<>> \in Seq(Bit)
  <2> DEFINE e == [id |-> id, bits |-> Cut(b)]
  <2>1. e \in NewKey /\ e.bits = Cut(b)
    BY <1>1 DEF NewKey
  <2>2. p = Append(o, e)
    OBVIOUS
  <2> HIDE DEF e, p
  <2>3. p \in Seq(NewKey) /\ Len(p) = m + 1 /\ p[m + 1] = e
    BY <2>1, <2>2
  <2>4. \A i \in 1 .. m : p[i] = o[i]
    BY <2>1, <2>2
  <2> QED
    BY <2>1, <2>3, <2>4
<1> HIDE DEF p
<1>20. /\ \A x : x \in T <=>
            /\ x = <<x[1], x[2]>> /\ x[1] \in 1 .. m + 2
            /\ x[2] \in 1 .. Len(Line(p, <<>>, x[1]))
  <2>1. Len(p) + 1 = m + 2
    BY <1>1, <1>2
  <2>2. \A x : x \in T <=>
            /\ x = <<x[1], x[2]>> /\ x[1] \in 1 .. Len(p) + 1
            /\ x[2] \in 1 .. Len(Line(p, <<>>, x[1]))
    BY <1>2, SpotsAre
  <2> HIDE DEF T, m
  <2> QED
    BY <2>1, <2>2
<1>3. /\ \A n \in 1 .. m : Line(p, <<>>, n) = Line(o, b, n)
      /\ Line(p, <<>>, m + 1) = Cut(b) /\ Line(p, <<>>, m + 2) = <<>> /\ Line(o, b, m + 1) = b
  BY <1>1, <1>2 DEF Line
<1>4. T = S \ N /\ N \subseteq S
  <2>1. ASSUME NEW x PROVE (x \in T <=> x \in S /\ x \notin N) /\ (x \in N => x \in S)
    <3>1. x \in T <=> /\ x = <<x[1], x[2]>> /\ x[1] \in 1 .. m + 2
                       /\ x[2] \in 1 .. Len(Line(p, <<>>, x[1]))
      BY <1>20
    <3>2. x \in S <=> /\ x = <<x[1], x[2]>> /\ x[1] \in 1 .. m + 1
                       /\ x[2] \in 1 .. Len(Line(o, b, x[1]))
      BY <1>1, SpotsAre
    <3>3. x \in N <=> x = <<x[1], x[2]>> /\ x[1] = m + 1 /\ x[2] \in l + 1 .. k
      OBVIOUS
    <3>4. Len(<<>>) = 0
      OBVIOUS
    <3> HIDE DEF S, T, N
    <3>5. CASE x[1] = m + 1
      BY <1>1, <1>3, <3>1, <3>2, <3>3, <3>5
    <3>6. CASE x[1] = m + 2
      BY <1>1, <1>3, <3>1, <3>2, <3>3, <3>4, <3>6
    <3>7. CASE x[1] # m + 1 /\ x[1] # m + 2
      <4>1. /\ x[1] \in 1 .. m + 2 <=> x[1] \in 1 .. m
            /\ x[1] \in 1 .. m + 1 <=> x[1] \in 1 .. m
        BY ONLY <1>1, <3>7
      <4>2. x[1] \in 1 .. m => Line(p, <<>>, x[1]) = Line(o, b, x[1])
        BY <1>3
      <4> QED
        BY ONLY <3>1, <3>2, <3>3, <3>7, <4>1, <4>2
    <3> QED
      BY <3>5, <3>6, <3>7
  <2> HIDE DEF S, T, N
  <2> QED
    BY <2>1
<1>5. \A x \in T : BitAt(p, <<>>, x) = BitAt(o, b, x)
  <2> SUFFICES ASSUME NEW x \in T PROVE BitAt(p, <<>>, x) = BitAt(o, b, x)
    OBVIOUS
  <2>1. x[1] \in 1 .. m + 2 /\ x[2] \in 1 .. Len(Line(p, <<>>, x[1]))
    BY <1>20
  <2>2. CASE x[1] = m + 1
    BY <1>1, <1>3, <2>1, <2>2 DEF BitAt
  <2>3. CASE x[1] = m + 2
    BY <1>1, <1>3, <2>1, <2>3 DEF BitAt
  <2>4. CASE x[1] # m + 1 /\ x[1] # m + 2
    BY <1>1, <1>3, <2>1, <2>4 DEF BitAt
  <2> QED
    BY <2>2, <2>3, <2>4
<1>6. Cardinality(N) = k - l
  BY <1>1, Stretch
<1> HIDE DEF S, T, N, m, k, l
<1>7. IsFiniteSet(S) /\ Cardinality(S) \in Nat /\ h - Cardinality(S) \in 0 .. (Byte - 1) * m
  BY FS_CardinalityType DEF InOrder, S, m
<1>8. IsFiniteSet(T) /\ Cardinality(T) = Cardinality(S) - (k - l)
  <2>1. S \cap N = N
    BY <1>4
  <2>2. IsFiniteSet(S \ N) /\ Cardinality(S \ N) = Cardinality(S) - Cardinality(S \cap N)
    BY <1>7, FS_Difference
  <2> QED
    BY <1>4, <1>6, <2>1, <2>2
<1>9. h - Cardinality(T) \in 0 .. (Byte - 1) * (m + 1)
  <2>1. Byte - 1 \in Nat
    BY ByteAssumption
  <2>2. (Byte - 1) * (m + 1) = (Byte - 1) * m + (Byte - 1) /\ (Byte - 1) * m \in Nat
    BY <1>1, <2>1
  <2> HIDE DEF m
  <2> QED
    BY <1>1, <1>7, <1>8, <2>1, <2>2
<1>10. \A x \in T : x \in S
  BY <1>4
<1>11. /\ \A x \in T : BitAt(p, <<>>, x)[1] <= r
       /\ \A x, y \in T :
            Before(x, y) /\ BitAt(p, <<>>, x) # Lost /\ BitAt(p, <<>>, y) # Lost =>
                Before(BitAt(p, <<>>, x), BitAt(p, <<>>, y))
  BY <1>5, <1>10 DEF InOrder, S
<1> QED
  BY <1>2, <1>8, <1>9, <1>11 DEF InOrder, T, p, m

LEMMA BitsLost ==
    ASSUME NEW o \in Seq(NewKey), NEW b \in Seq(Bit), NEW c \in Seq(Bit), Len(c) = Len(b),
           \A i \in 1 .. Len(b) : c[i] \in {b[i], Lost},
           NEW r \in Nat, NEW z \in BOOLEAN, NEW h \in Nat, InOrder(o, b, r, z, h)
    PROVE  InOrder(o, c, r, z, h)
<1> DEFINE S == Spots(o, b)
<1>1. ASSUME NEW n \in 1 .. Len(o) + 1 PROVE Len(Line(o, c, n)) = Len(Line(o, b, n))
  BY DEF Line
<1>2. Spots(o, c) = S
  <2>1. \A x : x \in Spots(o, c) <=> x \in S
    BY <1>1, SpotsAre
  <2> HIDE DEF S
  <2> QED
    BY <2>1
<1>3. ASSUME NEW x \in S PROVE BitAt(o, c, x) \in {BitAt(o, b, x), Lost}
  <2>1. x[1] \in 1 .. Len(o) + 1 /\ x[2] \in 1 .. Len(Line(o, b, x[1]))
    BY SpotsAre
  <2>2. CASE x[1] <= Len(o)
    BY <2>2 DEF BitAt, Line
  <2>3. CASE ~(x[1] <= Len(o))
    BY <2>1, <2>3 DEF BitAt, Line
  <2> QED
    BY <2>2, <2>3
<1>4. Lost[1] = 0
  BY DEF Lost
<1>5. ASSUME NEW x \in S
      PROVE  BitAt(o, c, x)[1] <= r /\ (BitAt(o, c, x)[1] = r => z \/ BitAt(o, c, x) = Lost)
  BY <1>3, <1>4 DEF InOrder
<1>6. ASSUME NEW x \in S, NEW y \in S, Before(x, y), BitAt(o, c, x) # Lost, BitAt(o, c, y) # Lost
      PROVE  Before(BitAt(o, c, x), BitAt(o, c, y))
  <2>1. BitAt(o, c, x) = BitAt(o, b, x) /\ BitAt(o, c, y) = BitAt(o, b, y)
    BY <1>3, <1>6
  <2> QED
    BY <1>6, <2>1 DEF InOrder
<1> QED
  BY <1>2, <1>5, <1>6 DEF InOrder

(* The next raw key has not been sifted yet. *)
LEMMA NextRaw ==
    ASSUME NEW o \in Seq(NewKey), NEW b \in Seq(Bit), NEW r \in Nat, NEW z \in BOOLEAN,
           NEW h \in Nat, InOrder(o, b, r, z, h)
    PROVE  InOrder(o, b, r + 1, FALSE, h)
<1>1. ASSUME NEW x \in Spots(o, b) PROVE BitAt(o, b, x)[1] <= r + 1 /\ BitAt(o, b, x)[1] # r + 1
  <2>1. BitAt(o, b, x) \in Bit /\ BitAt(o, b, x)[1] <= r
    BY SpotsAre DEF InOrder
  <2>2. BitAt(o, b, x)[1] \in Nat
    BY <2>1 DEF Bit
  <2> QED
    BY <2>1, <2>2
<1> QED
  BY <1>1 DEF InOrder

LEMMA InitOrdered == Init => \A s \in Side : Ordered(s)
<1> SUFFICES ASSUME Init, NEW s \in Side PROVE InOrder(<<>>, <<>>, 0, Sifted(s), 0)
  <2>1. ASSUME Init, NEW s \in Side
        PROVE  out[s] = <<>> /\ bits[s] = <<>> /\ raw.id = 0 /\ sifted[s] = 0
    BY <2>1 DEF Init
  <2> QED
    BY <2>1 DEF Ordered
<1>1. Spots(<<>>, <<>>) = {}
  <2>1. \A x : x \notin Spots(<<>>, <<>>)
    <3> SUFFICES ASSUME NEW n \in 1 .. Len(<<>>) + 1 PROVE DOMAIN Line(<<>>, <<>>, n) = {}
      BY DEF Spots
    <3> QED
      BY DEF Line
  <2> QED
    BY <2>1
<1>2. IsFiniteSet({}) /\ Cardinality({}) = 0
  BY FS_EmptySet
<1>3. 0 \in 0 .. (Byte - 1) * Len(<<>>)
  BY ByteAssumption
<1>4. 0 - Cardinality(Spots(<<>>, <<>>)) = 0
  <2>1. Cardinality(Spots(<<>>, <<>>)) = 0
    BY <1>1, <1>2
  <2> HIDE DEF Spots
  <2> QED
    BY <2>1
<1>5. \A x : x \notin Spots(<<>>, <<>>)
  BY <1>1
<1> QED
  BY <1>1, <1>2, <1>3, <1>4, <1>5 DEF InOrder

LEMMA StepOrdered ==
    ASSUME Typed, Talk, NEW s \in Side, Ordered(s), Next
    PROVE  Ordered(s)'
<1> USE Sides
<1> DEFINE S == Sifted(s)
<1>0. /\ out[s] \in Seq(NewKey) /\ bits[s] \in Seq(Bit) /\ raw.id \in Nat /\ sifted[s] \in Nat
      /\ keyId[s] \in Nat /\ Sifted(s) \in BOOLEAN
      /\ DOMAIN at = Side /\ DOMAIN bits = Side /\ DOMAIN out = Side /\ DOMAIN sifted = Side
      /\ InOrder(out[s], bits[s], raw.id, Sifted(s), sifted[s])
  BY DEF Typed, Ordered, Sifted
<1>1. ASSUME NEW t \in Tables, NEW u \in Tables, Pick(t, u) PROVE Ordered(s)'
  <2>1. UNCHANGED <<out, bits, sifted>> /\ raw'.id = raw.id + 1 /\ Sifted(s)' = FALSE
    BY <1>1 DEF Pick, Sifted
  <2>2. InOrder(out[s], bits[s], raw.id + 1, FALSE, sifted[s])
    BY <1>0, NextRaw
  <2> QED
    BY <2>1, <2>2 DEF Ordered
(* Nothing that counts here changes. *)
<1>2. ASSUME UNCHANGED <<out, bits, raw, sifted>>, Sifted(s)' = Sifted(s) PROVE Ordered(s)'
  BY <1>0, <1>2 DEF Ordered
(* The side sifts the raw key in hand. *)
<1>3. ASSUME raw.bases["alice"] \in Seq({"diagonal", "rectilinear", "invalid"}), Sift(s, Agreed),
             UNCHANGED <<out, raw>>, Sifted(s) = FALSE, Sifted(s)' = TRUE
      PROVE  Ordered(s)'
  <2>1. bits'[s] = bits[s] \o Fresh /\ sifted'[s] = sifted[s] + Len(Fresh)
    BY <1>0, <1>3, SiftAdds
  <2>2. /\ Fresh \in Seq(Bit) /\ \A i \in DOMAIN Fresh : Fresh[i][1] = raw.id
        /\ \A i, j \in DOMAIN Fresh : i < j => Before(Fresh[i], Fresh[j])
    BY <1>0, <1>3, FreshBits
  <2>3. InOrder(out[s], bits[s] \o Fresh, raw.id, TRUE, sifted[s] + Len(Fresh))
    BY <1>0, <1>3, <2>2, MoreBits
  <2> QED
    BY <1>3, <2>1, <2>3 DEF Ordered
(* Bits are lost. *)
<1>4. ASSUME NEW o \in Side, NEW n \in Lengths, SetRawkeyLength(o, n),
             UNCHANGED <<out, raw, sifted>>, Sifted(s)' = Sifted(s)
      PROVE  Ordered(s)'
  <2>1. /\ bits' \in [Side -> Seq(Bit)] /\ Len(bits'[s]) = Len(bits[s])
        /\ \A i \in 1 .. Len(bits[s]) : bits'[s][i] \in {bits[s][i], Lost}
    <3>1. /\ bits' \in [Side -> Seq(Bit)] /\ bits' = [bits EXCEPT ![o] = bits'[o]]
          /\ Len(bits'[o]) = Len(bits[o])
          /\ \A i \in 1 .. Len(bits[o]) : bits'[o][i] \in {bits[o][i], Lost}
      BY <1>4, ResizedTyped
    <3>2. s # o => bits'[s] = bits[s]
      BY <1>0, <3>1
    <3> QED
      BY <3>1, <3>2
  <2>2. bits'[s] \in Seq(Bit)
    BY <2>1
  <2>3. InOrder(out[s], bits'[s], raw.id, Sifted(s), sifted[s])
    BY <1>0, <2>1, <2>2, BitsLost
  <2> QED
    BY <1>4, <2>3 DEF Ordered
<1>5. CASE AliceHeader
  BY <1>0, <1>2, <1>5 DEF AliceHeader, Sifted
<1>6. CASE BobHeader
  <2>1. Head(net["bob"]) \in Lengths
    BY <1>6 DEF Talk, BobHeader
  <2>2. Sifted(s)' = Sifted(s)
    BY <1>0, <1>6 DEF BobHeader, Sifted
  <2> QED
    BY <1>4, <1>6, <2>1, <2>2 DEF BobHeader
<1>7. CASE AliceBases
  <2>1. net["alice"] = <<raw.bases["bob"]>>
        /\ raw.bases["alice"] \in Seq({"diagonal", "rectilinear", "invalid"})
    BY <1>7 DEF Talk, AliceBases
  <2>2. Head(net["alice"]) = raw.bases["bob"]
    BY <2>1
  <2>3. Sift("alice", Agreed) /\ UNCHANGED <<out, raw>>
    BY <1>7, <2>2 DEF AliceBases, Agreed
  <2>4. CASE s = "alice"
    <3>1. Sifted(s) = FALSE /\ Sifted(s)' = TRUE
      BY <1>0, <1>7, <2>4 DEF AliceBases, Sifted
    <3> QED
      BY <1>3, <2>1, <2>3, <2>4, <3>1
  <2>5. CASE s = "bob"
    <3>1. Sifted(s)' = Sifted(s)
      BY <1>0, <1>7, <2>5 DEF AliceBases, Sifted
    <3>2. bits'[s] = bits[s] /\ sifted'[s] = sifted[s]
      BY <1>0, <2>3, <2>5 DEF Sift
    <3> QED
      BY <1>0, <2>3, <3>1, <3>2 DEF Ordered
  <2> QED
    BY <2>4, <2>5
<1>8. CASE BobMask
  <2>1. net["bob"] = <<Agreed>>
        /\ raw.bases["alice"] \in Seq({"diagonal", "rectilinear", "invalid"})
    BY <1>8 DEF Talk, BobMask
  <2>2. Head(net["bob"]) = Agreed
    BY <2>1
  <2>3. Sift("bob", Agreed) /\ UNCHANGED <<out, raw>>
    BY <1>8, <2>2 DEF BobMask
  <2>4. CASE s = "bob"
    <3>1. Sifted(s) = FALSE /\ Sifted(s)' = TRUE
      BY <1>0, <1>8, <2>4 DEF BobMask, Sifted
    <3> QED
      BY <1>3, <2>1, <2>3, <2>4, <3>1
  <2>5. CASE s = "alice"
    <3>1. Sifted(s)' = Sifted(s)
      BY <1>0, <1>8, <2>5 DEF BobMask, Sifted
    <3>2. bits'[s] = bits[s] /\ sifted'[s] = sifted[s]
      BY <1>0, <2>3, <2>5 DEF Sift
    <3> QED
      BY <1>0, <2>3, <3>1, <3>2 DEF Ordered
  <2> QED
    BY <2>4, <2>5
<1>9. ASSUME NEW o \in Side, Check(o) PROVE Ordered(s)'
  <2>1. /\ bits' = [bits EXCEPT ![o] = BitsAfter(o)] /\ out' = [out EXCEPT ![o] = OutAfter(o)]
        /\ Collected(o) = bits[o]
    BY <1>9, CheckIsAfter DEF Check, Collected
  <2>2. Sifted(s)' = Sifted(s) /\ (s = o => Sifted(s) = TRUE) /\ UNCHANGED <<raw, sifted>>
    BY <1>0, <1>9 DEF Check, Sifted
  <2>3. CASE s = o /\ Enough(o)
    <3>1. bits'[s] = <<>> /\ out'[s] = Append(out[s], [id |-> keyId[s], bits |-> Cut(bits[s])])
      BY <1>0, <2>1, <2>3 DEF BitsAfter, OutAfter
    <3>2. InOrder(Append(out[s], [id |-> keyId[s], bits |-> Cut(bits[s])]), <<>>, raw.id, TRUE,
                  sifted[s])
      BY <1>0, <2>2, <2>3, KeyTaken
    <3> QED
      BY <2>2, <2>3, <3>1, <3>2 DEF Ordered
  <2>4. CASE s # o \/ ~Enough(o)
    <3>1. bits'[s] = bits[s] /\ out'[s] = out[s]
      BY <1>0, <2>1, <2>4 DEF BitsAfter, OutAfter
    <3> QED
      BY <1>0, <2>2, <3>1 DEF Ordered
  <2> QED
    BY <2>3, <2>4
<1>10. ASSUME NEW o \in Side, NEW n \in Lengths, Set(o, n) PROVE Ordered(s)'
  <2>1. Sifted(s)' = Sifted(s) /\ SetRawkeyLength(o, n) /\ UNCHANGED <<out, raw, sifted>>
    BY <1>10 DEF Set, Sifted
  <2> QED
    BY <1>4, <2>1
<1> QED
  BY <1>1, <1>5, <1>6, <1>7, <1>8, <1>9, <1>10 DEF Next, Worker

LEMMA OrderedOnce == ASSUME Typed, \A s \in Side : Ordered(s) PROVE EachBitOnce
<1> SUFFICES ASSUME NEW s \in Side
             PROVE  /\ \A x, y \in Places(s) :
                         LET b == Chunk(s, x[1])[x[2]]
                             c == Chunk(s, y[1])[y[2]]
                         IN  Before(x, y) /\ Lost \notin {b, c} => Before(b, c)
                    /\ sifted[s] - Cardinality(Places(s)) \in 0 .. (Byte - 1) * Len(out[s])
  BY DEF EachBitOnce
<1>1. \A n : Chunk(s, n) = Line(out[s], bits[s], n)
  BY DEF Chunk, Line
<1>2. Places(s) = Spots(out[s], bits[s])
  BY <1>1 DEF Places, Spots
<1>3. \A x : Chunk(s, x[1])[x[2]] = BitAt(out[s], bits[s], x)
  BY <1>1 DEF BitAt
<1> QED
  BY <1>2, <1>3 DEF Ordered, InOrder

(* Every sifted bit goes into one key, in order, and with each key less    *)
(* than a byte is dropped (qkd-sifting-bb84.cpp:340-375, 438-462).         *)
THEOREM EveryBitOnce == Spec => []EachBitOnce
<1>1. Init => OrderInv
  BY InitTyped, InitOrdered DEF OrderInv
<1>2. OrderInv /\ [Next]_vars => OrderInv'
  <2> SUFFICES ASSUME OrderInv, [Next]_vars PROVE OrderInv'
    OBVIOUS
  <2>1. CASE Next
    <3>1. Typed' /\ Talk'
      BY <2>1, StepTyped DEF OrderInv
    <3>2. \A s \in Side : Ordered(s)'
      BY <2>1, StepOrdered DEF OrderInv
    <3> QED
      BY <3>1, <3>2 DEF OrderInv
  <2>2. CASE UNCHANGED vars
    <3>1. Typed' /\ Talk'
      BY <2>2 DEF OrderInv, Typed, Talk, vars, Agreed
    <3>2. \A s \in Side : Ordered(s)'
      BY <2>2 DEF OrderInv, Ordered, Sifted, vars
    <3> QED
      BY <3>1, <3>2 DEF OrderInv
  <2> QED
    BY <2>1, <2>2
<1>3. OrderInv => EachBitOnce
  BY OrderedOnce DEF OrderInv
<1> QED
  BY <1>1, <1>2, <1>3, PTL DEF Spec

-----------------------------------------------------------------------------
(* The way of one key through estimation, confirmation and amplification.  *)

Stages == {"estimation", "estimate", "estimating", "correction", "confirmation", "confirm",
           "confirming", "amplification", "size", "sized", "final", "dropped"}

(* Where Alice and Bob are, while both have the key. *)
Pairs ==
    {<<"estimation", "estimation">>, <<"estimate", "estimate">>, <<"estimating", "estimate">>,
     <<"estimating", "correction">>, <<"correction", "correction">>,
     <<"confirmation", "confirmation">>, <<"confirm", "confirm">>, <<"confirming", "confirm">>,
     <<"confirming", "amplification">>, <<"amplification", "amplification">>,
     <<"size", "size">>, <<"size", "sized">>, <<"sized", "size">>, <<"sized", "sized">>,
     <<"final", "size">>, <<"final", "sized">>, <<"final", "final">>}

Shape ==
    /\ keyAt \in [Side -> Stages]
    /\ DOMAIN key = Side /\ DOMAIN keyNet = Side /\ DOMAIN verdict = Side

Together ==
    \/ <<keyAt["alice"], keyAt["bob"]>> \in Pairs
    \/ keyAt["alice"] = "dropped" /\ keyAt["bob"] # "final"
    \/ keyAt["bob"] = "dropped"

(* What is on its way to the two sides. *)
Carried ==
    /\ keyAt["bob"] \in {"estimate", "confirm"} \/ keyAt["alice"] = "confirm" => keyNet["alice"] = <<>>
    /\ keyAt["alice"] \in {"estimate", "confirm", "size", "sized"} => keyNet["bob"] = <<>>
    /\ keyAt["bob"] = "estimate" /\ keyNet["bob"] # <<>> => Head(keyNet["bob"]) = disclosed
    /\ keyAt["bob"] \in {"size", "sized"} /\ keyNet["bob"] # <<>> =>
         /\ keyAt["alice"] = "final"
         /\ Head(keyNet["bob"]).shift = key["alice"].bytes

(* How the two keys stand to each other. *)
KeysAgree ==
    LET pair == <<keyAt["alice"], keyAt["bob"]>>
    IN  /\ pair \in Pairs \ {<<"estimating", "correction">>, <<"final", "size">>,
                             <<"final", "sized">>} => key["alice"] = key["bob"]
        /\ pair = <<"estimating", "correction">> =>
             key["bob"] = Extracted(key["alice"], disclosed, beyond)
        /\ pair \in {<<"final", "size">>, <<"final", "sized">>} =>
             key["alice"] = Hash(key["bob"], key["alice"].bytes)

(* What the confirmation comes to. *)
Judged ==
    /\ keyAt["bob"] \in {"estimation", "estimate", "correction", "confirmation", "confirm"} =>
         verdict["alice"] = "none"
    /\ keyAt["bob"] = "confirm" /\ keyNet["bob"] # <<>> /\ ~Head(keyNet["bob"]).seen => missed \/ wrong = {}
    /\ keyAt["bob"] \in {"amplification", "size", "sized", "final"} => missed \/ wrong = {}
    /\ keyAt["alice"] = "confirming" /\ keyNet["alice"] # <<>> =>
         verdict["bob"] = IF Head(keyNet["alice"]).seen THEN "bad" ELSE "confirmed"
    /\ verdict["alice"] # "none" => verdict["bob"] = verdict["alice"]

KeyInv == Shape /\ Together /\ Carried /\ KeysAgree /\ Judged

-----------------------------------------------------------------------------
(* At the beginning both sides have the key and nothing is on its way. *)
LEMMA InitIInv == DistillInit => KeyInv
BY DEF DistillInit, KeyInv, Shape, Together, Carried, KeysAgree, Judged, Pairs, Stages, Side

-----------------------------------------------------------------------------
(* One lemma for each action of the worker threads. *)

LEMMA PickKeeps == KeyInv /\ TakeUp => KeyInv'
<1> SUFFICES ASSUME KeyInv, TakeUp PROVE KeyInv'
  OBVIOUS
<1>1. /\ key' = key /\ wrong' = wrong /\ verdict' = verdict /\ missed' = missed
      /\ disclosed' = disclosed /\ beyond' = beyond /\ keyNet' = [s \in Side |-> <<>>]
  BY DEF TakeUp
<1>2. \/ /\ keyAt = [s \in Side |-> "estimation"] /\ keyAt' = [s \in Side |-> "estimate"]
      \/ /\ keyAt = [s \in Side |-> "confirmation"] /\ keyAt' = [s \in Side |-> "confirm"]
      \/ /\ keyAt = [s \in Side |-> "amplification"] /\ keyAt' = [s \in Side |-> "size"]
  BY DEF TakeUp
<1>3. Shape' /\ Together' /\ Carried'
  BY <1>1, <1>2 DEF KeyInv, Shape, Together, Carried, Pairs, Stages, Side
<1>4. key["alice"] = key["bob"] /\ keyAt'["alice"] = keyAt'["bob"]
  BY <1>2 DEF KeyInv, KeysAgree, Pairs, Side
<1>5. KeysAgree'
  BY <1>1, <1>2, <1>4 DEF KeysAgree, Pairs, Side
<1>6. Judged'
  <2>1. keyAt'["bob"] = "confirm" => verdict["alice"] = "none"
    BY <1>2 DEF KeyInv, Judged, Side
  <2> QED
    BY <1>1, <1>2, <2>1 DEF KeyInv, Judged, Side
<1> QED
  BY <1>3, <1>5, <1>6 DEF KeyInv

LEMMA AliceDisclosesKeeps == KeyInv /\ AliceDiscloses => KeyInv'
BY DEF AliceDiscloses, tuned, KeyInv, Shape, Together, Carried, KeysAgree, Judged,
   Pairs, Stages, Side

LEMMA BobDisclosesKeeps == KeyInv /\ BobDiscloses => KeyInv'
BY DEF BobDiscloses, tuned, KeyInv, Shape, Together, Carried, KeysAgree, Judged, Pairs,
   Stages, Side

LEMMA AliceEstimatesKeeps == KeyInv /\ AliceEstimates => KeyInv'
BY DEF AliceEstimates, tuned, KeyInv, Shape, Together, Carried, KeysAgree, Judged,
   Pairs, Stages, Side

LEMMA CorrectKeeps == KeyInv /\ Correct => KeyInv'
BY DEF Correct, tuned, KeyInv, Shape, Together, Carried, KeysAgree, Judged, Pairs,
   Stages, Side

LEMMA AliceAsksKeeps == KeyInv /\ AliceAsks => KeyInv'
<1> SUFFICES ASSUME KeyInv, AliceAsks PROVE KeyInv'
  OBVIOUS
<1>1. PICK seen \in BOOLEAN :
          /\ keyNet' = [keyNet EXCEPT !["bob"] = <<[rounds |-> rounds["alice"], seen |-> seen]>>]
          /\ missed' = (wrong # {} /\ ~seen)
  BY DEF AliceAsks
<1>2. /\ keyAt["alice"] = "confirm" /\ keyAt' = [keyAt EXCEPT !["alice"] = "confirming"]
      /\ key' = key /\ wrong' = wrong /\ verdict' = verdict
      /\ disclosed' = disclosed /\ beyond' = beyond
  BY DEF AliceAsks, tuned
(* Bob is still to answer, or has dropped the key. *)
<1>3. keyAt["bob"] \in {"confirm", "dropped"}
  BY <1>2 DEF KeyInv, Together, Pairs
<1>4. /\ Head(keyNet'["bob"]).seen = seen
      /\ keyNet'["alice"] = keyNet["alice"] /\ DOMAIN keyNet' = Side
  BY <1>1 DEF KeyInv, Shape, Side
<1>5. Shape' /\ Together' /\ Carried' /\ KeysAgree'
  BY <1>1, <1>2, <1>3, <1>4
     DEF KeyInv, Shape, Together, Carried, KeysAgree, Pairs, Stages, Side
<1>6. Judged'
  BY <1>1, <1>2, <1>3, <1>4 DEF KeyInv, Shape, Judged, Carried, Side
<1> QED
  BY <1>5, <1>6 DEF KeyInv

LEMMA BobConfirmsKeeps == KeyInv /\ BobConfirms => KeyInv'
BY DEF BobConfirms, Judge, KeyInv, Shape, Together, Carried, KeysAgree, Judged,
   Pairs, Stages, Side

LEMMA AliceConfirmsKeeps == KeyInv /\ AliceConfirms => KeyInv'
BY DEF AliceConfirms, Judge, tuned, KeyInv, Shape, Together, Carried, KeysAgree,
   Judged, Pairs, Stages, Side

LEMMA ReadSettingKeeps == ASSUME NEW s \in Side PROVE KeyInv /\ ReadSetting(s) => KeyInv'
BY DEF ReadSetting, tuned, KeyInv, Shape, Together, Carried, KeysAgree, Judged,
   Pairs, Stages, Side

LEMMA SizedKeeps == ASSUME NEW s \in Side PROVE KeyInv /\ Sized(s) => KeyInv'
BY DEF Sized, tuned, KeyInv, Shape, Together, Carried, KeysAgree, Judged, Pairs,
   Stages, Side

LEMMA AliceAmplifiesKeeps == KeyInv /\ AliceAmplifies => KeyInv'
BY DEF AliceAmplifies, tuned, Hash, KeyInv, Shape, Together, Carried, KeysAgree,
   Judged, Pairs, Stages, Side

LEMMA BobAmplifiesKeeps == KeyInv /\ BobAmplifies => KeyInv'
BY DEF BobAmplifies, tuned, Hash, KeyInv, Shape, Together, Carried, KeysAgree,
   Judged, Pairs, Stages, Side

(* Failures and clients. *)
LEMMA FailKeeps == ASSUME NEW s \in Side PROVE KeyInv /\ Fail(s) => KeyInv'
BY DEF Fail, KeyInv, Shape, Together, Carried, KeysAgree, Judged, Pairs, Stages, Side

LEMMA ClientsKeep ==
    ASSUME NEW s \in Side PROVE KeyInv /\ (SetReduction(s) \/ SetRounds(s)) => KeyInv'
BY DEF SetReduction, SetRounds, KeyInv, Shape, Together, Carried, KeysAgree, Judged, Pairs,
   Stages, Side

LEMMA StutterKeeps == KeyInv /\ UNCHANGED distillVars => KeyInv'
BY DEF distillVars, KeyInv, Shape, Together, Carried, KeysAgree, Judged, Pairs, Stages, Side

-----------------------------------------------------------------------------
LEMMA NextKeeps == KeyInv /\ [DistillNext]_distillVars => KeyInv'
<1> SUFFICES ASSUME KeyInv, [DistillNext]_distillVars PROVE KeyInv'
  OBVIOUS
<1>1. CASE DistillWorker
  BY <1>1, PickKeeps, CorrectKeeps, AliceDisclosesKeeps, BobDisclosesKeeps,
     AliceEstimatesKeeps, AliceAsksKeeps, BobConfirmsKeeps, AliceConfirmsKeeps,
     AliceAmplifiesKeeps, BobAmplifiesKeeps, ReadSettingKeeps, SizedKeeps DEF DistillWorker
<1>2. CASE \E s \in Side : Fail(s) \/ SetReduction(s) \/ SetRounds(s)
  BY <1>2, FailKeeps, ClientsKeep
<1>3. CASE UNCHANGED distillVars
  BY <1>3, StutterKeeps
<1> QED
  BY <1>1, <1>2, <1>3 DEF DistillNext

(* Of two final keys the invariant says that they are equal, and that no   *)
(* bit was wrong when nothing was missed; the other conjuncts are those of *)
(* Together and Judged.                                                    *)
LEMMA FinalKeyIsOne == KeyInv => OneFinalKey
<1> SUFFICES ASSUME KeyInv PROVE OneFinalKey
  OBVIOUS
<1>1. verdict["alice"] # "none" => verdict["bob"] = verdict["alice"]
  BY DEF KeyInv, Judged
<1>2. keyAt["bob"] = "final" => keyAt["alice"] = "final"
  BY DEF KeyInv, Together, Pairs
<1>3. ASSUME keyAt = [s \in Side |-> "final"], ~missed
      PROVE  /\ key["alice"] = key["bob"]
             /\ ToSet(key["alice"].of) \cap wrong = {}
  <2>1. keyAt["alice"] = "final" /\ keyAt["bob"] = "final"
    BY <1>3 DEF Side
  <2>2. key["alice"] = key["bob"]
    BY <2>1 DEF KeyInv, KeysAgree, Pairs
  <2>3. wrong = {}
    BY <1>3, <2>1 DEF KeyInv, Judged
  <2> QED
    BY <2>2, <2>3
<1> QED
  BY <1>1, <1>2, <1>3 DEF OneFinalKey

(* A key that is final at Bob is final at Alice; a key final on both sides *)
(* is the same, without a wrong bit unless the parities missed it; and     *)
(* Bob's verdict is Alice's: for all sizes, settings, rounds, errors,      *)
(* failures and calls of clients.                                          *)
THEOREM SpecOneFinalKey == DistillSpec => []OneFinalKey
<1>1. KeyInv /\ [DistillNext]_distillVars => KeyInv'
  BY NextKeeps
<1> QED
  BY InitIInv, <1>1, FinalKeyIsOne, PTL DEF DistillSpec

-----------------------------------------------------------------------------
(* Disclosed bits.  Before a side discards them it has the key as it came, *)
(* and afterwards none of them.                                            *)
Came == {"estimation", "estimate", "estimating"}
Estimated == {"correction", "confirmation"}

Discarded ==
    /\ disclosed \subseteq Bits
    /\ \A s \in Side :
         /\ keyAt[s] \in Came => key[s] = [i \in Bits |-> i]
         /\ keyAt[s] \in Estimated => disclosed \cap ToSet(key[s]) = {}

(* What is left of the key that came has none of the bits disclosed, with  *)
(* the slip at the end of the list or without.                             *)
LEMMA ExtractedWithout ==
    ASSUME NEW D \in SUBSET Bits, NEW past
    PROVE  D \cap ToSet(Extracted([i \in Bits |-> i], D, past)) = {}
<1> DEFINE k == [i \in Bits |-> i]
           n == Cardinality(D)
           over == IF past /\ D = 1 .. n THEN {n + 1} ELSE {}
           Kept == DOMAIN k \ (D \cup over)
           nth(j) == CHOOSE i \in Kept : Cardinality({h \in Kept : h <= i}) = j
           left == [j \in 1 .. Len(k) - n |->
                      IF j <= Cardinality(Kept) THEN k[nth(j)] ELSE Zero]
           Rest == (Bits \ D) \cup {Zero}
           pad == [i \in 1 .. ((Byte - (Len(left) % Byte)) % Byte) |-> Zero]
<1>1. Extracted(k, D, past) = left \o pad
  BY DEF Extracted, Padded
<1>2. Kept \subseteq Bits \ D
  OBVIOUS
<1>3. /\ Byte * Bytes \in Nat /\ Len(k) = Byte * Bytes /\ Bits \subseteq Int
      /\ n \in Nat /\ n <= Len(k)
  <2>1. Byte * Bytes \in Nat
    BY SizeAssumption
  <2>2. Len(k) = Byte * Bytes /\ Bits \subseteq Int
    BY <2>1 DEF Bits
  <2>3. IsFiniteSet(Bits) /\ Cardinality(Bits) = Byte * Bytes
    <3> DEFINE m == Byte * Bytes
    <3>1. m \in Nat
      BY <2>1
    <3> HIDE DEF m
    <3>2. IsFiniteSet(1 .. m) /\ Cardinality(1 .. m) = m
      BY <3>1, FS_Interval
    <3> QED
      BY <3>2 DEF Bits, m
  <2>4. IsFiniteSet(D) /\ Cardinality(D) \in Nat /\ Cardinality(D) <= Cardinality(Bits)
    BY <2>3, FS_Subset, FS_CardinalityType
  <2> QED
    BY <2>1, <2>2, <2>3, <2>4
<1>4. \A j \in 1 .. Cardinality(Kept) : nth(j) \in Kept
  <2> SUFFICES ASSUME NEW j \in 1 .. Cardinality(Kept) PROVE nth(j) \in Kept
    OBVIOUS
  <2> HIDE DEF Kept
  <2>1. IsFiniteSet(Kept) /\ Kept \in SUBSET Int
    <3>1. IsFiniteSet(Bits)
      BY <1>3, FS_Interval DEF Bits
    <3> QED
      BY <1>2, <1>3, <3>1, FS_Subset
  <2>2. \E i \in Kept : Cardinality({h \in Kept : h <= i}) = j
    BY <2>1, Nth
  <2> QED
    BY <2>2
<1>5. Cardinality(Kept) \in Nat
  <2>1. IsFiniteSet(Bits)
    BY <1>3, FS_Interval DEF Bits
  <2> HIDE DEF Kept
  <2> QED
    BY <1>2, <2>1, FS_Subset, FS_CardinalityType
<1>6. left \in Seq(Rest)
  <2>1. \A j \in 1 .. Len(k) - n : left[j] \in Rest
    <3> SUFFICES ASSUME NEW j \in 1 .. Len(k) - n PROVE left[j] \in Rest
      OBVIOUS
    <3>1. CASE j <= Cardinality(Kept)
      <4>1. j \in 1 .. Cardinality(Kept)
        BY <1>3, <1>5, <3>1
      <4>2. nth(j) \in Kept
        BY <1>4, <4>1
      <4> HIDE DEF nth, Kept
      <4> QED
        BY <1>2, <3>1, <4>2
    <3>2. CASE ~(j <= Cardinality(Kept))
      BY <3>2
    <3> QED
      BY <3>1, <3>2
  <2> DEFINE m == Len(k) - n
  <2>2. m \in Nat
    BY <1>3
  <2> HIDE DEF nth, Kept, m, Rest, k
  <2> QED
    BY <2>1, <2>2 DEF m
<1> HIDE DEF left, Kept, nth
<1>7. pad \in Seq(Rest)
  <2> DEFINE m == (Byte - (Len(left) % Byte)) % Byte
  <2>1. m \in Nat
    BY <1>6, SizeAssumption
  <2> HIDE DEF m
  <2>2. [i \in 1 .. m |-> Zero] \in Seq(Rest)
    BY <2>1
  <2> QED
    BY <2>2 DEF m
<1> HIDE DEF pad, Rest
<1>8. left \o pad \in Seq(Rest)
  BY <1>6, <1>7
<1>9. ToSet(left \o pad) \subseteq Rest
  BY <1>8 DEF ToSet
<1>10. Zero \notin Bits
  BY <1>3 DEF Bits, Zero
<1> QED
  BY <1>1, <1>9, <1>10 DEF Rest

(* A step that discloses and discards nothing.                             *)
LEMMA DiscardedStays ==
    ASSUME Discarded, disclosed' = disclosed,
           \A s \in Side :
              /\ keyAt'[s] \in Came => keyAt[s] \in Came /\ key'[s] = key[s]
              /\ keyAt'[s] \in Estimated => keyAt[s] \in Estimated /\ key'[s] = key[s]
    PROVE  Discarded'
BY DEF Discarded

LEMMA InitDiscarded == DistillInit => Discarded
BY DEF DistillInit, Discarded, Side, Came, Estimated

(* The three actions of the estimation, and the others.                    *)
LEMMA NextDiscarded ==
    ASSUME KeyInv, Discarded, [DistillNext]_distillVars
    PROVE  Discarded'
<1>0. /\ keyAt \in [Side -> Stages] /\ DOMAIN key = Side /\ "alice" \in Side /\ "bob" \in Side
      /\ \A s \in Side : s = "alice" \/ s = "bob"
  BY DEF KeyInv, Shape, Side
<1>1. CASE AliceDiscloses
  <2>1. /\ keyAt["alice"] = "estimate" /\ keyAt' = [keyAt EXCEPT !["alice"] = "estimating"]
        /\ key' = key /\ \E D \in SUBSET DOMAIN key["alice"] : disclosed' = D
    BY <1>1 DEF AliceDiscloses
  <2>2. key["alice"] = [i \in Bits |-> i]
    BY <1>0, <2>1 DEF Discarded, Came
  <2>3. disclosed' \subseteq Bits
    BY <2>1, <2>2
  <2>4. keyAt["bob"] \in {"estimate", "dropped"}
    BY <2>1 DEF KeyInv, Together, Pairs
  <2> QED
    BY <1>0, <2>1, <2>3, <2>4 DEF Discarded, Came, Estimated
<1>2. CASE BobDiscloses
  <2>1. /\ keyAt["bob"] = "estimate" /\ keyAt' = [keyAt EXCEPT !["bob"] = "correction"]
        /\ Head(keyNet["bob"]) = disclosed /\ disclosed' = disclosed
        /\ key' = [key EXCEPT !["bob"] = Extracted(@, Head(keyNet["bob"]), beyond)]
    BY <1>2 DEF BobDiscloses, KeyInv, Carried
  <2>2. key["bob"] = [i \in Bits |-> i] /\ disclosed \in SUBSET Bits
    BY <1>0, <2>1 DEF Discarded, Came
  <2>3. key'["bob"] = Extracted([i \in Bits |-> i], disclosed, beyond)
    BY <1>0, <2>1, <2>2
  <2>4. disclosed \cap ToSet(key'["bob"]) = {}
    BY <2>2, <2>3, ExtractedWithout
  <2>5. key'["alice"] = key["alice"] /\ keyAt'["alice"] = keyAt["alice"] /\ keyAt'["bob"] = "correction"
    BY <1>0, <2>1
  <2> QED
    BY <1>0, <2>1, <2>4, <2>5 DEF Discarded, Came, Estimated
<1>3. CASE AliceEstimates
  <2>1. /\ keyAt["alice"] = "estimating" /\ keyAt' = [keyAt EXCEPT !["alice"] = "correction"]
        /\ key' = [key EXCEPT !["alice"] = Extracted(@, disclosed, beyond)]
        /\ disclosed' = disclosed
    BY <1>3 DEF AliceEstimates
  <2>2. key["alice"] = [i \in Bits |-> i] /\ disclosed \in SUBSET Bits
    BY <1>0, <2>1 DEF Discarded, Came
  <2>3. key'["alice"] = Extracted([i \in Bits |-> i], disclosed, beyond)
    BY <1>0, <2>1, <2>2
  <2>4. disclosed \cap ToSet(key'["alice"]) = {}
    BY <2>2, <2>3, ExtractedWithout
  <2>5. key'["bob"] = key["bob"] /\ keyAt'["bob"] = keyAt["bob"] /\ keyAt'["alice"] = "correction"
    BY <1>0, <2>1
  <2> QED
    BY <1>0, <2>1, <2>4, <2>5 DEF Discarded, Came, Estimated
<1>4. ASSUME TakeUp \/ Correct \/ AliceAsks \/ BobConfirms \/ AliceConfirms PROVE Discarded'
  <2>1. key' = key /\ disclosed' = disclosed
    BY <1>4 DEF TakeUp, Correct, AliceAsks, BobConfirms, AliceConfirms
  <2>2. \A s \in Side : /\ keyAt'[s] \in Came => keyAt[s] \in Came
                        /\ keyAt'[s] \in Estimated => keyAt[s] \in Estimated
    BY <1>0, <1>4 DEF TakeUp, Correct, AliceAsks, BobConfirms,
       AliceConfirms, Judge, Came, Estimated
  <2> QED
    BY <2>1, <2>2, DiscardedStays
<1>5. ASSUME AliceAmplifies \/ BobAmplifies PROVE Discarded'
  <2>1. PICK s \in Side : /\ disclosed' = disclosed
                          /\ keyAt'[s] \in {"final", "dropped"}
                          /\ \A t \in Side \ {s} : keyAt'[t] = keyAt[t] /\ key'[t] = key[t]
    BY <1>0, <1>5 DEF AliceAmplifies, BobAmplifies
  <2> QED
    BY <2>1, DiscardedStays DEF Came, Estimated
<1>6. ASSUME NEW s \in Side, ReadSetting(s) \/ Sized(s) \/ Fail(s) \/ SetReduction(s) \/ SetRounds(s)
      PROVE  Discarded'
  <2>1. key' = key /\ disclosed' = disclosed
    BY <1>6 DEF ReadSetting, Sized, Fail, SetReduction, SetRounds
  <2>2. \A t \in Side : /\ keyAt'[t] \in Came => keyAt[t] \in Came
                        /\ keyAt'[t] \in Estimated => keyAt[t] \in Estimated
    BY <1>0, <1>6 DEF ReadSetting, Sized, Fail, SetReduction, SetRounds, Came,
       Estimated
  <2> QED
    BY <2>1, <2>2, DiscardedStays
<1>7. CASE UNCHANGED distillVars
  <2>1. UNCHANGED <<keyAt, key, disclosed>>
    BY <1>7 DEF distillVars
  <2> QED
    BY <2>1, DiscardedStays
<1> QED
  BY <1>1, <1>2, <1>3, <1>4, <1>5, <1>6, <1>7 DEF DistillNext, DistillWorker

(* After the estimation neither side has a disclosed bit in its key, and   *)
(* both have the same key: for all keys and all choices of positions       *)
(* (qkd-error-estimation.cpp:281-293, 384-396).                            *)
THEOREM SpecDisclosedGone == DistillSpec => []DisclosedGone
<1>1. KeyInv /\ Discarded => DisclosedGone
  <2> SUFFICES ASSUME KeyInv, Discarded PROVE DisclosedGone
    OBVIOUS
  <2>1. keyAt = [s \in Side |-> "correction"] => key["alice"] = key["bob"]
    <3>1. keyAt = [s \in Side |-> "correction"] =>
              keyAt["alice"] = "correction" /\ keyAt["bob"] = "correction"
      BY DEF Side
    <3> QED
      BY <3>1 DEF KeyInv, KeysAgree, Pairs
  <2> QED
    BY <2>1 DEF Discarded, DisclosedGone, Estimated
<1>2. KeyInv /\ [DistillNext]_distillVars => KeyInv'
  BY NextKeeps
<1> QED
  BY InitIInv, InitDiscarded, <1>1, <1>2, NextDiscarded, PTL DEF DistillSpec

-----------------------------------------------------------------------------
(* Resize. *)

(* Numbers that have 0 and the next of each are all. *)
LEMMA Counting ==
    ASSUME NEW n \in Nat, NEW C, 0 \in C, \A i \in 1 .. n : i - 1 \in C => i \in C
    PROVE  \A i \in 0 .. n : i \in C
<1> DEFINE D == {i \in 0 .. n : i \notin C}
           Less == OpToRel(<, Nat)
<1>1. SUFFICES ASSUME D # {} PROVE FALSE
  BY DEF D
<1>2. D \subseteq Nat
  OBVIOUS
<1>3. PICK i \in D : \A m \in D : ~(<<m, i>> \in Less)
  <2> HIDE DEF D
  <2> QED
    BY <1>1, <1>2, WFMin, NatLessThanWellFounded
<1>4. \A x, y \in Nat : x < y => <<x, y>> \in Less
  BY Zenon DEF OpToRel
<1>5. i \in 0 .. n /\ i \notin C /\ i # 0
  OBVIOUS
<1>6. i - 1 \in Nat /\ i - 1 < i /\ i - 1 \in 0 .. n /\ i \in 1 .. n /\ i \in Nat
  BY <1>5
<1>7. <<i - 1, i>> \in Less
  <2> HIDE DEF Less
  <2> QED
    BY <1>4, <1>6
<1>8. i - 1 \notin D
  BY <1>3, <1>7
<1> QED
  BY <1>5, <1>6, <1>8

(* What is computed in n steps, each by g from the one before. *)
Computed(f, S, b, n, g) ==
    f \in [0 .. n -> S] /\ f[0] = b /\ \A i \in 1 .. n : f[i] = g[f[i - 1]][i]

(* What is computed one step after the other has a value at every step. *)
LEMMA Steps ==
    ASSUME NEW S, NEW b \in S, NEW n \in Nat, NEW g \in [S -> [1 .. n -> S]]
    PROVE  \E f : Computed(f, S, b, n, g)
<1> DEFINE Upto(m, f) == f[0] = b /\ \A i \in 1 .. m : f[i] = g[f[i - 1]][i]
           C == {m \in 0 .. n : \E f \in [0 .. m -> S] : Upto(m, f)}
<1>1. 0 \in C
  <2> DEFINE h == [i \in 0 .. 0 |-> b]
  <2>1. h \in [0 .. 0 -> S] /\ h[0] = b /\ 0 \in 0 .. n
    OBVIOUS
  <2> HIDE DEF h
  <2>2. Upto(0, h)
    BY <2>1
  <2> HIDE DEF Upto
  <2> QED
    BY <2>1, <2>2
<1>2. ASSUME NEW m \in 1 .. n, m - 1 \in C PROVE m \in C
  <2>1. PICK f \in [0 .. m - 1 -> S] : Upto(m - 1, f)
    BY <1>2
  <2> DEFINE h == [i \in 0 .. m |-> IF i = m THEN g[f[m - 1]][m] ELSE f[i]]
  <2>2. f[m - 1] \in S /\ g[f[m - 1]][m] \in S
    OBVIOUS
  <2>3. h \in [0 .. m -> S]
    BY <2>2
  <2>4. ASSUME NEW i \in 1 .. m PROVE h[i] = g[h[i - 1]][i]
    <3>1. i - 1 \in 0 .. m /\ i - 1 # m /\ h[i - 1] = f[i - 1]
      OBVIOUS
    <3>2. CASE i = m
      BY <3>1, <3>2
    <3>3. CASE i # m
      <4>1. i \in 1 .. m - 1
        BY <3>3
      <4>2. f[i] = g[f[i - 1]][i]
        BY <2>1, <4>1
      <4> QED
        BY <3>1, <3>3, <4>2
    <3> QED
      BY <3>2, <3>3
  <2>5. h[0] = b
    BY <2>1
  <2>6. Upto(m, h)
    BY <2>4, <2>5
  <2> HIDE DEF h, Upto
  <2> QED
    BY <2>3, <2>6
<1>3. \A i \in 0 .. n : i \in C
  <2> HIDE DEF C
  <2> QED
    BY <1>1, <1>2, Counting
<1>4. n \in C
  <2> HIDE DEF C
  <2> QED
    BY <1>3
<1> QED
  BY <1>4 DEF Computed

-----------------------------------------------------------------------------
(* Sequences one after the other. *)

Octet == Nat \X Nat
Octets == Seq(Octet)
List == Seq(Octets)

Flat(s) == FlattenSeq(s)

(* The run of FlattenSeq: after i sequences it has the first i of them. *)
LEMMA FlatRun ==
    ASSUME NEW s \in List
    PROVE  \E f \in [0 .. Len(s) -> Octets] :
             /\ f[0] = <<>> /\ \A i \in 1 .. Len(s) : f[i] = f[i - 1] \o s[i]
             /\ Flat(s) = f[Len(s)]
<1> DEFINE n == Len(s)
           g == [x \in Octets |-> [i \in 1 .. n |-> x \o s[i]]]
<1>1. n \in Nat /\ \A i \in 1 .. n : s[i] \in Octets
  BY DEF List
<1>2. g \in [Octets -> [1 .. n -> Octets]]
  <2>2. \A p, q \in Octets : p \o q \in Octets
    BY ConcatProperties DEF Octets
  <2> HIDE DEF n
  <2> QED
    BY <1>1, <2>2
<1>3. <<>> \in Octets
  BY DEF Octets
<1>4. PICK f : Computed(f, Octets, <<>>, n, g)
  <2> HIDE DEF g, n
  <2> QED
    BY <1>1, <1>2, <1>3, Steps
<1> HIDE DEF g
<1>41. /\ f \in [0 .. n -> Octets] /\ f[0] = <<>>
       /\ \A i \in 1 .. n : f[i] = g[f[i - 1]][i]
  BY <1>4 DEF Computed
<1>5. \A i \in 1 .. n : f[i - 1] \in Octets /\ f[i] \in Octets /\ f[i] = f[i - 1] \o s[i]
  <2> SUFFICES ASSUME NEW i \in 1 .. n
               PROVE  f[i - 1] \in Octets /\ f[i] \in Octets /\ f[i] = f[i - 1] \o s[i]
    OBVIOUS
  <2>1. i - 1 \in 0 .. n /\ i \in 0 .. n
    BY <1>1
  <2>2. f[i - 1] \in Octets /\ f[i] \in Octets
    BY <1>41, <2>1
  <2>3. g[f[i - 1]][i] = f[i - 1] \o s[i]
    BY <2>2 DEF g
  <2> QED
    BY <1>41, <2>2, <2>3
<1>6. Flat(s) = f[n]
  <2>1. CASE n = 0
    <3>1. s = <<>>
      BY <2>1, EmptySeq DEF List
    <3>2. Flat(s) = s
      BY <2>1 DEF Flat, FlattenSeq
    <3> QED
      BY <1>41, <2>1, <3>1, <3>2
  <2>2. CASE n # 0
    <3> DEFINE body(h) == [i \in 1 .. n |-> IF i = 1 THEN s[i] ELSE h[i - 1] \o s[i]]
               h0 == [i \in 1 .. n |-> f[i]]
               h1 == CHOOSE h : h = body(h)
    <3>1. h0 = body(h0)
      <4> SUFFICES ASSUME NEW i \in 1 .. n
                   PROVE  f[i] = IF i = 1 THEN s[i] ELSE h0[i - 1] \o s[i]
        BY DEF h0, body
      <4>1. CASE i = 1
        <5>1. f[1] = <<>> \o s[1]
          <6>1. f[i] = f[i - 1] \o s[i]
            BY <1>5
          <6>2. f[0] = <<>> /\ i - 1 = 0
            BY <1>41, <4>1
          <6> HIDE DEF g, h0, h1, body
          <6> QED
            BY <4>1, <6>1, <6>2
        <5>2. s[1] \in Seq(Octet)
          BY <1>1, <4>1 DEF Octets
        <5> QED
          BY <4>1, <5>1, <5>2, ConcatEmptySeq
      <4>2. CASE i # 1
        <5>1. i - 1 \in 1 .. n
          BY <4>2, <1>1
        <5> QED
          BY <1>5, <4>2, <5>1
      <4> QED
        BY <4>1, <4>2
    <3>2. h1 = body(h1)
      <4> HIDE DEF body, h0
      <4> QED
        BY <3>1
    <3>3. Flat(s) = h1[n]
      BY <2>2 DEF Flat, FlattenSeq
    <3> DEFINE C == {i \in 0 .. n : i > 0 => h1[i] = f[i]}
    <3>4. 0 \in C
      BY <1>1
    <3>5. ASSUME NEW i \in 1 .. n, i - 1 \in C PROVE i \in C
      <4>1. h1[i] = IF i = 1 THEN s[i] ELSE h1[i - 1] \o s[i]
        <5> HIDE DEF h1
        <5> QED
          BY <3>2
      <4>2. h0[i] = IF i = 1 THEN s[i] ELSE h0[i - 1] \o s[i]
        <5> HIDE DEF h0
        <5> QED
          BY <3>1
      <4>3. i > 1 => i - 1 \in 1 .. n /\ h1[i - 1] = f[i - 1] /\ h0[i - 1] = f[i - 1]
        BY <3>5
      <4>4. h0[i] = f[i]
        OBVIOUS
      <4>5. h1[i] = f[i]
        <5> HIDE DEF h1, h0
        <5> QED
          BY <4>1, <4>2, <4>3, <4>4
      <4> QED
        BY <4>5
    <3>6. \A i \in 0 .. n : i \in C
      <4> HIDE DEF C, n
      <4> QED
        BY <1>1, <3>4, <3>5, Counting
    <3>7. n \in 0 .. n /\ n > 0
      BY <2>2, <1>1
    <3>8. n \in C
      <4> HIDE DEF C, n
      <4> QED
        BY <3>6, <3>7
    <3>9. h1[n] = f[n]
      <4> HIDE DEF h1, n
      <4> QED
        BY <3>7, <3>8
    <3> QED
      BY <3>3, <3>9
  <2> QED
    BY <2>1, <2>2
<1> QED
  BY <1>41, <1>5, <1>6

(* It is what any run of that kind comes to. *)
LEMMA FlatIs ==
    ASSUME NEW s \in List, NEW h \in [0 .. Len(s) -> Octets],
           h[0] = <<>>, \A i \in 1 .. Len(s) : h[i] = h[i - 1] \o s[i]
    PROVE  Flat(s) = h[Len(s)] /\ Flat(s) \in Octets
<1> DEFINE n == Len(s)
<1>1. n \in Nat
  BY DEF List
<1>2. PICK f \in [0 .. n -> Octets] :
         /\ f[0] = <<>> /\ \A i \in 1 .. n : f[i] = f[i - 1] \o s[i]
         /\ Flat(s) = f[n]
  BY FlatRun
<1> DEFINE C == {i \in 0 .. n : h[i] = f[i]}
<1>3. 0 \in C
  BY <1>1, <1>2
<1>4. ASSUME NEW i \in 1 .. n, i - 1 \in C PROVE i \in C
  <2>1. h[i - 1] = f[i - 1] /\ i \in 0 .. n
    BY <1>4
  <2>2. h[i] = h[i - 1] \o s[i] /\ f[i] = f[i - 1] \o s[i]
    BY <1>2
  <2> QED
    BY <2>1, <2>2
<1>5. \A i \in 0 .. n : i \in C
  <2> HIDE DEF C, n
  <2> QED
    BY <1>1, <1>3, <1>4, Counting
<1>6. n \in 0 .. n
  BY <1>1
<1> QED
  BY <1>2, <1>5, <1>6

LEMMA FlatType == \A s \in List : Flat(s) \in Octets
<1> SUFFICES ASSUME NEW s \in List PROVE Flat(s) \in Octets
  OBVIOUS
<1>1. PICK f \in [0 .. Len(s) -> Octets] : Flat(s) = f[Len(s)]
  BY FlatRun
<1>2. Len(s) \in 0 .. Len(s)
  BY DEF List
<1> QED
  BY <1>1, <1>2

LEMMA FlatNone == Flat(<<>>) = <<>>
BY DEF Flat, FlattenSeq

(* One sequence more. *)
LEMMA FlatAppend ==
    ASSUME NEW s \in List, NEW k \in Octets
    PROVE  Append(s, k) \in List /\ Flat(Append(s, k)) = Flat(s) \o k
<1> DEFINE n == Len(s)
           t == Append(s, k)
<1>1. n \in Nat /\ t \in List /\ Len(t) = n + 1 /\ t[n + 1] = k
  BY AppendProperties DEF List
<1>2. \A i \in 1 .. n : t[i] = s[i]
  BY AppendProperties DEF List
<1>3. PICK f \in [0 .. n -> Octets] :
         /\ f[0] = <<>> /\ \A i \in 1 .. n : f[i] = f[i - 1] \o s[i]
         /\ Flat(s) = f[n]
  BY FlatRun
<1> HIDE DEF t
<1> DEFINE h == [i \in 0 .. n + 1 |-> IF i = n + 1 THEN f[n] \o k ELSE f[i]]
<1>4. n \in 0 .. n /\ f[n] \in Octets /\ f[n] \o k \in Octets
  BY <1>1, ConcatProperties DEF Octets
<1> HIDE DEF n
<1>5. h \in [0 .. n + 1 -> Octets]
  <2>1. \A i \in 0 .. n + 1 : i # n + 1 => i \in 0 .. n
    BY <1>1
  <2> QED
    BY <1>4, <2>1
<1>6. h[0] = <<>>
  BY <1>1, <1>3
<1>7. ASSUME NEW i \in 1 .. n + 1 PROVE h[i] = h[i - 1] \o t[i]
  <2>1. i - 1 \in 0 .. n + 1 /\ i - 1 # n + 1 /\ h[i - 1] = f[i - 1]
    BY <1>1
  <2>2. CASE i = n + 1
    <3>1. h[i] = f[n] \o k /\ i - 1 = n /\ t[i] = k
      BY <1>1, <2>2
    <3> HIDE DEF h
    <3> QED
      BY <2>1, <3>1
  <2>3. CASE i # n + 1
    <3>1. i \in 1 .. n /\ h[i] = f[i]
      BY <2>3, <1>1
    <3> HIDE DEF h
    <3> QED
      BY <2>1, <3>1, <1>2, <1>3
  <2> QED
    BY <2>2, <2>3
<1>8. h[n + 1] = f[n] \o k
  BY <1>1
<1> HIDE DEF h
<1>9. Flat(t) = h[Len(t)]
  BY <1>1, <1>5, <1>6, <1>7, FlatIs
<1> QED
  BY <1>1, <1>3, <1>8, <1>9 DEF t

(* The first i sequences, and the first i - 1 with the i-th. *)
LEMMA FlatFirst ==
    ASSUME NEW s \in List, NEW i \in 1 .. Len(s)
    PROVE  /\ SubSeq(s, 1, i) \in List /\ SubSeq(s, 1, i - 1) \in List /\ s[i] \in Octets
           /\ SubSeq(s, 1, i) = Append(SubSeq(s, 1, i - 1), s[i])
           /\ Flat(SubSeq(s, 1, i)) = Flat(SubSeq(s, 1, i - 1)) \o s[i]
<1>1. Len(s) \in Nat /\ s[i] \in Octets /\ 1 \in 1 .. Len(s) /\ i \in 1 .. Len(s)
  BY DEF List
<1>2. SubSeq(s, 1, i) \in List /\ SubSeq(s, 1, i - 1) \in List
  BY <1>1 DEF List
<1>3. SubSeq(s, 1, i) = SubSeq(s, 1, i - 1) \o << s[i] >>
  BY <1>1, SubSeqRecursiveSecond DEF List
<1>4. SubSeq(s, 1, i) = Append(SubSeq(s, 1, i - 1), s[i])
  BY <1>1, <1>2, <1>3, AppendIsConcat DEF List
<1> QED
  BY <1>1, <1>2, <1>4, FlatAppend

LEMMA FlatConcat ==
    ASSUME NEW s \in List, NEW t \in List
    PROVE  s \o t \in List /\ Flat(s \o t) = Flat(s) \o Flat(t)
<1> DEFINE n == Len(t)
           First(i) == SubSeq(t, 1, i)
           C == {i \in 0 .. n : Flat(s \o First(i)) = Flat(s) \o Flat(First(i))}
<1>1. n \in Nat /\ s \o t \in List /\ Flat(s) \in Octets
  BY ConcatProperties, FlatType DEF List
<1>2. 0 \in C
  <2>1. First(0) = <<>>
    BY SubSeqEmpty
  <2>2. s \o <<>> = s /\ Flat(s) \o <<>> = Flat(s)
    BY <1>1, ConcatEmptySeq DEF List, Octets
  <2> HIDE DEF First
  <2>3. Flat(s \o First(0)) = Flat(s) \o Flat(First(0))
    BY <2>1, <2>2, FlatNone
  <2> QED
    BY <1>1, <2>3
<1>3. ASSUME NEW i \in 1 .. n, i - 1 \in C PROVE i \in C
  <2>1. /\ First(i) \in List /\ First(i - 1) \in List /\ t[i] \in Octets
        /\ First(i) = Append(First(i - 1), t[i])
        /\ Flat(First(i)) = Flat(First(i - 1)) \o t[i]
    BY FlatFirst
  <2>2. Flat(s \o First(i - 1)) = Flat(s) \o Flat(First(i - 1))
    BY <1>3
  <2> HIDE DEF First, n
  <2>3. Append(First(i - 1), t[i]) = First(i - 1) \o <<t[i]>>
    BY <2>1, AppendIsConcat DEF List
  <2>4. <<t[i]>> \in List /\ s \o First(i - 1) \in List
    BY <2>1, ConcatProperties DEF List
  <2>5. s \o First(i) = (s \o First(i - 1)) \o <<t[i]>>
    BY <2>1, <2>3, <2>4, ConcatAssociative DEF List
  <2>6. s \o First(i) = Append(s \o First(i - 1), t[i])
    BY <2>1, <2>4, <2>5, AppendIsConcat DEF List
  <2>7. Flat(s \o First(i)) = Flat(s \o First(i - 1)) \o t[i]
    BY <2>1, <2>4, <2>6, FlatAppend
  <2>8. Flat(First(i - 1)) \in Octets
    BY <2>1, FlatType
  <2>9. (Flat(s) \o Flat(First(i - 1))) \o t[i] = Flat(s) \o (Flat(First(i - 1)) \o t[i])
    <3> HIDE DEF C
    <3> DEFINE x == t[i]
    <3>1. Flat(s) \in Seq(Octet) /\ Flat(First(i - 1)) \in Seq(Octet) /\ x \in Seq(Octet)
      BY <1>1, <2>1, <2>8 DEF Octets
    <3> HIDE DEF x
    <3>2. (Flat(s) \o Flat(First(i - 1))) \o x = Flat(s) \o (Flat(First(i - 1)) \o x)
      BY ONLY <3>1, ConcatAssociative
    <3> QED
      BY <3>2 DEF x
  <2>10. Flat(s \o First(i)) = Flat(s) \o Flat(First(i))
    BY <2>1, <2>2, <2>7, <2>9
  <2>11. i \in 0 .. n
    BY <1>1
  <2> QED
    BY <2>10, <2>11
<1>4. \A i \in 0 .. n : i \in C
  <2> HIDE DEF C, n
  <2> QED
    BY <1>1, <1>2, <1>3, Counting
<1>5. First(n) = t
  BY SubSeqFull DEF List
<1>6. n \in C
  BY <1>1, <1>4
<1>7. Flat(s \o First(n)) = Flat(s) \o Flat(First(n))
  BY <1>6
<1> QED
  BY <1>1, <1>5, <1>7

(* Sequences of the same length. *)
LEMMA FlatLength ==
    ASSUME NEW s \in List, NEW e \in Nat, \A i \in 1 .. Len(s) : Len(s[i]) = e
    PROVE  Len(Flat(s)) = e * Len(s)
<1> DEFINE n == Len(s)
           First(i) == SubSeq(s, 1, i)
           C == {i \in 0 .. n : Len(Flat(First(i))) = e * i}
<1>1. n \in Nat
  BY DEF List
<1>2. 0 \in C
  <2>1. First(0) = <<>>
    BY SubSeqEmpty
  <2>2. Len(Flat(First(0))) = e * 0
    <3> HIDE DEF First
    <3>1. Flat(First(0)) = <<>>
      BY <2>1, FlatNone
    <3> QED
      BY <3>1
  <2> QED
    BY <1>1, <2>2
<1>3. ASSUME NEW i \in 1 .. n, i - 1 \in C PROVE i \in C
  <2>1. First(i - 1) \in List /\ s[i] \in Octets /\ Flat(First(i)) = Flat(First(i - 1)) \o s[i]
    BY FlatFirst
  <2>2. Len(Flat(First(i - 1))) = e * (i - 1) /\ Len(s[i]) = e /\ i \in 0 .. n
    BY <1>1, <1>3
  <2> DEFINE x == s[i]
             y == Flat(First(i - 1))
  <2>3. x \in Octets /\ y \in Octets
    BY <2>1, FlatType
  <2>4. Len(x) = e /\ Len(y) = e * (i - 1) /\ Flat(First(i)) = y \o x
    BY <2>1, <2>2
  <2> HIDE DEF x, y, First, n
  <2>5. Len(y \o x) = Len(y) + Len(x)
    BY <2>3, ConcatProperties DEF Octets
  <2>6. e * (i - 1) + e = e * i
    BY <1>1
  <2>7. Len(Flat(First(i))) = e * i
    BY <2>4, <2>5, <2>6
  <2> QED
    BY <2>2, <2>7
<1>4. \A i \in 0 .. n : i \in C
  <2> HIDE DEF C, n
  <2> QED
    BY <1>1, <1>2, <1>3, Counting
<1>5. n \in C
  <2> HIDE DEF C
  <2> QED
    BY <1>1, <1>4
<1>6. First(n) = s
  BY SubSeqFull DEF List
<1> QED
  BY <1>5, <1>6

-----------------------------------------------------------------------------
(* Cutting and joining. *)

LEMMA DivideDown ==
    ASSUME NEW m \in Nat, NEW e \in Nat \ {0}
    PROVE  m \div e \in Nat /\ (m \div e) * e <= m
<1>1. m \div e \in Int /\ m % e \in 0 .. e - 1 /\ m = e * (m \div e) + (m % e)
  OBVIOUS
<1> DEFINE q == m \div e
           r == m % e
<1>2. q \in Int /\ r \in 0 .. e - 1 /\ m = e * q + r
  BY <1>1
<1> HIDE DEF q, r
<1>3. q >= 0
  <2>1. SUFFICES ASSUME q <= -1 PROVE FALSE
    BY <1>2
  <2>2. e * q <= e * (-1)
    BY <1>2, <2>1
  <2> QED
    BY <1>2, <2>2
<1>4. q * e = e * q
  BY <1>2
<1> QED
  BY <1>2, <1>3, <1>4 DEF q

(* The pieces of a key are the key. *)
LEMMA FlatPieces ==
    ASSUME NEW k \in Octets, NEW e \in Nat \ {0}, NEW n \in 1 .. Len(k)
    PROVE  Pieces(k, n, e) \in List /\ Flat(Pieces(k, n, e)) = k
<1> DEFINE full == ((Len(k) - n) \div e) + 1
           End(j) == IF j = 0 THEN 0 ELSE IF j > full THEN Len(k) ELSE n + (j - 1) * e
           p == Pieces(k, n, e)
           h == [j \in 0 .. full + 1 |-> SubSeq(k, 1, End(j))]
<1>1. Len(k) \in Nat /\ n \in Nat /\ n >= 1 /\ n <= Len(k) /\ Len(k) - n \in Nat
  BY DEF Octets
<1>2. full \in Nat \ {0} /\ (full - 1) * e <= Len(k) - n
  <2>1. (Len(k) - n) \div e \in Nat /\ ((Len(k) - n) \div e) * e <= Len(k) - n
    BY <1>1, DivideDown
  <2> DEFINE q == (Len(k) - n) \div e
  <2>2. q \in Nat /\ q * e <= Len(k) - n
    BY <2>1
  <2> HIDE DEF q
  <2>3. q + 1 \in Nat \ {0} /\ (q + 1) - 1 = q
    BY <2>2
  <2> QED
    BY <2>2, <2>3 DEF q
<1>3. p = [j \in 1 .. full + 1 |-> SubSeq(k, End(j - 1) + 1, End(j))]
  <2>1. p = [j \in 1 .. full + 1 |->
               SubSeq(k, IF j = 1 THEN 1 ELSE (n + ((j - 1) - 1) * e) + 1,
                         IF j > full THEN Len(k) ELSE n + (j - 1) * e)]
    BY DEF Pieces
  <2> HIDE DEF full, p
  <2>2. ASSUME NEW j \in 1 .. full + 1
        PROVE  /\ (IF j = 1 THEN 1 ELSE (n + ((j - 1) - 1) * e) + 1) = End(j - 1) + 1
               /\ (IF j > full THEN Len(k) ELSE n + (j - 1) * e) = End(j)
    BY <1>2
  <2> HIDE DEF End
  <2> QED
    BY <2>1, <2>2
<1> HIDE DEF full
<1>4. ASSUME NEW j \in 1 .. full + 1
      PROVE  /\ End(j - 1) \in 0 .. Len(k) /\ End(j) \in End(j - 1) .. Len(k)
             /\ End(j) \in 0 .. Len(k)
  <2>1. ASSUME NEW i \in 1 .. full
        PROVE  n + (i - 1) * e \in 1 .. Len(k) /\ End(i) = n + (i - 1) * e
    <3>1. (i - 1) * e \in Nat /\ (i - 1) * e <= (full - 1) * e
      <4>1. \A x, y \in Nat : x <= y => x * e \in Nat /\ x * e <= y * e
        OBVIOUS
      <4>2. i - 1 \in Nat /\ full - 1 \in Nat /\ i - 1 <= full - 1
        BY <1>2
      <4> QED
        BY <4>1, <4>2
    <3> DEFINE z == (i - 1) * e
    <3>2. z \in Nat /\ n + z <= Len(k)
      <4> DEFINE y == (full - 1) * e
      <4>1. y <= Len(k) - n /\ z \in Nat /\ z <= y /\ y \in Int
        BY <1>2, <3>1
      <4> HIDE DEF y, z
      <4> QED
        BY <4>1, <1>1
    <3>3. End(i) = n + z
      BY <1>2
    <3> HIDE DEF z, End
    <3>4. n + z \in 1 .. Len(k)
      BY <1>1, <3>2
    <3> QED
      BY <3>3, <3>4 DEF z
  <2>2. End(0) = 0 /\ End(full + 1) = Len(k)
    BY <1>2
  <2>3. CASE j = 1
    <3>1. j - 1 = 0 /\ 1 \in 1 .. full
      BY <1>2, <2>3
    <3>2. End(1) \in 1 .. Len(k)
      BY <2>1, <3>1
    <3> HIDE DEF End
    <3> QED
      BY <1>1, <2>2, <2>3, <3>1, <3>2
  <2>4. CASE j # 1 /\ j <= full
    <3>1. j - 1 \in 1 .. full /\ j \in 1 .. full
      BY <1>2, <2>4
    <3>2. /\ End(j - 1) = n + ((j - 1) - 1) * e /\ End(j - 1) \in 1 .. Len(k)
          /\ End(j) = n + (j - 1) * e /\ End(j) \in 1 .. Len(k)
      <4> HIDE DEF End
      <4>1. /\ n + ((j - 1) - 1) * e \in 1 .. Len(k) /\ End(j - 1) = n + ((j - 1) - 1) * e
            /\ n + (j - 1) * e \in 1 .. Len(k) /\ End(j) = n + (j - 1) * e
        BY <2>1, <3>1
      <4> QED
        BY <4>1
    <3>3. (j - 1) * e = ((j - 1) - 1) * e + e
      BY <1>2
    <3>4. End(j) = End(j - 1) + e
      <4> DEFINE y == ((j - 1) - 1) * e
                 z == (j - 1) * e
      <4>1. y \in Int /\ z = y + e /\ End(j - 1) = n + y /\ End(j) = n + z
        BY <3>2, <3>3
      <4> HIDE DEF y, z, End
      <4> QED
        BY <4>1, <1>1
    <3> HIDE DEF End
    <3> QED
      BY <1>1, <3>2, <3>4
  <2>5. CASE j > full
    <3>1. j = full + 1 /\ j - 1 = full /\ full \in 1 .. full
      BY <1>2, <2>5
    <3>2. End(full) \in 1 .. Len(k)
      BY <2>1, <3>1
    <3> HIDE DEF End
    <3> QED
      BY <1>1, <2>2, <3>1, <3>2
  <2> QED
    BY <1>2, <2>3, <2>4, <2>5
<1>5. End(0) = 0 /\ End(full + 1) = Len(k)
  BY <1>2
<1> HIDE DEF End, p
<1>6. ASSUME NEW j \in 1 .. full + 1
      PROVE  /\ p[j] = SubSeq(k, End(j - 1) + 1, End(j)) /\ p[j] \in Octets
             /\ SubSeq(k, 1, End(j)) = SubSeq(k, 1, End(j - 1)) \o SubSeq(k, End(j - 1) + 1, End(j))
  <2>1. p[j] = SubSeq(k, End(j - 1) + 1, End(j))
    BY <1>3
  <2> DEFINE x == End(j - 1)
             y == End(j)
  <2>2. x \in 0 .. Len(k) /\ y \in x .. Len(k)
    BY <1>4
  <2> HIDE DEF x, y
  <2>3. SubSeq(k, x + 1, y) \in Octets
    BY <1>1, <2>2 DEF Octets
  <2>4. 1 \in 1 .. Len(k) + 1 /\ x \in 1 - 1 .. Len(k)
    BY <1>1, <2>2
  <2>5. SubSeq(k, 1, x) \o SubSeq(k, x + 1, y) = SubSeq(k, 1, y)
    BY ONLY k \in Seq(Octet), <2>2, <2>4, ConcatAdjacentSubSeq DEF Octets
  <2> QED
    BY <2>1, <2>3, <2>5 DEF x, y
<1>7. p \in List /\ Len(p) = full + 1
  <2>1. p = [j \in 1 .. full + 1 |-> p[j]]
    BY <1>3
  <2>2. full + 1 \in Nat /\ \A j \in 1 .. full + 1 : p[j] \in Octets
    BY <1>2, <1>6
  <2> DEFINE m == full + 1
  <2>3. m \in Nat /\ p \in [1 .. m -> Octets]
    BY <2>1, <2>2
  <2> HIDE DEF m
  <2>4. p \in Seq(Octets) /\ DOMAIN p = 1 .. m
    BY <2>3
  <2>5. Len(p) = m
    BY <2>3, <2>4
  <2> QED
    BY <2>4, <2>5 DEF List, m
<1>8. h \in [0 .. full + 1 -> Octets]
  <2>1. ASSUME NEW j \in 0 .. full + 1 PROVE SubSeq(k, 1, End(j)) \in Octets
    <3>1. End(j) \in 0 .. Len(k)
      <4>1. CASE j = 0
        BY <1>1, <1>5, <4>1
      <4>2. CASE j # 0
        BY <1>2, <1>4, <4>2
      <4> QED
        BY <4>1, <4>2
    <3> DEFINE y == End(j)
    <3>2. y \in 0 .. Len(k)
      BY <3>1
    <3> HIDE DEF y
    <3>3. SubSeq(k, 1, y) \in Octets
      BY <1>1, <3>2 DEF Octets
    <3> QED
      BY <3>3 DEF y
  <2> QED
    BY <2>1
<1>9. h[0] = <<>>
  <2>1. 0 \in 0 .. full + 1 /\ SubSeq(k, 1, 0) = <<>>
    BY <1>2, SubSeqEmpty
  <2> QED
    BY <1>5, <2>1
<1>10. \A j \in 1 .. full + 1 : h[j] = h[j - 1] \o p[j]
  <2> SUFFICES ASSUME NEW j \in 1 .. full + 1 PROVE h[j] = h[j - 1] \o p[j]
    OBVIOUS
  <2>1. j \in 0 .. full + 1 /\ j - 1 \in 0 .. full + 1
    BY <1>2
  <2>2. \A i \in 0 .. full + 1 : h[i] = SubSeq(k, 1, End(i))
    OBVIOUS
  <2> HIDE DEF h
  <2> QED
    BY <2>1, <2>2, <1>6
<1>11. h[full + 1] = k
  <2>1. full + 1 \in 0 .. full + 1
    BY <1>2
  <2>2. SubSeq(k, 1, Len(k)) = k
    BY SubSeqFull DEF Octets
  <2> QED
    BY <1>5, <2>1, <2>2
<1> HIDE DEF h
<1>12. Flat(p) = h[Len(p)]
  BY <1>7, <1>8, <1>9, <1>10, FlatIs
<1> QED
  BY <1>7, <1>11, <1>12 DEF p

(* The first run: what has been split is what has been seen of the keys. *)
SplitState(e) == [size : 0 .. e - 1, list : List]

LEMMA SplitStep ==
    ASSUME NEW e \in Nat \ {0}, NEW x \in SplitState(e), NEW k \in Octets
    PROVE  /\ SplitNext(x, k, e) \in SplitState(e)
           /\ Flat(SplitNext(x, k, e).list) = Flat(x.list) \o k
<1>1. x.size \in 0 .. e - 1 /\ x.list \in List /\ Len(k) \in Nat
  BY DEF SplitState, Octets
<1> DEFINE size == x.size
           list == x.list
<1>2. CASE size + Len(k) < e
  <2>1. SplitNext(x, k, e) = [size |-> size + Len(k), list |-> Append(list, k)]
    BY <1>2 DEF SplitNext
  <2>2. Append(list, k) \in List /\ Flat(Append(list, k)) = Flat(list) \o k
    BY <1>1, FlatAppend
  <2>3. size + Len(k) \in 0 .. e - 1
    BY <1>1, <1>2
  <2> HIDE DEF size
  <2> QED
    BY <2>1, <2>2, <2>3 DEF SplitState
<1>3. CASE ~(size + Len(k) < e)
  <2> DEFINE p == Pieces(k, e - size, e)
  <2>1. SplitNext(x, k, e) = [size |-> 0, list |-> list \o p]
    BY <1>3 DEF SplitNext
  <2>2. e - size \in 1 .. Len(k)
    BY <1>1, <1>3
  <2>3. p \in List /\ Flat(p) = k
    BY <2>2, FlatPieces
  <2> HIDE DEF p, size
  <2>4. list \o p \in List /\ Flat(list \o p) = Flat(list) \o k
    <3>1. list \o p \in List /\ Flat(list \o p) = Flat(list) \o Flat(p)
      BY <1>1, <2>3, FlatConcat
    <3> QED
      BY <2>3, <3>1
  <2>5. 0 \in 0 .. e - 1
    OBVIOUS
  <2> HIDE DEF list
  <2>6. SplitNext(x, k, e) \in SplitState(e)
    BY <2>1, <2>4, <2>5 DEF SplitState
  <2> QED
    BY <2>1, <2>4, <2>6 DEF list
<1> QED
  BY <1>2, <1>3

LEMMA FlatSplit ==
    ASSUME NEW b \in List, NEW e \in Nat \ {0}
    PROVE  SplitAt(b, e) \in List /\ Flat(SplitAt(b, e)) = Flat(b)
<1> DEFINE n == Len(b)
           S == SplitState(e)
           base == [size |-> 0, list |-> <<>>]
           g == [x \in S |-> [i \in 1 .. n |-> SplitNext(x, b[i], e)]]
           body(h) == [i \in 0 .. n |-> IF i = 0 THEN base ELSE SplitNext(h[i - 1], b[i], e)]
           run == CHOOSE h : h = body(h)
           C == {i \in 0 .. n : run[i] \in S /\ Flat(run[i].list) = Flat(SubSeq(b, 1, i))}
<1>1. n \in Nat /\ \A i \in 1 .. n : b[i] \in Octets
  BY DEF List
<1>2. base \in S
  BY DEF SplitState, List
<1>3. g \in [S -> [1 .. n -> S]]
  <2>1. ASSUME NEW x \in S, NEW i \in 1 .. n PROVE SplitNext(x, b[i], e) \in S
    BY <1>1, SplitStep
  <2> HIDE DEF S, n
  <2> QED
    BY <2>1
<1>4. PICK f : Computed(f, S, base, n, g)
  <2> HIDE DEF S, base, n, g
  <2> QED
    BY <1>1, <1>2, <1>3, Steps
<1>5. f = body(f)
  <2>1. f \in [0 .. n -> S] /\ f[0] = base /\ \A i \in 1 .. n : f[i] = g[f[i - 1]][i]
    BY <1>4 DEF Computed
  <2>2. ASSUME NEW i \in 1 .. n PROVE f[i] = SplitNext(f[i - 1], b[i], e)
    <3>1. i - 1 \in 0 .. n
      BY <1>1
    <3>2. f[i - 1] \in S
      <4> HIDE DEF S
      <4> QED
        BY <2>1, <3>1
    <3>3. g[f[i - 1]][i] = SplitNext(f[i - 1], b[i], e)
      <4> HIDE DEF S
      <4> QED
        BY <3>2
    <3> HIDE DEF g, S
    <3> QED
      BY <2>1, <3>3
  <2> HIDE DEF S, base, g
  <2>3. f = [i \in 0 .. n |-> f[i]]
    BY <2>1
  <2>4. \A i \in 0 .. n :
           f[i] = IF i = 0 THEN base ELSE SplitNext(f[i - 1], b[i], e)
    <3> SUFFICES ASSUME NEW i \in 0 .. n, i # 0 PROVE f[i] = SplitNext(f[i - 1], b[i], e)
      BY <2>1
    <3>1. i \in 1 .. n
      BY <1>1
    <3> QED
      BY <2>2, <3>1
  <2> QED
    BY <2>3, <2>4
<1>6. run = body(run)
  <2> HIDE DEF body
  <2> QED
    BY <1>5
<1>7. SplitAt(b, e) = run[n].list
  BY DEF SplitAt
<1> HIDE DEF run
<1>8. run[0] = base /\ \A i \in 1 .. n : run[i] = SplitNext(run[i - 1], b[i], e)
  <2>1. \A i \in 0 .. n : run[i] = IF i = 0 THEN base ELSE SplitNext(run[i - 1], b[i], e)
    BY <1>6
  <2> HIDE DEF base
  <2> QED
    BY <1>1, <2>1
<1>9. 0 \in C
  <2>1. SubSeq(b, 1, 0) = <<>> /\ run[0].list = <<>> /\ run[0] \in S /\ 0 \in 0 .. n
    BY <1>1, <1>2, <1>8, SubSeqEmpty
  <2> HIDE DEF S, n
  <2> QED
    BY <2>1
<1>10. ASSUME NEW i \in 1 .. n, i - 1 \in C PROVE i \in C
  <2> DEFINE x == run[i - 1]
             k == b[i]
  <2>1. x \in S /\ Flat(x.list) = Flat(SubSeq(b, 1, i - 1)) /\ i \in 0 .. n /\ k \in Octets
    BY <1>1, <1>10
  <2>2. run[i] = SplitNext(x, k, e)
    BY <1>8
  <2>3. Flat(SubSeq(b, 1, i)) = Flat(SubSeq(b, 1, i - 1)) \o k
    BY FlatFirst
  <2> HIDE DEF x, k, n
  <2>4. run[i] \in S /\ Flat(run[i].list) = Flat(x.list) \o k
    BY <2>1, <2>2, SplitStep
  <2> HIDE DEF S
  <2> QED
    BY <2>1, <2>3, <2>4
<1>11. \A i \in 0 .. n : i \in C
  <2> HIDE DEF C, n
  <2> QED
    BY <1>1, <1>9, <1>10, Counting
<1>12. n \in 0 .. n /\ SubSeq(b, 1, n) = b
  BY <1>1, SubSeqFull DEF List
<1>13. run[n] \in S /\ Flat(run[n].list) = Flat(SubSeq(b, 1, n))
  <2> HIDE DEF S, n
  <2> QED
    BY <1>11, <1>12
<1>14. run[n].list \in List
  BY <1>13 DEF SplitState
<1> QED
  BY <1>7, <1>12, <1>13, <1>14

(* The second run: the keys done, with what is being joined, are the pieces *)
(* seen, and without it, the pieces used.                                  *)
JoinState == [now : Octets, done : List, used : Nat]

Joining(x, list, i, e) ==
    /\ x \in JoinState /\ x.used <= i
    /\ Flat(x.done) \o x.now = Flat(SubSeq(list, 1, i))
    /\ Flat(x.done) = Flat(SubSeq(list, 1, x.used))
    /\ \A d \in 1 .. Len(x.done) : Len(x.done[d]) = e

LEMMA JoinStepType ==
    ASSUME NEW e \in Nat \ {0}, NEW x \in JoinState, NEW k \in Octets, NEW i \in Nat
    PROVE  JoinNext(x, k, i, e) \in JoinState
<1>1. x.now \in Octets /\ x.done \in List /\ x.used \in Nat
  BY DEF JoinState
<1> DEFINE now == x.now \o k
<1>2. now \in Octets
  BY <1>1, ConcatProperties DEF Octets
<1>3. Append(x.done, now) \in List
  BY <1>1, <1>2, FlatAppend
<1>4. <<>> \in Octets
  BY DEF Octets
<1>5. JoinNext(x, k, i, e) =
        IF Len(now) = e THEN [now |-> <<>>, done |-> Append(x.done, now), used |-> i]
                        ELSE [x EXCEPT !.now = now]
  BY DEF JoinNext
<1> HIDE DEF now
<1> QED
  BY <1>1, <1>2, <1>3, <1>4, <1>5 DEF JoinState

LEMMA JoinStep ==
    ASSUME NEW e \in Nat \ {0}, NEW list \in List, NEW i \in 1 .. Len(list), NEW x,
           Joining(x, list, i - 1, e)
    PROVE  Joining(JoinNext(x, list[i], i, e), list, i, e)
<1> DEFINE k == list[i]
           now == x.now \o k
           y == JoinNext(x, k, i, e)
           all == Flat(SubSeq(list, 1, i))
<1>1. /\ x \in JoinState /\ x.used <= i - 1
      /\ Flat(x.done) \o x.now = Flat(SubSeq(list, 1, i - 1))
      /\ Flat(x.done) = Flat(SubSeq(list, 1, x.used))
      /\ \A d \in 1 .. Len(x.done) : Len(x.done[d]) = e
  BY DEF Joining
<1>2. x.now \in Octets /\ x.done \in List /\ x.used \in Nat
  BY <1>1 DEF JoinState
<1>3. Len(list) \in Nat /\ i \in Nat /\ k \in Octets
  BY DEF List
<1>4. all = Flat(SubSeq(list, 1, i - 1)) \o k
  BY FlatFirst
<1>5. y = IF Len(now) = e THEN [now |-> <<>>, done |-> Append(x.done, now), used |-> i]
                          ELSE [x EXCEPT !.now = now]
  BY DEF JoinNext
<1>6. y \in JoinState
  BY <1>1, <1>3, JoinStepType
<1> HIDE DEF k, y
<1>7. Flat(x.done) \in Octets /\ now \in Octets
  BY <1>2, <1>3, FlatType, ConcatProperties DEF Octets
<1>8. Flat(x.done) \o now = all
  <2> DEFINE a == Flat(x.done)
             c == x.now
  <2>1. a \in Seq(Octet) /\ c \in Seq(Octet) /\ k \in Seq(Octet)
    BY <1>2, <1>3, <1>7 DEF Octets
  <2>2. (a \o c) \o k = all
    BY <1>1, <1>4
  <2> HIDE DEF a, c, all
  <2>3. (a \o c) \o k = a \o (c \o k)
    BY ONLY <2>1, ConcatAssociative
  <2>4. a \o (c \o k) = all
    BY <2>2, <2>3
  <2> QED
    BY <2>4 DEF a, c
<1> HIDE DEF now, all
<1>9. CASE Len(now) = e
  <2>1. y.now = <<>> /\ y.done = Append(x.done, now) /\ y.used = i
    BY <1>5, <1>9
  <2>2. Flat(y.done) = all
    BY <1>2, <1>7, <1>8, <2>1, FlatAppend
  <2>3. Flat(y.done) \in Octets
    BY <1>2, <1>7, <2>1, FlatAppend, FlatType
  <2>4. Flat(y.done) \o y.now = all
    BY <2>1, <2>2, <2>3, ConcatEmptySeq DEF Octets
  <2>5. \A d \in 1 .. Len(y.done) : Len(y.done[d]) = e
    <3>1. /\ Len(y.done) = Len(x.done) + 1 /\ y.done[Len(x.done) + 1] = now
          /\ \A d \in 1 .. Len(x.done) : y.done[d] = x.done[d]
      BY <1>2, <1>7, <2>1, AppendProperties DEF List
    <3>2. Len(x.done) \in Nat
      BY <1>2 DEF List
    <3>3. \A d \in 1 .. Len(y.done) : d \in 1 .. Len(x.done) \/ d = Len(x.done) + 1
      BY <3>1, <3>2
    <3> QED
      BY <1>1, <1>9, <3>1, <3>3
  <2> QED
    BY <1>3, <1>6, <2>1, <2>2, <2>4, <2>5 DEF Joining, all, y, k
<1>10. CASE Len(now) # e
  <2>1. y.now = now /\ y.done = x.done /\ y.used = x.used
    BY <1>1, <1>5, <1>10 DEF JoinState
  <2>2. y.used <= i
    BY <1>1, <1>2, <1>3, <2>1
  <2> QED
    BY <1>1, <1>6, <1>8, <2>1, <2>2 DEF Joining, all, y, k
<1> QED
  BY <1>9, <1>10

LEMMA FlatJoined ==
    ASSUME NEW list \in List, NEW e \in Nat \ {0}
    PROVE  Joining(Joined(list, e), list, Len(list), e)
<1> DEFINE n == Len(list)
           S == JoinState
           base == [now |-> <<>>, done |-> <<>>, used |-> 0]
           g == [x \in S |-> [i \in 1 .. n |-> JoinNext(x, list[i], i, e)]]
           body(h) == [i \in 0 .. n |-> IF i = 0 THEN base
                                        ELSE JoinNext(h[i - 1], list[i], i, e)]
           run == CHOOSE h : h = body(h)
           C == {i \in 0 .. n : Joining(run[i], list, i, e)}
<1>1. n \in Nat /\ \A i \in 1 .. n : list[i] \in Octets
  BY DEF List
<1>2. base \in S
  BY DEF JoinState, List, Octets
<1>3. g \in [S -> [1 .. n -> S]]
  <2>1. ASSUME NEW x \in S, NEW i \in 1 .. n PROVE JoinNext(x, list[i], i, e) \in S
    <3>1. i \in Nat
      BY <1>1
    <3> QED
      BY <1>1, <3>1, JoinStepType
  <2> HIDE DEF S, n
  <2> QED
    BY <2>1
<1>4. PICK f : Computed(f, S, base, n, g)
  <2> HIDE DEF S, base, n, g
  <2> QED
    BY <1>1, <1>2, <1>3, Steps
<1>5. f = body(f)
  <2>1. f \in [0 .. n -> S] /\ f[0] = base /\ \A i \in 1 .. n : f[i] = g[f[i - 1]][i]
    BY <1>4 DEF Computed
  <2>2. ASSUME NEW i \in 1 .. n PROVE f[i] = JoinNext(f[i - 1], list[i], i, e)
    <3>1. i - 1 \in 0 .. n
      BY <1>1
    <3>2. f[i - 1] \in S
      <4> HIDE DEF S
      <4> QED
        BY <2>1, <3>1
    <3>3. g[f[i - 1]][i] = JoinNext(f[i - 1], list[i], i, e)
      <4> HIDE DEF S
      <4> QED
        BY <3>2
    <3> HIDE DEF g, S
    <3> QED
      BY <2>1, <3>3
  <2> HIDE DEF S, base, g
  <2>3. f = [i \in 0 .. n |-> f[i]]
    BY <2>1
  <2>4. \A i \in 0 .. n :
           f[i] = IF i = 0 THEN base ELSE JoinNext(f[i - 1], list[i], i, e)
    <3> SUFFICES ASSUME NEW i \in 0 .. n, i # 0
                 PROVE  f[i] = JoinNext(f[i - 1], list[i], i, e)
      BY <2>1
    <3>1. i \in 1 .. n
      BY <1>1
    <3> QED
      BY <2>2, <3>1
  <2> QED
    BY <2>3, <2>4
<1>6. run = body(run)
  <2> HIDE DEF body
  <2> QED
    BY <1>5
<1>7. Joined(list, e) = run[n]
  BY DEF Joined
<1> HIDE DEF run
<1>8. run[0] = base /\ \A i \in 1 .. n : run[i] = JoinNext(run[i - 1], list[i], i, e)
  <2>1. \A i \in 0 .. n :
           run[i] = IF i = 0 THEN base ELSE JoinNext(run[i - 1], list[i], i, e)
    BY <1>6
  <2> HIDE DEF base
  <2> QED
    BY <1>1, <2>1
<1>9. 0 \in C
  <2>1. /\ SubSeq(list, 1, 0) = <<>> /\ base.now = <<>> /\ base.done = <<>> /\ base.used = 0
        /\ 0 \in 0 .. n /\ Len(base.done) = 0
    BY <1>1, SubSeqEmpty
  <2>2. Flat(base.done) = <<>> /\ Flat(SubSeq(list, 1, 0)) = <<>>
    BY <2>1, FlatNone
  <2>3. <<>> \o <<>> = <<>>
    BY ConcatEmptySeq, EmptySeq
  <2>4. Joining(base, list, 0, e)
    <3> HIDE DEF base
    <3> QED
      BY <1>2, <2>1, <2>2, <2>3 DEF Joining
  <2> HIDE DEF base
  <2> QED
    BY <1>8, <2>1, <2>4
<1>10. ASSUME NEW i \in 1 .. n, i - 1 \in C PROVE i \in C
  <2>1. Joining(run[i - 1], list, i - 1, e) /\ i \in 0 .. n
    BY <1>1, <1>10
  <2>2. Joining(JoinNext(run[i - 1], list[i], i, e), list, i, e)
    BY <2>1, JoinStep
  <2> HIDE DEF n
  <2> QED
    BY <1>8, <2>1, <2>2
<1>11. \A i \in 0 .. n : i \in C
  <2> HIDE DEF C, n
  <2> QED
    BY <1>1, <1>9, <1>10, Counting
<1>12. n \in 0 .. n
  BY <1>1
<1>13. Joining(run[n], list, n, e)
  <2> HIDE DEF n
  <2> QED
    BY <1>11, <1>12
<1> QED
  BY <1>7, <1>13

(* Cut and joined: the keys done and the pieces left are the bytes there were. *)
Done(b, e) == Joined(SplitAt(b, e), e).done
Rest(b, e) ==
    LET list == SplitAt(b, e)
    IN  SubSeq(list, Joined(list, e).used + 1, Len(list))

LEMMA CutAndJoined ==
    ASSUME NEW b \in List, NEW e \in Nat \ {0}
    PROVE  /\ Done(b, e) \in List /\ Rest(b, e) \in List
           /\ Flat(Done(b, e)) \o Flat(Rest(b, e)) = Flat(b)
           /\ Len(Flat(Rest(b, e))) = Len(Flat(b)) - e * Len(Done(b, e))
<1> DEFINE list == SplitAt(b, e)
           joined == Joined(list, e)
           rest == SubSeq(list, joined.used + 1, Len(list))
<1>0. joined.done = Done(b, e) /\ rest = Rest(b, e)
  BY DEF Done, Rest
<1>1. list \in List /\ Flat(list) = Flat(b)
  BY FlatSplit
<1>2. Joining(joined, list, Len(list), e)
  <2> HIDE DEF list
  <2> QED
    BY <1>1, FlatJoined
<1> HIDE DEF list, joined
<1>3. /\ joined.done \in List /\ joined.used \in Nat /\ joined.used <= Len(list)
      /\ Flat(joined.done) = Flat(SubSeq(list, 1, joined.used))
      /\ \A d \in 1 .. Len(joined.done) : Len(joined.done[d]) = e
  BY <1>2 DEF Joining, JoinState
<1> DEFINE u == joined.used
           first == SubSeq(list, 1, u)
           done == joined.done
<1>4. u \in Nat /\ u <= Len(list) /\ Len(list) \in Nat
  BY <1>1, <1>3 DEF List
<1> HIDE DEF u
<1>5. first \in List /\ rest \in List
  BY <1>1, <1>4 DEF List, u
<1>6. first \o rest = list
  <2>1. 1 \in 1 .. Len(list) + 1 /\ u \in 1 - 1 .. Len(list) /\ Len(list) \in u .. Len(list)
    BY <1>4
  <2>2. SubSeq(list, 1, u) \o SubSeq(list, u + 1, Len(list)) = SubSeq(list, 1, Len(list))
    BY <1>1, <2>1, ConcatAdjacentSubSeq DEF List
  <2>3. SubSeq(list, 1, Len(list)) = list
    BY <1>1, SubSeqFull DEF List
  <2> QED
    BY <2>2, <2>3 DEF u
<1>7. Flat(first) \o Flat(rest) = Flat(b) /\ Flat(done) = Flat(first)
  <2> HIDE DEF first
  <2>1. Flat(first \o rest) = Flat(first) \o Flat(rest)
    BY <1>5, FlatConcat
  <2>2. Flat(done) = Flat(first)
    BY <1>3 DEF first, u
  <2> QED
    BY <1>1, <1>6, <2>1, <2>2
<1>8. Len(Flat(done)) = e * Len(done)
  BY <1>3, FlatLength
<1>9. Flat(done) \in Octets /\ Flat(rest) \in Octets
  BY <1>3, <1>5, FlatType
<1> DEFINE p == Flat(done)
           q == Flat(rest)
<1>10. p \in Octets /\ q \in Octets /\ p \o q = Flat(b) /\ Len(p) = e * Len(done)
  BY <1>7, <1>8, <1>9
<1> HIDE DEF p, q
<1>11. Len(p \o q) = Len(p) + Len(q) /\ Len(p) \in Nat /\ Len(q) \in Nat
  BY <1>10, ConcatProperties, LenProperties DEF Octets
<1>12. Len(q) = Len(Flat(b)) - e * Len(done)
  <2> DEFINE z == e * Len(done)
             w == Len(Flat(b))
  <2>1. w = Len(p) + Len(q) /\ Len(p) = z
    BY <1>10, <1>11
  <2> HIDE DEF z, w
  <2>2. Len(q) = w - z
    BY <1>11, <2>1
  <2> QED
    BY <2>2 DEF z, w
<1> QED
  BY <1>0, <1>3, <1>5, <1>7, <1>12 DEF q

-----------------------------------------------------------------------------
(* The stream. *)

Tests == {"neither", "both", "exact", "minimum"}
OutKey == [test : Tests, key : Octets]

OutKeys == Seq(OutKey)

Picked(o, tests) == [i \in DOMAIN o |-> IF o[i].test \in tests THEN o[i].key ELSE <<>>]
By(o, tests) == Flat(Picked(o, tests))
Made == {"exact", "minimum"}
AsIs == {"neither", "both"}

LEMMA PickedType ==
    ASSUME NEW o \in OutKeys, NEW tests
    PROVE  /\ Picked(o, tests) \in List /\ Len(Picked(o, tests)) = Len(o)
           /\ By(o, tests) \in Octets
<1>1. ASSUME NEW i \in 1 .. Len(o) PROVE o[i].key \in Octets
  <2>1. o[i] \in OutKey
    BY DEF OutKeys
  <2> QED
    BY <2>1 DEF OutKey
<1>2. <<>> \in Octets
  BY DEF Octets
<1>3. Len(o) \in Nat /\ DOMAIN o = 1 .. Len(o)
  BY DEF OutKeys
<1> DEFINE n == Len(o)
           p == Picked(o, tests)
<1>4. p \in [1 .. n -> Octets] /\ n \in Nat
  BY <1>1, <1>2, <1>3 DEF Picked
<1> HIDE DEF n, p
<1>5. p \in List /\ Len(p) = n
  BY <1>4 DEF List
<1> QED
  BY <1>5, FlatType DEF p, n, By

LEMMA FlatEmpties ==
    ASSUME NEW n \in Nat, NEW s, s = [i \in 1 .. n |-> <<>>]
    PROVE  Flat(s) = <<>>
<1>1. <<>> \in Octets
  BY DEF Octets
<1>2. s \in List /\ Len(s) = n
  BY <1>1 DEF List
<1> DEFINE h == [i \in 0 .. n |-> <<>>]
<1>3. h \in [0 .. Len(s) -> Octets] /\ h[0] = <<>> /\ h[Len(s)] = <<>>
  BY <1>1, <1>2
<1>4. \A i \in 1 .. Len(s) : h[i] = h[i - 1] \o s[i]
  <2> SUFFICES ASSUME NEW i \in 1 .. n PROVE h[i] = h[i - 1] \o s[i]
    BY <1>2
  <2>1. i - 1 \in 0 .. n /\ i \in 0 .. n
    OBVIOUS
  <2>2. h[i] = <<>> /\ h[i - 1] = <<>> /\ s[i] = <<>>
    BY <2>1
  <2>3. <<>> \o <<>> = <<>>
    BY ConcatEmptySeq, EmptySeq
  <2> HIDE DEF h
  <2> QED
    BY <2>2, <2>3
<1> HIDE DEF h
<1> QED
  BY <1>2, <1>3, <1>4, FlatIs

(* Keys forwarded by a test go with those of the tests it is one of. *)
Adds(o, t, keys, tests) ==
    /\ o \o As(t, keys) \in OutKeys
    /\ t \in tests => By(o \o As(t, keys), tests) = By(o, tests) \o Flat(keys)
    /\ t \notin tests => By(o \o As(t, keys), tests) = By(o, tests)

LEMMA ByMore ==
    ASSUME NEW o \in OutKeys, NEW t \in Tests,
           NEW keys \in List, NEW tests
    PROVE  Adds(o, t, keys, tests)
<1> DEFINE a == As(t, keys)
           n == Len(keys)
<1>1. /\ n \in Nat /\ DOMAIN keys = 1 .. n /\ \A i \in 1 .. n : keys[i] \in Octets
  BY DEF List
<1>2. a = [i \in 1 .. n |-> [test |-> t, key |-> keys[i]]]
  BY <1>1 DEF As
<1> HIDE DEF a, n
<1>3. a \in OutKeys /\ Len(a) = n
  <2>1. a \in [1 .. n -> OutKey]
    BY <1>1, <1>2 DEF OutKey
  <2> QED
    BY <1>1, <2>1 DEF OutKeys
<1>4. o \o a \in OutKeys
  BY <1>3 DEF OutKeys
<1>5. Picked(o \o a, tests) = Picked(o, tests) \o Picked(a, tests)
  <2> DEFINE x == Picked(o \o a, tests)
             p == Picked(o, tests)
             q == Picked(a, tests)
  <2>1. /\ x \in List /\ p \in List /\ q \in List
        /\ Len(x) = Len(o \o a) /\ Len(p) = Len(o) /\ Len(q) = n
    BY <1>3, <1>4, PickedType
  <2>2. /\ Len(o \o a) = Len(o) + n /\ Len(o) \in Nat
        /\ \A i \in 1 .. Len(o) + n : (o \o a)[i] = IF i <= Len(o) THEN o[i] ELSE a[i - Len(o)]
    <3>1. o \in Seq(OutKey) /\ a \in Seq(OutKey) /\ Len(a) = n
      BY <1>3 DEF OutKeys
    <3>2. /\ Len(o \o a) = Len(o) + Len(a) /\ Len(o) \in Nat
          /\ \A i \in 1 .. Len(o) + Len(a) : (o \o a)[i] = IF i <= Len(o) THEN o[i] ELSE a[i - Len(o)]
      BY ONLY <3>1, ConcatProperties, LenProperties
    <3> QED
      BY <3>1, <3>2
  <2>3. /\ p \o q \in List /\ Len(p \o q) = Len(o) + n
        /\ \A i \in 1 .. Len(o) + n : (p \o q)[i] = IF i <= Len(o) THEN p[i] ELSE q[i - Len(o)]
    <3> HIDE DEF p, q, x
    <3>1. p \in Seq(Octets) /\ q \in Seq(Octets) /\ Len(p) = Len(o) /\ Len(q) = n
      BY <2>1 DEF List
    <3>2. /\ p \o q \in Seq(Octets) /\ Len(p \o q) = Len(p) + Len(q)
          /\ \A i \in 1 .. Len(p) + Len(q) :
               (p \o q)[i] = IF i <= Len(p) THEN p[i] ELSE q[i - Len(p)]
      BY ONLY <3>1, ConcatProperties
    <3> QED
      BY <3>1, <3>2 DEF List
  <2>4. ASSUME NEW i \in 1 .. Len(o) + n PROVE x[i] = (p \o q)[i]
    <3> DEFINE F(r) == IF r.test \in tests THEN r.key ELSE <<>>
    <3>1. \A j \in 1 .. Len(o) + n : x[j] = F((o \o a)[j])
      <4>1. DOMAIN (o \o a) = 1 .. Len(o) + n
        BY <1>4, <2>2 DEF OutKeys
      <4> QED
        BY <4>1 DEF Picked
    <3>2. \A j \in 1 .. Len(o) : p[j] = F(o[j])
      <4>1. DOMAIN o = 1 .. Len(o)
        BY DEF OutKeys
      <4> QED
        BY <4>1 DEF Picked
    <3>3. \A j \in 1 .. n : q[j] = F(a[j])
      <4>1. DOMAIN a = 1 .. n
        BY <1>2
      <4> QED
        BY <4>1 DEF Picked
    <3> HIDE DEF x, p, q, F
    <3>4. CASE i <= Len(o)
      <4>1. i \in 1 .. Len(o)
        BY <2>2, <3>4
      <4> QED
        BY <2>2, <2>3, <3>1, <3>2, <3>4, <4>1
    <3>5. CASE ~(i <= Len(o))
      <4>1. i - Len(o) \in 1 .. n
        BY <1>1, <2>2, <3>5
      <4> QED
        BY <2>2, <2>3, <3>1, <3>3, <3>5, <4>1
    <3> QED
      BY <3>4, <3>5
  <2> HIDE DEF x, p, q
  <2>5. x = p \o q
    BY <2>1, <2>2, <2>3, <2>4, SeqEqual DEF List
  <2> QED
    BY <2>5 DEF x, p, q
<1>6. Flat(Picked(a, tests)) = IF t \in tests THEN Flat(keys) ELSE <<>>
  <2>1. Picked(a, tests) = [i \in 1 .. n |-> IF t \in tests THEN keys[i] ELSE <<>>]
    BY <1>2 DEF Picked
  <2>2. CASE t \in tests
    <3>1. Picked(a, tests) = [i \in 1 .. n |-> keys[i]]
      BY <2>1, <2>2
    <3>2. keys = [i \in 1 .. n |-> keys[i]]
      BY <1>1 DEF List
    <3> QED
      BY <2>2, <3>1, <3>2
  <2>3. CASE t \notin tests
    <3>1. Picked(a, tests) = [i \in 1 .. n |-> <<>>]
      BY <2>1, <2>3
    <3> QED
      BY <1>1, <2>3, <3>1, FlatEmpties
  <2> QED
    BY <2>2, <2>3
<1>7. Flat(Picked(o, tests) \o Picked(a, tests)) = Flat(Picked(o, tests)) \o Flat(Picked(a, tests))
  BY <1>3, PickedType, FlatConcat
<1>8. Flat(Picked(o, tests)) \o <<>> = Flat(Picked(o, tests))
  BY PickedType, ConcatEmptySeq DEF By, Octets
<1> QED
  BY <1>4, <1>5, <1>6, <1>7, <1>8 DEF Adds, By, a

-----------------------------------------------------------------------------
InLine(s) ==
    \A i \in 1 .. Len(s) :
        \/ s[i][2] = 1 /\ (i > 1 => s[i][1] > s[i - 1][1])
        \/ i > 1 /\ s[i] = <<s[i - 1][1], s[i - 1][2] + 1>>

UpTo(s, c) == \A i \in 1 .. Len(s) : s[i][1] <= c
Apart(s, t) == \A i \in 1 .. Len(s), j \in 1 .. Len(t) : s[i][1] # t[j][1]

(* A key that comes after those in the stream, behind it. *)
LEMMA KeyBehind ==
    ASSUME NEW s \in Octets, NEW c \in Nat, NEW k \in Octets, k = [i \in 1 .. Len(k) |-> <<c, i>>],
           UpTo(s, c - 1)
    PROVE  /\ s \o k \in Octets /\ Len(s \o k) = Len(s) + Len(k) /\ UpTo(s \o k, c)
           /\ InLine(s) => InLine(s \o k)
           /\ \A t \in Octets : UpTo(t, c - 1) /\ Apart(s, t) => Apart(s \o k, t)
<1> DEFINE x == s \o k
<1>1. Len(s) \in Nat /\ Len(k) \in Nat
  BY DEF Octets
<1>2. /\ x \in Octets /\ Len(x) = Len(s) + Len(k)
      /\ \A i \in 1 .. Len(s) + Len(k) : x[i] = IF i <= Len(s) THEN s[i] ELSE k[i - Len(s)]
  BY ConcatProperties DEF Octets
<1>3. ASSUME NEW i \in 1 .. Len(s) PROVE x[i] = s[i]
  BY <1>1, <1>2
<1>4. ASSUME NEW i \in 1 .. Len(k) PROVE x[Len(s) + i] = <<c, i>>
  <2>1. Len(s) + i \in 1 .. Len(s) + Len(k) /\ ~(Len(s) + i <= Len(s))
    BY <1>1
  <2>2. (Len(s) + i) - Len(s) = i
    BY <1>1
  <2>3. x[Len(s) + i] = k[i]
    <3> HIDE DEF x
    <3> QED
      BY <1>2, <2>1, <2>2
  <2>4. k[i] = <<c, i>>
    OBVIOUS
  <2> QED
    BY <2>3, <2>4
<1>5. ASSUME NEW i \in 1 .. Len(x)
      PROVE  i \in 1 .. Len(s) \/ \E j \in 1 .. Len(k) : i = Len(s) + j
  <2>1. i \in 1 .. Len(s) \/ i - Len(s) \in 1 .. Len(k)
    BY <1>1, <1>2
  <2>2. i = Len(s) + (i - Len(s))
    BY <1>1, <1>2
  <2> QED
    BY <2>1, <2>2
<1> HIDE DEF x
<1>6. \A i \in 1 .. Len(s) : s[i] \in Nat \X Nat /\ s[i][1] \in Nat /\ s[i][1] <= c - 1
  BY DEF UpTo, Octets, Octet
<1>7. UpTo(x, c)
  <2> SUFFICES ASSUME NEW i \in 1 .. Len(x) PROVE x[i][1] <= c
    BY DEF UpTo
  <2>1. CASE i \in 1 .. Len(s)
    BY <1>3, <1>6, <2>1
  <2>2. ASSUME NEW j \in 1 .. Len(k), i = Len(s) + j PROVE x[i][1] <= c
    BY <1>4, <2>2
  <2> QED
    BY <1>5, <2>1, <2>2
<1>8. ASSUME InLine(s) PROVE InLine(x)
  <2> SUFFICES ASSUME NEW i \in 1 .. Len(x)
               PROVE  \/ x[i][2] = 1 /\ (i > 1 => x[i][1] > x[i - 1][1])
                      \/ i > 1 /\ x[i] = <<x[i - 1][1], x[i - 1][2] + 1>>
    BY DEF InLine
  <2>1. CASE i \in 1 .. Len(s)
    <3>1. i > 1 => i - 1 \in 1 .. Len(s)
      BY <1>1, <2>1
    <3>2. x[i] = s[i] /\ (i > 1 => x[i - 1] = s[i - 1])
      BY <1>3, <2>1, <3>1
    <3>3. \/ s[i][2] = 1 /\ (i > 1 => s[i][1] > s[i - 1][1])
          \/ i > 1 /\ s[i] = <<s[i - 1][1], s[i - 1][2] + 1>>
      BY <1>8, <2>1 DEF InLine
    <3> QED
      BY <3>2, <3>3
  <2>2. ASSUME NEW j \in 1 .. Len(k), i = Len(s) + j
        PROVE  \/ x[i][2] = 1 /\ (i > 1 => x[i][1] > x[i - 1][1])
               \/ i > 1 /\ x[i] = <<x[i - 1][1], x[i - 1][2] + 1>>
    <3>1. x[i] = <<c, j>>
      BY <1>4, <2>2
    <3>2. CASE j = 1
      <4>1. ASSUME i > 1 PROVE x[i][1] > x[i - 1][1]
        <5>1. i - 1 = Len(s) /\ i - 1 \in 1 .. Len(s)
          BY <1>1, <2>2, <3>2, <4>1
        <5>2. x[i - 1] = s[i - 1] /\ s[i - 1][1] \in Nat /\ s[i - 1][1] <= c - 1
          BY <1>3, <1>6, <5>1
        <5> QED
          BY <3>1, <5>2
      <4> QED
        BY <3>1, <3>2, <4>1
    <3>3. CASE j # 1
      <4>1. j - 1 \in 1 .. Len(k) /\ i - 1 = Len(s) + (j - 1) /\ i > 1 /\ (j - 1) + 1 = j
        BY <1>1, <2>2, <3>3
      <4>2. x[i - 1] = <<c, j - 1>>
        BY <1>4, <4>1
      <4> QED
        BY <3>1, <4>1, <4>2
    <3> QED
      BY <3>2, <3>3
  <2> QED
    BY <1>5, <2>1, <2>2
<1>9. ASSUME NEW t \in Octets, UpTo(t, c - 1), Apart(s, t) PROVE Apart(x, t)
  <2> SUFFICES ASSUME NEW i \in 1 .. Len(x), NEW j \in 1 .. Len(t) PROVE x[i][1] # t[j][1]
    BY DEF Apart
  <2>1. t[j][1] \in Nat /\ t[j][1] <= c - 1
    BY <1>9 DEF UpTo, Octets, Octet
  <2>2. CASE i \in 1 .. Len(s)
    BY <1>3, <1>9, <2>2 DEF Apart
  <2>3. ASSUME NEW l \in 1 .. Len(k), i = Len(s) + l PROVE x[i][1] # t[j][1]
    <3>1. x[i][1] = c
      BY <1>4, <2>3
    <3> QED
      BY <2>1, <3>1
  <2> QED
    BY <1>5, <2>2, <2>3
<1> QED
  BY <1>2, <1>7, <1>8, <1>9 DEF x

-----------------------------------------------------------------------------
CutTyped ==
    /\ exact \in Nat /\ minimum \in Nat
    /\ cutAt \in {"idle", "neither", "neither2", "both", "both2", "push", "exact", "minimum", "thrown"}
    /\ cutKey \in Octets /\ buffer \in List /\ cutOut \in OutKeys
    /\ came \in Nat /\ total \in Nat

(* The worker has a key in hand, the last that came. *)
InHand(a) == a \in {"neither", "neither2", "both", "both2", "push"}
Latest(a, c) == IF InHand(a) THEN c - 1 ELSE c
Hand(a, k, c) ==
    IF InHand(a) THEN c > 0 /\ k = [i \in 1 .. Len(k) |-> <<c, i>>] ELSE k = <<>>

(* What has been forwarded and is kept, s, and what was shipped as it was, t. *)
Orderly(s, t, k, last, n) ==
    /\ InLine(s) /\ UpTo(s, last) /\ UpTo(t, last) /\ Apart(s, t)
    /\ Len(s) + Len(t) + Len(k) = n

Stream(o, b) == By(o, Made) \o Flat(b)

CutInv ==
    /\ CutTyped /\ current = Len(Flat(buffer))
    /\ cutAt # "thrown" =>
         /\ Hand(cutAt, cutKey, came)
         /\ Orderly(Stream(cutOut, buffer), By(cutOut, AsIs), cutKey, Latest(cutAt, came), total)

LEMMA StreamType ==
    ASSUME NEW o \in OutKeys, NEW b \in List
    PROVE  /\ Stream(o, b) \in Octets /\ By(o, Made) \in Octets /\ By(o, AsIs) \in Octets
           /\ Flat(b) \in Octets /\ Len(Flat(b)) \in Nat
<1>1. By(o, Made) \in Octets /\ By(o, AsIs) \in Octets /\ Flat(b) \in Octets
  BY PickedType, FlatType
<1>2. By(o, Made) \o Flat(b) \in Octets
  BY <1>1, ConcatProperties DEF Octets
<1> QED
  BY <1>1, <1>2 DEF Stream, Octets

(* Bytes moved from the buffer to the keys forwarded stay in the stream. *)
Moved(o, b, t, keys, rest) ==
    Flat(keys) \o Flat(rest) = Flat(b) =>
        /\ o \o As(t, keys) \in OutKeys
        /\ Stream(o \o As(t, keys), rest) = Stream(o, b)
        /\ By(o \o As(t, keys), AsIs) = By(o, AsIs)

LEMMA Forwarded ==
    ASSUME NEW o \in OutKeys, NEW b \in List, NEW t \in Made, NEW keys \in List, NEW rest \in List
    PROVE  Moved(o, b, t, keys, rest)
<1> SUFFICES ASSUME Flat(keys) \o Flat(rest) = Flat(b)
             PROVE  /\ o \o As(t, keys) \in OutKeys
                    /\ Stream(o \o As(t, keys), rest) = Stream(o, b)
                    /\ By(o \o As(t, keys), AsIs) = By(o, AsIs)
  BY DEF Moved
<1> DEFINE o2 == o \o As(t, keys)
<1>1. t \in Tests /\ t \in Made /\ t \notin AsIs
  BY DEF Made, AsIs, Tests
<1>2. o2 \in OutKeys /\ By(o2, Made) = By(o, Made) \o Flat(keys) /\ By(o2, AsIs) = By(o, AsIs)
  <2>1. Adds(o, t, keys, Made) /\ Adds(o, t, keys, AsIs)
    BY <1>1, ByMore
  <2> QED
    BY <1>1, <2>1 DEF Adds
<1> HIDE DEF o2
<1> DEFINE p == By(o, Made)
           q == Flat(keys)
           r == Flat(rest)
<1>3. p \in Seq(Octet) /\ q \in Seq(Octet) /\ r \in Seq(Octet)
  BY PickedType, FlatType DEF Octets
<1>4. By(o2, Made) = p \o q /\ q \o r = Flat(b)
  BY <1>2
<1> HIDE DEF p, q, r
<1>5. (p \o q) \o r = p \o (q \o r)
  BY ONLY <1>3, ConcatAssociative
<1>6. Stream(o2, rest) = (p \o q) \o r /\ Stream(o, b) = p \o (q \o r)
  BY <1>4 DEF Stream, p, r
<1> QED
  BY <1>2, <1>5, <1>6 DEF o2

(* A key shipped as it is. *)
LEMMA Shipped ==
    ASSUME NEW o \in OutKeys, NEW b \in List, NEW t \in AsIs, NEW k \in Octets
    PROVE  /\ o \o As(t, <<k>>) \in OutKeys
           /\ Stream(o \o As(t, <<k>>), b) = Stream(o, b)
           /\ By(o \o As(t, <<k>>), AsIs) = By(o, AsIs) \o k
<1> DEFINE o2 == o \o As(t, <<k>>)
<1>1. t \in Tests /\ t \in AsIs /\ t \notin Made
  BY DEF Made, AsIs, Tests
<1>2. <<k>> \in List /\ Flat(<<k>>) = k
  <2>1. <<>> \in List /\ Append(<<>>, k) = <<k>>
    BY DEF List
  <2>2. <<k>> \in List /\ Flat(<<k>>) = Flat(<<>>) \o k
    BY <2>1, FlatAppend
  <2>3. <<>> \o k = k
    BY ConcatEmptySeq DEF Octets
  <2> QED
    BY <2>2, <2>3, FlatNone
<1>3. o2 \in OutKeys /\ By(o2, AsIs) = By(o, AsIs) \o k /\ By(o2, Made) = By(o, Made)
  <2> DEFINE keys == <<k>>
  <2>1. keys \in List /\ Flat(keys) = k
    BY <1>2
  <2> HIDE DEF keys
  <2>2. Adds(o, t, keys, Made) /\ Adds(o, t, keys, AsIs)
    BY <1>1, <2>1, ByMore
  <2> QED
    BY <1>1, <2>1, <2>2 DEF Adds, keys
<1> HIDE DEF o2
<1>5. Stream(o2, b) = Stream(o, b)
  BY <1>3 DEF Stream
<1> QED
  BY <1>3, <1>5 DEF o2

(* A key put into the buffer. *)
LEMMA Pushed ==
    ASSUME NEW o \in OutKeys, NEW b \in List, NEW k \in Octets
    PROVE  /\ Append(b, k) \in List /\ Stream(o, Append(b, k)) = Stream(o, b) \o k
           /\ Len(Flat(Append(b, k))) = Len(Flat(b)) + Len(k)
<1> DEFINE p == By(o, Made)
           q == Flat(b)
<1>1. p \in Seq(Octet) /\ q \in Seq(Octet) /\ k \in Seq(Octet)
  BY PickedType, FlatType DEF Octets
<1>2. Append(b, k) \in List /\ Flat(Append(b, k)) = q \o k
  BY FlatAppend
<1>3. Stream(o, Append(b, k)) = p \o Flat(Append(b, k)) /\ Stream(o, b) = p \o q
  BY DEF Stream
<1> HIDE DEF p, q
<1>4. Stream(o, Append(b, k)) = p \o (q \o k)
  BY <1>2, <1>3
<1>5. (p \o q) \o k = p \o (q \o k) /\ Len(q \o k) = Len(q) + Len(k)
  BY <1>1, ConcatAssociative, ConcatProperties
<1> QED
  BY <1>2, <1>3, <1>4, <1>5 DEF q

LEMMA CutInit == ResizeInit => CutInv
<1> SUFFICES ASSUME ResizeInit PROVE CutInv
  OBVIOUS
<1>1. /\ exact \in Nat /\ minimum \in Nat /\ cutAt = "idle" /\ cutKey = <<>> /\ buffer = <<>>
      /\ current = 0 /\ cutOut = <<>> /\ came = 0 /\ total = 0
  BY SizesAssumption DEF ResizeInit
<1>2. CutTyped
  BY <1>1 DEF CutTyped, Octets, List, OutKeys
<1>3. Flat(buffer) = <<>> /\ Len(Flat(buffer)) = 0
  BY <1>1, FlatNone
<1>4. \A tests : By(cutOut, tests) = <<>>
  <2>1. \A tests : Picked(cutOut, tests) = [i \in 1 .. 0 |-> <<>>]
    BY <1>1 DEF Picked
  <2> QED
    BY <2>1, FlatEmpties DEF By
<1>5. Stream(cutOut, buffer) = <<>>
  <2>1. <<>> \o <<>> = <<>>
    BY ConcatEmptySeq, EmptySeq
  <2> QED
    BY <1>3, <1>4, <2>1 DEF Stream
<1>6. Orderly(<<>>, <<>>, <<>>, 0, 0)
  BY DEF Orderly, InLine, UpTo, Apart
<1> QED
  BY <1>1, <1>2, <1>3, <1>4, <1>5, <1>6 DEF CutInv, Hand, InHand, Latest

LEMMA CutNext ==
    ASSUME CutInv, [ResizeNext]_resizeVars
    PROVE  CutInv'
<1> DEFINE s == Stream(cutOut, buffer)
           t == By(cutOut, AsIs)
<1>1. /\ CutTyped /\ current = Len(Flat(buffer))
      /\ cutAt # "thrown" => Hand(cutAt, cutKey, came) /\ Orderly(s, t, cutKey, Latest(cutAt, came), total)
  BY DEF CutInv
<1>2. /\ exact \in Nat /\ minimum \in Nat /\ cutKey \in Octets /\ buffer \in List
      /\ cutOut \in OutKeys /\ came \in Nat /\ total \in Nat
  BY <1>1 DEF CutTyped
<1>3. /\ s \in Octets /\ t \in Octets /\ Flat(buffer) \in Octets /\ Len(s) \in Nat /\ Len(t) \in Nat
      /\ Len(cutKey) \in Nat /\ current \in Nat
  BY <1>1, <1>2, StreamType DEF Octets
<1>4. ASSUME NEW n \in KeySizes, Arrive(n) PROVE CutInv'
  <2>1. /\ cutAt = "idle" /\ came' = came + 1 /\ cutKey' = [i \in 1 .. n |-> <<came + 1, i>>]
        /\ cutAt' = "neither" /\ total' = total + n
        /\ UNCHANGED <<exact, minimum, buffer, current, cutOut, cutSets>>
    BY <1>4 DEF Arrive
  <2>2. n \in Nat
    BY SizesAssumption
  <2>3. cutKey' \in Octets /\ Len(cutKey') = n
    <3>1. cutKey' \in [1 .. n -> Octet]
      BY <1>2, <2>1, <2>2 DEF Octet
    <3> QED
      BY <2>2, <3>1 DEF Octets
  <2>4. cutKey = <<>> /\ Len(cutKey) = 0 /\ Orderly(s, t, cutKey, came, total)
    BY <1>1, <2>1 DEF Hand, InHand, Latest
  <2>5. Orderly(s, t, cutKey', came, total')
    <3>1. Len(s) + Len(t) + 0 = total
      BY <2>4 DEF Orderly
    <3>2. Len(s) + Len(t) + n = total + n
      BY <1>3, <2>2, <3>1
    <3>3. cutKey' = [i \in 1 .. n |-> <<came + 1, i>>] /\ total' = total + n
      BY <2>1
    <3> HIDE DEF s, t
    <3> QED
      BY ONLY <2>3, <2>4, <3>2, <3>3 DEF Orderly
  <2>6. Hand(cutAt', cutKey', came')
    <3>1. cutAt' = "neither" /\ came' > 0
      BY <1>2, <2>1
    <3>2. cutKey' = [i \in 1 .. Len(cutKey') |-> <<came', i>>]
      BY <2>1, <2>3
    <3> QED
      BY ONLY <3>1, <3>2 DEF Hand, InHand
  <2>7. Latest(cutAt', came') = came
    BY <1>2, <2>1 DEF Latest, InHand
  <2>8. CutTyped'
    BY <1>1, <1>2, <2>1, <2>2, <2>3 DEF CutTyped
  <2>9. (Stream(cutOut, buffer))' = s /\ By(cutOut, AsIs)' = t /\ (current = Len(Flat(buffer)))'
    BY <1>1, <2>1
  <2> HIDE DEF s, t
  <2> QED
    BY <2>5, <2>6, <2>7, <2>8, <2>9 DEF CutInv
<1>5. CASE Test
  <2>1. /\ cutAt # "thrown" /\ InHand(cutAt) /\ InHand(cutAt') /\ CutTyped' /\ cutAt' # "thrown"
        /\ UNCHANGED <<exact, minimum, cutKey, buffer, current, cutOut, came, cutSets, total>>
    BY <1>1, <1>2, <1>5 DEF Test, InHand, CutTyped
  <2>2. Hand(cutAt', cutKey', came') /\ Latest(cutAt', came') = Latest(cutAt, came)
    BY <1>1, <2>1 DEF Hand, Latest
  <2>3. (Stream(cutOut, buffer))' = s /\ By(cutOut, AsIs)' = t /\ (current = Len(Flat(buffer)))'
    BY <1>1, <2>1
  <2> HIDE DEF s, t
  <2> QED
    BY <1>1, <2>1, <2>2, <2>3 DEF CutInv
<1>6. CASE ShipAsIs
  <2>1. /\ cutAt \in {"neither2", "both2"} /\ cutAt' = "idle" /\ cutKey' = <<>>
        /\ \E w \in AsIs : cutOut' = cutOut \o As(w, <<cutKey>>)
        /\ UNCHANGED <<exact, minimum, buffer, current, came, cutSets, total>>
    BY <1>6 DEF ShipAsIs, AsIs
  <2>2. PICK w \in AsIs : cutOut' = cutOut \o As(w, <<cutKey>>)
    BY <2>1
  <2>3. /\ cutOut' \in OutKeys /\ Stream(cutOut', buffer) = s
        /\ By(cutOut', AsIs) = t \o cutKey
    BY <1>2, <2>2, Shipped
  <2>4. /\ came > 0 /\ cutKey = [i \in 1 .. Len(cutKey) |-> <<came, i>>]
        /\ Orderly(s, t, cutKey, came - 1, total)
    BY <1>1, <2>1 DEF Hand, InHand, Latest
  <2>5. Orderly(s, t \o cutKey, <<>>, came, total)
    <3>1. InLine(s) /\ UpTo(s, came - 1) /\ UpTo(t, came - 1) /\ Apart(s, t)
      BY <2>4 DEF Orderly
    <3>2. /\ t \o cutKey \in Octets /\ Len(t \o cutKey) = Len(t) + Len(cutKey)
          /\ UpTo(t \o cutKey, came)
      <4> HIDE DEF s, t
      <4> QED
        BY <1>2, <1>3, <2>4, <3>1, KeyBehind
    <3>3. Apart(t, s)
      BY <3>1 DEF Apart
    <3>4. Apart(t \o cutKey, s)
      <4> HIDE DEF s, t
      <4> QED
        BY <1>2, <1>3, <2>4, <3>1, <3>3, KeyBehind
    <3>5. Apart(s, t \o cutKey)
      <4> HIDE DEF s, t
      <4> QED
        BY <3>4 DEF Apart
    <3>6. UpTo(s, came)
      <4>1. \A i \in 1 .. Len(s) : s[i][1] \in Nat
        BY <1>3 DEF Octets, Octet
      <4> HIDE DEF s, t
      <4> QED
        BY <1>2, <3>1, <4>1 DEF UpTo
    <3>7. Len(s) + Len(t \o cutKey) + 0 = total
      <4>1. Len(s) + Len(t) + Len(cutKey) = total
        BY <2>4 DEF Orderly
      <4> HIDE DEF s, t
      <4> QED
        BY <1>3, <3>2, <4>1
    <3> HIDE DEF s, t
    <3> QED
      BY <3>1, <3>2, <3>5, <3>6, <3>7 DEF Orderly
  <2>6. CutTyped'
    <3>1. <<>> \in Octets
      BY DEF Octets
    <3> QED
      BY <1>1, <1>2, <2>1, <2>3, <3>1 DEF CutTyped
  <2>7. Hand(cutAt', cutKey', came') /\ Latest(cutAt', came') = came
    BY <2>1 DEF Hand, InHand, Latest
  <2>8. /\ (Stream(cutOut, buffer))' = s /\ By(cutOut, AsIs)' = t \o cutKey
        /\ (current = Len(Flat(buffer)))'
    BY <1>1, <2>1, <2>3
  <2> HIDE DEF s, t
  <2> QED
    BY <2>1, <2>5, <2>6, <2>7, <2>8 DEF CutInv
<1>7. CASE Push
  <2>1. /\ cutAt = "push" /\ cutAt' = "exact" /\ buffer' = Append(buffer, cutKey)
        /\ current' = current + Len(cutKey) /\ cutKey' = <<>>
        /\ UNCHANGED <<exact, minimum, cutOut, came, cutSets, total>>
    BY <1>7 DEF Push
  <2>2. /\ buffer' \in List /\ Stream(cutOut, buffer') = s \o cutKey
        /\ Len(Flat(buffer')) = Len(Flat(buffer)) + Len(cutKey)
    BY <1>2, <2>1, Pushed
  <2>3. /\ came > 0 /\ cutKey = [i \in 1 .. Len(cutKey) |-> <<came, i>>]
        /\ Orderly(s, t, cutKey, came - 1, total)
    BY <1>1, <2>1 DEF Hand, InHand, Latest
  <2>4. Orderly(s \o cutKey, t, <<>>, came, total)
    <3>1. InLine(s) /\ UpTo(s, came - 1) /\ UpTo(t, came - 1) /\ Apart(s, t)
      BY <2>3 DEF Orderly
    <3>2. /\ s \o cutKey \in Octets /\ Len(s \o cutKey) = Len(s) + Len(cutKey)
          /\ UpTo(s \o cutKey, came) /\ InLine(s \o cutKey) /\ Apart(s \o cutKey, t)
      <4> HIDE DEF s, t
      <4> QED
        BY <1>2, <1>3, <2>3, <3>1, KeyBehind
    <3>6. UpTo(t, came)
      <4>1. \A i \in 1 .. Len(t) : t[i][1] \in Nat
        BY <1>3 DEF Octets, Octet
      <4> HIDE DEF s, t
      <4> QED
        BY <1>2, <3>1, <4>1 DEF UpTo
    <3>7. Len(s \o cutKey) + Len(t) + 0 = total
      <4>1. Len(s) + Len(t) + Len(cutKey) = total
        BY <2>3 DEF Orderly
      <4> HIDE DEF s, t
      <4> QED
        BY <1>3, <3>2, <4>1
    <3> HIDE DEF s, t
    <3> QED
      BY <3>1, <3>2, <3>6, <3>7 DEF Orderly
  <2>5. CutTyped'
    BY <1>1, <1>2, <2>1, <2>2 DEF CutTyped, Octets
  <2>6. Hand(cutAt', cutKey', came') /\ Latest(cutAt', came') = came
    BY <2>1 DEF Hand, InHand, Latest
  <2>7. /\ (Stream(cutOut, buffer))' = s \o cutKey /\ By(cutOut, AsIs)' = t
        /\ (current = Len(Flat(buffer)))'
    BY <1>1, <2>1, <2>2
  <2> HIDE DEF s, t
  <2> QED
    BY <2>1, <2>4, <2>5, <2>6, <2>7 DEF CutInv
<1>8. CASE PickExact
  <2>1. cutAt = "exact" /\ UNCHANGED <<exact, minimum, cutKey, came, cutSets, total>>
    BY <1>8 DEF PickExact
  <2>2. /\ Hand(cutAt, cutKey, came) /\ cutKey = <<>>
        /\ Orderly(s, t, cutKey, came, total)
    BY <1>1, <2>1 DEF Hand, InHand, Latest
  <2>3. CASE cutAt' = "minimum" /\ UNCHANGED <<buffer, current, cutOut>>
    <3>1. CutTyped'
      BY <1>1, <1>2, <2>1, <2>3 DEF CutTyped
    <3>2. Hand(cutAt', cutKey', came') /\ Latest(cutAt', came') = came
      BY <2>1, <2>2, <2>3 DEF Hand, InHand, Latest
    <3>3. (Stream(cutOut, buffer))' = s /\ By(cutOut, AsIs)' = t /\ (current = Len(Flat(buffer)))'
      BY <1>1, <2>3
    <3> HIDE DEF s, t
    <3> QED
      BY <2>1, <2>2, <3>1, <3>2, <3>3 DEF CutInv
  <2>4. ASSUME NEW list, list = SplitAt(buffer, exact),
               NEW joined, joined = Joined(list, exact), exact > 0,
               buffer' = SubSeq(list, joined.used + 1, Len(list)),
               current' = current - exact * Len(joined.done),
               \/ /\ cutAt' = "minimum"
                  /\ cutOut' = cutOut \o As("exact", joined.done)
               \/ cutAt' = "thrown" /\ cutOut' = cutOut
        PROVE  CutInv'
    <3>1. exact \in Nat \ {0}
      BY <1>2, <2>4
    <3>2. /\ joined.done \in List /\ buffer' \in List
          /\ Flat(joined.done) \o Flat(buffer') = Flat(buffer)
          /\ Len(Flat(buffer')) = Len(Flat(buffer)) - exact * Len(joined.done)
      <4>1. joined.done = Done(buffer, exact) /\ buffer' = Rest(buffer, exact)
        BY <2>4 DEF Done, Rest
      <4>2. /\ Done(buffer, exact) \in List /\ Rest(buffer, exact) \in List
            /\ Flat(Done(buffer, exact)) \o Flat(Rest(buffer, exact)) = Flat(buffer)
            /\ Len(Flat(Rest(buffer, exact))) =
                 Len(Flat(buffer)) - exact * Len(Done(buffer, exact))
        BY <1>2, <3>1, CutAndJoined
      <4> QED
        BY <4>1, <4>2
    <3>3. current' = Len(Flat(buffer'))
      BY <1>1, <2>4, <3>2
    <3>4. CASE cutAt' = "minimum" /\ cutOut' = cutOut \o As("exact", joined.done)
      <4>1. /\ cutOut' \in OutKeys /\ Stream(cutOut', buffer') = s
            /\ By(cutOut', AsIs) = t
        <5>1. "exact" \in Made
          BY DEF Made
        <5>2. Moved(cutOut, buffer, "exact", joined.done, buffer')
          <6> DEFINE keys == joined.done
          <6>1. keys \in List
            BY <3>2
          <6> HIDE DEF keys
          <6>2. Moved(cutOut, buffer, "exact", keys, buffer')
            BY ONLY <1>2, <3>2, <5>1, <6>1, Forwarded
          <6> QED
            BY <6>2 DEF keys
        <5> QED
          BY <3>2, <3>4, <5>2 DEF Moved
      <4>2. CutTyped'
        BY <1>1, <1>2, <2>1, <3>2, <3>4, <4>1 DEF CutTyped
      <4>3. Hand(cutAt', cutKey', came') /\ Latest(cutAt', came') = came
        BY <2>1, <2>2, <3>4 DEF Hand, InHand, Latest
      <4> HIDE DEF s, t
      <4> QED
        BY <2>1, <2>2, <3>3, <4>1, <4>2, <4>3 DEF CutInv
    <3>5. CASE cutAt' = "thrown" /\ cutOut' = cutOut
      <4>1. CutTyped'
        BY <1>1, <1>2, <2>1, <3>2, <3>5 DEF CutTyped
      <4> QED
        BY <3>3, <3>5, <4>1 DEF CutInv
    <3> QED
      BY <2>4, <3>4, <3>5
  <2> HIDE DEF s, t
  <2> QED
    BY <1>8, <2>3, <2>4 DEF PickExact
<1>9. CASE PickMinimum
  <2>1. /\ cutAt = "minimum" /\ cutAt' = "idle"
        /\ UNCHANGED <<exact, minimum, cutKey, came, cutSets, total>>
    BY <1>9 DEF PickMinimum
  <2>2. cutKey = <<>> /\ Orderly(s, t, cutKey, came, total)
    BY <1>1, <2>1 DEF Hand, InHand, Latest
  <2>3. Hand(cutAt', cutKey', came') /\ Latest(cutAt', came') = came
    BY <2>1, <2>2 DEF Hand, InHand, Latest
  <2>4. CASE UNCHANGED <<buffer, current, cutOut>>
    <3>1. CutTyped'
      BY <1>1, <1>2, <2>1, <2>4 DEF CutTyped
    <3>2. (Stream(cutOut, buffer))' = s /\ By(cutOut, AsIs)' = t /\ (current = Len(Flat(buffer)))'
      BY <1>1, <2>4
    <3> HIDE DEF s, t
    <3> QED
      BY <2>1, <2>2, <2>3, <3>1, <3>2 DEF CutInv
  <2>5. CASE /\ cutOut' = cutOut \o As("minimum", <<FlattenSeq(buffer)>>)
             /\ buffer' = <<>> /\ current' = 0
    <3> DEFINE k == Flat(buffer)
    <3>1. k \in Octets /\ cutOut' = cutOut \o As("minimum", <<k>>)
      BY <1>3, <2>5 DEF Flat
    <3>2. <<>> \in List /\ Append(<<>>, k) = <<k>> /\ <<k>> \in List
      BY <3>1 DEF List
    <3>3. Flat(<<k>>) = Flat(<<>>) \o k
      BY <3>1, <3>2, FlatAppend
    <3>4. Flat(<<k>>) \o Flat(<<>>) = k
      <4>1. <<>> \o k = k /\ k \o <<>> = k
        BY <3>1, ConcatEmptySeq DEF Octets
      <4> HIDE DEF k
      <4> QED
        BY <3>3, <4>1, FlatNone
    <3>5. /\ cutOut' \in OutKeys /\ Stream(cutOut', <<>>) = s
          /\ By(cutOut', AsIs) = t
      <4>1. "minimum" \in Made
        BY DEF Made
      <4> DEFINE none == <<>>
                 keys == <<k>>
      <4>2. /\ none \in List /\ keys \in List /\ Flat(keys) \o Flat(none) = Flat(buffer)
            /\ cutOut' = cutOut \o As("minimum", keys)
        BY <3>1, <3>2, <3>4
      <4> HIDE DEF none, keys
      <4>3. /\ cutOut' \in OutKeys /\ Stream(cutOut', none) = s
            /\ By(cutOut', AsIs) = t
        <5>1. Moved(cutOut, buffer, "minimum", keys, none)
          BY ONLY <1>2, <4>1, <4>2, Forwarded
        <5> QED
          BY <4>2, <5>1 DEF Moved
      <4> QED
        BY <4>3 DEF none
    <3>6. Len(Flat(<<>>)) = 0
      BY FlatNone
    <3>7. CutTyped'
      BY <1>1, <1>2, <2>1, <2>5, <3>2, <3>5 DEF CutTyped
    <3>8. Stream(cutOut', buffer') = s /\ current' = Len(Flat(buffer'))
      BY <2>5, <3>5, <3>6
    <3> HIDE DEF s, t
    <3> QED
      BY <2>1, <2>2, <2>3, <3>5, <3>7, <3>8 DEF CutInv
  <2> QED
    BY <1>9, <2>4, <2>5 DEF PickMinimum
<1>10. ASSUME NEW n \in Sizes, SetSize(n) PROVE CutInv'
  <2>1. /\ exact' \in Nat /\ minimum' \in Nat
        /\ UNCHANGED <<cutAt, cutKey, buffer, current, cutOut, came, total>>
    BY <1>10, SizesAssumption DEF SetSize
  <2>2. CutTyped'
    BY <1>1, <2>1 DEF CutTyped
  <2>3. (Stream(cutOut, buffer))' = s /\ By(cutOut, AsIs)' = t /\ (current = Len(Flat(buffer)))'
    BY <1>1, <2>1
  <2> HIDE DEF s, t
  <2> QED
    BY <1>1, <2>1, <2>2, <2>3 DEF CutInv
<1>11. CASE UNCHANGED resizeVars
  <2>1. UNCHANGED <<exact, minimum, cutAt, cutKey, buffer, current, cutOut, came, total>>
    BY <1>11 DEF resizeVars
  <2>2. CutTyped'
    BY <1>1, <2>1 DEF CutTyped
  <2>3. (Stream(cutOut, buffer))' = s /\ By(cutOut, AsIs)' = t /\ (current = Len(Flat(buffer)))'
    BY <1>1, <2>1
  <2> HIDE DEF s, t
  <2> QED
    BY <1>1, <2>1, <2>2, <2>3 DEF CutInv
<1> HIDE DEF s, t
<1> QED
  BY <1>4, <1>5, <1>6, <1>7, <1>8, <1>9, <1>10, <1>11 DEF ResizeNext

LEMMA StreamFromInv == CutInv => StreamKept
<1> SUFFICES ASSUME CutInv PROVE StreamKept
  OBVIOUS
<1> DEFINE s == Stream(cutOut, buffer)
           t == By(cutOut, AsIs)
<1>1. current = Len(FlattenSeq(buffer))
  BY DEF CutInv, Flat
<1>2. cutAt # "thrown" => Orderly(s, t, cutKey, Latest(cutAt, came), total)
  BY DEF CutInv
<1>3. s = BytesBy({"exact", "minimum"}) \o FlattenSeq(buffer)
  BY DEF Stream, By, Picked, Flat, Made, BytesBy
<1>4. t = BytesBy({"neither", "both"})
  BY DEF By, Picked, Flat, AsIs, BytesBy
<1>5. s \in Octets /\ t \in Octets
  BY StreamType DEF CutInv, CutTyped
<1> HIDE DEF s, t
<1>6. ASSUME Orderly(s, t, cutKey, Latest(cutAt, came), total)
      PROVE  /\ \A i \in 1 .. Len(s) :
                  \/ s[i][2] = 1 /\ (i > 1 => s[i][1] > s[i - 1][1])
                  \/ i > 1 /\ s[i] = <<s[i - 1][1], s[i - 1][2] + 1>>
             /\ Len(s) + Len(t) + Len(cutKey) = total
             /\ {b[1] : b \in ToSet(s)} \cap {b[1] : b \in ToSet(t)} = {}
  <2>1. InLine(s) /\ Apart(s, t) /\ Len(s) + Len(t) + Len(cutKey) = total
    BY <1>6 DEF Orderly
  <2>2. DOMAIN s = 1 .. Len(s) /\ DOMAIN t = 1 .. Len(t)
    BY <1>5 DEF Octets
  <2>3. {b[1] : b \in ToSet(s)} \cap {b[1] : b \in ToSet(t)} = {}
    <3>1. ASSUME NEW b \in ToSet(s), NEW c \in ToSet(t) PROVE b[1] # c[1]
      <4>1. PICK i \in 1 .. Len(s) : b = s[i]
        BY <2>2 DEF ToSet
      <4>2. PICK j \in 1 .. Len(t) : c = t[j]
        BY <2>2 DEF ToSet
      <4> QED
        BY <2>1, <4>1, <4>2 DEF Apart
    <3> QED
      BY <3>1
  <2> QED
    BY <2>1, <2>3 DEF InLine
<1>7. StreamKept <=>
        /\ current = Len(FlattenSeq(buffer))
        /\ cutAt # "thrown" =>
            /\ \A i \in 1 .. Len(s) :
                 \/ s[i][2] = 1 /\ (i > 1 => s[i][1] > s[i - 1][1])
                 \/ i > 1 /\ s[i] = <<s[i - 1][1], s[i - 1][2] + 1>>
            /\ Len(s) + Len(t) + Len(cutKey) = total
            /\ {b[1] : b \in ToSet(s)} \cap {b[1] : b \in ToSet(t)} = {}
  BY ONLY <1>3, <1>4 DEF StreamKept
<1> QED
  BY <1>1, <1>2, <1>6, <1>7

(* What is forwarded and kept is what came: nothing is lost, doubled or    *)
(* moved by cutting and joining, and nCurrentSize is the size of the buffer *)
(* (qkd-resize.cpp:165-280, 288-344): for all sizes of keys, all sizes set,*)
(* and any number of both.                                                 *)
THEOREM SpecStreamKept == ResizeSpec => []StreamKept
<1>1. ResizeInit => CutInv
  BY CutInit
<1>2. CutInv /\ [ResizeNext]_resizeVars => CutInv'
  BY CutNext
<1> QED
  BY <1>1, <1>2, StreamFromInv, PTL DEF ResizeSpec
=============================================================================
