---------------------------- MODULE KeyDB_proofs ----------------------------
(***************************************************************************)
(* Lemmas about the operators of KeyDB: what a search finds, and what each *)
(* operation keeps true of a database.                                     *)
(***************************************************************************)
EXTENDS KeyDB, FiniteSetTheorems, TLAPS

-----------------------------------------------------------------------------
(* Sets of slots.                                                          *)

(* A set of slots is finite, so that counting its members means something. *)
LEMMA SlotsFinite ==
    ASSUME NEW S \in SUBSET Id
    PROVE  IsFiniteSet(S) /\ Cardinality(S) \in Nat
<1>1. IsFiniteSet(Id)
  BY FS_Interval, AmountAssumption DEF Id
<1>2. QED
  BY <1>1, FS_Subset, FS_CardinalityType

-----------------------------------------------------------------------------
(* The walk of a search (db_ram.cpp:249-282): positions from a cursor.     *)

(* Seen from a cursor in the table, a slot is either ahead, or behind and  *)
(* reached after the wrap.                                                 *)
LEMMA DistValue ==
    ASSUME NEW c \in Id, NEW i \in Id
    PROVE  Dist(c, i) = IF c <= i THEN i - c ELSE i - c + Amount
<1>1. Amount \in Nat /\ Amount > 0 /\ c \in 0 .. Amount - 1 /\ i \in 0 .. Amount - 1
  BY AmountAssumption DEF Id
<1>2. CASE c <= i
  <2>1. (i - c) \in 0 .. Amount - 1
    BY <1>1, <1>2
  <2>2. (i - c) % Amount = i - c
    BY <1>1, <2>1
  <2>3. QED
    BY <1>2, <2>2 DEF Dist
<1>3. CASE ~(c <= i)
  <2>1. (i - c + Amount) \in 0 .. Amount - 1
    BY <1>1, <1>3
  <2>2. (i - c) % Amount = i - c + Amount
    BY <1>1, <2>1
  <2>3. QED
    BY <1>3, <2>2 DEF Dist
<1>4. QED
  BY <1>2, <1>3

(* Two slots are never at the same distance. *)
LEMMA DistInjective ==
    ASSUME NEW c \in Id
    PROVE  \A i, j \in Id : /\ Dist(c, i) \in Nat
                            /\ Dist(c, i) = Dist(c, j) => i = j
<1>1. Amount \in Nat /\ Id = 0 .. Amount - 1
  BY AmountAssumption DEF Id
<1> QED
  BY <1>1, DistValue

(* The ranks of the slots of E are the numbers 1 .. Cardinality(E), each   *)
(* once: the walk meets the slots one after the other and misses none.     *)
LEMMA RankBijection ==
    ASSUME NEW c \in Id, NEW E \in SUBSET Id
    PROVE  /\ \A i \in E : Rank(c, E, i) \in 1 .. Cardinality(E)
           /\ \A i, j \in E : Rank(c, E, i) = Rank(c, E, j) => i = j
           /\ \A k \in 1 .. Cardinality(E) : \E i \in E : Rank(c, E, i) = k
<1> DEFINE Near(i) == {j \in E : Dist(c, j) <= Dist(c, i)}
           rank == [i \in E |-> Rank(c, E, i)]
           R == 1 .. Cardinality(E)
<1>1. \A i, j \in Id : Dist(c, i) \in Nat /\ (Dist(c, i) = Dist(c, j) => i = j)
  BY DistInjective
<1>2. IsFiniteSet(E) /\ Cardinality(E) \in Nat
  BY SlotsFinite
<1>3. ASSUME NEW i \in E
      PROVE  /\ IsFiniteSet(Near(i))
             /\ Rank(c, E, i) = Cardinality(Near(i))
             /\ Rank(c, E, i) \in R
  <2>1. Near(i) \in SUBSET E /\ Near(i) \in SUBSET Id /\ i \in Near(i)
    BY <1>1
  <2>2. IsFiniteSet(Near(i)) /\ Cardinality(Near(i)) \in Nat
    BY <2>1, SlotsFinite
  <2>3. Cardinality(Near(i)) <= Cardinality(E)
    BY <2>1, <1>2, FS_Subset
  <2>4. Cardinality(Near(i)) # 0
    BY <2>1, <2>2, FS_EmptySet
  <2>5. Rank(c, E, i) = Cardinality(Near(i))
    BY DEF Rank
  <2>6. QED
    BY <1>2, <2>2, <2>3, <2>4, <2>5
<1>4. ASSUME NEW i \in E, NEW j \in E, Dist(c, i) < Dist(c, j)
      PROVE  Rank(c, E, i) # Rank(c, E, j)
  <2>1. Near(i) \in SUBSET Near(j) /\ j \in Near(j) /\ j \notin Near(i)
    BY <1>1, <1>4
  <2>2. Near(i) # Near(j)
    BY <2>1
  <2>3. Cardinality(Near(i)) # Cardinality(Near(j))
    BY <1>3, <2>1, <2>2, FS_Subset
  <2>4. QED
    BY <1>3, <2>3
<1>5. \A i, j \in E : Rank(c, E, i) = Rank(c, E, j) => i = j
  <2>1. ASSUME NEW i \in E, NEW j \in E, i # j
        PROVE  Rank(c, E, i) # Rank(c, E, j)
    <3>1. Dist(c, i) < Dist(c, j) \/ Dist(c, j) < Dist(c, i)
      BY <1>1, <2>1
    <3>2. QED
      BY <3>1, <1>4
  <2>2. QED
    BY <2>1
<1>6. rank \in Injection(E, R)
  BY <1>3, <1>5 DEF Injection, IsInjective
<1>7. IsFiniteSet(R) /\ Cardinality(R) = Cardinality(E)
  BY <1>2, FS_Interval
<1>8. rank \in Surjection(E, R)
  BY <1>6, <1>7, FS_Injection
<1>9. \A k \in R : \E i \in E : rank[i] = k
  BY <1>8 DEF Surjection
<1>10. QED
  BY <1>3, <1>5, <1>9

(* The first n slots of the walk: at most n, and all there are if fewer.   *)
LEMMA HitsCount ==
    ASSUME NEW c \in Id, NEW E \in SUBSET Id, NEW n \in Nat
    PROVE  /\ Hits(c, E, n) \in SUBSET E
           /\ Cardinality(Hits(c, E, n)) <= n
           /\ Cardinality(Hits(c, E, n)) < n => Hits(c, E, n) = E
<1> DEFINE H == Hits(c, E, n)
           rank == [i \in H |-> Rank(c, E, i)]
           R == 1 .. n
<1>1. H \in SUBSET E /\ H \in SUBSET Id
  BY DEF Hits
<1>2. IsFiniteSet(H) /\ Cardinality(H) \in Nat /\ Cardinality(E) \in Nat
  BY <1>1, SlotsFinite
<1>3. /\ \A i \in E : Rank(c, E, i) \in 1 .. Cardinality(E)
      /\ \A i, j \in E : Rank(c, E, i) = Rank(c, E, j) => i = j
      /\ \A k \in 1 .. Cardinality(E) : \E i \in E : Rank(c, E, i) = k
  BY RankBijection
<1>4. \A i \in E : i \in H <=> Rank(c, E, i) <= n
  BY DEF Hits
<1>5. \A i \in H : Rank(c, E, i) \in R
  BY <1>1, <1>2, <1>3, <1>4
<1>6. rank \in Injection(H, R)
  BY <1>1, <1>3, <1>5 DEF Injection, IsInjective
<1>7. IsFiniteSet(R) /\ Cardinality(R) = n
  BY FS_Interval
<1>8. Cardinality(H) <= n
  BY <1>6, <1>7, FS_Injection
<1>9. ASSUME H # E PROVE Cardinality(H) = n
  <2>1. PICK e \in E : e \notin H
    BY <1>1, <1>9
  <2>2. n < Cardinality(E)
    BY <1>2, <1>3, <1>4, <2>1
  <2>3. \A k \in R : \E i \in H : rank[i] = k
    <3>1. ASSUME NEW k \in R PROVE \E i \in H : rank[i] = k
      <4>1. k \in 1 .. Cardinality(E)
        BY <1>2, <2>2
      <4>2. PICK i \in E : Rank(c, E, i) = k
        BY <1>3, <4>1
      <4>3. i \in H
        BY <1>4, <4>2
      <4>4. QED
        BY <4>2, <4>3
    <3>2. QED
      BY <3>1
  <2>4. rank \in Surjection(H, R)
    BY <1>5, <2>3 DEF Surjection
  <2>5. QED
    BY <1>6, <1>7, <2>4, FS_Injection
<1>10. QED
  BY <1>1, <1>2, <1>8, <1>9

(* The list a search returns holds each slot of its set once.              *)
LEMMA AlongIsList ==
    ASSUME NEW c \in Id, NEW S \in SUBSET Id
    PROVE  /\ Along(c, S) \in [1 .. Cardinality(S) -> S]
           /\ Len(Along(c, S)) = Cardinality(S)
           /\ {Along(c, S)[k] : k \in DOMAIN Along(c, S)} = S
<1> DEFINE L == Along(c, S)
           R == 1 .. Cardinality(S)
<1>1. Cardinality(S) \in Nat
  BY SlotsFinite
<1>2. /\ \A i \in S : Rank(c, S, i) \in R
      /\ \A i, j \in S : Rank(c, S, i) = Rank(c, S, j) => i = j
      /\ \A k \in R : \E i \in S : Rank(c, S, i) = k
  BY RankBijection
<1>3. ASSUME NEW k \in R
      PROVE  L[k] \in S /\ Rank(c, S, L[k]) = k
  <2>1. L[k] = CHOOSE i \in S : Rank(c, S, i) = k
    BY DEF Along
  <2>2. \E i \in S : Rank(c, S, i) = k
    BY <1>2
  <2>3. QED
    BY <2>1, <2>2
<1>4. DOMAIN L = R /\ L = [k \in R |-> L[k]]
  BY DEF Along
<1>5. L \in [R -> S]
  BY <1>3, <1>4
<1>6. Len(L) = Cardinality(S)
  BY <1>1, <1>5
<1>7. \A i \in S : L[Rank(c, S, i)] = i
  <2>1. ASSUME NEW i \in S PROVE L[Rank(c, S, i)] = i
    <3>1. Rank(c, S, i) \in R
      BY <1>2
    <3>2. L[Rank(c, S, i)] \in S /\ Rank(c, S, L[Rank(c, S, i)]) = Rank(c, S, i)
      BY <1>3, <3>1
    <3>3. QED
      BY <1>2, <3>2
  <2>2. QED
    BY <2>1
<1>8. {L[k] : k \in R} = S
  BY <1>2, <1>3, <1>7
<1>9. QED
  BY <1>4, <1>5, <1>6, <1>8

-----------------------------------------------------------------------------
(* What every operation keeps true of a database: its type, count() is the *)
(* number of valid keys, and the flags make sense together.                *)

CountRight(d) == d.count = Cardinality(d.valid)

FlagsRight(d) ==
    /\ d.real \cup d.evt \cup d.inj \subseteq d.valid
    /\ d.real \cap d.evt = {}
    /\ d.countReal >= Cardinality(d.real)
    /\ \A i \in d.valid : d.data[i] \in Material

Sound(d) == d \in Database /\ CountRight(d) /\ FlagsRight(d)

(* The sets a database is made of are finite. *)
LEMMA SoundFinite ==
    ASSUME NEW d, Sound(d)
    PROVE  /\ IsFiniteSet(d.valid) /\ Cardinality(d.valid) \in Nat
           /\ IsFiniteSet(d.real) /\ Cardinality(d.real) \in Nat
           /\ d.valid \in SUBSET Id /\ d.real \in SUBSET Id
           /\ d.evt \in SUBSET Id /\ d.inj \in SUBSET Id
           /\ d.cnt \in [Id -> 0 .. MaxCount]
           /\ d.data \in [Id -> Material \cup {NoMaterial}]
           /\ d.count \in Int /\ d.countReal \in Int
           /\ d.inserted \in Nat /\ d.picked \in Id
<1>1. d.valid \in SUBSET Id /\ d.real \in SUBSET Id
  BY DEF Sound, Database
<1>2. QED
  BY <1>1, SlotsFinite DEF Sound, Database

(* db_ram::init makes a sound database.                                    *)
LEMMA EmptySound == Sound(Empty)
<1>1. 0 \in Id /\ MaxCount \in Nat
  BY AmountAssumption DEF Id, MaxCount
<1>2. Empty \in Database
  BY <1>1 DEF Empty, Database, MaxCount
<1>3. QED
  BY <1>2, FS_EmptySet DEF Empty, Sound, CountRight, FlagsRight

(* A stored counter fits the four bits of the meta byte.                   *)
LEMMA CountValueType ==
    ASSUME NEW n \in Nat
    PROVE  CountValue(n) \in 0 .. MaxCount
BY DEF CountValue, MaxCount

(* set_key_count keeps a database sound.                                   *)
LEMMA SetKeyCountSound ==
    ASSUME NEW d, Sound(d), NEW S, NEW n \in Nat
    PROVE  Sound(SetKeyCount(d, S, n))
<1> DEFINE e == SetKeyCount(d, S, n)
<1>1. d \in Database /\ CountValue(n) \in 0 .. MaxCount
  BY CountValueType DEF Sound
<1>2. e.cnt \in [Id -> 0 .. MaxCount]
  BY <1>1 DEF SetKeyCount, Database
<1>3. e \in Database
  BY <1>1, <1>2 DEF SetKeyCount, Database
<1>4. /\ e.valid = d.valid /\ e.real = d.real /\ e.evt = d.evt /\ e.inj = d.inj
      /\ e.count = d.count /\ e.countReal = d.countReal /\ e.data = d.data
  BY <1>1 DEF SetKeyCount, Database
<1>5. QED
  BY <1>3, <1>4 DEF Sound, CountRight, FlagsRight

(* del (db_ram.cpp:103-125) *)
LEMMA DelSound ==
    ASSUME NEW d, Sound(d), NEW S
    PROVE  Sound(Del(d, S))
<1> DEFINE e == Del(d, S)
<1>1. d \in Database
  BY DEF Sound
<1>2. e.cnt \in [Id -> 0 .. MaxCount] /\ e.data \in [Id -> Material \cup {NoMaterial}]
  BY <1>1 DEF Del, Database, MaxCount
<1>3. /\ e.valid = d.valid \ S /\ e.real = d.real \ S
      /\ e.evt = d.evt \ S /\ e.inj = d.inj \ S
      /\ e.count = d.count - Cardinality(S \cap d.valid)
      /\ e.countReal = d.countReal /\ e.inserted = d.inserted /\ e.picked = d.picked
  BY <1>1 DEF Del, Database
<1>4. /\ Cardinality(d.valid \ S) = Cardinality(d.valid) - Cardinality(d.valid \cap S)
      /\ S \cap d.valid = d.valid \cap S
      /\ Cardinality(d.valid \cap S) \in Nat
  <2>1. d.valid \cap S \in SUBSET Id
    BY SoundFinite
  <2>2. QED
    BY <2>1, SoundFinite, SlotsFinite, FS_Difference
<1>5. Cardinality(d.real \ S) <= Cardinality(d.real) /\ Cardinality(d.real \ S) \in Nat
  <2>1. d.real \ S \in SUBSET d.real /\ d.real \ S \in SUBSET Id
    BY SoundFinite
  <2>2. QED
    BY <2>1, SoundFinite, SlotsFinite, FS_Subset
<1>6. e \in Database
  <2>1. d.count \in Int
    BY SoundFinite
  <2>2. e.count = d.count - Cardinality(d.valid \cap S)
    BY <1>3, <1>4
  <2>3. e.count \in Int
    BY <1>4, <2>1, <2>2
  <2>4. QED
    BY <1>1, <1>2, <1>3, <2>3 DEF Del, Database
<1>7. CountRight(e)
  BY <1>3, <1>4 DEF Sound, CountRight
<1>8. FlagsRight(e)
  <2>1. \A i \in e.valid : e.data[i] \in Material
    BY <1>1, <1>3, SoundFinite DEF Del, Sound, FlagsRight
  <2>2. e.countReal >= Cardinality(e.real)
    BY <1>3, <1>5, SoundFinite DEF Sound, FlagsRight
  <2>3. QED
    BY <1>3, <2>1, <2>2 DEF Sound, FlagsRight
<1>9. QED
  BY <1>6, <1>7, <1>8 DEF Sound

(* set for several slots (db_ram.cpp:535-574, called per slot by db.cpp) *)
LEMMA SetKeysSound ==
    ASSUME NEW d, Sound(d), NEW f, \A i \in Id \cap DOMAIN f : f[i] \in Material
    PROVE  Sound(SetKeys(d, f))
<1> DEFINE e == SetKeys(d, f)
           S == Id \cap DOMAIN f
<1>1. d \in Database
  BY DEF Sound
<1>2. e.cnt \in [Id -> 0 .. MaxCount] /\ e.data \in [Id -> Material \cup {NoMaterial}]
  BY <1>1 DEF SetKeys, Database, MaxCount
<1>3. /\ e.valid = d.valid \cup S /\ e.real = d.real \ S
      /\ e.evt = d.evt \ S /\ e.inj = d.inj \ S
      /\ e.count = d.count + Cardinality(S \ d.valid)
      /\ e.countReal = d.countReal /\ e.inserted = d.inserted /\ e.picked = d.picked
  BY <1>1 DEF SetKeys, Database
<1>4. /\ Cardinality(d.valid \cup S) = Cardinality(d.valid) + Cardinality(S \ d.valid)
      /\ Cardinality(S \ d.valid) \in Nat
  <2>1. S \ d.valid \in SUBSET Id /\ (d.valid \cap (S \ d.valid)) = {}
        /\ d.valid \cup (S \ d.valid) = d.valid \cup S
    OBVIOUS
  <2>2. IsFiniteSet(S \ d.valid) /\ Cardinality(S \ d.valid) \in Nat
    BY <2>1, SlotsFinite
  <2>3. Cardinality(d.valid \cup (S \ d.valid))
        = Cardinality(d.valid) + Cardinality(S \ d.valid) - Cardinality(d.valid \cap (S \ d.valid))
    BY <2>2, SoundFinite, FS_Union
  <2>4. Cardinality(d.valid \cap (S \ d.valid)) = 0 /\ Cardinality(d.valid) \in Nat
    BY <2>1, SoundFinite, FS_EmptySet
  <2>5. Cardinality(d.valid \cup S)
        = Cardinality(d.valid) + Cardinality(S \ d.valid) - Cardinality(d.valid \cap (S \ d.valid))
    BY <2>1, <2>3
  <2>6. QED
    BY <2>2, <2>4, <2>5
<1>5. Cardinality(d.real \ S) <= Cardinality(d.real) /\ Cardinality(d.real \ S) \in Nat
  <2>1. d.real \ S \in SUBSET d.real /\ d.real \ S \in SUBSET Id
    BY SoundFinite
  <2>2. QED
    BY <2>1, SoundFinite, SlotsFinite, FS_Subset
<1>6. e \in Database
  <2>1. e.count \in Int
    BY <1>3, <1>4, SoundFinite
  <2>2. QED
    BY <1>1, <1>2, <1>3, <2>1 DEF SetKeys, Database
<1>7. CountRight(e)
  BY <1>3, <1>4 DEF Sound, CountRight
<1>8. FlagsRight(e)
  <2>1. \A i \in e.valid : e.data[i] \in Material
    BY <1>1, <1>3, SoundFinite DEF SetKeys, Sound, FlagsRight
  <2>2. e.countReal >= Cardinality(e.real)
    BY <1>3, <1>5, SoundFinite DEF Sound, FlagsRight
  <2>3. QED
    BY <1>3, <2>1, <2>2 DEF Sound, FlagsRight
<1>9. QED
  BY <1>6, <1>7, <1>8 DEF Sound

(* set of a single key, of whatever size, keeps a database sound.          *)
LEMMA SetKeySound ==
    ASSUME NEW d, Sound(d), NEW i, NEW m \in Material, NEW size
    PROVE  Sound(SetKey(d, i, m, size))
BY SetKeysSound DEF SetKey

(* set_real_sync (db_ram.cpp:615-628) *)
LEMMA SetRealSyncSound ==
    ASSUME NEW d, Sound(d), NEW S
    PROVE  Sound(SetRealSync(d, S))
<1> DEFINE e == SetRealSync(d, S)
           new == (S \cap d.valid) \ d.real
<1>1. d \in Database
  BY DEF Sound
<1>2. /\ e.valid = d.valid /\ e.real = d.real \cup new
      /\ e.evt = d.evt \ new /\ e.inj = d.inj
      /\ e.count = d.count /\ e.countReal = d.countReal + Cardinality(new)
      /\ e.data = d.data
  BY <1>1 DEF SetRealSync, Database
<1>3. new \in SUBSET Id /\ new \subseteq d.valid /\ d.real \cap new = {}
  BY SoundFinite
<1>4. IsFiniteSet(new) /\ Cardinality(new) \in Nat
  BY <1>3, SlotsFinite
<1>5. Cardinality(d.real \cup new)
      = Cardinality(d.real) + Cardinality(new) - Cardinality(d.real \cap new)
  BY <1>4, SoundFinite, FS_Union
<1>6. Cardinality(d.real \cap new) = 0
  BY <1>3, FS_EmptySet
<1>7. e \in Database
  <2>1. e.countReal \in Int
    BY <1>2, <1>4, SoundFinite
  <2>2. e.real \in SUBSET Id /\ e.evt \in SUBSET Id
    BY <1>2, <1>3, SoundFinite
  <2>3. QED
    BY <1>1, <2>1, <2>2 DEF SetRealSync, Database
<1>8. CountRight(e)
  BY <1>2 DEF Sound, CountRight
<1>9. FlagsRight(e)
  <2>1. e.countReal >= Cardinality(e.real)
    BY <1>2, <1>4, <1>5, <1>6, SoundFinite DEF Sound, FlagsRight
  <2>2. QED
    BY <1>2, <1>3, <2>1 DEF Sound, FlagsRight
<1>10. QED
  BY <1>7, <1>8, <1>9 DEF Sound

(* set_eventual_sync (db_ram.cpp:498-509) *)
LEMMA SetEventualSyncSound ==
    ASSUME NEW d, Sound(d), NEW S
    PROVE  Sound(SetEventualSync(d, S))
<1> DEFINE e == SetEventualSync(d, S)
           T == S \cap d.valid
<1>1. d \in Database
  BY DEF Sound
<1>2. /\ e.valid = d.valid /\ e.real = d.real \ T
      /\ e.evt = d.evt \cup T /\ e.inj = d.inj
      /\ e.count = d.count /\ e.countReal = d.countReal - Cardinality(T \cap d.real)
      /\ e.data = d.data
  BY <1>1 DEF SetEventualSync, Database
<1>3. T \in SUBSET Id /\ T \cap d.real \in SUBSET Id /\ T \cap d.real = d.real \cap T
  BY SoundFinite
<1>4. Cardinality(T \cap d.real) \in Nat
  BY <1>3, SlotsFinite
<1>5. Cardinality(d.real \ T) = Cardinality(d.real) - Cardinality(T \cap d.real)
  <2>1. IsFiniteSet(d.real)
    BY SoundFinite
  <2>2. Cardinality(d.real \ T) = Cardinality(d.real) - Cardinality(d.real \cap T)
    BY <2>1, FS_Difference
  <2>3. QED
    BY <1>3, <2>2
<1>6. e \in Database
  <2>1. e.countReal \in Int
    BY <1>2, <1>4, SoundFinite
  <2>2. e.real \in SUBSET Id /\ e.evt \in SUBSET Id
    BY <1>2, <1>3, SoundFinite
  <2>3. QED
    BY <1>1, <2>1, <2>2 DEF SetEventualSync, Database
<1>7. CountRight(e)
  BY <1>2 DEF Sound, CountRight
<1>8. FlagsRight(e)
  <2>1. e.countReal >= Cardinality(e.real)
    BY <1>2, <1>4, <1>5, SoundFinite DEF Sound, FlagsRight
  <2>2. QED
    BY <1>2, <2>1 DEF Sound, FlagsRight
<1>9. QED
  BY <1>6, <1>7, <1>8 DEF Sound

(* set_injected (db_ram.cpp:520-527) *)
LEMMA SetInjectedSound ==
    ASSUME NEW d, Sound(d), NEW S
    PROVE  Sound(SetInjected(d, S))
<1> DEFINE e == SetInjected(d, S)
<1>1. d \in Database
  BY DEF Sound
<1>2. /\ e.valid = d.valid /\ e.real = d.real /\ e.evt = d.evt
      /\ e.inj = d.inj \cup (S \cap d.valid)
      /\ e.count = d.count /\ e.countReal = d.countReal /\ e.data = d.data
  BY <1>1 DEF SetInjected, Database
<1>3. e.inj \in SUBSET Id
  BY <1>2, SoundFinite
<1>4. e \in Database
  BY <1>1, <1>3 DEF SetInjected, Database
<1>5. QED
  BY <1>2, <1>4 DEF Sound, CountRight, FlagsRight

(* Opening counts the keys again (db_file.cpp:107-144, db_ram.cpp:440-455). *)
LEMMA ResetSound ==
    ASSUME NEW d, Sound(d)
    PROVE  Sound(Reset(d))
<1> DEFINE e == Reset(d)
<1>1. d \in Database /\ 0 \in Id
  BY AmountAssumption DEF Sound, Id
<1>2. /\ e.valid = d.valid /\ e.real = d.real /\ e.evt = d.evt /\ e.inj = d.inj
      /\ e.count = Cardinality(d.valid)
      /\ e.countReal = Cardinality(d.valid \cap d.real)
      /\ e.cnt = [i \in Id |-> 0] /\ e.data = d.data
      /\ e.inserted = 0 /\ e.picked = 0
  BY <1>1 DEF Reset, Database
<1>3. d.valid \cap d.real = d.real
  BY DEF Sound, FlagsRight
<1>4. e \in Database
  <2>1. e.count \in Int /\ e.countReal \in Int
    <3>1. e.countReal = Cardinality(d.real)
      BY <1>2, <1>3
    <3>2. QED
      BY <1>2, <3>1, SoundFinite
  <2>2. e.cnt \in [Id -> 0 .. MaxCount]
    BY <1>2 DEF MaxCount
  <2>3. QED
    BY <1>1, <1>2, <2>1, <2>2 DEF Reset, Database
<1>5. CountRight(e)
  BY <1>2 DEF CountRight
<1>6. FlagsRight(e)
  <2>1. e.countReal = Cardinality(d.real) /\ Cardinality(d.real) \in Nat
    BY <1>2, <1>3, SoundFinite
  <2>2. e.countReal >= Cardinality(e.real)
    BY <1>2, <2>1
  <2>3. QED
    BY <1>2, <2>2 DEF Sound, FlagsRight
<1>7. QED
  BY <1>4, <1>5, <1>6 DEF Sound

(* Reserving the slots a search found keeps a database sound.              *)
LEMMA ReserveSound ==
    ASSUME NEW d, Sound(d), NEW S, NEW n \in Nat
    PROVE  Sound(Reserve(d, S, n))
BY SetKeyCountSound DEF Reserve

-----------------------------------------------------------------------------
(* Sizes in bytes and numbers of keys.                                     *)

(* How many whole keys fit into a number of bytes.                         *)
LEMMA WholeKeys ==
    ASSUME NEW bytes \in Nat
    PROVE  /\ bytes \div Quantum \in Nat
           /\ (bytes \div Quantum) * Quantum <= bytes
           /\ bytes % Quantum = 0 => (bytes \div Quantum) * Quantum = bytes
<1>1. Quantum \in Nat /\ Quantum > 0
  BY QuantumAssumption
<1>2. /\ bytes \div Quantum \in Nat
      /\ bytes % Quantum \in 0 .. Quantum - 1
      /\ bytes = Quantum * (bytes \div Quantum) + (bytes % Quantum)
  BY <1>1
<1>3. QED
  BY <1>1, <1>2

(* Fewer keys are fewer bytes.                                             *)
LEMMA FewerKeysFewerBytes ==
    ASSUME NEW a \in Nat, NEW b \in Nat
    PROVE  /\ a <= b => a * Quantum <= b * Quantum
           /\ a * Quantum < b * Quantum => a < b
<1>1. Quantum \in Nat /\ Quantum > 0
  BY QuantumAssumption
<1>2. QED
  BY <1>1

(* The n first slots of a set, n as many as fit in the bytes asked for.    *)
LEMMA HitsOfBytes ==
    ASSUME NEW c \in Id, NEW E \in SUBSET Id, NEW bytes \in Nat,
           NEW S, S = Hits(c, E, bytes \div Quantum)
    PROVE  /\ S \in SUBSET E /\ Cardinality(S) \in Nat
           /\ Cardinality(S) * Quantum <= bytes
           /\ bytes % Quantum = 0 /\ Cardinality(S) * Quantum < bytes => S = E
<1> DEFINE k == bytes \div Quantum
<1>1. k \in Nat /\ k * Quantum <= bytes /\ (bytes % Quantum = 0 => k * Quantum = bytes)
  BY WholeKeys
<1>2. S \in SUBSET E /\ Cardinality(S) <= k /\ (Cardinality(S) < k => S = E)
  BY <1>1, HitsCount
<1>3. Cardinality(S) \in Nat
  BY <1>2, SlotsFinite
<1>4. Cardinality(S) * Quantum <= k * Quantum
      /\ (Cardinality(S) * Quantum < k * Quantum => Cardinality(S) < k)
  BY <1>1, <1>2, <1>3, FewerKeysFewerBytes
<1>5. Cardinality(S) * Quantum \in Nat /\ k * Quantum \in Nat
  BY <1>1, <1>3, QuantumAssumption
<1>6. QED
  BY <1>1, <1>2, <1>3, <1>4, <1>5

-----------------------------------------------------------------------------
(* What the searches return.                                               *)

(* find_spare (db_ram.cpp:204-234): free slots nobody holds, not slot 0.   *)
SparesFound(d, bytes, n, S) ==
    /\ \A i \in S : d.cnt[i] = 0 /\ i \notin d.valid /\ i # 0
    /\ FindSpare(d, bytes, n).db = Reserve(d, S, n)
    /\ FindSpare(d, bytes, n).ids = Along(0, S)
    /\ Cardinality(S) \in Nat /\ Cardinality(S) * Quantum <= bytes
    /\ bytes % Quantum = 0 /\ Cardinality(S) * Quantum < bytes =>
         {i \in Id \ d.valid : d.cnt[i] = 0} \subseteq S \cup {0}

(* find_spare: sound, free slots only, each once, and all when short.      *)
LEMMA FindSpareResult ==
    ASSUME NEW d, Sound(d), NEW bytes \in Nat, NEW n \in Nat
    PROVE  \E S \in SUBSET Id : SparesFound(d, bytes, n, S)
<1> DEFINE E == Unreserved(d) \ (d.valid \cup {0})
           S == IF bytes % Quantum # 0 THEN {} ELSE Hits(0, E, bytes \div Quantum)
<1>1. 0 \in Id /\ E \in SUBSET Id
  BY AmountAssumption DEF Id, Unreserved
<1>2. FindSpare(d, bytes, n).db = Reserve(d, S, n) /\ FindSpare(d, bytes, n).ids = Along(0, S)
  BY DEF FindSpare
<1>3. /\ bytes % Quantum = 0 => S = Hits(0, E, bytes \div Quantum)
      /\ bytes % Quantum # 0 => S = {}
  OBVIOUS
<1>4. \A i \in E : d.cnt[i] = 0 /\ i \notin d.valid /\ i # 0
  BY DEF Unreserved
<1>5. {i \in Id \ d.valid : d.cnt[i] = 0} \subseteq E \cup {0}
  BY DEF Unreserved
<1> HIDE DEF E, S
<1>6. /\ S \in SUBSET E /\ Cardinality(S) \in Nat
      /\ Cardinality(S) * Quantum <= bytes
      /\ bytes % Quantum = 0 /\ Cardinality(S) * Quantum < bytes => S = E
  <2>1. CASE bytes % Quantum = 0
    BY <1>1, <1>3, <2>1, HitsOfBytes
  <2>2. CASE bytes % Quantum # 0
    <3>1. S = {} /\ Cardinality(S) = 0
      BY <1>3, <2>2, FS_EmptySet
    <3>2. 0 * Quantum = 0
      BY QuantumAssumption
    <3>3. QED
      BY <2>2, <3>1, <3>2
  <2>3. QED
    BY <2>1, <2>2
<1>7. S \in SUBSET Id
  BY <1>1, <1>6
<1>8. QED
  <2> WITNESS S \in SUBSET Id
  <2>1. QED
    BY <1>2, <1>4, <1>5, <1>6 DEF SparesFound

CursorAt(d, p) == [d EXCEPT !.picked = p]

(* Moving the cursor of find_valid keeps a database sound.                 *)
LEMMA CursorAtSound ==
    ASSUME NEW d, Sound(d), NEW p \in Id
    PROVE  Sound(CursorAt(d, p))
BY DEF CursorAt, Sound, Database, CountRight, FlagsRight

(* find_valid (db_ram.cpp:249-282): stored keys nobody holds, with the     *)
(* cursor left in the table.                                               *)
KeysFound(d, bytes, n, S, p) ==
    /\ \A i \in S : d.cnt[i] = 0 /\ i \in d.valid
    /\ FindValid(d, bytes, n).db = CursorAt(Reserve(d, S, n), p)
    /\ FindValid(d, bytes, n).ids = Along(d.picked, S)
    /\ Cardinality(S) \in Nat /\ Cardinality(S) * Quantum <= bytes
    /\ bytes % Quantum = 0 /\ Cardinality(S) * Quantum < bytes =>
         {i \in d.valid : d.cnt[i] = 0} \subseteq S \cup {d.picked}

(* find_valid: sound, stored keys only, each once, and all when short.     *)
LEMMA FindValidResult ==
    ASSUME NEW d, Sound(d), NEW bytes \in Nat, NEW n \in Nat
    PROVE  \E S \in SUBSET Id, p \in Id : KeysFound(d, bytes, n, S, p)
<1> DEFINE E == (Unreserved(d) \cap d.valid) \ {d.picked}
           k == bytes \div Quantum
           S == IF bytes % Quantum # 0 THEN {} ELSE Hits(d.picked, E, k)
           last == {i \in S : Rank(d.picked, E, i) = k}
           R == Reserve(d, S, n)
           p == IF last = {} THEN R.picked ELSE CHOOSE i \in last : TRUE
<1>1. d.picked \in Id /\ E \in SUBSET Id /\ d.valid \in SUBSET Id
  BY SoundFinite
<1>2. /\ FindValid(d, bytes, n).db = CursorAt(R, p)
      /\ FindValid(d, bytes, n).ids = Along(d.picked, S)
  BY DEF FindValid, CursorAt
<1>3. /\ bytes % Quantum = 0 => S = Hits(d.picked, E, bytes \div Quantum)
      /\ bytes % Quantum # 0 => S = {}
  OBVIOUS
<1>4. \A i \in E : d.cnt[i] = 0 /\ i \in d.valid
  BY DEF Unreserved
<1>5. {i \in d.valid : d.cnt[i] = 0} \subseteq E \cup {d.picked}
  BY <1>1 DEF Unreserved
<1>6. last \in SUBSET S
  OBVIOUS
<1>7. p = IF last = {} THEN R.picked ELSE CHOOSE i \in last : TRUE
  OBVIOUS
<1>8. R = Reserve(d, S, n)
  OBVIOUS
<1> HIDE DEF E, S, last, R, p
<1>9. /\ S \in SUBSET E /\ Cardinality(S) \in Nat
      /\ Cardinality(S) * Quantum <= bytes
      /\ bytes % Quantum = 0 /\ Cardinality(S) * Quantum < bytes => S = E
  <2>1. CASE bytes % Quantum = 0
    BY <1>1, <1>3, <2>1, HitsOfBytes
  <2>2. CASE bytes % Quantum # 0
    <3>1. S = {} /\ Cardinality(S) = 0
      BY <1>3, <2>2, FS_EmptySet
    <3>2. 0 * Quantum = 0
      BY QuantumAssumption
    <3>3. QED
      BY <2>2, <3>1, <3>2
  <2>3. QED
    BY <2>1, <2>2
<1>10. p \in Id
  <2>1. R.picked \in Id
    BY <1>8, ReserveSound, SoundFinite
  <2>2. last # {} => (CHOOSE i \in last : TRUE) \in last
    OBVIOUS
  <2>3. QED
    BY <1>1, <1>6, <1>7, <1>9, <2>1, <2>2
<1>11. S \in SUBSET Id
  BY <1>1, <1>9
<1>12. QED
  <2> WITNESS S \in SUBSET Id, p \in Id
  <2>1. \A i \in S : d.cnt[i] = 0 /\ i \in d.valid
    BY <1>4, <1>9
  <2>2. bytes % Quantum = 0 /\ Cardinality(S) * Quantum < bytes =>
          {i \in d.valid : d.cnt[i] = 0} \subseteq S \cup {d.picked}
    BY <1>5, <1>9
  <2>3. QED
    BY <1>2, <1>8, <1>9, <2>1, <2>2 DEF KeysFound

(* find_continuous (db_ram.cpp:158-189): neighbouring stored keys nobody   *)
(* holds, enough of them for the bytes asked for or none.                  *)
RunFound(d, bytes, n, S) ==
    /\ \A i \in S : d.cnt[i] = 0 /\ i \in d.valid
    /\ FindContinuous(d, bytes, n).db = SetKeyCount(d, S, n)
    /\ FindContinuous(d, bytes, n).ids = Along(0, S)
    /\ Cardinality(S) \in {0, (bytes + Quantum - 1) \div Quantum}

(* find_continuous: sound, stored keys only, each once.                    *)
LEMMA FindContinuousResult ==
    ASSUME NEW d, Sound(d), NEW bytes \in Nat, NEW n \in Nat
    PROVE  \E S \in SUBSET Id : RunFound(d, bytes, n, S)
<1> DEFINE E == Unreserved(d) \cap d.valid
           k == (bytes + Quantum - 1) \div Quantum
           starts == {i \in E : k > 0 /\ i + k <= Amount /\ i .. i + k - 1 \subseteq E}
           a == CHOOSE i \in starts : \A j \in starts : i <= j
           S == IF starts = {} THEN {} ELSE a .. a + k - 1
<1>1. E \in SUBSET Id /\ Id \in SUBSET Nat
  BY AmountAssumption, SoundFinite DEF Id
<1>2. /\ FindContinuous(d, bytes, n).db = SetKeyCount(d, S, n)
      /\ FindContinuous(d, bytes, n).ids = Along(0, S)
  BY DEF FindContinuous
<1>3. \A i \in E : d.cnt[i] = 0 /\ i \in d.valid
  BY DEF Unreserved
<1>4. /\ starts \in SUBSET E
      /\ \A i \in starts : k > 0 /\ i .. i + k - 1 \subseteq E
  OBVIOUS
<1>5. a = CHOOSE i \in starts : \A j \in starts : i <= j
  OBVIOUS
<1>6. S = IF starts = {} THEN {} ELSE a .. a + k - 1
  OBVIOUS
<1>7. k \in Nat
  BY QuantumAssumption
<1> HIDE DEF E, starts, a, S, k
<1>8. starts # {} => a \in starts
  <2>1. ASSUME starts # {} PROVE \E i \in starts : \A j \in starts : i <= j
    <3> DEFINE Less == OpToRel(<, Nat)
    <3>1. PICK i \in starts : \A j \in starts : ~(<<j, i>> \in Less)
      BY <1>1, <1>4, <2>1, WFMin, NatLessThanWellFounded
    <3>2. \A j \in starts : j \in Nat
      BY <1>1, <1>4
    <3>3. \A x, y \in Nat : x < y => <<x, y>> \in Less
      BY Zenon DEF OpToRel
    <3> HIDE DEF Less
    <3>4. \A j \in starts : ~(j < i)
      BY <3>1, <3>2, <3>3
    <3>5. \A j \in starts : i <= j
      BY <3>2, <3>4
    <3>6. QED
      BY <3>5
  <2>2. QED
    BY <1>5, <2>1
<1>9. S \in SUBSET E
  BY <1>4, <1>6, <1>8
<1>10. Cardinality(S) \in {0, k}
  <2>1. CASE starts = {}
    BY <1>6, <2>1, FS_EmptySet
  <2>2. CASE starts # {}
    <3>1. a \in Nat /\ k > 0
      BY <1>1, <1>4, <1>8, <2>2
    <3>2. Cardinality(a .. a + k - 1) = k
      BY <1>7, <3>1, FS_Interval
    <3>3. QED
      BY <1>6, <2>2, <3>2
  <2>3. QED
    BY <2>1, <2>2
<1>11. S \in SUBSET Id
  BY <1>1, <1>9
<1>12. QED
  <2> WITNESS S \in SUBSET Id
  <2>1. Cardinality(S) \in {0, (bytes + Quantum - 1) \div Quantum}
    BY <1>10 DEF k
  <2>2. QED
    BY <1>2, <1>3, <1>9, <2>1 DEF RunFound

-----------------------------------------------------------------------------
(* insert (db_ram.cpp:376-407): unless it starts beyond the table, the     *)
(* slot it picks is free, whatever else it is.                             *)
LEMMA InsertSlotFree ==
    ASSUME NEW d, Sound(d), ~Overruns(d), FreeAhead(d) # {}
    PROVE  InsertSlot(d) \in Id \ d.valid
<1>1. d.inserted \in Id
  <2>1. d.inserted \in Nat /\ d.inserted + 1 < Amount
    BY SoundFinite, AmountAssumption DEF Overruns
  <2>2. QED
    BY <2>1, AmountAssumption DEF Id
<1>2. FreeAhead(d) \in SUBSET Id /\ FreeAhead(d) \in SUBSET (Id \ d.valid)
  BY DEF FreeAhead
<1>3. Cardinality(FreeAhead(d)) \in Nat /\ Cardinality(FreeAhead(d)) # 0
  BY <1>2, SlotsFinite, FS_EmptySet
<1>4. 1 \in 1 .. Cardinality(FreeAhead(d))
  BY <1>3
<1>5. \E i \in FreeAhead(d) : Rank(d.inserted, FreeAhead(d), i) = 1
  BY <1>1, <1>2, <1>4, RankBijection
<1>6. QED
  BY <1>2, <1>5 DEF InsertSlot

(* insert keeps a database sound, wherever its cursor stands.              *)
LEMMA InsertSound ==
    ASSUME NEW d, Sound(d), NEW m \in Material, NEW size \in Nat, NEW beyond \in Nat
    PROVE  Sound(Insert(d, m, size, beyond).db) /\ Insert(d, m, size, beyond).id \in Nat
<1>1. ASSUME NEW e, Sound(e), NEW p \in Nat
      PROVE  Sound([e EXCEPT !.inserted = p])
  BY <1>1 DEF Sound, Database, CountRight, FlagsRight
<1>2. CASE size # Quantum
  BY <1>2 DEF Insert
<1>3. CASE size = Quantum /\ Overruns(d)
  BY <1>1, <1>3 DEF Insert
<1>4. CASE size = Quantum /\ ~Overruns(d) /\ FreeAhead(d) = {}
  BY <1>4 DEF Insert
<1>5. CASE size = Quantum /\ ~Overruns(d) /\ FreeAhead(d) # {}
  <2>1. InsertSlot(d) \in Nat
    BY <1>5, InsertSlotFree, AmountAssumption DEF Id
  <2>2. Sound(SetKey(d, InsertSlot(d), m, size))
    BY SetKeySound
  <2>3. Insert(d, m, size, beyond) =
          [db |-> [SetKey(d, InsertSlot(d), m, size) EXCEPT !.inserted = InsertSlot(d)],
           id |-> InsertSlot(d)]
    BY <1>5 DEF Insert
  <2>4. QED
    BY <1>1, <2>1, <2>2, <2>3
<1>6. QED
  BY <1>2, <1>3, <1>4, <1>5
-----------------------------------------------------------------------------
(* For those who only follow which keys a database holds.                  *)

(* Which slots are in use afterwards, and what they hold.                  *)
LEMMA ContentsAfter ==
    ASSUME NEW d, Sound(d), NEW S, NEW n
    PROVE  /\ SetKeyCount(d, S, n).valid = d.valid /\ SetKeyCount(d, S, n).data = d.data
           /\ SetRealSync(d, S).valid = d.valid /\ SetRealSync(d, S).data = d.data
           /\ SetEventualSync(d, S).valid = d.valid /\ SetEventualSync(d, S).data = d.data
           /\ SetInjected(d, S).valid = d.valid /\ SetInjected(d, S).data = d.data
           /\ Reset(d).valid = d.valid /\ Reset(d).data = d.data
<1>1. d \in Database /\ d.valid \in SUBSET Id
  BY SoundFinite DEF Sound
<1>2. /\ SetKeyCount(d, S, n).valid = d.valid /\ SetKeyCount(d, S, n).data = d.data
      /\ SetRealSync(d, S).valid = d.valid /\ SetRealSync(d, S).data = d.data
  BY <1>1 DEF SetKeyCount, SetRealSync, Database
<1>3. /\ SetEventualSync(d, S).valid = d.valid /\ SetEventualSync(d, S).data = d.data
      /\ SetInjected(d, S).valid = d.valid /\ SetInjected(d, S).data = d.data
  BY <1>1 DEF SetEventualSync, SetInjected, Database
<1>4. Reset(d).valid = d.valid /\ Reset(d).data = d.data
  BY <1>1 DEF Reset, Database
<1>5. QED
  BY <1>2, <1>3, <1>4

(* del() takes exactly the named slots and leaves the other keys as they are. *)
LEMMA ContentsWithout ==
    ASSUME NEW d, Sound(d), NEW S
    PROVE  /\ Del(d, S).valid = d.valid \ S
           /\ \A i \in d.valid \ S : Del(d, S).data[i] = d.data[i]
<1>1. d \in Database /\ d.valid \in SUBSET Id
  BY SoundFinite DEF Sound
<1>2. QED
  BY <1>1 DEF Del, Database

(* set() fills the named slots with the given keys and touches no other. *)
LEMMA ContentsWritten ==
    ASSUME NEW d, Sound(d), NEW f
    PROVE  /\ SetKeys(d, f).valid = d.valid \cup (Id \cap DOMAIN f)
           /\ \A i \in Id : SetKeys(d, f).data[i] = IF i \in DOMAIN f THEN f[i] ELSE d.data[i]
<1>1. d \in Database /\ d.valid \in SUBSET Id
  BY SoundFinite DEF Sound
<1>2. QED
  BY <1>1 DEF SetKeys, Database

(* A list of slots found: each once, and none that was held before.        *)
ListOf(s, S) ==
    /\ s \in Seq(Id)
    /\ {s[k] : k \in DOMAIN s} = S
    /\ \A k, l \in DOMAIN s : s[k] = s[l] => k = l

(* A search in index order lists every slot it found, and each one once. *)
LEMMA AlongListsOnce ==
    ASSUME NEW c \in Id, NEW S \in SUBSET Id
    PROVE  ListOf(Along(c, S), S)
<1> DEFINE L == Along(c, S)
           R == 1 .. Cardinality(S)
<1>1. L \in [R -> S] /\ {L[k] : k \in DOMAIN L} = S /\ Cardinality(S) \in Nat
  BY AlongIsList, SlotsFinite
<1>2. L \in Seq(Id)
  BY <1>1
<1>3. \A k \in R : \E i \in S : Rank(c, S, i) = k
  BY RankBijection
<1>4. \A k \in R : Rank(c, S, L[k]) = k
  <2>1. ASSUME NEW k \in R PROVE Rank(c, S, L[k]) = k
    <3>1. L[k] = CHOOSE i \in S : Rank(c, S, i) = k
      BY DEF Along
    <3>2. QED
      BY <1>3, <3>1
  <2>2. QED
    BY <2>1
<1>5. \A k, l \in DOMAIN L : L[k] = L[l] => k = l
  BY <1>1, <1>4
<1>6. QED
  BY <1>1, <1>2, <1>5 DEF ListOf

(* A search that reserves what it finds leaves the keys alone.             *)
LEMMA SparesListed ==
    ASSUME NEW d, Sound(d), NEW bytes \in Nat
    PROVE  LET r == FindSpare(d, bytes, 1)
           IN  /\ Sound(r.db) /\ r.db.valid = d.valid /\ r.db.data = d.data
               /\ r.ids \in Seq(Id)
<1>1. PICK S \in SUBSET Id : SparesFound(d, bytes, 1, S)
  BY FindSpareResult
<1>2. 0 \in Id
  BY AmountAssumption DEF Id
<1>3. ListOf(Along(0, S), S)
  BY <1>2, AlongListsOnce
<1>4. FindSpare(d, bytes, 1).db = SetKeyCount(d, S, 1)
  BY <1>1 DEF SparesFound, Reserve
<1>5. QED
  BY <1>1, <1>3, <1>4, SetKeyCountSound, ContentsAfter DEF SparesFound, ListOf

(* find_valid() lists keys the database has and nobody held, and reserves them. *)
LEMMA KeysListed ==
    ASSUME NEW d, Sound(d), NEW bytes \in Nat
    PROVE  LET r == FindValid(d, bytes, 1)
           IN  /\ Sound(r.db) /\ r.db.valid = d.valid /\ r.db.data = d.data
               /\ \E S \in SUBSET d.valid :
                     /\ ListOf(r.ids, S)
                     /\ \A i \in S : d.cnt[i] = 0 /\ r.db.cnt[i] # 0
<1>1. PICK S \in SUBSET Id, p \in Id : KeysFound(d, bytes, 1, S, p)
  BY FindValidResult
<1> DEFINE c == SetKeyCount(d, S, 1)
<1>2. FindValid(d, bytes, 1).db = CursorAt(c, p)
  BY <1>1 DEF KeysFound, Reserve
<1>3. Sound(c) /\ c.valid = d.valid /\ c.data = d.data
  BY SetKeyCountSound, ContentsAfter
<1>4. \A i \in S : c.cnt[i] # 0
  BY DEF SetKeyCount, CountValue, MaxCount, Sound, Database
<1>5. /\ Sound(CursorAt(c, p)) /\ CursorAt(c, p).valid = c.valid
      /\ CursorAt(c, p).data = c.data /\ CursorAt(c, p).cnt = c.cnt
  <2> HIDE DEF c
  <2>1. c \in Database
    BY <1>3 DEF Sound
  <2>2. QED
    BY <1>3, <2>1, CursorAtSound DEF CursorAt, Database
<1>6. d.picked \in Id /\ ListOf(FindValid(d, bytes, 1).ids, S)
  BY <1>1, SoundFinite, AlongListsOnce DEF KeysFound
<1>7. S \in SUBSET d.valid /\ \A i \in S : d.cnt[i] = 0
  BY <1>1 DEF KeysFound
<1> HIDE DEF c
<1>8. QED
  BY <1>2, <1>3, <1>4, <1>5, <1>6, <1>7

(* Which keys count as being in real sync after an operation, and whose    *)
(* counter it may have changed.                                            *)
LEMMA FlagsAfter ==
    ASSUME NEW d, Sound(d), NEW S
    PROVE  /\ d.real \in SUBSET d.valid
           /\ SetRealSync(d, S).real = d.real \cup (S \cap d.valid)
           /\ SetRealSync(d, S).cnt = d.cnt
           /\ SetEventualSync(d, S).real = d.real \ S
           /\ SetEventualSync(d, S).cnt = d.cnt
           /\ Del(d, S).real = d.real \ S
           /\ \A i \in Id \ S : Del(d, S).cnt[i] = d.cnt[i]
<1>1. d \in Database /\ d.real \in SUBSET d.valid
  BY DEF Sound, FlagsRight, Database
<1>2. SetRealSync(d, S).real = d.real \cup (S \cap d.valid) /\ SetRealSync(d, S).cnt = d.cnt
  BY <1>1 DEF SetRealSync, Database
<1>3. SetEventualSync(d, S).real = d.real \ S /\ SetEventualSync(d, S).cnt = d.cnt
  BY <1>1 DEF SetEventualSync, Database
<1>4. Del(d, S).real = d.real \ S
  BY <1>1 DEF Del, Database
<1>5. \A i \in Id \ S : Del(d, S).cnt[i] = d.cnt[i]
  BY <1>1 DEF Del, Database
<1>6. QED
  BY <1>1, <1>2, <1>3, <1>4, <1>5

(* Setting counters sets the counters of these slots and nothing else.     *)
LEMMA CountsAfter ==
    ASSUME NEW d, Sound(d), NEW S, NEW n \in Nat
    PROVE  LET r == SetKeyCount(d, S, n)
           IN  /\ r.real = d.real
               /\ \A i \in Id \ S : r.cnt[i] = d.cnt[i]
               /\ n = 1 => \A i \in Id \cap S : r.cnt[i] # 0
<1>1. d \in Database /\ d.cnt \in [Id -> 0 .. MaxCount]
  BY DEF Sound, Database
<1>2. SetKeyCount(d, S, n).real = d.real
  BY <1>1 DEF SetKeyCount, Database
<1>3. \A i \in Id \ S : SetKeyCount(d, S, n).cnt[i] = d.cnt[i]
  BY <1>1 DEF SetKeyCount, Database
<1>4. n = 1 => \A i \in Id \cap S : SetKeyCount(d, S, n).cnt[i] # 0
  BY <1>1 DEF SetKeyCount, Database, CountValue, MaxCount
<1>5. QED
  BY <1>2, <1>3, <1>4

(* Writing a key takes the slot out of real sync and clears its counter.   *)
LEMMA FlagsWritten ==
    ASSUME NEW d, Sound(d), NEW f, DOMAIN f \in SUBSET Id
    PROVE  /\ SetKeys(d, f).real = d.real \ DOMAIN f
           /\ \A i \in Id \ DOMAIN f : SetKeys(d, f).cnt[i] = d.cnt[i]
<1>1. d \in Database /\ Id \cap DOMAIN f = DOMAIN f
  BY DEF Sound
<1>2. SetKeys(d, f).real = d.real \ DOMAIN f
  BY <1>1 DEF SetKeys, Database
<1>3. \A i \in Id \ DOMAIN f : SetKeys(d, f).cnt[i] = d.cnt[i]
  BY <1>1 DEF SetKeys, Database
<1>4. QED
  BY <1>2, <1>3

(* A search reserves what it lists, which nobody held, and nothing else.   *)
Reserved(r, d) ==
    /\ r.db.real = d.real
    /\ \A i \in Id : IF \E k \in DOMAIN r.ids : r.ids[k] = i
                     THEN d.cnt[i] = 0 /\ r.db.cnt[i] # 0
                     ELSE r.db.cnt[i] = d.cnt[i]

(* find_spare() reserves the free slots it lists. *)
LEMMA SparesReserved ==
    ASSUME NEW d, Sound(d), NEW bytes \in Nat
    PROVE  LET r == FindSpare(d, bytes, 1)
           IN  Reserved(r, d) /\ \A k \in DOMAIN r.ids : r.ids[k] \notin d.valid
<1>1. PICK S \in SUBSET Id : SparesFound(d, bytes, 1, S)
  BY FindSpareResult
<1> DEFINE r == FindSpare(d, bytes, 1)
<1>2. 0 \in Id
  BY AmountAssumption DEF Id
<1>3. ListOf(r.ids, S) /\ r.db = SetKeyCount(d, S, 1)
  BY <1>1, <1>2, AlongListsOnce DEF SparesFound, Reserve
<1>4. \A i \in S : d.cnt[i] = 0 /\ i \notin d.valid
  BY <1>1 DEF SparesFound
<1> HIDE DEF r
<1>5. {r.ids[k] : k \in DOMAIN r.ids} = S
  BY <1>3 DEF ListOf
<1>6. /\ r.db.real = d.real
      /\ \A i \in Id \ S : r.db.cnt[i] = d.cnt[i]
      /\ \A i \in Id \cap S : r.db.cnt[i] # 0
  BY <1>3, CountsAfter
<1>7. Reserved(r, d)
  BY <1>4, <1>5, <1>6 DEF Reserved
<1>8. QED
  BY <1>4, <1>5, <1>7 DEF r

(* find_valid() reserves the keys it lists. *)
LEMMA KeysReserved ==
    ASSUME NEW d, Sound(d), NEW bytes \in Nat
    PROVE  Reserved(FindValid(d, bytes, 1), d)
<1>1. PICK S \in SUBSET Id, p \in Id : KeysFound(d, bytes, 1, S, p)
  BY FindValidResult
<1> DEFINE r == FindValid(d, bytes, 1)
           c == SetKeyCount(d, S, 1)
<1>2. d.picked \in Id /\ ListOf(r.ids, S)
  BY <1>1, SoundFinite, AlongListsOnce DEF KeysFound
<1>3. r.db = CursorAt(c, p)
  BY <1>1 DEF KeysFound, Reserve
<1>4. \A i \in S : d.cnt[i] = 0
  BY <1>1 DEF KeysFound
<1>5. c \in Database
  BY SetKeyCountSound DEF Sound
<1>6. /\ c.real = d.real
      /\ \A i \in Id \ S : c.cnt[i] = d.cnt[i]
      /\ \A i \in Id \cap S : c.cnt[i] # 0
  BY CountsAfter
<1> HIDE DEF r, c
<1>7. r.db.real = c.real /\ r.db.cnt = c.cnt
  BY <1>3, <1>5 DEF CursorAt, Database
<1>8. {r.ids[k] : k \in DOMAIN r.ids} = S
  BY <1>2 DEF ListOf
<1>9. Reserved(r, d)
  BY <1>4, <1>6, <1>7, <1>8 DEF Reserved
<1>10. QED
  BY <1>9 DEF r

(* After a series of insertions into an empty database only the cursor     *)
(* differs from writing the keys.                                          *)
InsertedTo(d, n) == [d EXCEPT !.inserted = n]

(* insert() by count keeps the database sound and its keys in place. *)
LEMMA InsertedToSound ==
    ASSUME NEW d, Sound(d), NEW n \in Nat
    PROVE  /\ Sound(InsertedTo(d, n))
           /\ InsertedTo(d, n).valid = d.valid /\ InsertedTo(d, n).data = d.data
BY DEF InsertedTo, Sound, Database, CountRight, FlagsRight
=============================================================================
