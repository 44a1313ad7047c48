--------------------------- MODULE Q3PLoad_proofs ---------------------------
(***************************************************************************)
(* Theorems about Q3PLoad: its type invariant, that the slave's common     *)
(* store is always part of the master's, and that the slave never has a    *)
(* piece of key material at two places; then, as long as the master clears *)
(* no slot beyond those of its offers, that the two sides agree.           *)
(***************************************************************************)
EXTENDS Q3PLoad, FiniteSetTheorems, TLAPS

(* What is proved of one database, for the common store and the buffers. *)
StoreP == INSTANCE KeyDB_proofs WITH
    Amount <- StoreAmount, Quantum <- Ratio, Material <- StoreKeys, NoMaterial <- 0
BufferP == INSTANCE KeyDB_proofs WITH
    Amount <- BufAmount, Quantum <- 1, Material <- Piece, NoMaterial <- NoPiece

StoreSound(d) == StoreP!Sound(d)
BufferSound(d) == BufferP!Sound(d)

(* The constants satisfy what KeyDB assumes of a database's.               *)
LEMMA StoreConstants ==
    StoreAmount \in Nat \ {0, 1} /\ Ratio \in Nat \ {0} /\ 0 \notin StoreKeys
BY AmountsAssumption, RatioAssumption, StoreKeysAssumption

(* The constants satisfy what KeyDB assumes of a buffer's. *)
LEMMA BufferConstants ==
    BufAmount \in Nat \ {0, 1} /\ 1 \in Nat \ {0} /\ NoPiece \notin Piece
<1>1. NoPiece[1] = 0
  BY DEF NoPiece
<1>2. \A p \in Piece : p[1] # 0
  BY StoreConstants DEF Piece
<1>3. QED
  BY <1>1, <1>2, AmountsAssumption

(* The operations of Q3PLoad's databases are those the lemmas speak of.    *)
LEMMA StoreOps ==
    /\ Store!Empty = StoreP!Empty
    /\ Store!Database = StoreP!Database
    /\ Store!Id = StoreP!Id
    /\ \A d, S, n : Store!SetKeyCount(d, S, n) = StoreP!SetKeyCount(d, S, n)
    /\ \A d, S : Store!Del(d, S) = StoreP!Del(d, S)
    /\ \A d, f : Store!SetKeys(d, f) = StoreP!SetKeys(d, f)
    /\ \A d, S : Store!SetRealSync(d, S) = StoreP!SetRealSync(d, S)
    /\ \A d, S : Store!SetInjected(d, S) = StoreP!SetInjected(d, S)
    /\ \A d : Store!Reset(d) = StoreP!Reset(d)
    /\ \A d, b, n : Store!FindValid(d, b, n) = StoreP!FindValid(d, b, n)
<1>1. Store!Empty = StoreP!Empty
  BY DEF Store!Empty, StoreP!Empty, Store!Id, StoreP!Id
<1>2. Store!Database = StoreP!Database
  BY DEF Store!Database, StoreP!Database, Store!Id, StoreP!Id,
        Store!MaxCount, StoreP!MaxCount
<1>3. Store!Id = StoreP!Id
  BY DEF Store!Id, StoreP!Id
<1>4. \A d, S, n : Store!SetKeyCount(d, S, n) = StoreP!SetKeyCount(d, S, n)
  BY DEF Store!SetKeyCount, StoreP!SetKeyCount, Store!Id, StoreP!Id,
        Store!CountValue, StoreP!CountValue, Store!MaxCount, StoreP!MaxCount
<1>5. \A d, S : Store!Del(d, S) = StoreP!Del(d, S)
  BY DEF Store!Del, StoreP!Del, Store!Id, StoreP!Id, Store!Cardinality,
        StoreP!Cardinality
<1>6. \A d, f : Store!SetKeys(d, f) = StoreP!SetKeys(d, f)
  BY DEF Store!SetKeys, StoreP!SetKeys, Store!Id, StoreP!Id,
        Store!Cardinality, StoreP!Cardinality
<1>7. \A d, S : Store!SetRealSync(d, S) = StoreP!SetRealSync(d, S)
  BY DEF Store!SetRealSync, StoreP!SetRealSync, Store!Cardinality,
        StoreP!Cardinality
<1>8. \A d, S : Store!SetInjected(d, S) = StoreP!SetInjected(d, S)
  BY DEF Store!SetInjected, StoreP!SetInjected
<1>9. \A d : Store!Reset(d) = StoreP!Reset(d)
  BY DEF Store!Reset, StoreP!Reset, Store!Id, StoreP!Id, Store!Cardinality,
        StoreP!Cardinality
<1>10. \A d, b, n : Store!FindValid(d, b, n) = StoreP!FindValid(d, b, n)
  <2>1. \A d : Store!Unreserved(d) = StoreP!Unreserved(d)
    BY DEF Store!Unreserved, StoreP!Unreserved, Store!Id, StoreP!Id
  <2>2. \A c, E, i : Store!Rank(c, E, i) = StoreP!Rank(c, E, i)
    BY DEF Store!Rank, StoreP!Rank, Store!Dist, StoreP!Dist,
           Store!Cardinality, StoreP!Cardinality
  <2>3. \A c, E, n : Store!Hits(c, E, n) = StoreP!Hits(c, E, n)
    BY <2>2 DEF Store!Hits, StoreP!Hits
  <2>4. \A c, S : Store!Along(c, S) = StoreP!Along(c, S)
    BY DEF Store!Along, StoreP!Along, Store!Rank, StoreP!Rank, Store!Dist, StoreP!Dist,
           Store!Cardinality, StoreP!Cardinality
  <2>5. \A d, S, n : Store!Reserve(d, S, n) = StoreP!Reserve(d, S, n)
    BY <1>4 DEF Store!Reserve, StoreP!Reserve
  <2>6. ASSUME NEW d, NEW b, NEW n
        PROVE  Store!FindValid(d, b, n) = StoreP!FindValid(d, b, n)
    <3> DEFINE E == (StoreP!Unreserved(d) \cap d.valid) \ {d.picked}
               k == b \div Ratio
               S == IF b % Ratio # 0 THEN {} ELSE StoreP!Hits(d.picked, E, k)
               last == {i \in S : StoreP!Rank(d.picked, E, i) = k}
               lastS == {i \in S : Store!Rank(d.picked, E, i) = k}
    <3>1. StoreP!FindValid(d, b, n) =
            [ db  |-> [StoreP!Reserve(d, S, n) EXCEPT
                         !.picked = IF last = {} THEN @ ELSE CHOOSE i \in last : TRUE],
              ids |-> StoreP!Along(d.picked, S) ]
      BY DEF StoreP!FindValid
    <3>2. Store!FindValid(d, b, n) =
            [ db  |-> [StoreP!Reserve(d, S, n) EXCEPT
                         !.picked = IF lastS = {} THEN @ ELSE CHOOSE i \in lastS : TRUE],
              ids |-> StoreP!Along(d.picked, S) ]
      BY <2>1, <2>3, <2>4, <2>5 DEF Store!FindValid
    <3>3. last = lastS
      BY <2>2
    <3> HIDE DEF last, lastS, S
    <3>4. QED
      BY <3>1, <3>2, <3>3
  <2>7. QED
    BY <2>6
<1>11. QED
  BY <1>1, <1>2, <1>3, <1>4, <1>5, <1>6, <1>7, <1>8, <1>9, <1>10

(* The operations of the buffers are those the lemmas of KeyDB speak of. *)
LEMMA BufferOps ==
    /\ Buffer!Empty = BufferP!Empty
    /\ Buffer!Database = BufferP!Database
    /\ Buffer!Id = BufferP!Id
    /\ \A d, S, n : Buffer!SetKeyCount(d, S, n) = BufferP!SetKeyCount(d, S, n)
    /\ \A d, S : Buffer!Del(d, S) = BufferP!Del(d, S)
    /\ \A d, f : Buffer!SetKeys(d, f) = BufferP!SetKeys(d, f)
    /\ \A d, S : Buffer!SetRealSync(d, S) = BufferP!SetRealSync(d, S)
    /\ \A d, S : Buffer!SetEventualSync(d, S) = BufferP!SetEventualSync(d, S)
    /\ \A d, b, n : Buffer!FindValid(d, b, n) = BufferP!FindValid(d, b, n)
    /\ \A d, b, n : Buffer!FindSpare(d, b, n) = BufferP!FindSpare(d, b, n)
<1>1. Buffer!Empty = BufferP!Empty
  BY DEF Buffer!Empty, BufferP!Empty, Buffer!Id, BufferP!Id
<1>2. Buffer!Database = BufferP!Database
  BY DEF Buffer!Database, BufferP!Database, Buffer!Id, BufferP!Id,
        Buffer!MaxCount, BufferP!MaxCount
<1>3. Buffer!Id = BufferP!Id
  BY DEF Buffer!Id, BufferP!Id
<1>4. \A d, S, n : Buffer!SetKeyCount(d, S, n) = BufferP!SetKeyCount(d, S, n)
  BY DEF Buffer!SetKeyCount, BufferP!SetKeyCount, Buffer!Id, BufferP!Id,
        Buffer!CountValue, BufferP!CountValue, Buffer!MaxCount,
        BufferP!MaxCount
<1>5. \A d, S : Buffer!Del(d, S) = BufferP!Del(d, S)
  BY DEF Buffer!Del, BufferP!Del, Buffer!Id, BufferP!Id, Buffer!Cardinality,
        BufferP!Cardinality
<1>6. \A d, f : Buffer!SetKeys(d, f) = BufferP!SetKeys(d, f)
  BY DEF Buffer!SetKeys, BufferP!SetKeys, Buffer!Id, BufferP!Id,
        Buffer!Cardinality, BufferP!Cardinality
<1>7. \A d, S : Buffer!SetRealSync(d, S) = BufferP!SetRealSync(d, S)
  BY DEF Buffer!SetRealSync, BufferP!SetRealSync, Buffer!Cardinality,
        BufferP!Cardinality
<1>8. \A d, S : Buffer!SetEventualSync(d, S) = BufferP!SetEventualSync(d, S)
  BY DEF Buffer!SetEventualSync, BufferP!SetEventualSync, Buffer!Cardinality,
        BufferP!Cardinality
<1>9. \A d, b, n : Buffer!FindValid(d, b, n) = BufferP!FindValid(d, b, n)
  BY DEF Buffer!FindValid, BufferP!FindValid, Buffer!Reserve,
        BufferP!Reserve, Buffer!SetKeyCount, BufferP!SetKeyCount,
        Buffer!CountValue, BufferP!CountValue, Buffer!MaxCount,
        BufferP!MaxCount, Buffer!Unreserved, BufferP!Unreserved, Buffer!Dist,
        BufferP!Dist, Buffer!Rank, BufferP!Rank, Buffer!Hits, BufferP!Hits,
        Buffer!Along, BufferP!Along, Buffer!Id, BufferP!Id,
        Buffer!Cardinality, BufferP!Cardinality
<1>10. \A d, b, n : Buffer!FindSpare(d, b, n) = BufferP!FindSpare(d, b, n)
  BY DEF Buffer!FindSpare, BufferP!FindSpare, Buffer!Reserve,
        BufferP!Reserve, Buffer!SetKeyCount, BufferP!SetKeyCount,
        Buffer!CountValue, BufferP!CountValue, Buffer!MaxCount,
        BufferP!MaxCount, Buffer!Unreserved, BufferP!Unreserved, Buffer!Dist,
        BufferP!Dist, Buffer!Rank, BufferP!Rank, Buffer!Hits, BufferP!Hits,
        Buffer!Along, BufferP!Along, Buffer!Id, BufferP!Id,
        Buffer!Cardinality, BufferP!Cardinality
<1>11. QED
  BY <1>1, <1>2, <1>3, <1>4, <1>5, <1>6, <1>7, <1>8, <1>9, <1>10

-----------------------------------------------------------------------------
(* The common store.                                                       *)

Distinct(s) == \A k, l \in DOMAIN s : s[k] = s[l] => k = l

(* What a sound common store looks like. *)
LEMMA StoreType ==
    ASSUME NEW d, StoreSound(d)
    PROVE  /\ d \in Store!Database /\ d.valid \in SUBSET Store!Id
           /\ d.count \in Nat /\ d.cnt \in [Store!Id -> Nat]
           /\ \A i \in d.valid : d.data[i] \in StoreKeys
<1>1. StoreP!Sound(d)
  BY DEF StoreSound
<1>2. d \in StoreP!Database /\ StoreP!CountRight(d) /\ StoreP!FlagsRight(d)
  BY <1>1 DEF StoreP!Sound
<1>3. d.valid \in SUBSET StoreP!Id /\ StoreP!Cardinality(d.valid) \in Nat
  BY <1>1, StoreConstants, StoreP!SoundFinite
<1>4. d.count \in Nat
  BY <1>2, <1>3 DEF StoreP!CountRight
<1>5. d.cnt \in [StoreP!Id -> Nat]
  BY <1>2 DEF StoreP!Database, StoreP!MaxCount
<1>6. QED
  BY <1>2, <1>3, <1>4, <1>5, StoreOps DEF StoreP!FlagsRight

(* Counting, deleting and opening keep it sound, and only deleting changes *)
(* which keys it holds.                                                    *)
LEMMA StoreAfter ==
    ASSUME NEW d, StoreSound(d), NEW S, NEW n \in Nat
    PROVE  /\ StoreSound(Store!SetKeyCount(d, S, n))
           /\ Store!SetKeyCount(d, S, n).valid = d.valid
           /\ Store!SetKeyCount(d, S, n).data = d.data
           /\ StoreSound(Store!Reset(d))
           /\ Store!Reset(d).valid = d.valid /\ Store!Reset(d).data = d.data
<1>1. StoreP!Sound(d)
  BY DEF StoreSound
<1>2. StoreP!Sound(StoreP!SetKeyCount(d, S, n)) /\ StoreP!Sound(StoreP!Reset(d))
  BY <1>1, StoreConstants, StoreP!SetKeyCountSound, StoreP!ResetSound
<1>3. /\ StoreP!SetKeyCount(d, S, n).valid = d.valid
      /\ StoreP!SetKeyCount(d, S, n).data = d.data
      /\ StoreP!Reset(d).valid = d.valid /\ StoreP!Reset(d).data = d.data
  BY <1>1, StoreConstants, StoreP!ContentsAfter
<1>4. QED
  BY <1>2, <1>3, StoreOps DEF StoreSound

(* Deleting keys of the store takes these and leaves the others. *)
LEMMA StoreWithout ==
    ASSUME NEW d, StoreSound(d), NEW S
    PROVE  /\ StoreSound(Store!Del(d, S))
           /\ Store!Del(d, S).valid = d.valid \ S
           /\ \A i \in d.valid \ S : Store!Del(d, S).data[i] = d.data[i]
<1>1. StoreP!Sound(d)
  BY DEF StoreSound
<1>2. StoreP!Sound(StoreP!Del(d, S))
  BY <1>1, StoreConstants, StoreP!DelSound
<1>3. /\ StoreP!Del(d, S).valid = d.valid \ S
      /\ \A i \in d.valid \ S : StoreP!Del(d, S).data[i] = d.data[i]
  BY <1>1, StoreConstants, StoreP!ContentsWithout
<1>4. QED
  BY <1>2, <1>3, StoreOps DEF StoreSound

(* A search for keys of the store lists keys it has and nobody holds, each *)
(* once, and reserves them.                                                *)
LEMMA StoreFound ==
    ASSUME NEW d, StoreSound(d), NEW bytes \in Nat
    PROVE  LET r == Store!FindValid(d, bytes, 1)
           IN  /\ StoreSound(r.db) /\ r.db.valid = d.valid /\ r.db.data = d.data
               /\ r.ids \in Seq(Store!Id) /\ Distinct(r.ids)
               /\ \A i \in Elems(r.ids) : d.cnt[i] = 0 /\ r.db.cnt[i] # 0
<1>1. StoreP!Sound(d)
  BY DEF StoreSound
<1> DEFINE r == StoreP!FindValid(d, bytes, 1)
<1>2. /\ StoreP!Sound(r.db) /\ r.db.valid = d.valid /\ r.db.data = d.data
      /\ \E S \in SUBSET d.valid :
            /\ StoreP!ListOf(r.ids, S)
            /\ \A i \in S : d.cnt[i] = 0 /\ r.db.cnt[i] # 0
  BY <1>1, StoreConstants, StoreP!KeysListed
<1>3. Store!FindValid(d, bytes, 1) = r /\ Store!Id = StoreP!Id
  BY StoreOps
<1> HIDE DEF r
<1>4. r.ids \in Seq(StoreP!Id) /\ Distinct(r.ids)
  BY <1>2 DEF StoreP!ListOf, Distinct
<1>5. \A i \in Elems(r.ids) : d.cnt[i] = 0 /\ r.db.cnt[i] # 0
  BY <1>2 DEF StoreP!ListOf, Elems
<1>6. QED
  BY <1>2, <1>3, <1>4, <1>5 DEF StoreSound

-----------------------------------------------------------------------------
(* The buffers.                                                            *)

(* What a sound buffer looks like. *)
LEMMA BufferType ==
    ASSUME NEW d, BufferSound(d)
    PROVE  /\ d \in Buffer!Database /\ d.valid \in SUBSET Buffer!Id /\ d.count \in Nat
           /\ \A i \in d.valid : d.data[i] \in Piece
<1>1. BufferP!Sound(d)
  BY DEF BufferSound
<1>2. d \in BufferP!Database /\ BufferP!CountRight(d) /\ BufferP!FlagsRight(d)
  BY <1>1 DEF BufferP!Sound
<1>3. d.valid \in SUBSET BufferP!Id /\ BufferP!Cardinality(d.valid) \in Nat
  BY <1>1, BufferConstants, BufferP!SoundFinite
<1>4. d.count \in Nat
  BY <1>2, <1>3 DEF BufferP!CountRight
<1>5. QED
  BY <1>2, <1>3, <1>4, BufferOps DEF BufferP!FlagsRight

(* Counting, synchronising and deleting keep a buffer sound and its other keys. *)
LEMMA BufferAfter ==
    ASSUME NEW d, BufferSound(d), NEW S, NEW n \in Nat
    PROVE  /\ BufferSound(Buffer!SetKeyCount(d, S, n))
           /\ Buffer!SetKeyCount(d, S, n).valid = d.valid
           /\ Buffer!SetKeyCount(d, S, n).data = d.data
           /\ BufferSound(Buffer!SetRealSync(d, S))
           /\ Buffer!SetRealSync(d, S).valid = d.valid
           /\ Buffer!SetRealSync(d, S).data = d.data
           /\ BufferSound(Buffer!SetEventualSync(d, S))
           /\ BufferSound(Buffer!Del(d, S))
           /\ Buffer!Del(d, S).valid = d.valid \ S
           /\ \A i \in d.valid \ S : Buffer!Del(d, S).data[i] = d.data[i]
<1>1. BufferP!Sound(d)
  BY DEF BufferSound
<1>2. /\ BufferP!Sound(BufferP!SetKeyCount(d, S, n)) /\ BufferP!Sound(BufferP!Del(d, S))
      /\ BufferP!Sound(BufferP!SetRealSync(d, S))
      /\ BufferP!Sound(BufferP!SetEventualSync(d, S))
  BY <1>1, BufferConstants, BufferP!SetKeyCountSound, BufferP!DelSound,
     BufferP!SetRealSyncSound, BufferP!SetEventualSyncSound
<1>3. /\ BufferP!SetKeyCount(d, S, n).valid = d.valid
      /\ BufferP!SetKeyCount(d, S, n).data = d.data
      /\ BufferP!SetRealSync(d, S).valid = d.valid
      /\ BufferP!SetRealSync(d, S).data = d.data
      /\ BufferP!Del(d, S).valid = d.valid \ S
      /\ \A i \in d.valid \ S : BufferP!Del(d, S).data[i] = d.data[i]
  BY <1>1, BufferConstants, BufferP!ContentsAfter, BufferP!ContentsWithout
<1>4. /\ Buffer!SetKeyCount(d, S, n) = BufferP!SetKeyCount(d, S, n)
      /\ Buffer!SetRealSync(d, S) = BufferP!SetRealSync(d, S)
      /\ Buffer!SetEventualSync(d, S) = BufferP!SetEventualSync(d, S)
      /\ Buffer!Del(d, S) = BufferP!Del(d, S)
  BY BufferOps
<1>5. QED
  BY <1>2, <1>3, <1>4 DEF BufferSound

(* Writing pieces of keys into slots. *)
LEMMA BufferSet ==
    ASSUME NEW d, BufferSound(d), NEW f, DOMAIN f \in SUBSET Buffer!Id,
           \A i \in DOMAIN f : f[i] \in Piece
    PROVE  LET r == Buffer!SetKeys(d, f)
           IN  /\ BufferSound(r) /\ r.valid = d.valid \cup DOMAIN f
               /\ \A i \in r.valid : r.data[i] = IF i \in DOMAIN f THEN f[i] ELSE d.data[i]
<1>1. BufferP!Sound(d) /\ d.valid \in SUBSET Buffer!Id
  BY BufferType DEF BufferSound
<1>2. \A i \in BufferP!Id \cap DOMAIN f : f[i] \in Piece
  OBVIOUS
<1>3. BufferP!Sound(BufferP!SetKeys(d, f))
  BY <1>1, <1>2, BufferConstants, BufferP!SetKeysSound
<1>4. /\ BufferP!SetKeys(d, f).valid = d.valid \cup (BufferP!Id \cap DOMAIN f)
      /\ \A i \in BufferP!Id :
            BufferP!SetKeys(d, f).data[i] = IF i \in DOMAIN f THEN f[i] ELSE d.data[i]
  BY <1>1, BufferConstants, BufferP!ContentsWritten
<1>5. QED
  BY <1>1, <1>3, <1>4, BufferOps DEF BufferSound

(* What a message queue takes and what an offer reserves. *)
LEMMA BufferFound ==
    ASSUME NEW d, BufferSound(d), NEW bytes \in Nat
    PROVE  LET r == Buffer!FindValid(d, bytes, 1)
           IN  /\ BufferSound(r.db) /\ r.db.valid = d.valid /\ r.db.data = d.data
               /\ r.ids \in Seq(d.valid)
<1>1. BufferP!Sound(d)
  BY DEF BufferSound
<1> DEFINE r == BufferP!FindValid(d, bytes, 1)
<1>2. /\ BufferP!Sound(r.db) /\ r.db.valid = d.valid /\ r.db.data = d.data
      /\ \E S \in SUBSET d.valid :
            /\ BufferP!ListOf(r.ids, S)
            /\ \A i \in S : d.cnt[i] = 0 /\ r.db.cnt[i] # 0
  BY <1>1, BufferConstants, BufferP!KeysListed
<1>3. Buffer!FindValid(d, bytes, 1) = r
  BY BufferOps
<1> HIDE DEF r
<1>4. r.ids \in Seq(BufferP!Id) /\ \A k \in DOMAIN r.ids : r.ids[k] \in d.valid
  BY <1>2 DEF BufferP!ListOf
<1>5. r.ids \in Seq(d.valid)
  BY <1>4
<1>6. QED
  BY <1>2, <1>3, <1>5 DEF BufferSound

(* What an offer finds of empty slots in a buffer. *)
LEMMA BufferSpare ==
    ASSUME NEW d, BufferSound(d), NEW bytes \in Nat
    PROVE  LET r == Buffer!FindSpare(d, bytes, 1)
           IN  /\ BufferSound(r.db) /\ r.db.valid = d.valid /\ r.db.data = d.data
               /\ r.ids \in Seq(Buffer!Id)
<1>1. BufferP!Sound(d)
  BY DEF BufferSound
<1> DEFINE r == BufferP!FindSpare(d, bytes, 1)
<1>2. BufferP!Sound(r.db) /\ r.db.valid = d.valid /\ r.db.data = d.data
      /\ r.ids \in Seq(BufferP!Id)
  BY <1>1, BufferConstants, BufferP!SparesListed
<1>3. QED
  BY <1>2, BufferOps DEF BufferSound

-----------------------------------------------------------------------------
(* Which keys of a list move, and into what (key_move.cpp).                *)

(* Among some positions of a list there is, for every n up to their        *)
(* number, an n-th.                                                        *)
LEMMA NthPosition ==
    ASSUME NEW m \in Nat, NEW P \in SUBSET (1 .. m)
    PROVE  /\ Cardinality(P) \in Nat
           /\ \A n \in 1 .. Cardinality(P) :
                \E i \in P : Cardinality({j \in P : j <= i}) = n
<1> DEFINE upto(i) == {j \in P : j <= i}
           rank == [i \in P |-> Cardinality(upto(i))]
           R == 1 .. Cardinality(P)
<1>1. IsFiniteSet(P) /\ Cardinality(P) \in Nat /\ \A i \in P : i \in Nat
  <2>1. IsFiniteSet(1 .. m)
    BY FS_Interval
  <2>2. IsFiniteSet(P)
    BY <2>1, FS_Subset
  <2>3. QED
    BY <2>2, FS_CardinalityType
<1>2. ASSUME NEW i \in P
      PROVE  IsFiniteSet(upto(i)) /\ Cardinality(upto(i)) \in R
  <2>1. upto(i) \in SUBSET P /\ i \in upto(i)
    OBVIOUS
  <2>2. /\ IsFiniteSet(upto(i)) /\ Cardinality(upto(i)) \in Nat
        /\ Cardinality(upto(i)) <= Cardinality(P)
    BY <1>1, <2>1, FS_Subset, FS_CardinalityType
  <2>3. Cardinality(upto(i)) # 0
    BY <2>1, <2>2, FS_EmptySet
  <2>4. QED
    BY <1>1, <2>2, <2>3
<1>3. ASSUME NEW i \in P, NEW j \in P, i < j
      PROVE  Cardinality(upto(i)) # Cardinality(upto(j))
  <2>1. upto(i) \in SUBSET upto(j) /\ j \in upto(j) /\ j \notin upto(i)
    <3>1. i \in Nat /\ j \in Nat
      BY <1>1
    <3>2. \A k \in P : k <= i => k <= j
      BY <1>1, <1>3, <3>1
    <3>3. j <= j /\ ~(j <= i)
      BY <1>3, <3>1
    <3>4. QED
      BY <3>2, <3>3
  <2>2. upto(i) # upto(j)
    BY <2>1
  <2>3. QED
    BY <1>2, <2>1, <2>2, FS_Subset
<1>4. \A i, j \in P : Cardinality(upto(i)) = Cardinality(upto(j)) => i = j
  <2>1. ASSUME NEW i \in P, NEW j \in P, i # j
        PROVE  Cardinality(upto(i)) # Cardinality(upto(j))
    <3>1. i < j \/ j < i
      BY <1>1, <2>1
    <3>2. QED
      BY <1>3, <3>1
  <2>2. QED
    BY <2>1
<1>5. rank \in Injection(P, R)
  BY <1>2, <1>4 DEF Injection, IsInjective
<1>6. IsFiniteSet(R) /\ Cardinality(R) = Cardinality(P)
  BY <1>1, FS_Interval
<1>7. rank \in Surjection(P, R)
  BY <1>5, <1>6, FS_Injection
<1>8. \A n \in R : \E i \in P : rank[i] = n
  BY <1>7 DEF Surjection
<1>9. QED
  BY <1>1, <1>8

(* The quanta a key of the store is cut into. *)
LEMMA WholeParts ==
    ASSUME NEW n \in Nat
    PROVE  /\ n \div Ratio \in Nat /\ n % Ratio \in 0 .. Ratio - 1
           /\ n = Ratio * (n \div Ratio) + (n % Ratio)
<1>1. Ratio \in Nat /\ Ratio > 0
  BY RatioAssumption
<1>2. QED
  BY <1>1

(* What moves: keys of the list the store has, each once if they are so in *)
(* the list, with slots for all their parts.                               *)
Moves(moved, store, keys, slots) ==
    /\ moved \in Seq(store.valid)
    /\ \A n \in DOMAIN moved : moved[n] \in Elems(keys)
    /\ Len(moved) \in Nat /\ Ratio * Len(moved) \in Nat
    /\ Ratio * Len(moved) <= Len(slots)
    /\ Distinct(keys) => Distinct(moved)

(* Which keys and slots of an offer a move may take. *)
LEMMA MovableMoves ==
    ASSUME NEW store, NEW K, NEW keys \in Seq(K), NEW L, NEW slots \in Seq(L)
    PROVE  Moves(Movable(store, keys, slots), store, keys, slots)
<1> DEFINE P == {i \in DOMAIN keys : keys[i] \in store.valid}
           rank(i) == Cardinality({j \in P : j <= i})
           nth(n) == CHOOSE i \in P : rank(i) = n
           room == Len(slots) \div Ratio
           N == Least(Cardinality(P), room)
           moved == Movable(store, keys, slots)
<1>1. /\ Len(keys) \in Nat /\ DOMAIN keys = 1 .. Len(keys)
      /\ Len(slots) \in Nat /\ P \in SUBSET (1 .. Len(keys))
  OBVIOUS
<1>2. /\ Cardinality(P) \in Nat
      /\ \A n \in 1 .. Cardinality(P) : \E i \in P : rank(i) = n
  <2> HIDE DEF P
  <2>1. QED
    BY <1>1, NthPosition
<1>3. room \in Nat /\ Ratio * room <= Len(slots)
  <2>1. /\ room \in Nat /\ Len(slots) % Ratio \in 0 .. Ratio - 1
        /\ Len(slots) = Ratio * room + (Len(slots) % Ratio)
    BY <1>1, WholeParts
  <2>2. Ratio \in Nat /\ Ratio * room \in Nat
    BY <2>1, RatioAssumption
  <2> HIDE DEF room
  <2>3. QED
    BY <1>1, <2>1, <2>2
<1>4. N \in Nat /\ N <= Cardinality(P) /\ N <= room
  BY <1>2, <1>3 DEF Least
<1>5. moved = [n \in 1 .. N |-> keys[nth(n)]]
  BY DEF Movable
<1>6. \A n \in 1 .. N : nth(n) \in P /\ rank(nth(n)) = n
  <2>1. ASSUME NEW n \in 1 .. N PROVE \E i \in P : rank(i) = n
    <3> HIDE DEF N
    <3>1. n \in 1 .. Cardinality(P)
      BY <1>2, <1>4
    <3>2. QED
      BY <1>2, <3>1
  <2>2. QED
    BY <2>1
<1> HIDE DEF N, moved, nth, rank, room
<1>7. /\ \A n \in 1 .. N : moved[n] = keys[nth(n)]
      /\ \A n \in 1 .. N : moved[n] \in store.valid /\ moved[n] \in Elems(keys)
  BY <1>5, <1>6 DEF Elems
<1>8. moved \in Seq(store.valid) /\ Len(moved) = N /\ DOMAIN moved = 1 .. N
  BY <1>4, <1>5, <1>7
<1>9. Ratio * N \in Nat /\ Ratio * N <= Len(slots)
  <2>1. Ratio \in Nat /\ Ratio > 0
    BY RatioAssumption
  <2>2. Ratio * N <= Ratio * room /\ Ratio * N \in Nat
    BY <1>3, <1>4, <2>1
  <2>3. Ratio * room \in Nat
    BY <1>3, <2>1
  <2>4. QED
    BY <1>1, <1>3, <2>2, <2>3
<1>10. Distinct(keys) => Distinct(moved)
  <2>1. \A n \in 1 .. N : nth(n) \in DOMAIN keys
    BY <1>6
  <2>2. QED
    BY <1>6, <1>7, <1>8, <2>1 DEF Distinct
<1>11. QED
  BY <1>7, <1>8, <1>9, <1>10 DEF Moves, moved

(* The j-th slot gets one part of one key, and no other slot gets it.      *)
KeyAt(j) == (j - 1) \div Ratio + 1
PartAt(j) == ((j - 1) % Ratio) + 1

(* The pieces a move writes are pieces of keys of the store. *)
LEMMA PartsOfKeys ==
    ASSUME NEW m \in Nat
    PROVE  /\ \A j \in 1 .. Ratio * m : KeyAt(j) \in 1 .. m /\ PartAt(j) \in 1 .. Ratio
           /\ \A j, l \in 1 .. Ratio * m :
                KeyAt(j) = KeyAt(l) /\ PartAt(j) = PartAt(l) => j = l
<1>1. Ratio \in Nat /\ Ratio > 0 /\ Ratio * m \in Nat
  BY RatioAssumption
<1>2. ASSUME NEW j \in 1 .. Ratio * m
      PROVE  /\ KeyAt(j) \in 1 .. m /\ PartAt(j) \in 1 .. Ratio
             /\ j = Ratio * (KeyAt(j) - 1) + PartAt(j)
  <2> DEFINE q == (j - 1) \div Ratio
             r == (j - 1) % Ratio
  <2>1. j - 1 \in Nat /\ j - 1 < Ratio * m
    BY <1>1
  <2>2. q \in Nat /\ r \in 0 .. Ratio - 1 /\ j - 1 = Ratio * q + r
    BY <2>1, WholeParts
  <2> HIDE DEF q, r
  <2>3. q < m
    <3>1. SUFFICES ASSUME q >= m PROVE FALSE
      BY <2>2
    <3>2. Ratio * m <= Ratio * q /\ Ratio * q \in Nat
      BY <1>1, <2>2, <3>1
    <3>3. QED
      BY <1>1, <2>1, <2>2, <3>2
  <2>4. KeyAt(j) = q + 1 /\ PartAt(j) = r + 1
    BY DEF KeyAt, PartAt, q, r
  <2>5. Ratio * q \in Nat /\ KeyAt(j) - 1 = q
    BY <1>1, <2>2, <2>4
  <2>6. QED
    BY <1>1, <2>1, <2>2, <2>3, <2>4, <2>5
<1>3. QED
  BY <1>2

(* The pieces keys turn into are pieces of those keys, and no two slots    *)
(* get the same if the keys are distinct and hold distinct material.       *)
LEMMA PiecesOfKeys ==
    ASSUME NEW store, StoreSound(store), NEW moved \in Seq(store.valid),
           NEW slots \in Seq(Buffer!Id), Ratio * Len(moved) <= Len(slots)
    PROVE  LET f == Pieces(store, moved, slots)
           IN  /\ DOMAIN f \in SUBSET Buffer!Id
               /\ \A s \in DOMAIN f : f[s] \in StoreKeys \X (1 .. Ratio) /\ f[s] \in Piece
               /\ \A s \in DOMAIN f : \E k \in Elems(moved) : f[s][1] = store.data[k]
               /\ (\A k \in store.valid : store.data[k] = k) /\ Distinct(moved) =>
                     \A s, t \in DOMAIN f : f[s] = f[t] => s = t
<1> DEFINE f == Pieces(store, moved, slots)
           D == {slots[j] : j \in 1 .. Ratio * Len(moved)}
           at(s) == CHOOSE j \in 1 .. Ratio * Len(moved) : slots[j] = s
<1>1. Ratio \in Nat /\ Ratio > 0 /\ Len(moved) \in Nat /\ Ratio * Len(moved) \in Nat
      /\ Len(slots) \in Nat
  BY RatioAssumption
<1>2. 1 .. Ratio * Len(moved) \subseteq DOMAIN slots
  BY <1>1
<1>3. D \in SUBSET Buffer!Id
  BY <1>2
<1>4. \A s \in D : at(s) \in 1 .. Ratio * Len(moved) /\ slots[at(s)] = s
  OBVIOUS
<1>5. f = [s \in D |-> <<store.data[moved[KeyAt(at(s))]], PartAt(at(s))>>]
  BY DEF Pieces, KeyAt, PartAt
<1> HIDE DEF f, D, at
<1>6. \A s \in D : KeyAt(at(s)) \in 1 .. Len(moved) /\ PartAt(at(s)) \in 1 .. Ratio
  BY <1>1, <1>4, PartsOfKeys
<1>7. \A s \in D : /\ moved[KeyAt(at(s))] \in store.valid
                   /\ moved[KeyAt(at(s))] \in Elems(moved)
  BY <1>6 DEF Elems
<1>8. \A s \in D : /\ f[s] = <<store.data[moved[KeyAt(at(s))]], PartAt(at(s))>>
                   /\ f[s][1] = store.data[moved[KeyAt(at(s))]]
                   /\ f[s][2] = PartAt(at(s))
  BY <1>5
<1>9. DOMAIN f = D
  BY <1>5
<1>10. \A s \in D : f[s] \in StoreKeys \X (1 .. Ratio)
  <2>1. \A k \in store.valid : store.data[k] \in StoreKeys
    BY StoreType
  <2>2. ASSUME NEW s \in D PROVE f[s] \in StoreKeys \X (1 .. Ratio)
    <3>1. store.data[moved[KeyAt(at(s))]] \in StoreKeys
      BY <1>7, <2>1
    <3>2. PartAt(at(s)) \in 1 .. Ratio
      BY <1>6
    <3>3. f[s] = <<store.data[moved[KeyAt(at(s))]], PartAt(at(s))>>
      BY <1>8
    <3>4. QED
      BY <3>1, <3>2, <3>3
  <2>3. QED
    BY <2>2
<1>11. \A s \in D : f[s] \in Piece
  BY <1>10 DEF Piece
<1>12. ASSUME \A k \in store.valid : store.data[k] = k, Distinct(moved),
              NEW s \in D, NEW t \in D, f[s] = f[t]
       PROVE  s = t
  <2>1. moved[KeyAt(at(s))] = moved[KeyAt(at(t))] /\ PartAt(at(s)) = PartAt(at(t))
    BY <1>7, <1>8, <1>12
  <2>2. KeyAt(at(s)) = KeyAt(at(t))
    BY <1>6, <1>12, <2>1 DEF Distinct
  <2>3. at(s) = at(t)
    BY <1>1, <1>4, <2>1, <2>2, PartsOfKeys
  <2>4. QED
    BY <1>4, <2>3
<1>13. QED
  BY <1>3, <1>7, <1>8, <1>9, <1>10, <1>11, <1>12 DEF f

-----------------------------------------------------------------------------
(* An engine and its databases.                                            *)

SoundEngine(e) ==
    /\ e \in Engine
    /\ StoreSound(e.store)
    /\ \A b \in Buffers : BufferSound(e[b])

(* An engine is its store and its three buffers, each of them sound. *)
LEMMA EngineParts ==
    ASSUME NEW e, e \in Engine
    PROVE  /\ DOMAIN e = {"store", "in", "out", "app"}
           /\ e.in = e["in"] /\ e.out = e["out"] /\ e.app = e["app"]
BY DEF Engine

(* Replacing a buffer or the store. *)
LEMMA PutBuffer ==
    ASSUME NEW e, SoundEngine(e), NEW b \in Buffers, NEW d, BufferSound(d)
    PROVE  LET r == [e EXCEPT ![b] = d]
           IN  /\ SoundEngine(r) /\ r.store = e.store /\ r[b] = d
               /\ \A c \in Buffers \ {b} : r[c] = e[c]
<1> DEFINE r == [e EXCEPT ![b] = d]
<1>1. e \in Engine /\ d \in Buffer!Database
  BY BufferType DEF SoundEngine
<1>2. r \in Engine /\ r.store = e.store /\ r[b] = d
  BY <1>1 DEF Engine, Buffers
<1>3. \A c \in Buffers \ {b} : r[c] = e[c]
  BY <1>1 DEF Engine, Buffers
<1>4. QED
  BY <1>2, <1>3 DEF SoundEngine

(* An engine with another sound store is sound. *)
LEMMA PutStore ==
    ASSUME NEW e, SoundEngine(e), NEW d, StoreSound(d)
    PROVE  LET r == [e EXCEPT !.store = d]
           IN  /\ SoundEngine(r) /\ r.store = d
               /\ \A c \in Buffers : r[c] = e[c]
<1> DEFINE r == [e EXCEPT !.store = d]
<1>1. e \in Engine /\ d \in Store!Database
  BY StoreType DEF SoundEngine
<1>2. r \in Engine /\ r.store = d
  BY <1>1 DEF Engine
<1>3. \A c \in Buffers : r[c] = e[c]
  BY <1>1 DEF Engine, Buffers
<1>4. QED
  BY <1>2, <1>3 DEF SoundEngine

WithBoth(e, b, d, s) == [e EXCEPT ![b] = d, !.store = s]
WithAll(e, s, b, d, a) == [e EXCEPT !.store = s, ![b] = d, !.app = a]

(* An engine with another store and another buffer is sound. *)
LEMMA PutBoth ==
    ASSUME NEW e, SoundEngine(e), NEW b \in Buffers, NEW d, BufferSound(d),
           NEW s, StoreSound(s)
    PROVE  /\ SoundEngine(WithBoth(e, b, d, s))
           /\ WithBoth(e, b, d, s).store = s /\ WithBoth(e, b, d, s)[b] = d
           /\ \A c \in Buffers \ {b} : WithBoth(e, b, d, s)[c] = e[c]
<1> DEFINE q == [e EXCEPT ![b] = d]
           r == [q EXCEPT !.store = s]
<1>1. SoundEngine(q) /\ q[b] = d /\ \A c \in Buffers \ {b} : q[c] = e[c]
  BY PutBuffer
<1>2. WithBoth(e, b, d, s) = r
  BY DEF WithBoth, q, r
<1> HIDE DEF q
<1>3. SoundEngine(r) /\ r.store = s /\ \A c \in Buffers : r[c] = q[c]
  BY <1>1, PutStore
<1>4. QED
  BY <1>1, <1>2, <1>3

WithTwo(e, b, d, c, a) == [e EXCEPT ![b] = d, ![c] = a]

(* An engine with two other buffers is sound. *)
LEMMA PutTwo ==
    ASSUME NEW e, SoundEngine(e), NEW b \in Buffers, NEW c \in Buffers, b # c,
           NEW d, BufferSound(d), NEW a, BufferSound(a)
    PROVE  /\ SoundEngine(WithTwo(e, b, d, c, a)) /\ WithTwo(e, b, d, c, a).store = e.store
           /\ WithTwo(e, b, d, c, a)[b] = d /\ WithTwo(e, b, d, c, a)[c] = a
           /\ \A x \in Buffers \ {b, c} : WithTwo(e, b, d, c, a)[x] = e[x]
<1> DEFINE q == [e EXCEPT ![b] = d]
           r == [q EXCEPT ![c] = a]
<1>1. /\ SoundEngine(q) /\ q.store = e.store /\ q[b] = d
      /\ \A x \in Buffers \ {b} : q[x] = e[x]
  BY PutBuffer
<1>2. WithTwo(e, b, d, c, a) = r
  BY DEF WithTwo, q, r
<1> HIDE DEF q
<1>3. /\ SoundEngine(r) /\ r.store = q.store /\ r[c] = a
      /\ \A x \in Buffers \ {c} : r[x] = q[x]
  BY <1>1, PutBuffer
<1>4. QED
  BY <1>1, <1>2, <1>3

(* The store and both buffers an offer is about. *)
LEMMA PutAll ==
    ASSUME NEW e, SoundEngine(e), NEW s, StoreSound(s),
           NEW b \in {"in", "out"}, NEW d, BufferSound(d), NEW a, BufferSound(a)
    PROVE  SoundEngine(WithAll(e, s, b, d, a)) /\ WithAll(e, s, b, d, a).store = s
<1> DEFINE q == [e EXCEPT !.store = s]
           p == [q EXCEPT ![b] = d]
           r == [p EXCEPT !["app"] = a]
<1>1. SoundEngine(q) /\ q.store = s
  BY PutStore
<1>2. WithAll(e, s, b, d, a) = r
  BY DEF WithAll, q, p, r
<1>3. b \in Buffers /\ "app" \in Buffers
  BY DEF Buffers
<1> HIDE DEF q
<1>4. SoundEngine(p) /\ p.store = s
  BY <1>1, <1>3, PutBuffer
<1> HIDE DEF p
<1>5. SoundEngine(r) /\ r.store = s
  BY <1>3, <1>4, PutBuffer
<1>6. QED
  BY <1>2, <1>5

-----------------------------------------------------------------------------
(* Moving keys: what changes in an engine.                                 *)

KeysStay(r, e) == r.store.valid = e.store.valid /\ r.store.data = e.store.data

(* The slots of buffer b that f names hold pieces of the keys moved. *)
TakesIn(r, e, b, moved, f) ==
    /\ \A s \in DOMAIN f :
         /\ f[s] \in StoreKeys \X (1 .. Ratio)
         /\ \E k \in Elems(moved) : f[s][1] = e.store.data[k]
    /\ r[b].valid = e[b].valid \cup DOMAIN f
    /\ \A i \in r[b].valid : r[b].data[i] = IF i \in DOMAIN f THEN f[i] ELSE e[b].data[i]
    /\ \A c \in Buffers \ {b} : r[c] = e[c]

OneSlotEach(f) == \A s, t \in DOMAIN f : f[s] = f[t] => s = t

(* r is what moving keys to buffer b of engine e leads to: they leave the  *)
(* store, and their pieces are in the buffer, in one slot each.            *)
MovesRight(r, e, b, keys) ==
    /\ SoundEngine(r.eng)
    /\ r.moved \in Seq(Store!Id)
    /\ Elems(r.moved) \subseteq Elems(keys) \cap e.store.valid
    /\ r.eng.store.valid = e.store.valid \ Elems(r.moved)
    /\ \A k \in r.eng.store.valid : r.eng.store.data[k] = e.store.data[k]
    /\ \E f : /\ TakesIn(r.eng, e, b, r.moved, f)
              /\ (\A k \in e.store.valid : e.store.data[k] = k) /\ Distinct(keys)
                    => OneSlotEach(f)

(* Moving keys leads there, whatever keys and slots are named. *)
LEMMA MoveEffect ==
    ASSUME NEW e, SoundEngine(e), NEW b \in Buffers,
           NEW keys \in Seq(Store!Id), NEW slots \in Seq(Buffer!Id)
    PROVE  MovesRight(MoveBuffer(e, b, keys, slots), e, b, keys)
<1> DEFINE moved == Movable(e.store, keys, slots)
           f == Pieces(e.store, moved, slots)
           w == Buffer!SetKeys(e[b], f)
           d == Buffer!SetRealSync(w, DOMAIN f)
           s == Store!Del(e.store, Elems(moved))
           r == MoveBuffer(e, b, keys, slots)
<1>1. StoreSound(e.store) /\ BufferSound(e[b]) /\ e.store.valid \in SUBSET Store!Id
  BY StoreType DEF SoundEngine
<1>2. Moves(moved, e.store, keys, slots)
  BY MovableMoves
<1>3. r.eng = WithBoth(e, b, d, s) /\ r.moved = moved
  BY DEF MoveBuffer, WithBoth
<1> HIDE DEF moved, r
<1>4. moved \in Seq(e.store.valid) /\ Ratio * Len(moved) <= Len(slots)
      /\ moved \in Seq(Store!Id) /\ Elems(moved) \subseteq Elems(keys) \cap e.store.valid
  BY <1>1, <1>2 DEF Moves, Elems
<1>5. /\ DOMAIN f \in SUBSET Buffer!Id
      /\ \A i \in DOMAIN f : f[i] \in StoreKeys \X (1 .. Ratio) /\ f[i] \in Piece
      /\ \A i \in DOMAIN f : \E k \in Elems(moved) : f[i][1] = e.store.data[k]
      /\ (\A k \in e.store.valid : e.store.data[k] = k) /\ Distinct(moved) => OneSlotEach(f)
  BY <1>1, <1>4, PiecesOfKeys DEF OneSlotEach
<1> HIDE DEF f
<1>6. /\ BufferSound(w) /\ w.valid = e[b].valid \cup DOMAIN f
      /\ \A i \in w.valid : w.data[i] = IF i \in DOMAIN f THEN f[i] ELSE e[b].data[i]
  BY <1>1, <1>5, BufferSet
<1> HIDE DEF w
<1>7. BufferSound(d) /\ d.valid = w.valid /\ d.data = w.data
  BY <1>6, BufferAfter
<1>8. /\ StoreSound(s) /\ s.valid = e.store.valid \ Elems(moved)
      /\ \A k \in s.valid : s.data[k] = e.store.data[k]
  BY <1>1, StoreWithout
<1> HIDE DEF d, s
<1>9. /\ SoundEngine(r.eng) /\ r.eng.store = s /\ r.eng[b] = d
      /\ \A c \in Buffers \ {b} : r.eng[c] = e[c]
  BY <1>3, <1>7, <1>8, PutBoth
<1>10. TakesIn(r.eng, e, b, r.moved, f)
  BY <1>3, <1>5, <1>6, <1>7, <1>9 DEF TakesIn
<1>11. (\A k \in e.store.valid : e.store.data[k] = k) /\ Distinct(keys) => OneSlotEach(f)
  BY <1>2, <1>5 DEF Moves
<1>12. MovesRight(r, e, b, keys)
  BY <1>3, <1>4, <1>8, <1>9, <1>10, <1>11 DEF MovesRight
<1>13. QED
  BY <1>12 DEF r

(* The copy in advance fills slots of the buffer and leaves the store alone. *)
LEMMA CopyEffect ==
    ASSUME NEW e, SoundEngine(e), NEW b \in Buffers,
           NEW keys \in Seq(Store!Id), NEW slots \in Seq(Buffer!Id)
    PROVE  SoundEngine(CopyBuffer(e, b, keys, slots))
           /\ KeysStay(CopyBuffer(e, b, keys, slots), e)
<1> DEFINE moved == Movable(e.store, keys, slots)
           f == Pieces(e.store, moved, slots)
           w == Buffer!SetKeys(e[b], f)
           c == Buffer!SetKeyCount(w, DOMAIN f, 1)
           d == Buffer!SetEventualSync(c, DOMAIN f)
           s == Store!SetKeyCount(e.store, Elems(moved), 1)
<1>1. StoreSound(e.store) /\ BufferSound(e[b])
  BY DEF SoundEngine
<1>2. Moves(moved, e.store, keys, slots)
  BY MovableMoves
<1>3. CopyBuffer(e, b, keys, slots) = WithBoth(e, b, d, s)
  BY DEF CopyBuffer, WithBoth
<1> HIDE DEF moved
<1>4. moved \in Seq(e.store.valid) /\ Ratio * Len(moved) <= Len(slots)
  BY <1>2 DEF Moves
<1>5. DOMAIN f \in SUBSET Buffer!Id /\ \A i \in DOMAIN f : f[i] \in Piece
  BY <1>1, <1>4, PiecesOfKeys
<1> HIDE DEF f
<1>6. BufferSound(w)
  BY <1>1, <1>5, BufferSet
<1> HIDE DEF w
<1>7. BufferSound(c)
  BY <1>6, BufferAfter
<1> HIDE DEF c
<1>8. BufferSound(d)
  BY <1>7, BufferAfter
<1>9. StoreSound(s) /\ s.valid = e.store.valid /\ s.data = e.store.data
  BY <1>1, StoreAfter
<1> HIDE DEF d, s
<1>10. QED
  BY <1>3, <1>8, <1>9, PutBoth DEF KeysStay

(* Giving up an offer clears its reservations and takes no key. *)
LEMMA ReleaseEffect ==
    ASSUME NEW e, SoundEngine(e), NEW b \in {"in", "out"}, NEW o
    PROVE  SoundEngine(Release(e, b, o)) /\ KeysStay(Release(e, b, o), e)
<1> DEFINE s == Store!SetKeyCount(e.store, Elems(o.keys) \cup Elems(o.appKeys), 0)
           d == Buffer!SetKeyCount(e[b], Elems(o.slots), 0)
           a == Buffer!SetKeyCount(e.app, Elems(o.appSlots), 0)
<1>1. /\ StoreSound(e.store) /\ BufferSound(e[b]) /\ BufferSound(e["app"])
      /\ e.app = e["app"]
  BY EngineParts DEF SoundEngine, Buffers
<1>2. Release(e, b, o) = WithAll(e, s, b, d, a)
  BY DEF Release, WithAll
<1>3. StoreSound(s) /\ s.valid = e.store.valid /\ s.data = e.store.data
  BY <1>1, StoreAfter
<1>4. BufferSound(d) /\ BufferSound(a)
  BY <1>1, BufferAfter
<1> HIDE DEF s, d, a
<1>5. QED
  BY <1>2, <1>3, <1>4, PutAll DEF KeysStay

-----------------------------------------------------------------------------
(* The databases an engine starts with.                                    *)

(* A new buffer is sound and holds nothing. *)
LEMMA EmptyBuffer ==
    BufferSound(Buffer!Empty) /\ Buffer!Empty.valid = {}
<1>1. BufferP!Sound(BufferP!Empty)
  BY BufferConstants, BufferP!EmptySound
<1>2. Buffer!Empty.valid = {}
  BY DEF Buffer!Empty
<1>3. QED
  BY <1>1, <1>2, BufferOps DEF BufferSound

(* A buffer filled from the shared secret is sound and holds nothing else. *)
LEMMA FilledBuffer ==
    ASSUME NEW half \in {-1, -2}
    PROVE  /\ BufferSound(Filled(half))
           /\ \A i \in Filled(half).valid : Filled(half).data[i][1] = half
<1> DEFINE S == 1 .. SecretKeys
           f == [i \in S |-> <<half, i>>]
           d == Buffer!SetKeys(Buffer!Empty, f)
           r == Buffer!SetRealSync(d, S)
<1>1. SecretKeys \in Nat /\ S \in SUBSET Buffer!Id
  BY SecretAssumption, BufferConstants DEF Buffer!Id
<1>2. DOMAIN f \in SUBSET Buffer!Id /\ \A i \in DOMAIN f : f[i] \in Piece
  BY <1>1 DEF Piece
<1>3. /\ BufferSound(d) /\ d.valid = {} \cup DOMAIN f
      /\ \A i \in d.valid : d.data[i] = IF i \in DOMAIN f THEN f[i] ELSE Buffer!Empty.data[i]
  <2> DEFINE e == Buffer!Empty
  <2>1. BufferSound(e) /\ e.valid = {}
    BY EmptyBuffer
  <2> HIDE DEF f, e
  <2>2. LET r0 == Buffer!SetKeys(e, f)
        IN  /\ BufferSound(r0) /\ r0.valid = e.valid \cup DOMAIN f
            /\ \A i \in r0.valid : r0.data[i] = IF i \in DOMAIN f THEN f[i] ELSE e.data[i]
    BY ONLY <1>2, <2>1, BufferSet
  <2>3. QED
    BY <2>1, <2>2 DEF e
<1>4. d.valid = S /\ \A i \in S : d.data[i] = <<half, i>>
  BY <1>3
<1> HIDE DEF d, S
<1>5. BufferSound(r) /\ r.valid = S /\ r.data = d.data
  BY <1>3, <1>4, BufferAfter
<1> HIDE DEF r
<1>6. BufferP!Sound(BufferP!InsertedTo(r, SecretKeys))
      /\ BufferP!InsertedTo(r, SecretKeys).valid = r.valid
      /\ BufferP!InsertedTo(r, SecretKeys).data = r.data
  BY <1>1, <1>5, BufferConstants, BufferP!InsertedToSound DEF BufferSound
<1>7. Filled(half) = BufferP!InsertedTo(r, SecretKeys)
  BY DEF Filled, BufferP!InsertedTo, r, d, S
<1>8. QED
  BY <1>4, <1>5, <1>6, <1>7 DEF BufferSound

(* The common store both ends start with is sound and holds each key at its number. *)
LEMMA FilledStore ==
    /\ StoreSound(NewStore) /\ NewStore.valid = StoreKeys
    /\ \A k \in StoreKeys : NewStore.data[k] = k
<1> DEFINE f == [i \in StoreKeys |-> i]
           d == StoreP!SetKeys(StoreP!Empty, f)
           j == StoreP!SetInjected(d, StoreKeys)
           r == StoreP!SetRealSync(j, StoreKeys)
           n == Cardinality(StoreKeys)
<1>1. StoreKeys \in SUBSET StoreP!Id
  BY StoreKeysAssumption, StoreConstants DEF StoreP!Id
<1>2. n \in Nat
  <2>1. IsFiniteSet(1 .. StoreAmount - 1)
    BY StoreConstants, FS_Interval
  <2>2. IsFiniteSet(StoreKeys)
    BY <2>1, StoreKeysAssumption, FS_Subset
  <2>3. QED
    BY <2>2, FS_CardinalityType
<1>3. StoreP!Sound(StoreP!Empty) /\ StoreP!Empty.valid = {}
  BY StoreConstants, StoreP!EmptySound DEF StoreP!Empty
<1>4. \A i \in StoreP!Id \cap DOMAIN f : f[i] \in StoreKeys
  OBVIOUS
<1>5. DOMAIN f = StoreKeys /\ \A k \in StoreKeys : f[k] = k
  OBVIOUS
<1> HIDE DEF f
<1>6. StoreP!Sound(d)
  BY <1>3, <1>4, StoreConstants, StoreP!SetKeysSound
<1>7. /\ d.valid = StoreP!Empty.valid \cup (StoreP!Id \cap DOMAIN f)
      /\ \A i \in StoreP!Id : d.data[i] = IF i \in DOMAIN f THEN f[i] ELSE StoreP!Empty.data[i]
  BY <1>3, StoreConstants, StoreP!ContentsWritten
<1>8. d.valid = StoreKeys /\ \A k \in StoreKeys : d.data[k] = k
  BY <1>1, <1>3, <1>5, <1>7
<1> HIDE DEF d
<1>9. StoreP!Sound(j) /\ j.valid = d.valid /\ j.data = d.data
  BY <1>6, StoreConstants, StoreP!SetInjectedSound, StoreP!ContentsAfter
<1> HIDE DEF j
<1>10. StoreP!Sound(r) /\ r.valid = j.valid /\ r.data = j.data
  BY <1>9, StoreConstants, StoreP!SetRealSyncSound, StoreP!ContentsAfter
<1> HIDE DEF r, n
<1>11. /\ StoreP!Sound(StoreP!InsertedTo(r, n))
       /\ StoreP!InsertedTo(r, n).valid = r.valid /\ StoreP!InsertedTo(r, n).data = r.data
  BY <1>2, <1>10, StoreConstants, StoreP!InsertedToSound
<1>12. NewStore = StoreP!InsertedTo(r, n)
  BY StoreOps DEF NewStore, StoreP!InsertedTo, r, j, d, f, n
<1>13. QED
  BY <1>8, <1>9, <1>10, <1>11, <1>12 DEF StoreSound

(* Reopening the engine keeps its store and empties its buffers. *)
LEMMA FreshEngine ==
    ASSUME NEW s, StoreSound(s)
    PROVE  /\ SoundEngine(Fresh(s)) /\ Fresh(s).store = s
           /\ \A b \in Buffers : Fresh(s)[b].valid = {}
<1>1. s \in Store!Database /\ Buffer!Empty \in Buffer!Database
  BY StoreType, EmptyBuffer, BufferType
<1>2. Fresh(s) \in Engine /\ Fresh(s).store = s
  BY <1>1 DEF Fresh, Engine
<1>3. \A b \in Buffers : Fresh(s)[b] = Buffer!Empty
  BY DEF Fresh, Buffers
<1>4. QED
  BY <1>2, <1>3, EmptyBuffer DEF SoundEngine

-----------------------------------------------------------------------------
(* An offer.                                                               *)

(* What run() asks for is a number of keys. *)
LEMMA WantsType ==
    ASSUME NEW e, SoundEngine(e)
    PROVE  /\ LoadWants(e).buf \in Nat /\ LoadWants(e).app \in Nat
           /\ RequestWants(e).buf \in Nat /\ RequestWants(e).app \in Nat
<1>1. \A b \in Buffers : Hungry(e[b]) \in Nat
  <2>1. ASSUME NEW b \in Buffers PROVE Hungry(e[b]) \in Nat
    <3>1. e[b].count \in Nat
      BY BufferType DEF SoundEngine
    <3>2. Sated \in Nat /\ BufAmount \in Nat /\ Ratio \in Nat /\ Sated + Ratio < BufAmount
      BY SatedAssumption, AmountsAssumption, RatioAssumption
    <3>3. QED
      BY <3>1, <3>2 DEF Hungry
  <2>2. QED
    BY <2>1
<1>2. Hungry(e.in) \in Nat /\ Hungry(e.out) \in Nat /\ Hungry(e.app) \in Nat
  BY <1>1, EngineParts DEF SoundEngine, Buffers
<1>3. QED
  BY <1>2 DEF LoadWants, RequestWants

(* What the common store grants is a number of keys. *)
LEMMA GrantedType ==
    ASSUME NEW e, SoundEngine(e), NEW n \in Nat
    PROVE  Granted(e, n) \in Nat
<1> DEFINE third == e.store.count \div 3
           m == Least(n, third * Ratio)
<1>1. third \in Nat
  BY StoreType DEF SoundEngine
<1>2. third * Ratio \in Nat
  <2> HIDE DEF third
  <2>1. QED
    BY <1>1, RatioAssumption
<1>3. m \in Nat
  BY <1>2 DEF Least
<1>4. Granted(e, n) = m - (m % Ratio)
  BY DEF Granted
<1> HIDE DEF m
<1>5. /\ m \div Ratio \in Nat /\ m % Ratio \in 0 .. Ratio - 1
      /\ m = Ratio * (m \div Ratio) + (m % Ratio)
  BY <1>3, WholeParts
<1>6. Ratio * (m \div Ratio) \in Nat /\ Ratio \in Nat
  BY <1>5, RatioAssumption
<1>7. QED
  BY <1>3, <1>4, <1>5, <1>6

(* The keys an offer lists are listed once. *)
ListsOnce(o) ==
    /\ Distinct(o.keys) /\ Distinct(o.appKeys)
    /\ Elems(o.keys) \cap Elems(o.appKeys) = {}

(* Making an offer takes no key, and the offer names no key twice. *)
LEMMA ReserveEffect ==
    ASSUME NEW e, SoundEngine(e), NEW k \in Kind, NEW nBuf \in Nat, NEW nApp \in Nat,
           used.offers \in Nat
    PROVE  LET r == Reserve(e, k, nBuf, nApp)
           IN  /\ SoundEngine(r.eng) /\ KeysStay(r.eng, e)
               /\ r.offer \in Offer /\ ListsOnce(r.offer)
<1> DEFINE buf    == Target("master", k)
           keys   == Store!FindValid(e.store, nBuf, 1)
           slots  == Buffer!FindSpare(e[buf], nBuf, 1)
           room   == Len(slots.ids) >= Ratio
           store1 == IF room THEN keys.db ELSE Store!SetKeyCount(keys.db, Elems(keys.ids), 0)
           buf1   == IF room THEN slots.db ELSE Buffer!SetKeyCount(slots.db, Elems(slots.ids), 0)
           listed == IF room THEN keys.ids ELSE <<>>
           aKeys  == Store!FindValid(store1, nApp, 1)
           aSlots == Buffer!FindSpare(e.app, nApp, 1)
           aRoom  == Len(aSlots.ids) >= Ratio
           undone == IF k = "load" THEN listed ELSE aKeys.ids
           store2 == IF aRoom THEN aKeys.db ELSE Store!SetKeyCount(aKeys.db, Elems(undone), 0)
           app2   == IF aRoom THEN aSlots.db
                     ELSE Buffer!SetKeyCount(aSlots.db, Elems(aSlots.ids), 0)
           r == Reserve(e, k, nBuf, nApp)
<1>1. buf \in {"in", "out"} /\ buf \in Buffers
  BY DEF Target, Buffers
<1>2. /\ StoreSound(e.store) /\ BufferSound(e[buf]) /\ BufferSound(e.app)
  BY <1>1, EngineParts DEF SoundEngine, Buffers
<1>3. r.eng = WithAll(e, store2, buf, buf1, app2)
  BY DEF Reserve, WithAll
<1>4. r.offer = [ id       |-> used.offers + 1,
                  keys     |-> listed,
                  slots    |-> IF room THEN slots.ids ELSE <<>>,
                  appKeys  |-> IF aRoom THEN aKeys.ids ELSE <<>>,
                  appSlots |-> IF aRoom THEN aSlots.ids ELSE <<>> ]
  BY DEF Reserve
<1> HIDE DEF r, buf
<1>5. /\ StoreSound(keys.db) /\ keys.db.valid = e.store.valid /\ keys.db.data = e.store.data
      /\ keys.ids \in Seq(Store!Id) /\ Distinct(keys.ids)
      /\ \A i \in Elems(keys.ids) : keys.db.cnt[i] # 0
  BY <1>2, StoreFound
<1>6. BufferSound(slots.db) /\ slots.ids \in Seq(Buffer!Id)
  BY <1>2, BufferSpare
<1> HIDE DEF keys, slots, room
<1>7. /\ StoreSound(store1) /\ store1.valid = e.store.valid /\ store1.data = e.store.data
      /\ room => store1 = keys.db
  <2>1. CASE room
    BY <1>5, <2>1
  <2>2. CASE ~room
    <3>1. store1 = Store!SetKeyCount(keys.db, Elems(keys.ids), 0)
      BY <2>2
    <3>2. LET d == Store!SetKeyCount(keys.db, Elems(keys.ids), 0)
          IN  StoreSound(d) /\ d.valid = keys.db.valid /\ d.data = keys.db.data
      <4>1. StoreSound(keys.db)
        BY <1>5
      <4>2. QED
        BY <4>1, StoreAfter
    <3>3. QED
      BY <1>5, <2>2, <3>1, <3>2
  <2>3. QED
    BY <2>1, <2>2
<1>8. BufferSound(buf1)
  BY <1>6, BufferAfter
<1>9. listed \in Seq(Store!Id) /\ Distinct(listed) /\ \A i \in Elems(listed) : store1.cnt[i] # 0
  <2>1. CASE room
    BY <1>5, <1>7, <2>1
  <2>2. CASE ~room
    BY <2>2 DEF Distinct, Elems
  <2>3. QED
    BY <2>1, <2>2
<1> HIDE DEF store1, buf1, listed
<1>10. /\ StoreSound(aKeys.db) /\ aKeys.db.valid = store1.valid /\ aKeys.db.data = store1.data
       /\ aKeys.ids \in Seq(Store!Id) /\ Distinct(aKeys.ids)
       /\ \A i \in Elems(aKeys.ids) : store1.cnt[i] = 0
  BY <1>7, StoreFound
<1>11. BufferSound(aSlots.db) /\ aSlots.ids \in Seq(Buffer!Id)
  BY <1>2, BufferSpare
<1> HIDE DEF aKeys, aSlots, aRoom, undone
<1>12. StoreSound(store2) /\ store2.valid = e.store.valid /\ store2.data = e.store.data
  <2>1. CASE aRoom
    BY <1>7, <1>10, <2>1
  <2>2. CASE ~aRoom
    <3>1. store2 = Store!SetKeyCount(aKeys.db, Elems(undone), 0)
      BY <2>2
    <3>2. LET d == Store!SetKeyCount(aKeys.db, Elems(undone), 0)
          IN  StoreSound(d) /\ d.valid = aKeys.db.valid /\ d.data = aKeys.db.data
      <4>1. StoreSound(aKeys.db)
        BY <1>10
      <4>2. QED
        BY <4>1, StoreAfter
    <3>3. QED
      BY <1>7, <1>10, <3>1, <3>2
  <2>3. QED
    BY <2>1, <2>2
<1>13. BufferSound(app2)
  BY <1>11, BufferAfter
<1> HIDE DEF store2, app2
<1>14. SoundEngine(r.eng) /\ KeysStay(r.eng, e)
  BY <1>1, <1>3, <1>8, <1>12, <1>13, PutAll DEF KeysStay
<1>15. r.offer \in Offer
  <2>1. used.offers + 1 \in Nat
    OBVIOUS
  <2>2. \A S : <<>> \in Seq(S)
    OBVIOUS
  <2>3. QED
    BY <1>4, <1>6, <1>9, <1>10, <1>11, <2>1, <2>2 DEF Offer
<1>16. ListsOnce(r.offer)
  <2>1. CASE aRoom
    <3>1. r.offer.keys = listed /\ r.offer.appKeys = aKeys.ids
      BY <1>4, <2>1
    <3>2. QED
      BY <1>9, <1>10, <3>1 DEF ListsOnce
  <2>2. CASE ~aRoom
    <3>1. r.offer.keys = listed /\ r.offer.appKeys = <<>>
      BY <1>4, <2>2
    <3>2. QED
      BY <1>9, <3>1 DEF ListsOnce, Distinct, Elems
  <2>3. QED
    BY <2>1, <2>2
<1>17. QED
  BY <1>14, <1>15, <1>16 DEF r

-----------------------------------------------------------------------------
(* The slave's pieces.                                                     *)

(* No piece of a common store key is in two slots, in a slot and handed    *)
(* out, or in either while the store still has the key.                    *)
OnceIn(e, D) ==
    /\ \A b, c \in Buffers : \A i \in e[b].valid : \A j \in e[c].valid :
         e[b].data[i] = e[c].data[j] /\ e[b].data[i][1] \in StoreKeys => b = c /\ i = j
    /\ \A b \in Buffers : \A i \in e[b].valid :
         e[b].data[i][1] \in StoreKeys =>
            e[b].data[i][1] \notin e.store.valid /\ e[b].data[i] \notin D
    /\ \A p \in D : p[1] \in StoreKeys => p[1] \notin e.store.valid

OwnNumbers(d) == \A k \in d.valid : d.data[k] = k

(* Moving keys from the store into a buffer leaves every piece at one place. *)
LEMMA OnceAfterMove ==
    ASSUME NEW e, NEW r, NEW D, NEW moved, NEW f, NEW b \in Buffers,
           OnceIn(e, D), OwnNumbers(e.store),
           Elems(moved) \subseteq e.store.valid,
           r.store.valid = e.store.valid \ Elems(moved),
           TakesIn(r, e, b, moved, f), OneSlotEach(f)
    PROVE  OnceIn(r, D)
<1>1. \A s \in DOMAIN f : f[s][1] \in Elems(moved) /\ f[s][1] \in e.store.valid
  BY DEF TakesIn, OwnNumbers
<1>2. \A c \in Buffers : \A i \in r[c].valid :
         \/ c = b /\ i \in DOMAIN f /\ r[c].data[i] = f[i]
         \/ i \in e[c].valid /\ r[c].data[i] = e[c].data[i] /\ ~(c = b /\ i \in DOMAIN f)
  BY DEF TakesIn
<1>3. /\ \A c \in Buffers : \A i \in e[c].valid :
            e[c].data[i][1] \in StoreKeys => e[c].data[i][1] \notin e.store.valid
      /\ \A c, g \in Buffers : \A i \in e[c].valid : \A j \in e[g].valid :
            e[c].data[i] = e[g].data[j] /\ e[c].data[i][1] \in StoreKeys => c = g /\ i = j
  BY DEF OnceIn
<1>4. ASSUME NEW c \in Buffers, NEW g \in Buffers,
             NEW i \in r[c].valid, NEW j \in r[g].valid,
             r[c].data[i] = r[g].data[j], r[c].data[i][1] \in StoreKeys
      PROVE  c = g /\ i = j
  <2>1. CASE c = b /\ i \in DOMAIN f
    <3>1. r[c].data[i] = f[i] /\ f[i][1] \in e.store.valid
      BY <1>1, <1>2, <2>1
    <3>2. g = b /\ j \in DOMAIN f /\ r[g].data[j] = f[j]
      <4>1. SUFFICES ASSUME ~(g = b /\ j \in DOMAIN f) PROVE FALSE
        BY <1>2
      <4>2. j \in e[g].valid /\ r[g].data[j] = e[g].data[j]
        BY <1>2, <4>1
      <4>3. e[g].data[j] = f[i] /\ e[g].data[j][1] \in StoreKeys
        BY <1>4, <3>1, <4>2
      <4>4. QED
        BY <1>3, <3>1, <4>2, <4>3
    <3>3. QED
      BY <1>4, <2>1, <3>1, <3>2 DEF OneSlotEach
  <2>2. CASE ~(c = b /\ i \in DOMAIN f)
    <3>1. i \in e[c].valid /\ r[c].data[i] = e[c].data[i]
      BY <1>2, <2>2
    <3>2. e[c].data[i][1] \notin e.store.valid
      BY <1>3, <1>4, <3>1
    <3>3. j \in e[g].valid /\ r[g].data[j] = e[g].data[j]
      <4>1. SUFFICES ASSUME g = b, j \in DOMAIN f, r[g].data[j] = f[j] PROVE FALSE
        BY <1>2
      <4>2. f[j][1] \in e.store.valid
        BY <1>1, <4>1
      <4>3. e[c].data[i] = f[j]
        BY <1>4, <3>1, <4>1
      <4>4. QED
        BY <3>2, <4>2, <4>3
    <3>4. e[c].data[i] = e[g].data[j] /\ e[c].data[i][1] \in StoreKeys
      BY <1>4, <3>1, <3>3
    <3>5. QED
      BY <1>3, <3>1, <3>3, <3>4
  <2>3. QED
    BY <2>1, <2>2
<1>5. ASSUME NEW c \in Buffers, NEW i \in r[c].valid, r[c].data[i][1] \in StoreKeys
      PROVE  r[c].data[i][1] \notin r.store.valid /\ r[c].data[i] \notin D
  <2>1. CASE c = b /\ i \in DOMAIN f
    <3>1. r[c].data[i] = f[i] /\ f[i][1] \in e.store.valid /\ f[i][1] \in Elems(moved)
      BY <1>1, <1>2, <2>1
    <3>2. QED
      BY <1>5, <3>1 DEF OnceIn
  <2>2. CASE ~(c = b /\ i \in DOMAIN f)
    <3>1. i \in e[c].valid /\ r[c].data[i] = e[c].data[i]
      BY <1>2, <2>2
    <3>2. QED
      BY <1>5, <3>1 DEF OnceIn
  <2>3. QED
    BY <2>1, <2>2
<1>6. \A p \in D : p[1] \in StoreKeys => p[1] \notin r.store.valid
  BY DEF OnceIn
<1>7. QED
  BY <1>4, <1>5, <1>6 DEF OnceIn

(* Handing pieces of the application buffer out leaves every piece at one place. *)
LEMMA OnceAfterTaking ==
    ASSUME NEW e, NEW r, NEW D, NEW D2, NEW S, S \subseteq e["app"].valid,
           OnceIn(e, D), r.store = e.store,
           r["app"].valid = e["app"].valid \ S,
           \A i \in r["app"].valid : r["app"].data[i] = e["app"].data[i],
           \A c \in Buffers \ {"app"} : r[c] = e[c],
           \A p \in D2 : p \in D \/ \E i \in S : p = e["app"].data[i]
    PROVE  OnceIn(r, D2)
<1>1. "app" \in Buffers
  BY DEF Buffers
<1>2. \A c \in Buffers : \A i \in r[c].valid :
         i \in e[c].valid /\ r[c].data[i] = e[c].data[i] /\ ~(c = "app" /\ i \in S)
  BY <1>1
<1>3. \A b, c \in Buffers : \A i \in r[b].valid : \A j \in r[c].valid :
         r[b].data[i] = r[c].data[j] /\ r[b].data[i][1] \in StoreKeys => b = c /\ i = j
  BY <1>2 DEF OnceIn
<1>4. ASSUME NEW c \in Buffers, NEW i \in r[c].valid, r[c].data[i][1] \in StoreKeys
      PROVE  r[c].data[i][1] \notin r.store.valid /\ r[c].data[i] \notin D2
  <2>1. i \in e[c].valid /\ r[c].data[i] = e[c].data[i] /\ ~(c = "app" /\ i \in S)
    BY <1>2
  <2>2. e[c].data[i][1] \notin e.store.valid /\ e[c].data[i] \notin D
    BY <1>4, <2>1 DEF OnceIn
  <2>3. \A j \in S : e[c].data[i] # e["app"].data[j]
    BY <1>1, <1>4, <2>1 DEF OnceIn
  <2>4. QED
    BY <2>1, <2>2, <2>3
<1>5. \A p \in D2 : p[1] \in StoreKeys => p[1] \notin r.store.valid
  BY <1>1 DEF OnceIn
<1>6. QED
  BY <1>3, <1>4, <1>5 DEF OnceIn

-----------------------------------------------------------------------------
(* The inductive invariant.  The slave's store is part of the master's     *)
(* because the slave gives keys up first: the keys a LOAD-ACK on its way   *)
(* names are no longer in the slave's store, so that the master may take   *)
(* them out of its own.  A piece is at one place at the slave because an   *)
(* offer on its way lists no key twice.                                    *)

EnginesRight(g) ==
    /\ g \in [Side -> Engine]
    /\ \A s \in Side : SoundEngine(g[s]) /\ OwnNumbers(g[s].store)
    /\ g["slave"].store.valid \subseteq g["master"].store.valid

AckMoved(m, V) == V \cap (Elems(m.keys) \cup Elems(m.appKeys)) = {}

NetRight(n, V) ==
    /\ n \in [Side -> Seq(Message)]
    /\ \A i \in DOMAIN n["master"] : AckMoved(n["master"][i], V)
    /\ \A i \in DOMAIN n["slave"] : ListsOnce(n["slave"][i])

RestType ==
    /\ up \in [Side -> BOOLEAN]
    /\ pending \in [Kind -> Offer]
    /\ asked \in BOOLEAN
    /\ delivered \in [Side -> Seq(Seq(Piece))]
    /\ used \in [{"offers", "asks", "timeouts", "fails", "connects"} -> Nat]

IInv ==
    /\ EnginesRight(eng)
    /\ NetRight(net, eng["slave"].store.valid)
    /\ RestType
    /\ OnceIn(eng["slave"], DeliveredPieces("slave"))

(* One engine changes. *)
LEMMA MasterChanges ==
    ASSUME NEW g, EnginesRight(g), NEW e, SoundEngine(e), OwnNumbers(e.store),
           g["slave"].store.valid \subseteq e.store.valid
    PROVE  LET h == [g EXCEPT !["master"] = e]
           IN  EnginesRight(h) /\ h["slave"] = g["slave"] /\ h["master"] = e
<1> DEFINE h == [g EXCEPT !["master"] = e]
<1>1. g \in [Side -> Engine] /\ e \in Engine
  BY DEF EnginesRight, SoundEngine
<1>2. h \in [Side -> Engine] /\ h["slave"] = g["slave"] /\ h["master"] = e
  BY <1>1 DEF Side
<1> HIDE DEF h
<1>3. \A s \in Side : SoundEngine(h[s]) /\ OwnNumbers(h[s].store)
  BY <1>2 DEF EnginesRight, Side
<1>4. QED
  BY <1>2, <1>3 DEF EnginesRight, h

(* A step of the slave that takes keys of its store keeps both engines right. *)
LEMMA SlaveChanges ==
    ASSUME NEW g, EnginesRight(g), NEW e, SoundEngine(e), OwnNumbers(e.store),
           e.store.valid \subseteq g["master"].store.valid
    PROVE  LET h == [g EXCEPT !["slave"] = e]
           IN  EnginesRight(h) /\ h["master"] = g["master"] /\ h["slave"] = e
<1> DEFINE h == [g EXCEPT !["slave"] = e]
<1>1. g \in [Side -> Engine] /\ e \in Engine
  BY DEF EnginesRight, SoundEngine
<1>2. h \in [Side -> Engine] /\ h["master"] = g["master"] /\ h["slave"] = e
  BY <1>1 DEF Side
<1> HIDE DEF h
<1>3. \A s \in Side : SoundEngine(h[s]) /\ OwnNumbers(h[s].store)
  BY <1>2 DEF EnginesRight, Side
<1>4. QED
  BY <1>2, <1>3 DEF EnginesRight, h

(* Messages are received, sent and lost. *)
LEMMA NetShrinks ==
    ASSUME NEW n, NEW V, NetRight(n, V), NEW W \in SUBSET V
    PROVE  NetRight(n, W)
BY DEF NetRight, AckMoved

(* Receiving takes one message and keeps what is known of the others. *)
LEMMA NetReceives ==
    ASSUME NEW V, NetRight(net, V), NEW s \in Side, net[s] # <<>>
    PROVE  NetRight(Rest(s), V) /\ Head1(s) \in Message
<1>1. net \in [Side -> Seq(Message)] /\ net[s] \in Seq(Message)
  BY DEF NetRight
<1>2. Head1(s) \in Message
  BY <1>1 DEF Head1
<1>3. /\ Tail(net[s]) \in Seq(Message)
      /\ \A i \in DOMAIN Tail(net[s]) : i + 1 \in DOMAIN net[s] /\ Tail(net[s])[i] = net[s][i + 1]
  BY <1>1
<1>4. Rest(s) \in [Side -> Seq(Message)]
  BY <1>1, <1>3 DEF Rest
<1>5. \A t \in Side : Rest(s)[t] = IF t = s THEN Tail(net[s]) ELSE net[t]
  BY <1>1 DEF Rest
<1>6. \A t \in Side : \A i \in DOMAIN Rest(s)[t] : \E j \in DOMAIN net[t] : Rest(s)[t][i] = net[t][j]
  BY <1>3, <1>5
<1>7. "master" \in Side /\ "slave" \in Side
  BY DEF Side
<1>8. QED
  BY <1>2, <1>4, <1>6, <1>7 DEF NetRight

(* Sending adds one message; what is known of it has to be shown. *)
LEMMA NetSends ==
    ASSUME NEW n, NEW V, NetRight(n, V), NEW s \in Side, NEW m \in Message,
           s = "master" => AckMoved(m, V), s = "slave" => ListsOnce(m)
    PROVE  NetRight(Sent(n, s, m), V)
<1>1. n \in [Side -> Seq(Message)] /\ n[s] \in Seq(Message)
  BY DEF NetRight
<1>2. CASE ~up[s]
  BY <1>2 DEF Sent
<1>3. CASE up[s]
  <2> DEFINE q == Append(n[s], m)
             r == [n EXCEPT ![s] = q]
  <2>1. Sent(n, s, m) = r
    BY <1>3 DEF Sent
  <2>2. /\ q \in Seq(Message)
        /\ \A i \in DOMAIN q : q[i] = m \/ (i \in DOMAIN n[s] /\ q[i] = n[s][i])
    BY <1>1
  <2> HIDE DEF q
  <2>3. r \in [Side -> Seq(Message)] /\ \A t \in Side : r[t] = IF t = s THEN q ELSE n[t]
    BY <1>1, <2>2
  <2> HIDE DEF r
  <2>4. \A t \in Side : \A i \in DOMAIN r[t] :
           \/ t = s /\ r[t][i] = m
           \/ i \in DOMAIN n[t] /\ r[t][i] = n[t][i]
    BY <2>2, <2>3
  <2>5. "master" \in Side /\ "slave" \in Side
    BY DEF Side
  <2>6. QED
    BY <2>1, <2>3, <2>4, <2>5 DEF NetRight
<1>4. QED
  BY <1>2, <1>3

(* The invariant holds when both engines have opened the same store. *)
LEMMA InitInvariant == Init => IInv
<1> SUFFICES ASSUME Init PROVE IInv
  OBVIOUS
<1> USE DEF Init
<1>1. StoreSound(NewStore) /\ OwnNumbers(NewStore)
  BY FilledStore DEF OwnNumbers
<1>2. /\ SoundEngine(Fresh(NewStore)) /\ Fresh(NewStore).store = NewStore
      /\ \A b \in Buffers : Fresh(NewStore)[b].valid = {}
  BY <1>1, FreshEngine
<1>3. \A s \in Side : eng[s] = Fresh(NewStore)
  OBVIOUS
<1>4. EnginesRight(eng)
  BY <1>1, <1>2, <1>3 DEF EnginesRight, SoundEngine, Side
<1>5. NetRight(net, eng["slave"].store.valid)
  BY DEF NetRight, Side
<1>6. RestType
  <2>1. \A S : <<>> \in Seq(S)
    OBVIOUS
  <2>2. NoOffer \in Offer
    BY <2>1 DEF NoOffer, Offer
  <2>3. used \in [{"offers", "asks", "timeouts", "fails", "connects"} -> Nat]
    BY DEF NothingUsed
  <2>4. QED
    BY <2>1, <2>2, <2>3 DEF RestType
<1>7. DeliveredPieces("slave") = {}
  BY DEF DeliveredPieces, Side
<1>8. OnceIn(eng["slave"], DeliveredPieces("slave"))
  BY <1>2, <1>3, <1>7 DEF OnceIn, Side
<1>9. QED
  BY <1>4, <1>5, <1>6, <1>8 DEF IInv

(* The handshake: fresh buffers, the store as it was. *)
LEMMA ConnectStep == IInv /\ Connect => IInv'
<1> SUFFICES ASSUME IInv, Connect PROVE IInv'
  OBVIOUS
<1> DEFINE half(s) == Filled(IF s = "master" THEN -1 ELSE -2)
           other(s) == Filled(IF s = "master" THEN -2 ELSE -1)
           e(s) == WithTwo(Fresh(eng[s].store), "in", half(s), "out", other(s))
<1>1. EnginesRight(eng) /\ RestType /\ OnceIn(eng["slave"], DeliveredPieces("slave"))
  BY DEF IInv
<1>2. eng' = [s \in Side |-> e(s)]
  BY DEF Connect, WithTwo
<1>3. ASSUME NEW s \in Side
      PROVE  /\ SoundEngine(e(s)) /\ e(s).store = eng[s].store
             /\ \A b \in Buffers : \A i \in e(s)[b].valid : e(s)[b].data[i][1] \notin StoreKeys
  <2>1. BufferSound(half(s)) /\ \A i \in half(s).valid : half(s).data[i][1] \in {-1, -2}
    BY FilledBuffer
  <2>2. BufferSound(other(s)) /\ \A i \in other(s).valid : other(s).data[i][1] \in {-1, -2}
    BY FilledBuffer
  <2>3. StoreSound(eng[s].store)
    BY <1>1 DEF EnginesRight, SoundEngine
  <2> DEFINE f == Fresh(eng[s].store)
  <2>4. SoundEngine(f) /\ f.store = eng[s].store /\ \A b \in Buffers : f[b].valid = {}
    BY <2>3, FreshEngine
  <2> HIDE DEF f
  <2>5. "in" \in Buffers /\ "out" \in Buffers /\ "in" # "out" /\ Buffers = {"in", "out", "app"}
    BY DEF Buffers
  <2> DEFINE h == half(s)
             o == other(s)
             w == WithTwo(f, "in", h, "out", o)
  <2>6. e(s) = w
    BY DEF f
  <2> HIDE DEF h, o
  <2>7. /\ SoundEngine(w) /\ w.store = f.store /\ w["in"] = h /\ w["out"] = o
        /\ \A x \in Buffers \ {"in", "out"} : w[x] = f[x]
    <3>1. BufferSound(h) /\ BufferSound(o)
      BY <2>1, <2>2 DEF h, o
    <3>2. "in" \in Buffers /\ "out" \in Buffers /\ "in" # "out"
      BY <2>5
    <3>3. SoundEngine(f)
      BY <2>4
    <3>4. QED
      BY <3>1, <3>2, <3>3, PutTwo
  <2> HIDE DEF w
  <2>8. -1 \notin StoreKeys /\ -2 \notin StoreKeys
    BY StoreKeysAssumption, StoreConstants
  <2>9. \A b \in Buffers : \A i \in w[b].valid : w[b].data[i][1] \notin StoreKeys
    <3>1. /\ \A i \in h.valid : h.data[i][1] \in {-1, -2}
          /\ \A i \in o.valid : o.data[i][1] \in {-1, -2}
      BY <2>1, <2>2 DEF h, o
    <3>2. QED
      BY <2>4, <2>5, <2>7, <2>8, <3>1
  <2> HIDE DEF e
  <2>10. QED
    BY <2>4, <2>6, <2>7, <2>9
<1> HIDE DEF e
<1>4. \A s \in Side : eng'[s] = e(s)
  BY <1>2
<1>5. "master" \in Side /\ "slave" \in Side
  BY DEF Side
<1>6. EnginesRight(eng')
  <2>1. eng' \in [Side -> Engine]
    BY <1>2, <1>3 DEF SoundEngine
  <2>2. QED
    BY <1>1, <1>3, <1>4, <1>5, <2>1 DEF EnginesRight
<1>7. NetRight(net', eng'["slave"].store.valid)
  BY DEF Connect, NetRight, Side
<1>8. RestType'
  <2>1. \A S : <<>> \in Seq(S)
    OBVIOUS
  <2>2. NoOffer \in Offer
    BY <2>1 DEF NoOffer, Offer
  <2>3. pending' \in [Kind -> Offer] /\ up' \in [Side -> BOOLEAN] /\ asked' \in BOOLEAN
    BY <2>2 DEF Connect
  <2>4. used' \in [{"offers", "asks", "timeouts", "fails", "connects"} -> Nat]
    <3>1. used' = [used EXCEPT !["connects"] = used["connects"] + 1]
      BY DEF Connect
    <3>2. QED
      BY <1>1, <3>1 DEF RestType
  <2>5. QED
    BY <1>1, <2>3, <2>4 DEF RestType, Connect
<1>9. DeliveredPieces("slave")' = DeliveredPieces("slave")
  BY DEF Connect, DeliveredPieces
<1>10. OnceIn(eng'["slave"], DeliveredPieces("slave")')
  <2> DEFINE a == eng["slave"]
             r == eng'["slave"]
             D == DeliveredPieces("slave")
  <2>1. r.store = a.store
        /\ \A b \in Buffers : \A i \in r[b].valid : r[b].data[i][1] \notin StoreKeys
    BY <1>3, <1>4, <1>5
  <2>2. \A p \in D : p[1] \in StoreKeys => p[1] \notin a.store.valid
    BY <1>1 DEF OnceIn
  <2> HIDE DEF a, r, D
  <2>3. OnceIn(r, D)
    BY <2>1, <2>2 DEF OnceIn
  <2>4. QED
    BY <1>9, <2>3 DEF r, D
<1>11. QED
  BY <1>6, <1>7, <1>8, <1>10 DEF IInv

(* A side goes down: its buffers are empty, what was on its way is lost. *)
LEMMA SocketErrorStep ==
    ASSUME IInv, NEW s \in Side, SocketError(s)
    PROVE  IInv'
<1> DEFINE e == Fresh(eng[s].store)
<1>1. /\ EnginesRight(eng) /\ NetRight(net, eng["slave"].store.valid)
      /\ RestType /\ OnceIn(eng["slave"], DeliveredPieces("slave"))
  BY DEF IInv
<1>2. StoreSound(eng[s].store) /\ OwnNumbers(eng[s].store)
  BY <1>1 DEF EnginesRight, SoundEngine
<1>3. /\ SoundEngine(e) /\ e.store = eng[s].store
      /\ \A b \in Buffers : e[b].valid = {}
  BY <1>2, FreshEngine
<1>4. eng' = [eng EXCEPT ![s] = e]
  BY DEF SocketError
<1> HIDE DEF e
<1>5. EnginesRight(eng') /\ eng'[s] = e /\ \A t \in Side \ {s} : eng'[t] = eng[t]
  <2>1. CASE s = "master"
    BY <1>1, <1>2, <1>3, <1>4, <2>1, MasterChanges DEF EnginesRight, Side
  <2>2. CASE s = "slave"
    BY <1>1, <1>2, <1>3, <1>4, <2>2, SlaveChanges DEF EnginesRight, Side
  <2>3. QED
    BY <2>1, <2>2 DEF Side
<1>6. eng'["slave"].store = eng["slave"].store
  BY <1>3, <1>5 DEF Side
<1>7. NetRight(net', eng'["slave"].store.valid)
  <2>1. /\ net' \in [Side -> Seq(Message)]
        /\ \A t \in Side : net'[t] = IF t = s THEN <<>> ELSE net[t]
    BY <1>1 DEF SocketError, NetRight
  <2>2. DOMAIN <<>> = {} /\ "master" \in Side /\ "slave" \in Side
    BY DEF Side
  <2>3. QED
    BY <1>1, <1>6, <2>1, <2>2 DEF NetRight
<1>8. RestType'
  <2>1. \A S : <<>> \in Seq(S)
    OBVIOUS
  <2>2. NoOffer \in Offer
    BY <2>1 DEF NoOffer, Offer
  <2>3. pending' \in [Kind -> Offer] /\ up' \in [Side -> BOOLEAN] /\ asked' \in BOOLEAN
    BY <1>1, <2>2 DEF SocketError, RestType
  <2>4. QED
    BY <1>1, <2>3 DEF RestType, SocketError
<1>9. DeliveredPieces("slave")' = DeliveredPieces("slave")
  BY DEF SocketError, DeliveredPieces
<1>10. OnceIn(eng'["slave"], DeliveredPieces("slave"))
  <2>1. CASE s = "slave"
    BY <1>1, <1>3, <1>5, <2>1 DEF OnceIn
  <2>2. CASE s # "slave"
    BY <1>1, <1>5, <2>2 DEF Side
  <2>3. QED
    BY <2>1, <2>2
<1>11. QED
  BY <1>5, <1>7, <1>8, <1>9, <1>10 DEF IInv

(* The store is opened again: it has the same keys. *)
LEMMA ReopenStep ==
    ASSUME IInv, NEW s \in Side, ReopenStore(s)
    PROVE  IInv'
<1> DEFINE d == Store!Reset(eng[s].store)
           e == [eng[s] EXCEPT !.store = d]
<1>1. /\ EnginesRight(eng) /\ NetRight(net, eng["slave"].store.valid)
      /\ RestType /\ OnceIn(eng["slave"], DeliveredPieces("slave"))
  BY DEF IInv
<1>2. SoundEngine(eng[s]) /\ StoreSound(eng[s].store) /\ OwnNumbers(eng[s].store)
  BY <1>1 DEF EnginesRight, SoundEngine
<1>3. StoreSound(d) /\ d.valid = eng[s].store.valid /\ d.data = eng[s].store.data
  <2>1. 0 \in Nat
    OBVIOUS
  <2>2. QED
    BY <1>2, <2>1, StoreAfter
<1>4. eng' = [eng EXCEPT ![s] = e]
  BY <1>1 DEF ReopenStore, EnginesRight
<1> HIDE DEF d
<1>5. SoundEngine(e) /\ e.store = d /\ \A b \in Buffers : e[b] = eng[s][b]
  BY <1>2, <1>3, PutStore
<1> HIDE DEF e
<1>6. EnginesRight(eng') /\ eng'[s] = e /\ \A t \in Side \ {s} : eng'[t] = eng[t]
  <2>1. OwnNumbers(e.store)
    BY <1>2, <1>3, <1>5 DEF OwnNumbers
  <2>2. CASE s = "master"
    BY <1>1, <1>3, <1>4, <1>5, <2>1, <2>2, MasterChanges DEF EnginesRight, Side
  <2>3. CASE s = "slave"
    BY <1>1, <1>3, <1>4, <1>5, <2>1, <2>3, SlaveChanges DEF EnginesRight, Side
  <2>4. QED
    BY <2>2, <2>3 DEF Side
<1>7. /\ eng'["slave"].store.valid = eng["slave"].store.valid
      /\ \A b \in Buffers : eng'["slave"][b] = eng["slave"][b]
  BY <1>3, <1>5, <1>6 DEF Side
<1>8. /\ net' = net /\ RestType' /\ DeliveredPieces("slave")' = DeliveredPieces("slave")
  BY <1>1 DEF ReopenStore, RestType, DeliveredPieces
<1>9. OnceIn(eng'["slave"], DeliveredPieces("slave"))
  BY <1>1, <1>7 DEF OnceIn
<1>10. QED
  BY <1>1, <1>6, <1>7, <1>8, <1>9 DEF IInv

(* How much of each bound is used up is a number, before and after it is   *)
(* counted up.                                                             *)
LEMMA UsedNumbers ==
    ASSUME RestType
    PROVE  /\ used.offers \in Nat /\ used.timeouts \in Nat /\ used.fails \in Nat
           /\ used.asks \in Nat /\ used.connects \in Nat
           /\ \A fails \in BOOLEAN : used.fails + CountFail(fails) \in Nat
BY DEF RestType, CountFail

(* The counters of the bounds stay numbers. *)
LEMMA UsedType ==
    ASSUME RestType, NEW n \in Nat
    PROVE  /\ used.offers \in Nat /\ used.timeouts \in Nat /\ used.fails \in Nat
           /\ used.asks \in Nat /\ used.connects \in Nat
           /\ [used EXCEPT !.timeouts = n]
                \in [{"offers", "asks", "timeouts", "fails", "connects"} -> Nat]
           /\ [used EXCEPT !.fails = n]
                \in [{"offers", "asks", "timeouts", "fails", "connects"} -> Nat]
           /\ \A k \in Nat : [used EXCEPT !.fails = n, !.offers = k]
                \in [{"offers", "asks", "timeouts", "fails", "connects"} -> Nat]
           /\ \A k, l \in Nat : [used EXCEPT !.timeouts = n, !.asks = k, !.fails = l]
                \in [{"offers", "asks", "timeouts", "fails", "connects"} -> Nat]
<1> DEFINE F == {"offers", "asks", "timeouts", "fails", "connects"}
<1>1. used \in [F -> Nat]
  BY DEF RestType
<1>2. \A f \in F : used[f] \in Nat
  BY <1>1
<1>3. \A g \in [F -> Nat] : \A f \in F : \A k \in Nat : [g EXCEPT ![f] = k] \in [F -> Nat]
  OBVIOUS
<1>4. [used EXCEPT !.timeouts = n] \in [F -> Nat] /\ [used EXCEPT !.fails = n] \in [F -> Nat]
  BY <1>1
<1>5. \A k \in Nat : [used EXCEPT !.fails = n, !.offers = k] \in [F -> Nat]
  BY <1>1
<1>6. \A k, l \in Nat : [used EXCEPT !.timeouts = n, !.asks = k, !.fails = l] \in [F -> Nat]
  BY <1>1
<1>7. QED
  BY <1>2, <1>4, <1>5, <1>6

(* The master makes an offer, or finds that it has none to make. *)
LEMMA MakeOfferStep ==
    ASSUME IInv, NEW k \in Kind, NEW n, NetRight(n, eng["slave"].store.valid),
           NEW fails \in BOOLEAN, MakeOffer(k, n, fails)
    PROVE  IInv'
<1> DEFINE e     == eng["master"]
           V     == eng["slave"].store.valid
           wants == IF k = "load" THEN LoadWants(e) ELSE RequestWants(e)
           nBuf  == Granted(e, wants.buf)
           nApp  == Granted(e, wants.app)
           r     == Reserve(e, k, nBuf, nApp)
           buf   == Target("master", k)
           o     == r.offer
           empty == o.keys = <<>> /\ o.appKeys = <<>>
           short == Len(o.keys) < MinKeys
           c     == CopyBuffer(r.eng, "in", o.keys, o.slots)
           d     == CopyBuffer(c, "app", o.appKeys, o.appSlots)
<1>1. /\ EnginesRight(eng) /\ RestType /\ OnceIn(eng["slave"], DeliveredPieces("slave"))
  BY DEF IInv
<1>2. SoundEngine(e) /\ OwnNumbers(e.store) /\ V \subseteq e.store.valid
  BY <1>1 DEF EnginesRight, Side
<1>3. nBuf \in Nat /\ nApp \in Nat
  <2>1. wants.buf \in Nat /\ wants.app \in Nat
    BY <1>2, WantsType
  <2> HIDE DEF wants
  <2>2. QED
    BY <1>2, <2>1, GrantedType
<1>4. /\ used' = [used EXCEPT !.fails = @ + CountFail(fails),
                              !.offers = IF empty \/ short \/ fails THEN @ ELSE @ + 1]
      /\ IF empty
         THEN eng' = [eng EXCEPT !["master"] = r.eng] /\ net' = n /\ UNCHANGED pending
         ELSE IF short \/ fails
         THEN /\ eng' = [eng EXCEPT !["master"] = Release(r.eng, buf, o)]
              /\ net' = n /\ UNCHANGED pending
         ELSE /\ eng' = [eng EXCEPT !["master"] = IF k = "load" THEN d ELSE r.eng]
              /\ net' = Sent(n, "slave", Offered(k, o))
              /\ pending' = [pending EXCEPT ![k] = o]
      /\ UNCHANGED <<up, asked, delivered>>
  BY DEF MakeOffer
<1>5. used.offers \in Nat /\ used.fails \in Nat /\ CountFail(fails) \in Nat
  BY <1>1, UsedType DEF CountFail
<1> HIDE DEF nBuf, nApp
<1>6. SoundEngine(r.eng) /\ KeysStay(r.eng, e) /\ o \in Offer /\ ListsOnce(o)
  <2> HIDE DEF e
  <2>1. QED
    BY <1>2, <1>3, <1>5, ReserveEffect
<1> HIDE DEF r
<1>7. buf \in {"in", "out"} /\ "in" \in Buffers /\ "app" \in Buffers
  BY DEF Target, Buffers
<1> HIDE DEF buf
<1>8. /\ o.keys \in Seq(Store!Id) /\ o.appKeys \in Seq(Store!Id) /\ o.id \in Nat
      /\ o.slots \in Seq(Buffer!Id) /\ o.appSlots \in Seq(Buffer!Id)
  BY <1>6 DEF Offer
<1> HIDE DEF o
<1>9. SoundEngine(c) /\ KeysStay(c, r.eng)
  BY <1>6, <1>7, <1>8, CopyEffect
<1> HIDE DEF c
<1>10. SoundEngine(d) /\ KeysStay(d, c)
  BY <1>7, <1>8, <1>9, CopyEffect
<1> HIDE DEF d
<1>11. SoundEngine(Release(r.eng, buf, o)) /\ KeysStay(Release(r.eng, buf, o), r.eng)
  BY <1>6, <1>7, ReleaseEffect
<1>12. PICK m : eng' = [eng EXCEPT !["master"] = m] /\ SoundEngine(m) /\ KeysStay(m, e)
  BY <1>4, <1>6, <1>9, <1>10, <1>11 DEF KeysStay
<1>13. EnginesRight(eng') /\ eng'["slave"] = eng["slave"]
  <2>1. OwnNumbers(m.store) /\ V \subseteq m.store.valid
    BY <1>2, <1>12 DEF KeysStay, OwnNumbers
  <2>2. QED
    BY <1>1, <1>12, <2>1, MasterChanges
<1>14. NetRight(net', V)
  <2>1. Offered(k, o) \in Message /\ ListsOnce(Offered(k, o))
    BY <1>6, <1>8 DEF Offered, Message, ListsOnce
  <2>2. "slave" \in Side /\ "slave" # "master"
    BY DEF Side
  <2>3. NetRight(Sent(n, "slave", Offered(k, o)), V)
    BY <2>1, <2>2, NetSends
  <2>4. QED
    BY <1>4, <2>3
<1>15. RestType'
  <2>1. pending' \in [Kind -> Offer]
    BY <1>1, <1>4, <1>6 DEF RestType
  <2>2. used' \in [{"offers", "asks", "timeouts", "fails", "connects"} -> Nat]
    <3> DEFINE a == used.fails + CountFail(fails)
               b == IF empty \/ short \/ fails THEN used.offers ELSE used.offers + 1
    <3>1. used' = [used EXCEPT !.fails = a, !.offers = b]
      BY <1>4
    <3>2. a \in Nat /\ b \in Nat
      BY <1>5
    <3> HIDE DEF a, b
    <3>3. QED
      BY <1>1, <3>1, <3>2, UsedType
  <2>3. QED
    BY <1>1, <1>4, <2>1, <2>2 DEF RestType
<1>16. DeliveredPieces("slave")' = DeliveredPieces("slave")
  BY <1>4 DEF DeliveredPieces
<1>17. QED
  BY <1>1, <1>13, <1>14, <1>15, <1>16 DEF IInv

(* A run of LOAD by the master keeps the invariant. *)
LEMMA RunLoadStep == IInv /\ RunLoad => IInv'
<1> SUFFICES ASSUME IInv, RunLoad PROVE IInv'
  OBVIOUS
<1>1. PICK fails \in BOOLEAN : MakeOffer("load", net, fails)
  BY DEF RunLoad
<1>2. "load" \in Kind /\ NetRight(net, eng["slave"].store.valid)
  BY DEF Kind, IInv
<1>3. QED
  BY <1>1, <1>2, MakeOfferStep

(* The slave asks. *)
LEMMA RunLoadRequestStep == IInv /\ RunLoadRequest => IInv'
<1> SUFFICES ASSUME IInv, RunLoadRequest PROVE IInv'
  OBVIOUS
<1>1. /\ EnginesRight(eng) /\ NetRight(net, eng["slave"].store.valid)
      /\ RestType /\ OnceIn(eng["slave"], DeliveredPieces("slave"))
  BY DEF IInv
<1> DEFINE wants == SlaveWants(eng["slave"])
<1>2. PICK fails \in BOOLEAN :
         /\ asked' = (wants /\ ~fails)
         /\ net' = IF wants /\ ~fails THEN Sent(net, "master", LoadReq) ELSE net
         /\ used' = [used EXCEPT !.timeouts = IF asked THEN @ + 1 ELSE @,
                                 !.asks = IF wants /\ ~fails THEN @ + 1 ELSE @,
                                 !.fails = @ + CountFail(fails)]
  BY DEF RunLoadRequest
<1>3. UNCHANGED <<eng, up, pending, delivered>>
  BY DEF RunLoadRequest
<1> HIDE DEF wants
<1>4. NetRight(net', eng["slave"].store.valid)
  <2>1. \A S : <<>> \in Seq(S)
    OBVIOUS
  <2>2. LoadReq \in Message
    BY <2>1 DEF LoadReq, Message, Kind
  <2>3. AckMoved(LoadReq, eng["slave"].store.valid)
    BY DEF AckMoved, LoadReq, Elems
  <2>4. "master" \in Side /\ "master" # "slave"
    BY DEF Side
  <2>5. NetRight(Sent(net, "master", LoadReq), eng["slave"].store.valid)
    BY <1>1, <2>2, <2>3, <2>4, NetSends
  <2>6. QED
    BY <1>1, <1>2, <2>5
<1>5. RestType'
  <2> DEFINE a == IF asked THEN used.timeouts + 1 ELSE used.timeouts
             b == IF wants /\ ~fails THEN used.asks + 1 ELSE used.asks
             c == used.fails + CountFail(fails)
  <2>1. used' = [used EXCEPT !.timeouts = a, !.asks = b, !.fails = c]
    BY <1>2
  <2>2. used.timeouts \in Nat /\ used.asks \in Nat /\ used.fails \in Nat /\ CountFail(fails) \in Nat
    BY <1>1, UsedType DEF CountFail
  <2>3. a \in Nat /\ b \in Nat /\ c \in Nat
    BY <2>2
  <2> HIDE DEF a, b, c
  <2>4. used' \in [{"offers", "asks", "timeouts", "fails", "connects"} -> Nat]
    BY <1>1, <2>1, <2>3, UsedType
  <2>5. asked' \in BOOLEAN
    BY <1>2
  <2>6. QED
    BY <1>1, <1>3, <2>4, <2>5 DEF RestType
<1>6. eng' = eng /\ DeliveredPieces("slave")' = DeliveredPieces("slave")
  BY <1>3 DEF DeliveredPieces
<1>7. QED
  BY <1>1, <1>4, <1>5, <1>6 DEF IInv

(* The offer the master makes on a LOAD-REQUEST keeps the invariant. *)
LEMMA RecvLoadReqStep == IInv /\ RecvLoadReq => IInv'
<1> SUFFICES ASSUME IInv, RecvLoadReq PROVE IInv'
  OBVIOUS
<1>1. net["master"] # <<>> /\ "master" \in Side
  BY DEF RecvLoadReq, Receives, Side
<1>2. NetRight(Rest("master"), eng["slave"].store.valid)
  BY <1>1, NetReceives DEF IInv
<1>3. CASE pending["request"] # NoOffer
  <2>1. net' = Rest("master") /\ UNCHANGED <<eng, up, pending, asked, delivered, used>>
    BY <1>3 DEF RecvLoadReq
  <2>2. RestType' /\ DeliveredPieces("slave")' = DeliveredPieces("slave")
    BY <2>1 DEF IInv, RestType, DeliveredPieces
  <2>3. QED
    BY <1>2, <2>1, <2>2 DEF IInv
<1>4. CASE ~(pending["request"] # NoOffer)
  <2>1. PICK fails \in BOOLEAN : MakeOffer("request", Rest("master"), fails)
    BY <1>4 DEF RecvLoadReq
  <2>2. "request" \in Kind
    BY DEF Kind
  <2>3. QED
    BY <1>2, <2>1, <2>2, MakeOfferStep
<1>5. QED
  BY <1>3, <1>4

(* The slave moves what it has of an offer and says which keys those are. *)
LEMMA RecvLoadStep == IInv /\ RecvLoad => IInv'
<1> SUFFICES ASSUME IInv, RecvLoad PROVE IInv'
  OBVIOUS
<1> DEFINE e == eng["slave"]
           D == DeliveredPieces("slave")
           m == Head1("slave")
           tgt == Target("slave", m.kind)
           buf == MoveBuffer(e, tgt, m.keys, m.slots)
           app == MoveBuffer(buf.eng, "app", m.appKeys, m.appSlots)
           ack == Ack(m.kind, m.id, buf.moved, app.moved)
<1>1. /\ EnginesRight(eng) /\ NetRight(net, e.store.valid) /\ RestType /\ OnceIn(e, D)
  BY DEF IInv
<1>2. SoundEngine(e) /\ OwnNumbers(e.store) /\ e.store.valid \subseteq eng["master"].store.valid
  BY <1>1 DEF EnginesRight, Side
<1>3. net["slave"] # <<>> /\ "slave" \in Side
  BY DEF RecvLoad, Receives, Side
<1>4. NetRight(Rest("slave"), e.store.valid) /\ m \in Message
  BY <1>1, <1>3, NetReceives
<1>5. ListsOnce(m)
  <2>1. m = net["slave"][1] /\ 1 \in DOMAIN net["slave"]
    BY <1>1, <1>3 DEF Head1, NetRight
  <2>2. QED
    BY <1>1, <2>1 DEF NetRight
<1>6. PICK fails \in BOOLEAN :
         /\ eng' = [eng EXCEPT !["slave"] = app.eng]
         /\ net' = IF fails THEN Rest("slave") ELSE Sent(Rest("slave"), "master", ack)
         /\ asked' = (asked /\ (fails \/ m.kind = "load"))
         /\ used' = [used EXCEPT !.fails = @ + CountFail(fails)]
  BY DEF RecvLoad
<1>7. UNCHANGED <<up, pending, delivered>>
  BY DEF RecvLoad
<1>8. /\ tgt \in Buffers /\ "app" \in Buffers
  BY DEF Target, Buffers
<1>9. /\ m.keys \in Seq(Store!Id) /\ m.appKeys \in Seq(Store!Id) /\ m.kind \in Kind /\ m.id \in Nat
      /\ m.slots \in Seq(Buffer!Id) /\ m.appSlots \in Seq(Buffer!Id)
  BY <1>4 DEF Message
<1> HIDE DEF e, D, m, tgt, buf, app, ack
<1>10. MovesRight(buf, e, tgt, m.keys) /\ SoundEngine(buf.eng)
  <2>1. MovesRight(buf, e, tgt, m.keys)
    BY <1>2, <1>8, <1>9, MoveEffect DEF buf
  <2>2. QED
    BY <2>1 DEF MovesRight
<1>11. OwnNumbers(buf.eng.store) /\ OnceIn(buf.eng, D)
  <2>1. PICK f : TakesIn(buf.eng, e, tgt, buf.moved, f) /\ OneSlotEach(f)
    BY <1>2, <1>5, <1>10 DEF OwnNumbers, ListsOnce, MovesRight
  <2>2. OnceIn(buf.eng, D)
    <3>1. Elems(buf.moved) \subseteq e.store.valid
      BY <1>10 DEF MovesRight
    <3>2. buf.eng.store.valid = e.store.valid \ Elems(buf.moved)
      BY <1>10 DEF MovesRight
    <3>3. QED
      BY <1>1, <1>2, <1>8, <2>1, <3>1, <3>2, OnceAfterMove
  <2>3. QED
    BY <1>2, <1>10, <2>2 DEF OwnNumbers, MovesRight
<1>12. MovesRight(app, buf.eng, "app", m.appKeys) /\ SoundEngine(app.eng)
  <2>1. MovesRight(app, buf.eng, "app", m.appKeys)
    BY <1>8, <1>9, <1>10, MoveEffect DEF app
  <2>2. QED
    BY <2>1 DEF MovesRight
<1>13. OwnNumbers(app.eng.store) /\ OnceIn(app.eng, D)
  <2>1. PICK f : TakesIn(app.eng, buf.eng, "app", app.moved, f) /\ OneSlotEach(f)
    BY <1>5, <1>11, <1>12 DEF OwnNumbers, ListsOnce, MovesRight
  <2>2. OnceIn(app.eng, D)
    <3>1. Elems(app.moved) \subseteq buf.eng.store.valid
      BY <1>12 DEF MovesRight
    <3>2. app.eng.store.valid = buf.eng.store.valid \ Elems(app.moved)
      BY <1>12 DEF MovesRight
    <3>3. QED
      BY <1>8, <1>11, <2>1, <3>1, <3>2, OnceAfterMove
  <2>3. QED
    BY <1>11, <1>12, <2>2 DEF OwnNumbers, MovesRight
<1> DEFINE W == app.eng.store.valid
<1>14. W \subseteq e.store.valid /\ W \cap (Elems(buf.moved) \cup Elems(app.moved)) = {}
  BY <1>10, <1>12 DEF MovesRight
<1>15. EnginesRight(eng') /\ eng'["slave"] = app.eng
  <2>1. app.eng.store.valid \subseteq eng["master"].store.valid
    BY <1>2, <1>14
  <2>2. QED
    BY <1>1, <1>6, <1>12, <1>13, <2>1, SlaveChanges
<1> HIDE DEF W
<1>16. NetRight(net', W)
  <2>1. NetRight(Rest("slave"), W)
    BY <1>4, <1>14, NetShrinks
  <2>2. ack \in Message
    <3>1. \A S : <<>> \in Seq(S)
      OBVIOUS
    <3>2. QED
      BY <1>9, <1>10, <1>12, <3>1 DEF ack, Ack, Message, MovesRight
  <2>3. AckMoved(ack, W)
    BY <1>14 DEF AckMoved, ack, Ack
  <2>4. "master" \in Side /\ "master" # "slave"
    BY DEF Side
  <2>5. NetRight(Sent(Rest("slave"), "master", ack), W)
    BY <2>1, <2>2, <2>3, <2>4, NetSends
  <2>6. QED
    BY <1>6, <2>1, <2>5
<1>17. RestType'
  <2> DEFINE a == used.fails + CountFail(fails)
  <2>1. used' = [used EXCEPT !.fails = a]
    BY <1>6
  <2>2. a \in Nat
    BY <1>1, UsedNumbers
  <2> HIDE DEF a
  <2>3. used' \in [{"offers", "asks", "timeouts", "fails", "connects"} -> Nat]
    BY <1>1, <2>1, <2>2, UsedType
  <2>4. asked' \in BOOLEAN
    BY <1>6
  <2>5. QED
    BY <1>1, <1>7, <2>3, <2>4 DEF RestType
<1>18. D' = D
  BY <1>7 DEF D, DeliveredPieces
<1>19. QED
  <2>1. OnceIn(eng'["slave"], DeliveredPieces("slave")')
    BY <1>13, <1>15, <1>18 DEF D
  <2>2. QED
    BY <1>15, <1>16, <1>17, <2>1 DEF IInv, W

(* The master takes the keys named out of its store: the slave's store has *)
(* none of them.  What is cleared and freed beyond that is no key of the   *)
(* store.                                                                  *)
LEMMA RecvLoadAckStep == IInv /\ RecvLoadAck => IInv'
<1> SUFFICES ASSUME IInv, RecvLoadAck PROVE IInv'
  OBVIOUS
<1> DEFINE e   == eng["master"]
           V   == eng["slave"].store.valid
           m   == Head1("master")
           o   == pending[m.kind]
           tgt == Target("master", m.kind)
           buf == MoveBuffer(e, tgt, m.keys, o.slots)
           app == MoveBuffer(buf.eng, "app", m.appKeys, o.appSlots)
           left  == Sub(o.keys, m.keys)
           aLeft == Sub(o.appKeys, m.appKeys)
           free  == Store!SetKeyCount(app.eng.store, Elems(left) \cup Elems(aLeft), 0)
           kept  == [app.eng EXCEPT !.store = free]
<1>1. /\ EnginesRight(eng) /\ NetRight(net, V) /\ RestType
      /\ OnceIn(eng["slave"], DeliveredPieces("slave"))
  BY DEF IInv
<1>2. SoundEngine(e) /\ OwnNumbers(e.store) /\ V \subseteq e.store.valid
  BY <1>1 DEF EnginesRight, Side
<1>3. net["master"] # <<>> /\ "master" \in Side
  BY DEF RecvLoadAck, Receives, Side
<1>4. NetRight(Rest("master"), V) /\ m \in Message
  BY <1>1, <1>3, NetReceives
<1>5. AckMoved(m, V)
  <2>1. m = net["master"][1] /\ 1 \in DOMAIN net["master"]
    BY <1>1, <1>3 DEF Head1, NetRight
  <2>2. QED
    BY <1>1, <2>1 DEF NetRight
<1>6. net' = Rest("master") /\ UNCHANGED <<up, asked, delivered, used>>
  BY DEF RecvLoadAck
<1>7. DeliveredPieces("slave")' = DeliveredPieces("slave")
  BY <1>6 DEF DeliveredPieces
<1>8. CASE o.id # m.id
  <2>1. UNCHANGED <<eng, pending>>
    BY <1>8 DEF RecvLoadAck
  <2>2. RestType'
    BY <1>1, <1>6, <2>1 DEF RestType
  <2>3. QED
    BY <1>1, <1>4, <1>6, <1>7, <2>1, <2>2 DEF IInv
<1>9. CASE o.id = m.id
  <2>1. PICK clear, aClear :
           /\ eng' = [eng EXCEPT !["master"] =
                [kept EXCEPT
                   ![tgt] = Buffer!SetKeyCount(Buffer!Del(@, clear), Elems(o.slots), 0),
                   !.app  = Buffer!SetKeyCount(Buffer!Del(@, aClear), Elems(o.appSlots), 0)]]
           /\ pending' = [pending EXCEPT ![m.kind] = NoOffer]
    BY <1>9 DEF RecvLoadAck
  <2>2. /\ tgt \in Buffers /\ tgt # "app" /\ "app" \in Buffers
    BY DEF Target, Buffers
  <2>3. /\ m.keys \in Seq(Store!Id) /\ m.appKeys \in Seq(Store!Id) /\ m.kind \in Kind
    BY <1>4 DEF Message
  <2>4. o.slots \in Seq(Buffer!Id) /\ o.appSlots \in Seq(Buffer!Id)
    BY <1>1, <2>3 DEF RestType, Offer
  <2> HIDE DEF e, V, m, o, tgt, left, aLeft
  <2>5. MovesRight(buf, e, tgt, m.keys) /\ SoundEngine(buf.eng)
    <3>1. MovesRight(buf, e, tgt, m.keys)
      BY <1>2, <2>2, <2>3, <2>4, MoveEffect
    <3>2. QED
      BY <3>1 DEF MovesRight
  <2> HIDE DEF buf
  <2>6. MovesRight(app, buf.eng, "app", m.appKeys) /\ SoundEngine(app.eng)
    <3>1. MovesRight(app, buf.eng, "app", m.appKeys)
      BY <2>2, <2>3, <2>4, <2>5, MoveEffect
    <3>2. QED
      BY <3>1 DEF MovesRight
  <2> HIDE DEF app
  <2>7. StoreSound(free) /\ free.valid = app.eng.store.valid /\ free.data = app.eng.store.data
    <3>1. StoreSound(app.eng.store)
      BY <2>6 DEF SoundEngine
    <3>2. QED
      BY <3>1, StoreAfter
  <2> HIDE DEF free
  <2>8. SoundEngine(kept) /\ kept.store = free
    BY <2>6, <2>7, PutStore
  <2> HIDE DEF kept
  <2> DEFINE d == Buffer!Del(kept[tgt], clear)
             a == Buffer!Del(kept["app"], aClear)
             dFree == Buffer!SetKeyCount(d, Elems(o.slots), 0)
             aFree == Buffer!SetKeyCount(a, Elems(o.appSlots), 0)
             r == WithTwo(kept, tgt, dFree, "app", aFree)
  <2>9. BufferSound(d) /\ BufferSound(a)
    <3>1. BufferSound(kept[tgt]) /\ BufferSound(kept["app"]) /\ 0 \in Nat
      BY <2>2, <2>8 DEF SoundEngine
    <3>2. QED
      BY <3>1, BufferAfter
  <2>10. BufferSound(dFree) /\ BufferSound(aFree)
    <3> HIDE DEF d, a
    <3>1. QED
      BY <2>9, BufferAfter
  <2>11. eng' = [eng EXCEPT !["master"] = r]
    BY <2>1, <2>2, <2>8, EngineParts DEF WithTwo, SoundEngine
  <2> HIDE DEF dFree, aFree
  <2>12. SoundEngine(r) /\ r.store = free
    BY <2>2, <2>8, <2>10, PutTwo
  <2> HIDE DEF r
  <2>13. OwnNumbers(r.store) /\ V \subseteq r.store.valid
    BY <1>2, <1>5, <2>5, <2>6, <2>7, <2>12 DEF OwnNumbers, AckMoved, MovesRight
  <2>14. EnginesRight(eng') /\ eng'["slave"] = eng["slave"]
    BY <1>1, <2>11, <2>12, <2>13, MasterChanges DEF V
  <2>15. RestType'
    <3>1. \A S : <<>> \in Seq(S)
      OBVIOUS
    <3>2. NoOffer \in Offer
      BY <3>1 DEF NoOffer, Offer
    <3>3. pending' \in [Kind -> Offer]
      BY <1>1, <2>1, <3>2 DEF RestType
    <3>4. QED
      BY <1>1, <1>6, <3>3 DEF RestType
  <2>16. QED
    BY <1>1, <1>4, <1>6, <1>7, <2>14, <2>15 DEF IInv, V
<1>10. QED
  BY <1>8, <1>9

(* A timeout, which gives an offer up, keeps the invariant. *)
LEMMA TimeoutStep ==
    ASSUME IInv, NEW k \in Kind, Timeout(k)
    PROVE  IInv'
<1> DEFINE e == eng["master"]
           b == Target("master", k)
           r == Release(e, b, pending[k])
<1>1. /\ EnginesRight(eng) /\ NetRight(net, eng["slave"].store.valid)
      /\ RestType /\ OnceIn(eng["slave"], DeliveredPieces("slave"))
  BY DEF IInv
<1>2. SoundEngine(e) /\ OwnNumbers(e.store) /\ eng["slave"].store.valid \subseteq e.store.valid
  BY <1>1 DEF EnginesRight, Side
<1>3. b \in {"in", "out"}
  BY DEF Target
<1>4. eng' = [eng EXCEPT !["master"] = r]
  BY DEF Timeout
<1> HIDE DEF b
<1>5. SoundEngine(r) /\ KeysStay(r, e)
  BY <1>2, <1>3, ReleaseEffect
<1> HIDE DEF r
<1>6. EnginesRight(eng') /\ eng'["slave"] = eng["slave"]
  <2>1. OwnNumbers(r.store) /\ eng["slave"].store.valid \subseteq r.store.valid
    BY <1>2, <1>5 DEF KeysStay, OwnNumbers
  <2>2. QED
    BY <1>1, <1>4, <1>5, <2>1, MasterChanges
<1>7. RestType'
  <2>1. \A S : <<>> \in Seq(S)
    OBVIOUS
  <2>2. NoOffer \in Offer
    BY <2>1 DEF NoOffer, Offer
  <2>3. pending' \in [Kind -> Offer]
    BY <1>1, <2>2 DEF Timeout, RestType
  <2> DEFINE n == used.timeouts + 1
  <2>4. used' = [used EXCEPT !.timeouts = n]
    BY DEF Timeout
  <2>5. n \in Nat
    BY <1>1, UsedNumbers
  <2> HIDE DEF n
  <2>6. used' \in [{"offers", "asks", "timeouts", "fails", "connects"} -> Nat]
    BY <1>1, <2>4, <2>5, UsedType
  <2>7. QED
    BY <1>1, <2>3, <2>6 DEF RestType, Timeout
<1>8. net' = net /\ DeliveredPieces("slave")' = DeliveredPieces("slave")
  BY DEF Timeout, DeliveredPieces
<1>9. QED
  BY <1>1, <1>6, <1>7, <1>8 DEF IInv

(* r is engine e with the keys in the slots S gone from its application    *)
(* buffer.                                                                 *)
AppWithout(r, e, S) ==
    /\ SoundEngine(r) /\ r.store = e.store
    /\ r["app"].valid = e["app"].valid \ S
    /\ \A i \in r["app"].valid : r["app"].data[i] = e["app"].data[i]
    /\ \A c \in Buffers \ {"app"} : r[c] = e[c]

(* What a message queue finds is in the buffer, and goes or stays.         *)
LEMMA QueueEffect ==
    ASSUME NEW e, SoundEngine(e)
    PROVE  LET found == Buffer!FindValid(e.app, MQKeys, 1)
               S     == Elems(found.ids)
           IN  /\ S \subseteq e["app"].valid
               /\ AppWithout([e EXCEPT !["app"] = Buffer!Del(found.db, S)], e, S)
               /\ AppWithout([e EXCEPT !["app"] = Buffer!SetKeyCount(found.db, S, 0)], e, {})
               /\ [j \in DOMAIN found.ids |-> e.app.data[found.ids[j]]] \in Seq(Piece)
<1> DEFINE found == Buffer!FindValid(e.app, MQKeys, 1)
           S     == Elems(found.ids)
           d     == Buffer!Del(found.db, S)
           a     == Buffer!SetKeyCount(found.db, S, 0)
           key   == [j \in DOMAIN found.ids |-> e.app.data[found.ids[j]]]
<1>1. e.app = e["app"] /\ BufferSound(e.app) /\ "app" \in Buffers
  BY EngineParts DEF SoundEngine, Buffers
<1>2. /\ BufferSound(found.db) /\ found.db.valid = e.app.valid /\ found.db.data = e.app.data
      /\ found.ids \in Seq(e.app.valid)
  BY <1>1, MQAssumption, BufferFound
<1> HIDE DEF found
<1>3. S \subseteq e.app.valid
  BY <1>2 DEF Elems
<1>4. key \in Seq(Piece)
  <2>1. \A i \in e.app.valid : e.app.data[i] \in Piece
    BY <1>1, BufferType
  <2>2. \A j \in DOMAIN found.ids : e.app.data[found.ids[j]] \in Piece
    BY <1>2, <2>1
  <2>3. Len(found.ids) \in Nat /\ DOMAIN found.ids = 1 .. Len(found.ids)
    BY <1>2
  <2>4. QED
    BY <2>2, <2>3
<1> HIDE DEF S
<1>5. 0 \in Nat
  OBVIOUS
<1>6. BufferSound(d) /\ d.valid = e.app.valid \ S /\ \A i \in d.valid : d.data[i] = e.app.data[i]
  <2>1. BufferSound(found.db)
    BY <1>2
  <2>2. BufferSound(d) /\ d.valid = found.db.valid \ S
        /\ \A i \in found.db.valid \ S : d.data[i] = found.db.data[i]
    BY <1>5, <2>1, BufferAfter
  <2>3. QED
    BY <1>2, <2>2
<1>7. BufferSound(a) /\ a.valid = e.app.valid /\ a.data = e.app.data
  BY <1>2, <1>5, BufferAfter
<1> HIDE DEF d, a
<1>8. AppWithout([e EXCEPT !["app"] = d], e, S)
  BY <1>1, <1>6, PutBuffer DEF AppWithout
<1>9. AppWithout([e EXCEPT !["app"] = a], e, {})
  BY <1>1, <1>7, PutBuffer DEF AppWithout
<1>10. QED
  BY <1>1, <1>3, <1>4, <1>8, <1>9 DEF S, found, d, a

(* A message queue takes a key, or finds that it has no room. *)
LEMMA ProduceStep ==
    ASSUME IInv, NEW s \in Side, Produce(s)
    PROVE  IInv'
<1> DEFINE e     == eng[s]
           found == Buffer!FindValid(e.app, MQKeys, 1)
           S     == Elems(found.ids)
           key   == [j \in DOMAIN found.ids |-> e.app.data[found.ids[j]]]
           taken == [e EXCEPT !["app"] = Buffer!Del(found.db, S)]
           freed == [e EXCEPT !["app"] = Buffer!SetKeyCount(found.db, S, 0)]
           D     == DeliveredPieces("slave")
<1>1. /\ EnginesRight(eng) /\ NetRight(net, eng["slave"].store.valid)
      /\ RestType /\ OnceIn(eng["slave"], D)
  BY DEF IInv
<1>2. SoundEngine(e) /\ OwnNumbers(e.store) /\ e.app = e["app"]
  BY <1>1, EngineParts DEF EnginesRight, SoundEngine
<1>3. /\ S \subseteq e["app"].valid
      /\ AppWithout(taken, e, S) /\ AppWithout(freed, e, {})
      /\ key \in Seq(Piece)
  <2> HIDE DEF e
  <2>1. QED
    BY <1>2, QueueEffect
<1>4. \/ /\ eng' = [eng EXCEPT ![s] = taken]
         /\ delivered' = [delivered EXCEPT ![s] = Append(@, key)]
      \/ /\ eng' = [eng EXCEPT ![s] = freed]
         /\ delivered' = delivered
  <2>1. \/ /\ eng' = [eng EXCEPT ![s].app = Buffer!Del(found.db, S)]
           /\ delivered' = [delivered EXCEPT ![s] = Append(@, key)]
        \/ /\ eng' = [eng EXCEPT ![s].app = Buffer!SetKeyCount(found.db, S, 0)]
           /\ delivered' = delivered
    BY DEF Produce
  <2>2. QED
    BY <2>1
<1>5. UNCHANGED <<up, pending, asked, net, used>>
  BY DEF Produce
<1> HIDE DEF S, key, taken, freed, found
<1>6. PICK r, T : /\ eng' = [eng EXCEPT ![s] = r] /\ AppWithout(r, e, T)
                  /\ T \in SUBSET e["app"].valid
                  /\ \/ T = S /\ delivered' = [delivered EXCEPT ![s] = Append(@, key)]
                     \/ T = {} /\ delivered' = delivered
  BY <1>3, <1>4
<1>7. SoundEngine(r) /\ r.store = e.store /\ OwnNumbers(r.store)
  BY <1>2, <1>6 DEF AppWithout
<1>8. EnginesRight(eng') /\ eng'[s] = r /\ \A t \in Side \ {s} : eng'[t] = eng[t]
  <2>1. CASE s = "master"
    BY <1>1, <1>6, <1>7, <2>1, MasterChanges DEF EnginesRight, Side
  <2>2. CASE s = "slave"
    BY <1>1, <1>6, <1>7, <2>2, SlaveChanges DEF EnginesRight, Side
  <2>3. QED
    BY <2>1, <2>2 DEF Side
<1>9. eng'["slave"].store = eng["slave"].store
  BY <1>7, <1>8 DEF Side
<1>10. delivered \in [Side -> Seq(Seq(Piece))]
  BY <1>1 DEF RestType
<1>11. RestType'
  <2>1. delivered' \in [Side -> Seq(Seq(Piece))]
    <3>1. Append(delivered[s], key) \in Seq(Seq(Piece))
      BY <1>3, <1>10
    <3>2. QED
      BY <1>6, <1>10, <3>1
  <2>2. QED
    BY <1>1, <1>5, <2>1 DEF RestType
<1>12. OnceIn(eng'["slave"], DeliveredPieces("slave")')
  <2>1. CASE s # "slave"
    <3>1. delivered'["slave"] = delivered["slave"]
      BY <1>6, <1>10, <2>1 DEF Side
    <3>2. eng'["slave"] = eng["slave"]
      BY <1>8, <2>1 DEF Side
    <3>3. QED
      BY <1>1, <3>1, <3>2 DEF DeliveredPieces
  <2>2. CASE s = "slave"
    <3>1. \A p \in DeliveredPieces("slave")' : p \in D \/ \E i \in T : p = e["app"].data[i]
      <4>1. CASE delivered' = delivered
        BY <4>1 DEF DeliveredPieces
      <4>2. CASE T = S /\ delivered' = [delivered EXCEPT ![s] = Append(@, key)]
        <5>1. /\ delivered'["slave"] = Append(delivered["slave"], key)
              /\ delivered["slave"] \in Seq(Seq(Piece))
          BY <1>10, <2>2, <4>2
        <5>2. \A n \in DOMAIN delivered'["slave"] :
                 \/ delivered'["slave"][n] = key
                 \/ n \in DOMAIN delivered["slave"] /\ delivered'["slave"][n] = delivered["slave"][n]
          BY <1>3, <5>1
        <5>3. \A p \in Elems(key) : \E i \in S : p = e["app"].data[i]
          BY <1>2 DEF Elems, key, S
        <5>4. QED
          BY <4>2, <5>2, <5>3 DEF DeliveredPieces
      <4>3. QED
        BY <1>6, <4>1, <4>2
    <3>2. AppWithout(r, e, T) /\ OnceIn(e, D) /\ T \subseteq e["app"].valid
      BY <1>1, <1>6, <2>2
    <3> DEFINE D2 == DeliveredPieces("slave")'
    <3> HIDE DEF D, D2, e
    <3>3. OnceIn(r, D2)
      BY <3>1, <3>2, OnceAfterTaking DEF AppWithout, D2
    <3>4. QED
      BY <1>8, <2>2, <3>3 DEF D2
  <2>3. QED
    BY <2>1, <2>2
<1>13. NetRight(net', eng'["slave"].store.valid)
  BY <1>1, <1>5, <1>9
<1>14. QED
  BY <1>8, <1>11, <1>12, <1>13 DEF IInv

(* Every step keeps the inductive invariant. *)
LEMMA NextInvariant == IInv /\ [Next]_vars => IInv'
<1> SUFFICES ASSUME IInv, [Next]_vars PROVE IInv'
  OBVIOUS
<1>1. CASE UNCHANGED vars
  BY <1>1 DEF vars, IInv, RestType, DeliveredPieces
<1>2. CASE Connect
  BY <1>2, ConnectStep
<1>3. ASSUME NEW s \in Side, SocketError(s) PROVE IInv'
  BY <1>3, SocketErrorStep
<1>4. ASSUME NEW s \in Side, ReopenStore(s) PROVE IInv'
  BY <1>4, ReopenStep
<1>5. ASSUME NEW s \in Side, Produce(s) PROVE IInv'
  BY <1>5, ProduceStep
<1>6. CASE RunLoad
  BY <1>6, RunLoadStep
<1>7. CASE RunLoadRequest
  BY <1>7, RunLoadRequestStep
<1>8. CASE RecvLoadReq
  BY <1>8, RecvLoadReqStep
<1>9. CASE RecvLoad
  BY <1>9, RecvLoadStep
<1>10. CASE RecvLoadAck
  BY <1>10, RecvLoadAckStep
<1>11. ASSUME NEW k \in Kind, Timeout(k) PROVE IInv'
  BY <1>11, TimeoutStep
<1>12. QED
  BY <1>1, <1>2, <1>3, <1>4, <1>5, <1>6, <1>7, <1>8, <1>9, <1>10, <1>11 DEF Next

-----------------------------------------------------------------------------
(* The inductive invariant holds in every state of the system. *)
THEOREM Invariance == Spec => []IInv
<1>1. Init => IInv
  BY InitInvariant
<1>2. IInv /\ [Next]_vars => IInv'
  BY NextInvariant
<1>3. QED
  BY <1>1, <1>2, PTL DEF Spec

(* The databases, messages, offers and counters have their types: no key   *)
(* moved, copied or cleared is out of range (key_move.cpp, db_ram.cpp).    *)
THEOREM TypeCorrect == Spec => []TypeOK
<1>1. IInv => TypeOK
  BY DEF IInv, EnginesRight, NetRight, RestType, TypeOK
<1>2. QED
  BY <1>1, Invariance, PTL

(* The slave never has a common store key the master does not have too:    *)
(* the master takes a key out of its store only for a LOAD-ACK that names  *)
(* it, after the slave has (load.cpp:374).                                 *)
THEOREM SlaveNeverAhead == Spec => []SlaveStoreWithinMasters
<1>1. IInv => SlaveStoreWithinMasters
  <2> SUFFICES ASSUME IInv PROVE SlaveStoreWithinMasters
    OBVIOUS
  <2>1. eng["slave"].store.valid \subseteq eng["master"].store.valid
    BY DEF IInv, EnginesRight
  <2>2. /\ \A k \in eng["slave"].store.valid : eng["slave"].store.data[k] = k
        /\ \A k \in eng["master"].store.valid : eng["master"].store.data[k] = k
    BY DEF IInv, EnginesRight, OwnNumbers, Side
  <2>3. QED
    BY <2>1, <2>2 DEF SlaveStoreWithinMasters
<1>2. QED
  BY <1>1, Invariance, PTL

(* At the slave a piece of a common store key is in at most one slot, and  *)
(* neither in a slot and handed out nor in either while the store has the  *)
(* key (key_move.cpp, mq.cpp): whatever is lost, late or refused.          *)
THEOREM SlaveKeysOnce == Spec => []SlaveHoldsKeysOnce
<1>1. IInv => SlaveHoldsKeysOnce
  <2> SUFFICES ASSUME IInv PROVE SlaveHoldsKeysOnce
    OBVIOUS
  <2> DEFINE e == eng["slave"]
             D == DeliveredPieces("slave")
             places(p) == {a \in Buffers \X Buffer!Id :
                              a[2] \in e[a[1]].valid /\ e[a[1]].data[a[2]] = p}
  <2>1. OnceIn(e, D)
    BY DEF IInv
  <2> HIDE DEF e, D
  <2>2. ASSUME NEW k \in StoreKeys, NEW j \in 1 .. Ratio
        PROVE  /\ Cardinality(places(<<k, j>>)) <= 1
               /\ places(<<k, j>>) # {} \/ <<k, j>> \in D => k \notin e.store.valid
               /\ <<k, j>> \in D => places(<<k, j>>) = {}
    <3> DEFINE p == <<k, j>>
    <3>1. p[1] = k
      OBVIOUS
    <3> HIDE DEF p
    <3>2. \A a \in places(p) : /\ a[1] \in Buffers /\ a[2] \in e[a[1]].valid
                               /\ e[a[1]].data[a[2]] = p
      OBVIOUS
    <3>3. \A a \in places(p) : k \notin e.store.valid /\ p \notin D
      BY <2>1, <3>1, <3>2 DEF OnceIn
    <3>4. p \in D => k \notin e.store.valid
      BY <2>1, <3>1 DEF OnceIn
    <3>5. \A a, b \in places(p) : a = b
      <4>1. \A a, b \in places(p) : a[1] = b[1] /\ a[2] = b[2]
        BY <2>1, <3>1, <3>2 DEF OnceIn
      <4>2. \A a, b \in Buffers \X Buffer!Id : a[1] = b[1] /\ a[2] = b[2] => a = b
        OBVIOUS
      <4>3. QED
        BY <4>1, <4>2
    <3> HIDE DEF places
    <3>6. Cardinality(places(p)) <= 1
      <4>1. CASE places(p) = {}
        BY <4>1, FS_EmptySet
      <4>2. CASE places(p) # {}
        <5>1. PICK a : a \in places(p)
          BY <4>2
        <5>2. places(p) = {a}
          BY <3>5, <5>1
        <5>3. Cardinality({a}) = 1
          BY FS_Singleton
        <5>4. QED
          BY <5>2, <5>3
      <4>3. QED
        BY <4>1, <4>2
    <3>7. QED
      BY <3>3, <3>4, <3>6 DEF p
  <2>3. QED
    BY <2>2 DEF SlaveHoldsKeysOnce, e, D
<1>2. QED
  BY <1>1, Invariance, PTL

-----------------------------------------------------------------------------
(* The flags and counters of the buffers.                                  *)

(* Only stored keys are in real sync, which two operations change. *)
LEMMA BufferSync ==
    ASSUME NEW d, BufferSound(d), NEW S
    PROVE  /\ d.real \in SUBSET d.valid
           /\ Buffer!SetRealSync(d, S).real = d.real \cup (S \cap d.valid)
           /\ Buffer!SetRealSync(d, S).cnt = d.cnt
           /\ Buffer!SetEventualSync(d, S).real \in SUBSET d.real
           /\ Buffer!SetEventualSync(d, S).cnt = d.cnt
           /\ Buffer!SetEventualSync(d, S).valid = d.valid
           /\ Buffer!SetEventualSync(d, S).data = d.data
<1>1. BufferP!Sound(d)
  BY DEF BufferSound
<1>2. /\ d.real \in SUBSET d.valid
      /\ BufferP!SetRealSync(d, S).real = d.real \cup (S \cap d.valid)
      /\ BufferP!SetRealSync(d, S).cnt = d.cnt
      /\ BufferP!SetEventualSync(d, S).real = d.real \ S
      /\ BufferP!SetEventualSync(d, S).cnt = d.cnt
  BY <1>1, BufferConstants, BufferP!FlagsAfter
<1>3. /\ BufferP!SetEventualSync(d, S).valid = d.valid
      /\ BufferP!SetEventualSync(d, S).data = d.data
  BY <1>1, BufferConstants, BufferP!ContentsAfter
<1>4. QED
  BY <1>2, <1>3, BufferOps

(* Deleting keys clears the flags and counters of these alone. *)
LEMMA BufferDeleted ==
    ASSUME NEW d, BufferSound(d), NEW S
    PROVE  /\ Buffer!Del(d, S).real = d.real \ S
           /\ \A i \in Buffer!Id \ S : Buffer!Del(d, S).cnt[i] = d.cnt[i]
<1>1. BufferP!Sound(d)
  BY DEF BufferSound
<1>2. /\ BufferP!Del(d, S).real = d.real \ S
      /\ \A i \in BufferP!Id \ S : BufferP!Del(d, S).cnt[i] = d.cnt[i]
  BY <1>1, BufferConstants, BufferP!FlagsAfter
<1>3. QED
  BY <1>2, BufferOps

(* Setting the counters of slots. *)
LEMMA BufferCounts ==
    ASSUME NEW d, BufferSound(d), NEW S, NEW n \in Nat
    PROVE  LET r == Buffer!SetKeyCount(d, S, n)
           IN  /\ r.real = d.real
               /\ \A i \in Buffer!Id \ S : r.cnt[i] = d.cnt[i]
               /\ n = 1 => \A i \in Buffer!Id \cap S : r.cnt[i] # 0
<1>1. BufferP!Sound(d)
  BY DEF BufferSound
<1> DEFINE r == BufferP!SetKeyCount(d, S, n)
<1>2. /\ r.real = d.real
      /\ \A i \in BufferP!Id \ S : r.cnt[i] = d.cnt[i]
      /\ n = 1 => \A i \in BufferP!Id \cap S : r.cnt[i] # 0
  BY <1>1, BufferConstants, BufferP!CountsAfter
<1>3. QED
  BY <1>2, BufferOps

(* Slots that are written to leave real sync. *)
LEMMA BufferWritten ==
    ASSUME NEW d, BufferSound(d), NEW f, DOMAIN f \in SUBSET Buffer!Id
    PROVE  /\ Buffer!SetKeys(d, f).real = d.real \ DOMAIN f
           /\ \A i \in Buffer!Id \ DOMAIN f : Buffer!SetKeys(d, f).cnt[i] = d.cnt[i]
<1>1. BufferP!Sound(d) /\ DOMAIN f \in SUBSET BufferP!Id
  BY BufferOps DEF BufferSound
<1>2. /\ BufferP!SetKeys(d, f).real = d.real \ DOMAIN f
      /\ \A i \in BufferP!Id \ DOMAIN f : BufferP!SetKeys(d, f).cnt[i] = d.cnt[i]
  BY <1>1, BufferConstants, BufferP!FlagsWritten
<1>3. QED
  BY <1>2, BufferOps

(* A search of a buffer reserves the slots it lists, which nobody held. *)
Reserving(a, d, S) ==
    /\ a.real = d.real /\ a.data = d.data
    /\ \A i \in Buffer!Id : IF i \in S THEN d.cnt[i] = 0 /\ a.cnt[i] # 0
                            ELSE a.cnt[i] = d.cnt[i]

(* Both searches do. *)
LEMMA BufferSearched ==
    ASSUME NEW d, BufferSound(d), NEW bytes \in Nat
    PROVE  LET v == Buffer!FindValid(d, bytes, 1)
               s == Buffer!FindSpare(d, bytes, 1)
           IN  /\ Reserving(v.db, d, Elems(v.ids))
               /\ Reserving(s.db, d, Elems(s.ids)) /\ Elems(s.ids) \cap d.valid = {}
<1> DEFINE v == BufferP!FindValid(d, bytes, 1)
           s == BufferP!FindSpare(d, bytes, 1)
<1>1. BufferP!Sound(d)
  BY DEF BufferSound
<1>2. BufferP!Reserved(v, d) /\ v.db.data = d.data
  BY <1>1, BufferConstants, BufferP!KeysReserved, BufferP!KeysListed
<1>3. BufferP!Reserved(s, d) /\ s.db.data = d.data /\ \A k \in DOMAIN s.ids : s.ids[k] \notin d.valid
  BY <1>1, BufferConstants, BufferP!SparesReserved, BufferP!SparesListed
<1>4. v = Buffer!FindValid(d, bytes, 1) /\ s = Buffer!FindSpare(d, bytes, 1)
  BY BufferOps
<1> HIDE DEF v, s
<1>5. Reserving(v.db, d, Elems(v.ids))
  BY <1>2, BufferOps DEF BufferP!Reserved, Reserving, Elems
<1>6. Reserving(s.db, d, Elems(s.ids)) /\ Elems(s.ids) \cap d.valid = {}
  BY <1>3, BufferOps DEF BufferP!Reserved, Reserving, Elems
<1>7. QED
  BY <1>4, <1>5, <1>6

(* r is a later state of buffer d: no key came into real sync, those that  *)
(* are have not changed, and what was reserved still is.                   *)
Milder(r, d) ==
    /\ r.real \subseteq d.real
    /\ \A i \in r.real : r.data[i] = d.data[i]
    /\ \A i \in Buffer!Id : d.cnt[i] # 0 => r.cnt[i] # 0

(* One mild change after the other is mild. *)
LEMMA MilderTwice ==
    ASSUME NEW a, NEW b, NEW c, Milder(a, b), Milder(b, c)
    PROVE  Milder(a, c)
BY DEF Milder

(* A search is mild, and so is giving back or deleting what it found.      *)
LEMMA SearchMild ==
    ASSUME NEW d, NEW a, BufferSound(a), NEW S, Reserving(a, d, S)
    PROVE  /\ Milder(a, d)
           /\ Milder(Buffer!SetKeyCount(a, S, 0), d)
           /\ Milder(Buffer!Del(a, S), d)
<1> DEFINE c == Buffer!SetKeyCount(a, S, 0)
           w == Buffer!Del(a, S)
<1>1. 0 \in Nat
  OBVIOUS
<1>2. /\ c.real = a.real /\ c.data = a.data
      /\ \A i \in Buffer!Id \ S : c.cnt[i] = a.cnt[i]
  BY <1>1, BufferCounts, BufferAfter
<1>3. /\ w.real = a.real \ S
      /\ \A i \in Buffer!Id \ S : w.cnt[i] = a.cnt[i]
      /\ \A i \in a.valid \ S : w.data[i] = a.data[i]
      /\ a.real \in SUBSET a.valid
  <2>1. w.real = a.real \ S
    BY BufferDeleted
  <2>2. a.real \in SUBSET a.valid
    BY BufferSync
  <2>3. \A i \in Buffer!Id \ S : w.cnt[i] = a.cnt[i]
    BY BufferDeleted
  <2>4. \A i \in a.valid \ S : w.data[i] = a.data[i]
    BY <1>1, BufferAfter
  <2>5. QED
    BY <2>1, <2>2, <2>3, <2>4
<1> HIDE DEF c, w
<1>4. /\ a.real = d.real /\ a.data = d.data
      /\ \A i \in Buffer!Id \ S : a.cnt[i] = d.cnt[i]
      /\ \A i \in Buffer!Id : i \in S => d.cnt[i] = 0 /\ a.cnt[i] # 0
  BY DEF Reserving
<1>5. Milder(a, d)
  BY <1>4 DEF Milder
<1>6. Milder(c, d)
  BY <1>2, <1>4 DEF Milder
<1>7. Milder(w, d)
  BY <1>3, <1>4 DEF Milder
<1>8. QED
  BY <1>5, <1>6, <1>7 DEF c, w

(* The parts of keys, known by their numbers, that slots get.              *)
SlotsFor(moved, slots) == {slots[j] : j \in 1 .. Ratio * Len(moved)}

Parts(moved, slots) ==
    [s \in SlotsFor(moved, slots) |->
        LET j == CHOOSE j \in 1 .. Ratio * Len(moved) : slots[j] = s
        IN  <<moved[KeyAt(j)], PartAt(j)>>]

(* In a store that holds each key at its number the pieces are these parts. *)
LEMMA PiecesAreParts ==
    ASSUME NEW store, OwnNumbers(store), NEW moved \in Seq(store.valid), NEW slots
    PROVE  Pieces(store, moved, slots) = Parts(moved, slots)
<1> DEFINE D == SlotsFor(moved, slots)
           at(s) == CHOOSE j \in 1 .. Ratio * Len(moved) : slots[j] = s
<1>1. Len(moved) \in Nat /\ \A k \in 1 .. Len(moved) : moved[k] \in store.valid
  OBVIOUS
<1>2. \A s \in D : at(s) \in 1 .. Ratio * Len(moved)
  BY DEF SlotsFor
<1>3. Pieces(store, moved, slots) = [s \in D |-> <<store.data[moved[KeyAt(at(s))]], PartAt(at(s))>>]
  BY DEF Pieces, KeyAt, PartAt, SlotsFor
<1>4. Parts(moved, slots) = [s \in D |-> <<moved[KeyAt(at(s))], PartAt(at(s))>>]
  BY DEF Parts
<1> HIDE DEF D, at
<1>5. \A s \in D : KeyAt(at(s)) \in 1 .. Len(moved)
  BY <1>1, <1>2, PartsOfKeys
<1>6. \A s \in D : store.data[moved[KeyAt(at(s))]] = moved[KeyAt(at(s))]
  BY <1>1, <1>5 DEF OwnNumbers
<1>7. QED
  BY <1>3, <1>4, <1>6

(* All the keys of a list move if the store has them and the slots do.     *)
LEMMA AllMovable ==
    ASSUME NEW store, NEW keys \in Seq(store.valid), NEW L, NEW slots \in Seq(L),
           Ratio * Len(keys) <= Len(slots)
    PROVE  Movable(store, keys, slots) = keys
<1> DEFINE n == Len(keys)
           q == Len(slots) \div Ratio
           P == {i \in DOMAIN keys : keys[i] \in store.valid}
           nth(k) == CHOOSE i \in P : Cardinality({j \in P : j <= i}) = k
<1>1. n \in Nat /\ Len(slots) \in Nat /\ DOMAIN keys = 1 .. n
  OBVIOUS
<1>2. P = 1 .. n
  BY <1>1
<1>3. \A i \in Nat : Cardinality(1 .. i) = i
  BY FS_Interval
<1>4. n <= q
  <2>1. /\ q \in Nat /\ Len(slots) % Ratio \in 0 .. Ratio - 1
        /\ Len(slots) = Ratio * q + (Len(slots) % Ratio)
    BY <1>1, WholeParts
  <2>2. Ratio \in Nat /\ Ratio > 0 /\ Ratio * q \in Nat /\ Ratio * n \in Nat
    BY <1>1, <2>1, RatioAssumption
  <2> HIDE DEF q, n
  <2>3. SUFFICES ASSUME q < n PROVE FALSE
    BY <1>1, <2>1
  <2>4. Ratio * (q + 1) <= Ratio * n /\ Ratio * (q + 1) = Ratio * q + Ratio
    BY <1>1, <2>1, <2>2, <2>3
  <2>5. Ratio * n <= Len(slots)
    BY DEF n
  <2>6. QED
    BY <1>1, <2>1, <2>2, <2>4, <2>5
<1>5. Least(n, q) = n
  BY <1>1, <1>4, WholeParts DEF Least
<1>6. ASSUME NEW k \in 1 .. n PROVE nth(k) = k
  <2> HIDE DEF P, n
  <2>1. ASSUME NEW i \in P PROVE Cardinality({j \in P : j <= i}) = i
    <3>1. {j \in P : j <= i} = 1 .. i
      BY <1>1, <1>2
    <3>2. i \in Nat
      BY <1>1, <1>2
    <3>3. Cardinality(1 .. i) = i
      BY <1>3, <3>2
    <3>4. QED
      BY <3>1, <3>3
  <2>2. \A i \in P : Cardinality({j \in P : j <= i}) = i
    BY <2>1
  <2>3. QED
    BY <1>2, <2>2
<1>7. Movable(store, keys, slots) = [m \in 1 .. Least(Cardinality(P), q) |-> keys[nth(m)]]
  BY DEF Movable
<1> HIDE DEF P, nth, n, q
<1>8. Cardinality(P) = n
  BY <1>1, <1>2, <1>3
<1>9. Movable(store, keys, slots) = [m \in 1 .. n |-> keys[nth(m)]]
  BY <1>5, <1>7, <1>8
<1>10. [m \in 1 .. n |-> keys[nth(m)]] = [m \in 1 .. n |-> keys[m]]
  BY <1>6
<1>11. keys = [m \in 1 .. n |-> keys[m]]
  BY <1>1 DEF n
<1>12. QED
  BY <1>9, <1>10, <1>11

(* What moving keys writes, and where: whole keys, within the slots named; *)
(* those slots are in real sync then, and no other slot changes.           *)
Fills(r, e, b, keys, slots) ==
    LET f == Parts(r.moved, slots)
    IN  /\ Ratio * Len(r.moved) <= Len(slots)
        /\ DOMAIN f \subseteq Elems(slots)
        /\ r.eng[b].valid = e[b].valid \cup DOMAIN f
        /\ \A i \in r.eng[b].valid :
              r.eng[b].data[i] = IF i \in DOMAIN f THEN f[i] ELSE e[b].data[i]
        /\ r.eng[b].real = e[b].real \cup DOMAIN f
        /\ \A i \in Buffer!Id \ DOMAIN f : r.eng[b].cnt[i] = e[b].cnt[i]
        /\ \A c \in Buffers \ {b} : r.eng[c] = e[c]
        /\ Elems(keys) \subseteq e.store.valid /\ Ratio * Len(keys) <= Len(slots)
              => r.moved = keys

(* Moving keys does so. *)
LEMMA MoveFills ==
    ASSUME NEW e, SoundEngine(e), OwnNumbers(e.store), NEW b \in Buffers,
           NEW keys \in Seq(Store!Id), NEW slots \in Seq(Buffer!Id)
    PROVE  Fills(MoveBuffer(e, b, keys, slots), e, b, keys, slots)
<1> DEFINE moved == Movable(e.store, keys, slots)
           f == Parts(moved, slots)
           w == Buffer!SetKeys(e[b], f)
           d == Buffer!SetRealSync(w, DOMAIN f)
           s == Store!Del(e.store, Elems(moved))
           r == MoveBuffer(e, b, keys, slots)
<1>1. StoreSound(e.store) /\ BufferSound(e[b])
  BY DEF SoundEngine
<1>2. Moves(moved, e.store, keys, slots)
  BY MovableMoves
<1>3. moved \in Seq(e.store.valid) /\ Ratio * Len(moved) <= Len(slots) /\ Ratio * Len(moved) \in Nat
  BY <1>2 DEF Moves
<1>4. Pieces(e.store, moved, slots) = f
  <2> HIDE DEF moved
  <2>1. QED
    BY <1>3, PiecesAreParts
<1>5. r.eng = WithBoth(e, b, d, s) /\ r.moved = moved
  BY <1>4 DEF MoveBuffer, WithBoth
<1>6. Elems(keys) \subseteq e.store.valid /\ Ratio * Len(keys) <= Len(slots) => moved = keys
  <2>1. ASSUME Elems(keys) \subseteq e.store.valid, Ratio * Len(keys) <= Len(slots)
        PROVE  moved = keys
    <3>1. keys \in Seq(e.store.valid)
      BY <2>1 DEF Elems
    <3>2. QED
      BY <2>1, <3>1, AllMovable
  <2>2. QED
    BY <2>1
<1> HIDE DEF moved, r
<1>7. /\ DOMAIN f \in SUBSET Buffer!Id /\ \A i \in DOMAIN f : f[i] \in Piece
  BY <1>1, <1>3, <1>4, PiecesOfKeys
<1>8. DOMAIN f \subseteq Elems(slots)
  <2>1. DOMAIN f = SlotsFor(moved, slots)
    BY DEF Parts
  <2>2. Len(slots) \in Nat /\ DOMAIN slots = 1 .. Len(slots)
    OBVIOUS
  <2>3. 1 .. Ratio * Len(moved) \subseteq DOMAIN slots
    BY <1>3, <2>2
  <2>4. QED
    BY <2>1, <2>3 DEF SlotsFor, Elems
<1> HIDE DEF f
<1>9. /\ BufferSound(w) /\ w.valid = e[b].valid \cup DOMAIN f
      /\ \A i \in w.valid : w.data[i] = IF i \in DOMAIN f THEN f[i] ELSE e[b].data[i]
  BY <1>1, <1>7, BufferSet
<1>10. /\ w.real = e[b].real \ DOMAIN f
       /\ \A i \in Buffer!Id \ DOMAIN f : w.cnt[i] = e[b].cnt[i]
  BY <1>1, <1>7, BufferWritten
<1> HIDE DEF w
<1>11. BufferSound(d) /\ d.valid = w.valid /\ d.data = w.data
  BY <1>9, BufferAfter
<1>12. d.real = w.real \cup (DOMAIN f \cap w.valid) /\ d.cnt = w.cnt
  BY <1>9, BufferSync
<1>13. StoreSound(s)
  BY <1>1, StoreWithout
<1> HIDE DEF d, s
<1>14. r.eng[b] = d /\ \A c \in Buffers \ {b} : r.eng[c] = e[c]
  BY <1>5, <1>11, <1>13, PutBoth
<1>15. d.real = e[b].real \cup DOMAIN f
  BY <1>9, <1>10, <1>12
<1>16. Fills(r, e, b, keys, slots)
  BY <1>3, <1>5, <1>6, <1>8, <1>9, <1>10, <1>11, <1>12, <1>14, <1>15 DEF Fills, f
<1>17. QED
  BY <1>16 DEF r

-----------------------------------------------------------------------------
(* What making an offer does to the buffers.                               *)

(* The copy in advance brings no key into real sync and frees no slot.     *)
LEMMA CopyMild ==
    ASSUME NEW e, SoundEngine(e), NEW b \in Buffers,
           NEW keys \in Seq(Store!Id), NEW slots \in Seq(Buffer!Id)
    PROVE  \A c \in Buffers : Milder(CopyBuffer(e, b, keys, slots)[c], e[c])
<1> DEFINE moved == Movable(e.store, keys, slots)
           f == Pieces(e.store, moved, slots)
           w == Buffer!SetKeys(e[b], f)
           k == Buffer!SetKeyCount(w, DOMAIN f, 1)
           d == Buffer!SetEventualSync(k, DOMAIN f)
           s == Store!SetKeyCount(e.store, Elems(moved), 1)
           r == CopyBuffer(e, b, keys, slots)
<1>1. StoreSound(e.store) /\ BufferSound(e[b]) /\ 1 \in Nat
  BY DEF SoundEngine
<1>2. Moves(moved, e.store, keys, slots)
  BY MovableMoves
<1>3. r = WithBoth(e, b, d, s)
  BY DEF CopyBuffer, WithBoth
<1> HIDE DEF moved, r
<1>4. moved \in Seq(e.store.valid) /\ Ratio * Len(moved) <= Len(slots)
  BY <1>2 DEF Moves
<1>5. DOMAIN f \in SUBSET Buffer!Id /\ \A i \in DOMAIN f : f[i] \in Piece
  BY <1>1, <1>4, PiecesOfKeys
<1> HIDE DEF f
<1>6. /\ BufferSound(w) /\ w.valid = e[b].valid \cup DOMAIN f
      /\ \A i \in w.valid : w.data[i] = IF i \in DOMAIN f THEN f[i] ELSE e[b].data[i]
  BY <1>1, <1>5, BufferSet
<1>7. /\ w.real = e[b].real \ DOMAIN f
      /\ \A i \in Buffer!Id \ DOMAIN f : w.cnt[i] = e[b].cnt[i]
  BY <1>1, <1>5, BufferWritten
<1>8. e[b].real \in SUBSET e[b].valid
  BY <1>1, BufferSync
<1> HIDE DEF w
<1>9. BufferSound(k) /\ k.valid = w.valid /\ k.data = w.data
  BY <1>1, <1>6, BufferAfter
<1>10. /\ k.real = w.real
       /\ \A i \in Buffer!Id \ DOMAIN f : k.cnt[i] = w.cnt[i]
       /\ \A i \in Buffer!Id \cap DOMAIN f : k.cnt[i] # 0
  BY <1>1, <1>6, BufferCounts
<1> HIDE DEF k
<1>11. BufferSound(d) /\ d.real \in SUBSET k.real /\ d.cnt = k.cnt /\ d.data = k.data
  <2>1. 0 \in Nat
    OBVIOUS
  <2>2. BufferSound(d)
    BY <1>9, <2>1, BufferAfter
  <2>3. QED
    BY <1>9, <2>2, BufferSync
<1>12. StoreSound(s)
  BY <1>1, StoreAfter
<1> HIDE DEF d, s
<1>13. r[b] = d /\ \A c \in Buffers \ {b} : r[c] = e[c]
  BY <1>3, <1>11, <1>12, PutBoth
<1>14. Milder(d, e[b])
  <2>1. d.real \subseteq e[b].real
    BY <1>7, <1>10, <1>11
  <2>2. \A i \in d.real : d.data[i] = e[b].data[i]
    BY <1>6, <1>7, <1>8, <1>9, <1>10, <1>11
  <2>3. \A i \in Buffer!Id : e[b].cnt[i] # 0 => d.cnt[i] # 0
    BY <1>7, <1>10, <1>11
  <2>4. QED
    BY <2>1, <2>2, <2>3 DEF Milder
<1>15. \A x : Milder(x, x)
  BY DEF Milder
<1>16. \A c \in Buffers : Milder(r[c], e[c])
  BY <1>13, <1>14, <1>15
<1>17. QED
  BY <1>16 DEF r

(* d1 is buffer d after a search for free slots of which the offer lists L *)
(* and the others were given back.                                         *)
Claimed(d1, d, L) ==
    /\ BufferSound(d1) /\ L \in Seq(Buffer!Id)
    /\ Milder(d1, d) /\ Milder(Buffer!SetKeyCount(d1, Elems(L), 0), d)
    /\ \A i \in Elems(L) : d.cnt[i] = 0 /\ i \notin d.valid /\ d1.cnt[i] # 0

(* All the slots found are listed, or none of them. *)
LEMMA SlotsClaimed ==
    ASSUME NEW d, BufferSound(d), NEW bytes \in Nat, NEW room \in BOOLEAN
    PROVE  LET s == Buffer!FindSpare(d, bytes, 1)
           IN  Claimed(IF room THEN s.db ELSE Buffer!SetKeyCount(s.db, Elems(s.ids), 0), d,
                       IF room THEN s.ids ELSE <<>>)
<1> DEFINE s == Buffer!FindSpare(d, bytes, 1)
           S == Elems(s.ids)
           a == s.db
           c == Buffer!SetKeyCount(a, S, 0)
           z == Buffer!SetKeyCount(c, {}, 0)
<1>1. BufferSound(a) /\ a.valid = d.valid /\ s.ids \in Seq(Buffer!Id) /\ 0 \in Nat
  BY BufferSpare
<1>2. Reserving(a, d, S) /\ S \cap d.valid = {}
  BY BufferSearched
<1>3. S \subseteq Buffer!Id
  BY <1>1 DEF Elems
<1> HIDE DEF s
<1>4. \A i \in S : d.cnt[i] = 0 /\ i \notin d.valid /\ a.cnt[i] # 0
  BY <1>2, <1>3 DEF Reserving
<1> HIDE DEF a
<1>5. Milder(a, d) /\ Milder(c, d)
  BY <1>1, <1>2, SearchMild
<1>6. BufferSound(c)
  BY <1>1, BufferAfter
<1> HIDE DEF c
<1>7. Milder(z, c)
  <2>1. z.data = c.data
    BY <1>1, <1>6, BufferAfter
  <2>2. z.real = c.real /\ \A i \in Buffer!Id \ {} : z.cnt[i] = c.cnt[i]
    BY <1>1, <1>6, BufferCounts
  <2>3. QED
    BY <2>1, <2>2 DEF Milder
<1>8. Milder(z, d)
  BY <1>5, <1>7, MilderTwice
<1>9. Elems(<<>>) = {} /\ <<>> \in Seq(Buffer!Id)
  BY DEF Elems
<1> HIDE DEF z, S
<1>10. CASE room
  <2>1. Claimed(a, d, s.ids)
    BY <1>1, <1>4, <1>5 DEF Claimed, c, S
  <2>2. QED
    BY <1>10, <2>1 DEF s, a
<1>11. CASE ~room
  <2>1. Claimed(c, d, <<>>)
    BY <1>5, <1>6, <1>8, <1>9 DEF Claimed, z
  <2>2. QED
    BY <1>11, <2>1 DEF s, a, c, S
<1>12. QED
  BY <1>10, <1>11

(* The buffers of an engine after its store and two buffers are replaced.  *)
LEMMA PutAllBuffers ==
    ASSUME NEW e, SoundEngine(e), NEW s, NEW b \in {"in", "out"}, NEW d, NEW a
    PROVE  LET r == WithAll(e, s, b, d, a)
           IN  r[b] = d /\ r["app"] = a /\ \A c \in Buffers \ {b, "app"} : r[c] = e[c]
<1>1. DOMAIN e = {"store", "in", "out", "app"}
  BY EngineParts DEF SoundEngine
<1>2. QED
  BY <1>1 DEF WithAll, Buffers

(* The slots a new offer lists were free and held by nobody, and are now   *)
(* reserved; up to there, and if it is given up again, the buffers changed *)
(* mildly.                                                                 *)
NewOffer(r, e, k) ==
    LET o == r.offer
        b == Target("master", k)
    IN  /\ o.id = used.offers + 1
        /\ \A c \in Buffers : Milder(r.eng[c], e[c]) /\ Milder(Release(r.eng, b, o)[c], e[c])
        /\ \A i \in Elems(o.slots) : e[b].cnt[i] = 0 /\ i \notin e[b].valid /\ r.eng[b].cnt[i] # 0
        /\ \A i \in Elems(o.appSlots) :
              e["app"].cnt[i] = 0 /\ i \notin e["app"].valid /\ r.eng["app"].cnt[i] # 0

(* Reserving makes such an offer. *)
LEMMA ReserveMild ==
    ASSUME NEW e, SoundEngine(e), NEW k \in Kind, NEW nBuf \in Nat, NEW nApp \in Nat,
           used.offers \in Nat
    PROVE  NewOffer(Reserve(e, k, nBuf, nApp), e, k)
<1> DEFINE buf    == Target("master", k)
           keys   == Store!FindValid(e.store, nBuf, 1)
           slots  == Buffer!FindSpare(e[buf], nBuf, 1)
           room   == Len(slots.ids) >= Ratio
           store1 == IF room THEN keys.db ELSE Store!SetKeyCount(keys.db, Elems(keys.ids), 0)
           buf1   == IF room THEN slots.db ELSE Buffer!SetKeyCount(slots.db, Elems(slots.ids), 0)
           listed == IF room THEN keys.ids ELSE <<>>
           aKeys  == Store!FindValid(store1, nApp, 1)
           aSlots == Buffer!FindSpare(e.app, nApp, 1)
           aRoom  == Len(aSlots.ids) >= Ratio
           undone == IF k = "load" THEN listed ELSE aKeys.ids
           store2 == IF aRoom THEN aKeys.db ELSE Store!SetKeyCount(aKeys.db, Elems(undone), 0)
           app2   == IF aRoom THEN aSlots.db
                     ELSE Buffer!SetKeyCount(aSlots.db, Elems(aSlots.ids), 0)
           r == Reserve(e, k, nBuf, nApp)
           o == r.offer
           L == IF room THEN slots.ids ELSE <<>>
           M == IF aRoom THEN aSlots.ids ELSE <<>>
           q == Release(r.eng, buf, o)
<1>1. buf \in {"in", "out"} /\ buf \in Buffers /\ Buffers = {"in", "out", "app"}
  BY DEF Target, Buffers
<1>2. BufferSound(e[buf]) /\ BufferSound(e.app) /\ e.app = e["app"]
  BY <1>1, EngineParts DEF SoundEngine, Buffers
<1>3. r.eng = WithAll(e, store2, buf, buf1, app2)
  BY DEF Reserve, WithAll
<1>4. o.id = used.offers + 1 /\ o.slots = L /\ o.appSlots = M
  BY DEF Reserve
<1>5. SoundEngine(r.eng)
  BY ReserveEffect
<1>6. Claimed(buf1, e[buf], L)
  <2>1. room \in BOOLEAN
    OBVIOUS
  <2> HIDE DEF room
  <2>2. QED
    BY <1>2, <2>1, SlotsClaimed
<1>7. Claimed(app2, e["app"], M)
  <2>1. aRoom \in BOOLEAN
    OBVIOUS
  <2> HIDE DEF aRoom
  <2>2. QED
    BY <1>2, <2>1, SlotsClaimed
<1> HIDE DEF store2, buf1, app2, r, buf, L, M
<1>8. /\ r.eng[buf] = buf1 /\ r.eng["app"] = app2
      /\ \A c \in Buffers \ {buf, "app"} : r.eng[c] = e[c]
  BY <1>1, <1>3, PutAllBuffers
<1>9. r.eng.app = app2
  BY <1>5, <1>8, EngineParts DEF SoundEngine
<1> DEFINE back == Buffer!SetKeyCount(buf1, Elems(L), 0)
           appBack == Buffer!SetKeyCount(app2, Elems(M), 0)
<1>10. /\ q[buf] = back /\ q["app"] = appBack
       /\ \A c \in Buffers \ {buf, "app"} : q[c] = r.eng[c]
  <2> DEFINE s == Store!SetKeyCount(r.eng.store, Elems(o.keys) \cup Elems(o.appKeys), 0)
             g == r.eng
  <2>1. q = WithAll(g, s, buf, back, appBack)
    BY <1>4, <1>8, <1>9 DEF Release, WithAll
  <2>2. SoundEngine(g)
    BY <1>5
  <2> HIDE DEF s, back, appBack, q, g
  <2>3. /\ q[buf] = back /\ q["app"] = appBack
        /\ \A c \in Buffers \ {buf, "app"} : q[c] = g[c]
    BY ONLY <1>1, <2>1, <2>2, PutAllBuffers
  <2>4. QED
    BY <2>3 DEF g
<1> HIDE DEF q
<1>11. \A x : Milder(x, x)
  BY DEF Milder
<1>12. \A c \in Buffers : Milder(r.eng[c], e[c]) /\ Milder(q[c], e[c])
  <2>1. Milder(buf1, e[buf]) /\ Milder(back, e[buf])
    BY <1>6 DEF Claimed
  <2>2. Milder(app2, e["app"]) /\ Milder(appBack, e["app"])
    BY <1>7 DEF Claimed
  <2> HIDE DEF back, appBack
  <2>3. QED
    BY <1>8, <1>10, <1>11, <2>1, <2>2
<1>13. \A i \in Elems(o.slots) : e[buf].cnt[i] = 0 /\ i \notin e[buf].valid /\ r.eng[buf].cnt[i] # 0
  BY <1>4, <1>6, <1>8 DEF Claimed
<1>14. \A i \in Elems(o.appSlots) :
          e["app"].cnt[i] = 0 /\ i \notin e["app"].valid /\ r.eng["app"].cnt[i] # 0
  BY <1>4, <1>7, <1>8 DEF Claimed
<1> HIDE DEF o
<1>15. QED
  BY <1>4, <1>12, <1>13, <1>14 DEF NewOffer, o, r, q, buf

-----------------------------------------------------------------------------
(* Agreement of the two sides.  The invariant behind it speaks of offers   *)
(* by their numbers: those under way are younger than those answered, and  *)
(* every slot of an offer under way is free of real sync at the master, so *)
(* that the slave writes where the master holds nothing as agreed, and has *)
(* written everywhere the master will, when it learns of it.               *)

Acks(n) == {m \in Elems(n["master"]) : m.type # "LOAD-REQ"}
Loads(n) == Elems(n["slave"])
AckKeys(a) == Elems(a.keys) \cup Elems(a.appKeys)

Before(x, y) == x.type = "LOAD-REQ" \/ y.type = "LOAD-REQ" \/ x.id < y.id
Ascending(q) == \A i, j \in DOMAIN q : i < j => Before(q[i], q[j])

(* Offers are numbered as they are made, sent and answered. *)
Numbered(p, n, N) ==
    /\ \A k \in Kind : p[k] = NoOffer \/ p[k].id \in 1 .. N
    /\ \A m \in Loads(n) : m.type = "LOAD" /\ m.id \in 1 .. N
    /\ \A a \in Acks(n) : a.id \in 1 .. N /\ \A m \in Loads(n) : a.id < m.id
    /\ Ascending(n["master"]) /\ Ascending(n["slave"])

(* A LOAD under way is the pending offer's, or an older one given up, or   *)
(* belongs to the other kind and shares no slot with it.                   *)
Matched(p, n) ==
    \A k \in Kind : \A m \in Loads(n) : p[k] # NoOffer =>
        /\ m.id = p[k].id => m.kind = k /\ m.slots = p[k].slots /\ m.appSlots = p[k].appSlots
        /\ m.id > p[k].id =>
              m.kind # k /\ Elems(m.appSlots) \cap Elems(p[k].appSlots) = {}

(* The master has nothing in real sync where a LOAD under way puts keys.   *)
Ahead(g, n) ==
    \A m \in Loads(n) :
        /\ Elems(m.slots) \cap g[Target("master", m.kind)].real = {}
        /\ Elems(m.appSlots) \cap g["app"].real = {}

(* The master's store has the keys a LOAD-ACK under way names, each named  *)
(* once and by one of them.                                                *)
Acked(g, n) ==
    \A a \in Acks(n) :
        /\ AckKeys(a) \subseteq g.store.valid
        /\ Elems(a.keys) \cap Elems(a.appKeys) = {}
        /\ \A c \in Acks(n) : a.id # c.id => AckKeys(a) \cap AckKeys(c) = {}

(* The slave has p where the master has it in slot i of b, or has handed   *)
(* it out.                                                                 *)
Has(e, d, b, i, p) ==
    IF i \in e[Mirror(b)].valid THEN e[Mirror(b)].data[i] = p ELSE b = "app" /\ d # <<>>

HasParts(e, d, b, keys, slots) ==
    /\ Ratio * Len(keys) <= Len(slots)
    /\ \A i \in SlotsFor(keys, slots) : Has(e, d, b, i, Parts(keys, slots)[i])

(* The slave has what a LOAD-ACK under way to its offer names. *)
Held(e, d, p, n) ==
    \A a \in Acks(n) : a.id = p[a.kind].id =>
        /\ HasParts(e, d, Target("master", a.kind), a.keys, p[a.kind].slots)
        /\ HasParts(e, d, "app", a.appKeys, p[a.kind].appSlots)

(* The slave has what the master has in real sync. *)
Same(g, e, d) == \A b \in Buffers : \A i \in g[b].real : Has(e, d, b, i, g[b].data[i])

(* What OffersOwnWhatTheyList says of the master's engine and offers. *)
Owned(g, p) ==
    /\ \A k \in Kind :
         /\ \A i \in Elems(p[k].slots) : g[Target("master", k)].cnt[i] # 0
         /\ \A i \in Elems(p[k].appSlots) : g["app"].cnt[i] # 0
         /\ Elems(p[k].keys) \cap Elems(p[k].appKeys) = {}
    /\ Elems(p["load"].appSlots) \cap Elems(p["request"].appSlots) = {}

Emptied(e) == \A b \in Buffers : e[b].valid = {}

Agree ==
    /\ Numbered(pending, net, used.offers)
    /\ Matched(pending, net)
    /\ Ahead(eng["master"], net) /\ Acked(eng["master"], net)
    /\ Owned(eng["master"], pending)
    /\ up["slave"] => /\ Held(eng["slave"], delivered["slave"], pending, net)
                      /\ Same(eng["master"], eng["slave"], delivered["slave"])
    /\ ~up["slave"] => Emptied(eng["slave"])

(* Messages were received or lost. *)
Fewer(n2, n) ==
    /\ Loads(n2) \subseteq Loads(n) /\ Acks(n2) \subseteq Acks(n)
    /\ Ascending(n["master"]) => Ascending(n2["master"])
    /\ Ascending(n["slave"]) => Ascending(n2["slave"])

(* What is known of the messages stays known. *)
LEMMA FewerMessages ==
    ASSUME NEW n, NEW n2, Fewer(n2, n)
    PROVE  /\ \A p, N : Numbered(p, n, N) => Numbered(p, n2, N)
           /\ \A p : Matched(p, n) => Matched(p, n2)
           /\ \A g : Ahead(g, n) => Ahead(g, n2)
           /\ \A g : Acked(g, n) => Acked(g, n2)
           /\ \A e, d, p : Held(e, d, p, n) => Held(e, d, p, n2)
<1> DEFINE L == Loads(n)
           L2 == Loads(n2)
           A == Acks(n)
           A2 == Acks(n2)
<1>1. L2 \subseteq L /\ A2 \subseteq A
  BY DEF Fewer
<1> HIDE DEF L, L2, A, A2
<1>2. ASSUME NEW p, NEW N, Numbered(p, n, N) PROVE Numbered(p, n2, N)
  <2>1. /\ \A k \in Kind : p[k] = NoOffer \/ p[k].id \in 1 .. N
        /\ \A m \in L : m.type = "LOAD" /\ m.id \in 1 .. N
        /\ \A a \in A : a.id \in 1 .. N /\ \A m \in L : a.id < m.id
        /\ Ascending(n2["master"]) /\ Ascending(n2["slave"])
    BY <1>2 DEF Numbered, Fewer, L, A
  <2>2. QED
    BY <1>1, <2>1 DEF Numbered, L2, A2
<1>3. ASSUME NEW p, Matched(p, n) PROVE Matched(p, n2)
  BY <1>1, <1>3 DEF Matched, L, L2
<1>4. ASSUME NEW g, Ahead(g, n) PROVE Ahead(g, n2)
  BY <1>1, <1>4 DEF Ahead, L, L2
<1>5. ASSUME NEW g, Acked(g, n) PROVE Acked(g, n2)
  BY <1>1, <1>5 DEF Acked, A, A2
<1>6. ASSUME NEW e, NEW d, NEW p, Held(e, d, p, n) PROVE Held(e, d, p, n2)
  BY <1>1, <1>6 DEF Held, A, A2
<1>7. QED
  BY <1>2, <1>3, <1>4, <1>5, <1>6

(* A queue without its first message. *)
LEMMA TailOf ==
    ASSUME NEW q \in Seq(Message), q # <<>>
    PROVE  /\ Elems(Tail(q)) \subseteq Elems(q) /\ q[1] \in Elems(q)
           /\ Ascending(q) => Ascending(Tail(q)) /\ \A m \in Elems(Tail(q)) : Before(q[1], m)
<1>1. /\ Len(q) \in Nat /\ Len(q) > 0 /\ DOMAIN q = 1 .. Len(q)
      /\ DOMAIN Tail(q) = 1 .. Len(q) - 1
      /\ \A i \in 1 .. Len(q) - 1 : Tail(q)[i] = q[i + 1]
  OBVIOUS
<1>2. Elems(Tail(q)) \subseteq Elems(q) /\ q[1] \in Elems(q)
  BY <1>1 DEF Elems
<1>3. ASSUME Ascending(q) PROVE Ascending(Tail(q)) /\ \A m \in Elems(Tail(q)) : Before(q[1], m)
  <2>1. \A i, j \in 1 .. Len(q) : i < j => Before(q[i], q[j])
    BY <1>1, <1>3 DEF Ascending
  <2>2. \A i, j \in 1 .. Len(q) - 1 : i < j => Before(Tail(q)[i], Tail(q)[j])
    BY <1>1, <2>1
  <2>3. \A j \in 1 .. Len(q) - 1 : Before(q[1], Tail(q)[j])
    BY <1>1, <2>1
  <2>4. QED
    BY <1>1, <2>2, <2>3 DEF Ascending, Elems
<1>4. QED
  BY <1>2, <1>3

(* A queue with one message more. *)
LEMMA LongerBy ==
    ASSUME NEW q \in Seq(Message), NEW m \in Message
    PROVE  /\ Elems(Append(q, m)) = Elems(q) \cup {m}
           /\ Ascending(q) /\ (\A x \in Elems(q) : Before(x, m)) => Ascending(Append(q, m))
<1> DEFINE r == Append(q, m)
<1>1. /\ Len(q) \in Nat /\ DOMAIN q = 1 .. Len(q) /\ DOMAIN r = 1 .. Len(q) + 1
      /\ \A i \in 1 .. Len(q) : r[i] = q[i]
      /\ r[Len(q) + 1] = m
  OBVIOUS
<1> HIDE DEF r
<1>2. Elems(r) = Elems(q) \cup {m}
  BY <1>1 DEF Elems
<1>3. ASSUME Ascending(q), \A x \in Elems(q) : Before(x, m) PROVE Ascending(r)
  <2>1. \A i \in 1 .. Len(q) : Before(q[i], m)
    BY <1>1, <1>3 DEF Elems
  <2>2. \A i, j \in 1 .. Len(q) : i < j => Before(q[i], q[j])
    BY <1>1, <1>3 DEF Ascending
  <2>3. \A i, j \in 1 .. Len(q) + 1 : i < j => i \in 1 .. Len(q) /\ (j \in 1 .. Len(q) \/ j = Len(q) + 1)
    BY <1>1
  <2>4. QED
    BY <1>1, <2>1, <2>2, <2>3 DEF Ascending
<1>4. QED
  BY <1>2, <1>3 DEF r

(* Offers given up leave the others as they are. *)
LEMMA OffersDropped ==
    ASSUME NEW p, NEW p2, \A h \in Kind : p2[h] = p[h] \/ p2[h] = NoOffer,
           NEW n, Acks(n) \subseteq Message, NEW N \in Nat, Numbered(p, n, N)
    PROVE  /\ Numbered(p2, n, N)
           /\ Matched(p, n) => Matched(p2, n)
           /\ \A g : Owned(g, p) => Owned(g, p2)
           /\ \A e, d : Held(e, d, p, n) => Held(e, d, p2, n)
<1>1. Numbered(p2, n, N)
  BY DEF Numbered
<1>2. Matched(p, n) => Matched(p2, n)
  BY DEF Matched
<1>3. ASSUME NEW g, Owned(g, p) PROVE Owned(g, p2)
  <2>1. Elems(<<>>) = {} /\ NoOffer.slots = <<>> /\ NoOffer.appSlots = <<>> /\ NoOffer.keys = <<>>
    BY DEF Elems, NoOffer
  <2>2. "load" \in Kind /\ "request" \in Kind
    BY DEF Kind
  <2>3. /\ \A k \in Kind :
             /\ \A i \in Elems(p2[k].slots) : g[Target("master", k)].cnt[i] # 0
             /\ \A i \in Elems(p2[k].appSlots) : g["app"].cnt[i] # 0
             /\ Elems(p2[k].keys) \cap Elems(p2[k].appKeys) = {}
    BY <1>3, <2>1 DEF Owned
  <2>4. Elems(p2["load"].appSlots) \cap Elems(p2["request"].appSlots) = {}
    BY <1>3, <2>1, <2>2 DEF Owned
  <2>5. QED
    BY <2>3, <2>4 DEF Owned
<1>4. ASSUME NEW e, NEW d, Held(e, d, p, n) PROVE Held(e, d, p2, n)
  <2>1. \A a \in Acks(n) : a.id \in 1 .. N /\ a.kind \in Kind
    BY DEF Numbered, Message
  <2>2. NoOffer.id = 0
    BY DEF NoOffer
  <2>3. \A a \in Acks(n) : a.id = p2[a.kind].id => p2[a.kind] = p[a.kind]
    BY <2>1, <2>2
  <2> DEFINE A == Acks(n)
  <2> HIDE DEF A
  <2>4. \A a \in A : a.id = p[a.kind].id =>
           /\ HasParts(e, d, Target("master", a.kind), a.keys, p[a.kind].slots)
           /\ HasParts(e, d, "app", a.appKeys, p[a.kind].appSlots)
    BY <1>4 DEF Held, A
  <2>5. \A a \in A : a.id = p2[a.kind].id =>
           /\ HasParts(e, d, Target("master", a.kind), a.keys, p2[a.kind].slots)
           /\ HasParts(e, d, "app", a.appKeys, p2[a.kind].appSlots)
    <3>1. \A a \in A : a.id = p2[a.kind].id => p2[a.kind] = p[a.kind]
      BY <2>3 DEF A
    <3>2. QED
      BY ONLY <2>4, <3>1
  <2>6. QED
    BY <2>5 DEF Held, A
<1>5. QED
  BY <1>1, <1>2, <1>3, <1>4

(* The slots of pending offers are slots of the buffers. *)
ListsSlots(p) ==
    \A k \in Kind : Elems(p[k].slots) \cup Elems(p[k].appSlots) \subseteq Buffer!Id

(* They are, by the type of the offers. *)
LEMMA SlotsListed ==
    ASSUME NEW p \in [Kind -> Offer]
    PROVE  ListsSlots(p)
BY DEF ListsSlots, Offer, Elems

(* What changes the master's buffers mildly and leaves its store the keys. *)
LEMMA MasterMilder ==
    ASSUME NEW g, NEW g2, \A b \in Buffers : Milder(g2[b], g[b]),
           g2.store.valid = g.store.valid
    PROVE  /\ \A n : Ahead(g, n) => Ahead(g2, n)
           /\ \A n : Acked(g, n) => Acked(g2, n)
           /\ \A p : ListsSlots(p) /\ Owned(g, p) => Owned(g2, p)
           /\ \A e, d : Same(g, e, d) => Same(g2, e, d)
<1>1. \A s, k : Target(s, k) \in Buffers
  BY DEF Target, Buffers
<1>2. "app" \in Buffers
  BY DEF Buffers
<1>3. \A b \in Buffers : /\ g2[b].real \subseteq g[b].real
                         /\ \A i \in g2[b].real : g2[b].data[i] = g[b].data[i]
                         /\ \A i \in Buffer!Id : g[b].cnt[i] # 0 => g2[b].cnt[i] # 0
  BY DEF Milder
<1>4. ASSUME NEW n, Ahead(g, n) PROVE Ahead(g2, n)
  BY <1>1, <1>2, <1>3, <1>4 DEF Ahead
<1>5. ASSUME NEW n, Acked(g, n) PROVE Acked(g2, n)
  BY <1>5 DEF Acked
<1>6. ASSUME NEW p, ListsSlots(p), Owned(g, p) PROVE Owned(g2, p)
  <2>1. ASSUME NEW k \in Kind
        PROVE  /\ \A i \in Elems(p[k].slots) : g2[Target("master", k)].cnt[i] # 0
               /\ \A i \in Elems(p[k].appSlots) : g2["app"].cnt[i] # 0
    <3> DEFINE S == Elems(p[k].slots)
               A == Elems(p[k].appSlots)
               b == Target("master", k)
    <3>1. S \subseteq Buffer!Id /\ A \subseteq Buffer!Id
      BY <1>6 DEF ListsSlots
    <3>2. /\ \A i \in S : g[b].cnt[i] # 0
          /\ \A i \in A : g["app"].cnt[i] # 0
      BY <1>6 DEF Owned
    <3>3. b \in Buffers
      BY <1>1
    <3> HIDE DEF S, A, b
    <3>4. (\A i \in S : g2[b].cnt[i] # 0) /\ (\A i \in A : g2["app"].cnt[i] # 0)
      BY <1>2, <1>3, <3>1, <3>2, <3>3
    <3>5. QED
      BY <3>4 DEF S, A, b
  <2>2. QED
    BY <1>6, <2>1 DEF Owned
<1>7. ASSUME NEW e, NEW d, Same(g, e, d) PROVE Same(g2, e, d)
  <2>1. \A b \in Buffers : \A i \in g[b].real : Has(e, d, b, i, g[b].data[i])
    BY <1>7 DEF Same
  <2>2. \A b \in Buffers : \A i \in g2[b].real : Has(e, d, b, i, g2[b].data[i])
    <3>1. SUFFICES ASSUME NEW b \in Buffers, NEW i \in g2[b].real
                   PROVE  Has(e, d, b, i, g2[b].data[i])
      OBVIOUS
    <3>2. i \in g[b].real /\ g2[b].data[i] = g[b].data[i]
      BY <1>3
    <3>3. Has(e, d, b, i, g[b].data[i])
      BY <2>1, <3>2
    <3>4. QED
      BY <3>2, <3>3
  <2>3. QED
    BY <2>2 DEF Same
<1>8. QED
  BY <1>4, <1>5, <1>6, <1>7

(* What the invariant says of the parts the agreement is about. *)
LEMMA Parted ==
    ASSUME IInv
    PROVE  /\ eng \in [Side -> Engine] /\ SoundEngine(eng["master"]) /\ SoundEngine(eng["slave"])
           /\ OwnNumbers(eng["master"].store) /\ OwnNumbers(eng["slave"].store)
           /\ eng["slave"].store.valid \subseteq eng["master"].store.valid
           /\ net \in [Side -> Seq(Message)]
           /\ net["master"] \in Seq(Message) /\ net["slave"] \in Seq(Message)
           /\ Loads(net) \subseteq Message /\ Acks(net) \subseteq Message
           /\ up \in [Side -> BOOLEAN] /\ pending \in [Kind -> Offer]
           /\ ListsSlots(pending) /\ used.offers \in Nat
           /\ delivered \in [Side -> Seq(Seq(Piece))]
<1>1. EnginesRight(eng) /\ NetRight(net, eng["slave"].store.valid) /\ RestType
  BY DEF IInv
<1>2. "master" \in Side /\ "slave" \in Side
  BY DEF Side
<1>3. /\ eng \in [Side -> Engine] /\ SoundEngine(eng["master"]) /\ SoundEngine(eng["slave"])
      /\ OwnNumbers(eng["master"].store) /\ OwnNumbers(eng["slave"].store)
      /\ eng["slave"].store.valid \subseteq eng["master"].store.valid
  BY <1>1, <1>2 DEF EnginesRight
<1>4. net \in [Side -> Seq(Message)]
      /\ net["master"] \in Seq(Message) /\ net["slave"] \in Seq(Message)
  BY <1>1, <1>2 DEF NetRight
<1>5. \A q \in Seq(Message) : Elems(q) \subseteq Message
  BY DEF Elems
<1>6. Loads(net) \subseteq Message /\ Acks(net) \subseteq Message
  BY <1>4, <1>5 DEF Loads, Acks
<1>7. /\ up \in [Side -> BOOLEAN] /\ pending \in [Kind -> Offer] /\ used.offers \in Nat
      /\ delivered \in [Side -> Seq(Seq(Piece))]
  BY <1>1, UsedNumbers DEF RestType
<1>8. ListsSlots(pending)
  BY <1>7, SlotsListed
<1>9. QED
  BY <1>3, <1>4, <1>6, <1>7, <1>8

(* Taking the first message of a queue, or losing a queue. *)
LEMMA Received ==
    ASSUME net \in [Side -> Seq(Message)], NEW s \in Side, net[s] # <<>>
    PROVE  /\ Fewer(Rest(s), net) /\ Head1(s) \in Elems(net[s])
           /\ Rest(s) \in [Side -> Seq(Message)]
           /\ Rest(s)[s] = Tail(net[s]) /\ \A t \in Side \ {s} : Rest(s)[t] = net[t]
<1>1. net[s] \in Seq(Message) /\ \A t \in Side : net[t] \in Seq(Message)
  OBVIOUS
<1>2. /\ Elems(Tail(net[s])) \subseteq Elems(net[s]) /\ net[s][1] \in Elems(net[s])
      /\ Ascending(net[s]) => Ascending(Tail(net[s]))
  BY <1>1, TailOf
<1>3. /\ Rest(s)[s] = Tail(net[s]) /\ \A t \in Side \ {s} : Rest(s)[t] = net[t]
      /\ Rest(s) \in [Side -> Seq(Message)]
  BY <1>1 DEF Rest
<1>4. "master" \in Side /\ "slave" \in Side
  BY DEF Side
<1>5. Loads(Rest(s)) \subseteq Loads(net) /\ Acks(Rest(s)) \subseteq Acks(net)
  BY <1>2, <1>3, <1>4 DEF Loads, Acks
<1>6. Fewer(Rest(s), net)
  BY <1>2, <1>3, <1>4, <1>5 DEF Fewer
<1>7. QED
  BY <1>2, <1>3, <1>6 DEF Head1

(* A connection loses what was on its way to one side. *)
LEMMA Lost ==
    ASSUME net \in [Side -> Seq(Message)], NEW s \in Side
    PROVE  /\ Fewer([net EXCEPT ![s] = <<>>], net)
           /\ s = "master" => Acks([net EXCEPT ![s] = <<>>]) = {}
<1> DEFINE n == [net EXCEPT ![s] = <<>>]
<1>1. n[s] = <<>> /\ \A t \in Side \ {s} : n[t] = net[t]
  OBVIOUS
<1> HIDE DEF n
<1>2. Elems(<<>>) = {} /\ Ascending(<<>>)
  BY DEF Elems, Ascending
<1>3. "master" \in Side /\ "slave" \in Side
  BY DEF Side
<1>4. Loads(n) \subseteq Loads(net) /\ Acks(n) \subseteq Acks(net)
  BY <1>1, <1>2, <1>3 DEF Loads, Acks
<1>5. Fewer(n, net)
  BY <1>1, <1>2, <1>3, <1>4 DEF Fewer
<1>6. s = "master" => Acks(n) = {}
  BY <1>1, <1>2 DEF Acks
<1>7. QED
  BY <1>5, <1>6 DEF n

(* Nothing is under way and nothing is offered. *)
LEMMA NothingOffered ==
    ASSUME NEW n, n["master"] = <<>>, n["slave"] = <<>>,
           NEW p, \A k \in Kind : p[k] = NoOffer
    PROVE  /\ \A N : Numbered(p, n, N)
           /\ Matched(p, n)
           /\ \A g : Ahead(g, n) /\ Acked(g, n) /\ Owned(g, p)
           /\ \A e, d : Held(e, d, p, n)
<1>1. Loads(n) = {} /\ Acks(n) = {} /\ Ascending(<<>>) /\ Elems(<<>>) = {}
  BY DEF Loads, Acks, Elems, Ascending
<1>2. \A N : Numbered(p, n, N)
  BY <1>1 DEF Numbered
<1>3. Matched(p, n) /\ \A e, d : Held(e, d, p, n)
  BY <1>1 DEF Matched, Held
<1>4. \A g : Ahead(g, n) /\ Acked(g, n)
  BY <1>1 DEF Ahead, Acked
<1>5. \A g : Owned(g, p)
  <2>1. NoOffer.slots = <<>> /\ NoOffer.appSlots = <<>> /\ NoOffer.keys = <<>>
    BY DEF NoOffer
  <2>2. "load" \in Kind /\ "request" \in Kind
    BY DEF Kind
  <2>3. QED
    BY <1>1, <2>1, <2>2 DEF Owned
<1>6. QED
  BY <1>2, <1>3, <1>4, <1>5

(* In an engine without its buffers nothing is in real sync. *)
LEMMA FreshEmpty ==
    ASSUME NEW s, StoreSound(s)
    PROVE  /\ Emptied(Fresh(s))
           /\ \A b \in Buffers : Fresh(s)[b].real = {}
           /\ \A e, d : Same(Fresh(s), e, d)
<1>1. Emptied(Fresh(s))
  BY FreshEngine DEF Emptied
<1>2. \A b \in Buffers : Fresh(s)[b].real = {}
  BY DEF Fresh, Buffers, Buffer!Empty
<1>3. QED
  BY <1>1, <1>2 DEF Same

(* The sides agree when the engines have opened their stores. *)
LEMMA InitAgree == Init => Agree
<1> SUFFICES ASSUME Init PROVE Agree
  OBVIOUS
<1>1. StoreSound(NewStore)
  BY FilledStore
<1>2. /\ eng["master"] = Fresh(NewStore) /\ eng["slave"] = Fresh(NewStore)
      /\ up["slave"] = FALSE /\ net["master"] = <<>> /\ net["slave"] = <<>>
      /\ \A k \in Kind : pending[k] = NoOffer
  BY DEF Init, Side
<1>3. Emptied(eng["slave"])
  BY <1>1, <1>2, FreshEmpty
<1>4. QED
  BY <1>2, <1>3, NothingOffered DEF Agree

(* The two halves of the secret are in the buffers they belong to. *)
LEMMA ConnectAgree == IInv /\ Connect => Agree'
<1> SUFFICES ASSUME IInv, Connect PROVE Agree'
  OBVIOUS
<1> DEFINE g == WithTwo(Fresh(eng["master"].store), "in", Filled(-1), "out", Filled(-2))
           e == WithTwo(Fresh(eng["slave"].store), "in", Filled(-2), "out", Filled(-1))
<1>1. /\ eng'["master"] = g /\ eng'["slave"] = e
      /\ up'["slave"] = TRUE /\ net'["master"] = <<>> /\ net'["slave"] = <<>>
      /\ \A k \in Kind : pending'[k] = NoOffer
  BY DEF Connect, Side, WithTwo
<1>2. StoreSound(eng["master"].store) /\ StoreSound(eng["slave"].store)
  BY Parted DEF SoundEngine
<1>3. \A s : StoreSound(s) => SoundEngine(Fresh(s))
  BY FreshEngine
<1>4. \A h \in {-1, -2} : BufferSound(Filled(h))
  BY FilledBuffer
<1>5. \A h \in {-1, -2} : Filled(h).real \subseteq Filled(h).valid
  BY <1>4, BufferSync
<1>6. "in" \in Buffers /\ "out" \in Buffers /\ "app" \in Buffers /\ Buffers = {"in", "out", "app"}
  BY DEF Buffers
<1> DEFINE fm == Fresh(eng["master"].store)
           fs == Fresh(eng["slave"].store)
           h1 == Filled(-1)
           h2 == Filled(-2)
<1>7. SoundEngine(fm) /\ SoundEngine(fs) /\ BufferSound(h1) /\ BufferSound(h2)
  BY <1>2, <1>3, <1>4
<1>8. fm["app"].real = {}
  BY <1>2, <1>6, FreshEmpty
<1>9. h1.real \subseteq h1.valid /\ h2.real \subseteq h2.valid
  BY <1>5
<1>10. g = WithTwo(fm, "in", h1, "out", h2) /\ e = WithTwo(fs, "in", h2, "out", h1)
  OBVIOUS
<1> HIDE DEF g, e, fm, fs, h1, h2
<1>11. g["in"] = h1 /\ g["out"] = h2 /\ g["app"] = fm["app"]
  <2>1. "in" \in Buffers /\ "out" \in Buffers /\ "in" # "out"
    BY <1>6
  <2>2. /\ g["in"] = h1 /\ g["out"] = h2
        /\ \A x \in Buffers \ {"in", "out"} : g[x] = fm[x]
    BY <1>7, <1>10, <2>1, PutTwo
  <2>3. QED
    BY <1>6, <2>2
<1>12. e["in"] = h2 /\ e["out"] = h1
  <2>1. "in" \in Buffers /\ "out" \in Buffers /\ "in" # "out"
    BY <1>6
  <2>2. QED
    BY <1>7, <1>10, <2>1, PutTwo
<1>13. \A d : Same(g, e, d)
  <2>1. Mirror("in") = "out" /\ Mirror("out") = "in"
    BY DEF Mirror
  <2>2. \A d : \A i \in h1.real : Has(e, d, "in", i, g["in"].data[i])
    BY <1>9, <1>11, <1>12, <2>1 DEF Has
  <2>3. \A d : \A i \in h2.real : Has(e, d, "out", i, g["out"].data[i])
    BY <1>9, <1>11, <1>12, <2>1 DEF Has
  <2>4. QED
    BY <1>6, <1>8, <1>11, <2>2, <2>3 DEF Same
<1>14. /\ Numbered(pending', net', used'.offers) /\ Matched(pending', net')
       /\ Ahead(eng'["master"], net') /\ Acked(eng'["master"], net')
       /\ Owned(eng'["master"], pending')
       /\ \A x, d : Held(x, d, pending', net')
  BY <1>1, NothingOffered
<1>15. QED
  BY <1>1, <1>13, <1>14 DEF Agree

(* No key came into real sync, and those that are have not changed. *)
Fainter(r, d) == r.real \subseteq d.real /\ \A i \in r.real : r.data[i] = d.data[i]

(* What that leaves of the agreement. *)
LEMMA MasterFainter ==
    ASSUME NEW g, NEW g2, \A b \in Buffers : Fainter(g2[b], g[b])
    PROVE  /\ \A n : Ahead(g, n) => Ahead(g2, n)
           /\ \A e, d : Same(g, e, d) => Same(g2, e, d)
<1>1. \A s, k : Target(s, k) \in Buffers
  BY DEF Target, Buffers
<1>2. "app" \in Buffers
  BY DEF Buffers
<1>3. \A b \in Buffers : /\ g2[b].real \subseteq g[b].real
                         /\ \A i \in g2[b].real : g2[b].data[i] = g[b].data[i]
  BY DEF Fainter
<1>4. ASSUME NEW n, Ahead(g, n) PROVE Ahead(g2, n)
  BY <1>1, <1>2, <1>3, <1>4 DEF Ahead
<1>5. ASSUME NEW e, NEW d, Same(g, e, d) PROVE Same(g2, e, d)
  <2>1. \A b \in Buffers : \A i \in g[b].real : Has(e, d, b, i, g[b].data[i])
    BY <1>5 DEF Same
  <2>2. SUFFICES ASSUME NEW b \in Buffers, NEW i \in g2[b].real
                 PROVE  Has(e, d, b, i, g2[b].data[i])
    BY DEF Same
  <2>3. i \in g[b].real /\ g2[b].data[i] = g[b].data[i]
    BY <1>3
  <2>4. Has(e, d, b, i, g[b].data[i])
    BY <2>1, <2>3
  <2>5. QED
    BY <2>3, <2>4
<1>6. QED
  BY <1>4, <1>5

(* The offer of kind k is given up: only counters of its own slots change. *)
LEMMA OfferGivenUp ==
    ASSUME NEW p, NEW k \in Kind, k \in DOMAIN p, ListsSlots(p), NEW g, Owned(g, p), NEW g2,
           \A h \in Kind \ {k} : \A i \in Buffer!Id :
              g2[Target("master", h)].cnt[i] = g[Target("master", h)].cnt[i],
           \A i \in Buffer!Id \ Elems(p[k].appSlots) : g2["app"].cnt[i] = g["app"].cnt[i]
    PROVE  Owned(g2, [p EXCEPT ![k] = NoOffer])
<1> DEFINE q == [p EXCEPT ![k] = NoOffer]
<1>1. q[k] = NoOffer /\ \A h \in Kind \ {k} : q[h] = p[h]
  OBVIOUS
<1> HIDE DEF q
<1>2. Elems(<<>>) = {} /\ NoOffer.slots = <<>> /\ NoOffer.appSlots = <<>> /\ NoOffer.keys = <<>>
  BY DEF Elems, NoOffer
<1>3. Kind = {"load", "request"}
  BY DEF Kind
<1>4. Elems(p["load"].appSlots) \cap Elems(p["request"].appSlots) = {}
  BY DEF Owned
<1>5. Elems(q["load"].appSlots) \cap Elems(q["request"].appSlots) = {}
  BY <1>1, <1>2, <1>3, <1>4
<1>6. ASSUME NEW h \in Kind
      PROVE  /\ \A i \in Elems(q[h].slots) : g2[Target("master", h)].cnt[i] # 0
             /\ \A i \in Elems(q[h].appSlots) : g2["app"].cnt[i] # 0
             /\ Elems(q[h].keys) \cap Elems(q[h].appKeys) = {}
  <2>1. CASE h = k
    BY <1>1, <1>2, <2>1
  <2>2. CASE h # k
    <3>1. q[h] = p[h]
      BY <1>1, <2>2
    <3> DEFINE S == Elems(p[h].slots)
               A == Elems(p[h].appSlots)
               B == Elems(p[k].appSlots)
               b == Target("master", h)
    <3>2. S \subseteq Buffer!Id /\ A \subseteq Buffer!Id
      BY DEF ListsSlots
    <3>3. (\A i \in S : g[b].cnt[i] # 0) /\ (\A i \in A : g["app"].cnt[i] # 0)
      BY DEF Owned
    <3>4. A \cap B = {}
      BY <1>3, <1>4, <2>2
    <3>5. /\ \A i \in Buffer!Id : g2[b].cnt[i] = g[b].cnt[i]
          /\ \A i \in Buffer!Id \ B : g2["app"].cnt[i] = g["app"].cnt[i]
      BY <2>2
    <3>6. Elems(p[h].keys) \cap Elems(p[h].appKeys) = {}
      BY DEF Owned
    <3> HIDE DEF S, A, B, b
    <3>7. (\A i \in S : g2[b].cnt[i] # 0) /\ (\A i \in A : g2["app"].cnt[i] # 0)
      BY <3>2, <3>3, <3>4, <3>5
    <3>8. QED
      BY <3>1, <3>6, <3>7 DEF S, A, b
  <2>3. QED
    BY <2>1, <2>2
<1>7. QED
  BY <1>5, <1>6 DEF Owned, q

(* A slave that has all it had. *)
LEMMA HasKept ==
    ASSUME NEW e, NEW e2, NEW d, NEW d2,
           \A b \in Buffers : \A i, p : Has(e, d, b, i, p) => Has(e2, d2, b, i, p)
    PROVE  /\ \A g : Same(g, e, d) => Same(g, e2, d2)
           /\ \A p, n : Held(e, d, p, n) => Held(e2, d2, p, n)
<1>1. "app" \in Buffers /\ \A k : Target("master", k) \in Buffers
  BY DEF Buffers, Target
<1>2. \A g : Same(g, e, d) => Same(g, e2, d2)
  BY DEF Same
<1>3. \A b, keys, slots : b \in Buffers /\ HasParts(e, d, b, keys, slots)
                           => HasParts(e2, d2, b, keys, slots)
  BY DEF HasParts
<1>4. \A p, n : Held(e, d, p, n) => Held(e2, d2, p, n)
  BY <1>1, <1>3 DEF Held
<1>5. QED
  BY <1>2, <1>4

(* A side that goes down takes what it knew with it. *)
LEMMA SocketErrorAgree ==
    ASSUME IInv, Agree, NEW s \in Side, SocketError(s)
    PROVE  Agree'
<1>1. /\ net \in [Side -> Seq(Message)] /\ eng \in [Side -> Engine] /\ up \in [Side -> BOOLEAN]
      /\ SoundEngine(eng["master"]) /\ SoundEngine(eng["slave"])
  BY Parted
<1>2. "master" \in Side /\ "slave" \in Side /\ "master" # "slave"
  BY DEF Side
<1> DEFINE g  == eng["master"]
           g2 == eng'["master"]
           e  == eng["slave"]
           e2 == eng'["slave"]
           d  == delivered["slave"]
           N  == used.offers
<1>3. /\ up' = [up EXCEPT ![s] = FALSE]
      /\ eng' = [eng EXCEPT ![s] = Fresh(eng[s].store)]
      /\ pending' = IF s = "master" THEN [k \in Kind |-> NoOffer] ELSE pending
      /\ net' = [net EXCEPT ![s] = <<>>]
      /\ delivered' = delivered /\ used' = used
  BY DEF SocketError
<1>4. Fewer(net', net) /\ (s = "master" => Acks(net') = {})
  BY <1>1, <1>3, Lost
<1>5. /\ Numbered(pending, net', N) /\ Matched(pending, net')
      /\ Ahead(g, net') /\ Acked(g, net')
      /\ Owned(g, pending)
      /\ up["slave"] => Held(e, d, pending, net') /\ Same(g, e, d)
      /\ ~up["slave"] => Emptied(e)
  BY <1>4, FewerMessages DEF Agree
<1>6. CASE s = "slave"
  <2>1. g2 = g /\ pending' = pending /\ up'["slave"] = FALSE /\ e2 = Fresh(e.store)
    BY <1>1, <1>2, <1>3, <1>6
  <2>2. StoreSound(e.store)
    BY <1>1 DEF SoundEngine
  <2> HIDE DEF e
  <2>3. Emptied(e2)
    BY <2>1, <2>2, FreshEmpty
  <2>4. QED
    BY <1>3, <1>5, <2>1, <2>3 DEF Agree
<1>7. CASE s = "master"
  <2>1. g2 = Fresh(g.store) /\ e2 = e /\ up'["slave"] = up["slave"]
        /\ \A k \in Kind : pending'[k] = NoOffer
    BY <1>1, <1>2, <1>3, <1>7
  <2>2. StoreSound(g.store)
    BY <1>1 DEF SoundEngine
  <2> HIDE DEF g
  <2>3. /\ \A b \in Buffers : g2[b].real = {}
        /\ Same(g2, e, d)
        /\ g2.store = g.store
    BY <2>1, <2>2, FreshEmpty, FreshEngine
  <2>4. \A b \in Buffers : Fainter(g2[b], g[b])
    BY <2>3 DEF Fainter
  <2>5. Ahead(g2, net')
    BY <1>5, <2>4, MasterFainter
  <2>6. Acked(g2, net')
    BY <1>4, <1>7 DEF Acked
  <2>7. Numbered(pending', net', N) /\ Matched(pending', net')
    BY <1>5, <2>1 DEF Numbered, Matched
  <2>8. Owned(g2, pending')
    <3>1. Elems(<<>>) = {} /\ NoOffer.slots = <<>> /\ NoOffer.appSlots = <<>> /\ NoOffer.keys = <<>>
      BY DEF Elems, NoOffer
    <3>2. "load" \in Kind /\ "request" \in Kind
      BY DEF Kind
    <3>3. QED
      BY <2>1, <3>1, <3>2 DEF Owned
  <2>9. Held(e, d, pending', net')
    BY <1>4, <1>7 DEF Held
  <2>10. QED
    BY <1>3, <1>5, <2>1, <2>3, <2>5, <2>6, <2>7, <2>8, <2>9 DEF Agree
<1>8. QED
  BY <1>6, <1>7 DEF Side

(* The buffers and the keys of the store are those from before. *)
LEMMA ReopenAgree ==
    ASSUME IInv, Agree, NEW s \in Side, ReopenStore(s)
    PROVE  Agree'
<1> DEFINE d == Store!Reset(eng[s].store)
           r == [eng[s] EXCEPT !.store = d]
<1>1. eng \in [Side -> Engine] /\ \A t \in Side : SoundEngine(eng[t])
  BY Parted DEF Side
<1>2. "master" \in Side /\ "slave" \in Side
  BY DEF Side
<1>3. eng' = [eng EXCEPT ![s] = r] /\ UNCHANGED <<up, pending, net, delivered, used>>
  BY <1>1 DEF ReopenStore
<1>4. StoreSound(d) /\ d.valid = eng[s].store.valid
  <2>1. StoreSound(eng[s].store) /\ 0 \in Nat
    BY <1>1 DEF SoundEngine
  <2>2. QED
    BY <2>1, StoreAfter
<1> HIDE DEF d
<1>5. r.store = d /\ \A b \in Buffers : r[b] = eng[s][b]
  BY <1>1, <1>4, PutStore
<1> HIDE DEF r
<1>6. /\ \A b \in Buffers : eng'["master"][b] = eng["master"][b]
      /\ \A b \in Buffers : eng'["slave"][b] = eng["slave"][b]
      /\ eng'["master"].store.valid = eng["master"].store.valid
  BY <1>1, <1>2, <1>3, <1>4, <1>5
<1>7. \A b \in Buffers : Milder(eng'["master"][b], eng["master"][b])
  BY <1>6 DEF Milder
<1> DEFINE e  == eng["slave"]
           e2 == eng'["slave"]
<1>8. /\ Emptied(e) => Emptied(e2)
      /\ \A b \in Buffers : \A x, i, p : Has(e, x, b, i, p) => Has(e2, x, b, i, p)
  <2>1. \A b \in Buffers : Mirror(b) \in Buffers /\ e2[b] = e[b]
    BY <1>6 DEF Mirror, Buffers
  <2> HIDE DEF e, e2
  <2>2. QED
    BY <2>1 DEF Emptied, Has
<1>9. /\ \A g, x : Same(g, e, x) => Same(g, e2, x)
      /\ \A x, p, n : Held(e, x, p, n) => Held(e2, x, p, n)
  <2> HIDE DEF e, e2
  <2>1. QED
    BY <1>8, HasKept
<1>10. ListsSlots(pending)
  BY Parted
<1>11. /\ Ahead(eng'["master"], net) /\ Acked(eng'["master"], net) /\ Owned(eng'["master"], pending)
       /\ \A x, y : Same(eng["master"], x, y) => Same(eng'["master"], x, y)
  BY <1>6, <1>7, <1>10, MasterMilder DEF Agree
<1>12. QED
  BY <1>3, <1>8, <1>9, <1>11 DEF Agree

(* Nothing happens, or nothing the agreement is about. *)
LEMMA StutterAgree ==
    ASSUME Agree, UNCHANGED <<eng, up, pending, net, delivered>>, used'.offers = used.offers
    PROVE  Agree'
BY DEF Agree

(* A LOAD-REQ is asked for: it names no offer. *)
LEMMA RunLoadRequestAgree == IInv /\ Agree /\ RunLoadRequest => Agree'
<1> SUFFICES ASSUME IInv, Agree, RunLoadRequest PROVE Agree'
  OBVIOUS
<1>1. /\ net \in [Side -> Seq(Message)] /\ net["master"] \in Seq(Message)
      /\ net["slave"] \in Seq(Message)
  BY Parted
<1>2. UNCHANGED <<eng, up, pending, delivered>> /\ (net' = net \/ net' = Sent(net, "master", LoadReq))
  BY DEF RunLoadRequest
<1>3. used'.offers = used.offers
  <2>1. RestType
    BY DEF IInv
  <2>2. QED
    BY <2>1 DEF RunLoadRequest, RestType
<1>4. CASE net' = net
  BY <1>2, <1>3, <1>4, StutterAgree
<1>5. CASE net' # net
  <2>1. net' = [net EXCEPT !["master"] = Append(@, LoadReq)]
    BY <1>2, <1>5 DEF Sent
  <2>2. net'["master"] = Append(net["master"], LoadReq) /\ net'["slave"] = net["slave"]
    BY <1>1, <2>1 DEF Side
  <2>3. LoadReq \in Message /\ LoadReq.type = "LOAD-REQ"
    <3>1. \A S : <<>> \in Seq(S)
      OBVIOUS
    <3>2. QED
      BY <3>1 DEF LoadReq, Message, Kind
  <2>4. \A x \in Elems(net["master"]) : Before(x, LoadReq)
    BY <2>3 DEF Before
  <2>5. /\ Elems(net'["master"]) = Elems(net["master"]) \cup {LoadReq}
        /\ Ascending(net["master"]) => Ascending(net'["master"])
    BY <1>1, <2>2, <2>3, <2>4, LongerBy
  <2>6. Acks(net') = Acks(net) /\ Loads(net') = Loads(net)
    BY <2>2, <2>3, <2>5 DEF Acks, Loads
  <2>7. Fewer(net', net)
    BY <2>2, <2>5, <2>6 DEF Fewer
  <2>8. QED
    BY <1>2, <1>3, <2>7, FewerMessages DEF Agree
<1>6. QED
  BY <1>4, <1>5

(* r is engine e after the counters of what an offer lists were set to 0.  *)
Freed(r, e, b, o) ==
    /\ \A c \in Buffers : Fainter(r[c], e[c])
    /\ \A c \in Buffers \ {b, "app"} : r[c] = e[c]
    /\ \A i \in Buffer!Id \ Elems(o.appSlots) : r["app"].cnt[i] = e["app"].cnt[i]
    /\ r.store.valid = e.store.valid

(* Nothing in real sync changes, and no counter of another offer's slot. *)
LEMMA ReleaseCounts ==
    ASSUME NEW e, SoundEngine(e), NEW b \in {"in", "out"}, NEW o
    PROVE  Freed(Release(e, b, o), e, b, o)
<1> DEFINE s == Store!SetKeyCount(e.store, Elems(o.keys) \cup Elems(o.appKeys), 0)
           d == Buffer!SetKeyCount(e[b], Elems(o.slots), 0)
           a == Buffer!SetKeyCount(e.app, Elems(o.appSlots), 0)
           r == Release(e, b, o)
<1>1. BufferSound(e[b]) /\ BufferSound(e["app"]) /\ e.app = e["app"] /\ 0 \in Nat
  BY EngineParts DEF SoundEngine, Buffers
<1>2. r = WithAll(e, s, b, d, a)
  BY DEF Release, WithAll
<1>3. d.real = e[b].real /\ d.data = e[b].data
  BY <1>1, BufferCounts, BufferAfter
<1>4. a.real = e["app"].real /\ a.data = e["app"].data
      /\ \A i \in Buffer!Id \ Elems(o.appSlots) : a.cnt[i] = e["app"].cnt[i]
  BY <1>1, BufferCounts, BufferAfter
<1>5. r.store.valid = e.store.valid
  BY ReleaseEffect DEF KeysStay
<1> HIDE DEF s, d, a, r
<1>6. r[b] = d /\ r["app"] = a /\ \A c \in Buffers \ {b, "app"} : r[c] = e[c]
  BY <1>2, PutAllBuffers
<1>7. \A c \in Buffers : Fainter(r[c], e[c])
  BY <1>3, <1>4, <1>6 DEF Fainter
<1>8. QED
  BY <1>4, <1>5, <1>6, <1>7 DEF r, Freed

(* An offer grows old: the messages under way no longer match one. *)
LEMMA TimeoutAgree ==
    ASSUME IInv, Agree, NEW k \in Kind, Timeout(k)
    PROVE  Agree'
<1> DEFINE g == eng["master"]
           b == Target("master", k)
           r == Release(g, b, pending[k])
           p == [pending EXCEPT ![k] = NoOffer]
<1>1. /\ eng \in [Side -> Engine] /\ SoundEngine(g) /\ pending \in [Kind -> Offer]
      /\ ListsSlots(pending) /\ Acks(net) \subseteq Message /\ used.offers \in Nat
  BY Parted
<1>2. "master" \in Side /\ "slave" \in Side /\ "master" # "slave"
  BY DEF Side
<1>3. /\ eng' = [eng EXCEPT !["master"] = r] /\ pending' = p
      /\ UNCHANGED <<up, net, delivered>>
  BY DEF Timeout
<1>4. used'.offers = used.offers
  <2>1. RestType
    BY DEF IInv
  <2>2. QED
    BY <2>1 DEF Timeout, RestType
<1>5. eng'["master"] = r /\ eng'["slave"] = eng["slave"]
  BY <1>1, <1>2, <1>3
<1>6. b \in {"in", "out"} /\ \A h \in Kind \ {k} : Target("master", h) \in Buffers \ {b, "app"}
  BY DEF Target, Kind, Buffers
<1> HIDE DEF g, b
<1>7. /\ \A c \in Buffers : Fainter(r[c], g[c])
      /\ \A c \in Buffers \ {b, "app"} : r[c] = g[c]
      /\ \A i \in Buffer!Id \ Elems(pending[k].appSlots) : r["app"].cnt[i] = g["app"].cnt[i]
      /\ r.store.valid = g.store.valid
  <2>1. Freed(r, g, b, pending[k])
    BY <1>1, <1>6, ReleaseCounts
  <2> HIDE DEF r
  <2>2. QED
    BY <2>1 DEF Freed
<1> HIDE DEF r
<1>8. \A h \in Kind : p[h] = pending[h] \/ p[h] = NoOffer
  BY <1>1
<1>9. /\ Numbered(pending, net, used.offers) /\ Matched(pending, net)
      /\ Ahead(g, net) /\ Acked(g, net) /\ Owned(g, pending)
  BY DEF Agree, g
<1>10. Owned(r, p)
  <2>1. \A h \in Kind \ {k} : \A i \in Buffer!Id :
           r[Target("master", h)].cnt[i] = g[Target("master", h)].cnt[i]
    BY <1>6, <1>7
  <2>2. k \in DOMAIN pending
    BY <1>1
  <2>3. QED
    BY <1>1, <1>7, <1>9, <2>1, <2>2, OfferGivenUp
<1> HIDE DEF p
<1>11. Numbered(p, net, used.offers) /\ Matched(p, net)
       /\ \A e, d : Held(e, d, pending, net) => Held(e, d, p, net)
  BY <1>1, <1>8, <1>9, OffersDropped
<1>12. Ahead(r, net) /\ \A e, d : Same(g, e, d) => Same(r, e, d)
  BY <1>7, <1>9, MasterFainter
<1>13. Acked(r, net)
  BY <1>7, <1>9 DEF Acked
<1>14. QED
  BY <1>3, <1>4, <1>5, <1>10, <1>11, <1>12, <1>13 DEF Agree, g

(* A message queue takes keys of the application buffer that nobody holds. *)
LEMMA ProduceAgree ==
    ASSUME IInv, Agree, NEW s \in Side, Produce(s)
    PROVE  Agree'
<1> DEFINE e     == eng[s]
           found == Buffer!FindValid(e.app, MQKeys, 1)
           S     == Elems(found.ids)
           key   == [j \in DOMAIN found.ids |-> e.app.data[found.ids[j]]]
           gone  == Buffer!Del(found.db, S)
           freed == Buffer!SetKeyCount(found.db, S, 0)
<1>1. /\ eng \in [Side -> Engine] /\ \A t \in Side : SoundEngine(eng[t])
      /\ up["slave"] \in BOOLEAN /\ delivered \in [Side -> Seq(Seq(Piece))]
      /\ ListsSlots(pending)
  BY Parted DEF Side
<1>2. "master" \in Side /\ "slave" \in Side /\ "master" # "slave"
  BY DEF Side
<1>3. /\ \/ /\ eng' = [eng EXCEPT ![s].app = gone]
            /\ delivered' = [delivered EXCEPT ![s] = Append(@, key)]
         \/ /\ eng' = [eng EXCEPT ![s].app = freed]
            /\ delivered' = delivered
      /\ up[s] /\ UNCHANGED <<up, pending, net, used>>
  BY DEF Produce
<1>4. e.app = e["app"] /\ BufferSound(e.app) /\ SoundEngine(e)
  BY <1>1, EngineParts DEF SoundEngine, Buffers
<1>5. /\ BufferSound(found.db) /\ Reserving(found.db, e.app, S)
      /\ found.db.valid = e.app.valid /\ found.db.data = e.app.data
  BY <1>4, MQAssumption, BufferFound, BufferSearched
<1> HIDE DEF found, S, key
<1>6. Milder(gone, e.app) /\ Milder(freed, e.app)
  BY <1>5, SearchMild
<1>7. /\ gone.valid \subseteq e.app.valid /\ \A i \in gone.valid : gone.data[i] = e.app.data[i]
      /\ freed.valid = e.app.valid /\ freed.data = e.app.data
      /\ BufferSound(gone) /\ BufferSound(freed)
  <2>1. 0 \in Nat
    OBVIOUS
  <2>2. /\ gone.valid = found.db.valid \ S
        /\ \A i \in found.db.valid \ S : gone.data[i] = found.db.data[i]
        /\ freed.valid = found.db.valid /\ freed.data = found.db.data
        /\ BufferSound(gone) /\ BufferSound(freed)
    BY <1>5, <2>1, BufferAfter
  <2>3. QED
    BY <1>5, <2>2
<1> HIDE DEF gone, freed
<1>8. PICK w : /\ eng' = [eng EXCEPT ![s].app = w] /\ Milder(w, e.app) /\ BufferSound(w)
               /\ w.valid \subseteq e.app.valid /\ \A i \in w.valid : w.data[i] = e.app.data[i]
               /\ \/ w.valid = e.app.valid /\ delivered' = delivered
                  \/ delivered' = [delivered EXCEPT ![s] = Append(@, key)]
  BY <1>3, <1>6, <1>7
<1> DEFINE r == [e EXCEPT !["app"] = w]
<1>9. eng' = [eng EXCEPT ![s] = r]
  BY <1>8
<1> HIDE DEF e
<1>10. r.store = e.store /\ r["app"] = w /\ \A c \in Buffers \ {"app"} : r[c] = e[c]
  <2>1. "app" \in Buffers
    BY DEF Buffers
  <2>2. SoundEngine(e) /\ BufferSound(w)
    BY <1>4, <1>8
  <2>3. SoundEngine(r) /\ r.store = e.store /\ r["app"] = w
        /\ \A c \in Buffers \ {"app"} : r[c] = e[c]
    BY ONLY <2>1, <2>2, PutBuffer
  <2>4. QED
    BY <2>3
<1> HIDE DEF r
<1>11. eng'[s] = r /\ \A t \in Side \ {s} : eng'[t] = eng[t]
  BY <1>1, <1>9
<1>12. CASE s = "master"
  <2>1. eng'["master"] = r /\ eng'["slave"] = eng["slave"] /\ e = eng["master"]
        /\ delivered'["slave"] = delivered["slave"]
    BY <1>1, <1>2, <1>8, <1>11, <1>12 DEF e
  <2>2. \A b \in Buffers : Milder(r[b], e[b])
    <3>1. \A x : Milder(x, x)
      BY DEF Milder
    <3>2. QED
      BY <1>4, <1>8, <1>10, <3>1
  <2>3. Ahead(e, net) /\ Acked(e, net) /\ Owned(e, pending)
    BY <2>1 DEF Agree
  <2>4. /\ Ahead(r, net) /\ Acked(r, net) /\ Owned(r, pending)
        /\ \A x, y : Same(e, x, y) => Same(r, x, y)
    BY <1>1, <1>10, <2>2, <2>3, MasterMilder
  <2>5. QED
    BY <1>3, <2>1, <2>4 DEF Agree
<1>13. CASE s = "slave"
  <2>1. eng'["slave"] = r /\ eng'["master"] = eng["master"] /\ e = eng["slave"] /\ up["slave"]
    BY <1>2, <1>3, <1>11, <1>13 DEF e
  <2> DEFINE d  == delivered["slave"]
             d2 == delivered'["slave"]
  <2>2. (d2 = d /\ w.valid = e.app.valid) \/ d2 # <<>>
    <3>1. CASE w.valid = e.app.valid /\ delivered' = delivered
      BY <3>1
    <3>2. CASE delivered' = [delivered EXCEPT ![s] = Append(@, key)]
      <4>1. d2 = Append(d, key) /\ d \in Seq(Seq(Piece))
        BY <1>1, <1>2, <1>13, <3>2
      <4>2. d2 # <<>>
        BY <4>1
      <4>3. QED
        BY <4>2
    <3>3. QED
      BY <1>8, <3>1, <3>2
  <2> HIDE DEF d, d2
  <2>3. \A b \in Buffers : \A i, p : Has(e, d, b, i, p) => Has(r, d2, b, i, p)
    <3>1. \A b \in Buffers : Mirror(b) \in Buffers /\ (Mirror(b) = "app" <=> b = "app")
      BY DEF Mirror, Buffers
    <3>2. \A b \in Buffers \ {"app"} : r[Mirror(b)] = e[Mirror(b)]
      BY <1>10, <3>1
    <3>3. ASSUME NEW b \in Buffers, b # "app", NEW i, NEW p, Has(e, d, b, i, p)
          PROVE  Has(r, d2, b, i, p)
      BY <3>2, <3>3 DEF Has
    <3>4. ASSUME NEW i, NEW p, Has(e, d, "app", i, p)
          PROVE  Has(r, d2, "app", i, p)
      <4>1. Mirror("app") = "app"
        BY DEF Mirror
      <4>2. IF i \in e["app"].valid THEN e["app"].data[i] = p ELSE d # <<>>
        BY <3>4, <4>1 DEF Has
      <4>3. IF i \in w.valid THEN w.data[i] = p ELSE d2 # <<>>
        BY <1>4, <1>8, <2>2, <4>2
      <4>4. QED
        BY <1>10, <4>1, <4>3 DEF Has
    <3>5. QED
      BY <3>3, <3>4
  <2>4. /\ Same(eng["master"], e, d) => Same(eng["master"], r, d2)
        /\ Held(e, d, pending, net) => Held(r, d2, pending, net)
    BY <2>3, HasKept
  <2>5. QED
    BY <1>3, <2>1, <2>4 DEF Agree, d, d2
<1>14. QED
  BY <1>12, <1>13 DEF Side

(* p2 and n2 are the offers and messages once offer o of kind k is made:   *)
(* its number is the next, and it is sent unless the slave is down.        *)
Made(p2, n2, p, n, k, o, N) ==
    /\ o.id = N + 1
    /\ p2[k] = o /\ \A h \in Kind \ {k} : p2[h] = p[h]
    /\ Loads(n2) \subseteq Loads(n) \cup {Offered(k, o)} /\ Acks(n2) = Acks(n)
    /\ Ascending(n2["master"]) /\ Ascending(n2["slave"])

(* Sending an offer keeps the order of the numbers. *)
LEMMA OfferSent ==
    ASSUME NEW n \in [Side -> Seq(Message)], NEW p \in [Kind -> Offer], NEW k \in Kind,
           NEW o \in Offer, NEW N \in Nat, Numbered(p, n, N), o.id = N + 1
    PROVE  Made([p EXCEPT ![k] = o], Sent(n, "slave", Offered(k, o)), p, n, k, o, N)
<1> DEFINE m == Offered(k, o)
           n2 == Sent(n, "slave", m)
<1>1. n["master"] \in Seq(Message) /\ n["slave"] \in Seq(Message)
  BY DEF Side
<1>2. m \in Message /\ m.type = "LOAD" /\ m.id = N + 1
  BY DEF Offered, Message, Offer
<1>3. /\ \A x \in Loads(n) : x.type = "LOAD" /\ x.id \in 1 .. N
      /\ Ascending(n["master"]) /\ Ascending(n["slave"])
  BY DEF Numbered
<1> HIDE DEF m
<1>4. CASE ~up["slave"]
  <2>1. n2 = n
    BY <1>4 DEF Sent
  <2> HIDE DEF n2
  <2>2. QED
    BY <1>3, <2>1 DEF Made, n2, m
<1>5. CASE up["slave"]
  <2>1. n2 = [n EXCEPT !["slave"] = Append(@, m)]
    BY <1>5 DEF Sent
  <2>2. n2["slave"] = Append(n["slave"], m) /\ n2["master"] = n["master"]
    BY <2>1 DEF Side
  <2>3. \A x \in Elems(n["slave"]) : Before(x, m)
    BY <1>2, <1>3 DEF Before, Loads
  <2>4. Elems(n2["slave"]) = Elems(n["slave"]) \cup {m} /\ Ascending(n2["slave"])
    BY <1>1, <1>2, <1>3, <2>2, <2>3, LongerBy
  <2> HIDE DEF n2
  <2>5. Loads(n2) = Loads(n) \cup {m} /\ Acks(n2) = Acks(n)
    BY <2>2, <2>4 DEF Loads, Acks
  <2>6. QED
    BY <1>3, <2>2, <2>4, <2>5 DEF Made, n2, m
<1>6. QED
  BY <1>4, <1>5

(* The new offer is the youngest. *)
LEMMA MadeNumbered ==
    ASSUME NEW p, NEW p2, NEW n, NEW n2, NEW k \in Kind, NEW o, NEW N \in Nat,
           Numbered(p, n, N), Made(p2, n2, p, n, k, o, N)
    PROVE  Numbered(p2, n2, N + 1)
<1> DEFINE L == Loads(n)
           A == Acks(n)
           L2 == Loads(n2)
           m == Offered(k, o)
<1>1. m.type = "LOAD" /\ m.id = N + 1
  BY DEF Offered, Made
<1>2. L2 \subseteq L \cup {m} /\ Acks(n2) = A
  BY DEF Made
<1>3. /\ \A x \in L : x.type = "LOAD" /\ x.id \in 1 .. N
      /\ \A a \in A : a.id \in 1 .. N /\ \A x \in L : a.id < x.id
  BY DEF Numbered
<1> HIDE DEF L, A, L2, m
<1>4. /\ \A x \in L2 : x.type = "LOAD" /\ x.id \in 1 .. N + 1
      /\ \A a \in A : a.id \in 1 .. N + 1 /\ \A x \in L2 : a.id < x.id
  BY <1>1, <1>2, <1>3
<1>5. \A h \in Kind : p2[h] = NoOffer \/ p2[h].id \in 1 .. N + 1
  <2>1. \A h \in Kind : p[h] = NoOffer \/ p[h].id \in 1 .. N
    BY DEF Numbered
  <2>2. /\ o.id = N + 1
        /\ p2[k] = o /\ \A h \in Kind \ {k} : p2[h] = p[h]
    BY DEF Made
  <2>3. QED
    BY <2>1, <2>2
<1>6. Ascending(n2["master"]) /\ Ascending(n2["slave"])
  BY DEF Made
<1>7. QED
  BY <1>2, <1>4, <1>5, <1>6 DEF Numbered, L2

(* It is its own LOAD's, and shares no application slot with the other's.  *)
LEMMA MadeMatched ==
    ASSUME NEW p, NEW p2, NEW n, NEW n2, NEW k \in Kind, NEW o, NEW N \in Nat,
           Numbered(p, n, N), Made(p2, n2, p, n, k, o, N), Matched(p, n),
           \A h \in Kind \ {k} : Elems(o.appSlots) \cap Elems(p[h].appSlots) = {}
    PROVE  Matched(p2, n2)
<1> DEFINE L == Loads(n)
           L2 == Loads(n2)
           m == Offered(k, o)
<1>1. /\ m.id = N + 1 /\ m.kind = k /\ m.slots = o.slots /\ m.appSlots = o.appSlots
      /\ o.id = N + 1
  BY DEF Offered, Made
<1>2. /\ L2 \subseteq L \cup {m}
      /\ p2[k] = o /\ \A h \in Kind \ {k} : p2[h] = p[h]
  BY DEF Made
<1>3. /\ \A x \in L : x.id \in 1 .. N
      /\ \A h \in Kind : p[h] = NoOffer \/ p[h].id \in 1 .. N
  BY DEF Numbered
<1>4. \A h \in Kind : \A x \in L : p[h] # NoOffer =>
        /\ x.id = p[h].id => x.kind = h /\ x.slots = p[h].slots /\ x.appSlots = p[h].appSlots
        /\ x.id > p[h].id => x.kind # h /\ Elems(x.appSlots) \cap Elems(p[h].appSlots) = {}
  BY DEF Matched
<1> HIDE DEF L, L2, m
<1>5. ASSUME NEW h \in Kind, NEW x \in L2, p2[h] # NoOffer
      PROVE  /\ x.id = p2[h].id =>
                  x.kind = h /\ x.slots = p2[h].slots /\ x.appSlots = p2[h].appSlots
             /\ x.id > p2[h].id =>
                  x.kind # h /\ Elems(x.appSlots) \cap Elems(p2[h].appSlots) = {}
  <2>1. CASE h = k /\ x = m
    BY <1>1, <1>2, <2>1
  <2>2. CASE h = k /\ x \in L
    <3>1. x.id \in 1 .. N /\ p2[h].id = N + 1
      BY <1>1, <1>2, <1>3, <2>2
    <3>2. x.id # p2[h].id /\ ~(x.id > p2[h].id)
      BY <3>1
    <3>3. QED
      BY <3>2
  <2>3. CASE h # k /\ x = m
    <3>1. p2[h] = p[h]
      BY <1>2, <2>3
    <3>2. p2[h].id \in 1 .. N
      BY <1>3, <1>5, <3>1
    <3>3. x.id # p2[h].id
      BY <1>1, <2>3, <3>2
    <3>4. QED
      BY <1>1, <2>3, <3>1, <3>3
  <2>4. CASE h # k /\ x \in L
    <3>1. p2[h] = p[h]
      BY <1>2, <2>4
    <3>2. QED
      BY <1>4, <1>5, <2>4, <3>1
  <2>5. QED
    BY <1>2, <2>1, <2>2, <2>3, <2>4
<1>6. QED
  BY <1>5 DEF Matched, L2

(* No LOAD-ACK speaks of it yet. *)
LEMMA MadeHeld ==
    ASSUME NEW p, NEW p2, NEW n, NEW n2, NEW k \in Kind, NEW o, NEW N \in Nat,
           Acks(n) \subseteq Message,
           Numbered(p, n, N), Made(p2, n2, p, n, k, o, N), NEW e, NEW d, Held(e, d, p, n)
    PROVE  Held(e, d, p2, n2)
<1> DEFINE A == Acks(n)
<1>1. Acks(n2) = A /\ o.id = N + 1 /\ p2[k] = o /\ \A h \in Kind \ {k} : p2[h] = p[h]
  BY DEF Made
<1>2. \A a \in A : a.id \in 1 .. N /\ a.kind \in Kind
  BY DEF Numbered, Message
<1>3. \A a \in A : a.id = p[a.kind].id =>
        /\ HasParts(e, d, Target("master", a.kind), a.keys, p[a.kind].slots)
        /\ HasParts(e, d, "app", a.appKeys, p[a.kind].appSlots)
  BY DEF Held
<1> HIDE DEF A
<1>4. \A a \in A : a.id = p2[a.kind].id => p2[a.kind] = p[a.kind]
  <2>1. ASSUME NEW a \in A, a.id = p2[a.kind].id PROVE a.kind # k
    <3>1. a.id # N + 1
      BY <1>2
    <3>2. QED
      BY <1>1, <2>1, <3>1
  <2>2. QED
    BY <1>1, <1>2, <2>1
<1>5. \A a \in A : a.id = p2[a.kind].id =>
        /\ HasParts(e, d, Target("master", a.kind), a.keys, p2[a.kind].slots)
        /\ HasParts(e, d, "app", a.appKeys, p2[a.kind].appSlots)
  BY ONLY <1>3, <1>4
<1>6. QED
  BY <1>1, <1>5 DEF Held

(* g2 is the master's engine g after an offer o of kind k was made, whose  *)
(* slots were free, held by nobody, and are now reserved.                  *)
Lists(g2, g, k, o) ==
    /\ \A b \in Buffers : Milder(g2[b], g[b])
    /\ \A i \in Elems(o.slots) :
          i \notin g[Target("master", k)].real /\ g2[Target("master", k)].cnt[i] # 0
    /\ \A i \in Elems(o.appSlots) :
          i \notin g["app"].real /\ g["app"].cnt[i] = 0 /\ g2["app"].cnt[i] # 0
    /\ Elems(o.keys) \cap Elems(o.appKeys) = {}

(* It shares no application slot with the other offer, so both own theirs. *)
LEMMA MadeOwned ==
    ASSUME NEW p, NEW p2, NEW n, NEW n2, NEW k \in Kind, NEW o, NEW N,
           Made(p2, n2, p, n, k, o, N), NEW g, NEW g2, Lists(g2, g, k, o),
           Owned(g, p), Owned(g2, p)
    PROVE  /\ \A h \in Kind \ {k} : Elems(o.appSlots) \cap Elems(p[h].appSlots) = {}
           /\ Owned(g2, p2)
<1>1. p2[k] = o /\ \A h \in Kind \ {k} : p2[h] = p[h]
  BY DEF Made
<1>2. Kind = {"load", "request"}
  BY DEF Kind
<1>3. ASSUME NEW h \in Kind \ {k} PROVE Elems(o.appSlots) \cap Elems(p[h].appSlots) = {}
  <2> DEFINE A == Elems(o.appSlots)
             B == Elems(p[h].appSlots)
  <2>1. \A i \in A : g["app"].cnt[i] = 0
    BY DEF Lists
  <2>2. \A i \in B : g["app"].cnt[i] # 0
    BY DEF Owned
  <2> HIDE DEF A, B
  <2>3. A \cap B = {}
    BY <2>1, <2>2
  <2>4. QED
    BY <2>3 DEF A, B
<1>4. ASSUME NEW h \in Kind
      PROVE  /\ \A i \in Elems(p2[h].slots) : g2[Target("master", h)].cnt[i] # 0
             /\ \A i \in Elems(p2[h].appSlots) : g2["app"].cnt[i] # 0
             /\ Elems(p2[h].keys) \cap Elems(p2[h].appKeys) = {}
  <2>1. CASE h = k
    BY <1>1, <2>1 DEF Lists
  <2>2. CASE h # k
    <3>1. p2[h] = p[h]
      BY <1>1, <2>2
    <3>2. QED
      BY <3>1 DEF Owned
  <2>3. QED
    BY <2>1, <2>2
<1>5. Elems(p2["load"].appSlots) \cap Elems(p2["request"].appSlots) = {}
  <2>1. CASE k = "load"
    <3>1. p2["load"] = o /\ p2["request"] = p["request"] /\ "request" \in Kind \ {k}
      BY <1>1, <1>2, <2>1
    <3>2. QED
      BY <1>3, <3>1
  <2>2. CASE k = "request"
    <3>1. p2["request"] = o /\ p2["load"] = p["load"] /\ "load" \in Kind \ {k}
      BY <1>1, <1>2, <2>2
    <3>2. QED
      BY <1>3, <3>1
  <2>3. QED
    BY <1>2, <2>1, <2>2
<1>6. QED
  BY <1>3, <1>4, <1>5 DEF Owned

(* The master has nothing in real sync where the slave will put the keys. *)
LEMMA MadeAhead ==
    ASSUME NEW p, NEW p2, NEW n, NEW n2, NEW k \in Kind, NEW o, NEW N,
           Made(p2, n2, p, n, k, o, N), NEW g, NEW g2, Lists(g2, g, k, o),
           Ahead(g2, n)
    PROVE  Ahead(g2, n2)
<1> DEFINE m == Offered(k, o)
<1>1. m.slots = o.slots /\ m.appSlots = o.appSlots /\ m.kind = k
  BY DEF Offered
<1>2. Loads(n2) \subseteq Loads(n) \cup {m}
  BY DEF Made
<1>3. Target("master", k) \in Buffers /\ "app" \in Buffers
  BY DEF Target, Buffers
<1>4. \A b \in Buffers : g2[b].real \subseteq g[b].real
  BY DEF Lists, Milder
<1>5. /\ Elems(o.slots) \cap g2[Target("master", k)].real = {}
      /\ Elems(o.appSlots) \cap g2["app"].real = {}
  BY <1>3, <1>4 DEF Lists
<1> HIDE DEF m
<1>6. QED
  BY <1>1, <1>2, <1>5 DEF Ahead

(* What is offered keeps the sides in agreement. *)
LEMMA MakeOfferAgree ==
    ASSUME IInv, Agree, NEW k \in Kind, pending[k] = NoOffer,
           NEW n \in [Side -> Seq(Message)], Fewer(n, net),
           NEW fails \in BOOLEAN, MakeOffer(k, n, fails)
    PROVE  Agree'
<1> DEFINE e     == eng["master"]
           wants == IF k = "load" THEN LoadWants(e) ELSE RequestWants(e)
           nBuf  == Granted(e, wants.buf)
           nApp  == Granted(e, wants.app)
           r     == Reserve(e, k, nBuf, nApp)
           buf   == Target("master", k)
           o     == r.offer
           empty == o.keys = <<>> /\ o.appKeys = <<>>
           short == Len(o.keys) < MinKeys
           c     == CopyBuffer(r.eng, "in", o.keys, o.slots)
           d     == CopyBuffer(c, "app", o.appKeys, o.appSlots)
           N     == used.offers
<1>1. /\ eng \in [Side -> Engine] /\ SoundEngine(e) /\ pending \in [Kind -> Offer]
      /\ ListsSlots(pending) /\ Acks(net) \subseteq Message /\ N \in Nat
  BY Parted
<1>2. "master" \in Side /\ "slave" \in Side /\ "master" # "slave"
  BY DEF Side
<1>3. nBuf \in Nat /\ nApp \in Nat
  <2>1. wants.buf \in Nat /\ wants.app \in Nat
    BY <1>1, WantsType
  <2> HIDE DEF wants
  <2>2. QED
    BY <1>1, <2>1, GrantedType
<1>4. /\ used' = [used EXCEPT !.fails = @ + CountFail(fails),
                              !.offers = IF empty \/ short \/ fails THEN @ ELSE @ + 1]
      /\ IF empty
         THEN eng' = [eng EXCEPT !["master"] = r.eng] /\ net' = n /\ UNCHANGED pending
         ELSE IF short \/ fails
         THEN /\ eng' = [eng EXCEPT !["master"] = Release(r.eng, buf, o)]
              /\ net' = n /\ UNCHANGED pending
         ELSE /\ eng' = [eng EXCEPT !["master"] = IF k = "load" THEN d ELSE r.eng]
              /\ net' = Sent(n, "slave", Offered(k, o))
              /\ pending' = [pending EXCEPT ![k] = o]
      /\ UNCHANGED <<up, asked, delivered>>
  BY DEF MakeOffer
<1>5. used'.offers = IF empty \/ short \/ fails THEN N ELSE N + 1
  <2>1. RestType
    BY DEF IInv
  <2> DEFINE x == empty \/ short \/ fails
  <2> HIDE DEF empty, short
  <2>2. QED
    BY <1>4, <2>1 DEF RestType
<1> HIDE DEF nBuf, nApp
<1>6. SoundEngine(r.eng) /\ KeysStay(r.eng, e) /\ o \in Offer /\ ListsOnce(o)
  <2> HIDE DEF e
  <2>1. QED
    BY <1>1, <1>3, ReserveEffect
<1>7. NewOffer(r, e, k)
  <2> HIDE DEF e
  <2>1. QED
    BY <1>1, <1>3, ReserveMild
<1> HIDE DEF r
<1>8. buf \in {"in", "out"} /\ buf \in Buffers /\ "in" \in Buffers /\ "app" \in Buffers
  BY DEF Target, Buffers
<1>9. /\ o.id = N + 1
      /\ \A b \in Buffers : Milder(r.eng[b], e[b]) /\ Milder(Release(r.eng, buf, o)[b], e[b])
      /\ \A i \in Elems(o.slots) : e[buf].cnt[i] = 0 /\ i \notin e[buf].valid /\ r.eng[buf].cnt[i] # 0
      /\ \A i \in Elems(o.appSlots) :
            e["app"].cnt[i] = 0 /\ i \notin e["app"].valid /\ r.eng["app"].cnt[i] # 0
  BY <1>7 DEF NewOffer
<1> HIDE DEF o
<1>10. /\ o.keys \in Seq(Store!Id) /\ o.appKeys \in Seq(Store!Id)
       /\ o.slots \in Seq(Buffer!Id) /\ o.appSlots \in Seq(Buffer!Id)
  BY <1>6 DEF Offer
<1>11. SoundEngine(c) /\ KeysStay(c, r.eng) /\ \A b \in Buffers : Milder(c[b], r.eng[b])
  BY <1>6, <1>8, <1>10, CopyEffect, CopyMild
<1> HIDE DEF c
<1>12. KeysStay(d, c) /\ \A b \in Buffers : Milder(d[b], c[b])
  BY <1>8, <1>10, <1>11, CopyEffect, CopyMild
<1> HIDE DEF d
<1>13. \A b \in Buffers : Milder(d[b], r.eng[b])
  BY <1>11, <1>12, MilderTwice
<1>14. /\ Numbered(pending, n, N) /\ Matched(pending, n)
       /\ Ahead(e, n) /\ Acked(e, n) /\ Owned(e, pending)
       /\ \A x, y, z : Held(x, y, z, net) => Held(x, y, z, n)
  BY FewerMessages DEF Agree
<1> DEFINE f == Release(r.eng, buf, o)
<1>15. f.store.valid = r.eng.store.valid
  BY <1>6, <1>8, ReleaseEffect DEF KeysStay
<1> HIDE DEF f, buf
<1>16. CASE empty \/ short \/ fails
  <2>1. PICK g2 : /\ eng' = [eng EXCEPT !["master"] = g2]
                  /\ \A b \in Buffers : Milder(g2[b], e[b])
                  /\ g2.store.valid = e.store.valid
    BY <1>4, <1>6, <1>9, <1>15, <1>16 DEF KeysStay, f
  <2>2. net' = n /\ pending' = pending /\ used'.offers = N /\ up' = up /\ delivered' = delivered
    BY <1>4, <1>5, <1>16
  <2>3. eng'["master"] = g2 /\ eng'["slave"] = eng["slave"]
    BY <1>1, <1>2, <2>1
  <2> HIDE DEF e
  <2>4. /\ Ahead(g2, n) /\ Acked(g2, n) /\ Owned(g2, pending)
        /\ \A x, y : Same(e, x, y) => Same(g2, x, y)
    BY <1>1, <1>14, <2>1, MasterMilder
  <2>5. QED
    BY <1>14, <2>2, <2>3, <2>4 DEF Agree, e
<1>17. CASE ~(empty \/ short \/ fails)
  <2> DEFINE g2 == IF k = "load" THEN d ELSE r.eng
             p2 == [pending EXCEPT ![k] = o]
             n2 == Sent(n, "slave", Offered(k, o))
  <2>1. /\ eng' = [eng EXCEPT !["master"] = g2] /\ net' = n2 /\ pending' = p2
        /\ used'.offers = N + 1 /\ up' = up /\ delivered' = delivered
    BY <1>4, <1>5, <1>17
  <2>2. eng'["master"] = g2 /\ eng'["slave"] = eng["slave"]
    BY <1>1, <1>2, <2>1
  <2>3. \A b \in Buffers : Milder(g2[b], r.eng[b])
    <3>1. \A x : Milder(x, x)
      BY DEF Milder
    <3>2. QED
      BY <1>13, <3>1
  <2>4. g2.store.valid = e.store.valid
    BY <1>6, <1>11, <1>12 DEF KeysStay
  <2> HIDE DEF g2, p2, n2, e
  <2>5. \A b \in Buffers : Milder(g2[b], e[b])
    BY <1>9, <2>3, MilderTwice
  <2>6. Lists(g2, e, k, o)
    <3>1. \A b \in Buffers : e[b].real \subseteq e[b].valid
      BY <1>1, BufferSync DEF SoundEngine
    <3>2. Elems(o.slots) \subseteq Buffer!Id /\ Elems(o.appSlots) \subseteq Buffer!Id
      BY <1>10 DEF Elems
    <3>3. \A b \in Buffers : \A i \in Buffer!Id : r.eng[b].cnt[i] # 0 => g2[b].cnt[i] # 0
      BY <2>3 DEF Milder
    <3>4. \A i \in Elems(o.slots) : i \notin e[buf].real /\ g2[buf].cnt[i] # 0
      BY <1>8, <1>9, <3>1, <3>2, <3>3
    <3>5. \A i \in Elems(o.appSlots) :
            i \notin e["app"].real /\ e["app"].cnt[i] = 0 /\ g2["app"].cnt[i] # 0
      BY <1>8, <1>9, <3>1, <3>2, <3>3
    <3>6. Elems(o.keys) \cap Elems(o.appKeys) = {}
      BY <1>6 DEF ListsOnce
    <3>7. QED
      BY <2>5, <3>4, <3>5, <3>6 DEF Lists, buf
  <2>7. Made(p2, n2, pending, n, k, o, N)
    BY <1>1, <1>6, <1>9, <1>14, OfferSent DEF p2, n2
  <2>8. /\ Ahead(g2, n) /\ Acked(g2, n) /\ Owned(g2, pending)
        /\ \A x, y : Same(e, x, y) => Same(g2, x, y)
    BY <1>1, <1>14, <2>4, <2>5, MasterMilder
  <2>9. /\ Owned(g2, p2)
        /\ \A h \in Kind \ {k} : Elems(o.appSlots) \cap Elems(pending[h].appSlots) = {}
    BY <1>14, <2>6, <2>7, <2>8, MadeOwned
  <2>10. Numbered(p2, n2, N + 1)
    BY <1>1, <1>14, <2>7, MadeNumbered
  <2>11. Matched(p2, n2)
    BY <1>1, <1>14, <2>7, <2>9, MadeMatched
  <2>12. Ahead(g2, n2)
    BY <2>6, <2>7, <2>8, MadeAhead
  <2>13. Acked(g2, n2)
    BY <2>7, <2>8 DEF Acked, Made
  <2>14. \A x, y : Held(x, y, pending, n) => Held(x, y, p2, n2)
    <3>1. Acks(n) \subseteq Message
      BY <1>1 DEF Fewer
    <3>2. QED
      BY <1>1, <1>14, <2>7, <3>1, MadeHeld
  <2>15. QED
    BY <1>14, <2>1, <2>2, <2>8, <2>9, <2>10, <2>11, <2>12, <2>13, <2>14 DEF Agree, e
<1>18. QED
  BY <1>16, <1>17

(* The master offers on its own account. *)
LEMMA RunLoadAgree == IInv /\ Agree /\ RunLoad => Agree'
<1> SUFFICES ASSUME IInv, Agree, RunLoad PROVE Agree'
  OBVIOUS
<1>1. PICK fails \in BOOLEAN : MakeOffer("load", net, fails)
  BY DEF RunLoad
<1>2. "load" \in Kind /\ pending["load"] = NoOffer /\ net \in [Side -> Seq(Message)]
  BY Parted DEF Kind, RunLoad
<1>3. Fewer(net, net)
  BY DEF Fewer
<1>4. QED
  BY <1>1, <1>2, <1>3, MakeOfferAgree

(* The master offers because the slave asked. *)
LEMMA RecvLoadReqAgree == IInv /\ Agree /\ RecvLoadReq => Agree'
<1> SUFFICES ASSUME IInv, Agree, RecvLoadReq PROVE Agree'
  OBVIOUS
<1>1. net["master"] # <<>> /\ "master" \in Side /\ net \in [Side -> Seq(Message)]
  BY Parted DEF RecvLoadReq, Receives, Side
<1>2. Fewer(Rest("master"), net) /\ Rest("master") \in [Side -> Seq(Message)]
  BY <1>1, Received
<1>3. CASE pending["request"] # NoOffer
  <2>1. net' = Rest("master") /\ UNCHANGED <<eng, up, pending, delivered, used>>
    BY <1>3 DEF RecvLoadReq
  <2>2. QED
    BY <1>2, <2>1, FewerMessages DEF Agree
<1>4. CASE pending["request"] = NoOffer
  <2>1. PICK fails \in BOOLEAN : MakeOffer("request", Rest("master"), fails)
    BY <1>4 DEF RecvLoadReq
  <2>2. "request" \in Kind
    BY DEF Kind
  <2>3. QED
    BY <1>2, <1>4, <2>1, <2>2, MakeOfferAgree
<1>5. QED
  BY <1>3, <1>4

(* r is buffer d after moved keys were written into the first of the slots *)
(* named.                                                                  *)
Wrote(r, d, moved, slots) ==
    LET S == SlotsFor(moved, slots)
    IN  /\ Ratio * Len(moved) <= Len(slots) /\ S \subseteq Elems(slots)
        /\ r.valid = d.valid \cup S
        /\ \A i \in r.valid : r.data[i] = IF i \in S THEN Parts(moved, slots)[i] ELSE d.data[i]
        /\ r.real = d.real \cup S
        /\ \A i \in Buffer!Id \ Elems(slots) : r.cnt[i] = d.cnt[i]

(* r is engine e after both parts of an offer were moved: x of its keys to *)
(* buffer b and y of the others to the application buffer.                 *)
BothMoved(r, e, b, x, y, o, p) ==
    /\ SoundEngine(r)
    /\ Wrote(r[b], e[b], x, p.slots) /\ Wrote(r["app"], e["app"], y, p.appSlots)
    /\ \A c \in Buffers \ {b, "app"} : r[c] = e[c]
    /\ x \in Seq(Store!Id) /\ y \in Seq(Store!Id)
    /\ Elems(x) \subseteq Elems(o.keys) \cap e.store.valid
    /\ Elems(y) \subseteq Elems(o.appKeys) \cap e.store.valid
    /\ Elems(x) \cap Elems(y) = {}
    /\ r.store.valid = e.store.valid \ (Elems(x) \cup Elems(y))

(* All the keys named move, if the store has them and there are slots.     *)
AllMoved(e, x, y, o, p) ==
    /\ AckKeys(o) \subseteq e.store.valid /\ Elems(o.keys) \cap Elems(o.appKeys) = {}
    /\ Ratio * Len(o.keys) <= Len(p.slots) /\ Ratio * Len(o.appKeys) <= Len(p.appSlots)
    => x = o.keys /\ y = o.appKeys

(* Moving keys to one buffer writes them there. *)
LEMMA MoveWrites ==
    ASSUME NEW e, SoundEngine(e), OwnNumbers(e.store), NEW b \in Buffers,
           NEW keys \in Seq(Store!Id), NEW slots \in Seq(Buffer!Id)
    PROVE  LET r == MoveBuffer(e, b, keys, slots)
           IN  /\ Wrote(r.eng[b], e[b], r.moved, slots)
               /\ \A c \in Buffers \ {b} : r.eng[c] = e[c]
               /\ Elems(keys) \subseteq e.store.valid /\ Ratio * Len(keys) <= Len(slots)
                     => r.moved = keys
<1> DEFINE r == MoveBuffer(e, b, keys, slots)
<1>1. Fills(r, e, b, keys, slots)
  BY MoveFills
<1> HIDE DEF r
<1> DEFINE f == Parts(r.moved, slots)
<1>2. DOMAIN f = SlotsFor(r.moved, slots)
  BY DEF Parts
<1>3. Wrote(r.eng[b], e[b], r.moved, slots)
  <2>1. /\ Ratio * Len(r.moved) <= Len(slots)
        /\ DOMAIN f \subseteq Elems(slots)
        /\ r.eng[b].valid = e[b].valid \cup DOMAIN f
        /\ \A i \in r.eng[b].valid :
              r.eng[b].data[i] = IF i \in DOMAIN f THEN f[i] ELSE e[b].data[i]
        /\ r.eng[b].real = e[b].real \cup DOMAIN f
        /\ \A i \in Buffer!Id \ DOMAIN f : r.eng[b].cnt[i] = e[b].cnt[i]
    BY <1>1 DEF Fills
  <2> HIDE DEF f
  <2>2. \A i \in Buffer!Id \ Elems(slots) : r.eng[b].cnt[i] = e[b].cnt[i]
    BY <2>1
  <2>3. QED
    BY <1>2, <2>1, <2>2 DEF Wrote, f
<1>4. /\ \A c \in Buffers \ {b} : r.eng[c] = e[c]
      /\ Elems(keys) \subseteq e.store.valid /\ Ratio * Len(keys) <= Len(slots)
            => r.moved = keys
  BY <1>1 DEF Fills
<1>5. QED
  BY <1>3, <1>4 DEF r

(* Moving both parts of an offer, or of a LOAD-ACK o to offer p. *)
LEMMA MoveTwice ==
    ASSUME NEW e, SoundEngine(e), OwnNumbers(e.store), NEW b \in {"in", "out"},
           NEW o, o.keys \in Seq(Store!Id), o.appKeys \in Seq(Store!Id),
           NEW p, p.slots \in Seq(Buffer!Id), p.appSlots \in Seq(Buffer!Id)
    PROVE  LET buf == MoveBuffer(e, b, o.keys, p.slots)
               app == MoveBuffer(buf.eng, "app", o.appKeys, p.appSlots)
           IN  /\ BothMoved(app.eng, e, b, buf.moved, app.moved, o, p)
               /\ AllMoved(e, buf.moved, app.moved, o, p)
<1> DEFINE keys == o.keys
           slots == p.slots
           aKeys == o.appKeys
           aSlots == p.appSlots
           buf == MoveBuffer(e, b, keys, slots)
           app == MoveBuffer(buf.eng, "app", aKeys, aSlots)
<1>1. keys \in Seq(Store!Id) /\ aKeys \in Seq(Store!Id)
      /\ slots \in Seq(Buffer!Id) /\ aSlots \in Seq(Buffer!Id)
  OBVIOUS
<1> HIDE DEF keys, slots, aKeys, aSlots
<1>2. b \in Buffers /\ "app" \in Buffers /\ b # "app"
  BY DEF Buffers
<1>3. MovesRight(buf, e, b, keys)
  BY <1>1, <1>2, MoveEffect
<1>4. /\ Wrote(buf.eng[b], e[b], buf.moved, slots)
      /\ \A c \in Buffers \ {b} : buf.eng[c] = e[c]
      /\ Elems(keys) \subseteq e.store.valid /\ Ratio * Len(keys) <= Len(slots)
            => buf.moved = keys
  BY <1>1, <1>2, MoveWrites
<1> HIDE DEF buf
<1>5. /\ SoundEngine(buf.eng) /\ OwnNumbers(buf.eng.store) /\ buf.moved \in Seq(Store!Id)
      /\ Elems(buf.moved) \subseteq Elems(keys) \cap e.store.valid
      /\ buf.eng.store.valid = e.store.valid \ Elems(buf.moved)
  BY <1>3 DEF MovesRight, OwnNumbers
<1>6. MovesRight(app, buf.eng, "app", aKeys)
  BY <1>1, <1>2, <1>5, MoveEffect
<1>7. /\ Wrote(app.eng["app"], buf.eng["app"], app.moved, aSlots)
      /\ \A c \in Buffers \ {"app"} : app.eng[c] = buf.eng[c]
      /\ Elems(aKeys) \subseteq buf.eng.store.valid /\ Ratio * Len(aKeys) <= Len(aSlots)
            => app.moved = aKeys
  <2> DEFINE g == buf.eng
  <2>1. SoundEngine(g) /\ OwnNumbers(g.store)
    BY <1>5
  <2>2. app = MoveBuffer(g, "app", aKeys, aSlots)
    OBVIOUS
  <2> HIDE DEF g, app
  <2>3. /\ Wrote(app.eng["app"], g["app"], app.moved, aSlots)
        /\ \A c \in Buffers \ {"app"} : app.eng[c] = g[c]
        /\ Elems(aKeys) \subseteq g.store.valid /\ Ratio * Len(aKeys) <= Len(aSlots)
              => app.moved = aKeys
    BY ONLY <1>1, <1>2, <2>1, <2>2, MoveWrites
  <2>4. QED
    BY <2>3 DEF g
<1> HIDE DEF app
<1>8. /\ SoundEngine(app.eng) /\ app.moved \in Seq(Store!Id)
      /\ Elems(app.moved) \subseteq Elems(aKeys) \cap buf.eng.store.valid
      /\ app.eng.store.valid = buf.eng.store.valid \ Elems(app.moved)
  BY <1>6 DEF MovesRight
<1>9. app.eng[b] = buf.eng[b] /\ buf.eng["app"] = e["app"]
      /\ \A c \in Buffers \ {b, "app"} : app.eng[c] = e[c]
  BY <1>2, <1>4, <1>7
<1>10. /\ Wrote(app.eng[b], e[b], buf.moved, slots)
       /\ Wrote(app.eng["app"], e["app"], app.moved, aSlots)
  BY <1>4, <1>7, <1>9
<1>11. /\ Elems(app.moved) \subseteq Elems(aKeys) \cap e.store.valid
       /\ Elems(buf.moved) \cap Elems(app.moved) = {}
       /\ app.eng.store.valid = e.store.valid \ (Elems(buf.moved) \cup Elems(app.moved))
  BY <1>5, <1>8
<1>12. BothMoved(app.eng, e, b, buf.moved, app.moved, o, p)
  BY <1>5, <1>8, <1>9, <1>10, <1>11 DEF BothMoved, keys, slots, aKeys, aSlots
<1>13. AllMoved(e, buf.moved, app.moved, o, p)
  <2>1. ASSUME Elems(keys) \cup Elems(aKeys) \subseteq e.store.valid,
               Elems(keys) \cap Elems(aKeys) = {},
               Ratio * Len(keys) <= Len(slots), Ratio * Len(aKeys) <= Len(aSlots)
        PROVE  buf.moved = keys /\ app.moved = aKeys
    <3>1. Elems(keys) \subseteq e.store.valid /\ Elems(aKeys) \subseteq e.store.valid
      BY <2>1
    <3>2. buf.moved = keys
      BY <1>4, <2>1, <3>1
    <3>3. Elems(aKeys) \subseteq buf.eng.store.valid
      BY <1>5, <2>1, <3>1
    <3>4. QED
      BY <1>7, <2>1, <3>2, <3>3
  <2>2. QED
    BY <2>1 DEF AllMoved, AckKeys, keys, slots, aKeys, aSlots
<1>14. QED
  BY <1>12, <1>13 DEF app, buf, keys, slots, aKeys, aSlots

(* The slots keys are written to are among those named. *)
LEMMA SlotsNamed ==
    ASSUME NEW K, NEW keys \in Seq(K), NEW L, NEW slots \in Seq(L),
           Ratio * Len(keys) <= Len(slots)
    PROVE  SlotsFor(keys, slots) \subseteq Elems(slots)
<1>1. Len(slots) \in Nat /\ DOMAIN slots = 1 .. Len(slots) /\ Len(keys) \in Nat
  OBVIOUS
<1>2. Ratio * Len(keys) \in Nat
  BY <1>1, RatioAssumption
<1>3. 1 .. Ratio * Len(keys) \subseteq DOMAIN slots
  BY <1>1, <1>2
<1>4. QED
  BY <1>3 DEF SlotsFor, Elems

(* r is the slave's engine e after it moved keys of a LOAD m: what it had  *)
(* elsewhere it has, and what it moved it has where the master will put it.*)
LEMMA SlaveFilled ==
    ASSUME NEW m, m.kind \in Kind, NEW e, NEW r, NEW x, NEW y,
           BothMoved(r, e, Target("slave", m.kind), x, y, m, m), NEW d
    PROVE  /\ \A b \in Buffers : \A i, p :
                 /\ b = Target("master", m.kind) => i \notin Elems(m.slots)
                 /\ b = "app" => i \notin Elems(m.appSlots)
                 /\ Has(e, d, b, i, p)
                 => Has(r, d, b, i, p)
           /\ HasParts(r, d, Target("master", m.kind), x, m.slots)
           /\ HasParts(r, d, "app", y, m.appSlots)
<1> DEFINE t == Target("slave", m.kind)
           u == Target("master", m.kind)
           S == SlotsFor(x, m.slots)
           A == SlotsFor(y, m.appSlots)
           fS == Parts(x, m.slots)
           fA == Parts(y, m.appSlots)
           ES == Elems(m.slots)
           EA == Elems(m.appSlots)
<1>1. /\ t \in {"in", "out"} /\ u \in {"in", "out"} /\ Mirror(u) = t /\ Mirror("app") = "app"
      /\ u \in Buffers /\ "app" \in Buffers /\ u # "app" /\ t # "app"
      /\ \A b \in Buffers \ {u, "app"} : Mirror(b) \in Buffers \ {t, "app"}
  BY DEF Target, Kind, Mirror, Buffers
<1>2. /\ Wrote(r[t], e[t], x, m.slots) /\ Wrote(r["app"], e["app"], y, m.appSlots)
      /\ \A c \in Buffers \ {t, "app"} : r[c] = e[c]
  BY DEF BothMoved
<1>3. /\ Ratio * Len(x) <= Len(m.slots) /\ S \subseteq ES
      /\ r[t].valid = e[t].valid \cup S
      /\ \A i \in r[t].valid : r[t].data[i] = IF i \in S THEN fS[i] ELSE e[t].data[i]
  BY <1>2 DEF Wrote
<1>4. /\ Ratio * Len(y) <= Len(m.appSlots) /\ A \subseteq EA
      /\ r["app"].valid = e["app"].valid \cup A
      /\ \A i \in r["app"].valid : r["app"].data[i] = IF i \in A THEN fA[i] ELSE e["app"].data[i]
  BY <1>2 DEF Wrote
<1> HIDE DEF t, u, S, A, fS, fA, ES, EA
<1>5. ASSUME NEW i, NEW p, i \notin ES, Has(e, d, u, i, p)
      PROVE  Has(r, d, u, i, p)
  BY <1>1, <1>3, <1>5 DEF Has
<1>6. ASSUME NEW i, NEW p, i \notin EA, Has(e, d, "app", i, p)
      PROVE  Has(r, d, "app", i, p)
  <2>1. IF i \in e["app"].valid THEN e["app"].data[i] = p ELSE d # <<>>
    BY <1>1, <1>6 DEF Has
  <2>2. IF i \in r["app"].valid THEN r["app"].data[i] = p ELSE d # <<>>
    BY <1>4, <1>6, <2>1
  <2>3. QED
    BY <1>1, <2>2 DEF Has
<1>7. ASSUME NEW b \in Buffers \ {u, "app"}, NEW i, NEW p, Has(e, d, b, i, p)
      PROVE  Has(r, d, b, i, p)
  <2>1. r[Mirror(b)] = e[Mirror(b)]
    BY <1>1, <1>2
  <2>2. QED
    BY <1>7, <2>1 DEF Has
<1>8. \A b \in Buffers : \A i, p :
        (b = u => i \notin ES) /\ (b = "app" => i \notin EA) /\ Has(e, d, b, i, p)
        => Has(r, d, b, i, p)
  BY <1>5, <1>6, <1>7
<1>9. \A i \in S : Has(r, d, u, i, fS[i])
  BY <1>1, <1>3 DEF Has
<1>10. \A i \in A : Has(r, d, "app", i, fA[i])
  BY <1>1, <1>4 DEF Has
<1>11. HasParts(r, d, u, x, m.slots)
  BY <1>3, <1>9 DEF HasParts, S, fS
<1>12. HasParts(r, d, "app", y, m.appSlots)
  BY <1>4, <1>10 DEF HasParts, A, fA
<1>13. QED
  BY <1>8, <1>11, <1>12 DEF u, ES, EA

(* It has what the master holds as agreed, for that lies elsewhere.        *)
LEMMA SlaveSame ==
    ASSUME NEW n, NEW m \in Loads(n), m.kind \in Kind, NEW e, NEW r, NEW x, NEW y,
           BothMoved(r, e, Target("slave", m.kind), x, y, m, m),
           NEW d, NEW g, Same(g, e, d), Ahead(g, n)
    PROVE  Same(g, r, d)
<1> DEFINE u == Target("master", m.kind)
           ES == Elems(m.slots)
           EA == Elems(m.appSlots)
<1>1. \A b \in Buffers : \A i, p :
        (b = u => i \notin ES) /\ (b = "app" => i \notin EA) /\ Has(e, d, b, i, p)
        => Has(r, d, b, i, p)
  BY SlaveFilled
<1>2. ES \cap g[u].real = {} /\ EA \cap g["app"].real = {}
  BY DEF Ahead
<1> HIDE DEF u, ES, EA
<1>3. ASSUME NEW b \in Buffers, NEW i \in g[b].real PROVE Has(r, d, b, i, g[b].data[i])
  <2>1. (b = u => i \notin ES) /\ (b = "app" => i \notin EA)
    BY <1>2, <1>3
  <2>2. Has(e, d, b, i, g[b].data[i])
    BY <1>3 DEF Same
  <2>3. QED
    BY <1>1, <2>1, <2>2
<1>4. QED
  BY <1>3 DEF Same

(* It has what earlier LOAD-ACKs name, for the slots of their offers are   *)
(* others, and what the new one names.                                     *)
LEMMA SlaveHeld ==
    ASSUME NEW n, NEW m \in Loads(n), m.kind \in Kind, NEW e, NEW r, NEW x, NEW y,
           BothMoved(r, e, Target("slave", m.kind), x, y, m, m),
           Acks(n) \subseteq Message, NEW N \in Nat, NEW p \in [Kind -> Offer],
           Numbered(p, n, N), Matched(p, n), NEW d, Held(e, d, p, n),
           NEW n2, Acks(n2) \subseteq Acks(n) \cup {Ack(m.kind, m.id, x, y)}
    PROVE  Held(r, d, p, n2)
<1> DEFINE u == Target("master", m.kind)
           ES == Elems(m.slots)
           EA == Elems(m.appSlots)
<1>1. /\ \A b \in Buffers : \A i, q :
            (b = u => i \notin ES) /\ (b = "app" => i \notin EA) /\ Has(e, d, b, i, q)
            => Has(r, d, b, i, q)
      /\ HasParts(r, d, u, x, m.slots) /\ HasParts(r, d, "app", y, m.appSlots)
  BY SlaveFilled
<1>2. m.id \in 1 .. N
  BY DEF Numbered
<1>3. \A h \in Kind : h # m.kind => Target("master", h) # u
  BY DEF Target, Kind
<1>4. \A h \in Kind : Target("master", h) \in Buffers /\ Target("master", h) # "app"
  BY DEF Target, Buffers
<1>5. NoOffer.id = 0
  BY DEF NoOffer
<1>6. ASSUME NEW a \in Acks(n), a.id = p[a.kind].id
      PROVE  /\ HasParts(r, d, Target("master", a.kind), a.keys, p[a.kind].slots)
             /\ HasParts(r, d, "app", a.appKeys, p[a.kind].appSlots)
  <2> DEFINE k == a.kind
             o == p[k]
             b == Target("master", k)
  <2>1. k \in Kind /\ a.keys \in Seq(Store!Id) /\ a.appKeys \in Seq(Store!Id)
    BY DEF Message
  <2>2. o \in Offer /\ o.slots \in Seq(Buffer!Id) /\ o.appSlots \in Seq(Buffer!Id)
    BY <2>1 DEF Offer
  <2>3. a.id \in 1 .. N /\ a.id < m.id
    BY DEF Numbered
  <2>4. o # NoOffer /\ m.id > o.id
    BY <1>2, <1>5, <1>6, <2>3
  <2>5. m.kind # k /\ EA \cap Elems(o.appSlots) = {}
    BY <2>1, <2>4 DEF Matched
  <2>6. HasParts(e, d, b, a.keys, o.slots) /\ HasParts(e, d, "app", a.appKeys, o.appSlots)
    BY <1>6 DEF Held
  <2>7. b # u /\ b # "app" /\ b \in Buffers /\ "app" \in Buffers /\ u # "app"
    BY <1>3, <1>4, <2>1, <2>5 DEF Buffers
  <2> HIDE DEF u, ES, EA, b, o, k
  <2>8. HasParts(r, d, b, a.keys, o.slots)
    BY <1>1, <2>6, <2>7 DEF HasParts
  <2>9. SlotsFor(a.appKeys, o.appSlots) \subseteq Elems(o.appSlots)
    <3>1. Ratio * Len(a.appKeys) <= Len(o.appSlots)
      BY <2>6 DEF HasParts
    <3>2. QED
      BY <2>1, <2>2, <3>1, SlotsNamed
  <2>10. HasParts(r, d, "app", a.appKeys, o.appSlots)
    <3>1. \A i \in SlotsFor(a.appKeys, o.appSlots) : i \notin EA
      BY <2>5, <2>9
    <3>2. QED
      BY <1>1, <2>6, <2>7, <3>1 DEF HasParts
  <2>11. QED
    BY <2>8, <2>10 DEF b, o, k
<1> DEFINE new == Ack(m.kind, m.id, x, y)
<1>7. ASSUME new.id = p[new.kind].id
      PROVE  /\ HasParts(r, d, Target("master", new.kind), new.keys, p[new.kind].slots)
             /\ HasParts(r, d, "app", new.appKeys, p[new.kind].appSlots)
  <2>1. new.id = m.id /\ new.kind = m.kind /\ new.keys = x /\ new.appKeys = y
    BY DEF Ack
  <2> HIDE DEF new
  <2>2. p[m.kind] # NoOffer /\ m.id = p[m.kind].id
    <3>1. m.id = p[m.kind].id
      BY <1>7, <2>1
    <3>2. m.id # 0
      BY <1>2
    <3>3. QED
      BY <1>5, <3>1, <3>2
  <2>3. m.slots = p[m.kind].slots /\ m.appSlots = p[m.kind].appSlots
    BY <2>2 DEF Matched
  <2>4. QED
    BY <1>1, <2>1, <2>3
<1> DEFINE A == Acks(n)
           A2 == Acks(n2)
<1>8. A2 \subseteq A \cup {new}
  OBVIOUS
<1> HIDE DEF A, A2, new
<1>9. \A a \in A2 : a.id = p[a.kind].id =>
        /\ HasParts(r, d, Target("master", a.kind), a.keys, p[a.kind].slots)
        /\ HasParts(r, d, "app", a.appKeys, p[a.kind].appSlots)
  BY <1>6, <1>7, <1>8 DEF A
<1>10. QED
  BY <1>9 DEF Held, A2

(* The slave's answer to the first LOAD has the highest number of those    *)
(* answered, and a lower one than the LOADs still under way.               *)
LEMMA AckSent ==
    ASSUME net \in [Side -> Seq(Message)], net["slave"] # <<>>, NEW p, NEW N \in Nat,
           Numbered(p, net, N), NEW a \in Message, a.type = "LOAD-ACK",
           a.id = Head1("slave").id, NEW n2, n2 = Sent(Rest("slave"), "master", a)
    PROVE  /\ Numbered(p, n2, N)
           /\ Loads(n2) \subseteq Loads(net) /\ Acks(n2) \subseteq Acks(net) \cup {a}
<1> DEFINE m == Head1("slave")
           q == net["slave"]
           n == Rest("slave")
<1>1. "master" \in Side /\ "slave" \in Side /\ "master" # "slave"
  BY DEF Side
<1>2. q \in Seq(Message) /\ net["master"] \in Seq(Message) /\ q # <<>>
  BY <1>1
<1>3. /\ n \in [Side -> Seq(Message)] /\ n["slave"] = Tail(q) /\ n["master"] = net["master"]
      /\ Fewer(n, net)
  BY <1>1, Received
<1>4. m = q[1]
  BY DEF Head1
<1>5. /\ Elems(Tail(q)) \subseteq Elems(q) /\ m \in Elems(q)
      /\ Ascending(q) => Ascending(Tail(q)) /\ \A x \in Elems(Tail(q)) : Before(m, x)
  BY <1>2, <1>4, TailOf
<1> HIDE DEF m, n
<1>6. /\ \A x \in Elems(q) : x.type = "LOAD" /\ x.id \in 1 .. N
      /\ \A c \in Acks(net) : c.id \in 1 .. N /\ \A x \in Elems(q) : c.id < x.id
      /\ Ascending(net["master"]) /\ Ascending(q)
  BY DEF Numbered, Loads
<1>7. a.id = m.id /\ m.id \in 1 .. N
  BY <1>5, <1>6 DEF m
<1>8. \A x \in Elems(Tail(q)) : a.id < x.id
  BY <1>5, <1>6, <1>7 DEF Before
<1>9. n2 = n \/ (n2["master"] = Append(n["master"], a) /\ n2["slave"] = n["slave"])
  BY <1>1, <1>3 DEF Sent, n
<1>10. CASE n2 = n
  BY <1>3, <1>10, FewerMessages DEF Fewer
<1>11. CASE n2["master"] = Append(n["master"], a) /\ n2["slave"] = n["slave"]
  <2>1. \A x \in Elems(net["master"]) : Before(x, a)
    <3>1. \A x \in Elems(net["master"]) : x.type = "LOAD-REQ" \/ x \in Acks(net)
      BY DEF Acks
    <3>2. QED
      BY <1>5, <1>6, <1>7, <3>1 DEF Before
  <2>2. Elems(n2["master"]) = Elems(net["master"]) \cup {a} /\ Ascending(n2["master"])
    BY <1>2, <1>3, <1>6, <1>11, <2>1, LongerBy
  <2>3. Acks(n2) = Acks(net) \cup {a}
    BY <2>2 DEF Acks
  <2>4. Loads(n2) = Elems(Tail(q)) /\ Ascending(n2["slave"])
    BY <1>3, <1>5, <1>6, <1>11 DEF Loads
  <2>5. Loads(n2) \subseteq Loads(net)
    BY <1>5, <2>4 DEF Loads
  <2>6. Numbered(p, n2, N)
    <3> DEFINE A == Acks(net)
               A2 == Acks(n2)
               L2 == Loads(n2)
               T == Elems(Tail(q))
               Q == Elems(q)
    <3>1. A2 = A \cup {a} /\ L2 = T /\ T \subseteq Q
      BY <1>5, <2>3, <2>4
    <3>2. /\ \A x \in Q : x.type = "LOAD" /\ x.id \in 1 .. N
          /\ \A c \in A : c.id \in 1 .. N /\ \A x \in Q : c.id < x.id
          /\ \A x \in T : a.id < x.id
      BY <1>6, <1>8
    <3> HIDE DEF A, A2, L2, T, Q
    <3>3. \A x \in L2 : x.type = "LOAD" /\ x.id \in 1 .. N
      BY <3>1, <3>2
    <3>4. \A c \in A2 : c.id \in 1 .. N /\ \A x \in L2 : c.id < x.id
      BY <1>7, <3>1, <3>2
    <3>5. \A k \in Kind : p[k] = NoOffer \/ p[k].id \in 1 .. N
      BY DEF Numbered
    <3>6. QED
      BY <2>2, <2>4, <3>3, <3>4, <3>5 DEF Numbered, A2, L2
  <2>7. QED
    BY <2>3, <2>5, <2>6
<1>12. QED
  BY <1>9, <1>10, <1>11

(* It names keys the slave had until then: the master has them, and no     *)
(* LOAD-ACK under way names one.                                           *)
LEMMA AckNames ==
    ASSUME NEW n, NEW n2, NEW a, Acks(n2) \subseteq Acks(n) \cup {a}, NEW g, Acked(g, n),
           NEW V, V \subseteq g.store.valid, \A c \in Acks(n) : AckMoved(c, V),
           AckKeys(a) \subseteq V, Elems(a.keys) \cap Elems(a.appKeys) = {}
    PROVE  Acked(g, n2)
<1> DEFINE A == Acks(n)
           A2 == Acks(n2)
<1>1. /\ \A c \in A : /\ AckKeys(c) \subseteq g.store.valid
                      /\ Elems(c.keys) \cap Elems(c.appKeys) = {}
      /\ \A b, c \in A : b.id # c.id => AckKeys(b) \cap AckKeys(c) = {}
  BY DEF Acked
<1>2. \A c \in A : AckKeys(c) \cap V = {}
  BY DEF AckMoved, AckKeys
<1>3. A2 \subseteq A \cup {a}
  OBVIOUS
<1> HIDE DEF A, A2
<1>4. \A c \in A2 : /\ AckKeys(c) \subseteq g.store.valid
                    /\ Elems(c.keys) \cap Elems(c.appKeys) = {}
  BY <1>1, <1>3
<1>5. \A b, c \in A2 : b.id # c.id => AckKeys(b) \cap AckKeys(c) = {}
  <2>1. \A c \in A : AckKeys(c) \cap AckKeys(a) = {} /\ AckKeys(a) \cap AckKeys(c) = {}
    BY <1>2
  <2>2. QED
    BY <1>1, <1>3, <2>1
<1>6. QED
  BY <1>4, <1>5 DEF Acked, A2

(* The slave moves what it has of an offer and says so. *)
LEMMA RecvLoadAgree == IInv /\ Agree /\ RecvLoad => Agree'
<1> SUFFICES ASSUME IInv, Agree, RecvLoad PROVE Agree'
  OBVIOUS
<1> DEFINE e   == eng["slave"]
           g   == eng["master"]
           V   == e.store.valid
           m   == Head1("slave")
           tgt == Target("slave", m.kind)
           buf == MoveBuffer(e, tgt, m.keys, m.slots)
           app == MoveBuffer(buf.eng, "app", m.appKeys, m.appSlots)
           r   == app.eng
           x   == buf.moved
           y   == app.moved
           a   == Ack(m.kind, m.id, x, y)
           d   == delivered["slave"]
           N   == used.offers
<1>1. /\ eng \in [Side -> Engine] /\ SoundEngine(e) /\ OwnNumbers(e.store)
      /\ V \subseteq g.store.valid /\ net \in [Side -> Seq(Message)]
      /\ pending \in [Kind -> Offer] /\ N \in Nat
      /\ Loads(net) \subseteq Message /\ Acks(net) \subseteq Message
  BY Parted
<1>2. "master" \in Side /\ "slave" \in Side /\ "master" # "slave"
  BY DEF Side
<1>3. up["slave"] /\ net["slave"] # <<>>
  BY DEF RecvLoad, Receives
<1>4. m \in Loads(net) /\ Fewer(Rest("slave"), net)
  BY <1>1, <1>2, <1>3, Received DEF Loads
<1>5. /\ m.keys \in Seq(Store!Id) /\ m.appKeys \in Seq(Store!Id)
      /\ m.slots \in Seq(Buffer!Id) /\ m.appSlots \in Seq(Buffer!Id)
      /\ m.kind \in Kind /\ m.id \in Nat
  BY <1>1, <1>4 DEF Message
<1>6. /\ eng' = [eng EXCEPT !["slave"] = r] /\ UNCHANGED <<up, pending, delivered>>
      /\ net' = Rest("slave") \/ net' = Sent(Rest("slave"), "master", a)
  BY DEF RecvLoad
<1>7. used'.offers = N
  <2>1. RestType
    BY DEF IInv
  <2>2. QED
    BY <2>1 DEF RecvLoad, RestType
<1>8. tgt \in {"in", "out"}
  BY DEF Target
<1>9. BothMoved(r, e, tgt, x, y, m, m)
  <2> HIDE DEF e, m, tgt
  <2>1. QED
    BY <1>1, <1>5, <1>8, MoveTwice
<1>10. /\ Numbered(pending, net, N) /\ Matched(pending, net) /\ Ahead(g, net) /\ Acked(g, net)
       /\ Owned(g, pending) /\ Held(e, d, pending, net) /\ Same(g, e, d)
  BY <1>3 DEF Agree
<1>11. eng'["slave"] = r /\ eng'["master"] = g
  BY <1>1, <1>2, <1>6
<1> HIDE DEF r, x, y, buf, app, e, g
<1>12. /\ x \in Seq(Store!Id) /\ y \in Seq(Store!Id)
       /\ Elems(x) \subseteq V /\ Elems(y) \subseteq V /\ Elems(x) \cap Elems(y) = {}
  BY <1>9 DEF BothMoved
<1>13. /\ a \in Message /\ a.type = "LOAD-ACK" /\ a.id = m.id /\ a.keys = x /\ a.appKeys = y
  <2>1. \A S : <<>> \in Seq(S)
    OBVIOUS
  <2> HIDE DEF m
  <2>2. QED
    BY <1>5, <1>12, <2>1 DEF Ack, Message
<1>14. /\ Numbered(pending, net', N)
       /\ Loads(net') \subseteq Loads(net) /\ Acks(net') \subseteq Acks(net) \cup {a}
  <2> HIDE DEF a
  <2>1. CASE net' = Rest("slave")
    BY <1>4, <1>10, <2>1, FewerMessages DEF Fewer
  <2>2. CASE net' = Sent(Rest("slave"), "master", a)
    BY <1>1, <1>3, <1>10, <1>13, <2>2, AckSent
  <2>3. QED
    BY <1>6, <2>1, <2>2
<1>15. Matched(pending, net') /\ Ahead(g, net')
  BY <1>10, <1>14 DEF Matched, Ahead
<1>16. Acked(g, net')
  <2>1. \A c \in Acks(net) : AckMoved(c, V)
    <3>1. NetRight(net, V)
      BY DEF IInv, e
    <3>2. \A i \in DOMAIN net["master"] : AckMoved(net["master"][i], V)
      BY <3>1 DEF NetRight
    <3>3. QED
      BY <3>2 DEF Acks, Elems
  <2>2. AckKeys(a) \subseteq V /\ Elems(a.keys) \cap Elems(a.appKeys) = {}
    BY <1>12, <1>13 DEF AckKeys
  <2> HIDE DEF a, V
  <2>3. QED
    BY <1>1, <1>10, <1>14, <2>1, <2>2, AckNames
<1> HIDE DEF m
<1>17. Same(g, r, d)
  BY <1>4, <1>5, <1>9, <1>10, SlaveSame
<1>18. Held(r, d, pending, net')
  BY <1>1, <1>4, <1>5, <1>9, <1>10, <1>14, SlaveHeld
<1>19. QED
  BY <1>3, <1>6, <1>7, <1>10, <1>11, <1>14, <1>15, <1>16, <1>17, <1>18 DEF Agree

(* z is buffer d after keys moved to some of the slots of an offer and all *)
(* of these were freed, some cleared.                                      *)
Settled(z, d, moved, slots) ==
    /\ SlotsFor(moved, slots) \subseteq Elems(slots)
    /\ z.real \subseteq d.real \cup SlotsFor(moved, slots)
    /\ \A i \in z.real : z.data[i] = IF i \in SlotsFor(moved, slots)
                                     THEN Parts(moved, slots)[i] ELSE d.data[i]
    /\ \A i \in Buffer!Id \ Elems(slots) : z.cnt[i] = d.cnt[i]

(* The slots cleared are slots of the offer. *)
LEMMA ClearedAndFreed ==
    ASSUME NEW w, BufferSound(w), NEW d, NEW moved, NEW slots, Wrote(w, d, moved, slots),
           NEW clear, clear \subseteq Elems(slots)
    PROVE  /\ Settled(Buffer!SetKeyCount(Buffer!Del(w, clear), Elems(slots), 0), d, moved, slots)
           /\ BufferSound(Buffer!SetKeyCount(Buffer!Del(w, clear), Elems(slots), 0))
<1> DEFINE v == Buffer!Del(w, clear)
           E == Elems(slots)
           z == Buffer!SetKeyCount(v, E, 0)
           S == SlotsFor(moved, slots)
           f == Parts(moved, slots)
<1>1. 0 \in Nat
  OBVIOUS
<1>2. /\ S \subseteq E /\ w.real = d.real \cup S /\ w.valid = d.valid \cup S
      /\ \A i \in w.valid : w.data[i] = IF i \in S THEN f[i] ELSE d.data[i]
      /\ \A i \in Buffer!Id \ E : w.cnt[i] = d.cnt[i]
  BY DEF Wrote
<1>3. w.real \subseteq w.valid
  BY BufferSync
<1>4. v.real = w.real \ clear /\ \A i \in Buffer!Id \ clear : v.cnt[i] = w.cnt[i]
  BY BufferDeleted
<1>5. BufferSound(v) /\ \A i \in w.valid \ clear : v.data[i] = w.data[i]
  BY <1>1, BufferAfter
<1> HIDE DEF v, S, f, E
<1>6. z.real = v.real /\ \A i \in Buffer!Id \ E : z.cnt[i] = v.cnt[i]
  BY <1>1, <1>5, BufferCounts
<1>7. z.data = v.data /\ BufferSound(z)
  BY <1>1, <1>5, BufferAfter
<1> HIDE DEF z
<1>8. z.real \subseteq d.real \cup S
  BY <1>2, <1>4, <1>6
<1>9. \A i \in z.real : z.data[i] = IF i \in S THEN f[i] ELSE d.data[i]
  BY <1>2, <1>3, <1>4, <1>5, <1>6, <1>7
<1>10. \A i \in Buffer!Id \ E : z.cnt[i] = d.cnt[i]
  BY <1>2, <1>4, <1>6 DEF E
<1>11. QED
  BY <1>2, <1>7, <1>8, <1>9, <1>10 DEF Settled, z, v, E, S, f

(* The last slots of an offer, as many as it has or fewer. *)
LEMMA LastAmongAll ==
    ASSUME NEW slots \in Seq(Buffer!Id), NEW n \in 0 .. Len(slots), NEW C \in LastOf(slots, n)
    PROVE  C \subseteq Elems(slots)
<1>1. Len(slots) \in Nat /\ DOMAIN slots = 1 .. Len(slots) /\ n \in Nat /\ n <= Len(slots)
  OBVIOUS
<1>2. C = {slots[j] : j \in Len(slots) - n + 1 .. Len(slots)}
  BY <1>1 DEF LastOf
<1>3. \A j \in Len(slots) - n + 1 .. Len(slots) : j \in 1 .. Len(slots)
  BY <1>1
<1>4. QED
  BY <1>1, <1>2, <1>3 DEF Elems

(* r is the master's engine g after it took in the LOAD-ACK m to offer o:  *)
(* x and y are the keys it moved.                                          *)
Answered(r, g, m, o, x, y) ==
    /\ Settled(r[Target("master", m.kind)], g[Target("master", m.kind)], x, o.slots)
    /\ Settled(r["app"], g["app"], y, o.appSlots)
    /\ \A c \in Buffers \ {Target("master", m.kind), "app"} : r[c] = g[c]
    /\ r.store.valid = g.store.valid \ (Elems(x) \cup Elems(y))
    /\ Elems(x) \subseteq Elems(m.keys) /\ Elems(y) \subseteq Elems(m.appKeys)
    /\ AllMoved(g, x, y, m, o)

(* The LOADs still under way are of the other kind and name other slots.   *)
LEMMA AnsweredAhead ==
    ASSUME NEW n, NEW m \in Acks(n), m.kind \in Kind, Loads(n) \subseteq Message,
           NEW p, p[m.kind].id = m.id, NEW N \in Nat, Numbered(p, n, N), Matched(p, n),
           NEW g, Ahead(g, n), NEW r, NEW x, NEW y, Answered(r, g, m, p[m.kind], x, y)
    PROVE  Ahead(r, n)
<1> DEFINE k == m.kind
           o == p[k]
           t == Target("master", k)
<1>1. NoOffer.id = 0 /\ m.id \in 1 .. N
  BY DEF NoOffer, Numbered
<1>2. o # NoOffer
  BY <1>1
<1>3. ASSUME NEW l \in Loads(n)
      PROVE  /\ Elems(l.slots) \cap r[Target("master", l.kind)].real = {}
             /\ Elems(l.appSlots) \cap r["app"].real = {}
  <2> DEFINE u == Target("master", l.kind)
             LS == Elems(l.slots)
             LA == Elems(l.appSlots)
             OA == Elems(o.appSlots)
             S == SlotsFor(y, o.appSlots)
  <2>1. l.kind \in Kind
    BY DEF Message
  <2>2. l.id > o.id
    <3>1. m.id < l.id /\ l.id \in 1 .. N /\ o.id = m.id
      BY DEF Numbered
    <3>2. QED
      BY <1>1, <3>1
  <2>3. l.kind # k /\ LA \cap OA = {}
    BY <1>2, <2>2 DEF Matched
  <2>4. u \in Buffers \ {t, "app"}
    BY <2>1, <2>3 DEF Target, Kind, Buffers
  <2>5. r[u] = g[u]
    BY <2>4 DEF Answered
  <2>6. r["app"].real \subseteq g["app"].real \cup S /\ S \subseteq OA
    BY DEF Answered, Settled
  <2>7. LS \cap g[u].real = {} /\ LA \cap g["app"].real = {}
    BY DEF Ahead
  <2> HIDE DEF u, LS, LA, OA, S
  <2>8. LS \cap r[u].real = {} /\ LA \cap r["app"].real = {}
    BY <2>3, <2>5, <2>6, <2>7
  <2>9. QED
    BY <2>8 DEF u, LS, LA
<1>4. QED
  BY <1>3 DEF Ahead

(* The keys other LOAD-ACKs name have not left the master's store. *)
LEMMA AnsweredAcked ==
    ASSUME NEW n, NEW m \in Acks(n), NEW n2, Acks(n2) \subseteq Acks(n),
           \A a \in Acks(n2) : a.id # m.id,
           NEW g, Acked(g, n), NEW r, NEW o, NEW x, NEW y, Answered(r, g, m, o, x, y)
    PROVE  Acked(r, n2)
<1> DEFINE A == Acks(n)
           A2 == Acks(n2)
<1>1. /\ \A c \in A : /\ AckKeys(c) \subseteq g.store.valid
                      /\ Elems(c.keys) \cap Elems(c.appKeys) = {}
      /\ \A b, c \in A : b.id # c.id => AckKeys(b) \cap AckKeys(c) = {}
  BY DEF Acked
<1>2. r.store.valid = g.store.valid \ (Elems(x) \cup Elems(y))
      /\ Elems(x) \cup Elems(y) \subseteq AckKeys(m)
  BY DEF Answered, AckKeys
<1>3. A2 \subseteq A /\ m \in A /\ \A a \in A2 : a.id # m.id
  OBVIOUS
<1> HIDE DEF A, A2
<1>4. \A a \in A2 : AckKeys(a) \cap AckKeys(m) = {}
  BY <1>1, <1>3
<1>5. \A a \in A2 : AckKeys(a) \subseteq r.store.valid
  BY <1>1, <1>2, <1>3, <1>4
<1>6. QED
  BY <1>1, <1>3, <1>5 DEF Acked, A2

(* What the master now holds as agreed the slave has. *)
LEMMA AnsweredSame ==
    ASSUME NEW n, NEW m \in Acks(n), m.kind \in Kind, NEW p, p[m.kind].id = m.id,
           NEW g, Acked(g, n), NEW e, NEW d, Held(e, d, p, n), Same(g, e, d),
           NEW r, NEW x, NEW y, Answered(r, g, m, p[m.kind], x, y)
    PROVE  Same(r, e, d)
<1> DEFINE o == p[m.kind]
           t == Target("master", m.kind)
<1>1. HasParts(e, d, t, m.keys, o.slots) /\ HasParts(e, d, "app", m.appKeys, o.appSlots)
  BY DEF Held
<1>2. AckKeys(m) \subseteq g.store.valid /\ Elems(m.keys) \cap Elems(m.appKeys) = {}
  BY DEF Acked
<1>3. x = m.keys /\ y = m.appKeys
  <2>1. Ratio * Len(m.keys) <= Len(o.slots) /\ Ratio * Len(m.appKeys) <= Len(o.appSlots)
    BY <1>1 DEF HasParts
  <2>2. AllMoved(g, x, y, m, o)
    BY DEF Answered
  <2>3. QED
    BY <1>2, <2>1, <2>2 DEF AllMoved
<1>4. t \in Buffers /\ "app" \in Buffers
  BY DEF Target, Buffers
<1>5. /\ Settled(r[t], g[t], x, o.slots) /\ Settled(r["app"], g["app"], y, o.appSlots)
      /\ \A c \in Buffers \ {t, "app"} : r[c] = g[c]
  BY DEF Answered
<1> HIDE DEF o, t
<1>6. \A b \in Buffers : \A i \in g[b].real : Has(e, d, b, i, g[b].data[i])
  BY DEF Same
<1>7. ASSUME NEW i \in r[t].real PROVE Has(e, d, t, i, r[t].data[i])
  <2>1. \A j \in SlotsFor(x, o.slots) : Has(e, d, t, j, Parts(x, o.slots)[j])
    BY <1>1, <1>3 DEF HasParts
  <2>2. CASE i \in SlotsFor(x, o.slots)
    <3>1. r[t].data[i] = Parts(x, o.slots)[i]
      BY <1>5, <1>7, <2>2 DEF Settled
    <3>2. QED
      BY <2>1, <2>2, <3>1
  <2>3. CASE i \notin SlotsFor(x, o.slots)
    <3>1. r[t].data[i] = g[t].data[i] /\ i \in g[t].real
      BY <1>5, <1>7, <2>3 DEF Settled
    <3>2. QED
      BY <1>4, <1>6, <3>1
  <2>4. QED
    BY <2>2, <2>3
<1>8. ASSUME NEW i \in r["app"].real PROVE Has(e, d, "app", i, r["app"].data[i])
  <2>1. \A j \in SlotsFor(y, o.appSlots) : Has(e, d, "app", j, Parts(y, o.appSlots)[j])
    BY <1>1, <1>3 DEF HasParts
  <2>2. CASE i \in SlotsFor(y, o.appSlots)
    <3>1. r["app"].data[i] = Parts(y, o.appSlots)[i]
      BY <1>5, <1>8, <2>2 DEF Settled
    <3>2. QED
      BY <2>1, <2>2, <3>1
  <2>3. CASE i \notin SlotsFor(y, o.appSlots)
    <3>1. r["app"].data[i] = g["app"].data[i] /\ i \in g["app"].real
      BY <1>5, <1>8, <2>3 DEF Settled
    <3>2. QED
      BY <1>4, <1>6, <3>1
  <2>4. QED
    BY <2>2, <2>3
<1>9. ASSUME NEW b \in Buffers, NEW i \in r[b].real PROVE Has(e, d, b, i, r[b].data[i])
  <2>1. CASE b = t
    BY <1>7, <1>9, <2>1
  <2>2. CASE b = "app"
    BY <1>8, <1>9, <2>2
  <2>3. CASE b \in Buffers \ {t, "app"}
    <3>1. r[b] = g[b]
      BY <1>5, <2>3
    <3>2. QED
      BY <1>6, <1>9, <3>1
  <2>4. QED
    BY <2>1, <2>2, <2>3
<1>10. QED
  BY <1>9 DEF Same

(* What the master makes of a LOAD-ACK to its pending offer, if it clears *)
(* slots of the offer only.                                               *)
LEMMA MasterAnswered ==
    ASSUME IInv, RecvLoadAck, WithinLists,
           pending[Head1("master").kind].id = Head1("master").id
    PROVE  /\ pending' = [pending EXCEPT ![Head1("master").kind] = NoOffer]
           /\ \E x, y : Answered(eng'["master"], eng["master"], Head1("master"),
                                 pending[Head1("master").kind], x, y)
           /\ eng'["slave"] = eng["slave"]
<1> DEFINE e   == eng["master"]
           m   == Head1("master")
           o   == pending[m.kind]
           tgt == Target("master", m.kind)
           buf == MoveBuffer(e, tgt, m.keys, o.slots)
           app == MoveBuffer(buf.eng, "app", m.appKeys, o.appSlots)
           x == buf.moved
           y == app.moved
           left  == Sub(o.keys, m.keys)
           aLeft == Sub(o.appKeys, m.appKeys)
           lost  == Elems(left) \cup Elems(aLeft)
           free  == Store!SetKeyCount(app.eng.store, lost, 0)
           kept  == [app.eng EXCEPT !.store = free]
<1>1. /\ eng \in [Side -> Engine] /\ SoundEngine(e) /\ OwnNumbers(e.store)
      /\ pending \in [Kind -> Offer] /\ net \in [Side -> Seq(Message)]
  BY Parted
<1>2. net["master"] # <<>> /\ "master" \in Side /\ "slave" \in Side
      /\ Receives("master", "LOAD-ACK")
  BY DEF RecvLoadAck, Receives, Side
<1>3. m \in Message
  <2>1. net["master"] \in Seq(Message) /\ 1 \in DOMAIN net["master"]
    BY <1>1, <1>2
  <2>2. QED
    BY <2>1 DEF Head1
<1>4. /\ m.keys \in Seq(Store!Id) /\ m.appKeys \in Seq(Store!Id) /\ m.kind \in Kind
      /\ o.slots \in Seq(Buffer!Id) /\ o.appSlots \in Seq(Buffer!Id)
  <2>1. m.keys \in Seq(Store!Id) /\ m.appKeys \in Seq(Store!Id) /\ m.kind \in Kind
    BY <1>3 DEF Message
  <2>2. o \in Offer
    BY <1>1, <2>1
  <2>3. QED
    BY <2>1, <2>2 DEF Offer
<1>5. PICK clear \in LastOf(o.slots, Len(left) * Ratio),
           aClear \in LastOf(o.appSlots, Len(aLeft) * Ratio) :
         /\ eng' = [eng EXCEPT !["master"] =
              [kept EXCEPT
                 ![tgt] = Buffer!SetKeyCount(Buffer!Del(@, clear), Elems(o.slots), 0),
                 !.app  = Buffer!SetKeyCount(Buffer!Del(@, aClear), Elems(o.appSlots), 0)]]
         /\ pending' = [pending EXCEPT ![m.kind] = NoOffer]
  BY DEF RecvLoadAck
<1>6. /\ Len(left) * Ratio \in 0 .. Len(o.slots)
      /\ Len(aLeft) * Ratio \in 0 .. Len(o.appSlots)
  BY <1>2 DEF WithinLists
<1>7. clear \subseteq Elems(o.slots) /\ aClear \subseteq Elems(o.appSlots)
  <2> HIDE DEF o, left, aLeft
  <2>1. clear \subseteq Elems(o.slots)
    BY <1>4, <1>6, LastAmongAll
  <2>2. aClear \subseteq Elems(o.appSlots)
    BY <1>4, <1>6, LastAmongAll
  <2>3. QED
    BY <2>1, <2>2
<1>8. tgt \in {"in", "out"} /\ tgt \in Buffers /\ tgt # "app" /\ "app" \in Buffers
  BY DEF Target, Buffers
<1> DEFINE oS == o.slots
           aS == o.appSlots
<1> HIDE DEF e, tgt, left, aLeft, lost
<1>9. BothMoved(app.eng, e, tgt, x, y, m, o) /\ AllMoved(e, x, y, m, o)
  <2> HIDE DEF m, o
  <2>1. QED
    BY <1>1, <1>4, <1>8, MoveTwice
<1> HIDE DEF buf, app, x, y, m, o
<1>10. /\ SoundEngine(app.eng)
       /\ Wrote(app.eng[tgt], e[tgt], x, oS) /\ Wrote(app.eng["app"], e["app"], y, aS)
       /\ \A c \in Buffers \ {tgt, "app"} : app.eng[c] = e[c]
       /\ Elems(x) \subseteq Elems(m.keys) /\ Elems(y) \subseteq Elems(m.appKeys)
       /\ app.eng.store.valid = e.store.valid \ (Elems(x) \cup Elems(y))
  BY <1>9 DEF BothMoved
<1> HIDE DEF oS, aS
<1>11. StoreSound(free) /\ free.valid = app.eng.store.valid
  <2>1. StoreSound(app.eng.store) /\ 0 \in Nat
    BY <1>10 DEF SoundEngine
  <2>2. QED
    BY <2>1, StoreAfter
<1> HIDE DEF free
<1>12. SoundEngine(kept) /\ kept.store = free /\ \A c \in Buffers : kept[c] = app.eng[c]
  BY <1>10, <1>11, PutStore
<1> HIDE DEF kept
<1> DEFINE dFree == Buffer!SetKeyCount(Buffer!Del(kept[tgt], clear), Elems(oS), 0)
           aFree == Buffer!SetKeyCount(Buffer!Del(kept["app"], aClear), Elems(aS), 0)
           r == WithTwo(kept, tgt, dFree, "app", aFree)
<1>13. BufferSound(kept[tgt]) /\ BufferSound(kept["app"])
  BY <1>8, <1>12 DEF SoundEngine
<1>14. /\ Wrote(kept[tgt], e[tgt], x, oS) /\ Wrote(kept["app"], e["app"], y, aS)
       /\ \A c \in Buffers \ {tgt, "app"} : kept[c] = e[c]
  BY <1>8, <1>10, <1>12
<1>15. clear \subseteq Elems(oS) /\ aClear \subseteq Elems(aS)
  BY <1>7 DEF oS, aS
<1>16. Settled(dFree, e[tgt], x, oS) /\ BufferSound(dFree)
  <2> DEFINE w == kept[tgt]
             d == e[tgt]
  <2>1. BufferSound(w) /\ Wrote(w, d, x, oS) /\ clear \subseteq Elems(oS)
    BY <1>13, <1>14, <1>15
  <2> HIDE DEF w, d
  <2>2. /\ Settled(Buffer!SetKeyCount(Buffer!Del(w, clear), Elems(oS), 0), d, x, oS)
        /\ BufferSound(Buffer!SetKeyCount(Buffer!Del(w, clear), Elems(oS), 0))
    BY ONLY <2>1, ClearedAndFreed
  <2>3. QED
    BY <2>2 DEF w, d
<1>17. Settled(aFree, e["app"], y, aS) /\ BufferSound(aFree)
  <2> DEFINE w == kept["app"]
             d == e["app"]
  <2>1. BufferSound(w) /\ Wrote(w, d, y, aS) /\ aClear \subseteq Elems(aS)
    BY <1>13, <1>14, <1>15
  <2> HIDE DEF w, d
  <2>2. /\ Settled(Buffer!SetKeyCount(Buffer!Del(w, aClear), Elems(aS), 0), d, y, aS)
        /\ BufferSound(Buffer!SetKeyCount(Buffer!Del(w, aClear), Elems(aS), 0))
    BY ONLY <2>1, ClearedAndFreed
  <2>3. QED
    BY <2>2 DEF w, d
<1>18. eng' = [eng EXCEPT !["master"] = r]
  BY <1>5, <1>8, <1>12, EngineParts DEF WithTwo, SoundEngine, oS, aS
<1> HIDE DEF dFree, aFree
<1>19. /\ SoundEngine(r) /\ r.store = kept.store /\ r[tgt] = dFree /\ r["app"] = aFree
       /\ \A c \in Buffers \ {tgt, "app"} : r[c] = kept[c]
  BY <1>8, <1>12, <1>16, <1>17, PutTwo
<1> HIDE DEF r
<1>20. eng'["master"] = r /\ eng'["slave"] = eng["slave"]
  BY <1>1, <1>2, <1>18
<1>21. Answered(r, e, m, o, x, y)
  <2>1. /\ Settled(r[tgt], e[tgt], x, oS) /\ Settled(r["app"], e["app"], y, aS)
        /\ \A c \in Buffers \ {tgt, "app"} : r[c] = e[c]
    BY <1>14, <1>16, <1>17, <1>19
  <2>2. r.store.valid = e.store.valid \ (Elems(x) \cup Elems(y))
    BY <1>10, <1>11, <1>12, <1>19
  <2>3. QED
    BY <1>9, <1>10, <2>1, <2>2 DEF Answered, tgt, oS, aS
<1>22. QED
  BY <1>5, <1>20, <1>21 DEF e, m, o

(* What the master takes to be agreed the slave has already. *)
LEMMA RecvLoadAckAgree == IInv /\ Agree /\ WithinLists /\ RecvLoadAck => Agree'
<1> SUFFICES ASSUME IInv, Agree, WithinLists, RecvLoadAck PROVE Agree'
  OBVIOUS
<1> DEFINE m  == Head1("master")
           n  == Rest("master")
           g  == eng["master"]
           e  == eng["slave"]
           d  == delivered["slave"]
           p  == pending
           N  == used.offers
<1>1. /\ net \in [Side -> Seq(Message)] /\ net["master"] \in Seq(Message)
      /\ Loads(net) \subseteq Message /\ Acks(net) \subseteq Message
      /\ p \in [Kind -> Offer] /\ ListsSlots(p) /\ N \in Nat
  BY Parted
<1>2. /\ net["master"] # <<>> /\ "master" \in Side /\ "slave" \in Side
      /\ m.type = "LOAD-ACK"
      /\ net' = n /\ up' = up /\ delivered' = delivered /\ used' = used
  BY DEF RecvLoadAck, Receives, Side
<1>3. /\ Fewer(n, net) /\ m \in Elems(net["master"])
      /\ n["master"] = Tail(net["master"]) /\ n["slave"] = net["slave"]
  BY <1>1, <1>2, Received DEF Side
<1>4. m \in Acks(net) /\ m.kind \in Kind
  <2>1. m \in Acks(net)
    BY <1>2, <1>3 DEF Acks
  <2>2. QED
    BY <1>1, <2>1 DEF Message
<1>5. /\ Numbered(p, net, N) /\ Matched(p, net)
      /\ Ahead(g, net) /\ Acked(g, net) /\ Owned(g, p)
      /\ up["slave"] => Held(e, d, p, net) /\ Same(g, e, d)
      /\ ~up["slave"] => Emptied(e)
  BY DEF Agree
<1>6. /\ Numbered(p, n, N) /\ Matched(p, n)
      /\ Ahead(g, n) /\ Acked(g, n)
      /\ up["slave"] => Held(e, d, p, n)
  BY <1>3, <1>5, FewerMessages
<1>7. CASE p[m.kind].id # m.id
  <2>1. UNCHANGED <<eng, pending>>
    BY <1>7 DEF RecvLoadAck
  <2>2. QED
    BY <1>2, <1>5, <1>6, <2>1 DEF Agree
<1>8. CASE p[m.kind].id = m.id
  <2> DEFINE p2 == [p EXCEPT ![m.kind] = NoOffer]
             r == eng'["master"]
             o == p[m.kind]
  <2>1. /\ pending' = p2 /\ eng'["slave"] = e
        /\ \E x, y : Answered(r, g, m, o, x, y)
    BY <1>8, MasterAnswered
  <2>2. PICK x, y : Answered(r, g, m, o, x, y)
    BY <2>1
  <2>3. \A h \in Kind : p2[h] = p[h] \/ p2[h] = NoOffer
    BY <1>1
  <2>4. Acks(n) \subseteq Acks(net) /\ Acks(n) \subseteq Message
        /\ Loads(n) = Loads(net)
    BY <1>1, <1>3 DEF Fewer, Loads
  <2> HIDE DEF r
  <2>5. /\ Numbered(p2, n, N) /\ Matched(p2, n)
        /\ up["slave"] => Held(e, d, p2, n)
    <3> HIDE DEF p2, p, n, N, e, d
    <3>1. QED
      BY <1>1, <1>6, <2>3, <2>4, OffersDropped
  <2>6. Owned(r, p2)
    <3> DEFINE k == m.kind
               t == Target("master", k)
    <3>1. k \in Kind /\ k \in DOMAIN p
      BY <1>1, <1>4
    <3>2. /\ Settled(r["app"], g["app"], y, p[k].appSlots)
          /\ \A c \in Buffers \ {t, "app"} : r[c] = g[c]
      BY <2>2 DEF Answered
    <3>3. \A h \in Kind \ {k} : Target("master", h) \in Buffers \ {t, "app"}
      BY <3>1 DEF Kind, Target, Buffers
    <3>4. \A h \in Kind \ {k} : \A i \in Buffer!Id :
              r[Target("master", h)].cnt[i] = g[Target("master", h)].cnt[i]
      BY <3>2, <3>3
    <3>5. \A i \in Buffer!Id \ Elems(p[k].appSlots) : r["app"].cnt[i] = g["app"].cnt[i]
      BY <3>2 DEF Settled
    <3>6. Owned(r, [p EXCEPT ![k] = NoOffer])
      <4> HIDE DEF p, g, k
      <4>1. QED
        BY <1>1, <1>5, <3>1, <3>4, <3>5, OfferGivenUp
    <3>7. QED
      BY <3>6
  <2>7. Ahead(r, n)
    <3>1. Ahead(r, net)
      <4> HIDE DEF p, g, m, N
      <4>1. QED
        BY <1>1, <1>4, <1>5, <1>8, <2>2, AnsweredAhead
    <3>2. QED
      BY <1>3, <3>1, FewerMessages
  <2>8. Acked(r, n)
    <3>1. Ascending(net["master"])
      BY <1>5 DEF Numbered
    <3>2. \A a \in Elems(Tail(net["master"])) : Before(m, a)
      <4>1. m = net["master"][1]
        BY DEF Head1
      <4>2. QED
        BY <1>1, <1>2, <3>1, <4>1, TailOf
    <3>3. \A a \in Acks(n) : m.id < a.id
      BY <1>2, <1>3, <3>2 DEF Acks, Before
    <3>4. \A a \in Acks(n) : a.id \in 1 .. N
      BY <1>6 DEF Numbered
    <3>5. m.id \in 1 .. N
      BY <1>4, <1>5 DEF Numbered
    <3>6. \A a \in Acks(n) : a.id # m.id
      BY <1>1, <3>3, <3>4, <3>5
    <3> HIDE DEF n, m, g, o
    <3>7. QED
      BY <1>4, <1>5, <2>2, <2>4, <3>6, AnsweredAcked
  <2>9. up["slave"] => Same(r, e, d)
    <3> SUFFICES ASSUME up["slave"] PROVE Same(r, e, d)
      OBVIOUS
    <3>1. Held(e, d, p, net) /\ Same(g, e, d)
      BY <1>5
    <3> HIDE DEF p, g, m, e, d
    <3>2. QED
      BY <1>4, <1>5, <1>8, <2>2, <3>1, AnsweredSame
  <2>10. QED
    BY <1>2, <1>5, <2>1, <2>5, <2>6, <2>7, <2>8, <2>9 DEF Agree, r
<1>9. QED
  BY <1>7, <1>8

(* Every step keeps the agreement of the sides. *)
LEMMA NextAgree == IInv /\ Agree /\ WithinLists /\ [Next]_vars => Agree'
<1> SUFFICES ASSUME IInv, Agree, WithinLists, [Next]_vars PROVE Agree'
  OBVIOUS
<1>1. CASE UNCHANGED vars
  BY <1>1, StutterAgree DEF vars
<1>2. CASE Connect
  BY <1>2, ConnectAgree
<1>3. ASSUME NEW s \in Side, SocketError(s) PROVE Agree'
  BY <1>3, SocketErrorAgree
<1>4. ASSUME NEW s \in Side, ReopenStore(s) PROVE Agree'
  BY <1>4, ReopenAgree
<1>5. ASSUME NEW s \in Side, Produce(s) PROVE Agree'
  BY <1>5, ProduceAgree
<1>6. CASE RunLoad
  BY <1>6, RunLoadAgree
<1>7. CASE RunLoadRequest
  BY <1>7, RunLoadRequestAgree
<1>8. CASE RecvLoadReq
  BY <1>8, RecvLoadReqAgree
<1>9. CASE RecvLoad
  BY <1>9, RecvLoadAgree
<1>10. CASE RecvLoadAck
  BY <1>10, RecvLoadAckAgree
<1>11. ASSUME NEW k \in Kind, Timeout(k) PROVE Agree'
  BY <1>11, TimeoutAgree
<1>12. QED
  BY <1>1, <1>2, <1>3, <1>4, <1>5, <1>6, <1>7, <1>8, <1>9, <1>10, <1>11 DEF Next

-----------------------------------------------------------------------------
(* The sides agree as long as the master clears slots of its offers only   *)
(* (load.cpp:384-392): the offers, the messages under way and the buffers  *)
(* of both sides fit together whatever is lost, late or given up.          *)
THEOREM Agreement == Spec /\ []WithinLists => []Agree
<1>1. Init => Agree
  BY InitAgree
<1>2. IInv /\ Agree /\ WithinLists /\ [Next]_vars => Agree'
  BY NextAgree
<1>3. QED
  BY <1>1, <1>2, Invariance, PTL DEF Spec

(* A slot in real sync on both sides holds the same key material on both:  *)
(* the slave writes where the master holds nothing as agreed, and what the *)
(* master takes to be agreed on a LOAD-ACK (load.cpp:374-375) the slave    *)
(* has, also when offers time out, sends fail or a LOAD-ACK is late.       *)
THEOREM SidesAgree == Spec /\ []WithinLists => []RealSlotsAgree
<1>1. IInv /\ Agree => RealSlotsAgree
  <2> SUFFICES ASSUME IInv, Agree, NEW b \in Buffers, NEW i \in Buffer!Id,
                      i \in eng["master"][b].real, i \in eng["slave"][Mirror(b)].real
               PROVE  eng["master"][b].data[i] = eng["slave"][Mirror(b)].data[i]
    BY DEF RealSlotsAgree
  <2> DEFINE w == eng["slave"][Mirror(b)]
  <2>1. BufferSound(w)
    <3>1. Mirror(b) \in Buffers /\ SoundEngine(eng["slave"])
      BY Parted DEF Mirror, Buffers
    <3>2. QED
      BY <3>1 DEF SoundEngine
  <2>2. i \in w.valid
    <3>1. i \in w.real
      OBVIOUS
    <3> HIDE DEF w
    <3>2. QED
      BY <2>1, <3>1, BufferSync
  <2>3. Has(eng["slave"], delivered["slave"], b, i, eng["master"][b].data[i])
    <3>1. Mirror(b) \in Buffers
      BY DEF Mirror, Buffers
    <3>2. up["slave"]
      BY <2>2, <3>1 DEF Agree, Emptied
    <3>3. QED
      BY <3>2 DEF Agree, Same
  <2>4. QED
    BY <2>2, <2>3 DEF Has
<1>2. QED
  BY <1>1, Invariance, Agreement, PTL

(* What a pending offer lists is its own: its slots stay reserved at the   *)
(* master until it is answered or given up, no other offer has them, and   *)
(* its two parts have no common store key in common (load.cpp:498-535,     *)
(* load_request.cpp:502-539).                                              *)
THEOREM OffersOwn == Spec /\ []WithinLists => []OffersOwnWhatTheyList
<1>1. IInv /\ Agree => OffersOwnWhatTheyList
  <2> SUFFICES ASSUME IInv, Agree PROVE OffersOwnWhatTheyList
    OBVIOUS
  <2>1. eng["master"]["app"] = eng["master"].app
    BY Parted, EngineParts DEF SoundEngine
  <2>2. QED
    BY <2>1 DEF Agree, Owned, OffersOwnWhatTheyList
<1>2. QED
  BY <1>1, Invariance, Agreement, PTL

(* With no message under way, no offer pending and nothing handed out by   *)
(* the slave it has, slot for slot, what the master holds as agreed        *)
(* (load.cpp:374-392): what the master sends with it the slave can read.   *)
THEOREM SlaveCanRead == Spec /\ []WithinLists => []SlaveHasWhatIsReal
<1>1. IInv /\ Agree => SlaveHasWhatIsReal
  <2> SUFFICES ASSUME IInv, Agree, Quiet, NEW b \in Buffers, NEW i \in eng["master"][b].real
               PROVE  /\ i \in eng["slave"][Mirror(b)].valid
                      /\ eng["master"][b].data[i] = eng["slave"][Mirror(b)].data[i]
    BY DEF SlaveHasWhatIsReal
  <2>1. up["slave"] /\ delivered["slave"] = <<>>
    BY DEF Quiet, Side
  <2>2. Has(eng["slave"], delivered["slave"], b, i, eng["master"][b].data[i])
    BY <2>1 DEF Agree, Same
  <2>3. QED
    BY <2>1, <2>2 DEF Has
<1>2. QED
  BY <1>1, Invariance, Agreement, PTL
==============================================================================
