--------------------------- MODULE KeyStore_proofs ---------------------------
(***************************************************************************)
(* Theorems about a key database in use, for every number of slots, key    *)
(* size, set of materials and set of requests.  The lemmas about single    *)
(* operations are those of KeyDB_proofs.                                   *)
(***************************************************************************)
EXTENDS KeyStore, KeyDB_proofs

(* The inductive invariant: the database is sound, i.e. TypeOK, CountExact *)
(* and FlagsConsistent hold of it.  None of the three is inductive alone:  *)
(* the totals count members of sets of slots, and count_real_sync() stays  *)
(* above the number of real keys only as long as real keys are valid.      *)
IInv == Sound(db) /\ ret.asked \in Nat /\ ret.ids \in Seq(Nat)

(* A list of slots is a sequence of numbers.                               *)
LEMMA SlotListType ==
    ASSUME NEW c \in Id, NEW S \in SUBSET Id
    PROVE  Along(c, S) \in Seq(Nat)
<1>1. Id \subseteq Nat
  BY AmountAssumption DEF Id
<1>2. Along(c, S) \in [1 .. Cardinality(S) -> S] /\ Cardinality(S) \in Nat
  BY AlongIsList, SlotsFinite
<1>3. Along(c, S) \in [1 .. Cardinality(S) -> Nat]
  BY <1>1, <1>2
<1>4. QED
  BY <1>2, <1>3 DEF Seq

(* A call that leaves the database sound keeps the inductive invariant.    *)
LEMMA RepliesKeepInvariant ==
    ASSUME NEW op, NEW asked \in Nat, NEW r,
           Sound(r.db), r.ids \in Seq(Nat), Replies(op, asked, r)
    PROVE  IInv'
BY DEF Replies, IInv, Sound, CountRight, FlagsRight, Database

(* The same for a call that returns no slots.                              *)
LEMMA ChangesKeepInvariant ==
    ASSUME NEW d, Sound(d), Changes(d)
    PROVE  IInv'
<1> DEFINE r == [db |-> d, ids |-> <<>>]
<1>1. r.db = d /\ r.ids \in Seq(Nat) /\ Replies("change", 0, r)
  BY DEF Changes
<1>2. QED
  BY <1>1, RepliesKeepInvariant

(* The fresh database of db_ram::init is sound.                            *)
LEMMA InitInvariant == Init => IInv
<1>1. Sound(Empty)
  BY EmptySound
<1>2. QED
  BY <1>1 DEF Init, IInv

(* Every call of the database keeps the inductive invariant.               *)
LEMMA NextInvariant == IInv /\ [Next]_vars => IInv'
<1> SUFFICES ASSUME IInv, [Next]_vars
             PROVE  IInv'
  OBVIOUS
<1>1. Sound(db)
  BY DEF IInv
<1>2. 0 \in Id /\ db.picked \in Id
  BY <1>1, SoundFinite, AmountAssumption DEF Id
<1>3. \A s \in Sizes, n \in Counts : s \in Nat /\ n \in Nat
  BY SizesAssumption, CountsAssumption
<1>4. CASE DelKey
  <2>1. PICK i \in Id : Changes(Del(db, {i}))
    BY <1>4 DEF DelKey
  <2>2. Sound(Del(db, {i}))
    BY <1>1, DelSound
  <2>3. QED
    BY <2>1, <2>2, ChangesKeepInvariant
<1>5. CASE SetAKey
  <2>1. PICK i \in Id, m \in Material, size \in Sizes : Changes(SetKey(db, i, m, size))
    BY <1>5 DEF SetAKey
  <2>2. Sound(SetKey(db, i, m, size))
    BY <1>1, SetKeySound
  <2>3. QED
    BY <2>1, <2>2, ChangesKeepInvariant
<1>6. CASE SetCount
  <2>1. PICK i \in Id, n \in Counts : Changes(SetKeyCount(db, {i}, n))
    BY <1>6 DEF SetCount
  <2>2. Sound(SetKeyCount(db, {i}, n))
    BY <1>1, <1>3, SetKeyCountSound, CountsAssumption
  <2>3. QED
    BY <2>1, <2>2, ChangesKeepInvariant
<1>7. CASE SetReal
  <2>1. PICK i \in Id : Changes(SetRealSync(db, {i}))
    BY <1>7 DEF SetReal
  <2>2. Sound(SetRealSync(db, {i}))
    BY <1>1, SetRealSyncSound
  <2>3. QED
    BY <2>1, <2>2, ChangesKeepInvariant
<1>8. CASE SetEventual
  <2>1. PICK i \in Id : Changes(SetEventualSync(db, {i}))
    BY <1>8 DEF SetEventual
  <2>2. Sound(SetEventualSync(db, {i}))
    BY <1>1, SetEventualSyncSound
  <2>3. QED
    BY <2>1, <2>2, ChangesKeepInvariant
<1>9. CASE SetInject
  <2>1. PICK i \in Id : Changes(SetInjected(db, {i}))
    BY <1>9 DEF SetInject
  <2>2. Sound(SetInjected(db, {i}))
    BY <1>1, SetInjectedSound
  <2>3. QED
    BY <2>1, <2>2, ChangesKeepInvariant
<1>10. CASE FindSpareKeys
  <2>1. PICK s \in Sizes, n \in Counts : Replies("find_spare", s, FindSpare(db, s, n))
    BY <1>10 DEF FindSpareKeys
  <2>2. s \in Nat /\ n \in Nat
    BY <1>3
  <2>3. PICK S \in SUBSET Id : SparesFound(db, s, n, S)
    BY <1>1, <2>2, FindSpareResult
  <2>4. Sound(FindSpare(db, s, n).db) /\ FindSpare(db, s, n).ids \in Seq(Nat)
    BY <1>1, <1>2, <2>2, <2>3, ReserveSound, SlotListType DEF SparesFound
  <2>5. QED
    BY <2>1, <2>2, <2>4, RepliesKeepInvariant
<1>11. CASE FindValidKeys
  <2>1. PICK s \in Sizes, n \in Counts : Replies("find_valid", s, FindValid(db, s, n))
    BY <1>11 DEF FindValidKeys
  <2>2. s \in Nat /\ n \in Nat
    BY <1>3
  <2>3. PICK S \in SUBSET Id, p \in Id : KeysFound(db, s, n, S, p)
    BY <1>1, <2>2, FindValidResult
  <2>4. Sound(Reserve(db, S, n))
    BY <1>1, <2>2, ReserveSound
  <2>5. Sound(FindValid(db, s, n).db)
    BY <2>3, <2>4, CursorAtSound DEF KeysFound
  <2>6. FindValid(db, s, n).ids \in Seq(Nat)
    BY <1>2, <2>3, SlotListType DEF KeysFound
  <2>7. QED
    BY <2>1, <2>2, <2>5, <2>6, RepliesKeepInvariant
<1>12. CASE FindContinuousKeys
  <2>1. PICK s \in Sizes, n \in Counts :
          Replies("find_continuous", s, FindContinuous(db, s, n))
    BY <1>12 DEF FindContinuousKeys
  <2>2. s \in Nat /\ n \in Nat
    BY <1>3
  <2>3. PICK S \in SUBSET Id : RunFound(db, s, n, S)
    BY <1>1, <2>2, FindContinuousResult
  <2>4. Sound(FindContinuous(db, s, n).db) /\ FindContinuous(db, s, n).ids \in Seq(Nat)
    BY <1>1, <1>2, <2>2, <2>3, SetKeyCountSound, SlotListType DEF RunFound
  <2>5. QED
    BY <2>1, <2>2, <2>4, RepliesKeepInvariant
<1>13. CASE InsertKey
  <2>1. PICK m \in Material, size \in Sizes, beyond \in db.inserted + 1 .. Amount + Overrun :
          Replies("insert", size, [db |-> Insert(db, m, size, beyond).db,
                                   ids |-> <<Insert(db, m, size, beyond).id>>])
    BY <1>13 DEF InsertKey
  <2>2. size \in Nat /\ beyond \in Nat
    BY <1>1, <1>3, SoundFinite, SizesAssumption, AmountAssumption, OverrunAssumption
  <2>3. Sound(Insert(db, m, size, beyond).db) /\ Insert(db, m, size, beyond).id \in Nat
    BY <1>1, <2>2, InsertSound
  <2>4. <<Insert(db, m, size, beyond).id>> \in Seq(Nat)
    BY <2>3
  <2>5. QED
    BY <2>1, <2>2, <2>3, <2>4, RepliesKeepInvariant
<1>14. CASE ResetDB
  BY <1>1, <1>14, ResetSound, ChangesKeepInvariant DEF ResetDB
<1>15. CASE UNCHANGED vars
  BY <1>15 DEF vars, IInv
<1>16. QED
  BY <1>4, <1>5, <1>6, <1>7, <1>8, <1>9, <1>10, <1>11, <1>12, <1>13, <1>14, <1>15 DEF Next

(* The inductive invariant holds of every reachable state: whatever the    *)
(* order of the calls of db_ram, the table, the flags and the totals fit.  *)
THEOREM Invariance == Spec => []IInv
BY InitInvariant, NextInvariant, PTL DEF Spec

(* The database always has its type, and a call returns slot numbers.      *)
THEOREM TypeCorrect == Spec => []TypeOK
<1>1. IInv => TypeOK
  BY DEF IInv, Sound, TypeOK
<1>2. QED
  BY <1>1, Invariance, PTL

(* count() is exact, however calls follow each other: the total kept one   *)
(* call at a time (db_ram.cpp:124, 573) is what a scan would find.         *)
THEOREM CountIsExact == Spec => []CountExact
<1>1. IInv => CountExact
  BY DEF IInv, Sound, CountRight, CountExact
<1>2. QED
  BY <1>1, Invariance, PTL

(* The flags of a key always make sense together, and count_real_sync()    *)
(* never says too few.                                                     *)
THEOREM FlagsAreConsistent == Spec => []FlagsConsistent
<1>1. IInv => FlagsConsistent
  BY DEF IInv, Sound, FlagsRight, FlagsConsistent
<1>2. QED
  BY <1>1, Invariance, PTL

-----------------------------------------------------------------------------
(* What a single call may never do.                                        *)

(* What a call recorded is what its operation returned.                    *)
LEMMA ReplyOf ==
    ASSUME NEW op, NEW asked, NEW r, Replies(op, asked, r)
    PROVE  /\ db' = r.db
           /\ ret'.op = op /\ ret'.asked = asked /\ ret'.ids = r.ids
BY DEF Replies

(* Every call but the three searches and insert is recorded as a change.   *)
LEMMA OtherCalls ==
    ASSUME \/ DelKey \/ SetAKey \/ SetCount \/ SetReal \/ SetEventual
           \/ SetInject \/ ResetDB
    PROVE  ret'.op = "change" /\ ret'.asked = 0
<1>1. \A d : Changes(d) => ret'.op = "change" /\ ret'.asked = 0
  BY DEF Changes, Replies
<1>2. \E d : Changes(d)
  BY DEF DelKey, SetAKey, SetCount, SetReal, SetEventual, SetInject, ResetDB
<1>3. QED
  BY <1>1, <1>2

(* A call of insert is recorded under its name.                            *)
LEMMA InsertCall ==
    ASSUME InsertKey
    PROVE  ret'.op = "insert"
BY DEF InsertKey, Replies

(* The slots of a list that enumerates a set are that set, each once.      *)
LEMMA FoundSlots ==
    ASSUME NEW c \in Id, NEW S \in SUBSET Id, ret'.ids = Along(c, S)
    PROVE  Found' = S /\ Len(ret'.ids) = Cardinality(S) /\ Cardinality(S) \in Nat
BY AlongIsList, SlotsFinite DEF Found

(* The last key of an answer starts within the bytes asked for. *)
LEMMA WithinBytes ==
    ASSUME NEW bytes \in Nat, NEW k \in Nat,
           \/ k * Quantum <= bytes
           \/ k \in {0, (bytes + Quantum - 1) \div Quantum}
    PROVE  (k - 1) * Quantum < bytes
<1>1. Quantum \in Nat /\ Quantum > 0
  BY QuantumAssumption
<1>2. (k - 1) * Quantum = k * Quantum - Quantum /\ k * Quantum \in Nat
  BY <1>1
<1>3. CASE k * Quantum <= bytes
  BY <1>1, <1>2, <1>3
<1>4. CASE k = 0
  BY <1>1, <1>2, <1>4
<1>5. CASE k = (bytes + Quantum - 1) \div Quantum
  <2>1. bytes + Quantum - 1 \in Nat
    BY <1>1
  <2>2. k * Quantum <= bytes + Quantum - 1
    BY <1>5, <2>1, WholeKeys
  <2>3. QED
    BY <1>1, <1>2, <2>2
<1>6. QED
  BY <1>3, <1>4, <1>5

(* The two properties of the searches hold of every step.                  *)
LEMMA SearchStep == IInv /\ [Next]_vars => [HandsOutFreshSlots /\ ShortAnswersExhaust]_vars
<1> SUFFICES ASSUME IInv, Next
             PROVE  HandsOutFreshSlots /\ ShortAnswersExhaust
  BY DEF vars
<1>1. Sound(db)
  BY DEF IInv
<1>2. /\ 0 \in Id /\ db.picked \in Id /\ db.valid \in SUBSET Id
      /\ \A s \in Sizes, n \in Counts : s \in Nat /\ n \in Nat
  BY <1>1, SoundFinite, AmountAssumption, SizesAssumption, CountsAssumption DEF Id
<1>3. CASE FindSpareKeys
  <2>1. PICK s \in Sizes, n \in Counts : Replies("find_spare", s, FindSpare(db, s, n))
    BY <1>3 DEF FindSpareKeys
  <2>2. s \in Nat /\ n \in Nat
    BY <1>2
  <2>3. PICK S \in SUBSET Id : SparesFound(db, s, n, S)
    BY <1>1, <2>2, FindSpareResult
  <2>4. ret'.op = "find_spare" /\ ret'.asked = s /\ ret'.ids = Along(0, S)
    BY <2>1, <2>3, ReplyOf DEF SparesFound
  <2>5. Found' = S /\ Len(ret'.ids) = Cardinality(S) /\ Cardinality(S) \in Nat
    BY <1>2, <2>4, FoundSlots
  <2>6. (Cardinality(S) - 1) * Quantum < s
    BY <2>2, <2>3, WithinBytes DEF SparesFound
  <2>7. HandsOutFreshSlots
    BY <2>3, <2>4, <2>5, <2>6 DEF HandsOutFreshSlots, SparesFound
  <2>8. ShortAnswersExhaust
    BY <2>3, <2>4, <2>5 DEF ShortAnswersExhaust, SparesFound
  <2>9. QED
    BY <2>7, <2>8
<1>4. CASE FindValidKeys
  <2>1. PICK s \in Sizes, n \in Counts : Replies("find_valid", s, FindValid(db, s, n))
    BY <1>4 DEF FindValidKeys
  <2>2. s \in Nat /\ n \in Nat
    BY <1>2
  <2>3. PICK S \in SUBSET Id, p \in Id : KeysFound(db, s, n, S, p)
    BY <1>1, <2>2, FindValidResult
  <2>4. ret'.op = "find_valid" /\ ret'.asked = s /\ ret'.ids = Along(db.picked, S)
    BY <2>1, <2>3, ReplyOf DEF KeysFound
  <2>5. Found' = S /\ Len(ret'.ids) = Cardinality(S) /\ Cardinality(S) \in Nat
    BY <1>2, <2>4, FoundSlots
  <2>6. (Cardinality(S) - 1) * Quantum < s
    BY <2>2, <2>3, WithinBytes DEF KeysFound
  <2>7. HandsOutFreshSlots
    BY <2>3, <2>4, <2>5, <2>6 DEF HandsOutFreshSlots, KeysFound
  <2>8. ShortAnswersExhaust
    BY <2>3, <2>4, <2>5 DEF ShortAnswersExhaust, KeysFound
  <2>9. QED
    BY <2>7, <2>8
<1>5. CASE FindContinuousKeys
  <2>1. PICK s \in Sizes, n \in Counts :
          Replies("find_continuous", s, FindContinuous(db, s, n))
    BY <1>5 DEF FindContinuousKeys
  <2>2. s \in Nat /\ n \in Nat
    BY <1>2
  <2>3. PICK S \in SUBSET Id : RunFound(db, s, n, S)
    BY <1>1, <2>2, FindContinuousResult
  <2>4. ret'.op = "find_continuous" /\ ret'.asked = s /\ ret'.ids = Along(0, S)
    BY <2>1, <2>3, ReplyOf DEF RunFound
  <2>5. Found' = S /\ Len(ret'.ids) = Cardinality(S) /\ Cardinality(S) \in Nat
    BY <1>2, <2>4, FoundSlots
  <2>6. (Cardinality(S) - 1) * Quantum < s
    BY <2>2, <2>3, <2>5, WithinBytes DEF RunFound
  <2>7. HandsOutFreshSlots
    BY <2>3, <2>4, <2>5, <2>6 DEF HandsOutFreshSlots, RunFound
  <2>8. ShortAnswersExhaust
    BY <2>4 DEF ShortAnswersExhaust
  <2>9. QED
    BY <2>7, <2>8
<1>6. CASE InsertKey
  BY <1>6, InsertCall DEF HandsOutFreshSlots, ShortAnswersExhaust, Searches
<1>7. CASE \/ DelKey \/ SetAKey \/ SetCount \/ SetReal \/ SetEventual
           \/ SetInject \/ ResetDB
  BY <1>7, OtherCalls DEF HandsOutFreshSlots, ShortAnswersExhaust, Searches
<1>8. QED
  BY <1>3, <1>4, <1>5, <1>6, <1>7 DEF Next

(* A slot a search hands out is one nobody else holds (db_ram.cpp:158-282) *)
THEOREM SlotsHandedOutOnce == Spec => NoSlotHandedOutTwice
<1>1. IInv /\ [Next]_vars => [HandsOutFreshSlots]_vars
  BY SearchStep
<1>2. QED
  BY <1>1, Invariance, PTL DEF Spec, NoSlotHandedOutTwice

(* A search that answers with less than it was asked for has left at most  *)
(* the one slot at its cursor (db_ram.cpp:204-282).                        *)
THEOREM SearchesAreExhaustive == Spec => ShortAnswerMeansExhausted
<1>1. IInv /\ [Next]_vars => [ShortAnswersExhaust]_vars
  BY SearchStep
<1>2. QED
  BY <1>1, Invariance, PTL DEF Spec, ShortAnswerMeansExhausted

(* Every step leaves the stored keys to insert as they were.               *)
LEMMA InsertStep == IInv /\ [Next]_vars => [InsertLeavesKeys]_vars
<1> SUFFICES ASSUME IInv, Next
             PROVE  InsertLeavesKeys
  BY DEF vars
<1>1. Sound(db) /\ db \in Database
  BY DEF IInv, Sound
<1>2. CASE InsertKey
  <2>1. PICK m \in Material, size \in Sizes, beyond \in db.inserted + 1 .. Amount + Overrun :
          Replies("insert", size, [db |-> Insert(db, m, size, beyond).db,
                                   ids |-> <<Insert(db, m, size, beyond).id>>])
    BY <1>2 DEF InsertKey
  <2> DEFINE r == Insert(db, m, size, beyond)
             s == InsertSlot(db)
  <2>2. db' = r.db /\ ret'.ids[1] = r.id
    BY <2>1, ReplyOf
  <2>3. beyond > db.inserted /\ beyond \in Int /\ db.inserted \in Nat
    BY <1>1, SoundFinite, AmountAssumption, OverrunAssumption
  <2>4. CASE r.db = db /\ r.id = 0
    BY <2>2, <2>4 DEF InsertLeavesKeys
  <2>5. CASE Overruns(db) /\ r.db = [db EXCEPT !.inserted = beyond] /\ r.id = beyond
    <3>1. r.id \notin Id
      BY <2>3, <2>5, AmountAssumption DEF Overruns, Id
    <3>2. r.db.valid = db.valid /\ r.db.data = db.data /\ r.db.cnt = db.cnt
      BY <1>1, <2>5 DEF Database
    <3>3. QED
      BY <2>2, <3>1, <3>2 DEF InsertLeavesKeys
  <2>6. CASE /\ size = Quantum /\ ~Overruns(db) /\ FreeAhead(db) # {}
             /\ r.db = [SetKey(db, s, m, size) EXCEPT !.inserted = s] /\ r.id = s
    <3>1. s \in Id \ db.valid
      BY <1>1, <2>6, InsertSlotFree
    <3>2. SetKey(db, s, m, size) = SetKeys(db, [j \in {s} |-> m])
      BY <2>6, QuantumAssumption DEF SetKey
    <3>3. Id \cap DOMAIN [j \in {s} |-> m] = {s}
      BY <3>1
    <3>4. /\ r.db.valid = db.valid \cup {s}
          /\ \A i \in Id \ {s} : r.db.data[i] = db.data[i] /\ r.db.cnt[i] = db.cnt[i]
      BY <1>1, <2>6, <3>2, <3>3 DEF SetKeys, Database
    <3>5. db.valid \in SUBSET (Id \ {s})
      BY <1>1, <3>1, SoundFinite
    <3>6. QED
      BY <2>2, <2>6, <3>1, <3>4, <3>5 DEF InsertLeavesKeys
  <2>7. QED
    BY <2>4, <2>5, <2>6 DEF Insert
<1>3. CASE FindSpareKeys
  <2>1. ret'.op = "find_spare"
    BY <1>3 DEF FindSpareKeys, Replies
  <2>2. QED
    BY <2>1 DEF InsertLeavesKeys
<1>4. CASE FindValidKeys
  <2>1. ret'.op = "find_valid"
    BY <1>4 DEF FindValidKeys, Replies
  <2>2. QED
    BY <2>1 DEF InsertLeavesKeys
<1>5. CASE FindContinuousKeys
  <2>1. ret'.op = "find_continuous"
    BY <1>5 DEF FindContinuousKeys, Replies
  <2>2. QED
    BY <2>1 DEF InsertLeavesKeys
<1>6. CASE \/ DelKey \/ SetAKey \/ SetCount \/ SetReal \/ SetEventual
           \/ SetInject \/ ResetDB
  BY <1>6, OtherCalls DEF InsertLeavesKeys
<1>7. QED
  BY <1>2, <1>3, <1>4, <1>5, <1>6 DEF Next

(* insert leaves every stored key as it was, even with its cursor behind   *)
(* the table (db_ram.cpp:376-407).                                         *)
THEOREM InsertIsHarmless == Spec => InsertDisturbsNoKey
BY InsertStep, Invariance, PTL DEF Spec, InsertDisturbsNoKey

-----------------------------------------------------------------------------
(* The database implements the pool.                                       *)

(* What the operations do to the two variables of the pool.                *)
LEMMA PoolType ==
    ASSUME NEW d, Sound(d)
    PROVE  /\ StoredIn(d) \in [Id -> Material \cup {NoMaterial}]
           /\ HeldIn(d) \in SUBSET Id
           /\ \A i \in Id : StoredIn(d)[i] = NoMaterial <=> i \notin d.valid
BY SoundFinite, MaterialAssumption DEF Sound, FlagsRight, StoredIn, HeldIn

(* Setting a counter is a mark of the pool.                                *)
LEMMA PoolAfterCount ==
    ASSUME NEW d, Sound(d), NEW S \in SUBSET Id, NEW n \in Nat
    PROVE  /\ StoredIn(SetKeyCount(d, S, n)) = StoredIn(d)
           /\ HeldIn(SetKeyCount(d, S, n)) =
                IF CountValue(n) = 0 THEN HeldIn(d) \ S ELSE HeldIn(d) \cup S
<1> DEFINE e == SetKeyCount(d, S, n)
<1>1. /\ e.valid = d.valid /\ e.data = d.data
      /\ \A i \in Id : e.cnt[i] = IF i \in S THEN CountValue(n) ELSE d.cnt[i]
  BY DEF Sound, Database, SetKeyCount
<1> HIDE DEF e
<1>2. StoredIn(e) = StoredIn(d)
  BY <1>1 DEF StoredIn
<1>3. HeldIn(e) = IF CountValue(n) = 0 THEN HeldIn(d) \ S ELSE HeldIn(d) \cup S
  BY <1>1 DEF HeldIn
<1>4. QED
  BY <1>2, <1>3 DEF e

(* Deleting a key is a drop of the pool.                                   *)
LEMMA PoolAfterDel ==
    ASSUME NEW d, Sound(d), NEW i \in Id
    PROVE  /\ StoredIn(Del(d, {i})) = [StoredIn(d) EXCEPT ![i] = NoMaterial]
           /\ HeldIn(Del(d, {i})) = HeldIn(d) \ {i}
<1> DEFINE e == Del(d, {i})
<1>1. /\ e.valid = d.valid \ {i}
      /\ \A j \in Id \ {i} : e.data[j] = d.data[j]
      /\ \A j \in Id : e.cnt[j] = IF j = i THEN 0 ELSE d.cnt[j]
  BY DEF Sound, Database, Del
<1> HIDE DEF e
<1>2. StoredIn(e) = [StoredIn(d) EXCEPT ![i] = NoMaterial]
  BY <1>1 DEF StoredIn
<1>3. HeldIn(e) = HeldIn(d) \ {i}
  BY <1>1 DEF HeldIn
<1>4. QED
  BY <1>2, <1>3 DEF e

(* Storing a key is a store of the pool.                                   *)
LEMMA PoolAfterSet ==
    ASSUME NEW d, Sound(d), NEW i \in Id, NEW m \in Material
    PROVE  /\ StoredIn(SetKeys(d, [j \in {i} |-> m])) = [StoredIn(d) EXCEPT ![i] = m]
           /\ HeldIn(SetKeys(d, [j \in {i} |-> m])) = HeldIn(d) \ {i}
<1> DEFINE e == SetKeys(d, [j \in {i} |-> m])
<1>1. Id \cap DOMAIN [j \in {i} |-> m] = {i}
  OBVIOUS
<1>2. /\ e.valid = d.valid \cup {i}
      /\ \A j \in Id : e.data[j] = IF j = i THEN m ELSE d.data[j]
      /\ \A j \in Id : e.cnt[j] = IF j = i THEN 0 ELSE d.cnt[j]
  BY <1>1 DEF Sound, Database, SetKeys
<1> HIDE DEF e
<1>3. StoredIn(e) = [StoredIn(d) EXCEPT ![i] = m]
  BY <1>2 DEF StoredIn
<1>4. HeldIn(e) = HeldIn(d) \ {i}
  BY <1>2 DEF HeldIn
<1>5. QED
  BY <1>3, <1>4 DEF e

(* Flags, cursors and totals are nothing to the pool.                      *)
LEMMA PoolUnmoved ==
    ASSUME NEW d, NEW e, e.valid = d.valid, e.data = d.data, e.cnt = d.cnt
    PROVE  StoredIn(e) = StoredIn(d) /\ HeldIn(e) = HeldIn(d)
BY DEF StoredIn, HeldIn

(* A search that reserves what it finds takes hold of it, or of nothing.   *)
LEMMA PoolHold ==
    ASSUME Sound(db), NEW S \in SUBSET Id, NEW n \in Nat,
           \A i \in S : db.cnt[i] = 0,
           S \subseteq db.valid \/ S \cap db.valid = {},
           StoredIn(db') = StoredIn(SetKeyCount(db, S, n)),
           HeldIn(db') = HeldIn(SetKeyCount(db, S, n))
    PROVE  [Pool!PoolNext]_(Pool!poolVars)
<1>1. S \in SUBSET (Id \ HeldIn(db))
  BY DEF HeldIn
<1>2. StoredIn(db') = StoredIn(db)
      /\ HeldIn(db') = IF CountValue(n) = 0 THEN HeldIn(db) \ S ELSE HeldIn(db) \cup S
  BY PoolAfterCount
<1>3. CASE CountValue(n) = 0
  <2>1. HeldIn(db') = HeldIn(db)
    BY <1>1, <1>2, <1>3
  <2>2. QED
    BY <1>2, <2>1 DEF Pool!poolVars
<1>4. CASE CountValue(n) # 0
  <2>1. \/ S \subseteq {i \in Id : StoredIn(db)[i] = NoMaterial}
        \/ S \cap {i \in Id : StoredIn(db)[i] = NoMaterial} = {}
    BY PoolType
  <2>2. Pool!Hold(S)
    BY <1>1, <1>2, <1>4, <2>1 DEF Pool!Hold, Pool!Free
  <2>3. QED
    BY <2>2 DEF Pool!PoolNext
<1>5. QED
  BY <1>3, <1>4

(* What a search reserves, the pool holds.                                 *)
LEMMA PoolHoldReserved ==
    ASSUME Sound(db), NEW S \in SUBSET Id, NEW n \in Nat,
           \A i \in S : db.cnt[i] = 0,
           S \subseteq db.valid \/ S \cap db.valid = {},
           StoredIn(db') = StoredIn(Reserve(db, S, n)),
           HeldIn(db') = HeldIn(Reserve(db, S, n))
    PROVE  [Pool!PoolNext]_(Pool!poolVars)
<1>1. CASE n = 0
  BY <1>1 DEF Reserve, Pool!poolVars
<1>2. CASE n # 0
  BY <1>2, PoolHold DEF Reserve
<1>3. QED
  BY <1>1, <1>2

(* Every call of the database is a step of the pool or a stutter.          *)
LEMMA PoolStep == IInv /\ [Next]_vars => [Pool!PoolNext]_(Pool!poolVars)
<1> SUFFICES ASSUME IInv, [Next]_vars
             PROVE  [Pool!PoolNext]_(Pool!poolVars)
  OBVIOUS
<1>1. Sound(db) /\ db \in Database
  BY DEF IInv, Sound
<1>2. \A d : Changes(d) => db' = d
  BY DEF Changes, Replies
<1>3. \A s \in Sizes, n \in Counts : s \in Nat /\ n \in Nat
  BY SizesAssumption, CountsAssumption
<1>4. CASE DelKey
  <2>1. PICK i \in Id : db' = Del(db, {i})
    BY <1>2, <1>4 DEF DelKey
  <2>2. Pool!Drop(i)
    BY <1>1, <2>1, PoolAfterDel DEF Pool!Drop
  <2>3. QED
    BY <2>2 DEF Pool!PoolNext
<1>5. CASE SetAKey
  <2>1. PICK i \in Id, m \in Material, size \in Sizes : db' = SetKey(db, i, m, size)
    BY <1>2, <1>5 DEF SetAKey
  <2>2. CASE size < Quantum
    BY <2>1, <2>2 DEF SetKey, Pool!poolVars
  <2>3. CASE ~(size < Quantum)
    <3>1. db' = SetKeys(db, [j \in {i} |-> m])
      BY <2>1, <2>3 DEF SetKey
    <3>2. Pool!Store(i, m)
      BY <1>1, <3>1, PoolAfterSet DEF Pool!Store
    <3>3. QED
      BY <3>2 DEF Pool!PoolNext
  <2>4. QED
    BY <2>2, <2>3
<1>6. CASE SetCount
  <2>1. PICK i \in Id, n \in Counts : db' = SetKeyCount(db, {i}, n)
    BY <1>2, <1>6 DEF SetCount
  <2>2. {i} \in SUBSET Id /\ n \in Nat
    BY <1>3, CountsAssumption
  <2>3. Pool!Mark(i, CountValue(n) # 0)
    BY <1>1, <2>1, <2>2, PoolAfterCount DEF Pool!Mark
  <2>4. QED
    BY <2>3 DEF Pool!PoolNext
<1>7. CASE SetReal \/ SetEventual \/ SetInject
  <2>1. db'.valid = db.valid /\ db'.data = db.data /\ db'.cnt = db.cnt
    BY <1>1, <1>2, <1>7
       DEF SetReal, SetEventual, SetInject, SetRealSync, SetEventualSync, SetInjected, Database
  <2>2. QED
    BY <2>1, PoolUnmoved DEF Pool!poolVars
<1>8. CASE FindSpareKeys
  <2>1. PICK s \in Sizes, n \in Counts : Replies("find_spare", s, FindSpare(db, s, n))
    BY <1>8 DEF FindSpareKeys
  <2>2. s \in Nat /\ n \in Nat
    BY <1>3
  <2>3. PICK S \in SUBSET Id : SparesFound(db, s, n, S)
    BY <1>1, <2>2, FindSpareResult
  <2>4. db' = Reserve(db, S, n)
    BY <2>1, <2>3, ReplyOf DEF SparesFound
  <2>5. (\A i \in S : db.cnt[i] = 0) /\ S \cap db.valid = {}
    BY <2>3 DEF SparesFound
  <2>6. QED
    BY <1>1, <2>2, <2>4, <2>5, PoolHoldReserved
<1>9. CASE FindValidKeys
  <2>1. PICK s \in Sizes, n \in Counts : Replies("find_valid", s, FindValid(db, s, n))
    BY <1>9 DEF FindValidKeys
  <2>2. s \in Nat /\ n \in Nat
    BY <1>3
  <2>3. PICK S \in SUBSET Id, p \in Id : KeysFound(db, s, n, S, p)
    BY <1>1, <2>2, FindValidResult
  <2>4. db' = CursorAt(Reserve(db, S, n), p)
    BY <2>1, <2>3, ReplyOf DEF KeysFound
  <2>5. (\A i \in S : db.cnt[i] = 0) /\ S \subseteq db.valid
    BY <2>3 DEF KeysFound
  <2>6. Reserve(db, S, n) \in Database
    BY <1>1, <2>2, ReserveSound DEF Sound
  <2>7. StoredIn(db') = StoredIn(Reserve(db, S, n)) /\ HeldIn(db') = HeldIn(Reserve(db, S, n))
    BY <2>4, <2>6, PoolUnmoved DEF CursorAt, Database
  <2>8. QED
    BY <1>1, <2>2, <2>5, <2>7, PoolHoldReserved
<1>10. CASE FindContinuousKeys
  <2>1. PICK s \in Sizes, n \in Counts :
          Replies("find_continuous", s, FindContinuous(db, s, n))
    BY <1>10 DEF FindContinuousKeys
  <2>2. s \in Nat /\ n \in Nat
    BY <1>3
  <2>3. PICK S \in SUBSET Id : RunFound(db, s, n, S)
    BY <1>1, <2>2, FindContinuousResult
  <2>4. db' = SetKeyCount(db, S, n)
    BY <2>1, <2>3, ReplyOf DEF RunFound
  <2>5. (\A i \in S : db.cnt[i] = 0) /\ S \subseteq db.valid
    BY <2>3 DEF RunFound
  <2>6. QED
    BY <1>1, <2>2, <2>4, <2>5, PoolHold
<1>11. CASE InsertKey
  <2>1. PICK m \in Material, size \in Sizes, beyond \in db.inserted + 1 .. Amount + Overrun :
          Replies("insert", size, [db |-> Insert(db, m, size, beyond).db,
                                   ids |-> <<Insert(db, m, size, beyond).id>>])
    BY <1>11 DEF InsertKey
  <2> DEFINE r == Insert(db, m, size, beyond)
             s == InsertSlot(db)
  <2>2. db' = r.db
    BY <2>1, ReplyOf
  <2>3. CASE r.db = db
    BY <2>2, <2>3 DEF Pool!poolVars
  <2>4. CASE r.db = [db EXCEPT !.inserted = beyond]
    <3>1. r.db.valid = db.valid /\ r.db.data = db.data /\ r.db.cnt = db.cnt
      BY <1>1, <2>4 DEF Database
    <3>2. QED
      BY <2>2, <3>1, PoolUnmoved DEF Pool!poolVars
  <2>5. CASE /\ size = Quantum /\ ~Overruns(db) /\ FreeAhead(db) # {}
             /\ r.db = [SetKey(db, s, m, size) EXCEPT !.inserted = s]
    <3> DEFINE e == SetKeys(db, [j \in {s} |-> m])
    <3>1. s \in Id
      BY <1>1, <2>5, InsertSlotFree
    <3>2. SetKey(db, s, m, size) = e
      BY <2>5, QuantumAssumption DEF SetKey
    <3>3. e \in Database
      BY <1>1, <3>2, SetKeySound DEF Sound
    <3>4. r.db.valid = e.valid /\ r.db.data = e.data /\ r.db.cnt = e.cnt
      BY <2>5, <3>2, <3>3 DEF Database
    <3>5. StoredIn(db') = StoredIn(e) /\ HeldIn(db') = HeldIn(e)
      BY <2>2, <3>4, PoolUnmoved
    <3>6. Pool!Store(s, m)
      BY <1>1, <3>1, <3>5, PoolAfterSet DEF Pool!Store
    <3>7. QED
      BY <3>1, <3>6 DEF Pool!PoolNext
  <2>6. QED
    BY <2>3, <2>4, <2>5 DEF Insert
<1>12. CASE ResetDB
  <2>1. /\ db'.valid = db.valid /\ db'.data = db.data
        /\ \A i \in Id : db'.cnt[i] = 0
    <3>1. db' = Reset(db)
      BY <1>2, <1>12 DEF ResetDB
    <3>2. /\ Reset(db).valid = db.valid /\ Reset(db).data = db.data
          /\ Reset(db).cnt = [i \in Id |-> 0]
      BY <1>1 DEF Reset, Database
    <3>3. QED
      BY <3>1, <3>2
  <2>2. StoredIn(db') = StoredIn(db) /\ HeldIn(db') = {}
    BY <2>1 DEF StoredIn, HeldIn
  <2>3. Pool!Restart
    BY <2>2 DEF Pool!Restart
  <2>4. QED
    BY <2>3 DEF Pool!PoolNext
<1>13. CASE UNCHANGED vars
  BY <1>13 DEF vars, Pool!poolVars
<1>14. QED
  BY <1>4, <1>5, <1>6, <1>7, <1>8, <1>9, <1>10, <1>11, <1>12, <1>13 DEF Next

(* The key database with its flags, cursors, totals and search order is a  *)
(* pool of slots: whatever the calls, the slots a caller holds and the     *)
(* keys that are stored change only as the pool says.                      *)
THEOREM DatabaseIsAPool == Spec => ImplementsPool
<1>1. Init => Pool!PoolInit
  BY DEF Init, Empty, Pool!PoolInit, StoredIn, HeldIn
<1>2. QED
  BY <1>1, PoolStep, Invariance, PTL DEF Spec, ImplementsPool, Pool!PoolSpec
=============================================================================
