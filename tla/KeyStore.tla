------------------------------ MODULE KeyStore ------------------------------
(***************************************************************************)
(* One key database in use (src/lib/q3p/db/db_ram.cpp behind the locked    *)
(* interface of db.cpp): its callers are the engine, the LOAD protocols,   *)
(* the message queue, qkd-auth and D-Bus clients, so that any operation    *)
(* may follow any other.  Every call runs under the database's mutex and   *)
(* is one step.                                                            *)
(***************************************************************************)
EXTENDS KeyDB

CONSTANTS
    Sizes,      \* the byte sizes the callers ask for
    Counts,     \* the counter values the callers use
    Overrun     \* bound: how far insert may run beyond the table

ASSUME SizesAssumption == Sizes \subseteq Nat
ASSUME CountsAssumption == Counts \subseteq Nat
ASSUME OverrunAssumption == Overrun \in Nat

VARIABLES
    db,         \* the database
    ret         \* the last call: its name, its size argument, the ids returned

vars == <<db, ret>>

Init ==
    /\ db = Empty
    /\ ret = [op |-> "init", asked |-> 0, ids |-> <<>>]

Replies(op, asked, r) ==
    /\ db' = r.db
    /\ ret' = [op |-> op, asked |-> asked, ids |-> r.ids]

Changes(d) == Replies("change", 0, [db |-> d, ids |-> <<>>])

-----------------------------------------------------------------------------
DelKey == \E i \in Id : Changes(Del(db, {i}))

SetAKey ==
    \E i \in Id, m \in Material, size \in Sizes :
        Changes(SetKey(db, i, m, size))

SetCount == \E i \in Id, n \in Counts : Changes(SetKeyCount(db, {i}, n))

SetReal == \E i \in Id : Changes(SetRealSync(db, {i}))

SetEventual == \E i \in Id : Changes(SetEventualSync(db, {i}))

SetInject == \E i \in Id : Changes(SetInjected(db, {i}))

FindSpareKeys ==
    \E s \in Sizes, n \in Counts : Replies("find_spare", s, FindSpare(db, s, n))

FindValidKeys ==
    \E s \in Sizes, n \in Counts : Replies("find_valid", s, FindValid(db, s, n))

FindContinuousKeys ==
    \E s \in Sizes, n \in Counts : Replies("find_continuous", s, FindContinuous(db, s, n))

InsertKey ==
    \E m \in Material, size \in Sizes, beyond \in db.inserted + 1 .. Amount + Overrun :
        LET r == Insert(db, m, size, beyond)
        IN  Replies("insert", size, [db |-> r.db, ids |-> <<r.id>>])

(* Closing the database and opening the file again, or reset() itself. *)
ResetDB == Changes(Reset(db))

Next ==
    \/ DelKey \/ SetAKey \/ SetCount
    \/ SetReal \/ SetEventual \/ SetInject
    \/ FindSpareKeys \/ FindValidKeys \/ FindContinuousKeys
    \/ InsertKey \/ ResetDB

Spec == Init /\ [][Next]_vars

-----------------------------------------------------------------------------
(* The database is a record of the right shape, and a call returned a list *)
(* of slot numbers.                                                        *)
TypeOK ==
    /\ db \in Database
    /\ ret.asked \in Nat
    /\ ret.ids \in Seq(Nat)

(* count(), kept up to date one call at a time, is the number of valid     *)
(* keys that a scan of the meta table would find (db_ram.cpp:124, 573).    *)
CountExact == db.count = Cardinality(db.valid)

(* The sync and injected flags sit on valid keys only, no key is in real   *)
(* and in eventual sync at once, count_real_sync() never says fewer than   *)
(* there are, and no valid slot holds zeroed data (db_ram.cpp:103-125,     *)
(* 498-509, 535-574, 615-628).                                             *)
FlagsConsistent ==
    /\ db.real \cup db.evt \cup db.inj \subseteq db.valid
    /\ db.real \cap db.evt = {}
    /\ db.countReal >= Cardinality(db.real)
    /\ \A i \in db.valid : db.data[i] \in Material

Found == {ret.ids[k] : k \in DOMAIN ret.ids}

Searches == {"find_spare", "find_valid", "find_continuous"}

(* Two callers never get the same slot: a search returns each slot once,   *)
(* no slot a counter reserves, only stored keys (find_valid,               *)
(* find_continuous) or only free slots other than 0 (find_spare), and no   *)
(* more of them than fit the size asked for.                               *)
HandsOutFreshSlots ==
    ret'.op \in Searches =>
        /\ Cardinality(Found') = Len(ret'.ids)
        /\ \A i \in Found' : db.cnt[i] = 0
        /\ IF ret'.op = "find_spare"
           THEN Found' \subseteq Id \ (db.valid \cup {0})
           ELSE Found' \subseteq db.valid
        /\ (Len(ret'.ids) - 1) * Quantum < ret'.asked

NoSlotHandedOutTwice == [][HandsOutFreshSlots]_vars

(* The walk of a search misses nothing: when the answer is shorter than    *)
(* what was asked for, the unreserved keys (the free slots) left over are  *)
(* at most the one at the cursor (slot 0).                                 *)
ShortAnswersExhaust ==
    ret'.asked % Quantum = 0 /\ Len(ret'.ids) * Quantum < ret'.asked =>
        /\ ret'.op = "find_valid" =>
             {i \in db.valid : db.cnt[i] = 0} \subseteq Found' \cup {db.picked}
        /\ ret'.op = "find_spare" =>
             {i \in Id \ db.valid : db.cnt[i] = 0} \subseteq Found' \cup {0}

ShortAnswerMeansExhausted == [][ShortAnswersExhaust]_vars

(* insert() never touches a key that is stored already, and a number of    *)
(* the table it returns other than 0 is a slot that was free and now       *)
(* stores the new key (db_ram.cpp:365-374).                                *)
InsertLeavesKeys ==
    ret'.op = "insert" =>
        /\ \A i \in db.valid : /\ i \in db'.valid
                               /\ db'.data[i] = db.data[i]
                               /\ db'.cnt[i] = db.cnt[i]
        /\ ret'.ids[1] \in Id \ {0} => ret'.ids[1] \in db'.valid \ db.valid

InsertDisturbsNoKey == [][InsertLeavesKeys]_vars

(* db_ram.cpp:365-374: insert "tries to find a spare place, places the key *)
(* there and yields the ID found": a number other than 0 is a valid key.   *)
InsertYieldsPlacedKey ==
    [][ret'.op = "insert" /\ ret'.ids[1] # 0 => ret'.ids[1] \in db'.valid]_vars

-----------------------------------------------------------------------------
(* The database implements the pool: a slot stores what a valid key holds, *)
(* and a counter other than 0 means that the slot is held.                 *)
StoredIn(d) == [i \in Id |-> IF i \in d.valid THEN d.data[i] ELSE NoMaterial]
HeldIn(d) == {i \in Id : d.cnt[i] # 0}

Pool == INSTANCE SlotPool WITH
    Slots <- Id, stored <- StoredIn(db), held <- HeldIn(db)

(* Every call is a step of the pool or leaves it alone. *)
ImplementsPool == Pool!PoolSpec
=============================================================================
