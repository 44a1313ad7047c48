------------------------------- MODULE KeyDB -------------------------------
(***************************************************************************)
(* A key database of the Q3P key store, as implemented by db_ram and       *)
(* inherited by db_file (src/lib/q3p/db).  A database is a table of Amount *)
(* slots; the meta byte of a slot holds four persistent flags (valid, real *)
(* sync, eventual sync, injected) and a four bit counter: a slot with a    *)
(* counter other than 0 is "reserved" and not found by a search.           *)
(*                                                                         *)
(* The module has no variables: a database is a record, and an operation   *)
(* maps a database to the next one.  Slots are numbered 0 .. Amount-1      *)
(* (min_id() = 0, max_id() = Amount).  Sizes are in units of the caller's  *)
(* choosing; Quantum is the size of one key of this database.              *)
(***************************************************************************)
EXTENDS Integers, Sequences, FiniteSets

CONSTANTS
    Amount,        \* amount(): the number of slots
    Quantum,       \* quantum(): the size of one key
    Material,      \* the key materials a slot may hold
    NoMaterial     \* the zeroed key data of a deleted slot

ASSUME AmountAssumption == Amount \in Nat \ {0, 1}
ASSUME QuantumAssumption == Quantum \in Nat \ {0}
ASSUME MaterialAssumption == NoMaterial \notin Material

Id == 0 .. Amount - 1

MaxCount == 15     \* FLAG_COUNTER

(* The meta table and the key data, with the two cursors and the two       *)
(* running totals the class keeps beside them.                             *)
Database ==
    [ valid     : SUBSET Id,
      real      : SUBSET Id,
      evt       : SUBSET Id,
      inj       : SUBSET Id,
      cnt       : [Id -> 0 .. MaxCount],
      data      : [Id -> Material \cup {NoMaterial}],
      count     : Int,           \* m_nCount
      countReal : Int,           \* m_nCountRealSync
      inserted  : Nat,           \* m_nKeyLastInserted
      picked    : Id ]           \* m_nKeyLastPickedValid

(* A database just created by db_ram::init. *)
Empty ==
    [ valid |-> {}, real |-> {}, evt |-> {}, inj |-> {},
      cnt |-> [i \in Id |-> 0], data |-> [i \in Id |-> NoMaterial],
      count |-> 0, countReal |-> 0, inserted |-> 0, picked |-> 0 ]

-----------------------------------------------------------------------------
(* Operations on slots.  The functions of the code that take a list of ids *)
(* call the one for a single id on each; here each takes a set of slots,   *)
(* and ignores the numbers outside the table, as the code does.            *)

(* set_key_count stores the count as an unsigned char, at most FLAG_COUNTER *)
CountValue(n) == IF n % 256 <= MaxCount THEN n % 256 ELSE MaxCount

SetKeyCount(d, S, n) ==
    [d EXCEPT !.cnt = [i \in Id |-> IF i \in S THEN CountValue(n) ELSE @[i]]]

(* Faulty: the counter of a deleted slot stays. *)
DelKeepsCounter(d, S) ==
    [d EXCEPT !.valid = @ \ S, !.real = @ \ S, !.evt = @ \ S, !.inj = @ \ S,
              !.data = [i \in Id |-> IF i \in S THEN NoMaterial ELSE @[i]],
              !.count = @ - Cardinality(S \cap d.valid)]

Del(d, S) ==
    [d EXCEPT !.valid = @ \ S, !.real = @ \ S, !.evt = @ \ S, !.inj = @ \ S,
              !.cnt = [i \in Id |-> IF i \in S THEN 0 ELSE @[i]],
              !.data = [i \in Id |-> IF i \in S THEN NoMaterial ELSE @[i]],
              !.count = @ - Cardinality(S \cap d.valid)]

(* Store f[i] in each slot i of f's domain; what the slot held is gone,    *)
(* flags and counter included.                                             *)
SetKeys(d, f) ==
    LET S == Id \cap DOMAIN f
    IN  [d EXCEPT !.valid = @ \cup S, !.real = @ \ S, !.evt = @ \ S, !.inj = @ \ S,
                  !.cnt = [i \in Id |-> IF i \in S THEN 0 ELSE @[i]],
                  !.data = [i \in Id |-> IF i \in S THEN f[i] ELSE @[i]],
                  !.count = @ + Cardinality(S \ d.valid)]

(* A key that is too small is refused, one that is too large is cut. *)
SetKey(d, i, m, size) ==
    IF size < Quantum THEN d ELSE SetKeys(d, [j \in {i} |-> m])

SetRealSync(d, S) ==
    LET new == (S \cap d.valid) \ d.real
    IN  [d EXCEPT !.real = @ \cup new, !.evt = @ \ new,
                  !.countReal = @ + Cardinality(new)]

SetEventualSync(d, S) ==
    LET T == S \cap d.valid
    IN  [d EXCEPT !.real = @ \ T, !.evt = @ \cup T,
                  !.countReal = @ - Cardinality(T \cap d.real)]

SetInjected(d, S) == [d EXCEPT !.inj = @ \cup (S \cap d.valid)]

(* What opening a database does: cursors and counters are forgotten, the   *)
(* totals are counted again from the persistent flags.                     *)
Reset(d) ==
    [d EXCEPT !.cnt = [i \in Id |-> 0],
              !.count = Cardinality(d.valid),
              !.countReal = Cardinality(d.valid \cap d.real),
              !.inserted = 0, !.picked = 0]

-----------------------------------------------------------------------------
(* Searches.  A search walks the table upwards from a cursor, wrapping at  *)
(* the end, and stops when it is back at the cursor: the slot at the       *)
(* cursor itself is never looked at.                                       *)

Unreserved(d) == {i \in Id : d.cnt[i] = 0}

Dist(c, i) == (i - c) % Amount

Rank(c, E, i) == Cardinality({j \in E : Dist(c, j) <= Dist(c, i)})

(* The first n slots of E on the way, as a set and in the order of the way *)
Hits(c, E, n) == {i \in E : Rank(c, E, i) <= n}

Along(c, S) ==
    [k \in 1 .. Cardinality(S) |-> CHOOSE i \in S : Rank(c, S, i) = k]

(* Reserve the slots S for the caller; a count of 0 leaves them alone. *)
Reserve(d, S, n) == IF n = 0 THEN d ELSE SetKeyCount(d, S, n)

FindSpareReserved(d, bytes, n) ==     \* faulty: takes reserved slots
    LET E == Id \ (d.valid \cup {0})
        S == IF bytes % Quantum # 0 THEN {} ELSE Hits(0, E, bytes \div Quantum)
    IN  [ db |-> Reserve(d, S, n), ids |-> Along(0, S) ]

FindSpare(d, bytes, n) ==
    LET E == Unreserved(d) \ (d.valid \cup {0})
        S == IF bytes % Quantum # 0 THEN {} ELSE Hits(0, E, bytes \div Quantum)
    IN  [ db |-> Reserve(d, S, n), ids |-> Along(0, S) ]

FindValidOneShort(d, bytes, n) ==     \* faulty: stops one key early
    LET E == (Unreserved(d) \cap d.valid) \ {d.picked}
        k == bytes \div Quantum
        S == IF bytes % Quantum # 0 THEN {} ELSE Hits(d.picked, E, k - 1)
    IN  [ db  |-> Reserve(d, S, n), ids |-> Along(d.picked, S) ]

(* The cursor moves to the last slot found, if as many were found as asked *)
FindValid(d, bytes, n) ==
    LET E == (Unreserved(d) \cap d.valid) \ {d.picked}
        k == bytes \div Quantum
        S == IF bytes % Quantum # 0 THEN {} ELSE Hits(d.picked, E, k)
        last == {i \in S : Rank(d.picked, E, i) = k}
    IN  [ db  |-> [Reserve(d, S, n) EXCEPT
                     !.picked = IF last = {} THEN @ ELSE CHOOSE i \in last : TRUE],
          ids |-> Along(d.picked, S) ]

(* The first run of k neighbouring keys, all of it or nothing.  The count  *)
(* is applied even when it is 0.                                           *)
FindContinuous(d, bytes, n) ==
    LET E == Unreserved(d) \cap d.valid
        k == (bytes + Quantum - 1) \div Quantum
        starts == {i \in E : k > 0 /\ i + k <= Amount /\ i .. i + k - 1 \subseteq E}
        S == IF starts = {} THEN {}
             ELSE LET a == CHOOSE i \in starts : \A j \in starts : i <= j
                  IN  a .. a + k - 1
    IN  [ db |-> SetKeyCount(d, S, n), ids |-> Along(0, S) ]

-----------------------------------------------------------------------------
(* insert() looks for a free slot behind the last one inserted, whatever   *)
(* its counter.  It starts at m_nKeyLastInserted + 1, which is max_id()    *)
(* when the last slot of the table was inserted last: the byte read there  *)
(* is not meta data, and the walk goes on upwards until it meets a byte    *)
(* with a clear valid bit.  beyond is the slot it stops at: any number     *)
(* from the start of the walk on.  set() then refuses the key, and insert  *)
(* returns the number all the same.                                        *)
Overruns(d) == d.inserted + 1 >= Amount

AnyAhead(d) == Id \ {d.inserted}     \* faulty: takes slots in use

FreeAhead(d) == Id \ (d.valid \cup {d.inserted})

InsertSlot(d) == CHOOSE i \in FreeAhead(d) : Rank(d.inserted, FreeAhead(d), i) = 1

Insert(d, m, size, beyond) ==
    IF size # Quantum THEN [db |-> d, id |-> 0]
    ELSE IF Overruns(d)
    THEN [db |-> [d EXCEPT !.inserted = beyond], id |-> beyond]
    ELSE IF FreeAhead(d) = {} THEN [db |-> d, id |-> 0]
    ELSE [db |-> [SetKey(d, InsertSlot(d), m, size) EXCEPT !.inserted = InsertSlot(d)],
          id |-> InsertSlot(d)]
=============================================================================
