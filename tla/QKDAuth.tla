------------------------------ MODULE QKDAuth ------------------------------
(***************************************************************************)
(* The authentication module at the end of a pipeline and its peer         *)
(* (src/bin/modules/qkd-auth/qkd-auth.cpp).  Each has two RAM databases of *)
(* authentication keys, incoming and outgoing, and takes from each the     *)
(* final keys of two tags per key processed: its own and the one it        *)
(* expects.  Nothing is sent about which keys are taken: all rests on      *)
(* Alice's incoming database being Bob's outgoing one and the reverse.     *)
(* The databases are replenished with the high end of the very keys that   *)
(* were authenticated, and by store_keys_incoming() and _outgoing().       *)
(*                                                                         *)
(* Both sides are given the same keys in the same order (KeySync).         *)
(* process() holds the property mutex to its end, waiting included.        *)
(***************************************************************************)
EXTENDS KeyDB, SequencesExt

CONSTANTS
    KeySizes,       \* sizes of the keys processed, in bytes
    FinalKeySize,   \* bytes of a tag's final key
    Thresholds,     \* thresholds D-Bus clients set
    (* bounds of the exploration *)
    MaxKeys,        \* keys processed
    MaxStores,      \* pairs of calls to store_keys
    MaxSettings,    \* calls to set_threshold
    MaxFails        \* receipts that fail

ASSUME SizesAssumption ==
    KeySizes \subseteq Nat /\ FinalKeySize \in Nat \ {0} /\ Thresholds \subseteq Nat
ASSUME BoundsAssumption ==
    {MaxKeys, MaxStores, MaxSettings, MaxFails} \subseteq Nat

Side == {"alice", "bob"}
Dir == {"in", "out"}
Peer(s) == IF s = "alice" THEN "bob" ELSE "alice"
Opposite(dir) == IF dir = "in" THEN "out" ELSE "in"
NoStore == [by |-> "none", dir |-> "in", done |-> 0]

VARIABLES
    db,         \* side -> its two databases (cKeysIncoming, cKeysOutgoing)
    threshold,  \* side -> nThreshold
    paused,     \* side -> the module was paused
    at,         \* side -> "idle", "process" or "wait" for the peer's tags
    current,    \* the key both were given: its number, size, whether it is
                \* AMPLIFIED, and whether the two have seen the same messages
    size,       \* side -> bytes of the key left to forward
    net,        \* side -> the message on its way to it, if any
    done,       \* side -> keys it has dealt with
    accepted,   \* side -> it has found the last one authentic
    half,       \* a store made on one side and not yet on the other
    stores, settings, fails,   \* bounds
    skewed      \* history: the sides were given unlike keys, or a receipt failed

vars == <<db, threshold, paused, at, current, size, net, done, accepted, half,
          stores, settings, fails, skewed>>

Init ==
    /\ db = [s \in Side |-> [dir \in Dir |-> Empty]]
    /\ threshold \in [Side -> Thresholds]
    /\ paused = [s \in Side |-> FALSE] /\ at = [s \in Side |-> "idle"]
    /\ current = [id |-> 0, size |-> 0, amplified |-> FALSE, alike |-> TRUE]
    /\ size = [s \in Side |-> 0] /\ net = [s \in Side |-> <<>>]
    /\ done = [s \in Side |-> 0] /\ accepted = [s \in Side |-> FALSE]
    /\ half = NoStore /\ stores = 0 /\ settings = 0 /\ fails = 0 /\ skewed = FALSE

-----------------------------------------------------------------------------
(* Keys into a database.                                                   *)

(* One quantum.  An insert that overruns the table reports success and     *)
(* stores nothing, now and ever after; where its cursor gets to is seen by *)
(* no one.                                                                 *)
StoreQuantum(d, m) ==
    LET r == Insert(d, m, Quantum, Amount)
    IN  IF r.id = 0 THEN r.db ELSE SetRealSync(SetInjected(r.db, {r.id}), {r.id})

(* store(): n bytes that begin at byte a of key k, cut into quanta; bytes  *)
(* that do not fill one are dropped.                                       *)
StoreBytes(d, k, a, n) ==
    FoldLeft(StoreQuantum, d, [i \in 1 .. n \div Quantum |-> <<k, a + (i - 1) * Quantum>>])

Available(d) == d.count * Quantum

(* Faulty: the bytes stored are the low ones, those forwarded. *)
NibbleLow(d, t, k, n) ==
    LET eat == IF Available(d) >= t THEN 0 ELSE IF n < t THEN n ELSE t
    IN  [db |-> StoreBytes(d, k, 0, eat), left |-> n - eat]

(* nibble() on a database below its threshold: off the high end of the key *)
Nibble(d, t, k, n) ==
    LET eat == IF Available(d) >= t THEN 0 ELSE IF n < t THEN n ELSE t
    IN  [db |-> StoreBytes(d, k, n - eat, eat), left |-> n - eat]

(* Faulty: both sides fill their incoming database first. *)
FirstFedIncoming(s) == IF s \in Side THEN "in" ELSE "out"

(* Who begins with which database. *)
FirstFed(s) == IF s = "alice" THEN "in" ELSE "out"

(* refill_local_keystores(). *)
Refill(s, dbs, t, n) ==
    IF ~current.amplified THEN [dbs |-> dbs, left |-> n]
    ELSE LET f == FirstFed(s)
             one == Nibble(dbs[f], t, current.id, n)
             two == Nibble(dbs[Opposite(f)], t, current.id, one.left)
         IN  [dbs |-> [dir \in Dir |-> IF dir = f THEN one.db ELSE two.db],
              left |-> two.left]

-----------------------------------------------------------------------------
(* Tags.                                                                   *)

Run(d) == FindContinuous(d, 2 * FinalKeySize, 0).ids

(* Alice's final key is the first one cut from the run, Bob's the second.  *)
FinalKey(d, role) ==
    [b \in 0 .. FinalKeySize - 1 |->
        LET p == b + (IF role = "alice" THEN 0 ELSE FinalKeySize)
        IN  <<d.data[Run(d)[(p \div Quantum) + 1]], p % Quantum>>]

(* What the context of side s has hashed: Alice's incoming messages are    *)
(* Bob's outgoing ones, if none was changed on the way.                    *)
Seen(s, dir) ==
    [messages |-> IF s = "alice" THEN dir ELSE Opposite(dir),
     by       |-> IF current.alike THEN "both" ELSE s]

Tag(s, role, dir) == [seen |-> Seen(s, dir), final |-> FinalKey(db[s][dir], role)]

HasFinalKeys(s) == \A dir \in Dir : Run(db[s][dir]) # <<>>

Accepts(s, m) ==
    /\ m.id = current.id
    /\ Tag(s, Peer(s), "in") = m.out /\ Tag(s, Peer(s), "out") = m.in

(* Faulty: Alice keeps the run for her next key. *)
UsedUpByBob(s, dir) ==
    IF s = "alice" THEN db[s][dir] ELSE Del(db[s][dir], ToSet(Run(db[s][dir])))

(* The keys of both tags are the same run, and leave the database.         *)
UsedUp(s, dir) == Del(db[s][dir], ToSet(Run(db[s][dir])))

-----------------------------------------------------------------------------
(* The workers.                                                            *)

(* The two agree on the next key.  What is left of an exchange that failed *)
(* meets the synchronisation and is thrown away.                           *)
Pick ==
    /\ \A s \in Side : at[s] = "idle" /\ ~paused[s]
    /\ current.id < MaxKeys
    /\ \E n \in KeySizes, amplified, alike \in BOOLEAN :
        /\ current' = [id |-> current.id + 1, size |-> n, amplified |-> amplified, alike |-> alike]
        /\ size' = [s \in Side |-> n]
    /\ at' = [s \in Side |-> "process"]
    /\ net' = [s \in Side |-> <<>>] /\ accepted' = [s \in Side |-> FALSE]
    /\ UNCHANGED <<db, threshold, paused, done, half, stores, settings, fails, skewed>>

Ends(s) ==
    /\ at' = [at EXCEPT ![s] = "idle"]
    /\ done' = [done EXCEPT ![s] = @ + 1]

(* No authenticity, no key: the module pauses and forwards nothing. *)
Refuses(s) ==
    /\ Ends(s)
    /\ paused' = [paused EXCEPT ![s] = TRUE] /\ size' = [size EXCEPT ![s] = 0]
    /\ UNCHANGED <<db, threshold, accepted>>

Send(s) ==
    /\ at[s] = "process"
    /\ \/ /\ HasFinalKeys(s)
          /\ at' = [at EXCEPT ![s] = "wait"]
          /\ net' = [net EXCEPT ![Peer(s)] =
                <<[id |-> current.id, in |-> Tag(s, s, "in"), out |-> Tag(s, s, "out"),
                   threshold |-> threshold[s]]>>]
          /\ UNCHANGED <<db, threshold, accepted, paused, size, done>>
       \/ ~HasFinalKeys(s) /\ Refuses(s) /\ UNCHANGED net
    /\ UNCHANGED <<current, half, stores, settings, fails, skewed>>

(* Bob adopts Alice's threshold. *)
Adopted(s, m) == IF s = "bob" THEN m.threshold ELSE threshold[s]

Receive(s) ==
    /\ at[s] = "wait" /\ net[s] # <<>>
    /\ net' = [net EXCEPT ![s] = <<>>]
    /\ LET m == Head(net[s])
           r == Refill(s, [dir \in Dir |-> UsedUp(s, dir)], Adopted(s, m), size[s])
       IN  \/ /\ Accepts(s, m) /\ Ends(s)
              /\ accepted' = [accepted EXCEPT ![s] = TRUE]
              /\ threshold' = [threshold EXCEPT ![s] = Adopted(s, m)]
              /\ db' = [db EXCEPT ![s] = r.dbs]
              /\ size' = [size EXCEPT ![s] = r.left]
              /\ UNCHANGED paused
           \/ ~Accepts(s, m) /\ Refuses(s)
    /\ UNCHANGED <<current, half, stores, settings, fails, skewed>>

(* recv() fails: interrupted, or the peer has gone on to synchronise.      *)
ReceiptFails(s) ==
    /\ at[s] = "wait" /\ fails < MaxFails
    /\ Refuses(s) /\ fails' = fails + 1 /\ skewed' = TRUE
    /\ UNCHANGED <<current, net, half, stores, settings>>

-----------------------------------------------------------------------------
(* D-Bus clients: the calls wait for the property mutex.                   *)

Unlocked(s) == at[s] # "wait"

Resume(s) ==
    /\ paused[s] /\ paused' = [paused EXCEPT ![s] = FALSE]
    /\ UNCHANGED <<db, threshold, at, current, size, net, done, accepted, half,
                   stores, settings, fails, skewed>>

SetThreshold(s) ==
    /\ Unlocked(s) /\ settings < MaxSettings /\ settings' = settings + 1
    /\ \E t \in Thresholds : threshold' = [threshold EXCEPT ![s] = t]
    /\ UNCHANGED <<db, paused, at, current, size, net, done, accepted, half,
                   stores, fails, skewed>>

(* Final keys for one more key, given to one side and then to the other,   *)
(* for the opposite direction.                                             *)
Given(s, dir, n) ==
    db' = [db EXCEPT ![s][dir] = StoreBytes(@, 0, 2 * FinalKeySize * n, 2 * FinalKeySize)]

StoreKeys(s, dir) ==
    /\ Unlocked(s) /\ half = NoStore /\ stores < MaxStores
    /\ stores' = stores + 1 /\ Given(s, dir, stores + 1)
    /\ half' = [by |-> s, dir |-> dir, done |-> done[s]]
    /\ UNCHANGED <<threshold, paused, at, current, size, net, done, accepted,
                   settings, fails, skewed>>

StoreKeysAtPeer ==
    \E s \in Side :
        /\ half.by = Peer(s) /\ Unlocked(s)
        /\ Given(s, Opposite(half.dir), stores) /\ half' = NoStore
        /\ skewed' = (skewed \/ half.done # done[s])
        /\ UNCHANGED <<threshold, paused, at, current, size, net, done, accepted,
                       stores, settings, fails>>

Next ==
    \/ Pick \/ StoreKeysAtPeer
    \/ \E s \in Side :
        \/ Send(s) \/ Receive(s) \/ ReceiptFails(s) \/ Resume(s) \/ SetThreshold(s)
        \/ \E dir \in Dir : StoreKeys(s, dir)

Spec == Init /\ [][Next]_vars

-----------------------------------------------------------------------------
Held(d) == [i \in d.valid |-> d.data[i]]
Resting == \A s \in Side : at[s] = "idle"

(* Between two keys Alice's incoming database is Bob's outgoing one and    *)
(* the reverse, slot for slot, although neither is told which keys the     *)
(* other has used or put back, and thresholds are set on either side; and  *)
(* both have come to one end with the last key: found authentic by both,   *)
(* with the same part of it forwarded, or by none.                         *)
StoresMirrored ==
    Resting /\ half = NoStore /\ ~skewed =>
        /\ \A dir \in Dir : Held(db["alice"][dir]) = Held(db["bob"][Opposite(dir)])
        /\ accepted["alice"] = accepted["bob"] /\ size["alice"] = size["bob"]

(* No byte of a key is put to two uses: stored for one direction it is not *)
(* stored for the other, nor still part of the key forwarded.              *)
OneUse ==
    \A s \in Side :
        /\ \A i \in db[s]["in"].valid, j \in db[s]["out"].valid :
             LET m == db[s]["in"].data[i]  n == db[s]["out"].data[j]
             IN  m[1] = n[1] /\ m[1] # 0 => m[2] + Quantum <= n[2] \/ n[2] + Quantum <= m[2]
        /\ \A dir \in Dir : \A i \in db[s][dir].valid :
             db[s][dir].data[i][1] = current.id /\ current.id # 0
                => db[s][dir].data[i][2] >= size[s]

(* Nobody waits for tags the peer will not send, as both come to the same  *)
(* judgement of whether there are final keys left.                         *)
TagsWillCome ==
    \A s \in Side : at[s] = "wait" /\ net[s] = <<>> /\ ~skewed /\ half = NoStore =>
        at[Peer(s)] = "process" /\ HasFinalKeys(Peer(s))
=============================================================================
