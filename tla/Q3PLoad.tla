------------------------------ MODULE Q3PLoad ------------------------------
(***************************************************************************)
(* The key movement between the two engines of a Q3P link: the protocols   *)
(* LOAD and LOAD-REQUEST (src/lib/q3p/engine/protocol), which carry keys   *)
(* from the common store, the database on disk both sides fill alike, into *)
(* the incoming, outgoing and application buffers, and the message queue   *)
(* (src/lib/q3p/engine/mq.cpp), which hands application keys out.          *)
(*                                                                         *)
(* Only the numbers of keys and slots travel, never key material:          *)
(*                                                                         *)
(*   LOAD: the master reserves common store keys and free buffer slots,    *)
(*   sends their numbers, and copies the keys into its slots in advance    *)
(*   ("eventual sync").  The slave moves the keys it has and acknowledges  *)
(*   those; the master then moves them too ("real sync") and clears what   *)
(*   was not moved.                                                        *)
(*                                                                         *)
(*   LOAD-REQUEST: the slave asks; the master answers with such an offer   *)
(*   for its outgoing, the slave's incoming buffer, with no advance copy.  *)
(*                                                                         *)
(* An engine runs in one Qt event loop: every handler, and every protocol  *)
(* run on the 250 ms tick, is one step.  Engines talk over TCP: messages   *)
(* arrive in order, and are lost only with the connection.                 *)
(***************************************************************************)
EXTENDS Integers, Sequences, FiniteSets

CONSTANTS
    StoreAmount,   \* slots of the common store
    BufAmount,     \* slots of a buffer
    Ratio,         \* common store quantum / buffer quantum
    Sated,         \* a buffer with more keys takes no more (0.90 of its slots)
    MinKeys,       \* fewest keys of an offer: twice a message's authentication
    SecretKeys,    \* buffer keys each half of the initial secret yields
    StoreKeys,     \* the common store keys both sides start with
    MQKeys,        \* buffer keys that make up one message queue key
    (* bounds of the exploration *)
    MaxOffers,     \* offers made when the master makes another on its own
    MaxAsks,       \* LOAD-REQs the slave sends
    MaxTimeouts,   \* pending messages that time out
    MaxFails,      \* sends that fail
    MaxConnects,   \* handshakes
    MaxProduced    \* message queue keys each side produces

ASSUME RatioAssumption == Ratio \in Nat \ {0}
ASSUME AmountsAssumption == /\ StoreAmount \in Nat \ {0, 1}
                            /\ BufAmount \in Nat \ {0, 1}
(* A buffer that is not sated has room for one common store key more, slot *)
(* 0 aside: 0.90 of 2^16 slots, 8 of them to a key.                        *)
ASSUME SatedAssumption == Sated \in Nat /\ Sated + Ratio < BufAmount
ASSUME StoreKeysAssumption == StoreKeys \subseteq 1 .. StoreAmount - 1
(* The initial secret leaves slot 0 empty and fits in a buffer; a message   *)
(* queue key has some size.                                                *)
ASSUME SecretAssumption == SecretKeys \in 0 .. BufAmount - 1
ASSUME MQAssumption == MQKeys \in Nat

Side == {"master", "slave"}
Kind == {"load", "request"}

(* Key material: a common store key is the number it was stored under (the *)
(* sides agree on those), a buffer key a part of one, or of the halves of  *)
(* the initial secret, -1 and -2.                                          *)
Piece == (StoreKeys \X (1 .. Ratio)) \cup ({-1, -2} \X (1 .. SecretKeys))
NoPiece == <<0, 0>>

Store == INSTANCE KeyDB WITH
    Amount <- StoreAmount, Quantum <- Ratio, Material <- StoreKeys, NoMaterial <- 0
Buffer == INSTANCE KeyDB WITH
    Amount <- BufAmount, Quantum <- 1, Material <- Piece, NoMaterial <- NoPiece

Engine == [store : Store!Database, in : Buffer!Database,
           out : Buffer!Database, app : Buffer!Database]

VARIABLES
    eng,         \* side -> its four databases
    up,          \* side -> connected()
    pending,     \* kind -> the master's offer awaiting its LOAD-ACK (cSent)
    asked,       \* the slave has a LOAD-REQ under way (its cSent)
    net,         \* side -> the messages on their way to it
    delivered,   \* side -> the keys its message queue was given
    used         \* how much of each bound is used up

vars == <<eng, up, pending, asked, net, delivered, used>>

Elems(s) == {s[k] : k \in DOMAIN s}
Least(a, b) == IF a < b THEN a ELSE b

NoOffer == [id |-> 0, keys |-> <<>>, slots |-> <<>>, appKeys |-> <<>>, appSlots |-> <<>>]

-----------------------------------------------------------------------------
(* Moving keys from the common store to a buffer (key_move.cpp).           *)

(* Faulty: keys the store lacks move as well. *)
MovableUnchecked(store, keys, slots) ==
    SubSeq(keys, 1, Least(Len(keys), Len(slots) \div Ratio))

(* The keys of a list that move: those the store has, as far as the slots  *)
(* reach.  A key the store lacks uses up no slots.                         *)
Movable(store, keys, slots) ==
    LET P      == {i \in DOMAIN keys : keys[i] \in store.valid}
        nth(n) == CHOOSE i \in P : Cardinality({j \in P : j <= i}) = n
    IN  [n \in 1 .. Least(Cardinality(P), Len(slots) \div Ratio) |-> keys[nth(n)]]

(* Slot -> the piece of the moved keys it gets *)
Pieces(store, moved, slots) ==
    [s \in {slots[j] : j \in 1 .. Ratio * Len(moved)} |->
        LET j == CHOOSE j \in 1 .. Ratio * Len(moved) : slots[j] = s
        IN  <<store.data[moved[(j - 1) \div Ratio + 1]], ((j - 1) % Ratio) + 1>>]

(* Faulty variants of CopyBuffer: the keys leave the store; the counters   *)
(* that storing a key clears are not set again.                            *)
CopyBufferTakes(e, buf, keys, slots) ==
    LET moved == Movable(e.store, keys, slots)
        f == Pieces(e.store, moved, slots)
    IN  [e EXCEPT
            ![buf] = Buffer!SetEventualSync(
                        Buffer!SetKeyCount(Buffer!SetKeys(@, f), DOMAIN f, 1), DOMAIN f),
            !.store = Store!Del(@, Elems(moved))]

CopyBufferUnreserved(e, buf, keys, slots) ==
    LET f == Pieces(e.store, Movable(e.store, keys, slots), slots)
    IN  [e EXCEPT ![buf] = Buffer!SetEventualSync(Buffer!SetKeys(@, f), DOMAIN f)]

CopyBuffer(e, buf, keys, slots) ==
    LET moved == Movable(e.store, keys, slots)
        f == Pieces(e.store, moved, slots)
    IN  [e EXCEPT
            ![buf] = Buffer!SetEventualSync(
                        Buffer!SetKeyCount(Buffer!SetKeys(@, f), DOMAIN f, 1), DOMAIN f),
            !.store = Store!SetKeyCount(@, Elems(moved), 1)]

MoveBufferKeeps(e, buf, keys, slots) ==     \* faulty: the store keeps the keys
    LET moved == Movable(e.store, keys, slots)
        f == Pieces(e.store, moved, slots)
    IN  [ eng   |-> [e EXCEPT ![buf] = Buffer!SetRealSync(Buffer!SetKeys(@, f), DOMAIN f)],
          moved |-> moved ]

MoveBuffer(e, buf, keys, slots) ==
    LET moved == Movable(e.store, keys, slots)
        f == Pieces(e.store, moved, slots)
    IN  [ eng   |-> [e EXCEPT
                        ![buf] = Buffer!SetRealSync(Buffer!SetKeys(@, f), DOMAIN f),
                        !.store = Store!Del(@, Elems(moved))],
          moved |-> moved ]

(* key_vector subtraction: a merge, right for lists in ascending order *)
Sub(lhs, rhs) ==
    LET rest[i \in 1 .. Len(lhs) + 1, j \in 1 .. Len(rhs) + 1] ==
            CASE i > Len(lhs)     -> <<>>
              [] i <= Len(lhs) /\ j > Len(rhs) -> SubSeq(lhs, i, Len(lhs))
              [] OTHER ->
                 IF lhs[i] = rhs[j] THEN rest[i + 1, j + 1]
                 ELSE IF lhs[i] < rhs[j] THEN <<lhs[i]>> \o rest[i + 1, j]
                 ELSE rest[i, j + 1]
    IN  rest[1, 1]

(* Faulty: the slave fills the buffer of the same name. *)
TargetSameName(s, k) == IF k = "load" THEN "in" ELSE "out"

(* The buffer an offer of a kind fills at a side *)
Target(s, k) ==
    IF (s = "master") = (k = "load") THEN "in" ELSE "out"

-----------------------------------------------------------------------------
(* How many buffer keys the master wants.                                  *)

Hungry(d) == IF d.count > Sated THEN 0 ELSE BufAmount - d.count

LoadWantsLess(e) ==     \* faulty: equal charges leave the incoming buffer alone
    LET nIn == IF e.in.count >= e.out.count THEN 0 ELSE Hungry(e.in)
    IN  [ buf |-> nIn,
          app |-> IF \/ e.app.count >= e.in.count + nIn
                     \/ e.app.count >= e.out.count
                  THEN 0 ELSE Hungry(e.app) ]

LoadWants(e) ==
    LET nIn == IF e.in.count > e.out.count THEN 0 ELSE Hungry(e.in)
    IN  [ buf |-> nIn,
          app |-> IF \/ e.app.count >= e.in.count + nIn
                     \/ e.app.count >= e.out.count
                  THEN 0 ELSE Hungry(e.app) ]

RequestWants(e) ==
    LET nOut == IF e.out.count >= e.in.count THEN 0 ELSE Hungry(e.out)
    IN  [ buf |-> nOut,
          app |-> IF \/ e.app.count >= e.in.count
                     \/ e.app.count >= e.out.count + nOut
                  THEN 0 ELSE Hungry(e.app) ]

(* Two thirds of the store stay: a third each, in whole common store keys *)
Granted(e, n) ==
    LET m == Least(n, (e.store.count \div 3) * Ratio) IN m - (m % Ratio)

(* Set the counters of everything an offer lists to 0. *)
Release(e, buf, o) ==
    [e EXCEPT !.store = Store!SetKeyCount(@, Elems(o.keys) \cup Elems(o.appKeys), 0),
              ![buf]  = Buffer!SetKeyCount(@, Elems(o.slots), 0),
              !.app   = Buffer!SetKeyCount(@, Elems(o.appSlots), 0)]

(* Reserve keys and slots for the target buffer, then for the application  *)
(* buffer.  A part with slots for less than one key is dropped and its     *)
(* reservations are taken back - those of LOAD's application part are not: *)
(* load.cpp resets the list of the incoming part there.                    *)
Reserve(e, k, nBuf, nApp) ==
    LET buf     == Target("master", k)
        keys    == Store!FindValid(e.store, nBuf, 1)
        slots   == Buffer!FindSpare(e[buf], nBuf, 1)
        room    == Len(slots.ids) >= Ratio
        store1  == IF room THEN keys.db ELSE Store!SetKeyCount(keys.db, Elems(keys.ids), 0)
        buf1    == IF room THEN slots.db ELSE Buffer!SetKeyCount(slots.db, Elems(slots.ids), 0)
        listed  == IF room THEN keys.ids ELSE <<>>
        aKeys   == Store!FindValid(store1, nApp, 1)
        aSlots  == Buffer!FindSpare(e.app, nApp, 1)
        aRoom   == Len(aSlots.ids) >= Ratio
        undone  == IF k = "load" THEN listed ELSE aKeys.ids
    IN  [ eng   |-> [e EXCEPT
                       !.store = IF aRoom THEN aKeys.db
                                 ELSE Store!SetKeyCount(aKeys.db, Elems(undone), 0),
                       ![buf]  = buf1,
                       !.app   = IF aRoom THEN aSlots.db
                                 ELSE Buffer!SetKeyCount(aSlots.db, Elems(aSlots.ids), 0)],
          offer |-> [ id       |-> used.offers + 1,
                      keys     |-> listed,
                      slots    |-> IF room THEN slots.ids ELSE <<>>,
                      appKeys  |-> IF aRoom THEN aKeys.ids ELSE <<>>,
                      appSlots |-> IF aRoom THEN aSlots.ids ELSE <<>> ] ]

-----------------------------------------------------------------------------
(* Connecting, losing the connection, reopening the database.              *)

Fresh(store) == [store |-> store, in |-> Buffer!Empty, out |-> Buffer!Empty, app |-> Buffer!Empty]

(* A half of the initial secret, inserted into an empty buffer from slot 1 *)
Filled(half) ==
    LET S == 1 .. SecretKeys
    IN  [Buffer!SetRealSync(
            Buffer!SetKeys(Buffer!Empty, [i \in S |-> <<half, i>>]), S)
         EXCEPT !.inserted = SecretKeys]

(* The common store as engine.inject and qkd-auth fill it. *)
NewStore ==
    LET d == Store!SetKeys(Store!Empty, [i \in StoreKeys |-> i])
    IN  [Store!SetRealSync(Store!SetInjected(d, StoreKeys), StoreKeys)
         EXCEPT !.inserted = Cardinality(StoreKeys)]

NothingUsed == [offers |-> 0, asks |-> 0, timeouts |-> 0, fails |-> 0, connects |-> 0]

Init ==
    /\ eng = [s \in Side |-> Fresh(NewStore)]
    /\ up = [s \in Side |-> FALSE]
    /\ pending = [k \in Kind |-> NoOffer]
    /\ asked = FALSE
    /\ net = [s \in Side |-> <<>>]
    /\ delivered = [s \in Side |-> <<>>]
    /\ used = NothingUsed

(* The handshake succeeds on both sides: buffers and protocols are new,    *)
(* the stores keep what they had, counters included.                       *)
Connect ==
    /\ \A s \in Side : ~up[s]
    /\ used.connects < MaxConnects
    /\ up' = [s \in Side |-> TRUE]
    /\ eng' = [s \in Side |->
                 [Fresh(eng[s].store) EXCEPT
                    !.in  = Filled(IF s = "master" THEN -1 ELSE -2),
                    !.out = Filled(IF s = "master" THEN -2 ELSE -1)]]
    /\ pending' = [k \in Kind |-> NoOffer]
    /\ asked' = FALSE
    /\ net' = [s \in Side |-> <<>>]
    /\ used' = [used EXCEPT !.connects = @ + 1]
    /\ UNCHANGED delivered

(* A side learns that its socket is gone, or is told to disconnect:        *)
(* protocols and buffers go, what they had reserved in the common store    *)
(* stays reserved.  What was on its way to the side is lost; the other     *)
(* side may still read what it got.                                        *)
SocketError(s) ==
    /\ up[s]
    /\ up' = [up EXCEPT ![s] = FALSE]
    /\ eng' = [eng EXCEPT ![s] = Fresh(eng[s].store)]
    /\ pending' = IF s = "master" THEN [k \in Kind |-> NoOffer] ELSE pending
    /\ asked' = (asked /\ s # "slave")
    /\ net' = [net EXCEPT ![s] = <<>>]
    /\ UNCHANGED <<delivered, used>>

(* The database is closed and opened again, which needs a side that is not *)
(* connected; a restart of the process does the same.                      *)
ReopenStore(s) ==
    /\ ~up[s]
    /\ eng' = [eng EXCEPT ![s].store = Store!Reset(@)]
    /\ UNCHANGED <<up, pending, asked, net, delivered, used>>

-----------------------------------------------------------------------------
(* Messages.                                                               *)

Offered(k, o) == [type |-> "LOAD", kind |-> k, id |-> o.id, keys |-> o.keys, slots |-> o.slots,
                  appKeys |-> o.appKeys, appSlots |-> o.appSlots]
AckUnnumbered(k, id, moved, appMoved) ==     \* faulty: does not name the offer
    [type |-> "LOAD-ACK", kind |-> k, id |-> 0, keys |-> moved, slots |-> <<>>,
     appKeys |-> appMoved, appSlots |-> <<>>]

Ack(k, id, moved, appMoved) ==
    [type |-> "LOAD-ACK", kind |-> k, id |-> id, keys |-> moved, slots |-> <<>>,
     appKeys |-> appMoved, appSlots |-> <<>>]
LoadReq == [type |-> "LOAD-REQ", kind |-> "request", id |-> 0, keys |-> <<>>, slots |-> <<>>,
            appKeys |-> <<>>, appSlots |-> <<>>]

(* What reaches a side that is down is lost. *)
Sent(n, s, m) == IF up[s] THEN [n EXCEPT ![s] = Append(@, m)] ELSE n

(* A send may fail while the socket's error has not been signalled yet. *)
MayFail(fails) == fails => used.fails < MaxFails

CountFail(fails) == IF fails THEN 1 ELSE 0

(* The master looks for keys and offers them, for LOAD on its own account  *)
(* (load::run_internal), for LOAD-REQUEST when asked.  n is the network    *)
(* without the message that asked.                                         *)
MakeOffer(k, n, fails) ==
    LET e     == eng["master"]
        wants == IF k = "load" THEN LoadWants(e) ELSE RequestWants(e)
        r     == Reserve(e, k, Granted(e, wants.buf), Granted(e, wants.app))
        buf   == Target("master", k)
        empty == r.offer.keys = <<>> /\ r.offer.appKeys = <<>>
        short == Len(r.offer.keys) < MinKeys
    IN  /\ fails => ~empty /\ ~short
        /\ MayFail(fails)
        /\ used' = [used EXCEPT !.fails = @ + CountFail(fails),
                                !.offers = IF empty \/ short \/ fails THEN @ ELSE @ + 1]
        /\ IF empty
           THEN /\ eng' = [eng EXCEPT !["master"] = r.eng]
                /\ net' = n
                /\ UNCHANGED pending
           ELSE IF short \/ fails
           THEN /\ eng' = [eng EXCEPT !["master"] = Release(r.eng, buf, r.offer)]
                /\ net' = n
                /\ UNCHANGED pending
           ELSE /\ eng' = [eng EXCEPT !["master"] =
                      IF k = "load"
                      THEN CopyBuffer(
                             CopyBuffer(r.eng, "in", r.offer.keys, r.offer.slots),
                             "app", r.offer.appKeys, r.offer.appSlots)
                      ELSE r.eng]
                /\ net' = Sent(n, "slave", Offered(k, r.offer))
                /\ pending' = [pending EXCEPT ![k] = r.offer]
        /\ UNCHANGED <<up, asked, delivered>>

RunLoad ==
    /\ up["master"]
    /\ pending["load"] = NoOffer
    /\ used.offers < MaxOffers
    /\ \E fails \in BOOLEAN : MakeOffer("load", net, fails)

SlaveWants(e) ==
    /\ e.store.count \div 3 > 0
    /\ e.in.count < BufAmount
    /\ e.in.count < e.out.count

(* The slave asks for keys unless it has a LOAD-REQ under way that is not  *)
(* too old.                                                                *)
RunLoadRequest ==
    /\ up["slave"]
    /\ asked => used.timeouts < MaxTimeouts
    /\ used.asks < MaxAsks
    /\ \E fails \in BOOLEAN :
         LET wants == SlaveWants(eng["slave"])
         IN  /\ MayFail(fails)
             /\ fails => wants
             /\ asked' = (wants /\ ~fails)
             /\ net' = IF wants /\ ~fails THEN Sent(net, "master", LoadReq) ELSE net
             /\ used' = [used EXCEPT !.timeouts = IF asked THEN @ + 1 ELSE @,
                                     !.asks = IF wants /\ ~fails THEN @ + 1 ELSE @,
                                     !.fails = @ + CountFail(fails)]
    /\ UNCHANGED <<eng, up, pending, delivered>>

Head1(s) == net[s][1]
Rest(s) == [net EXCEPT ![s] = Tail(@)]

Receives(s, type) == up[s] /\ net[s] # <<>> /\ Head1(s).type = type

(* The master is asked; with an answer still pending the LOAD-REQ is       *)
(* dropped.                                                                *)
RecvLoadReq ==
    /\ Receives("master", "LOAD-REQ")
    /\ IF pending["request"] # NoOffer
       THEN /\ net' = Rest("master")
            /\ UNCHANGED <<eng, up, pending, asked, delivered, used>>
       ELSE \E fails \in BOOLEAN : MakeOffer("request", Rest("master"), fails)

(* The slave moves what it has and says so. *)
RecvLoad ==
    /\ Receives("slave", "LOAD")
    /\ LET m    == Head1("slave")
           buf  == MoveBuffer(eng["slave"], Target("slave", m.kind), m.keys, m.slots)
           app  == MoveBuffer(buf.eng, "app", m.appKeys, m.appSlots)
       IN  \E fails \in BOOLEAN :
             /\ MayFail(fails)
             /\ eng' = [eng EXCEPT !["slave"] = app.eng]
             /\ net' = IF fails THEN Rest("slave")
                       ELSE Sent(Rest("slave"), "master",
                                 Ack(m.kind, m.id, buf.moved, app.moved))
             /\ asked' = (asked /\ (fails \/ m.kind = "load"))
             /\ used' = [used EXCEPT !.fails = @ + CountFail(fails)]
    /\ UNCHANGED <<up, pending, delivered>>

(* The last n of the slots of an offer.  With n beyond the list's length   *)
(* the code walks memory in front of the list: whatever it reads there are *)
(* numbers too.                                                            *)
LastOf(slots, n) ==
    IF n <= Len(slots)
    THEN {{slots[j] : j \in Len(slots) - n + 1 .. Len(slots)}}
    ELSE {Elems(slots) \cup X :
            X \in {Y \in SUBSET Buffer!Id : Cardinality(Y) <= n - Len(slots)}}

(* The master moves what the slave moved, frees the keys that were not and *)
(* deletes as many slots, from the end of the list, as those would fill.   *)
RecvLoadAck ==
    /\ Receives("master", "LOAD-ACK")
    /\ LET m   == Head1("master")
           o   == pending[m.kind]
           tgt == Target("master", m.kind)
       IN  IF o.id # m.id
           THEN UNCHANGED <<eng, pending>>
           ELSE LET buf   == MoveBuffer(eng["master"], tgt, m.keys, o.slots)
                    app   == MoveBuffer(buf.eng, "app", m.appKeys, o.appSlots)
                    left  == Sub(o.keys, m.keys)
                    aLeft == Sub(o.appKeys, m.appKeys)
                    kept  == [app.eng EXCEPT
                                !.store = Store!SetKeyCount(@, Elems(left) \cup Elems(aLeft), 0)]
                IN  \E clear \in LastOf(o.slots, Len(left) * Ratio),
                       aClear \in LastOf(o.appSlots, Len(aLeft) * Ratio) :
                      /\ eng' = [eng EXCEPT !["master"] =
                           [kept EXCEPT
                              ![tgt] = Buffer!SetKeyCount(Buffer!Del(@, clear), Elems(o.slots), 0),
                              !.app  = Buffer!SetKeyCount(Buffer!Del(@, aClear), Elems(o.appSlots), 0)]]
                      /\ pending' = [pending EXCEPT ![m.kind] = NoOffer]
    /\ net' = Rest("master")
    /\ UNCHANGED <<up, asked, delivered, used>>

(* An offer grows older than 5 seconds: everything it lists is free again, *)
(* and a LOAD-ACK that comes later is no longer expected.                  *)
Timeout(k) ==
    /\ up["master"]
    /\ pending[k] # NoOffer
    /\ used.timeouts < MaxTimeouts
    /\ eng' = [eng EXCEPT !["master"] = Release(@, Target("master", k), pending[k])]
    /\ pending' = [pending EXCEPT ![k] = NoOffer]
    /\ used' = [used EXCEPT !.timeouts = @ + 1]
    /\ UNCHANGED <<up, asked, net, delivered>>

-----------------------------------------------------------------------------
(* A side's message queue takes one key of MQKeys buffer keys, or of the   *)
(* fewer it finds, out of the application buffer; when the queue refuses   *)
(* it the keys are free again.  produce() runs on the tick and on resume   *)
(* and goes on until the queue is full; the queue is paused at first and   *)
(* has room as its readers please: whether it takes a key now is open.     *)
Produce(s) ==
    LET found == Buffer!FindValid(eng[s].app, MQKeys, 1)
        S     == Elems(found.ids)
    IN  /\ up[s]
        /\ found.ids # <<>>
        /\ Len(delivered[s]) < MaxProduced
        /\ \/ /\ eng' = [eng EXCEPT ![s].app = Buffer!Del(found.db, S)]
              /\ delivered' = [delivered EXCEPT ![s] =
                    Append(@, [j \in DOMAIN found.ids |-> eng[s].app.data[found.ids[j]]])]
           \/ /\ eng' = [eng EXCEPT ![s].app = Buffer!SetKeyCount(found.db, S, 0)]
              /\ UNCHANGED delivered
        /\ UNCHANGED <<up, pending, asked, net, used>>

Next ==
    \/ Connect
    \/ \E s \in Side : SocketError(s) \/ ReopenStore(s) \/ Produce(s)
    \/ RunLoad \/ RunLoadRequest
    \/ RecvLoadReq \/ RecvLoad \/ RecvLoadAck
    \/ \E k \in Kind : Timeout(k)

Spec == Init /\ [][Next]_vars

-----------------------------------------------------------------------------
Message ==
    [type : {"LOAD", "LOAD-ACK", "LOAD-REQ"}, kind : Kind, id : Nat,
     keys : Seq(Store!Id), slots : Seq(Buffer!Id),
     appKeys : Seq(Store!Id), appSlots : Seq(Buffer!Id)]

Offer == [id : Nat, keys : Seq(Store!Id), slots : Seq(Buffer!Id),
          appKeys : Seq(Store!Id), appSlots : Seq(Buffer!Id)]

TypeOK ==
    /\ eng \in [Side -> Engine]
    /\ up \in [Side -> BOOLEAN]
    /\ pending \in [Kind -> Offer]
    /\ asked \in BOOLEAN
    /\ net \in [Side -> Seq(Message)]
    /\ delivered \in [Side -> Seq(Seq(Piece))]
    /\ used \in [{"offers", "asks", "timeouts", "fails", "connects"} -> Nat]

-----------------------------------------------------------------------------
(* Safety.                                                                 *)

Buffers == {"in", "out", "app"}

DeliveredPieces(s) ==
    UNION {Elems(delivered[s][n]) : n \in DOMAIN delivered[s]}

(* The slave never has a common store key the master does not have too:    *)
(* the master gives a key up only after the slave has (load.cpp:374).      *)
SlaveStoreWithinMasters ==
    /\ eng["slave"].store.valid \subseteq eng["master"].store.valid
    /\ \A k \in eng["slave"].store.valid :
          eng["slave"].store.data[k] = eng["master"].store.data[k]

(* One-time use at the slave: a key part is in at most one buffer slot,    *)
(* and if it is in one, or was handed out, the key has left the store.     *)
SlaveHoldsKeysOnce ==
    LET places(p) == {a \in Buffers \X Buffer!Id :
                        /\ a[2] \in eng["slave"][a[1]].valid
                        /\ eng["slave"][a[1]].data[a[2]] = p}
    IN  \A k \in StoreKeys : \A j \in 1 .. Ratio :
          LET p == <<k, j>>
          IN  /\ Cardinality(places(p)) <= 1
              /\ places(p) # {} \/ p \in DeliveredPieces("slave") =>
                    k \notin eng["slave"].store.valid
              /\ p \in DeliveredPieces("slave") => places(p) = {}

(* Slots in real sync on both sides hold the same key: the master's        *)
(* incoming is the slave's outgoing buffer and the other way round.        *)
Mirror(b) == CASE b = "in" -> "out" [] b = "out" -> "in" [] OTHER -> "app"

RealSlotsAgree ==
    \A b \in Buffers : \A i \in Buffer!Id :
        /\ i \in eng["master"][b].real
        /\ i \in eng["slave"][Mirror(b)].real
        => eng["master"][b].data[i] = eng["slave"][Mirror(b)].data[i]

(* What an offer lists is the offer's while it is pending: its slots are   *)
(* reserved at the master, no other search or the message queue gets them, *)
(* the two offers share no slot, and the two parts of one no common store  *)
(* key.  (Two offers may share one: OfferedOnce.)                          *)
OffersOwnWhatTheyList ==
    /\ \A k \in Kind :
         /\ \A i \in Elems(pending[k].slots) : eng["master"][Target("master", k)].cnt[i] # 0
         /\ \A i \in Elems(pending[k].appSlots) : eng["master"].app.cnt[i] # 0
         /\ Elems(pending[k].keys) \cap Elems(pending[k].appKeys) = {}
    /\ Elems(pending["load"].appSlots) \cap Elems(pending["request"].appSlots) = {}

(* One-time use at the master, while the first connection lasts and no     *)
(* offer times out: a key part that is in real sync is in one slot, one    *)
(* that was handed out is in none, and the master's store has the key no   *)
(* longer, so that no offer lists it again (load.cpp:374-375, mq.cpp:205). *)
MasterHoldsKeysOnce ==
    used.timeouts = 0 /\ used.connects = 1 =>
    LET places(p) == {a \in Buffers \X Buffer!Id :
                        /\ a[2] \in eng["master"][a[1]].real
                        /\ eng["master"][a[1]].data[a[2]] = p}
    IN  \A k \in StoreKeys : \A j \in 1 .. Ratio :
          LET p == <<k, j>>
          IN  /\ Cardinality(places(p)) <= 1
              /\ places(p) # {} \/ p \in DeliveredPieces("master") =>
                    k \notin eng["master"].store.valid
              /\ p \in DeliveredPieces("master") => places(p) = {}

Quiet ==
    /\ \A s \in Side : up[s] /\ net[s] = <<>> /\ delivered[s] = <<>>
    /\ \A k \in Kind : pending[k] = NoOffer

(* Whenever no message is under way and the message queues have taken      *)
(* nothing, the slave has in its slot whatever the master holds as agreed: *)
(* what the master sends with it the slave can read.                       *)
SlaveHasWhatIsReal ==
    Quiet => \A b \in Buffers : \A i \in eng["master"][b].real :
        /\ i \in eng["slave"][Mirror(b)].valid
        /\ eng["master"][b].data[i] = eng["slave"][Mirror(b)].data[i]

(* Taking in a LOAD-ACK the master clears no more slots than its offer     *)
(* lists (load.cpp:384-392).  The code does not see to that: it counts     *)
(* them by the keys the slave did not move, and keys may have been offered *)
(* with fewer slots than they fill.  While it is so, the three properties  *)
(* of the buffers above hold of any number of keys, slots and offers.      *)
WithinLists ==
    Receives("master", "LOAD-ACK") =>
        LET m == Head1("master")
            o == pending[m.kind]
        IN  o.id = m.id =>
              /\ Len(Sub(o.keys, m.keys)) * Ratio \in 0 .. Len(o.slots)
              /\ Len(Sub(o.appKeys, m.appKeys)) * Ratio \in 0 .. Len(o.appSlots)

(* db_ram.cpp:420-424, "a key in real sync is present at both sides of the *)
(* key store, at master's and at slave's".  A key offered with too few     *)
(* slots moves at neither side, but the master clears as many slots as it  *)
(* would have filled, from the end of the list (load.cpp:384-388): the     *)
(* last slots of a key that has moved are among them.                      *)
RealMeansBothSides ==
    Quiet => \A b \in Buffers : \A i \in eng["slave"][Mirror(b)].real :
        i \in eng["master"][b].valid

(* load.cpp:527, "not enough keys: free them": while a connection lasts, a *)
(* common store key the master has reserved is one a pending offer lists.  *)
OfferedKeys(k) == Elems(pending[k].keys) \cup Elems(pending[k].appKeys)

ReservedKeysOffered ==
    up["master"] /\ used.connects = 1 =>
        {k \in Store!Id : eng["master"].store.cnt[k] # 0}
            \subseteq OfferedKeys("load") \cup OfferedKeys("request")

(* load.cpp:528 frees the keys of the incoming part where those of the     *)
(* application part are meant: one that has no slots is free while it is   *)
(* on offer, and a LOAD-REQUEST offers it too.                             *)
OfferedOnce == OfferedKeys("load") \cap OfferedKeys("request") = {}

-----------------------------------------------------------------------------
(* Liveness.  The event loops run: a message that has arrived is handled,  *)
(* and the tick runs LOAD and LOAD-REQUEST again and again.  Nothing is    *)
(* assumed of timeouts, of the connection or of the message queues.  The   *)
(* fairness is weak, with the condition under which the step is enabled    *)
(* (and changes something) written out.                                    *)

OfferPossible ==
    LET e == eng["master"]
        w == LoadWants(e)
        o == Reserve(e, "load", Granted(e, w.buf), Granted(e, w.app)).offer
    IN  /\ up["master"] /\ pending["load"] = NoOffer /\ used.offers < MaxOffers
        /\ o.keys # <<>> \/ o.appKeys # <<>>
        /\ Len(o.keys) >= MinKeys

AskPossible ==
    up["slave"] /\ ~asked /\ used.asks < MaxAsks /\ SlaveWants(eng["slave"])

Fairness ==
    /\ <>[]Receives("slave", "LOAD") => []<><<RecvLoad>>_vars
    /\ <>[]Receives("master", "LOAD-ACK") => []<><<RecvLoadAck>>_vars
    /\ <>[]Receives("master", "LOAD-REQ") => []<><<RecvLoadReq>>_vars
    /\ <>[]OfferPossible => []<><<RunLoad>>_vars
    /\ <>[]AskPossible => []<><<RunLoadRequest>>_vars

FairSpec == Spec /\ Fairness

Down == \E s \in Side : ~up[s]

(* An offer is answered, or a send fails or a side goes down: no LOAD-REQ, *)
(* no other offer and no key the slave lacks keeps it waiting.             *)
OffersAreAnswered ==
    \A k \in Kind :
        (pending[k] # NoOffer) ~> (pending[k] = NoOffer \/ Down \/ used.fails > 0)

(* After the first handshake the buffers get keys both sides agree on, in  *)
(* both directions, however the message queues interfere.                  *)
Loaded(s, b) == \E i \in eng[s][b].real : eng[s][b].data[i][1] > 0

BuffersGetLoaded ==
    (used.connects = 1 /\ ~Down)
    ~> (\/ Down \/ used.fails > 0 \/ used.timeouts > 0
        \/ Loaded("master", "in") /\ Loaded("slave", "out"))
=============================================================================
