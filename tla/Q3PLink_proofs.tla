--------------------------- MODULE Q3PLink_proofs ---------------------------
(***************************************************************************)
(* Proofs about Q3PLink, where no client interferes with a handshake: two  *)
(* engines connected with each other are one master and one slave, and     *)
(* their channels match, however often the link was lost, refused or late. *)
(***************************************************************************)
EXTENDS Q3PLink, TLAPS
-----------------------------------------------------------------------------
(* The strengthening.                                                      *)

Roles == {"none", "master", "slave"}
Messages == [type : {"HS", "FIN"}, role : Roles, nonce : Nonces \cup {0},
             scheme : [Dir -> SchemeNames \cup {"none"}]]
Connection == [from : Side, end : [Side -> {"none", "opening", "pending", "open"}],
               box : [Side -> Seq(Messages)]]

Typed ==
    /\ open \in [Side -> BOOLEAN] /\ listening \in [Side -> BOOLEAN]
    /\ reconnect \in [Side -> BOOLEAN]
    /\ nonce \in [Side -> Nonces \cup {0}]
    /\ conn \in [Conns -> Connection]
    /\ calls \in 0 .. MaxCalls /\ faults \in 0 .. MaxFaults

(* An engine is in a handshake or connected, or neither, and then has its  *)
(* end of an open connection.                                              *)
Placed ==
    /\ connected \in [Side -> BOOLEAN]
    /\ socket \in [Side -> Conns \cup {NoConn}]
    /\ handshake \in [Side -> {"none", "live"}]
    /\ \A s \in Side :
        /\ (socket[s] # NoConn) => conn[socket[s]].end[s] \in {"opening", "open"}
        /\ (connected[s] \/ handshake[s] = "live") =>
               (socket[s] # NoConn /\ conn[socket[s]].end[s] = "open")
        /\ ~(connected[s] /\ handshake[s] = "live")

Channels == [Dir -> [name : SchemeNames \cup {"none"}, part : 0 .. 2]]

(* Both directions use one scheme, as configured. *)
Symmetric ==
    /\ role \in [Side -> Roles] /\ channel \in [Side -> Channels]
    /\ scheme \in [Side -> [Dir -> SchemeNames]]
    /\ \A s \in Side : scheme[s]["in"] = scheme[s]["out"]

Live(s, c) == socket[s] = c /\ handshake[s] = "live"
Up(s, c) == socket[s] = c /\ connected[s]
Ahead(s, c) == conn[c].end[s] \in {"pending", "opening"}
Awaits(s, c) == Live(s, c) \/ Ahead(s, c)

Handshakes(box) == {m \in Messages : m.type = "HS" /\ \E i \in DOMAIN box : m = box[i]}
In(s, c) == Handshakes(conn[c].box[s])
Sent(s) == [type |-> "HS", role |-> role[s], nonce |-> nonce[s], scheme |-> scheme[s]]

Opposite(r, q) == {r, q} = {"master", "slave"}
Match(f, g) == f["in"] = g["out"] /\ f["out"] = g["in"]

(* While one has not begun its handshake the other has none to read. *)
Quiet == \A c \in Conns, s \in Side : Ahead(Peer(s), c) => (In(s, c) = {} /\ ~Up(s, c))

(* A handshake that will be read is what its sender still says, or leads   *)
(* to the opposite of what its sender has become.                          *)
Fits(s, m, c) ==
    /\ Opposite(RoleAfter(s, m), role[Peer(s)])
    /\ (m.scheme["in"] = scheme[s]["out"])
          => Match(Association(s, RoleAfter(s, m)), channel[Peer(s)])

Truthful ==
    \A c \in Conns, s \in Side : Awaits(s, c) =>
        \A m \in In(s, c) :
            /\ Live(Peer(s), c) => m = Sent(Peer(s))
            /\ Up(Peer(s), c) => Fits(s, m, c)

Agreed ==
    \A c \in Conns : Up("alice", c) /\ Up("bob", c) =>
        Opposite(role["alice"], role["bob"]) /\ Match(channel["alice"], channel["bob"])

Told == Quiet /\ Truthful /\ Agreed
IInv == Typed /\ Placed /\ Symmetric /\ Told

-----------------------------------------------------------------------------
(* Facts about roles, schemes and boxes.                                   *)

(* There are two sides, each the other's peer. *)
LEMMA Sides == /\ \A s \in Side : Peer(s) \in Side /\ Peer(s) # s /\ Peer(Peer(s)) = s
               /\ \A s, e \in Side : (e = s) \/ (e = Peer(s))
BY DEF Side, Peer

(* Parity and order: of two different nonces one is the greater. *)
LEMMA DiceDiffer ==
    ASSUME NEW a \in Nat, NEW b \in Nat, a # b
    PROVE  (((a + b) % 2 = 0) <=> (a > b)) <=> ~(((b + a) % 2 = 0) <=> (b > a))
<1>1. a + b = b + a
  OBVIOUS
<1>2. (a > b) <=> ~(b > a)
  OBVIOUS
<1> QED
  BY <1>1, <1>2, Zenon

(* Each from what the other has said, two engines choose opposite roles.   *)
LEMMA RolesDiffer ==
    ASSUME Typed, Symmetric, NEW s \in Side,
           ~(Dice(s, Sent(Peer(s))) /\ nonce[Peer(s)] = nonce[s])
    PROVE  Opposite(RoleAfter(s, Sent(Peer(s))), RoleAfter(Peer(s), Sent(s)))
<1> DEFINE p == Peer(s)
<1>1. p \in Side /\ Peer(p) = s
  BY Sides
<1>2. Sent(p).role = role[p] /\ Sent(p).nonce = nonce[p] /\ Sent(s).role = role[s] /\ Sent(s).nonce = nonce[s]
  BY DEF Sent
<1>3. role[s] \in Roles /\ role[p] \in Roles
  BY <1>1 DEF Symmetric
<1>4. nonce[s] \in Nat /\ nonce[p] \in Nat
  <2>1. nonce[s] \in Nonces \cup {0} /\ nonce[p] \in Nonces \cup {0}
    BY <1>1 DEF Typed
  <2>2. Nonces \cup {0} \subseteq Nat
    BY NoncesAssumption
  <2> QED
    BY <2>1, <2>2
<1>5. Master(s, Sent(p)) <=> ~Master(p, Sent(s))
  <2>1. CASE role[s] = role[p]
    <3>1. nonce[s] # nonce[p]
      BY <2>1, <1>2 DEF Dice
    <3>2. (((nonce[s] + nonce[p]) % 2 = 0) <=> (nonce[s] > nonce[p]))
             <=> ~(((nonce[p] + nonce[s]) % 2 = 0) <=> (nonce[p] > nonce[s]))
      BY <3>1, <1>4, DiceDiffer
    <3>3. Master(s, Sent(p)) <=> (((nonce[s] + nonce[p]) % 2 = 0) <=> (nonce[s] > nonce[p]))
      BY <2>1, <1>2 DEF Master, Dice
    <3>4. Master(p, Sent(s)) <=> (((nonce[p] + nonce[s]) % 2 = 0) <=> (nonce[p] > nonce[s]))
      BY <2>1, <1>2 DEF Master, Dice
    <3> QED
      BY <3>2, <3>3, <3>4
  <2>2. CASE role[s] # role[p]
    BY <2>2, <1>2, <1>3 DEF Master, Dice, Roles
  <2> QED
    BY <2>1, <2>2
<1> QED
  BY <1>5 DEF RoleAfter, Opposite

(* Neither an empty queue nor a closing carries a HANDSHAKE. *)
LEMMA HandshakesEmpty == Handshakes(<<>>) = {} /\ Handshakes(<<FIN>>) = {}
BY DEF Handshakes, FIN

(* Sending adds at most the message sent to the HANDSHAKEs under way. *)
LEMMA HandshakesAppend ==
    ASSUME NEW box \in Seq(Messages), NEW m \in Messages
    PROVE  /\ Append(box, m) \in Seq(Messages)
           /\ Handshakes(Append(box, m)) \subseteq Handshakes(box) \cup {m}
           /\ (m.type # "HS") => Handshakes(Append(box, m)) \subseteq Handshakes(box)
BY DEF Handshakes

(* Receiving takes one message and adds no HANDSHAKE. *)
LEMMA HandshakesTail ==
    ASSUME NEW box \in Seq(Messages), box # <<>>
    PROVE  /\ Tail(box) \in Seq(Messages) /\ Head(box) \in Messages
           /\ Handshakes(Tail(box)) \subseteq Handshakes(box)
           /\ (Head(box).type = "HS") => (Head(box) \in Handshakes(box))
BY DEF Handshakes

(* The keys of an end without channel have the type of a channel. *)
LEMMA NoChannelIsChannel == NoChannel \in Channels
BY DEF NoChannel, Channels

(* A closing is a message. *)
LEMMA FinIsMessage == FIN \in Messages
BY DEF FIN, Messages, Roles, Dir

-----------------------------------------------------------------------------
(* How steps change what has been told.                                    *)

NothingNew ==
    \A c \in Conns, e \in Side :
        /\ In(e, c)' \subseteq In(e, c)
        /\ Ahead(e, c)' => Ahead(e, c)

SameEnds == UNCHANGED <<socket, handshake, nonce, connected, role, scheme, channel>>

(* A step that says nothing new and leaves both engines as they are.       *)
LEMMA ToldKept ==
    ASSUME Told, NothingNew, SameEnds
    PROVE  Told'
<1>1. \A c \in Conns, e \in Side : /\ Up(e, c)' = Up(e, c) /\ Live(e, c)' = Live(e, c)
                                   /\ Sent(e)' = Sent(e)
  BY DEF SameEnds, Up, Live, Sent
<1>2. \A c \in Conns, e \in Side, m \in Messages : Fits(e, m, c)' = Fits(e, m, c)
  BY DEF SameEnds, Fits, RoleAfter, Master, Dice, Match, Association, Swapped, WithKeys, Opposite
<1>3. \A c \in Conns, e \in Side : In(e, c) \subseteq Messages
  BY DEF In, Handshakes
<1>4. Quiet'
  BY <1>1, Sides DEF Told, Quiet, NothingNew
<1>5. Truthful'
  BY <1>1, <1>2, <1>3, Sides DEF Told, Truthful, NothingNew, Awaits
<1>6. Agreed'
  BY <1>1, Sides DEF Told, Agreed, SameEnds, Match, Opposite, Side
<1> QED
  BY <1>4, <1>5, <1>6 DEF Told

(* A step after which s is neither connected nor in a handshake.           *)
LEMMA ToldWhenDown ==
    ASSUME Told, NothingNew, NEW s \in Side,
           ~connected'[s], handshake'[s] # "live", scheme' = scheme,
           \A c \in Conns : /\ Up(Peer(s), c)' = Up(Peer(s), c)
                            /\ Live(Peer(s), c)' = Live(Peer(s), c),
           Sent(Peer(s))' = Sent(Peer(s))
    PROVE  Told'
<1> DEFINE p == Peer(s)
<1>1. p \in Side /\ Peer(p) = s /\ \A e \in Side : (e = s) \/ (e = p)
  BY Sides
<1>2. \A c \in Conns : ~Up(s, c)' /\ ~Live(s, c)'
  BY DEF Up, Live
<1>3. Quiet'
  BY <1>1, <1>2 DEF Told, Quiet, NothingNew
<1>4. Truthful'
  <2> SUFFICES ASSUME NEW c \in Conns, NEW e \in Side, Awaits(e, c)', NEW m \in In(e, c)'
               PROVE  (Live(Peer(e), c) => m = Sent(Peer(e)))' /\ (Up(Peer(e), c) => Fits(e, m, c))'
    BY DEF Truthful
  <2>1. CASE e = p
    BY <2>1, <1>1, <1>2
  <2>2. CASE e = s
    <3>1. Ahead(s, c)
      BY <2>2, <1>2 DEF Awaits, NothingNew
    <3>2. ~Up(p, c)
      BY <3>1, <1>1 DEF Told, Quiet
    <3>3. m \in In(s, c)
      BY <2>2 DEF NothingNew
    <3>4. Live(p, c) => m = Sent(p)
      BY <3>1, <3>3 DEF Told, Truthful, Awaits
    <3> QED
      BY <2>2, <3>2, <3>4
  <2> QED
    BY <1>1, <2>1, <2>2
<1>5. Agreed'
  BY <1>2 DEF Agreed, Side
<1> QED
  BY <1>3, <1>4, <1>5 DEF Told

-----------------------------------------------------------------------------
(* Connections.                                                            *)

(* Only the ends and the boxes of c change: into those of k.               *)
LEMMA ConnBecomes ==
    ASSUME Typed, NEW c \in Conns, NEW k \in Connection, conn' = [conn EXCEPT ![c] = k]
    PROVE  /\ conn' \in [Conns -> Connection]
           /\ \A d \in Conns : conn'[d] = IF d = c THEN k ELSE conn[d]
           /\ \A d \in Conns, e \in Side :
                  /\ In(e, d)' = IF d = c THEN Handshakes(k.box[e]) ELSE In(e, d)
                  /\ Ahead(e, d)' = IF d = c THEN k.end[e] \in {"pending", "opening"} ELSE Ahead(e, d)
<1>1. conn \in [Conns -> Connection]
  BY DEF Typed
<1>2. conn' \in [Conns -> Connection]
  BY <1>1
<1>3. \A d \in Conns : conn'[d] = IF d = c THEN k ELSE conn[d]
  BY <1>1
<1> QED
  BY <1>2, <1>3 DEF In, Ahead

(* Closing one end frees that end, leaves the other and adds no HANDSHAKE. *)
LEMMA ClosedEnd ==
    ASSUME NEW k \in Connection, NEW s \in Side
    PROVE  /\ Closed(k, s) \in Connection
           /\ \A e \in Side : /\ Closed(k, s).end[e] = IF e = s THEN "none" ELSE k.end[e]
                            /\ Handshakes(Closed(k, s).box[e]) \subseteq Handshakes(k.box[e])
<1> DEFINE b == [e \in Side |-> IF e = s \/ k.end[e] = "none" THEN <<>> ELSE Append(k.box[e], FIN)]
<1>1. k.box \in [Side -> Seq(Messages)] /\ k.end \in [Side -> {"none", "opening", "pending", "open"}] /\ k.from \in Side
  BY DEF Connection
<1>2. \A e \in Side : b[e] \in Seq(Messages) /\ Handshakes(b[e]) \subseteq Handshakes(k.box[e])
  <2> SUFFICES ASSUME NEW e \in Side
               PROVE  b[e] \in Seq(Messages) /\ Handshakes(b[e]) \subseteq Handshakes(k.box[e])
    OBVIOUS
  <2>1. k.box[e] \in Seq(Messages) /\ FIN.type # "HS"
    BY <1>1 DEF FIN
  <2> QED
    BY <2>1, HandshakesAppend, HandshakesEmpty, FinIsMessage
<1>3. Closed(k, s) = [from |-> k.from, end |-> [k.end EXCEPT ![s] = "none"], box |-> b]
  BY DEF Closed
<1>4. b \in [Side -> Seq(Messages)]
  BY <1>2
<1> HIDE DEF b
<1> QED
  BY <1>1, <1>2, <1>3, <1>4 DEF Connection

(* Closing an end says nothing new and ends nothing but this end.          *)
LEMMA Closes ==
    ASSUME Typed, NEW c \in Conns, NEW s \in Side, conn' = [conn EXCEPT ![c] = Closed(@, s)]
    PROVE  /\ conn' \in [Conns -> Connection] /\ NothingNew
           /\ \A d \in Conns, e \in Side : (d # c \/ e # s) => conn'[d].end[e] = conn[d].end[e]
<1> DEFINE k == Closed(conn[c], s)
<1>1. conn \in [Conns -> Connection] /\ conn[c] \in Connection
  BY DEF Typed
<1>2. conn' = [conn EXCEPT ![c] = k]
  OBVIOUS
<1>3. /\ k \in Connection
      /\ \A e \in Side : /\ k.end[e] = IF e = s THEN "none" ELSE conn[c].end[e]
                       /\ Handshakes(k.box[e]) \subseteq Handshakes(conn[c].box[e])
  BY <1>1, ClosedEnd
<1> HIDE DEF k
<1>4. /\ conn' \in [Conns -> Connection]
      /\ \A d \in Conns : conn'[d] = IF d = c THEN k ELSE conn[d]
      /\ \A d \in Conns, e \in Side :
             /\ In(e, d)' = IF d = c THEN Handshakes(k.box[e]) ELSE In(e, d)
             /\ Ahead(e, d)' = IF d = c THEN k.end[e] \in {"pending", "opening"} ELSE Ahead(e, d)
  BY <1>2, <1>3, ConnBecomes
<1>5. NothingNew
  BY <1>3, <1>4 DEF NothingNew, In, Ahead
<1> QED
  BY <1>3, <1>4, <1>5

-----------------------------------------------------------------------------
(* Steps that end a connection or a handshake.                             *)

(* A step after which s has no socket; the peer does not change.           *)
LEMMA GoesDown ==
    ASSUME IInv, NEW s \in Side,
           conn' \in [Conns -> Connection], NothingNew,
           \A c \in Conns : (socket[Peer(s)] = c) => conn'[c].end[Peer(s)] = conn[c].end[Peer(s)],
           socket' = [socket EXCEPT ![s] = NoConn],
           handshake' = [handshake EXCEPT ![s] = "none"],
           connected' = [connected EXCEPT ![s] = FALSE],
           channel' \in [Side -> Channels], channel'[Peer(s)] = channel[Peer(s)],
           nonce' = nonce, scheme' = scheme,
           role' \in [Side -> Roles], role'[Peer(s)] = role[Peer(s)]
    PROVE  Placed' /\ Symmetric' /\ Told'
<1> DEFINE p == Peer(s)
<1>1. p \in Side /\ p # s /\ \A e \in Side : (e = s) \/ (e = p)
  BY Sides
<1>2. /\ connected \in [Side -> BOOLEAN] /\ socket \in [Side -> Conns \cup {NoConn}]
      /\ handshake \in [Side -> {"none", "live"}]
  BY DEF IInv, Placed
<1>3. /\ ~connected'[s] /\ handshake'[s] = "none" /\ socket'[s] = NoConn
      /\ connected'[p] = connected[p] /\ handshake'[p] = handshake[p] /\ socket'[p] = socket[p]
  BY <1>1, <1>2
<1>4. Placed'
  <2>1. /\ connected' \in [Side -> BOOLEAN] /\ socket' \in [Side -> Conns \cup {NoConn}]
        /\ handshake' \in [Side -> {"none", "live"}]
    BY <1>2
  <2> SUFFICES ASSUME NEW e \in Side
               PROVE  /\ (socket'[e] # NoConn) => conn'[socket'[e]].end[e] \in {"opening", "open"}
                      /\ (connected'[e] \/ handshake'[e] = "live") =>
                             (socket'[e] # NoConn /\ conn'[socket'[e]].end[e] = "open")
                      /\ ~(connected'[e] /\ handshake'[e] = "live")
    BY <2>1 DEF Placed
  <2>2. CASE e = s
    BY <2>2, <1>3
  <2>3. CASE e = p
    <3>1. (socket[p] # NoConn) => conn'[socket[p]].end[p] = conn[socket[p]].end[p]
      BY <1>1, <1>2
    <3> QED
      BY <2>3, <3>1, <1>1, <1>3 DEF IInv, Placed
  <2> QED
    BY <1>1, <2>2, <2>3
<1>5. Symmetric'
  BY DEF IInv, Symmetric
<1>6. \A c \in Conns : Up(p, c)' = Up(p, c) /\ Live(p, c)' = Live(p, c)
  BY <1>3 DEF Up, Live
<1>7. Sent(p)' = Sent(p)
  BY DEF Sent
<1>8. Told'
  BY <1>3, <1>6, <1>7, ToldWhenDown DEF IInv
<1> QED
  BY <1>4, <1>5, <1>8

(* handshake_failed() loses the end of the connection and the socket.      *)
LEMMA FailedStep ==
    ASSUME IInv, NEW s \in Side, socket[s] # NoConn, Failed(s),
           UNCHANGED <<open, listening, nonce, reconnect, calls, scheme, channel>>,
           faults' \in 0 .. MaxFaults,
           role' \in [Side -> Roles], role'[Peer(s)] = role[Peer(s)]
    PROVE  IInv'
<1>1. socket[s] \in Conns
  BY DEF IInv, Placed
<1>2. /\ conn' \in [Conns -> Connection] /\ NothingNew
      /\ \A d \in Conns, e \in Side : (d # socket[s] \/ e # s) => conn'[d].end[e] = conn[d].end[e]
  BY <1>1, Closes DEF Failed, IInv
<1>3. channel' \in [Side -> Channels]
  BY DEF IInv, Symmetric
<1>4. Placed' /\ Symmetric' /\ Told'
  BY <1>2, <1>3, Sides, GoesDown DEF Failed
<1>5. Typed'
  BY <1>2 DEF IInv, Typed
<1> QED
  BY <1>4, <1>5 DEF IInv

(* The action Timeout keeps the invariant. *)
LEMMA TimeoutStep == ASSUME IInv, NEW s \in Side, HandshakeTimeout(s) PROVE IInv'
<1>1. socket[s] # NoConn
  BY DEF HandshakeTimeout, IInv, Placed
<1>2. faults' \in 0 .. MaxFaults
  BY BoundsAssumption DEF HandshakeTimeout, IInv, Typed
<1>3. role' = role /\ role \in [Side -> Roles]
  BY DEF HandshakeTimeout, IInv, Symmetric
<1> QED
  BY <1>1, <1>2, <1>3, FailedStep DEF HandshakeTimeout

(* The action PeerGone keeps the invariant. *)
LEMMA PeerGoneStep ==
    ASSUME IInv, NEW s \in Side, NEW c \in Conns, PeerGone(s, c)
    PROVE  IInv'
<1>1. /\ conn' \in [Conns -> Connection] /\ NothingNew
      /\ \A d \in Conns, e \in Side : (d # c \/ e # s) => conn'[d].end[e] = conn[d].end[e]
  BY Closes DEF PeerGone, IInv
<1>2. /\ role \in [Side -> Roles] /\ channel' \in [Side -> Channels]
      /\ channel'[Peer(s)] = channel[Peer(s)]
  BY Sides, NoChannelIsChannel DEF PeerGone, SocketError, IInv, Symmetric
<1>3. Placed' /\ Symmetric' /\ Told'
  BY <1>1, <1>2, Sides, GoesDown DEF PeerGone, SocketError
<1>4. Typed'
  BY <1>1 DEF IInv, Typed, PeerGone, SocketError
<1> QED
  BY <1>3, <1>4 DEF IInv

(* The action Refused keeps the invariant. *)
LEMMA RefusedStep ==
    ASSUME IInv, NEW s \in Side, NEW c \in Conns, Refused(s, c)
    PROVE  IInv'
<1>1. FreeConn \in Connection /\ \A e \in Side : FreeConn.end[e] = "none" /\ FreeConn.box[e] = <<>>
  BY DEF FreeConn, Connection, Side
<1>2. conn' = [conn EXCEPT ![c] = FreeConn] /\ conn[c].end[Peer(s)] = "pending"
  BY DEF Refused
<1>3. /\ conn' \in [Conns -> Connection]
      /\ \A d \in Conns : conn'[d] = IF d = c THEN FreeConn ELSE conn[d]
      /\ \A d \in Conns, e \in Side :
             /\ In(e, d)' = IF d = c THEN Handshakes(FreeConn.box[e]) ELSE In(e, d)
             /\ Ahead(e, d)' = IF d = c THEN FreeConn.end[e] \in {"pending", "opening"} ELSE Ahead(e, d)
  BY <1>1, <1>2, ConnBecomes DEF IInv
<1>4. NothingNew
  BY <1>1, <1>3, HandshakesEmpty DEF NothingNew
<1>5. \A d \in Conns : (socket[Peer(s)] = d) => conn'[d].end[Peer(s)] = conn[d].end[Peer(s)]
  BY <1>2, <1>3, Sides, BoundsAssumption DEF IInv, Placed, NoConn
<1>6. /\ role \in [Side -> Roles] /\ channel' \in [Side -> Channels]
      /\ channel'[Peer(s)] = channel[Peer(s)]
  BY Sides, NoChannelIsChannel DEF Refused, SocketError, IInv, Symmetric
<1>7. Placed' /\ Symmetric' /\ Told'
  BY <1>3, <1>4, <1>5, <1>6, GoesDown DEF Refused, SocketError
<1>8. Typed'
  BY <1>3 DEF IInv, Typed, Refused, SocketError
<1> QED
  BY <1>7, <1>8 DEF IInv

(* The action Disconnect keeps the invariant. *)
LEMMA DisconnectStep ==
    ASSUME DuringHandshake = {}, IInv, NEW s \in Side, Disconnect(s)
    PROVE  IInv'
<1>1. handshake[s] = "none" /\ handshake \in [Side -> {"none", "live"}]
  BY DEF Disconnect, Allowed, IInv, Placed
<1>2. handshake' = [handshake EXCEPT ![s] = "none"]
  BY <1>1 DEF Disconnect
<1>3. /\ conn' \in [Conns -> Connection] /\ NothingNew
      /\ \A d \in Conns, e \in Side : (e # s) => conn'[d].end[e] = conn[d].end[e]
  <2>1. CASE socket[s] = NoConn
    BY <2>1 DEF Disconnect, IInv, Typed, NothingNew, In, Ahead
  <2>2. CASE socket[s] # NoConn
    <3>1. PICK c \in Conns : c = socket[s]
      BY <2>2 DEF IInv, Placed
    <3>2. conn' = [conn EXCEPT ![c] = Closed(@, s)]
      BY <2>2, <3>1 DEF Disconnect
    <3>3. /\ conn' \in [Conns -> Connection] /\ NothingNew
          /\ \A d \in Conns, e \in Side : (d # c \/ e # s) => conn'[d].end[e] = conn[d].end[e]
      BY <3>2, Closes DEF IInv
    <3> QED
      BY <3>3
  <2> QED
    BY <2>1, <2>2
<1>4. /\ role \in [Side -> Roles] /\ channel' \in [Side -> Channels]
      /\ channel'[Peer(s)] = channel[Peer(s)]
  BY Sides, NoChannelIsChannel DEF Disconnect, IInv, Symmetric
<1>5. Placed' /\ Symmetric' /\ Told'
  BY <1>2, <1>3, <1>4, Sides, GoesDown DEF Disconnect
<1>6. Typed'
  BY <1>3, BoundsAssumption DEF IInv, Typed, Disconnect, Call
<1> QED
  BY <1>5, <1>6 DEF IInv

(* The action SetRole keeps the invariant. *)
LEMMA SetRoleStep ==
    ASSUME DuringHandshake = {}, IInv, NEW s \in Side, SetRole(s)
    PROVE  IInv'
<1> DEFINE p == Peer(s)
<1>1. p \in Side /\ p # s
  BY Sides
<1>2. handshake[s] = "none" /\ ~connected[s]
  BY DEF SetRole, Allowed
<1>3. role' \in [Side -> Roles] /\ role'[p] = role[p]
  BY <1>1 DEF SetRole, IInv, Symmetric, Roles
<1>4. UNCHANGED <<socket, handshake, connected, nonce, scheme, channel, conn>>
  BY DEF SetRole
<1>5. NothingNew
  BY <1>4 DEF NothingNew, In, Ahead
<1>6. \A c \in Conns : Up(p, c)' = Up(p, c) /\ Live(p, c)' = Live(p, c)
  BY <1>4 DEF Up, Live
<1>7. Sent(p)' = Sent(p)
  BY <1>3, <1>4 DEF Sent
<1>8. Told'
  BY <1>2, <1>4, <1>5, <1>6, <1>7, ToldWhenDown DEF IInv
<1>9. Placed' /\ Symmetric'
  BY <1>3, <1>4 DEF IInv, Placed, Symmetric
<1>10. Typed'
  BY BoundsAssumption DEF IInv, Typed, SetRole, Call
<1> QED
  BY <1>8, <1>9, <1>10 DEF IInv

-----------------------------------------------------------------------------
(* Steps that say nothing new to anyone.                                   *)

(* A step that sends no HANDSHAKE and moves no end keeps what was said true. *)
LEMMA SaysNothing ==
    ASSUME IInv, SameEnds, NothingNew, conn' \in [Conns -> Connection],
           \A c \in Conns, e \in Side : (socket[e] = c) => conn'[c].end[e] = conn[c].end[e]
    PROVE  Placed' /\ Symmetric' /\ Told'
<1>1. Told'
  BY ToldKept DEF IInv
<1>2. Symmetric'
  BY DEF IInv, Symmetric, SameEnds
<1>3. Placed'
  BY DEF IInv, Placed, SameEnds
<1> QED
  BY <1>1, <1>2, <1>3

(* The action OpenListen keeps the invariant. *)
LEMMA OpenListenStep ==
    ASSUME IInv, NEW s \in Side, OpenDB(s) \/ CloseDB(s) \/ Listen(s)
    PROVE  IInv'
<1>1. SameEnds /\ UNCHANGED conn
  BY DEF OpenDB, CloseDB, Listen, SameEnds
<1>2. NothingNew
  BY <1>1 DEF NothingNew, In, Ahead
<1>3. Typed'
  <2>1. CASE OpenDB(s)
    BY <2>1 DEF OpenDB, IInv, Typed
  <2>2. CASE CloseDB(s)
    BY <2>2, BoundsAssumption DEF CloseDB, Call, IInv, Typed
  <2>3. CASE Listen(s)
    BY <2>3 DEF Listen, IInv, Typed
  <2> QED
    BY <2>1, <2>2, <2>3
<1>4. Placed' /\ Symmetric' /\ Told'
  BY <1>1, <1>2, <1>3, SaysNothing DEF Typed
<1> QED
  BY <1>3, <1>4 DEF IInv

(* The action Lost keeps the invariant. *)
LEMMA LostStep ==
    ASSUME IInv, NEW c \in Conns, Lost(c)
    PROVE  IInv'
<1> DEFINE b == [s \in Side |-> IF conn[c].end[s] = "none" THEN <<>> ELSE <<FIN>>]
           k == [conn[c] EXCEPT !.box = b]
<1>1. conn \in [Conns -> Connection] /\ conn[c] \in Connection
  BY DEF IInv, Typed
<1>2. b \in [Side -> Seq(Messages)] /\ \A e \in Side : Handshakes(b[e]) = {}
  BY FinIsMessage, HandshakesEmpty
<1>3. conn' = [conn EXCEPT ![c] = k]
  BY DEF Lost
<1> HIDE DEF b
<1>4. k \in Connection /\ k.end = conn[c].end /\ k.box = b
  BY <1>1, <1>2 DEF Connection
<1> HIDE DEF k
<1>5. /\ conn' \in [Conns -> Connection]
      /\ \A d \in Conns : conn'[d] = IF d = c THEN k ELSE conn[d]
      /\ \A d \in Conns, e \in Side :
             /\ In(e, d)' = IF d = c THEN Handshakes(k.box[e]) ELSE In(e, d)
             /\ Ahead(e, d)' = IF d = c THEN k.end[e] \in {"pending", "opening"} ELSE Ahead(e, d)
  BY <1>3, <1>4, ConnBecomes DEF IInv
<1>6. NothingNew
  BY <1>2, <1>4, <1>5 DEF NothingNew, Ahead
<1>7. SameEnds
  BY DEF Lost, SameEnds, engine
<1>8. Typed'
  BY <1>5, BoundsAssumption DEF IInv, Typed, Lost, engine
<1> QED
  BY <1>4, <1>5, <1>6, <1>7, <1>8, SaysNothing DEF IInv

-----------------------------------------------------------------------------
(* Dialling: a fresh connection, on which nobody is yet.                   *)

(* The action Dial keeps the invariant. *)
LEMMA DialStep ==
    ASSUME IInv, NEW s \in Side, Dial(s), calls' \in 0 .. MaxCalls, UNCHANGED faults
    PROVE  IInv'
<1> DEFINE p == Peer(s)
<1>1. PICK c \in Conns :
          /\ \A e \in Side : conn[c].end[e] = "none"
          /\ socket' = [socket EXCEPT ![s] = c]
          /\ conn' = [conn EXCEPT ![c] =
                [from |-> s, box |-> FreeConn.box,
                 end |-> [e \in Side |-> IF e = s THEN "opening" ELSE "pending"]]]
  BY DEF Dial
<1> DEFINE k == [from |-> s, box |-> FreeConn.box,
                 end |-> [e \in Side |-> IF e = s THEN "opening" ELSE "pending"]]
<1>2. /\ socket[s] = NoConn
      /\ UNCHANGED <<open, listening, handshake, nonce, connected, reconnect, role, scheme, channel>>
  BY DEF Dial
<1>3. k \in Connection /\ k.end[s] = "opening" /\ \A e \in Side : Handshakes(k.box[e]) = {}
  BY HandshakesEmpty DEF FreeConn, Connection, Side
<1>4. conn' = [conn EXCEPT ![c] = k]
  BY <1>1
<1> HIDE DEF k
<1>5. /\ conn' \in [Conns -> Connection]
      /\ \A d \in Conns : conn'[d] = IF d = c THEN k ELSE conn[d]
      /\ \A d \in Conns, e \in Side :
             /\ In(e, d)' = IF d = c THEN Handshakes(k.box[e]) ELSE In(e, d)
             /\ Ahead(e, d)' = IF d = c THEN k.end[e] \in {"pending", "opening"} ELSE Ahead(e, d)
  BY <1>3, <1>4, ConnBecomes DEF IInv
<1>6. p \in Side /\ p # s /\ \A e \in Side : (e = s) \/ (e = p)
  BY Sides
<1>7. /\ connected \in [Side -> BOOLEAN] /\ socket \in [Side -> Conns \cup {NoConn}]
      /\ handshake \in [Side -> {"none", "live"}] /\ ~connected[s] /\ handshake[s] # "live"
      /\ socket[p] # c /\ socket'[p] = socket[p] /\ socket'[s] = c
  BY <1>1, <1>2, <1>6, BoundsAssumption DEF IInv, Placed, NoConn
<1>8. c # NoConn
  BY BoundsAssumption DEF NoConn
<1>9. Placed'
  <2>1. connected' = connected /\ handshake' = handshake /\ socket' \in [Side -> Conns \cup {NoConn}]
    BY <1>1, <1>2, <1>7
  <2> SUFFICES ASSUME NEW e \in Side
               PROVE  /\ (socket'[e] # NoConn) => conn'[socket'[e]].end[e] \in {"opening", "open"}
                      /\ (connected[e] \/ handshake[e] = "live") =>
                             (socket'[e] # NoConn /\ conn'[socket'[e]].end[e] = "open")
                      /\ ~(connected[e] /\ handshake[e] = "live")
    BY <1>7, <2>1 DEF Placed
  <2>2. CASE e = s
    BY <1>3, <1>5, <1>7, <1>8, <2>2
  <2>3. CASE e = p
    <3>1. (socket[p] # NoConn) => conn'[socket[p]] = conn[socket[p]]
      BY <1>5, <1>6, <1>7
    <3> QED
      BY <2>3, <3>1, <1>6, <1>7 DEF IInv, Placed
  <2> QED
    BY <1>6, <2>2, <2>3
<1>10. Symmetric'
  BY <1>2 DEF IInv, Symmetric
<1>11. \A d \in Conns, e \in Side : /\ Up(e, d)' => (Up(e, d) /\ d # c)
                                    /\ Live(e, d)' => (Live(e, d) /\ d # c)
  BY <1>2, <1>6, <1>7 DEF Up, Live
<1>12. Told'
  <2>1. Quiet'
    BY <1>3, <1>5, <1>11, Sides DEF IInv, Told, Quiet
  <2>2. \A e \in Side : Sent(e)' = Sent(e)
    BY <1>2 DEF Sent
  <2>3. \A d \in Conns, e \in Side, m \in Messages : Fits(e, m, d)' = Fits(e, m, d)
    BY <1>2 DEF Fits, RoleAfter, Master, Dice, Match, Association, Swapped, WithKeys, Opposite
  <2>4. \A d \in Conns, e \in Side : In(e, d) \subseteq Messages
    BY DEF In, Handshakes
  <2>5. Truthful'
    BY <1>3, <1>5, <1>11, <2>2, <2>3, <2>4, Sides DEF IInv, Told, Truthful, Awaits
  <2>6. Agreed'
    BY <1>2, <1>11, Sides DEF IInv, Told, Agreed, Match, Opposite, Side
  <2> QED
    BY <2>1, <2>5, <2>6 DEF Told
<1>13. Typed'
  BY <1>2, <1>5 DEF IInv, Typed
<1> QED
  BY <1>9, <1>10, <1>12, <1>13 DEF IInv

-----------------------------------------------------------------------------
(* The handshake begins: s has an end, and says what it is.                *)

(* A side that takes a fresh connection and starts its handshake on it. *)
LEMMA Starts ==
    ASSUME IInv, NEW s \in Side, NEW c \in Conns, Ahead(s, c),
           socket' = [socket EXCEPT ![s] = c],
           RunHandshake(s, Opened(conn[c], s)),
           ~connected[s], UNCHANGED <<connected, role, scheme, channel>>
    PROVE  Placed' /\ Symmetric' /\ Told' /\ conn' \in [Conns -> Connection]
           /\ nonce' \in [Side -> Nonces \cup {0}] /\ faults' \in 0 .. MaxFaults
<1> DEFINE p == Peer(s)
<1>1. p \in Side /\ p # s /\ Peer(p) = s /\ \A e \in Side : (e = s) \/ (e = p)
  BY Sides
<1>2. /\ connected \in [Side -> BOOLEAN] /\ socket \in [Side -> Conns \cup {NoConn}]
      /\ handshake \in [Side -> {"none", "live"}]
      /\ conn \in [Conns -> Connection] /\ conn[c] \in Connection
      /\ nonce \in [Side -> Nonces \cup {0}] /\ faults \in 0 .. MaxFaults
  BY DEF IInv, Placed, Typed
<1>3. c # NoConn
  BY BoundsAssumption DEF NoConn
<1>4. PICK n \in Nonces :
          /\ nonce' = [nonce EXCEPT ![s] = n]
          /\ (faults' = faults) \/ (faults < MaxFaults /\ faults' = faults + 1)
          /\ handshake' = [handshake EXCEPT ![s] = "live"]
          /\ conn' = [conn EXCEPT ![socket'[s]] =
                Posted(Opened(conn[c], s), p,
                       [type |-> "HS", role |-> role[s], nonce |-> n, scheme |-> scheme[s]])]
  BY DEF RunHandshake
<1> DEFINE m == [type |-> "HS", role |-> role[s], nonce |-> n, scheme |-> scheme[s]]
           b == IF conn[c].end[p] = "none" THEN conn[c].box[p] ELSE Append(conn[c].box[p], m)
           k == [from |-> conn[c].from, end |-> [conn[c].end EXCEPT ![s] = "open"],
                 box |-> [conn[c].box EXCEPT ![p] = b]]
<1>5. m \in Messages /\ m.type = "HS"
  BY DEF IInv, Symmetric, Messages
<1>6. In(p, c) = {} /\ ~Up(p, c)
  BY <1>1 DEF IInv, Told, Quiet
<1>7. b \in Seq(Messages) /\ Handshakes(b) \subseteq {m}
  <2>1. conn[c].box[p] \in Seq(Messages)
    BY <1>1, <1>2 DEF Connection
  <2> HIDE DEF m
  <2> QED
    BY <2>1, <1>5, <1>6, HandshakesAppend DEF In
<1>8. conn' = [conn EXCEPT ![c] = k]
  <2>1. socket'[s] = c
    BY <1>2
  <2>2. conn[c].end \in [Side -> {"none", "opening", "pending", "open"}]
        /\ conn[c].box \in [Side -> Seq(Messages)]
    BY <1>2 DEF Connection
  <2>3. Opened(conn[c], s).end[p] = conn[c].end[p]
    BY <1>1, <2>2 DEF Opened
  <2>4. Posted(Opened(conn[c], s), p, m) = k
    BY <1>1, <2>2, <2>3 DEF Posted, Opened
  <2> QED
    BY <1>4, <2>1, <2>4
<1> HIDE DEF b
<1>9. k \in Connection /\ k.end = [conn[c].end EXCEPT ![s] = "open"] /\ k.box = [conn[c].box EXCEPT ![p] = b]
  BY <1>1, <1>2, <1>7 DEF Connection
<1> HIDE DEF k, m
<1>10. /\ conn' \in [Conns -> Connection]
       /\ \A d \in Conns : conn'[d] = IF d = c THEN k ELSE conn[d]
       /\ \A d \in Conns, e \in Side :
              /\ In(e, d)' = IF d = c THEN Handshakes(k.box[e]) ELSE In(e, d)
              /\ Ahead(e, d)' = IF d = c THEN k.end[e] \in {"pending", "opening"} ELSE Ahead(e, d)
  BY <1>8, <1>9, ConnBecomes DEF IInv
<1>11. k.end[s] = "open" /\ k.end[p] = conn[c].end[p] /\ k.box[p] = b /\ k.box[s] = conn[c].box[s]
  BY <1>1, <1>2, <1>9 DEF Connection
<1>12. /\ connected' = connected /\ handshake'[s] = "live" /\ handshake'[p] = handshake[p]
       /\ socket'[s] = c /\ socket'[p] = socket[p] /\ nonce'[p] = nonce[p] /\ nonce'[s] = n
       /\ socket' \in [Side -> Conns \cup {NoConn}] /\ handshake' \in [Side -> {"none", "live"}]
  BY <1>1, <1>2, <1>4
<1>13. Placed'
  <2> SUFFICES ASSUME NEW e \in Side
               PROVE  /\ (socket'[e] # NoConn) => conn'[socket'[e]].end[e] \in {"opening", "open"}
                      /\ (connected[e] \/ handshake'[e] = "live") =>
                             (socket'[e] # NoConn /\ conn'[socket'[e]].end[e] = "open")
                      /\ ~(connected[e] /\ handshake'[e] = "live")
    BY <1>2, <1>12 DEF Placed
  <2>1. CASE e = s
    BY <2>1, <1>3, <1>10, <1>11, <1>12
  <2>2. CASE e = p
    <3>1. (socket[p] # NoConn) => conn'[socket[p]].end[p] = conn[socket[p]].end[p]
      BY <1>1, <1>2, <1>10, <1>11
    <3> QED
      BY <2>2, <3>1, <1>1, <1>12 DEF IInv, Placed
  <2> QED
    BY <1>1, <2>1, <2>2
<1>14. Symmetric'
  BY DEF IInv, Symmetric
<1>15. \A d \in Conns : /\ ~Up(s, d)' /\ (Live(s, d)' => d = c)
                        /\ Up(p, d)' = Up(p, d) /\ Live(p, d)' = Live(p, d)
  BY <1>12 DEF Up, Live
<1>16. /\ \A d \in Conns : In(s, d)' = In(s, d) /\ Ahead(p, d)' = Ahead(p, d)
       /\ \A d \in Conns : (d # c) => (In(p, d)' = In(p, d) /\ Ahead(s, d)' = Ahead(s, d))
       /\ In(p, c)' \subseteq {m} /\ ~Ahead(s, c)'
  <2>1. In(s, c)' = In(s, c)
    BY <1>10, <1>11 DEF In
  <2>2. Ahead(p, c)' = Ahead(p, c)
    BY <1>1, <1>10, <1>11 DEF Ahead
  <2>3. In(p, c)' \subseteq {m} /\ ~Ahead(s, c)'
    BY <1>1, <1>7, <1>10, <1>11
  <2> QED
    BY <1>1, <1>10, <2>1, <2>2, <2>3
<1>17. Quiet'
  BY <1>1, <1>15, <1>16 DEF IInv, Told, Quiet
<1>18. Truthful'
  <2> SUFFICES ASSUME NEW d \in Conns, NEW e \in Side, Awaits(e, d)', NEW x \in In(e, d)'
               PROVE  (Live(Peer(e), d) => x = Sent(Peer(e)))' /\ (Up(Peer(e), d) => Fits(e, x, d))'
    BY DEF Truthful
  <2>1. CASE e = s
    <3>1. Ahead(s, d)
      BY <2>1, <1>15, <1>16 DEF Awaits
    <3>2. ~Up(p, d) /\ x \in In(s, d)
      BY <3>1, <2>1, <1>1, <1>16 DEF IInv, Told, Quiet
    <3>3. Live(p, d) => x = Sent(p)
      BY <3>1, <3>2 DEF IInv, Told, Truthful, Awaits
    <3>4. Sent(p)' = Sent(p)
      BY <1>12 DEF Sent
    <3> QED
      BY <2>1, <3>2, <3>3, <3>4, <1>15
  <2>2. CASE e = p
    <3>1. Live(s, d)' => x = m
      BY <2>2, <1>15, <1>16
    <3>2. Sent(s)' = m
      BY <1>12 DEF Sent, m
    <3> QED
      BY <2>2, <3>1, <3>2, <1>1, <1>15
  <2> QED
    BY <1>1, <2>1, <2>2
<1>19. Agreed'
  BY <1>15 DEF Agreed, Side
<1>20. nonce' \in [Side -> Nonces \cup {0}]
  BY <1>2, <1>4
<1>21. faults' \in 0 .. MaxFaults
  BY <1>2, <1>4, BoundsAssumption
<1> QED
  BY <1>10, <1>13, <1>14, <1>17, <1>18, <1>19, <1>20, <1>21 DEF Told

(* The action Established keeps the invariant. *)
LEMMA EstablishedStep ==
    ASSUME IInv, NEW s \in Side, Established(s)
    PROVE  IInv'
<1>1. PICK c \in Conns : c = socket[s]
  BY DEF Established, IInv, Placed
<1>2. socket \in [Side -> Conns \cup {NoConn}] /\ socket' = [socket EXCEPT ![s] = c]
  BY <1>1 DEF Established, IInv, Placed
<1>3. Ahead(s, c) /\ ~connected[s]
  BY <1>1 DEF Established, Ahead, IInv, Placed
<1>4. RunHandshake(s, Opened(conn[c], s)) /\ UNCHANGED <<connected, role, scheme, channel>>
  BY <1>1 DEF Established
<1>5. /\ Placed' /\ Symmetric' /\ Told' /\ conn' \in [Conns -> Connection]
      /\ nonce' \in [Side -> Nonces \cup {0}] /\ faults' \in 0 .. MaxFaults
  BY <1>2, <1>3, <1>4, Starts
<1>6. Typed'
  BY <1>5 DEF Established, IInv, Typed
<1> QED
  BY <1>5, <1>6 DEF IInv

(* The action Accept keeps the invariant. *)
LEMMA AcceptStep ==
    ASSUME IInv, NEW s \in Side, NEW c \in Conns, Accept(s, c)
    PROVE  IInv'
<1>1. /\ conn[c].end[s] = "pending" /\ listening[s]
      /\ UNCHANGED <<open, listening, connected, role, scheme, channel, calls>>
  BY DEF Accept
<1>2. CASE /\ WillAccept(s) /\ socket' = [socket EXCEPT ![s] = c]
           /\ RunHandshake(s, Opened(conn[c], s))
           /\ reconnect' = [reconnect EXCEPT ![s] = FALSE]
  <2>1. ~connected[s]
    BY <1>1, <1>2 DEF WillAccept, LinkState
  <2>2. Ahead(s, c)
    BY <1>1 DEF Ahead
  <2>3. /\ Placed' /\ Symmetric' /\ Told' /\ conn' \in [Conns -> Connection]
        /\ nonce' \in [Side -> Nonces \cup {0}] /\ faults' \in 0 .. MaxFaults
    BY <1>1, <1>2, <2>1, <2>2, Starts
  <2>4. Typed'
    BY <1>1, <1>2, <2>3 DEF IInv, Typed
  <2> QED
    BY <2>3, <2>4 DEF IInv
<1>3. CASE /\ ~WillAccept(s) /\ conn' = [conn EXCEPT ![c] = Closed(@, s)]
           /\ UNCHANGED <<socket, handshake, nonce, reconnect, faults>>
  <2>1. /\ conn' \in [Conns -> Connection] /\ NothingNew
        /\ \A d \in Conns, e \in Side : (d # c \/ e # s) => conn'[d].end[e] = conn[d].end[e]
    BY <1>3, Closes DEF IInv
  <2>2. SameEnds
    BY <1>1, <1>3 DEF SameEnds
  <2>3. socket[s] # c
    BY <1>1, BoundsAssumption DEF IInv, Placed, NoConn
  <2>4. Placed' /\ Symmetric' /\ Told'
    BY <2>1, <2>2, <2>3, SaysNothing
  <2>5. Typed'
    BY <1>1, <1>3, <2>1 DEF IInv, Typed
  <2> QED
    BY <2>4, <2>5 DEF IInv
<1> QED
  BY <1>2, <1>3 DEF Accept

-----------------------------------------------------------------------------
(* The handshake is read.                                                  *)

(* s takes the first message from its box on c. *)
LEMMA Taken ==
    ASSUME Typed, NEW s \in Side, NEW c \in Conns, conn[c].box[s] # <<>>,
           conn' = [conn EXCEPT ![c] = Received(@, s)]
    PROVE  /\ conn' \in [Conns -> Connection] /\ NothingNew
           /\ Head(conn[c].box[s]) \in Messages
           /\ (Head(conn[c].box[s]).type = "HS") => (Head(conn[c].box[s]) \in In(s, c))
           /\ \A d \in Conns : conn'[d].end = conn[d].end
<1> DEFINE b == [conn[c].box EXCEPT ![s] = Tail(conn[c].box[s])]
           k == [from |-> conn[c].from, end |-> conn[c].end, box |-> b]
<1>1. /\ conn \in [Conns -> Connection] /\ conn[c] \in Connection
      /\ conn[c].box \in [Side -> Seq(Messages)] /\ conn[c].box[s] \in Seq(Messages)
  BY DEF Typed, Connection
<1>2. /\ Tail(conn[c].box[s]) \in Seq(Messages) /\ Head(conn[c].box[s]) \in Messages
      /\ Handshakes(Tail(conn[c].box[s])) \subseteq Handshakes(conn[c].box[s])
      /\ (Head(conn[c].box[s]).type = "HS") => (Head(conn[c].box[s]) \in Handshakes(conn[c].box[s]))
  BY <1>1, HandshakesTail
<1>3. conn' = [conn EXCEPT ![c] = k]
  BY DEF Received
<1>4. b \in [Side -> Seq(Messages)] /\ \A e \in Side : Handshakes(b[e]) \subseteq Handshakes(conn[c].box[e])
  BY <1>1, <1>2
<1> HIDE DEF b
<1>5. k \in Connection /\ k.end = conn[c].end /\ k.box = b
  BY <1>1, <1>4 DEF Connection
<1> HIDE DEF k
<1>6. /\ conn' \in [Conns -> Connection]
      /\ \A d \in Conns : conn'[d] = IF d = c THEN k ELSE conn[d]
      /\ \A d \in Conns, e \in Side :
             /\ In(e, d)' = IF d = c THEN Handshakes(k.box[e]) ELSE In(e, d)
             /\ Ahead(e, d)' = IF d = c THEN k.end[e] \in {"pending", "opening"} ELSE Ahead(e, d)
  BY <1>3, <1>5, ConnBecomes
<1>7. NothingNew
  BY <1>4, <1>5, <1>6 DEF NothingNew, In, Ahead
<1> QED
  BY <1>2, <1>5, <1>6, <1>7 DEF In

(* The one that reads first decides; what it has become fits what the      *)
(* other one will read.                                                    *)
LEMMA DecidedFits ==
    ASSUME IInv, NEW s \in Side, NEW c \in Conns, NEW m, m = Sent(Peer(s)),
           ~(Dice(s, m) /\ m.nonce = nonce[s]), Agrees(s, m),
           NEW r, r = RoleAfter(s, m)
    PROVE  LET p == Peer(s)
               q == RoleAfter(p, Sent(s))
           IN  Opposite(q, r) /\ Match(Association(p, q), Association(s, r))
<1> DEFINE p == Peer(s)
           q == RoleAfter(p, Sent(s))
<1>1. p \in Side /\ m.nonce = nonce[p] /\ m.scheme = scheme[p]
  BY Sides DEF Sent
<1>2. Opposite(r, q)
  BY <1>1, RolesDiffer DEF IInv
<1>3. Opposite(q, r)
  BY <1>2 DEF Opposite
<1>4. \E x : \A e \in {s, p}, dir \in Dir : scheme[e][dir] = x
  BY <1>1 DEF Agrees, IInv, Symmetric, Dir
<1>5. r \in {"master", "slave"} /\ q \in {"master", "slave"} /\ q # r
  BY <1>2 DEF RoleAfter, Opposite
<1>6. Match(Association(p, q), Association(s, r))
  <2>1. CASE r = "slave"
    BY <1>4, <1>5, <2>1 DEF Match, Association, Swapped, WithKeys, Dir
  <2>2. CASE r = "master"
    BY <1>4, <1>5, <2>2 DEF Match, Association, Swapped, WithKeys, Dir
  <2> QED
    BY <1>5, <2>1, <2>2
<1> QED
  BY <1>3, <1>6

(* The action Succeeded keeps the invariant. *)
LEMMA SucceededStep ==
    ASSUME IInv, NEW s \in Side, NEW c \in Conns, c = socket[s], handshake[s] = "live",
           NEW m \in In(s, c), ~(Dice(s, m) /\ m.nonce = nonce[s]), Agrees(s, m),
           role' = [role EXCEPT ![s] = RoleAfter(s, m)], Succeeded(s, RoleAfter(s, m)),
           UNCHANGED nonce, NothingNew, conn' \in [Conns -> Connection],
           \A d \in Conns : conn'[d].end = conn[d].end
    PROVE  Placed' /\ Symmetric' /\ Told'
<1> DEFINE p == Peer(s)
           r == RoleAfter(s, m)
<1>1. p \in Side /\ p # s /\ Peer(p) = s /\ \A e \in Side : (e = s) \/ (e = p)
  BY Sides
<1>2. /\ connected \in [Side -> BOOLEAN] /\ socket \in [Side -> Conns \cup {NoConn}]
      /\ handshake \in [Side -> {"none", "live"}] /\ conn[c].end[s] = "open"
  BY DEF IInv, Placed
<1>3. /\ handshake'[s] = "none" /\ handshake'[p] = handshake[p] /\ connected'[s]
      /\ connected'[p] = connected[p] /\ socket' = socket
      /\ handshake' \in [Side -> {"none", "live"}] /\ connected' \in [Side -> BOOLEAN]
  BY <1>1, <1>2 DEF Succeeded
<1>4. r \in {"master", "slave"}
  BY DEF RoleAfter
<1>5. role' \in [Side -> Roles] /\ role'[s] = r /\ role'[p] = role[p]
  BY <1>1, <1>4 DEF IInv, Symmetric, Roles
<1>6. scheme' = scheme
  <2>1. scheme \in [Side -> [Dir -> SchemeNames]] /\ scheme[s]["in"] = scheme[s]["out"]
    BY DEF IInv, Symmetric
  <2>2. [dir \in Dir |-> Association(s, r)[dir].name] = scheme[s]
    <3>1. CASE r = "slave"
      BY <2>1, <3>1 DEF Association, Swapped, WithKeys, Dir
    <3>2. CASE r = "master"
      BY <2>1, <3>2 DEF Association, Swapped, WithKeys, Dir
    <3> QED
      BY <1>4, <3>1, <3>2
  <2>3. scheme' = [scheme EXCEPT ![s] = [dir \in Dir |-> Association(s, r)[dir].name]]
    BY DEF Succeeded
  <2> QED
    BY <2>1, <2>2, <2>3
<1>7. channel'[p] = channel[p] /\ channel'[s] = Association(s, r) /\ channel' \in [Side -> Channels]
  <2>1. channel \in [Side -> Channels] /\ channel' = [channel EXCEPT ![s] = Association(s, r)]
    BY DEF Succeeded, IInv, Symmetric
  <2>2. Association(s, r) \in Channels
    BY DEF Association, Swapped, WithKeys, Channels, Dir, IInv, Symmetric
  <2> QED
    BY <1>1, <2>1, <2>2
<1>8. Placed'
  BY <1>1, <1>2, <1>3 DEF IInv, Placed
<1>9. Symmetric'
  BY <1>5, <1>6, <1>7 DEF IInv, Symmetric
<1> HIDE DEF r
<1>10. /\ ~Ahead(s, c) /\ ~Ahead(p, c)
       /\ Live(p, c) => m = Sent(p)
       /\ Up(p, c) => Fits(s, m, c)
  <2>1. Live(s, c)
    BY DEF Live
  <2>2. ~Ahead(p, c)
    BY <1>1 DEF IInv, Told, Quiet
  <2> QED
    BY <1>2, <2>1, <2>2, <1>1 DEF IInv, Told, Truthful, Awaits, Ahead
<1>11. \A d \in Conns : /\ ~Live(s, d)' /\ (Up(s, d)' => d = c)
                        /\ Up(p, d)' = Up(p, d) /\ Live(p, d)' = Live(p, d)
  BY <1>3 DEF Up, Live
<1>12. Quiet'
  BY <1>1, <1>10, <1>11 DEF IInv, Told, Quiet, NothingNew
<1>13. Truthful'
  <2> SUFFICES ASSUME NEW d \in Conns, NEW e \in Side, Awaits(e, d)', NEW x \in In(e, d)'
               PROVE  (Live(Peer(e), d) => x = Sent(Peer(e)))' /\ (Up(Peer(e), d) => Fits(e, x, d))'
    BY DEF Truthful
  <2>1. CASE e = s
    <3>1. Ahead(s, d) /\ x \in In(s, d)
      BY <2>1, <1>11 DEF Awaits, NothingNew
    <3>2. ~Up(p, d)
      BY <3>1, <1>1 DEF IInv, Told, Quiet
    <3>3. Live(p, d) => x = Sent(p)
      BY <3>1 DEF IInv, Told, Truthful, Awaits
    <3>4. Sent(p)' = Sent(p)
      BY <1>5, <1>6 DEF Sent
    <3> QED
      BY <2>1, <3>2, <3>3, <3>4, <1>11
  <2>2. CASE e = p
    <3> SUFFICES ASSUME Up(s, d)' PROVE Fits(p, x, d)'
      BY <2>2, <1>1, <1>11
    <3>1. d = c
      BY <1>11
    <3>2. Live(p, c)
      BY <2>2, <3>1, <1>10, <1>11 DEF Awaits, NothingNew
    <3>3. m = Sent(p) /\ x = Sent(s)
      <4>1. x \in In(p, c)
        BY <2>2, <3>1 DEF NothingNew
      <4>2. Live(s, c)
        BY DEF Live
      <4> QED
        BY <3>2, <4>1, <4>2, <1>1, <1>10 DEF IInv, Told, Truthful, Awaits
    <3>4. LET q == RoleAfter(p, Sent(s))
          IN  Opposite(q, r) /\ Match(Association(p, q), Association(s, r))
      BY <3>3, DecidedFits DEF r
    <3>5. RoleAfter(p, x)' = RoleAfter(p, x)
      BY <1>5 DEF RoleAfter, Master, Dice
    <3>6. Association(p, RoleAfter(p, x))' = Association(p, RoleAfter(p, x))
      BY <3>5, <1>6 DEF Association, Swapped, WithKeys
    <3>7. channel'[s] = Association(s, r)
      BY <1>7
    <3> QED
      BY <3>3, <3>4, <3>5, <3>6, <3>7, <1>1, <1>5 DEF Fits
  <2> QED
    BY <1>1, <2>1, <2>2
<1>14. Agreed'
  <2> SUFFICES ASSUME NEW d \in Conns, Up("alice", d)', Up("bob", d)'
               PROVE  (Opposite(role["alice"], role["bob"]) /\ Match(channel["alice"], channel["bob"]))'
    BY DEF Agreed
  <2>1. Up(s, d)' /\ Up(p, d)'
    BY <1>1 DEF Side
  <2>2. d = c /\ Up(p, c)
    BY <2>1, <1>11
  <2>3. Fits(s, m, c) /\ m.scheme["in"] = scheme[s]["out"]
    BY <2>2, <1>10 DEF Agrees
  <2>4. Opposite(r, role[p]) /\ Match(Association(s, r), channel[p])
    BY <2>3 DEF Fits, r
  <2>5. Opposite(role'[s], role'[p]) /\ Match(channel'[s], channel'[p])
    BY <2>4, <1>5, <1>7
  <2> QED
    BY <2>5, <1>1 DEF Side, Opposite, Match
<1> QED
  BY <1>8, <1>9, <1>12, <1>13, <1>14 DEF Told

(* The action Read keeps the invariant. *)
LEMMA ReadStep ==
    ASSUME IInv, NEW s \in Side, ReadHandshake(s)
    PROVE  IInv'
<1>1. PICK c \in Conns : c = socket[s]
  BY DEF ReadHandshake, IInv, Placed
<1>2. PICK m : m = Head(conn[c].box[s])
  OBVIOUS
<1>3. /\ conn[c].box[s] # <<>> /\ m.type = "HS"
      /\ UNCHANGED <<open, listening, nonce, reconnect, calls, faults>>
  BY <1>1, <1>2 DEF ReadHandshake
<1>4. CASE handshake[s] # "live"
  <2>1. /\ conn' = [conn EXCEPT ![c] = Received(@, s)]
        /\ UNCHANGED <<socket, handshake, connected, role, scheme, channel>>
    BY <1>1, <1>4 DEF ReadHandshake
  <2>2. /\ conn' \in [Conns -> Connection] /\ NothingNew
        /\ \A d \in Conns : conn'[d].end = conn[d].end
    BY <1>3, <2>1, Taken DEF IInv
  <2>3. SameEnds
    BY <1>3, <2>1 DEF SameEnds
  <2>4. Placed' /\ Symmetric' /\ Told'
    BY <2>2, <2>3, SaysNothing
  <2>5. Typed'
    BY <1>3, <2>2 DEF IInv, Typed
  <2> QED
    BY <2>4, <2>5 DEF IInv
<1>5. CASE Failed(s) /\ UNCHANGED <<scheme, channel>>
           /\ (role' = role \/ role' = [role EXCEPT ![s] = RoleAfter(s, m)])
  <2>1. role' \in [Side -> Roles] /\ role'[Peer(s)] = role[Peer(s)]
    BY <1>5, Sides DEF IInv, Symmetric, RoleAfter, Roles
  <2>2. faults' \in 0 .. MaxFaults /\ socket[s] # NoConn
    BY <1>1, <1>3, BoundsAssumption DEF IInv, Typed, NoConn
  <2> QED
    BY <1>3, <1>5, <2>1, <2>2, FailedStep
<1>6. CASE /\ handshake[s] = "live" /\ ~(Dice(s, m) /\ m.nonce = nonce[s]) /\ Agrees(s, m)
           /\ role' = [role EXCEPT ![s] = RoleAfter(s, m)] /\ Succeeded(s, RoleAfter(s, m))
  <2>1. conn' = [conn EXCEPT ![c] = Received(@, s)]
    BY <1>1, <1>6 DEF Succeeded
  <2>2. /\ conn' \in [Conns -> Connection] /\ NothingNew /\ m \in In(s, c)
        /\ \A d \in Conns : conn'[d].end = conn[d].end
    BY <1>2, <1>3, <2>1, Taken DEF IInv
  <2>3. Placed' /\ Symmetric' /\ Told'
    BY <1>1, <1>3, <1>6, <2>2, SucceededStep
  <2>4. Typed'
    BY <1>3, <2>2 DEF IInv, Typed
  <2> QED
    BY <2>3, <2>4 DEF IInv
<1> QED
  BY <1>1, <1>2, <1>4, <1>5, <1>6 DEF ReadHandshake

-----------------------------------------------------------------------------
(* The invariant holds of two closed engines. *)
LEMMA InitInvariant == Init => IInv
<1> SUFFICES ASSUME Init PROVE IInv
  OBVIOUS
<1>1. FreeConn \in Connection /\ \A e \in Side : FreeConn.end[e] = "none" /\ FreeConn.box[e] = <<>>
  BY DEF FreeConn, Connection, Side
<1>2. Typed
  BY <1>1, BoundsAssumption DEF Init, Typed
<1>3. Placed
  BY DEF Init, Placed
<1>4. Symmetric
  BY NoChannelIsChannel DEF Init, Symmetric, Roles, Dir
<1>5. \A c \in Conns, e \in Side : ~Ahead(e, c) /\ ~Up(e, c) /\ ~Live(e, c)
  BY <1>1 DEF Init, Ahead, Up, Live
<1>6. Quiet /\ Truthful
  BY <1>5, Sides DEF Quiet, Truthful, Awaits
<1>7. Agreed
  BY <1>5 DEF Agreed, Side
<1> QED
  BY <1>2, <1>3, <1>4, <1>6, <1>7 DEF IInv, Told

(* Every step keeps the invariant, unless an engine is told to listen in mid-handshake. *)
LEMMA NextInvariant == ASSUME DuringHandshake = {} PROVE IInv /\ [Next]_vars => IInv'
<1> SUFFICES ASSUME IInv, [Next]_vars PROVE IInv'
  OBVIOUS
<1>1. CASE UNCHANGED vars
  <2>1. SameEnds /\ NothingNew /\ conn' = conn
    BY <1>1 DEF vars, engine, SameEnds, NothingNew, In, Ahead
  <2>2. Typed'
    BY <1>1 DEF IInv, Typed, vars, engine
  <2>3. Placed' /\ Symmetric' /\ Told'
    BY <2>1, <2>2, SaysNothing DEF Typed
  <2> QED
    BY <2>2, <2>3 DEF IInv
<1>2. ASSUME NEW s \in Side, Reconnect(s) \/ ConnectCall(s) PROVE IInv'
  <2>1. Dial(s) /\ UNCHANGED faults /\ calls' \in 0 .. MaxCalls
    BY <1>2, BoundsAssumption DEF Reconnect, ConnectCall, Call, IInv, Typed
  <2> QED
    BY <2>1, DialStep
<1>3. ASSUME NEW s \in Side, Events(s) PROVE IInv'
  BY <1>3, EstablishedStep, ReadStep, AcceptStep, PeerGoneStep, RefusedStep DEF Events
<1>4. ASSUME NEW s \in Side, Calls(s) PROVE IInv'
  BY <1>4, <1>2, OpenListenStep, SetRoleStep, DisconnectStep DEF Calls
<1> QED
  BY <1>1, <1>2, <1>3, <1>4, TimeoutStep, OpenListenStep, LostStep DEF Next

(* The inductive invariant holds, where no client interferes with a        *)
(* handshake.                                                              *)
THEOREM Invariance == ASSUME DuringHandshake = {} PROVE Spec => []IInv
BY InitInvariant, NextInvariant, PTL DEF Spec

(* Type correctness, for any schemes, nonces and number of connections.    *)
THEOREM TypeCorrect == ASSUME DuringHandshake = {} PROVE Spec => []TypeOK
<1>1. ASSUME IInv PROVE TypeOK
  <2>1. \A c \in Conns, s \in Side :
            /\ conn[c].end[s] \in {"none", "opening", "pending", "open"}
            /\ \A i \in DOMAIN conn[c].box[s] : Message(conn[c].box[s][i])
    <3> SUFFICES ASSUME NEW c \in Conns, NEW s \in Side
                 PROVE  /\ conn[c].end[s] \in {"none", "opening", "pending", "open"}
                        /\ \A i \in DOMAIN conn[c].box[s] : Message(conn[c].box[s][i])
      OBVIOUS
    <3>1. conn[c] \in Connection
      BY <1>1 DEF IInv, Typed
    <3>2. conn[c].box[s] \in Seq(Messages)
      BY <3>1 DEF Connection
    <3>3. \A i \in DOMAIN conn[c].box[s] : conn[c].box[s][i] \in Messages
      BY <3>2
    <3> QED
      BY <3>1, <3>3 DEF Connection, Message, Messages, Roles
  <2> QED
    BY <1>1, <2>1 DEF TypeOK, IInv, Typed, Placed, Symmetric, Roles
<1> QED
  BY <1>1, Invariance, PTL

(* An engine that is connected, or in its handshake, has a live end of a   *)
(* connection: no failure, refusal or call leaves it waiting on nothing.   *)
THEOREM NotWithoutConnection == ASSUME DuringHandshake = {} PROVE Spec => []NotForNothing
<1>1. IInv => NotForNothing
  BY DEF IInv, Placed, NotForNothing
<1> QED
  BY <1>1, Invariance, PTL

(* Two engines on one connection are one master and one slave: the dice,   *)
(* kept roles and the order of reading never make two of a kind.           *)
THEOREM MasterAndSlave == ASSUME DuringHandshake = {} PROVE Spec => []OneMaster
<1>1. ASSUME IInv PROVE OneMaster
  <2> SUFFICES ASSUME BothConnected, OnOneConnection PROVE {role[s] : s \in Side} = {"master", "slave"}
    BY DEF OneMaster
  <2>1. PICK c \in Conns : Up("alice", c) /\ Up("bob", c)
    BY <1>1 DEF BothConnected, OnOneConnection, Up, IInv, Placed, Side
  <2>2. Opposite(role["alice"], role["bob"])
    BY <1>1, <2>1 DEF IInv, Told, Agreed
  <2> QED
    BY <2>2 DEF Opposite, Side
<1> QED
  BY <1>1, Invariance, PTL

(* What one sends with, the other receives with, also after the slave has  *)
(* swapped its part of the common secret.                                  *)
THEOREM SameChannels == ASSUME DuringHandshake = {} PROVE Spec => []ChannelsMatch
<1>1. ASSUME IInv PROVE ChannelsMatch
  <2> SUFFICES ASSUME BothConnected, OnOneConnection, NEW s \in Side
               PROVE  channel[s]["in"] = channel[Peer(s)]["out"]
    BY DEF ChannelsMatch
  <2>1. PICK c \in Conns : Up("alice", c) /\ Up("bob", c)
    BY <1>1 DEF BothConnected, OnOneConnection, Up, IInv, Placed, Side
  <2>2. Match(channel["alice"], channel["bob"])
    BY <1>1, <2>1 DEF IInv, Told, Agreed
  <2> QED
    BY <2>2 DEF Match, Side, Peer
<1> QED
  BY <1>1, Invariance, PTL
=============================================================================
