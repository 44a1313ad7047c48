------------------------------ MODULE Q3PLink ------------------------------
(***************************************************************************)
(* The life of the link between two Q3P engines: opening the common store, *)
(* listening and connecting, the handshake that decides who is master, the *)
(* first channel, and losing and restoring the connection                  *)
(* (src/lib/q3p/engine/engine.cpp, protocol/handshake.cpp).                *)
(*                                                                         *)
(* An engine runs in one thread: a handler is one step.  A connection      *)
(* carries bytes in order; closing an end is told to the other end after   *)
(* what was sent before.  The kernel completes a connection before the     *)
(* listening engine accepts it.                                            *)
(***************************************************************************)
EXTENDS Integers, Sequences, FiniteSets

CONSTANTS
    Callers, Listeners,   \* sides told to connect(), to listen()
    SchemeNames,          \* authentication schemes configured
    Nonces,               \* random numbers of a handshake
    DuringHandshake,      \* what clients do while a handshake runs:
                          \* "role", "disconnect"; never close_db(), after
                          \* which the handshake has no store to describe
    (* bounds of the exploration *)
    Conns,                \* connections at a time
    MaxCalls,             \* calls of D-Bus clients
    MaxFaults             \* lost connections, late answers, equal nonces

Side == {"alice", "bob"}
ASSUME SidesAssumption == Callers \subseteq Side /\ Listeners \subseteq Side
ASSUME NoncesAssumption == Nonces \subseteq Nat /\ Cardinality(Nonces) > 1
ASSUME DuringAssumption == DuringHandshake \subseteq {"role", "disconnect"}
ASSUME BoundsAssumption == 0 \notin Conns /\ MaxCalls \in Nat /\ MaxFaults \in Nat

NoConn == 0
Dir == {"in", "out"}
Peer(s) == IF s = "alice" THEN "bob" ELSE "alice"

VARIABLES
    open,        \* side -> a common store is open, with enough keys
    listening,   \* side -> m_cServer
    socket,      \* side -> m_cSocket
    handshake,   \* side -> cHandshake: "none", "live" or "dangling"
    nonce,       \* side -> m_nLocalNonce
    connected,   \* side -> m_bConnected
    reconnect,   \* side -> m_bReconnect
    role,        \* side -> "none", "master" or "slave"
    scheme,      \* side -> direction -> scheme (m_cAssociationDefinition)
    channel,     \* side -> direction -> scheme and part of the secret in use
    conn,        \* connection -> who made it, its two ends, messages to each
    calls, faults   \* bounds

engine == <<open, listening, socket, handshake, nonce, connected, reconnect,
            role, scheme, channel>>
vars == <<engine, conn, calls, faults>>

FreeConn == [from |-> "alice", end |-> [s \in Side |-> "none"], box |-> [s \in Side |-> <<>>]]
NoChannel == [dir \in Dir |-> [name |-> "none", part |-> 0]]

Init ==
    /\ open = [s \in Side |-> FALSE] /\ listening = [s \in Side |-> FALSE]
    /\ socket = [s \in Side |-> NoConn] /\ handshake = [s \in Side |-> "none"]
    /\ nonce = [s \in Side |-> 0]
    /\ connected = [s \in Side |-> FALSE] /\ reconnect = [s \in Side |-> FALSE]
    /\ role \in [Side -> {"none", "master", "slave"}]
    /\ \E f \in [Side -> SchemeNames] : scheme = [s \in Side |-> [dir \in Dir |-> f[s]]]
    /\ channel = [s \in Side |-> NoChannel]
    /\ conn = [c \in Conns |-> FreeConn]
    /\ calls = 0 /\ faults = 0

(* Faulty: an engine that does not listen is connecting. *)
LinkStateConnecting(s) ==
    IF ~open[s] THEN "INIT"
    ELSE IF handshake[s] # "none" THEN "HANDSHAKE"
    ELSE IF connected[s] THEN "CONNECTED"
    ELSE "CONNECTING"

(* calculate_state(). *)
LinkState(s) ==
    IF ~open[s] THEN "INIT"
    ELSE IF ~listening[s] THEN "OPEN"
    ELSE IF handshake[s] # "none" THEN "HANDSHAKE"
    ELSE IF connected[s] THEN "CONNECTED"
    ELSE "CONNECTING"

-----------------------------------------------------------------------------
(* Connections.                                                            *)

FIN == [type |-> "FIN", role |-> "none", nonce |-> 0, scheme |-> [dir \in Dir |-> "none"]]

(* The end of s is gone; the other one will notice. *)
Closed(k, s) ==
    [from |-> k.from, end |-> [k.end EXCEPT ![s] = "none"],
     box |-> [e \in Side |-> IF e = s \/ k.end[e] = "none" THEN <<>> ELSE Append(k.box[e], FIN)]]

Opened(k, s) == [from |-> k.from, end |-> [k.end EXCEPT ![s] = "open"], box |-> k.box]

Received(k, s) == [from |-> k.from, end |-> k.end, box |-> [k.box EXCEPT ![s] = Tail(@)]]

(* m is sent to e, if it is still there. *)
Posted(k, e, m) ==
    [from |-> k.from, end |-> k.end,
     box |-> [k.box EXCEPT ![e] = IF k.end[e] = "none" THEN @ ELSE Append(@, m)]]

Dial(s) ==
    /\ open[s] /\ socket[s] = NoConn
    /\ \E c \in Conns :
        /\ \A e \in Side : conn[c].end[e] = "none"
        /\ socket' = [socket EXCEPT ![s] = c]
        /\ conn' = [conn EXCEPT ![c] =
              [from |-> s, box |-> FreeConn.box,
               end |-> [e \in Side |-> IF e = s THEN "opening" ELSE "pending"]]]
    /\ UNCHANGED <<open, listening, handshake, nonce, connected, reconnect, role, scheme, channel>>

-----------------------------------------------------------------------------
(* The handshake.                                                          *)

(* run_internal(): a new nonce, and our specification to the peer.  Equal  *)
(* nonces are a fault.                                                     *)
RunHandshake(s, k) ==
    \E n \in Nonces :
        /\ nonce' = [nonce EXCEPT ![s] = n]
        /\ \/ n # nonce[Peer(s)] /\ UNCHANGED faults
           \/ n = nonce[Peer(s)] /\ faults < MaxFaults /\ faults' = faults + 1
        /\ handshake' = [handshake EXCEPT ![s] = "live"]
        /\ conn' = [conn EXCEPT ![socket'[s]] =
              Posted(k, Peer(s),
                     [type |-> "HS", role |-> role[s], nonce |-> n, scheme |-> scheme[s]])]

(* socket_connected(). *)
Established(s) ==
    /\ socket[s] # NoConn /\ listening[Peer(s)] /\ UNCHANGED socket
    /\ conn[socket[s]].end[s] = "opening"
    /\ RunHandshake(s, Opened(conn[socket[s]], s))
    /\ reconnect' = [reconnect EXCEPT ![s] = TRUE]
    /\ UNCHANGED <<open, listening, connected, role, scheme, channel, calls>>

WillAccept(s) == open[s] /\ LinkState(s) \notin {"HANDSHAKE", "CONNECTED"}

(* server_new(). *)
Accept(s, c) ==
    /\ conn[c].end[s] = "pending" /\ listening[s]
    /\ \/ /\ WillAccept(s)
          /\ socket' = [socket EXCEPT ![s] = c]
          /\ RunHandshake(s, Opened(conn[c], s))
          /\ reconnect' = [reconnect EXCEPT ![s] = FALSE]
       \/ /\ ~WillAccept(s)
          /\ conn' = [conn EXCEPT ![c] = Closed(@, s)]
          /\ UNCHANGED <<socket, handshake, nonce, reconnect, faults>>
    /\ UNCHANGED <<open, listening, connected, role, scheme, channel, calls>>

Dice(s, m) == role[s] = m.role

(* Faulty: the higher nonce is not told from the lower one. *)
MasterByParity(s, m) ==
    IF Dice(s, m) THEN (nonce[s] + m.nonce) % 2 = 0
    ELSE IF role[s] = "none" THEN m.role = "slave"
    ELSE role[s] = "master"

(* choose_role(): the dice if neither has a role or both have the same,    *)
(* else whoever has one keeps it.                                          *)
Master(s, m) ==
    IF Dice(s, m) THEN ((nonce[s] + m.nonce) % 2 = 0) <=> (nonce[s] > m.nonce)
    ELSE IF role[s] = "none" THEN m.role = "slave"
    ELSE role[s] = "master"

RoleAfter(s, m) == IF Master(s, m) THEN "master" ELSE "slave"

Agrees(s, m) ==
    /\ m.scheme["in"] = scheme[s]["out"] /\ m.scheme["out"] = scheme[s]["in"]
    /\ open[s]

(* The initial keys are cut from the secret for incoming, then outgoing;   *)
(* the slave swaps the two, scheme and key.                                *)
WithKeys(s) == [dir \in Dir |-> [name |-> scheme[s][dir], part |-> IF dir = "in" THEN 1 ELSE 2]]
Swapped(f) == [dir \in Dir |-> f[IF dir = "in" THEN "out" ELSE "in"]]

(* Faulty: the slave uses the secret as the master does. *)
AssociationUnswapped(s, r) == IF r = "slave" THEN WithKeys(s) ELSE WithKeys(s)

Association(s, r) == IF r = "slave" THEN Swapped(WithKeys(s)) ELSE WithKeys(s)

(* handshake_failed(). *)
Failed(s) ==
    /\ handshake' = [handshake EXCEPT ![s] = "none"]
    /\ socket' = [socket EXCEPT ![s] = NoConn]
    /\ connected' = [connected EXCEPT ![s] = FALSE]
    /\ conn' = [conn EXCEPT ![socket[s]] = Closed(@, s)]

(* handshake_success(). *)
Succeeded(s, r) ==
    /\ handshake' = [handshake EXCEPT ![s] = "none"]
    /\ connected' = [connected EXCEPT ![s] = TRUE]
    /\ channel' = [channel EXCEPT ![s] = Association(s, r)]
    /\ scheme' = [scheme EXCEPT ![s] = [dir \in Dir |-> Association(s, r)[dir].name]]
    /\ conn' = [conn EXCEPT ![socket[s]] = Received(@, s)]
    /\ UNCHANGED socket

(* recv_internal(); a handshake nobody waits for is discarded. *)
ReadHandshake(s) ==
    /\ socket[s] # NoConn
    /\ LET k == conn[socket[s]]
           m == Head(k.box[s])
       IN  /\ k.end[s] = "open" /\ k.box[s] # <<>> /\ m.type = "HS"
           /\ \/ /\ handshake[s] # "live"
                 /\ conn' = [conn EXCEPT ![socket[s]] = Received(@, s)]
                 /\ UNCHANGED <<socket, handshake, connected, role, scheme, channel>>
              \/ /\ handshake[s] = "live" /\ Dice(s, m) /\ m.nonce = nonce[s]
                 /\ Failed(s) /\ UNCHANGED <<role, scheme, channel>>
              \/ /\ handshake[s] = "live" /\ ~(Dice(s, m) /\ m.nonce = nonce[s])
                 /\ role' = [role EXCEPT ![s] = RoleAfter(s, m)]
                 /\ \/ Agrees(s, m) /\ Succeeded(s, RoleAfter(s, m))
                    \/ ~Agrees(s, m) /\ Failed(s) /\ UNCHANGED <<scheme, channel>>
    /\ UNCHANGED <<open, listening, nonce, reconnect, calls, faults>>

(* timeout_internal(): time is counted from the first tick of the first    *)
(* handshake of the process on, so that a later one fails at its first     *)
(* tick, after a second.                                                   *)
HandshakeTimeout(s) ==
    /\ handshake[s] = "live" /\ faults < MaxFaults /\ faults' = faults + 1
    /\ Failed(s)
    /\ UNCHANGED <<open, listening, nonce, reconnect, role, scheme, channel, calls>>

-----------------------------------------------------------------------------
(* Faulty: the engine believes to be connected still. *)
SocketErrorConnected(s) ==
    /\ handshake' = [handshake EXCEPT ![s] = "none"]
    /\ channel' = [channel EXCEPT ![s] = NoChannel]
    /\ UNCHANGED <<open, listening, socket, nonce, connected, reconnect, role, scheme, calls, faults>>

(* socket_error(), of whatever socket it is. *)
SocketError(s) ==
    /\ socket' = [socket EXCEPT ![s] = NoConn]
    /\ handshake' = [handshake EXCEPT ![s] = "none"]
    /\ connected' = [connected EXCEPT ![s] = FALSE]
    /\ channel' = [channel EXCEPT ![s] = NoChannel]
    /\ UNCHANGED <<open, listening, nonce, reconnect, role, scheme, calls, faults>>

PeerGone(s, c) ==
    /\ conn[c].end[s] = "open" /\ conn[c].box[s] # <<>> /\ Head(conn[c].box[s]).type = "FIN"
    /\ conn' = [conn EXCEPT ![c] = Closed(@, s)]
    /\ SocketError(s)

(* Nobody listens. *)
Refused(s, c) ==
    /\ conn[c].end[s] = "opening" /\ conn[c].from = s /\ conn[c].end[Peer(s)] = "pending"
    /\ ~listening[Peer(s)]
    /\ conn' = [conn EXCEPT ![c] = FreeConn]
    /\ SocketError(s)

(* The network loses a connection, and what was on its way. *)
Lost(c) ==
    /\ \E s \in Side : conn[c].end[s] = "open"
    /\ faults < MaxFaults /\ faults' = faults + 1
    /\ conn' = [conn EXCEPT ![c].box =
          [s \in Side |-> IF conn[c].end[s] = "none" THEN <<>> ELSE <<FIN>>]]
    /\ UNCHANGED <<engine, calls>>

(* q3p_timeout(), every 250 ms. *)
Reconnect(s) ==
    /\ ~connected[s] /\ LinkState(s) = "OPEN" /\ reconnect[s] /\ Dial(s)
    /\ UNCHANGED <<calls, faults>>

-----------------------------------------------------------------------------
(* Calls of D-Bus clients and of the node's configuration.                 *)

Call == calls < MaxCalls /\ calls' = calls + 1 /\ UNCHANGED faults
Allowed(s, what) == handshake[s] = "none" \/ what \in DuringHandshake

OpenDB(s) ==
    /\ ~open[s] /\ ~connected[s] /\ open' = [open EXCEPT ![s] = TRUE]
    /\ UNCHANGED <<listening, socket, handshake, nonce, connected, reconnect, role,
                   scheme, channel, conn, calls, faults>>

CloseDB(s) ==
    /\ Call /\ ~connected[s] /\ open[s] /\ handshake[s] = "none"
    /\ open' = [open EXCEPT ![s] = FALSE]
    /\ UNCHANGED <<listening, socket, handshake, nonce, connected, reconnect, role,
                   scheme, channel, conn>>

Listen(s) ==
    /\ s \in Listeners /\ ~listening[s] /\ listening' = [listening EXCEPT ![s] = TRUE]
    /\ UNCHANGED <<open, socket, handshake, nonce, connected, reconnect, role,
                   scheme, channel, conn, calls, faults>>

ConnectCall(s) == s \in Callers /\ Call /\ Dial(s)

SetRole(s) ==
    /\ Call /\ ~connected[s] /\ Allowed(s, "role")
    /\ \E r \in {"master", "slave"} : role' = [role EXCEPT ![s] = r]
    /\ UNCHANGED <<open, listening, socket, handshake, nonce, connected, reconnect,
                   scheme, channel, conn>>

(* disconnect(): the handshake is not cleared, though it goes with its     *)
(* socket.                                                                 *)
Disconnect(s) ==
    /\ Call /\ Allowed(s, "disconnect")
    /\ reconnect' = [reconnect EXCEPT ![s] = FALSE]
    /\ connected' = [connected EXCEPT ![s] = FALSE]
    /\ channel' = [channel EXCEPT ![s] = NoChannel]
    /\ socket' = [socket EXCEPT ![s] = NoConn]
    /\ handshake' = [handshake EXCEPT ![s] = IF @ = "none" THEN "none" ELSE "dangling"]
    /\ conn' = IF socket[s] = NoConn THEN conn
               ELSE [conn EXCEPT ![socket[s]] = Closed(@, s)]
    /\ UNCHANGED <<open, listening, nonce, role, scheme>>

Events(s) ==
    \/ Established(s) \/ ReadHandshake(s)
    \/ \E c \in Conns : Accept(s, c) \/ PeerGone(s, c) \/ Refused(s, c)

Calls(s) ==
    \/ CloseDB(s) \/ ConnectCall(s) \/ SetRole(s) \/ Disconnect(s)

Next ==
    \/ \E s \in Side :
        \/ Events(s) \/ Reconnect(s) \/ HandshakeTimeout(s)
        \/ OpenDB(s) \/ Listen(s) \/ Calls(s)
    \/ \E c \in Conns : Lost(c)

(* The event loop of each engine handles every event, and its timer fires. *)
Fairness ==
    \A s \in Side :
        /\ WF_vars(Established(s)) /\ WF_vars(ReadHandshake(s)) /\ WF_vars(Reconnect(s))
        /\ \A c \in Conns :
            WF_vars(Accept(s, c)) /\ WF_vars(PeerGone(s, c)) /\ WF_vars(Refused(s, c))

Spec == Init /\ [][Next]_vars /\ Fairness

-----------------------------------------------------------------------------
Message(m) ==
    /\ m.type \in {"HS", "FIN"} /\ m.role \in {"none", "master", "slave"}
    /\ m.nonce \in Nonces \cup {0} /\ DOMAIN m.scheme = Dir

(* Type correctness; an engine with a socket has its end of it.            *)
TypeOK ==
    /\ open \in [Side -> BOOLEAN] /\ listening \in [Side -> BOOLEAN]
    /\ connected \in [Side -> BOOLEAN] /\ reconnect \in [Side -> BOOLEAN]
    /\ socket \in [Side -> Conns \cup {NoConn}]
    /\ handshake \in [Side -> {"none", "live", "dangling"}]
    /\ nonce \in [Side -> Nonces \cup {0}]
    /\ role \in [Side -> {"none", "master", "slave"}]
    /\ scheme \in [Side -> [Dir -> SchemeNames]]
    /\ \A c \in Conns, s \in Side :
        /\ conn[c].end[s] \in {"none", "opening", "pending", "open"}
        /\ \A i \in DOMAIN conn[c].box[s] : Message(conn[c].box[s][i])
    /\ \A s \in Side : socket[s] # NoConn => conn[socket[s]].end[s] \in {"opening", "open"}
    /\ calls \in 0 .. MaxCalls /\ faults \in 0 .. MaxFaults

BothConnected == \A s \in Side : connected[s]
OnOneConnection == socket["alice"] = socket["bob"]

(* Two engines connected with each other are master and slave, whatever    *)
(* roles they were given, kept from the last connection or diced for, and  *)
(* whichever of the two has decided first.                                 *)
OneMaster ==
    BothConnected /\ OnOneConnection =>
        {role[s] : s \in Side} = {"master", "slave"}

(* What one sends with, the other receives with: the same scheme and the   *)
(* same part of the secret, also after the slave has swapped its schemes   *)
(* and the two have met again.                                             *)
ChannelsMatch ==
    BothConnected /\ OnOneConnection =>
        \A s \in Side : channel[s]["in"] = channel[Peer(s)]["out"]

(* An engine that is connected has a live connection, and one in its       *)
(* handshake phase one on which the handshake can still end.               *)
NotForNothing ==
    \A s \in Side :
        connected[s] \/ handshake[s] # "none" =>
            socket[s] # NoConn /\ conn[socket[s]].end[s] = "open"

(* engine.h:89, "engine is currently in the handshake phase with its      *)
(* peer": an engine that says so has a connection to the peer.             *)
HandshakeHasPeer == \A s \in Side : LinkState(s) = "HANDSHAKE" => socket[s] # NoConn

(* The link comes up again: if the caller's wish to reconnect, the stores, *)
(* the listener and equal schemes remain, then in the end both are         *)
(* connected, whatever was lost, late or refused before.                   *)
LinkComesUp ==
    \A s \in Side :
        <>[](reconnect[s] /\ listening[Peer(s)] /\ (\A e \in Side : open[e])
             /\ scheme["alice"] = scheme["bob"]) => <>[]BothConnected
=============================================================================
