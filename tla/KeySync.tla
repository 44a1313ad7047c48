------------------------------ MODULE KeySync ------------------------------
(***************************************************************************)
(* Key synchronisation between a module and its peer                       *)
(* (src/lib/module/stash.cpp, and work() and recv() of module.cpp).  The   *)
(* two get their keys from their own pipes, in different orders and with   *)
(* gaps.  Each puts them in a stash; Bob sends a list of his, Alice picks  *)
(* the first key of hers that is in the list, Bob acknowledges, and both   *)
(* process this key, with messages bound to its id:                        *)
(*                                                                         *)
(*      Bob: LIST    Alice: PICK or NOPICK    Bob: ACK or NACK             *)
(*      Alice: DATA  Bob: DATA                (process() of the module)    *)
(*                                                                         *)
(* A receipt blocks without a timeout.  Work on a key may end early on one *)
(* side only (process() returns false, as qkd-auth does on an empty key    *)
(* store), and a module may be restarted: these are the faults.            *)
(***************************************************************************)
EXTENDS Integers, Sequences, FiniteSets, SequencesExt

CONSTANTS
    Keys,         \* ids of the keys both sides may get
    (* bounds of the exploration *)
    MaxEarly,     \* early ends of process()
    MaxRestarts   \* restarts of a module

ASSUME KeysAssumption == Keys \subseteq Nat \ {0}
ASSUME BoundsAssumption == MaxEarly \in Nat /\ MaxRestarts \in Nat

Side == {"alice", "bob"}
NoKey == 0

VARIABLES
    pending,    \* side -> keys its previous module still has for it
    stash,      \* side -> its stash, in the order of arrival (m_cStash)
    peerList,   \* Alice's idea of Bob's stash (m_cPeerStash)
    at,         \* side -> where its worker stands
    key,        \* side -> the key it processes, for Alice also the one she asks for
    net,        \* side -> messages on their way to it
    picked,     \* side -> history: the keys it took from its stash to process
    finished,   \* side -> history: the keys whose exchange it completed
    faults      \* faults so far (bound)

vars == <<pending, stash, peerList, at, key, net, picked, finished, faults>>

NoFaults == [early |-> 0, restarts |-> 0]

Msg(type, k, list) == [type |-> type, key |-> k, list |-> list]
Sync == {"LIST", "PICK", "NOPICK", "ACK", "NACK"}
Peer(s) == IF s = "alice" THEN "bob" ELSE "alice"

Init ==
    /\ pending = [s \in Side |-> Keys]
    /\ stash = [s \in Side |-> <<>>] /\ peerList = <<>>
    /\ at = [s \in Side |-> "sync"] /\ key = [s \in Side |-> NoKey]
    /\ net = [s \in Side |-> <<>>]
    /\ picked = [s \in Side |-> <<>>] /\ finished = [s \in Side |-> {}]
    /\ faults = NoFaults

Send(s, m) == net' = [net EXCEPT ![Peer(s)] = Append(@, m)]
Received(s) == net' = [net EXCEPT ![s] = Tail(@)]
Answers(s, m) ==
    net' = [net EXCEPT ![s] = Tail(@), ![Peer(s)] = Append(@, m)]
Goes(s, place) == at' = [at EXCEPT ![s] = place]
Works(s, place, k) == Goes(s, place) /\ key' = [key EXCEPT ![s] = k]

Without(list, k) == RemoveFirst(list, k)

(* The first key of the stash that is in the peer's list. *)
Choice(own, peers) ==
    LET common == {i \in DOMAIN own : own[i] \in ToSet(peers)}
    IN  IF common = {} THEN NoKey ELSE own[Min(common)]

-----------------------------------------------------------------------------
(* The top of the loop.  Keys older than the TTL go: they are the first in *)
(* the stash, and how many there are is left open.  Bob sends his list.    *)
Purge(s) == \E n \in 0 .. Len(stash[s]) :
    stash' = [stash EXCEPT ![s] = SubSeq(@, n + 1, Len(@))]

StartSync(s) ==
    /\ at[s] = "sync" /\ Purge(s)
    /\ \/ /\ s = "bob" /\ Goes(s, "pick")
          /\ Send(s, Msg("LIST", NoKey, stash'[s]))
       \/ /\ s = "alice" /\ Goes(s, "list")
          /\ UNCHANGED net
    /\ UNCHANGED <<pending, peerList, key, picked, finished, faults>>

(* Without a key to process: read one into the stash, or time out. *)
Read(s) ==
    /\ at[s] = "read" /\ Goes(s, "sync")
    /\ \/ \E k \in pending[s] :
            /\ pending' = [pending EXCEPT ![s] = @ \ {k}]
            /\ stash' = [stash EXCEPT ![s] = Append(@, k)]
       \/ UNCHANGED <<pending, stash>>
    /\ UNCHANGED <<peerList, key, net, picked, finished, faults>>

(* Faulty: the list is not cleared before. *)
ListAfterAppends(m) ==
    CASE m.type = "LIST" -> peerList \o SelectSeq(m.list, LAMBDA k : k \notin ToSet(peerList))
      [] m.type \in Sync \ {"LIST"} -> <<>>
      [] m.type = "DATA" -> peerList

(* What stash::recv makes of a message: any sync message clears the list.  *)
ListAfter(m) ==
    CASE m.type = "LIST" -> m.list
      [] m.type \in Sync \ {"LIST"} -> <<>>
      [] m.type = "DATA" -> peerList

(* sync() and the first half of pick_alice(): whatever message came, Alice *)
(* chooses.                                                                *)
AliceList ==
    /\ at["alice"] = "list" /\ net["alice"] # <<>>
    /\ LET m == Head(net["alice"])
           k == Choice(stash["alice"], ListAfter(m))
       IN  /\ peerList' = ListAfter(m)
           /\ \/ /\ k = NoKey
                 /\ Answers("alice", Msg("NOPICK", NoKey, <<>>)) /\ Works("alice", "read", NoKey)
              \/ /\ k # NoKey
                 /\ Answers("alice", Msg("PICK", k, <<>>)) /\ Works("alice", "ack", k)
    /\ UNCHANGED <<pending, stash, picked, finished, faults>>

(* Faulty: the key picked stays in the stash. *)
TakeKeeps(s, k) ==
    /\ UNCHANGED stash
    /\ picked' = [picked EXCEPT ![s] = Append(@, k)]

(* The key chosen leaves the stash to be processed. *)
Take(s, k) ==
    /\ stash' = [stash EXCEPT ![s] = Without(@, k)]
    /\ picked' = [picked EXCEPT ![s] = Append(@, k)]

(* The second half of pick_alice(); only an ACK, which names no key, lets  *)
(* her take it, everything else is refused or thrown.                      *)
AliceAck ==
    /\ at["alice"] = "ack" /\ net["alice"] # <<>>
    /\ Received("alice")
    /\ \/ /\ Head(net["alice"]).type = "ACK"
          /\ Take("alice", key["alice"]) /\ Works("alice", "process", key["alice"])
          /\ peerList' = Without(peerList, key["alice"])
       \/ /\ Head(net["alice"]).type # "ACK"
          /\ Works("alice", "read", NoKey) /\ UNCHANGED <<stash, picked, peerList>>
    /\ UNCHANGED <<pending, finished, faults>>

(* Faulty: Bob acknowledges the key asked for and takes his first. *)
BobPickFirst ==
    /\ at["bob"] = "pick" /\ net["bob"] # <<>>
    /\ LET m == Head(net["bob"])
       IN  \/ /\ m.type = "PICK" /\ m.key \in ToSet(stash["bob"])
              /\ Answers("bob", Msg("ACK", NoKey, <<>>))
              /\ Take("bob", Head(stash["bob"])) /\ Works("bob", "process", Head(stash["bob"]))
           \/ /\ m.type # "PICK" \/ m.key \notin ToSet(stash["bob"])
              /\ Received("bob")
              /\ Goes("bob", "read") /\ UNCHANGED <<stash, key, picked>>
    /\ UNCHANGED <<pending, peerList, finished, faults>>

(* pick_bob(). *)
BobPick ==
    /\ at["bob"] = "pick" /\ net["bob"] # <<>>
    /\ LET m == Head(net["bob"])
       IN  \/ /\ m.type = "PICK" /\ m.key \in ToSet(stash["bob"])
              /\ Answers("bob", Msg("ACK", NoKey, <<>>))
              /\ Take("bob", m.key) /\ Works("bob", "process", m.key)
           \/ /\ m.type = "PICK" /\ m.key \notin ToSet(stash["bob"])
              /\ Answers("bob", Msg("NACK", NoKey, <<>>))
              /\ Goes("bob", "read") /\ UNCHANGED <<stash, key, picked>>
           \/ /\ m.type # "PICK"      \* nothing to pick, or thrown
              /\ Received("bob")
              /\ Goes("bob", "read") /\ UNCHANGED <<stash, key, picked>>
    /\ UNCHANGED <<pending, peerList, finished, faults>>

-----------------------------------------------------------------------------
(* The exchange of process(), one message each way, bound to the key.      *)

Process(s) ==
    /\ at[s] = "process" /\ Goes(s, "data")
    /\ \/ s = "alice" /\ Send(s, Msg("DATA", key[s], <<>>))
       \/ s = "bob" /\ UNCHANGED net
    /\ UNCHANGED <<pending, stash, peerList, key, picked, finished, faults>>

(* Faulty: whatever message comes is taken for the peer's data. *)
IsOursAny(s, m) == m.key \in Keys \cup {NoKey}

(* recv() of module.cpp. *)
IsOurs(s, m) == m.type = "DATA" /\ m.key = key[s]

Data(s) ==
    /\ at[s] = "data" /\ net[s] # <<>>
    /\ Works(s, "sync", NoKey)
    /\ LET m == Head(net[s])
       IN  \/ /\ IsOurs(s, m)
              /\ finished' = [finished EXCEPT ![s] = @ \cup {key[s]}]
              /\ \/ s = "alice" /\ Received(s)
                 \/ s = "bob" /\ Answers(s, Msg("DATA", key[s], <<>>))
              /\ UNCHANGED peerList
           \/ /\ ~IsOurs(s, m)        \* another key, or a sync message: no data
              /\ peerList' = IF s = "alice" THEN ListAfter(m) ELSE peerList
              /\ Received(s) /\ UNCHANGED finished
    /\ UNCHANGED <<pending, stash, picked, faults>>

-----------------------------------------------------------------------------
(* process() returns false before its first message, or before the answer. *)
GiveUp(s) ==
    /\ faults.early < MaxEarly /\ faults' = [faults EXCEPT !.early = @ + 1]
    /\ Works(s, "sync", NoKey)
    /\ \/ at[s] = "process" /\ UNCHANGED net
       \/ /\ s = "bob" /\ at[s] = "data" /\ net[s] # <<>> /\ IsOurs(s, Head(net[s]))
          /\ Received(s)
    /\ UNCHANGED <<pending, stash, peerList, picked, finished>>

(* The process of one side ends and is started anew; what it had sent may  *)
(* still arrive, what was sent to it is gone.                              *)
Restart(s) ==
    /\ faults.restarts < MaxRestarts /\ faults' = [faults EXCEPT !.restarts = @ + 1]
    /\ stash' = [stash EXCEPT ![s] = <<>>]
    /\ peerList' = IF s = "alice" THEN <<>> ELSE peerList
    /\ Works(s, "sync", NoKey)
    /\ \/ net' = [net EXCEPT ![s] = <<>>]
       \/ net' = [i \in Side |-> <<>>]
    /\ UNCHANGED <<pending, picked, finished>>

Worker(s) ==
    \/ StartSync(s) \/ Read(s) \/ Process(s) \/ Data(s)
    \/ s = "alice" /\ (AliceList \/ AliceAck)
    \/ s = "bob" /\ BobPick

Next == \E s \in Side : Worker(s) \/ GiveUp(s) \/ Restart(s)

Fairness == \A s \in Side : WF_vars(Worker(s))

Spec == Init /\ [][Next]_vars /\ Fairness

-----------------------------------------------------------------------------
KeyList(list) == list \in Seq(Keys) /\ IsInjective(list)
Message(m) ==
    m.type \in Sync \cup {"DATA"} /\ m.key \in Keys \cup {NoKey} /\ KeyList(m.list)

(* Type correctness; a stash holds a key once, and what it holds is no     *)
(* longer in the pipe.                                                     *)
TypeOK ==
    /\ pending \in [Side -> SUBSET Keys]
    /\ DOMAIN stash = Side /\ (\A s \in Side : KeyList(stash[s])) /\ KeyList(peerList)
    /\ at \in [Side -> {"sync", "read", "list", "ack", "pick", "process", "data"}]
    /\ key \in [Side -> Keys \cup {NoKey}]
    /\ \A s \in Side : \A i \in DOMAIN net[s] : Message(net[s][i])
    /\ \A s \in Side : ToSet(stash[s]) \cap pending[s] = {}
    /\ finished \in [Side -> SUBSET Keys]
    /\ faults \in [early : 0 .. MaxEarly, restarts : 0 .. MaxRestarts]

(* No key is processed twice on a side, whatever was asked for again,      *)
(* acknowledged late or lost in a restart.                                 *)
PickedOnce == \A s \in Side : IsInjective(picked[s])

(* Alice completes the exchange for a key only after Bob has, and Bob only *)
(* with a key she has picked, even when acknowledgements, which name no    *)
(* key, arrive for another one, and sync messages in the place of data.    *)
FinishedTogether ==
    /\ finished["alice"] \subseteq finished["bob"]
    /\ finished["bob"] \subseteq ToSet(picked["alice"])

(* Without faults the two pick the same keys in the same order, Bob first: *)
(* neither expiry nor keys that come in another order on the other side    *)
(* pull them apart.                                                        *)
InLockstep ==
    faults = NoFaults =>
        /\ IsPrefix(picked["alice"], picked["bob"])
        /\ Len(picked["bob"]) <= Len(picked["alice"]) + 1
        /\ {at["alice"], at["bob"]} \subseteq {"process", "data"} => key["alice"] = key["bob"]

Stashed(k) == \A s \in Side : k \in ToSet(stash[s])

(* A key in both stashes does not stay there, if work does not end early:  *)
(* both pick it, or it expires.                                            *)
CommonKeysGetPicked == \A k \in Keys : Stashed(k) ~> (~Stashed(k) \/ faults # NoFaults)
=============================================================================
