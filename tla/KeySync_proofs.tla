---------------------------- MODULE KeySync_proofs ----------------------------
(***************************************************************************)
(* Theorems about key synchronisation, for any keys and any number of      *)
(* restarts and early ends.                                                *)
(***************************************************************************)
EXTENDS KeySync, SequenceTheorems, WellFoundedInduction, TLAPS

(* The messages that are on their way, and the lists the sides keep.       *)
Messages == [type : Sync \cup {"DATA"}, key : Keys \cup {NoKey}, list : Seq(Keys)]

Typed ==
    /\ pending \in [Side -> SUBSET Keys]
    /\ stash \in [Side -> Seq(Keys)] /\ picked \in [Side -> Seq(Keys)]
    /\ net \in [Side -> Seq(Messages)]
    /\ at \in [Side -> {"sync", "read", "list", "ack", "pick", "process", "data"}]
    /\ key \in [Side -> Keys \cup {NoKey}]
    /\ finished \in [Side -> SUBSET Keys]
    /\ faults \in [early : 0 .. MaxEarly, restarts : 0 .. MaxRestarts]

(* A key is in one place of a side only: its pipe, its stash, or picked.   *)
Lists ==
    /\ KeyList(peerList)
    /\ \A s \in Side :
        /\ KeyList(stash[s]) /\ KeyList(picked[s])
        /\ ToSet(stash[s]) \cap pending[s] = {}
        /\ ToSet(picked[s]) \cap pending[s] = {}
        /\ ToSet(picked[s]) \cap ToSet(stash[s]) = {}

(* The key Alice has asked for is still hers to pick, and the key a side   *)
(* processes is one it has picked.                                         *)
Held ==
    /\ at["alice"] = "ack" => key["alice"] \in ToSet(stash["alice"])
    /\ \A s \in Side : at[s] \in {"process", "data"} => key[s] \in ToSet(picked[s])

(* Data for Alice is about a key that Bob has finished, data for Bob about *)
(* one that Alice has picked, however long it has been under way.          *)
Honest(m, s) ==
    m.type = "DATA" =>
        m.key \in (IF s = "alice" THEN finished["bob"] ELSE ToSet(picked["alice"]))
Posted == \A s \in Side : \A m \in ToSet(net[s]) : KeyList(m.list) /\ Honest(m, s)

IInv == Typed /\ Lists /\ Held /\ Posted /\ FinishedTogether

(* Lists of keys: what erasing, expiry, pushing and choosing do to them.   *)
LEMMA EmptyKeyList == KeyList(<<>>)
BY DEF KeyList, IsInjective

(* Removing a key that is in a list removes that key and no other. *)
LEMMA WithoutRemoves ==
    ASSUME NEW list, KeyList(list), NEW k \in ToSet(list)
    PROVE  KeyList(Without(list, k)) /\ ToSet(Without(list, k)) = ToSet(list) \ {k}
<1> DEFINE I == {j \in 1 .. Len(list) : list[j] = k}
           i == Min(I)
<1>1. list \in Seq(Keys) /\ IsInjective(list)
  BY DEF KeyList
<1>2. Len(list) \in Nat /\ DOMAIN list = 1 .. Len(list)
  BY <1>1, LenProperties
<1>3. PICK j \in 1 .. Len(list) : list[j] = k
  BY <1>2 DEF ToSet
<1>4. I = {j}
  BY <1>1, <1>2, <1>3 DEF IsInjective
<1>5. i = j
  BY <1>2, <1>4 DEF Min
<1>6. Without(list, k) = RemoveAt(list, j)
  BY <1>3, <1>4, <1>5 DEF Without, RemoveFirst, SelectInSeq
<1> DEFINE a == SubSeq(list, 1, j - 1)
           b == SubSeq(list, j + 1, Len(list))
           w == a \o b
<1>7. /\ a \in Seq(Keys) /\ Len(a) = j - 1
      /\ \A n \in 1 .. j - 1 : a[n] = list[n]
  <2>1. \A n \in 1 .. j - 1 : list[n] \in Keys
    BY <1>1, <1>2, ElementOfSeq
  <2> QED
    BY <2>1, <1>2, SubSeqProperties
<1>8. /\ b \in Seq(Keys) /\ Len(b) = Len(list) - j
      /\ \A n \in 1 .. Len(list) - j : b[n] = list[j + n]
  <2>1. \A n \in j + 1 .. Len(list) : list[n] \in Keys
    BY <1>1, <1>2, ElementOfSeq
  <2> QED
    BY <2>1, <1>2, SubSeqProperties
<1>9. /\ w \in Seq(Keys) /\ Len(w) = Len(list) - 1
      /\ \A n \in 1 .. Len(list) - 1 : w[n] = IF n < j THEN list[n] ELSE list[n + 1]
  <2>1. /\ w \in Seq(Keys) /\ Len(w) = Len(a) + Len(b)
        /\ \A n \in 1 .. Len(a) + Len(b) : w[n] = IF n <= Len(a) THEN a[n] ELSE b[n - Len(a)]
    BY <1>7, <1>8, ConcatProperties
  <2> HIDE DEF w, a, b
  <2>2. j \in 1 .. Len(list) /\ Len(list) \in Nat
    BY <1>2
  <2>3. Len(w) = Len(list) - 1
    BY <2>1, <2>2, <1>7, <1>8
  <2>4. ASSUME NEW n \in 1 .. Len(list) - 1
        PROVE  w[n] = IF n < j THEN list[n] ELSE list[n + 1]
    <3>1. CASE n < j
      <4>1. n \in 1 .. j - 1 /\ n \in 1 .. Len(a) + Len(b) /\ n <= Len(a)
        BY <2>2, <1>7, <1>8, <3>1
      <4>2. w[n] = a[n]
        BY <2>1, <4>1
      <4>3. a[n] = list[n]
        BY <1>7, <4>1
      <4> QED
        BY <4>2, <4>3, <3>1
    <3>2. CASE n >= j
      <4>1. /\ n \in 1 .. Len(a) + Len(b) /\ ~(n <= Len(a))
            /\ n - Len(a) \in 1 .. Len(list) - j /\ j + (n - Len(a)) = n + 1
        BY <2>2, <1>7, <1>8, <3>2
      <4>2. w[n] = b[n - Len(a)]
        BY <2>1, <4>1
      <4>3. b[n - Len(a)] = list[n + 1]
        BY <1>8, <4>1
      <4> QED
        BY <4>2, <4>3, <2>2, <3>2
    <3> QED
      BY <3>1, <3>2, <2>2
  <2> QED
    BY <2>1, <2>3, <2>4
<1>10. w = Without(list, k)
  BY <1>6 DEF RemoveAt
<1> HIDE DEF w
<1>11. DOMAIN w = 1 .. Len(list) - 1
  BY <1>9, LenProperties
<1>d. \A x, y \in 1 .. Len(list) : list[x] = list[y] => x = y
  BY <1>1, <1>2 DEF IsInjective
<1>12. IsInjective(w)
  <2>1. ASSUME NEW x \in 1 .. Len(list) - 1, NEW y \in 1 .. Len(list) - 1, w[x] = w[y]
        PROVE  x = y
    <3> DEFINE from(n) == IF n < j THEN n ELSE n + 1
    <3>1. /\ from(x) \in 1 .. Len(list) /\ from(y) \in 1 .. Len(list)
          /\ w[x] = list[from(x)] /\ w[y] = list[from(y)]
      BY <1>2, <1>3, <1>9
    <3>2. from(x) = from(y)
      BY <1>d, <2>1, <3>1
    <3> QED
      BY <1>2, <1>3, <3>2
  <2> QED
    BY <1>11, <2>1 DEF IsInjective
<1>13. ToSet(w) = ToSet(list) \ {k}
  <2>1. ASSUME NEW n \in 1 .. Len(list) - 1 PROVE w[n] \in ToSet(list) \ {k}
    <3>1. PICK x \in 1 .. Len(list) : x # j /\ w[n] = list[x]
      <4>1. CASE n < j
        BY <1>2, <1>3, <1>9, <4>1
      <4>2. CASE ~(n < j)
        BY <1>2, <1>3, <1>9, <4>2
      <4> QED
        BY <4>1, <4>2
    <3> QED
      BY <1>2, <1>3, <1>d, <3>1 DEF ToSet
  <2>2. ASSUME NEW n \in 1 .. Len(list), list[n] # k PROVE list[n] \in ToSet(w)
    <3>1. CASE n < j
      BY <1>2, <1>9, <1>11, <3>1 DEF ToSet
    <3>2. CASE n > j
      <4>1. n - 1 \in 1 .. Len(list) - 1 /\ w[n - 1] = list[n]
        BY <1>2, <1>3, <1>9, <3>2
      <4> QED
        BY <4>1, <1>11 DEF ToSet
    <3> QED
      BY <1>2, <1>3, <2>2, <3>1, <3>2
  <2> QED
    BY <1>2, <1>11, <2>1, <2>2 DEF ToSet
<1> QED
  BY <1>9, <1>10, <1>12, <1>13 DEF KeyList

(* Removing a key that is not in a list changes nothing. *)
LEMMA WithoutKeeps ==
    ASSUME NEW list, KeyList(list), NEW k, k \notin ToSet(list)
    PROVE  Without(list, k) = list
<1>1. DOMAIN list = 1 .. Len(list)
  BY LenProperties DEF KeyList
<1> QED
  BY <1>1 DEF Without, RemoveFirst, ToSet

(* Expiry from the front of a list leaves a list of keys it had. *)
LEMMA PurgeKeeps ==
    ASSUME NEW list, KeyList(list), NEW n \in 0 .. Len(list)
    PROVE  /\ KeyList(SubSeq(list, n + 1, Len(list)))
           /\ ToSet(SubSeq(list, n + 1, Len(list))) \subseteq ToSet(list)
<1> DEFINE w == SubSeq(list, n + 1, Len(list))
<1>1. list \in Seq(Keys) /\ IsInjective(list)
  BY DEF KeyList
<1>2. Len(list) \in Nat /\ DOMAIN list = 1 .. Len(list)
  BY <1>1, LenProperties
<1>3. /\ w \in Seq(Keys) /\ Len(w) = Len(list) - n
      /\ \A i \in 1 .. Len(list) - n : w[i] = list[n + i]
  <2>1. \A i \in n + 1 .. Len(list) : list[i] \in Keys
    BY <1>1, <1>2, ElementOfSeq
  <2> DEFINE l == Len(list)
  <2>2. n + 1 \in Int /\ l \in Nat /\ n \in 0 .. l
    BY <1>1, <1>2
  <2>3. /\ w \in Seq(Keys)
        /\ Len(w) = IF n + 1 <= l THEN l - (n + 1) + 1 ELSE 0
        /\ \A i \in 1 .. l - (n + 1) + 1 : w[i] = list[(n + 1) + i - 1]
    BY <2>1, <2>2, SubSeqProperties
  <2> HIDE DEF w, l
  <2>4. Len(w) = l - n
    BY <2>2, <2>3
  <2>5. ASSUME NEW i \in 1 .. l - n PROVE w[i] = list[n + i]
    <3>1. i \in 1 .. l - (n + 1) + 1 /\ (n + 1) + i - 1 = n + i
      BY <2>2
    <3> QED
      BY <2>3, <3>1
  <2> QED
    BY <2>3, <2>4, <2>5 DEF l
<1> HIDE DEF w
<1>4. DOMAIN w = 1 .. Len(list) - n
  BY <1>3, LenProperties
<1>5. IsInjective(w)
  <2>1. \A x, y \in 1 .. Len(list) : list[x] = list[y] => x = y
    BY <1>1, <1>2 DEF IsInjective
  <2>2. ASSUME NEW x \in 1 .. Len(list) - n, NEW y \in 1 .. Len(list) - n, w[x] = w[y]
        PROVE  x = y
    <3>1. n + x \in 1 .. Len(list) /\ n + y \in 1 .. Len(list) /\ list[n + x] = list[n + y]
      BY <1>2, <1>3, <2>2
    <3>2. n + x = n + y
      BY <2>1, <3>1
    <3> QED
      BY <3>2
  <2> QED
    BY <1>4, <2>2 DEF IsInjective
<1>6. ToSet(w) \subseteq ToSet(list)
  <2> DEFINE l == Len(list)
  <2>1. l \in Nat /\ n \in 0 .. l
    BY <1>2
  <2> HIDE DEF l
  <2>2. \A i \in 1 .. l - n : n + i \in 1 .. l
    BY <2>1
  <2>3. \A i \in 1 .. l - n : \E j \in 1 .. l : w[i] = list[j]
    BY <2>2, <1>3 DEF l
  <2>4. DOMAIN w = 1 .. l - n /\ DOMAIN list = 1 .. l
    BY <1>2, <1>4 DEF l
  <2>5. ToSet(w) = {w[i] : i \in 1 .. l - n} /\ ToSet(list) = {list[i] : i \in 1 .. l}
    BY <2>4 DEF ToSet
  <2> QED
    BY <2>3, <2>5
<1> QED
  BY <1>3, <1>5, <1>6 DEF KeyList, w

(* A new key at the end of a list keeps the list free of duplicates. *)
LEMMA AppendAdds ==
    ASSUME NEW list, KeyList(list), NEW k \in Keys, k \notin ToSet(list)
    PROVE  KeyList(Append(list, k)) /\ ToSet(Append(list, k)) = ToSet(list) \cup {k}
<1>1. list \in Seq(Keys) /\ IsInjective(list)
  BY DEF KeyList
<1>2. Len(list) \in Nat /\ DOMAIN list = 1 .. Len(list)
  BY <1>1, LenProperties
<1> DEFINE w == Append(list, k)
<1>3. /\ w \in Seq(Keys) /\ DOMAIN w = 1 .. Len(list) + 1
      /\ w[Len(list) + 1] = k /\ \A i \in 1 .. Len(list) : w[i] = list[i]
  BY <1>1, <1>2
<1> HIDE DEF w
<1>4. IsInjective(w)
  BY <1>1, <1>2, <1>3 DEF IsInjective, ToSet
<1>5. ToSet(w) = ToSet(list) \cup {k}
  BY <1>2, <1>3 DEF ToSet
<1> QED
  BY <1>3, <1>4, <1>5 DEF KeyList, w

(* The key Alice chooses is one she holds and one that is in the list. *)
LEMMA ChoiceIsHeld ==
    ASSUME NEW own, KeyList(own), NEW peers, Choice(own, peers) # NoKey
    PROVE  /\ Choice(own, peers) \in ToSet(own) /\ Choice(own, peers) \in Keys
           /\ Choice(own, peers) \in ToSet(peers)
<1> DEFINE C == {i \in DOMAIN own : own[i] \in ToSet(peers)}
<1>1. Len(own) \in Nat /\ DOMAIN own = 1 .. Len(own)
  BY LenProperties DEF KeyList
<1>2. C # {} /\ Choice(own, peers) = own[Min(C)]
  BY DEF Choice
<1>3. Min(C) \in C
  <2>1. C \subseteq Nat
    BY <1>1
  <2>2. \E n \in C : \A m \in C : n <= m
    <3> DEFINE Less == OpToRel(<, Nat)
    <3>1. PICK n \in C : \A m \in C : ~(<<m, n>> \in Less)
      BY <1>2, <2>1, WFMin, NatLessThanWellFounded
    <3>2. \A x, y \in Nat : x < y => <<x, y>> \in Less
      BY Zenon DEF OpToRel
    <3> HIDE DEF Less
    <3>3. \A m \in C : ~(m < n)
      BY <2>1, <3>1, <3>2
    <3> QED
      BY <2>1, <3>3
  <2> QED
    BY <2>2 DEF Min
<1> QED
  BY <1>1, <1>2, <1>3 DEF ToSet, KeyList
(* Messages: what sending and receiving do to the channels.                *)
LEMMA TailSet ==
    ASSUME NEW S, NEW q \in Seq(S), q # <<>>
    PROVE  /\ Tail(q) \in Seq(S) /\ ToSet(Tail(q)) \subseteq ToSet(q)
           /\ Head(q) \in S /\ Head(q) \in ToSet(q)
<1> DEFINE t == Tail(q)
           l == Len(q)
<1>1. /\ l \in Nat /\ l > 0 /\ DOMAIN q = 1 .. l /\ Head(q) = q[1]
  BY LenProperties, EmptySeq
<1>2. /\ t \in Seq(S) /\ Len(t) = l - 1 /\ \A i \in 1 .. Len(t) : t[i] = q[i + 1]
  BY HeadTailProperties
<1>3. DOMAIN t = 1 .. Len(t)
  BY <1>2, LenProperties
<1>4. Head(q) \in S
  BY HeadTailProperties
<1> HIDE DEF t, l
<1>5. \A i \in 1 .. Len(t) : i + 1 \in 1 .. l
  BY <1>1, <1>2
<1>6. ToSet(t) \subseteq ToSet(q)
  <2>1. ToSet(t) = {t[i] : i \in 1 .. Len(t)} /\ ToSet(q) = {q[i] : i \in 1 .. l}
    BY <1>1, <1>3 DEF ToSet
  <2>2. \A i \in 1 .. Len(t) : \E j \in 1 .. l : t[i] = q[j]
    BY <1>2, <1>5
  <2> QED
    BY <2>1, <2>2
<1>7. Head(q) \in ToSet(q)
  BY <1>1 DEF ToSet
<1> QED
  BY <1>2, <1>4, <1>6, <1>7 DEF t

(* The elements of a queue after one more was appended. *)
LEMMA AppendSet ==
    ASSUME NEW S, NEW q \in Seq(S), NEW e \in S
    PROVE  Append(q, e) \in Seq(S) /\ ToSet(Append(q, e)) = ToSet(q) \cup {e}
<1> DEFINE w == Append(q, e)
<1>1. Len(q) \in Nat /\ DOMAIN q = 1 .. Len(q)
  BY LenProperties
<1>2. /\ w \in Seq(S) /\ DOMAIN w = 1 .. Len(q) + 1
      /\ w[Len(q) + 1] = e /\ \A i \in 1 .. Len(q) : w[i] = q[i]
  BY <1>1
<1> HIDE DEF w
<1>3. ToSet(w) = ToSet(q) \cup {e}
  BY <1>1, <1>2 DEF ToSet
<1> QED
  BY <1>2, <1>3 DEF w

Channels == net \in [Side -> Seq(Messages)]
Carries(s, M) == ToSet(net'[s]) \subseteq ToSet(net[s]) \cup M

(* Sending adds at most the message sent to the peer's queue. *)
LEMMA SendCarries ==
    ASSUME Channels, NEW s \in Side, NEW m \in Messages, Send(s, m)
    PROVE  Channels' /\ Carries(Peer(s), {m}) /\ Carries(s, {})
<1>1. Peer(s) \in Side /\ Peer(s) # s
  BY DEF Side, Peer
<1>2. net' = [net EXCEPT ![Peer(s)] = Append(@, m)]
  BY DEF Send
<1>3. /\ Append(net[Peer(s)], m) \in Seq(Messages)
      /\ ToSet(Append(net[Peer(s)], m)) = ToSet(net[Peer(s)]) \cup {m}
  BY <1>1, AppendSet DEF Channels
<1> QED
  BY <1>1, <1>2, <1>3 DEF Channels, Carries

(* Receiving adds nothing to any queue. *)
LEMMA ReceivedCarries ==
    ASSUME Channels, NEW s \in Side, net[s] # <<>>, Received(s)
    PROVE  Channels' /\ \A t \in Side : Carries(t, {})
<1>1. net' = [net EXCEPT ![s] = Tail(@)]
  BY DEF Received
<1>2. Tail(net[s]) \in Seq(Messages) /\ ToSet(Tail(net[s])) \subseteq ToSet(net[s])
  BY TailSet DEF Channels
<1> QED
  BY <1>1, <1>2 DEF Channels, Carries

(* Receiving and answering adds at most the answer. *)
LEMMA AnswersCarries ==
    ASSUME Channels, NEW s \in Side, NEW m \in Messages, net[s] # <<>>, Answers(s, m)
    PROVE  Channels' /\ Carries(Peer(s), {m}) /\ Carries(s, {})
<1>1. Peer(s) \in Side /\ Peer(s) # s
  BY DEF Side, Peer
<1>2. /\ Tail(net[s]) \in Seq(Messages) /\ ToSet(Tail(net[s])) \subseteq ToSet(net[s])
      /\ Append(net[Peer(s)], m) \in Seq(Messages)
      /\ ToSet(Append(net[Peer(s)], m)) = ToSet(net[Peer(s)]) \cup {m}
  BY <1>1, AppendSet, TailSet DEF Channels
<1>3. net' = [net EXCEPT ![s] = Tail(net[s]), ![Peer(s)] = Append(net[Peer(s)], m)]
  BY <1>1 DEF Answers, Channels
<1> QED
  BY <1>1, <1>2, <1>3 DEF Channels, Carries

(* The message a side is about to receive.                                 *)
LEMMA HeadIsPosted ==
    ASSUME Channels, Posted, NEW s \in Side, net[s] # <<>>
    PROVE  /\ Head(net[s]) \in Messages
           /\ KeyList(Head(net[s]).list) /\ Honest(Head(net[s]), s)
<1>1. Head(net[s]) \in Messages /\ Head(net[s]) \in ToSet(net[s])
  BY TailSet DEF Channels
<1> QED
  BY <1>1 DEF Posted

(* Messages stay honest: what is finished and picked only grows.           *)
Grows ==
    /\ finished["bob"] \subseteq finished'["bob"]
    /\ ToSet(picked["alice"]) \subseteq ToSet(picked'["alice"])

(* What the messages say stays true when the sides only get further. *)
LEMMA StaysPosted ==
    ASSUME Posted, Grows,
           \A t \in Side : \A m \in ToSet(net'[t]) :
               m \in ToSet(net[t]) \/ (KeyList(m.list) /\ Honest(m, t)')
    PROVE  Posted'
<1> SUFFICES ASSUME NEW t \in Side, NEW m \in ToSet(net'[t])
             PROVE  KeyList(m.list) /\ Honest(m, t)'
  BY DEF Posted
<1>1. CASE m \in ToSet(net[t])
  <2>1. KeyList(m.list) /\ Honest(m, t)
    BY <1>1 DEF Posted
  <2> QED
    BY <2>1 DEF Honest, Grows
<1> QED
  BY <1>1

(* What is on its way after a step was there before or is honest.          *)
Mail ==
    /\ Channels'
    /\ \A t \in Side : \A m \in ToSet(net'[t]) :
           m \in ToSet(net[t]) \/ (KeyList(m.list) /\ Honest(m, t)')

(* The keys a side takes were in its stash.                                *)
LEMMA TakeSteps ==
    ASSUME Typed, Lists, NEW s \in Side, NEW k \in ToSet(stash[s]), Take(s, k),
           UNCHANGED pending, KeyList(peerList')
    PROVE  /\ k \in Keys
           /\ stash' \in [Side -> Seq(Keys)] /\ picked' \in [Side -> Seq(Keys)] /\ Lists'
           /\ ToSet(picked'[s]) = ToSet(picked[s]) \cup {k}
           /\ \A t \in Side \ {s} : stash'[t] = stash[t] /\ picked'[t] = picked[t]
<1>1. /\ stash' = [stash EXCEPT ![s] = Without(stash[s], k)]
      /\ picked' = [picked EXCEPT ![s] = Append(picked[s], k)]
  BY DEF Take
<1>2. KeyList(stash[s]) /\ KeyList(picked[s]) /\ k \notin ToSet(picked[s])
  BY DEF Lists
<1>3. k \in Keys
  BY <1>2 DEF KeyList, ToSet
<1>4. /\ KeyList(Without(stash[s], k))
      /\ ToSet(Without(stash[s], k)) = ToSet(stash[s]) \ {k}
  BY <1>2, WithoutRemoves
<1>5. /\ KeyList(Append(picked[s], k))
      /\ ToSet(Append(picked[s], k)) = ToSet(picked[s]) \cup {k}
  BY <1>2, <1>3, AppendAdds
<1>6. /\ stash'[s] = Without(stash[s], k) /\ picked'[s] = Append(picked[s], k)
      /\ \A t \in Side \ {s} : stash'[t] = stash[t] /\ picked'[t] = picked[t]
  BY <1>1 DEF Typed
<1>7. k \notin pending[s]
  BY DEF Lists
<1>8. stash' \in [Side -> Seq(Keys)] /\ picked' \in [Side -> Seq(Keys)]
  BY <1>1, <1>4, <1>5 DEF Typed, KeyList
<1>9. Lists'
  <2> SUFFICES ASSUME NEW t \in Side
               PROVE  /\ KeyList(stash'[t]) /\ KeyList(picked'[t])
                      /\ ToSet(stash'[t]) \cap pending[t] = {}
                      /\ ToSet(picked'[t]) \cap pending[t] = {}
                      /\ ToSet(picked'[t]) \cap ToSet(stash'[t]) = {}
    BY DEF Lists
  <2>1. CASE t = s
    BY <1>4, <1>5, <1>6, <1>7, <2>1 DEF Lists
  <2>2. CASE t # s
    BY <1>6, <2>2 DEF Lists
  <2> QED
    BY <2>1, <2>2
<1> QED
  BY <1>3, <1>5, <1>6, <1>8, <1>9

-----------------------------------------------------------------------------
(* Each step of a side, and each fault, keeps the invariant.               *)

(* The action StartSync keeps the invariant. *)
LEMMA StartSyncStep == ASSUME IInv, NEW s \in Side, StartSync(s) PROVE IInv'
<1>0. Typed /\ Lists /\ Held /\ Posted /\ FinishedTogether /\ Channels
  BY DEF IInv, Typed, Channels
<1>1. PICK n \in 0 .. Len(stash[s]) :
        stash' = [stash EXCEPT ![s] = SubSeq(stash[s], n + 1, Len(stash[s]))]
  BY DEF StartSync, Purge
<1>2. /\ KeyList(stash'[s]) /\ ToSet(stash'[s]) \subseteq ToSet(stash[s])
      /\ \A t \in Side \ {s} : stash'[t] = stash[t]
      /\ stash' \in [Side -> Seq(Keys)]
  <2>1. KeyList(stash[s])
    BY <1>0 DEF Lists
  <2>2. /\ KeyList(SubSeq(stash[s], n + 1, Len(stash[s])))
        /\ ToSet(SubSeq(stash[s], n + 1, Len(stash[s]))) \subseteq ToSet(stash[s])
    BY <2>1, PurgeKeeps
  <2> QED
    BY <1>0, <1>1, <2>2 DEF Typed, KeyList
<1>3. UNCHANGED <<pending, peerList, key, picked, finished, faults>>
  BY DEF StartSync
<1>4. Lists'
  <2>1. \A t \in Side : KeyList(stash'[t]) /\ ToSet(stash'[t]) \subseteq ToSet(stash[t])
    BY <1>0, <1>2 DEF Lists
  <2> QED
    BY <1>0, <1>3, <2>1 DEF Lists
<1>5. /\ at[s] = "sync" /\ at' = [at EXCEPT ![s] = IF s = "bob" THEN "pick" ELSE "list"]
  BY DEF StartSync, Goes, Side
<1>6. Held'
  BY <1>0, <1>2, <1>3, <1>5 DEF Held, Typed, Side
<1>7. Channels' /\ \A t \in Side : \A m \in ToSet(net'[t]) :
          m \in ToSet(net[t]) \/ (KeyList(m.list) /\ Honest(m, t)')
  <2>1. CASE s = "alice"
    BY <1>0, <2>1 DEF StartSync, Channels
  <2>2. CASE s = "bob"
    <3>1. PICK m \in Messages : m = Msg("LIST", NoKey, stash'[s])
      BY <1>2 DEF Messages, Msg, Sync, NoKey, KeyList
    <3>a. m.list = stash'[s] /\ m.type = "LIST"
      BY <3>1 DEF Msg
    <3>b. KeyList(m.list) /\ m.type # "DATA"
      BY <3>a, <1>2
    <3>2. Send(s, m)
      BY <2>2, <3>1 DEF StartSync
    <3>3. Channels' /\ Carries(Peer(s), {m}) /\ Carries(s, {})
      BY <1>0, <3>1, <3>2, SendCarries
    <3>4. \A t \in Side : Carries(t, {m})
      BY <2>2, <3>3 DEF Carries, Peer, Side
    <3>5. \A t \in Side : Honest(m, t)'
      BY <3>b DEF Honest
    <3> QED
      BY <3>b, <3>3, <3>4, <3>5 DEF Carries
  <2> QED
    BY <2>1, <2>2 DEF Side
<1>8. Posted'
  BY <1>0, <1>3, <1>7, StaysPosted DEF Grows
<1>9. Typed'
  BY <1>0, <1>2, <1>3, <1>5, <1>7 DEF Typed, Channels
<1> QED
  BY <1>0, <1>3, <1>4, <1>6, <1>8, <1>9 DEF IInv, FinishedTogether

(* The action Read keeps the invariant. *)
LEMMA ReadStep == ASSUME IInv, NEW s \in Side, Read(s) PROVE IInv'
<1>0. Typed /\ Lists /\ Held /\ Posted /\ FinishedTogether
  BY DEF IInv
<1>1. /\ at[s] = "read" /\ at' = [at EXCEPT ![s] = "sync"]
      /\ UNCHANGED <<peerList, key, net, picked, finished, faults>>
  BY DEF Read, Goes
<1>2. CASE UNCHANGED <<pending, stash>>
  <2>1. Typed' /\ Lists' /\ Posted' /\ FinishedTogether'
    BY <1>0, <1>1, <1>2 DEF Typed, Lists, Posted, Honest, FinishedTogether
  <2>2. Held'
    BY <1>0, <1>1, <1>2 DEF Held, Typed, Side
  <2> QED
    BY <2>1, <2>2 DEF IInv
<1>3. CASE \E k \in pending[s] :
            /\ pending' = [pending EXCEPT ![s] = @ \ {k}]
            /\ stash' = [stash EXCEPT ![s] = Append(@, k)]
  <2>1. PICK k \in pending[s] :
            /\ pending' = [pending EXCEPT ![s] = pending[s] \ {k}]
            /\ stash' = [stash EXCEPT ![s] = Append(stash[s], k)]
    BY <1>3
  <2>2. k \in Keys /\ k \notin ToSet(stash[s]) /\ k \notin ToSet(picked[s]) /\ KeyList(stash[s])
    BY <1>0 DEF Typed, Lists
  <2>3. /\ KeyList(Append(stash[s], k))
        /\ ToSet(Append(stash[s], k)) = ToSet(stash[s]) \cup {k}
    BY <2>2, AppendAdds
  <2>4. /\ pending'[s] = pending[s] \ {k} /\ stash'[s] = Append(stash[s], k)
        /\ \A t \in Side \ {s} : pending'[t] = pending[t] /\ stash'[t] = stash[t]
        /\ pending' \in [Side -> SUBSET Keys] /\ stash' \in [Side -> Seq(Keys)]
    BY <1>0, <2>1, <2>2, <2>3 DEF Typed, KeyList
  <2>5. Lists'
    <3> SUFFICES ASSUME NEW t \in Side
                 PROVE  /\ KeyList(stash'[t]) /\ KeyList(picked[t])
                        /\ ToSet(stash'[t]) \cap pending'[t] = {}
                        /\ ToSet(picked[t]) \cap pending'[t] = {}
                        /\ ToSet(picked[t]) \cap ToSet(stash'[t]) = {}
      BY <1>0, <1>1 DEF Lists
    <3>1. CASE t = s
      <4>1. pending'[t] = pending[t] \ {k} /\ stash'[t] = Append(stash[t], k)
        BY <2>4, <3>1
      <4>2. /\ ToSet(stash[t]) \cap pending[t] = {} /\ ToSet(picked[t]) \cap pending[t] = {}
            /\ ToSet(picked[t]) \cap ToSet(stash[t]) = {} /\ KeyList(picked[t])
        BY <1>0 DEF Lists
      <4> QED
        BY <2>2, <2>3, <4>1, <4>2, <3>1
    <3>2. CASE t # s
      <4>1. stash'[t] = stash[t] /\ pending'[t] = pending[t]
        BY <2>4, <3>2
      <4> QED
        BY <1>0, <4>1 DEF Lists
    <3> QED
      BY <3>1, <3>2
  <2>6. Typed' /\ Posted' /\ FinishedTogether'
    BY <1>0, <1>1, <2>4 DEF Typed, Posted, Honest, FinishedTogether
  <2>7. Held'
    BY <1>0, <1>1, <2>4 DEF Held, Typed, Side
  <2> QED
    BY <2>5, <2>6, <2>7 DEF IInv
<1> QED
  BY <1>2, <1>3 DEF Read

(* A step that only receives, answers or sends, with no key changing its   *)
(* place: the lists and what is finished stay.                             *)
LEMMA ProcessStep == ASSUME IInv, NEW s \in Side, Process(s) PROVE IInv'
<1>0. Typed /\ Lists /\ Held /\ Posted /\ FinishedTogether /\ Channels
  BY DEF IInv, Typed, Channels
<1>1. /\ at[s] = "process" /\ at' = [at EXCEPT ![s] = "data"]
      /\ UNCHANGED <<pending, stash, peerList, key, picked, finished, faults>>
  BY DEF Process, Goes
<1>2. Channels' /\ \A t \in Side : \A m \in ToSet(net'[t]) :
          m \in ToSet(net[t]) \/ (KeyList(m.list) /\ Honest(m, t)')
  <2>1. CASE s = "bob"
    BY <1>0, <2>1 DEF Process, Channels
  <2>2. CASE s = "alice"
    <3>0. PICK m \in Messages : m = Msg("DATA", key[s], <<>>)
      BY <1>0, EmptyKeyList DEF Typed, Messages, Msg, KeyList
    <3>1. KeyList(m.list) /\ m.key = key[s]
      BY <3>0, EmptyKeyList DEF Msg
    <3>2. Send(s, m)
      BY <2>2, <3>0 DEF Process
    <3>3. Channels' /\ Carries(Peer(s), {m}) /\ Carries(s, {})
      BY <1>0, <3>1, <3>2, SendCarries
    <3>4. Carries("bob", {m}) /\ Carries("alice", {})
      BY <2>2, <3>3 DEF Peer
    <3>5. Honest(m, "bob")'
      BY <1>0, <1>1, <2>2, <3>1 DEF Honest, Held
    <3> QED
      BY <3>1, <3>3, <3>4, <3>5 DEF Carries, Side
  <2> QED
    BY <2>1, <2>2 DEF Side
<1>3. Posted'
  BY <1>0, <1>1, <1>2, StaysPosted DEF Grows
<1>4. Typed' /\ Lists' /\ FinishedTogether'
  BY <1>0, <1>1, <1>2 DEF Typed, Channels, Lists, FinishedTogether
<1>5. Held'
  BY <1>0, <1>1 DEF Held, Typed, Side
<1> QED
  BY <1>3, <1>4, <1>5 DEF IInv

(* The list a LIST or ACK leaves at Alice is free of duplicates. *)
LEMMA ListAfterIsList ==
    ASSUME Lists, NEW m \in Messages, KeyList(m.list) PROVE KeyList(ListAfter(m))
<1>1. m.type \in Sync \cup {"DATA"}
  BY DEF Messages
<1> QED
  BY <1>1, EmptyKeyList DEF ListAfter, Lists, Sync

(* Nothing but messages that are not data, which are honest anyway.        *)
LEMMA SyncMessage ==
    ASSUME NEW type \in Sync, NEW k \in Keys \cup {NoKey}
    PROVE  \E m \in Messages : /\ m = Msg(type, k, <<>>) /\ KeyList(m.list)
                             /\ \A t \in Side : Honest(m, t)'
<1>1. PICK m \in Messages : m = Msg(type, k, <<>>)
  BY EmptyKeyList DEF Messages, Msg, KeyList
<1>2. KeyList(m.list) /\ m.type # "DATA"
  BY <1>1, EmptyKeyList DEF Msg, Sync
<1> QED
  BY <1>1, <1>2 DEF Honest

(* The action AliceList keeps the invariant. *)
LEMMA AliceListStep == ASSUME IInv, AliceList PROVE IInv'
<1>0. Typed /\ Lists /\ Held /\ Posted /\ FinishedTogether /\ Channels /\ "alice" \in Side
  BY DEF IInv, Typed, Channels, Side
<1> DEFINE h == Head(net["alice"])
           k == Choice(stash["alice"], ListAfter(h))
<1>1. /\ at["alice"] = "list" /\ net["alice"] # <<>> /\ peerList' = ListAfter(h)
      /\ UNCHANGED <<pending, stash, picked, finished, faults>>
      /\ \/ /\ k = NoKey /\ Answers("alice", Msg("NOPICK", NoKey, <<>>))
            /\ Works("alice", "read", NoKey)
         \/ /\ k # NoKey /\ Answers("alice", Msg("PICK", k, <<>>)) /\ Works("alice", "ack", k)
  BY DEF AliceList
<1>2. h \in Messages /\ KeyList(h.list)
  BY <1>0, <1>1, HeadIsPosted
<1>3. KeyList(peerList')
  BY <1>0, <1>1, <1>2, ListAfterIsList
<1>4. k # NoKey => k \in ToSet(stash["alice"]) /\ k \in Keys
  <2>1. KeyList(stash["alice"])
    BY <1>0 DEF Lists
  <2> QED
    BY <2>1, ChoiceIsHeld
<1> HIDE DEF k, h
<1>5. \E m \in Messages : /\ Answers("alice", m) /\ KeyList(m.list)
                         /\ \A t \in Side : Honest(m, t)'
  <2>1. "NOPICK" \in Sync /\ "PICK" \in Sync /\ NoKey \in Keys \cup {NoKey}
    BY DEF Sync
  <2> QED
    BY <1>1, <1>4, <2>1, SyncMessage
<1>6. Channels' /\ \A t \in Side : \A m \in ToSet(net'[t]) :
          m \in ToSet(net[t]) \/ (KeyList(m.list) /\ Honest(m, t)')
  <2>1. PICK m \in Messages : /\ Answers("alice", m) /\ KeyList(m.list)
                              /\ \A t \in Side : Honest(m, t)'
    BY <1>5
  <2>2. Channels' /\ Carries(Peer("alice"), {m}) /\ Carries("alice", {})
    BY <1>0, <1>1, <2>1, AnswersCarries
  <2>3. \A t \in Side : Carries(t, {m})
    BY <2>2 DEF Carries, Peer, Side
  <2> QED
    BY <2>1, <2>2, <2>3 DEF Carries
<1>7. Posted'
  BY <1>0, <1>1, <1>6, StaysPosted DEF Grows
<1>8. /\ at' \in [Side -> {"sync", "read", "list", "ack", "pick", "process", "data"}]
      /\ key' \in [Side -> Keys \cup {NoKey}]
      /\ at'["bob"] = at["bob"] /\ key'["bob"] = key["bob"]
      /\ at'["alice"] = "read" \/ (at'["alice"] = "ack" /\ key'["alice"] = k /\ k # NoKey)
  BY <1>0, <1>1, <1>4 DEF Works, Goes, Typed, Side
<1>9. Typed' /\ Lists' /\ FinishedTogether'
  BY <1>0, <1>1, <1>3, <1>6, <1>8 DEF Typed, Channels, Lists, FinishedTogether
<1>10. Held'
  BY <1>0, <1>1, <1>4, <1>8 DEF Held, Side
<1> QED
  BY <1>7, <1>9, <1>10 DEF IInv

(* The action AliceAck keeps the invariant. *)
LEMMA AliceAckStep == ASSUME IInv, AliceAck PROVE IInv'
<1>0. Typed /\ Lists /\ Held /\ Posted /\ FinishedTogether /\ Channels /\ "alice" \in Side
  BY DEF IInv, Typed, Channels, Side
<1>1. /\ at["alice"] = "ack" /\ net["alice"] # <<>> /\ Received("alice")
      /\ UNCHANGED <<pending, finished, faults>>
  BY DEF AliceAck
<1>2. Channels' /\ \A t \in Side : \A m \in ToSet(net'[t]) :
          m \in ToSet(net[t]) \/ (KeyList(m.list) /\ Honest(m, t)')
  BY <1>0, <1>1, ReceivedCarries DEF Carries
<1>3. CASE /\ Take("alice", key["alice"]) /\ Works("alice", "process", key["alice"])
           /\ peerList' = Without(peerList, key["alice"])
  <2>1. key["alice"] \in ToSet(stash["alice"])
    BY <1>0, <1>1 DEF Held
  <2>2. KeyList(peerList')
    BY <1>0, <1>3, WithoutRemoves, WithoutKeeps DEF Lists
  <2>3. /\ stash' \in [Side -> Seq(Keys)] /\ picked' \in [Side -> Seq(Keys)] /\ Lists'
        /\ ToSet(picked'["alice"]) = ToSet(picked["alice"]) \cup {key["alice"]}
        /\ picked'["bob"] = picked["bob"]
    BY <1>0, <1>1, <1>3, <2>1, <2>2, TakeSteps DEF Side
  <2>4. /\ at' \in [Side -> {"sync", "read", "list", "ack", "pick", "process", "data"}]
        /\ key' = key /\ at'["bob"] = at["bob"] /\ at'["alice"] = "process"
    BY <1>0, <1>3 DEF Works, Goes, Typed, Side
  <2>5. Posted' /\ FinishedTogether'
    BY <1>0, <1>1, <1>2, <2>3, StaysPosted DEF Grows, FinishedTogether
  <2>6. Held'
    BY <1>0, <2>3, <2>4 DEF Held, Side
  <2>7. Typed'
    BY <1>0, <1>1, <1>2, <2>3, <2>4 DEF Typed, Channels
  <2> QED
    BY <2>3, <2>5, <2>6, <2>7 DEF IInv
<1>4. CASE Works("alice", "read", NoKey) /\ UNCHANGED <<stash, picked, peerList>>
  <2>1. /\ at' \in [Side -> {"sync", "read", "list", "ack", "pick", "process", "data"}]
        /\ key' \in [Side -> Keys \cup {NoKey}]
        /\ at'["bob"] = at["bob"] /\ key'["bob"] = key["bob"] /\ at'["alice"] = "read"
    BY <1>0, <1>4 DEF Works, Goes, Typed, Side
  <2>2. Posted'
    BY <1>0, <1>1, <1>2, <1>4, StaysPosted DEF Grows
  <2>3. Typed' /\ Lists' /\ FinishedTogether'
    BY <1>0, <1>1, <1>2, <1>4, <2>1 DEF Typed, Channels, Lists, FinishedTogether
  <2>4. Held'
    BY <1>0, <1>4, <2>1 DEF Held, Side
  <2> QED
    BY <2>2, <2>3, <2>4 DEF IInv
<1> QED
  BY <1>3, <1>4 DEF AliceAck

(* The action BobPick keeps the invariant. *)
LEMMA BobPickStep == ASSUME IInv, BobPick PROVE IInv'
<1>0. Typed /\ Lists /\ Held /\ Posted /\ FinishedTogether /\ Channels /\ "bob" \in Side
  BY DEF IInv, Typed, Channels, Side
<1> DEFINE h == Head(net["bob"])
<1>1. /\ at["bob"] = "pick" /\ net["bob"] # <<>>
      /\ UNCHANGED <<pending, peerList, finished, faults>>
  BY DEF BobPick
<1>2. Channels' /\ \A t \in Side : \A m \in ToSet(net'[t]) :
          m \in ToSet(net[t]) \/ (KeyList(m.list) /\ Honest(m, t)')
  <2>1. CASE Received("bob")
    BY <1>0, <1>1, <2>1, ReceivedCarries DEF Carries
  <2>2. CASE \E type \in {"ACK", "NACK"} : Answers("bob", Msg(type, NoKey, <<>>))
    <3>1. {"ACK", "NACK"} \subseteq Sync
      BY DEF Sync
    <3>2. PICK m \in Messages : /\ Answers("bob", m) /\ KeyList(m.list)
                                /\ \A t \in Side : Honest(m, t)'
      BY <2>2, <3>1, SyncMessage
    <3>3. Channels' /\ Carries(Peer("bob"), {m}) /\ Carries("bob", {})
      BY <1>0, <1>1, <3>2, AnswersCarries
    <3>4. \A t \in Side : Carries(t, {m})
      BY <3>3 DEF Carries, Peer, Side
    <3> QED
      BY <3>2, <3>3, <3>4 DEF Carries
  <2> QED
    BY <2>1, <2>2 DEF BobPick
<1>3. CASE h.key \in ToSet(stash["bob"]) /\ Take("bob", h.key) /\ Works("bob", "process", h.key)
  <2>1. KeyList(peerList')
    BY <1>0, <1>1 DEF Lists
  <2>2. /\ h.key \in Keys
        /\ stash' \in [Side -> Seq(Keys)] /\ picked' \in [Side -> Seq(Keys)] /\ Lists'
        /\ ToSet(picked'["bob"]) = ToSet(picked["bob"]) \cup {h.key}
        /\ picked'["alice"] = picked["alice"] /\ stash'["alice"] = stash["alice"]
    BY <1>0, <1>1, <1>3, <2>1, TakeSteps DEF Side
  <2> HIDE DEF h
  <2>3. /\ at' \in [Side -> {"sync", "read", "list", "ack", "pick", "process", "data"}]
        /\ key' \in [Side -> Keys \cup {NoKey}]
        /\ key'["bob"] = h.key /\ key'["alice"] = key["alice"]
        /\ at'["alice"] = at["alice"] /\ at'["bob"] = "process"
    BY <1>0, <1>3, <2>2 DEF Works, Goes, Typed, Side
  <2>4. Posted' /\ FinishedTogether'
    BY <1>0, <1>1, <1>2, <2>2, StaysPosted DEF Grows, FinishedTogether
  <2>5. Held'
    BY <1>0, <2>2, <2>3 DEF Held, Side
  <2>6. Typed'
    BY <1>0, <1>1, <1>2, <2>2, <2>3 DEF Typed, Channels
  <2> QED
    BY <2>2, <2>4, <2>5, <2>6 DEF IInv
<1>4. CASE Goes("bob", "read") /\ UNCHANGED <<stash, key, picked>>
  <2>1. /\ at' \in [Side -> {"sync", "read", "list", "ack", "pick", "process", "data"}]
        /\ at'["alice"] = at["alice"] /\ at'["bob"] = "read"
    BY <1>0, <1>4 DEF Goes, Typed, Side
  <2>2. Posted'
    BY <1>0, <1>1, <1>2, <1>4, StaysPosted DEF Grows
  <2>3. Typed' /\ Lists' /\ FinishedTogether'
    BY <1>0, <1>1, <1>2, <1>4, <2>1 DEF Typed, Channels, Lists, FinishedTogether
  <2>4. Held'
    BY <1>0, <1>4, <2>1 DEF Held, Side
  <2> QED
    BY <2>2, <2>3, <2>4 DEF IInv
<1> QED
  BY <1>3, <1>4 DEF BobPick

(* The action Data keeps the invariant. *)
LEMMA DataStep == ASSUME IInv, NEW s \in Side, Data(s) PROVE IInv'
<1>0. Typed /\ Lists /\ Held /\ Posted /\ FinishedTogether /\ Channels
  BY DEF IInv, Typed, Channels
<1> DEFINE h == Head(net[s])
<1>1. /\ at[s] = "data" /\ net[s] # <<>>
      /\ UNCHANGED <<pending, stash, picked, faults>>
      /\ at' = [at EXCEPT ![s] = "sync"] /\ key' = [key EXCEPT ![s] = NoKey]
  BY DEF Data, Works, Goes
<1>2. h \in Messages /\ KeyList(h.list) /\ Honest(h, s)
  BY <1>0, <1>1, HeadIsPosted
<1>3. /\ at' \in [Side -> {"sync", "read", "list", "ack", "pick", "process", "data"}]
      /\ key' \in [Side -> Keys \cup {NoKey}]
      /\ at'[s] = "sync" /\ \A t \in Side \ {s} : at'[t] = at[t] /\ key'[t] = key[t]
  BY <1>0, <1>1 DEF Typed
<1>4. Held'
  BY <1>0, <1>1, <1>3 DEF Held, Side
<1>5. CASE IsOurs(s, h) /\ finished' = [finished EXCEPT ![s] = @ \cup {key[s]}]
  <2>1. h.type = "DATA" /\ h.key = key[s] /\ key[s] \in ToSet(picked[s])
    BY <1>0, <1>1, <1>5 DEF IsOurs, Held
  <2>2. key[s] \in Keys
    <3>1. picked[s] \in Seq(Keys)
      BY <1>0 DEF Typed
    <3> QED
      BY <2>1, <3>1, LenProperties DEF ToSet
  <2>3. /\ finished' \in [Side -> SUBSET Keys]
        /\ finished'[s] = finished[s] \cup {key[s]}
        /\ \A t \in Side \ {s} : finished'[t] = finished[t]
    BY <1>0, <1>5, <2>2 DEF Typed
  <2>4. Mail /\ FinishedTogether' /\ Grows
    <3>1. CASE s = "alice" /\ Received(s)
      <4>1. Mail
        BY <1>0, <1>1, <3>1, ReceivedCarries DEF Carries, Mail
      <4>2. key[s] \in finished["bob"]
        BY <1>2, <2>1, <3>1 DEF Honest
      <4>3. FinishedTogether' /\ Grows
        BY <1>0, <1>1, <2>3, <3>1, <4>2 DEF FinishedTogether, Grows, Side
      <4> QED
        BY <4>1, <4>3
    <3>2. CASE s = "bob" /\ Answers(s, Msg("DATA", key[s], <<>>))
      <4>1. key[s] \in ToSet(picked["alice"])
        BY <1>2, <2>1, <3>2 DEF Honest
      <4>2. FinishedTogether' /\ Grows
        BY <1>0, <1>1, <2>3, <3>2, <4>1 DEF FinishedTogether, Grows, Side
      <4>3. PICK m \in Messages : m = Msg("DATA", key[s], <<>>)
        BY <2>2, EmptyKeyList DEF Messages, Msg, KeyList
      <4>4. KeyList(m.list) /\ m.key = key[s]
        BY <4>3, EmptyKeyList DEF Msg
      <4>5. Channels' /\ Carries("alice", {m}) /\ Carries("bob", {})
        BY <1>0, <1>1, <3>2, <4>3, AnswersCarries DEF Peer
      <4>6. Honest(m, "alice")'
        BY <2>3, <3>2, <4>4 DEF Honest
      <4> QED
        BY <4>2, <4>4, <4>5, <4>6 DEF Carries, Side, Mail
    <3>3. \/ s = "alice" /\ Received(s)
          \/ s = "bob" /\ Answers(s, Msg("DATA", key[s], <<>>))
      BY <1>5 DEF Data
    <3> QED
      BY <3>1, <3>2, <3>3
  <2>5. Posted'
    BY <1>0, <2>4, StaysPosted DEF Mail
  <2>6. peerList' = peerList
    BY <1>5 DEF Data
  <2>7. Typed' /\ Lists'
    BY <1>0, <1>1, <1>3, <2>3, <2>4, <2>6 DEF Typed, Lists, Mail, Channels
  <2> QED
    BY <1>4, <2>4, <2>5, <2>7 DEF IInv
<1>6. CASE ~IsOurs(s, h)
  <2>1. /\ peerList' = (IF s = "alice" THEN ListAfter(h) ELSE peerList)
        /\ Received(s) /\ UNCHANGED finished
    BY <1>6 DEF Data
  <2>2. KeyList(peerList')
    BY <1>0, <1>2, <2>1, ListAfterIsList DEF Lists
  <2>3. Mail
    BY <1>0, <1>1, <2>1, ReceivedCarries DEF Carries, Mail
  <2>4. Posted'
    BY <1>0, <1>1, <2>1, <2>3, StaysPosted DEF Grows, Mail
  <2>5. Typed' /\ Lists' /\ FinishedTogether'
    BY <1>0, <1>1, <1>3, <2>1, <2>2, <2>3
       DEF Typed, Lists, FinishedTogether, Mail, Channels
  <2> QED
    BY <1>4, <2>4, <2>5 DEF IInv
<1>7. IsOurs(s, h) => finished' = [finished EXCEPT ![s] = @ \cup {key[s]}]
  BY DEF Data
<1> QED
  BY <1>5, <1>6, <1>7

(* The action GiveUp keeps the invariant. *)
LEMMA GiveUpStep == ASSUME IInv, NEW s \in Side, GiveUp(s) PROVE IInv'
<1>0. Typed /\ Lists /\ Held /\ Posted /\ FinishedTogether /\ Channels
  BY DEF IInv, Typed, Channels
<1>1. /\ UNCHANGED <<pending, stash, peerList, picked, finished>>
      /\ at' = [at EXCEPT ![s] = "sync"] /\ key' = [key EXCEPT ![s] = NoKey]
  BY DEF GiveUp, Works, Goes
<1>2. /\ at' \in [Side -> {"sync", "read", "list", "ack", "pick", "process", "data"}]
      /\ key' \in [Side -> Keys \cup {NoKey}]
      /\ at'[s] = "sync" /\ \A t \in Side \ {s} : at'[t] = at[t] /\ key'[t] = key[t]
  BY <1>0, <1>1 DEF Typed
<1>3. Held'
  BY <1>0, <1>1, <1>2 DEF Held, Side
<1>4. Mail
  <2>1. CASE UNCHANGED net
    BY <1>0, <2>1 DEF Mail, Channels
  <2>2. CASE net[s] # <<>> /\ Received(s)
    <3>1. Channels' /\ \A t \in Side : Carries(t, {})
      BY <1>0, <2>2, ReceivedCarries
    <3> QED
      BY <3>1 DEF Carries, Mail
  <2> QED
    BY <2>1, <2>2 DEF GiveUp
<1>5. faults' \in [early : 0 .. MaxEarly, restarts : 0 .. MaxRestarts]
  <2>1. faults.early < MaxEarly /\ faults' = [faults EXCEPT !.early = @ + 1]
    BY DEF GiveUp
  <2>2. faults \in [early : 0 .. MaxEarly, restarts : 0 .. MaxRestarts]
    BY <1>0 DEF Typed
  <2>3. faults.early \in 0 .. MaxEarly /\ faults.restarts \in 0 .. MaxRestarts
    BY <2>2
  <2>4. faults' = [early |-> faults.early + 1, restarts |-> faults.restarts]
    BY <2>1, <2>2
  <2>5. faults.early + 1 \in 0 .. MaxEarly
    BY <2>1, <2>3, BoundsAssumption
  <2> QED
    BY <2>3, <2>4, <2>5
<1>6. Posted'
  BY <1>0, <1>1, <1>4, StaysPosted DEF Grows, Mail
<1>7. Typed' /\ Lists' /\ FinishedTogether'
  BY <1>0, <1>1, <1>2, <1>4, <1>5 DEF Typed, Lists, FinishedTogether, Mail, Channels
<1> QED
  BY <1>3, <1>6, <1>7 DEF IInv

(* The action Restart keeps the invariant. *)
LEMMA RestartStep == ASSUME IInv, NEW s \in Side, Restart(s) PROVE IInv'
<1>0. Typed /\ Lists /\ Held /\ Posted /\ FinishedTogether /\ Channels
  BY DEF IInv, Typed, Channels
<1>1. /\ UNCHANGED <<pending, picked, finished>>
      /\ peerList' \in {<<>>, peerList} /\ stash' = [stash EXCEPT ![s] = <<>>]
      /\ at' = [at EXCEPT ![s] = "sync"] /\ key' = [key EXCEPT ![s] = NoKey]
  BY DEF Restart, Works, Goes
<1>2. /\ at' \in [Side -> {"sync", "read", "list", "ack", "pick", "process", "data"}]
      /\ key' \in [Side -> Keys \cup {NoKey}] /\ stash' \in [Side -> Seq(Keys)]
      /\ at'[s] = "sync" /\ stash'[s] = <<>>
      /\ \A t \in Side \ {s} : at'[t] = at[t] /\ key'[t] = key[t] /\ stash'[t] = stash[t]
  BY <1>0, <1>1 DEF Typed
<1>3. Held'
  BY <1>0, <1>1, <1>2 DEF Held, Side
<1>4. Mail
  <2>1. ToSet(<<>>) = {} /\ <<>> \in Seq(Messages)
    BY DEF ToSet
  <2>2. \A t \in Side : net'[t] \in {<<>>, net[t]}
    BY <1>0 DEF Restart, Channels
  <2>3. Channels'
    BY <1>0, <2>1 DEF Restart, Channels
  <2> QED
    BY <2>1, <2>2, <2>3 DEF Mail
<1>5. faults' \in [early : 0 .. MaxEarly, restarts : 0 .. MaxRestarts]
  BY <1>0, BoundsAssumption DEF Restart, Typed
<1>6. Posted'
  BY <1>0, <1>1, <1>4, StaysPosted DEF Grows, Mail
<1>7. Lists'
  <2>1. KeyList(<<>>) /\ ToSet(<<>>) = {}
    BY EmptyKeyList DEF ToSet
  <2>2. \A t \in Side : stash'[t] \in {<<>>, stash[t]}
    BY <1>2
  <2> QED
    BY <1>0, <1>1, <2>1, <2>2 DEF Lists
<1>8. Typed' /\ FinishedTogether'
  BY <1>0, <1>1, <1>2, <1>4, <1>5 DEF Typed, FinishedTogether, Mail, Channels
<1> QED
  BY <1>3, <1>6, <1>7, <1>8 DEF IInv

-----------------------------------------------------------------------------
(* The invariant holds of two modules that have just started. *)
LEMMA InitInvariant == Init => IInv
<1> SUFFICES ASSUME Init PROVE IInv
  OBVIOUS
<1>1. ToSet(<<>>) = {} /\ KeyList(<<>>) /\ <<>> \in Seq(Messages)
  BY EmptyKeyList DEF ToSet
<1>2. Typed
  BY <1>1, BoundsAssumption DEF Init, Typed, NoFaults, NoKey
<1>3. Lists /\ Held /\ Posted
  BY <1>1 DEF Init, Lists, Held, Posted, Side
<1>4. FinishedTogether
  BY <1>1 DEF Init, FinishedTogether, Side
<1> QED
  BY <1>2, <1>3, <1>4 DEF IInv

(* Every step keeps the invariant. *)
LEMMA NextInvariant == IInv /\ [Next]_vars => IInv'
<1> SUFFICES ASSUME IInv, [Next]_vars PROVE IInv'
  OBVIOUS
<1>1. CASE Next
  <2>1. PICK s \in Side : Worker(s) \/ GiveUp(s) \/ Restart(s)
    BY <1>1 DEF Next
  <2> QED
    BY <2>1, StartSyncStep, ReadStep, ProcessStep, DataStep, AliceListStep, AliceAckStep,
       BobPickStep, GiveUpStep, RestartStep DEF Worker
<1>2. CASE UNCHANGED vars
  BY <1>2 DEF vars, IInv, Typed, Lists, Held, Posted, Honest, FinishedTogether
<1> QED
  BY <1>1, <1>2

(* The inductive invariant of key synchronisation.                         *)
THEOREM Invariance == Spec => []IInv
BY InitInvariant, NextInvariant, PTL DEF Spec

(* Stashes, lists and messages keep their type, and a stash holds a key    *)
(* once that is no longer in its pipe.                                     *)
THEOREM TypeCorrect == Spec => []TypeOK
<1>1. IInv => TypeOK
  <2> SUFFICES ASSUME IInv PROVE TypeOK
    OBVIOUS
  <2>1. ASSUME NEW s \in Side, NEW i \in DOMAIN net[s] PROVE Message(net[s][i])
    <3>1. net[s] \in Seq(Messages)
      BY DEF IInv, Typed
    <3>2. net[s][i] \in Messages
      BY <3>1, LenProperties, ElementOfSeq
    <3>3. KeyList(net[s][i].list)
      BY DEF IInv, Posted, ToSet
    <3> QED
      BY <3>2, <3>3 DEF Message, Messages
  <2>2. DOMAIN stash = Side
    BY DEF IInv, Typed
  <2> QED
    BY <2>1, <2>2 DEF IInv, Typed, Lists, TypeOK
<1> QED
  BY <1>1, Invariance, PTL

(* No key is processed twice on a side, for any keys and however many      *)
(* restarts and early ends (stash.cpp:153-287).                            *)
THEOREM NeverPickedTwice == Spec => []PickedOnce
<1>1. IInv => PickedOnce
  BY DEF IInv, Lists, KeyList, PickedOnce
<1> QED
  BY <1>1, Invariance, PTL

(* A key finished by Alice was finished by Bob, and one finished by Bob    *)
(* was picked by Alice, although acknowledgements name no key              *)
(* (stash.cpp:180-211, module.cpp:808-857).                                *)
THEOREM AliceFinishesAfterBob == Spec => []FinishedTogether
<1>1. IInv => FinishedTogether
  BY DEF IInv
<1> QED
  BY <1>1, Invariance, PTL

-----------------------------------------------------------------------------
(* Lockstep.  Without faults the two are always in one of eight phases,    *)
(* which say where each stands, what is on its way and what it carries.    *)

Seeking == {"sync", "read", "list"}
Working == {"process", "data"}
Even == picked["alice"] = picked["bob"]
Between(a, b) == at["alice"] \in a /\ at["bob"] \in b
UnderWay(a, b) == net["alice"] = a /\ net["bob"] = b
ListOfBob(m) == m.type = "LIST" /\ ToSet(m.list) \subseteq ToSet(stash["bob"])
DataFor(k) == Msg("DATA", k, <<>>)

Apart == Even /\ Between(Seeking, {"sync", "read"}) /\ UnderWay(<<>>, <<>>)

Listed ==
    /\ Even /\ Between(Seeking, {"pick"})
    /\ \E m \in Messages : ListOfBob(m) /\ UnderWay(<<m>>, <<>>)

Declined ==
    Even /\ Between(Seeking, {"pick"}) /\ UnderWay(<<>>, <<Msg("NOPICK", NoKey, <<>>)>>)

Asked ==
    /\ Even /\ Between({"ack"}, {"pick"}) /\ key["alice"] \in ToSet(stash["bob"])
    /\ UnderWay(<<>>, <<Msg("PICK", key["alice"], <<>>)>>)

(* Bob has picked the key Alice is about to pick. *)
Acked ==
    /\ picked["bob"] = Append(picked["alice"], key["alice"])
    /\ Between({"ack"}, Working) /\ key["bob"] = key["alice"]
    /\ UnderWay(<<Msg("ACK", NoKey, <<>>)>>, <<>>)

Shared ==
    /\ Even /\ Between(Working, Working) /\ key["bob"] = key["alice"]
    /\ UnderWay(<<>>, IF at["alice"] = "data" THEN <<DataFor(key["alice"])>> ELSE <<>>)

Answered ==
    Even /\ Between({"data"}, {"sync", "read"}) /\ UnderWay(<<DataFor(key["alice"])>>, <<>>)

(* Bob has sent his next list before Alice has read his data. *)
Ahead ==
    /\ Even /\ Between({"data"}, {"pick"})
    /\ \E m \in Messages : ListOfBob(m) /\ UnderWay(<<DataFor(key["alice"]), m>>, <<>>)

Phase == Apart \/ Listed \/ Declined \/ Asked \/ Acked \/ Shared \/ Answered \/ Ahead

(* Queues of one or two messages. *)
LEMMA Queues ==
    ASSUME NEW m, NEW n
    PROVE  /\ Append(<<>>, m) = <<m>> /\ Append(<<m>>, n) = <<m, n>>
           /\ Head(<<m>>) = m /\ Tail(<<m>>) = <<>> /\ <<m>> # <<>>
           /\ Head(<<m, n>>) = m /\ Tail(<<m, n>>) = <<n>> /\ <<m, n>> # <<>>
<1> DEFINE S == {m, n}
<1>1. <<>> \in Seq(S) /\ <<m>> \in Seq(S) /\ <<n>> \in Seq(S) /\ <<m, n>> \in Seq(S)
  OBVIOUS
<1>2. Len(<<>>) = 0 /\ Len(<<m>>) = 1 /\ Len(<<n>>) = 1 /\ Len(<<m, n>>) = 2
  OBVIOUS
<1>3. Append(<<>>, m) = <<m>>
  OBVIOUS
<1>4. Append(<<m>>, n) = <<m, n>>
  <2> DEFINE a == Append(<<m>>, n)
             b == <<m, n>>
  <2>1. a \in Seq(S) /\ b \in Seq(S) /\ Len(a) = 2 /\ Len(b) = 2
    OBVIOUS
  <2>2. a[1] = b[1] /\ a[2] = b[2]
    OBVIOUS
  <2> HIDE DEF a, b
  <2>3. \A i \in 1 .. Len(a) : a[i] = b[i]
    BY <2>1, <2>2
  <2> QED
    BY <2>1, <2>3, SeqEqual DEF a, b
<1>5. Head(<<m>>) = m /\ Head(<<m, n>>) = m
  OBVIOUS
<1>6. Tail(<<m>>) = <<>>
  OBVIOUS
<1>7. Tail(<<m, n>>) = <<n>>
  OBVIOUS
<1>8. <<m>> # <<>> /\ <<m, n>> # <<>>
  OBVIOUS
<1> QED
  BY <1>3, <1>4, <1>5, <1>6, <1>7, <1>8

(* Keys and messages are told apart by their fields. *)
LEMMA Fields ==
    ASSUME NEW type, NEW k, NEW list
    PROVE  /\ Msg(type, k, list).type = type /\ Msg(type, k, list).key = k
           /\ Msg(type, k, list).list = list
BY DEF Msg

(* The action StartSync keeps the two in step. *)
LEMMA StartSyncPhase == ASSUME IInv, Phase, NEW s \in Side, StartSync(s) PROVE Phase'
<1>0. Typed /\ Channels
  BY DEF IInv, Typed, Channels
<1>1. at[s] = "sync" /\ UNCHANGED <<key, picked>>
  BY DEF StartSync
<1>2. CASE s = "alice"
  <2>1. at' = [at EXCEPT !["alice"] = "list"] /\ UNCHANGED net
    BY <1>2 DEF StartSync, Goes
  <2>2. at'["alice"] = "list" /\ at'["bob"] = at["bob"]
    BY <1>0, <2>1 DEF Typed, Side
  <2>3. stash'["bob"] = stash["bob"]
    BY <1>0, <1>2 DEF StartSync, Purge, Typed, Side
  <2>4. Apart \/ Listed \/ Declined
    BY <1>1, <1>2 DEF Phase, Asked, Acked, Shared, Answered, Ahead, Between, Working
  <2>5. CASE Apart
    BY <1>1, <2>1, <2>2, <2>5 DEF Apart, Even, Between, UnderWay, Seeking, Phase
  <2>6. CASE Listed
    BY <1>1, <2>1, <2>2, <2>3, <2>6
       DEF Listed, Even, Between, UnderWay, Seeking, ListOfBob, Phase
  <2>7. CASE Declined
    BY <1>1, <2>1, <2>2, <2>7 DEF Declined, Even, Between, UnderWay, Seeking, Phase
  <2> QED
    BY <2>4, <2>5, <2>6, <2>7
<1>3. CASE s = "bob"
  <2>1. /\ at' = [at EXCEPT !["bob"] = "pick"]
        /\ Send("bob", Msg("LIST", NoKey, stash'["bob"]))
    BY <1>3 DEF StartSync, Goes
  <2>2. at'["bob"] = "pick" /\ at'["alice"] = at["alice"]
    BY <1>0, <2>1 DEF Typed, Side
  <2>3. PICK m \in Messages : m = Msg("LIST", NoKey, stash'["bob"])
    <3>1. stash'["bob"] \in Seq(Keys)
      BY StartSyncStep DEF IInv, Typed, Side
    <3> QED
      BY <3>1 DEF Msg, Messages, Sync
  <2>4. ListOfBob(m)'
    BY <2>3, Fields DEF ListOfBob
  <2>5. net'["alice"] = Append(net["alice"], m) /\ net'["bob"] = net["bob"]
    BY <1>0, <2>1, <2>3 DEF Send, Channels, Peer, Side
  <2>6. Apart \/ Answered
    BY <1>1, <1>3
       DEF Phase, Listed, Declined, Asked, Acked, Shared, Ahead, Between, Working
  <2>7. CASE Apart
    <3>1. UnderWay(<<m>>, <<>>)'
      BY <2>5, <2>7, Queues DEF Apart, UnderWay
    <3> QED
      BY <1>1, <2>2, <2>3, <2>4, <2>7, <3>1 DEF Apart, Listed, Even, Between, Phase
  <2>8. CASE Answered
    <3>1. UnderWay(<<DataFor(key["alice"]), m>>, <<>>)'
      BY <1>1, <2>5, <2>8, Queues DEF Answered, UnderWay
    <3> QED
      BY <1>1, <2>2, <2>3, <2>4, <2>8, <3>1 DEF Answered, Ahead, Even, Between, Phase
  <2> QED
    BY <2>6, <2>7, <2>8
<1> QED
  BY <1>2, <1>3 DEF Side

(* The action Read keeps the two in step. *)
LEMMA ReadPhase == ASSUME IInv, Phase, NEW s \in Side, Read(s) PROVE Phase'
<1>0. Typed
  BY DEF IInv
<1>1. at[s] = "read" /\ at' = [at EXCEPT ![s] = "sync"] /\ UNCHANGED <<key, net, picked>>
  BY DEF Read, Goes
<1>2. at'[s] = "sync" /\ \A t \in Side \ {s} : at'[t] = at[t]
  BY <1>0, <1>1 DEF Typed
<1>3. s = "alice" => stash'["bob"] = stash["bob"]
  BY <1>0 DEF Read, Typed, Side
<1>4. CASE s = "alice"
  <2>1. at'["alice"] = "sync" /\ at'["bob"] = at["bob"]
    BY <1>2, <1>4 DEF Side
  <2>2. Apart \/ Listed \/ Declined
    BY <1>1, <1>4 DEF Phase, Asked, Acked, Shared, Answered, Ahead, Between, Working
  <2>3. CASE Apart
    BY <1>1, <2>1, <2>3 DEF Apart, Even, Between, UnderWay, Seeking, Phase
  <2>4. CASE Listed
    BY <1>1, <1>3, <1>4, <2>1, <2>4
       DEF Listed, Even, Between, UnderWay, Seeking, ListOfBob, Phase
  <2>5. CASE Declined
    BY <1>1, <2>1, <2>5 DEF Declined, Even, Between, UnderWay, Seeking, Phase
  <2> QED
    BY <2>2, <2>3, <2>4, <2>5
<1>5. CASE s = "bob"
  <2>1. at'["bob"] = "sync" /\ at'["alice"] = at["alice"]
    BY <1>2, <1>5 DEF Side
  <2>2. Apart \/ Answered
    BY <1>1, <1>5
       DEF Phase, Listed, Declined, Asked, Acked, Shared, Ahead, Between, Working
  <2>3. CASE Apart
    BY <1>1, <2>1, <2>3 DEF Apart, Even, Between, UnderWay, Phase
  <2>4. CASE Answered
    BY <1>1, <2>1, <2>4 DEF Answered, Even, Between, UnderWay, Phase
  <2> QED
    BY <2>2, <2>3, <2>4
<1> QED
  BY <1>4, <1>5 DEF Side

(* The action Process keeps the two in step. *)
LEMMA ProcessPhase == ASSUME IInv, Phase, NEW s \in Side, Process(s) PROVE Phase'
<1>0. Typed /\ Channels
  BY DEF IInv, Typed, Channels
<1>1. /\ at[s] = "process" /\ at' = [at EXCEPT ![s] = "data"]
      /\ UNCHANGED <<key, picked, stash>>
  BY DEF Process, Goes
<1>2. at'[s] = "data" /\ \A t \in Side \ {s} : at'[t] = at[t]
  BY <1>0, <1>1 DEF Typed
<1>3. CASE s = "alice"
  <2>1. at'["alice"] = "data" /\ at'["bob"] = at["bob"]
    BY <1>2, <1>3 DEF Side
  <2>2. Shared
    BY <1>1, <1>3
       DEF Phase, Apart, Listed, Declined, Asked, Acked, Answered, Ahead, Between, Seeking
  <2>3. UnderWay(<<>>, <<>>)
    BY <1>1, <1>3, <2>2 DEF Shared
  <2>4. Send("alice", DataFor(key["alice"]))
    BY <1>3 DEF Process, DataFor
  <2>5. net'["bob"] = Append(net["bob"], DataFor(key["alice"])) /\ net'["alice"] = net["alice"]
    BY <1>0, <2>4 DEF Send, Channels, Peer, Side
  <2>6. UnderWay(<<>>, <<DataFor(key["alice"])>>)'
    BY <1>1, <2>3, <2>5, Queues DEF UnderWay
  <2> QED
    BY <1>1, <2>1, <2>2, <2>6 DEF Shared, Even, Between, Working, Phase
<1>4. CASE s = "bob"
  <2>1. at'["bob"] = "data" /\ at'["alice"] = at["alice"] /\ UNCHANGED net
    BY <1>2, <1>4 DEF Side, Process
  <2>2. Acked \/ Shared
    BY <1>1, <1>4
       DEF Phase, Apart, Listed, Declined, Asked, Answered, Ahead, Between
  <2>3. CASE Acked
    BY <1>1, <2>1, <2>3 DEF Acked, Between, UnderWay, Working, Phase
  <2>4. CASE Shared
    BY <1>1, <2>1, <2>4 DEF Shared, Even, Between, UnderWay, Working, Phase
  <2> QED
    BY <2>2, <2>3, <2>4
<1> QED
  BY <1>3, <1>4 DEF Side

(* The action AliceList keeps the two in step: what she asks for is in     *)
(* Bob's stash.                                                            *)
LEMMA AliceListPhase == ASSUME IInv, Phase, AliceList PROVE Phase'
<1>0. Typed /\ Lists /\ Channels
  BY DEF IInv, Typed, Channels
<1>1. at["alice"] = "list" /\ net["alice"] # <<>> /\ UNCHANGED <<stash, picked>>
  BY DEF AliceList
<1>2. Listed
  BY <1>1
     DEF Phase, Apart, Declined, Asked, Acked, Shared, Answered, Ahead, Between, UnderWay, Working
<1>3. PICK m \in Messages : ListOfBob(m) /\ UnderWay(<<m>>, <<>>)
  BY <1>2 DEF Listed
<1>k. PICK k : k = Choice(stash["alice"], ListAfter(m))
  OBVIOUS
<1>a. PICK answer :
        answer = IF k = NoKey THEN Msg("NOPICK", NoKey, <<>>) ELSE Msg("PICK", k, <<>>)
  OBVIOUS
<1>4. Head(net["alice"]) = m
  BY <1>3, Queues DEF UnderWay
<1>5. /\ Answers("alice", answer)
      /\ Works("alice", IF k = NoKey THEN "read" ELSE "ack", k)
  BY <1>k, <1>a, <1>4 DEF AliceList
<1>6. k # NoKey => k \in ToSet(stash["bob"]) /\ k \in Keys
  <2>1. ListAfter(m) = m.list /\ KeyList(stash["alice"])
    BY <1>0, <1>3 DEF ListAfter, ListOfBob, Lists, Side
  <2>2. k # NoKey => k \in Keys /\ k \in ToSet(m.list)
    BY <1>k, <2>1, ChoiceIsHeld
  <2> QED
    BY <1>3, <2>2 DEF ListOfBob
<1>7. /\ net'["alice"] = Tail(net["alice"])
      /\ net'["bob"] = Append(net["bob"], answer)
  BY <1>0, <1>5 DEF Answers, Channels, Peer, Side
<1>8. UnderWay(<<>>, <<answer>>)'
  BY <1>3, <1>7, Queues DEF UnderWay
<1>9. /\ at'["alice"] = (IF k = NoKey THEN "read" ELSE "ack") /\ at'["bob"] = "pick"
      /\ key'["alice"] = k
  BY <1>0, <1>2, <1>5 DEF Works, Goes, Typed, Listed, Between, Side
<1>10. Even'
  BY <1>1, <1>2 DEF Listed, Even
<1>11. CASE k = NoKey
  BY <1>a, <1>8, <1>9, <1>10, <1>11 DEF Declined, Between, Seeking, Phase
<1>12. CASE k # NoKey
  BY <1>1, <1>a, <1>6, <1>8, <1>9, <1>10, <1>12 DEF Asked, Between, Phase
<1> QED
  BY <1>11, <1>12

(* The action AliceAck keeps the two in step: she takes the key Bob has. *)
LEMMA AliceAckPhase == ASSUME IInv, Phase, AliceAck PROVE Phase'
<1>0. Typed /\ Channels
  BY DEF IInv, Typed, Channels
<1>1. at["alice"] = "ack" /\ net["alice"] # <<>> /\ Received("alice")
  BY DEF AliceAck
<1>2. Acked
  BY <1>1
     DEF Phase, Apart, Listed, Declined, Asked, Shared, Answered, Ahead, Between, UnderWay,
         Seeking, Working
<1>3. Head(net["alice"]).type = "ACK" /\ net'["alice"] = Tail(net["alice"])
  BY <1>0, <1>1, <1>2, Queues, Fields DEF Acked, UnderWay, Received, Channels, Side
<1>4. Take("alice", key["alice"]) /\ Works("alice", "process", key["alice"])
  BY <1>3 DEF AliceAck
<1>5. net' = [net EXCEPT !["alice"] = <<>>]
  BY <1>1, <1>2, Queues DEF Received, Acked, UnderWay
<1>6. UnderWay(<<>>, <<>>)'
  BY <1>0, <1>2, <1>5 DEF UnderWay, Acked, Channels, Side
<1>7. /\ at'["alice"] = "process" /\ at'["bob"] = at["bob"]
      /\ key'["alice"] = key["alice"] /\ key'["bob"] = key["bob"]
  BY <1>0, <1>4 DEF Works, Goes, Typed, Side
<1>8. Even'
  BY <1>0, <1>2, <1>4 DEF Take, Acked, Even, Typed, Side
<1> QED
  BY <1>2, <1>6, <1>7, <1>8 DEF Acked, Shared, Between, Working, Phase

(* The action BobPick keeps the two in step: he has what Alice asks for. *)
LEMMA BobPickPhase == ASSUME IInv, Phase, BobPick PROVE Phase'
<1>0. Typed /\ Channels
  BY DEF IInv, Typed, Channels
<1>1. at["bob"] = "pick" /\ net["bob"] # <<>>
  BY DEF BobPick
<1>2. Declined \/ Asked
  BY <1>1
     DEF Phase, Apart, Listed, Acked, Shared, Answered, Ahead, Between, UnderWay, Working
<1>3. CASE Declined
  <2>1. Head(net["bob"]).type = "NOPICK"
    BY <1>3, Queues, Fields DEF Declined, UnderWay
  <2>2. Received("bob") /\ Goes("bob", "read") /\ UNCHANGED <<stash, key, picked>>
    BY <2>1 DEF BobPick
  <2>3. net' = [net EXCEPT !["bob"] = <<>>]
    BY <1>3, <2>2, Queues DEF Received, Declined, UnderWay
  <2>4. UnderWay(<<>>, <<>>)'
    BY <1>0, <1>3, <2>3 DEF UnderWay, Declined, Channels, Side
  <2>5. at'["bob"] = "read" /\ at'["alice"] = at["alice"]
    BY <1>0, <2>2 DEF Goes, Typed, Side
  <2> QED
    BY <1>3, <2>2, <2>4, <2>5 DEF Declined, Apart, Even, Between, Phase
<1>4. CASE Asked
  <2>1. /\ Head(net["bob"]).type = "PICK" /\ Head(net["bob"]).key = key["alice"]
        /\ key["alice"] \in ToSet(stash["bob"])
    BY <1>4, Queues, Fields DEF Asked, UnderWay
  <2>2. /\ Answers("bob", Msg("ACK", NoKey, <<>>))
        /\ Take("bob", key["alice"]) /\ Works("bob", "process", key["alice"])
    BY <2>1 DEF BobPick
  <2>3. /\ net'["bob"] = Tail(net["bob"])
        /\ net'["alice"] = Append(net["alice"], Msg("ACK", NoKey, <<>>))
    BY <1>0, <2>2 DEF Answers, Channels, Peer, Side
  <2>4. UnderWay(<<Msg("ACK", NoKey, <<>>)>>, <<>>)'
    BY <1>4, <2>3, Queues DEF UnderWay, Asked
  <2>5. /\ at'["bob"] = "process" /\ at'["alice"] = at["alice"]
        /\ key'["bob"] = key["alice"] /\ key'["alice"] = key["alice"]
    BY <1>0, <2>2 DEF Works, Goes, Typed, Side
  <2>6. picked'["bob"] = Append(picked'["alice"], key'["alice"])
    BY <1>0, <1>4, <2>2, <2>5 DEF Take, Asked, Even, Typed, Side
  <2> QED
    BY <1>4, <2>4, <2>5, <2>6 DEF Asked, Acked, Between, Working, Phase
<1> QED
  BY <1>2, <1>3, <1>4

(* The action Data keeps the two in step: the message is about the key of  *)
(* both.                                                                   *)
LEMMA DataPhase == ASSUME IInv, Phase, NEW s \in Side, Data(s) PROVE Phase'
<1>0. Typed /\ Channels
  BY DEF IInv, Typed, Channels
<1>1. /\ at[s] = "data" /\ net[s] # <<>> /\ Works(s, "sync", NoKey)
      /\ UNCHANGED <<stash, picked>>
  BY DEF Data
<1>2. /\ at'[s] = "sync" /\ \A t \in Side \ {s} : at'[t] = at[t] /\ key'[t] = key[t]
  BY <1>0, <1>1 DEF Works, Goes, Typed
<1>3. CASE s = "alice"
  <2>1. at'["alice"] = "sync" /\ at'["bob"] = at["bob"]
    BY <1>2, <1>3 DEF Side
  <2>2. Answered \/ Ahead
    BY <1>1, <1>3
       DEF Phase, Apart, Listed, Declined, Asked, Acked, Shared, Between, UnderWay, Seeking
  <2>3. Head(net["alice"]) = DataFor(key["alice"])
    BY <2>2, Queues DEF Answered, Ahead, UnderWay
  <2>4. IsOurs("alice", Head(net["alice"]))
    BY <2>3, Fields DEF IsOurs, DataFor
  <2>5. Received("alice")
    BY <1>3, <2>4 DEF Data
  <2>6. net'["alice"] = Tail(net["alice"]) /\ net'["bob"] = net["bob"]
    BY <1>0, <2>5 DEF Received, Channels, Side
  <2>7. CASE Answered
    <3>1. UnderWay(<<>>, <<>>)'
      BY <2>6, <2>7, Queues DEF Answered, UnderWay
    <3> QED
      BY <1>1, <2>1, <2>7, <3>1 DEF Answered, Apart, Even, Between, Seeking, Phase
  <2>8. CASE Ahead
    <3>1. PICK m \in Messages : ListOfBob(m) /\ UnderWay(<<DataFor(key["alice"]), m>>, <<>>)
      BY <2>8 DEF Ahead
    <3>2. UnderWay(<<m>>, <<>>)'
      BY <2>6, <3>1, Queues DEF UnderWay
    <3>3. ListOfBob(m)'
      BY <1>1, <3>1 DEF ListOfBob
    <3> QED
      BY <1>1, <2>1, <2>8, <3>2, <3>3 DEF Ahead, Listed, Even, Between, Seeking, Phase
  <2> QED
    BY <2>2, <2>7, <2>8
<1>4. CASE s = "bob"
  <2>1. at'["bob"] = "sync" /\ at'["alice"] = at["alice"] /\ key'["alice"] = key["alice"]
    BY <1>2, <1>4 DEF Side
  <2>2. Shared
    BY <1>1, <1>4
       DEF Phase, Apart, Listed, Declined, Asked, Acked, Answered, Ahead, Between, UnderWay
  <2>3. at["alice"] = "data" /\ UnderWay(<<>>, <<DataFor(key["alice"])>>)
    BY <1>1, <1>4, <2>2 DEF Shared, UnderWay, Between, Working
  <2>4. Head(net["bob"]) = DataFor(key["bob"]) /\ key["bob"] = key["alice"]
    BY <2>2, <2>3, Queues DEF Shared, UnderWay
  <2>5. IsOurs("bob", Head(net["bob"]))
    BY <2>4, Fields DEF IsOurs, DataFor
  <2>6. Answers("bob", DataFor(key["alice"]))
    BY <1>4, <2>4, <2>5 DEF Data, DataFor
  <2>7. /\ net'["bob"] = Tail(net["bob"])
        /\ net'["alice"] = Append(net["alice"], DataFor(key["alice"]))
    BY <1>0, <2>6 DEF Answers, Channels, Peer, Side
  <2>8. UnderWay(<<DataFor(key["alice"])>>, <<>>)'
    BY <2>1, <2>3, <2>7, Queues DEF UnderWay
  <2> QED
    BY <1>1, <2>1, <2>2, <2>3, <2>8 DEF Shared, Answered, Even, Between, Phase
<1> QED
  BY <1>3, <1>4 DEF Side

-----------------------------------------------------------------------------
LockInv == IInv /\ (faults = NoFaults => Phase)

(* A fault is on record from then on. *)
LEMMA FaultsStay == ASSUME Typed, [Next]_vars, faults' = NoFaults PROVE faults = NoFaults
<1>1. faults.early \in Nat /\ faults.restarts \in Nat
  BY BoundsAssumption DEF Typed
<1>2. ASSUME NEW s \in Side, GiveUp(s) \/ Restart(s) PROVE FALSE
  <2>1. \/ faults' = [faults EXCEPT !.early = @ + 1]
        \/ faults' = [faults EXCEPT !.restarts = @ + 1]
    BY <1>2 DEF GiveUp, Restart
  <2>2. faults'.early = 0 /\ faults'.restarts = 0
    BY DEF NoFaults
  <2>3. faults \in [early : 0 .. MaxEarly, restarts : 0 .. MaxRestarts]
    BY DEF Typed
  <2> QED
    BY <1>1, <2>1, <2>2, <2>3
<1>3. ASSUME NEW s \in Side, Worker(s) PROVE UNCHANGED faults
  BY <1>3 DEF Worker, StartSync, Read, Process, Data, AliceList, AliceAck, BobPick
<1> QED
  BY <1>2, <1>3 DEF Next, vars

(* Without faults the phases follow on each other. *)
LEMMA NextPhase == LockInv /\ [Next]_vars => LockInv'
<1> SUFFICES ASSUME LockInv, [Next]_vars, faults' = NoFaults PROVE Phase'
  BY NextInvariant DEF LockInv
<1>1. IInv /\ Phase
  BY FaultsStay DEF LockInv, IInv
<1>2. CASE Next
  <2>1. PICK s \in Side : Worker(s) \/ GiveUp(s) \/ Restart(s)
    BY <1>2 DEF Next
  <2>2. CASE Worker(s)
    BY <1>1, <2>2, StartSyncPhase, ReadPhase, ProcessPhase, DataPhase, AliceListPhase,
       AliceAckPhase, BobPickPhase DEF Worker
  <2>3. CASE GiveUp(s) \/ Restart(s)
    <3>1. \/ faults' = [faults EXCEPT !.early = @ + 1]
          \/ faults' = [faults EXCEPT !.restarts = @ + 1]
      BY <2>3 DEF GiveUp, Restart
    <3>2. faults = NoFaults
      BY <1>1, FaultsStay DEF IInv
    <3> QED
      BY <3>1, <3>2 DEF NoFaults
  <2> QED
    BY <2>1, <2>2, <2>3
<1>3. CASE UNCHANGED vars
  BY <1>1, <1>3
     DEF vars, Phase, Apart, Listed, Declined, Asked, Acked, Shared, Answered, Ahead, Even,
         Between, UnderWay, ListOfBob
<1> QED
  BY <1>2, <1>3

(* Without faults the two pick the same keys in the same order, Bob at     *)
(* most one ahead, and process the same key, for any keys, in whatever     *)
(* order and with whatever gaps they arrive and expire (stash.cpp:153-287, *)
(* module.cpp:808-857).                                                    *)
THEOREM PickedInLockstep == Spec => []InLockstep
<1>1. Init => LockInv
  <2>1. Init => Phase
    BY DEF Init, Phase, Apart, Even, Between, UnderWay, Seeking, Side
  <2> QED
    BY <2>1, InitInvariant DEF LockInv
<1>2. LockInv => InLockstep
  <2> SUFFICES ASSUME LockInv, faults = NoFaults
               PROVE  /\ IsPrefix(picked["alice"], picked["bob"])
                      /\ Len(picked["bob"]) <= Len(picked["alice"]) + 1
                      /\ {at["alice"], at["bob"]} \subseteq {"process", "data"}
                           => key["alice"] = key["bob"]
    BY DEF InLockstep
  <2> DEFINE a == picked["alice"]
             b == picked["bob"]
  <2>1. a \in Seq(Keys) /\ b \in Seq(Keys) /\ key["alice"] \in Keys \cup {NoKey}
    BY DEF LockInv, IInv, Typed, Side
  <2>2. Even \/ Acked
    BY DEF LockInv, Phase, Apart, Listed, Declined, Asked, Shared, Answered, Ahead
  <2>3. b = a \/ b = Append(a, key["alice"])
    BY <2>2 DEF Even, Acked
  <2>4. Len(a) \in Nat /\ Len(b) \in {Len(a), Len(a) + 1}
    BY <2>1, <2>3, LenProperties
  <2>5. IsPrefix(a, b)
    <3>1. SubSeq(b, 1, Len(a)) = SubSeq(a, 1, Len(a))
      <4>1. \A i \in 1 .. Len(a) : b[i] = a[i] /\ a[i] \in Keys
        BY <2>1, <2>3, <2>4, ElementOfSeq
      <4> QED
        BY <2>1, <2>4, <4>1, SubSeqProperties, SeqEqual
    <3> QED
      BY <2>4, <3>1 DEF IsPrefix
  <2>6. {at["alice"], at["bob"]} \subseteq {"process", "data"} => key["alice"] = key["bob"]
    BY DEF LockInv, Phase, Apart, Listed, Declined, Asked, Acked, Shared, Answered, Ahead,
           Between, Seeking
  <2> QED
    BY <2>4, <2>5, <2>6
<1> QED
  BY <1>1, <1>2, NextPhase, PTL DEF Spec
=============================================================================
