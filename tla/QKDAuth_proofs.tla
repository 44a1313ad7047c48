--------------------------- MODULE QKDAuth_proofs ---------------------------
(***************************************************************************)
(* The authentication modules of the two sides keep mirrored databases     *)
(* (StoresMirrored), and neither waits for tags that are not sent          *)
(* (TagsWillCome), for every size of database, key, tag and threshold, and *)
(* any number of keys, stores and settings; and no byte of a key is used   *)
(* twice (OneUse).                                                         *)
(*                                                                         *)
(* The argument: as long as the sides are given the same keys, they are at *)
(* one of four points of their work on a key (Rest, Working, Denied,       *)
(* Finished).  At each the databases of the one are those of the other,    *)
(* once the other has caught up with the key and with the store that was   *)
(* made on one side only (With, After); what is done with them is never    *)
(* looked into: it is the same on both sides.                              *)
(***************************************************************************)
EXTENDS QKDAuth, FiniteSetTheorems, WellFoundedInduction, TLAPS

Shape ==
    /\ at \in [Side -> {"idle", "process", "wait"}]
    /\ done \in [Side -> Nat]
    /\ DOMAIN db = Side /\ \A s \in Side : DOMAIN db[s] = Dir
    /\ DOMAIN size = Side /\ DOMAIN net = Side /\ DOMAIN threshold = Side
    /\ accepted \in [Side -> BOOLEAN]
    /\ current.alike \in BOOLEAN
    /\ \/ half = NoStore
       \/ half.by \in Side /\ half.dir \in Dir /\ half.done \in Nat /\ half.done <= done[half.by]

(* The databases a of one side are the databases b of the other. *)
Mirror(a, b) == \A dir \in Dir : a[dir] = b[Opposite(dir)]

(* The databases of side s when the store pending for it has been made.    *)
Gift(d) == StoreBytes(d, 0, 2 * FinalKeySize * stores, 2 * FinalKeySize)
With(dbs, s) ==
    IF half.by = Peer(s) THEN [dbs EXCEPT ![Opposite(half.dir)] = Gift(@)] ELSE dbs
SameBooks == \A s \in Side : Mirror(With(db[s], s), With(db[Peer(s)], Peer(s)))

(* The pending store will come too late: after another key than it did on  *)
(* the other side.                                                         *)
Doomed ==
    /\ half # NoStore
    /\ LET p == Peer(half.by)
       IN  half.done < done[p] \/ (half.done = done[p] /\ at[p] = "wait")

Has(dbs) == \A dir \in Dir : Run(dbs[dir]) # <<>>
Message(s) ==
    [id |-> current.id, in |-> Tag(s, s, "in"), out |-> Tag(s, s, "out"),
     threshold |-> threshold[s]]

(* What side s has when it has taken the message that lies before it. *)
Spent(s, t) == Refill(s, [dir \in Dir |-> UsedUp(s, dir)], t, size[s])
After(s) ==
    IF current.alike THEN Spent(s, Adopted(s, Head(net[s]))) ELSE [dbs |-> db[s], left |-> 0]

Rest ==
    \A s \in Side :
        /\ at[s] = "idle" /\ done[s] = done[Peer(s)] /\ SameBooks
        /\ accepted[s] = accepted[Peer(s)] /\ size[s] = size[Peer(s)]

Working ==
    /\ SameBooks
    /\ \A s \in Side :
        /\ at[s] \in {"process", "wait"} /\ done[s] = done[Peer(s)]
        /\ size[s] = size[Peer(s)] /\ ~accepted[s]
        /\ at[s] = "wait" => Has(db[s])
        /\ net[Peer(s)] = IF at[s] = "wait" THEN <<Message(s)>> ELSE <<>>

(* Side s had no final keys, its peer has yet to see that it has none.     *)
Denied(s) ==
    LET o == Peer(s)
    IN  /\ at[s] = "idle" /\ at[o] = "process" /\ done[s] = done[o] + 1
        /\ SameBooks
        /\ ~Has(IF half.done = done[o] THEN With(db[o], o) ELSE db[o])
        /\ size[s] = 0 /\ ~accepted[s] /\ ~accepted[o]

(* Side s has dealt with the key, the message for its peer is on its way.  *)
Finished(s) ==
    LET o == Peer(s)
    IN  /\ at[s] = "idle" /\ at[o] = "wait" /\ done[s] = done[o] + 1
        /\ net[o] # <<>> /\ (Accepts(o, Head(net[o])) <=> current.alike)
        /\ accepted[s] = current.alike /\ ~accepted[o]
        /\ half = NoStore \/ (half.by = s /\ half.done = done[s])
        /\ Mirror(db[s], With(After(o).dbs, o)) /\ size[s] = After(o).left

InStep == Rest \/ Working \/ \E s \in Side : Denied(s) \/ Finished(s)

IInv == Shape /\ (skewed \/ Doomed \/ InStep)

-----------------------------------------------------------------------------
(* There are two sides and two directions. *)
LEMMA Sides ==
    /\ \A s \in Side : /\ Peer(s) \in Side /\ Peer(s) # s /\ Peer(Peer(s)) = s
                       /\ s # "none"
                       /\ \A t \in Side : t = s \/ t = Peer(s)
    /\ \A dir \in Dir : /\ Opposite(dir) \in Dir /\ Opposite(dir) # dir
                        /\ Opposite(Opposite(dir)) = dir
BY DEF Side, Dir, Peer, Opposite

(* Mirrored both ways. *)
LEMMA MirrorSymmetric == ASSUME NEW a, NEW b, Mirror(a, b) PROVE Mirror(b, a)
BY Sides DEF Mirror

LEMMA BooksOfOne ==
    ASSUME NEW s \in Side, Mirror(With(db[s], s), With(db[Peer(s)], Peer(s)))
    PROVE  SameBooks
BY Sides, MirrorSymmetric DEF SameBooks

(* Without a pending store the databases themselves are mirrored. *)
LEMMA BooksPlain ==
    ASSUME half = NoStore
    PROVE  /\ \A s \in Side : \A dbs : With(dbs, s) = dbs
           /\ SameBooks <=> \A s \in Side : Mirror(db[s], db[Peer(s)])
BY Sides DEF With, NoStore, SameBooks

(* Mirrored databases have final keys both or neither. *)
LEMMA MirrorHas == ASSUME NEW a, NEW b, Mirror(a, b), Has(a) PROVE Has(b)
BY Sides DEF Mirror, Has

(* refill_local_keystores() does the same to mirrored databases: the sides *)
(* begin with opposite directions.                                         *)
LEMMA RefillMirrors ==
    ASSUME NEW s \in Side, NEW a, NEW b, Mirror(a, b), NEW t, NEW n
    PROVE  /\ Mirror(Refill(s, a, t, n).dbs, Refill(Peer(s), b, t, n).dbs)
           /\ Refill(s, a, t, n).left = Refill(Peer(s), b, t, n).left
<1> DEFINE f == FirstFed(s)
           g == FirstFed(Peer(s))
           one == Nibble(a[f], t, current.id, n)
           two == Nibble(a[Opposite(f)], t, current.id, one.left)
<1>1. f \in Dir /\ g = Opposite(f)
  BY DEF FirstFed, Side, Dir, Peer, Opposite
<1>2. b[g] = a[f] /\ b[Opposite(g)] = a[Opposite(f)]
  BY <1>1, Sides DEF Mirror
<1>3. CASE ~current.amplified
  BY <1>3 DEF Refill
<1>4. CASE current.amplified
  <2>1. Refill(s, a, t, n) = [dbs |-> [dir \in Dir |-> IF dir = f THEN one.db ELSE two.db],
                              left |-> two.left]
    BY <1>4 DEF Refill
  <2>2. Refill(Peer(s), b, t, n) =
          [dbs |-> [dir \in Dir |-> IF dir = g THEN one.db ELSE two.db], left |-> two.left]
    BY <1>2, <1>4 DEF Refill
  <2> HIDE DEF f, g, one, two
  <2>3. \A dir \in Dir : Opposite(dir) \in Dir /\ (Opposite(dir) = g <=> dir = f)
    BY <1>1, Sides
  <2> QED
    BY <2>1, <2>2, <2>3 DEF Mirror
<1> QED
  BY <1>3, <1>4

(* So does the work on a key as a whole: the same runs are used up. *)
LEMMA SpentMirrors ==
    ASSUME NEW s \in Side, Mirror(db[s], db[Peer(s)]), size[s] = size[Peer(s)], NEW t
    PROVE  /\ Mirror(Spent(s, t).dbs, Spent(Peer(s), t).dbs)
           /\ Spent(s, t).left = Spent(Peer(s), t).left
<1> DEFINE a == [dir \in Dir |-> UsedUp(s, dir)]
           b == [dir \in Dir |-> UsedUp(Peer(s), dir)]
<1>1. Mirror(a, b)
  BY Sides DEF Mirror, UsedUp
<1> HIDE DEF a, b
<1>2. Spent(s, t) = Refill(s, a, t, size[s])
  BY DEF Spent, a
<1>3. Spent(Peer(s), t) = Refill(Peer(s), b, t, size[s])
  BY DEF Spent, b
<1> QED
  BY <1>1, <1>2, <1>3, RefillMirrors

(* Of mirrored databases, a side finds the tags of the other right if and  *)
(* only if both have seen the same messages.                               *)
LEMMA Verdict ==
    ASSUME NEW s \in Side, Mirror(db[Peer(s)], db[s]), current.alike \in BOOLEAN
    PROVE  Accepts(s, Message(Peer(s))) <=> current.alike
<1> DEFINE o == Peer(s)
<1>1. db[s]["in"] = db[o]["out"] /\ db[s]["out"] = db[o]["in"]
  BY DEF Mirror, Dir, Opposite
<1>2. Accepts(s, Message(o)) <=> Tag(s, o, "in") = Tag(o, o, "out")
                              /\ Tag(s, o, "out") = Tag(o, o, "in")
  BY DEF Accepts, Message
<1>3. Tag(s, o, "in") = Tag(o, o, "out") <=> Seen(s, "in") = Seen(o, "out")
  BY <1>1 DEF Tag
<1>4. Tag(s, o, "out") = Tag(o, o, "in") <=> Seen(s, "out") = Seen(o, "in")
  BY <1>1 DEF Tag
<1>5. /\ Seen(s, "in") = Seen(o, "out") <=> current.alike
      /\ Seen(s, "out") = Seen(o, "in") <=> current.alike
  BY DEF Seen, Side, Peer, Opposite
<1> QED
  BY <1>2, <1>3, <1>4, <1>5

-----------------------------------------------------------------------------
(* The shape of the state, and what no step undoes.                        *)

LEMMA InitShape == Init => Shape
BY DEF Init, Shape, Side

(* What ending the work on a key does to the places and the counts. *)
LEMMA EndsSteps ==
    ASSUME Shape, NEW s \in Side, Ends(s)
    PROVE  /\ at' \in [Side -> {"idle", "process", "wait"}] /\ done' \in [Side -> Nat]
           /\ at'[s] = "idle" /\ done'[s] = done[s] + 1
           /\ at'[Peer(s)] = at[Peer(s)] /\ done'[Peer(s)] = done[Peer(s)]
           /\ \A t \in Side : done[t] <= done'[t]
BY Sides DEF Ends, Shape

(* The rest of the shape when a side ends its work. *)
LEMMA HalfStays ==
    ASSUME Shape, UNCHANGED half, \A t \in Side : done[t] <= done'[t], done' \in [Side -> Nat]
    PROVE  \/ half' = NoStore
           \/ half'.by \in Side /\ half'.dir \in Dir /\ half'.done \in Nat
              /\ half'.done <= done'[half'.by]
<1>1. CASE half = NoStore
  BY <1>1
<1>2. CASE half.by \in Side /\ half.dir \in Dir /\ half.done \in Nat
           /\ half.done <= done[half.by]
  <2>1. done[half.by] \in Nat /\ done'[half.by] \in Nat /\ done[half.by] <= done'[half.by]
    BY <1>2 DEF Shape
  <2> QED
    BY <1>2, <2>1
<1> QED
  BY <1>1, <1>2 DEF Shape

(* Every step keeps the shape. *)
LEMMA ShapeStep == ASSUME Shape, Next PROVE Shape'
<1>1. CASE Pick
  BY <1>1 DEF Pick, Shape
<1>2. ASSUME NEW s \in Side, Send(s) PROVE Shape'
  <2>1. UNCHANGED <<current, half>>
    BY <1>2 DEF Send
  <2>2. CASE HasFinalKeys(s)
    BY <1>2, <2>2 DEF Send, Shape, Refuses
  <2>3. CASE ~HasFinalKeys(s)
    <3>1. Refuses(s) /\ UNCHANGED net
      BY <1>2, <2>3 DEF Send
    <3>2. Ends(s) /\ UNCHANGED <<db, threshold, accepted>> /\ size' = [size EXCEPT ![s] = 0]
      BY <3>1 DEF Refuses
    <3> QED
      BY <2>1, <3>1, <3>2, EndsSteps, HalfStays DEF Shape
  <2> QED
    BY <2>2, <2>3
<1>3. ASSUME NEW s \in Side, Receive(s) PROVE Shape'
  <2>1. Ends(s) /\ UNCHANGED <<current, half>> /\ net' = [net EXCEPT ![s] = <<>>]
    BY <1>3 DEF Receive, Refuses
  <2>2. DOMAIN db' = Side /\ \A t \in Side : DOMAIN db'[t] = Dir
    <3>1. \A t, n : DOMAIN Spent(s, t).dbs = Dir
      BY DEF Spent, Refill
    <3>2. \/ \E t : db' = [db EXCEPT ![s] = Spent(s, t).dbs]
          \/ UNCHANGED db
      BY <1>3 DEF Receive, Refuses, Spent
    <3> QED
      BY <3>1, <3>2 DEF Shape
  <2>3. /\ DOMAIN size' = Side /\ DOMAIN threshold' = Side /\ DOMAIN net' = Side
        /\ accepted' \in [Side -> BOOLEAN]
    BY <1>3 DEF Receive, Refuses, Shape
  <2> QED
    BY <2>1, <2>2, <2>3, EndsSteps, HalfStays DEF Shape
<1>4. ASSUME NEW s \in Side, ReceiptFails(s) PROVE Shape'
  <2>1. /\ Ends(s) /\ UNCHANGED <<current, half, net, db, threshold, accepted>>
        /\ size' = [size EXCEPT ![s] = 0]
    BY <1>4 DEF ReceiptFails, Refuses
  <2> QED
    BY <2>1, EndsSteps, HalfStays DEF Shape
<1>5. ASSUME NEW s \in Side, Resume(s) \/ SetThreshold(s) PROVE Shape'
  BY <1>5 DEF Resume, SetThreshold, Shape
<1>6. ASSUME NEW s \in Side, NEW dir \in Dir, StoreKeys(s, dir) PROVE Shape'
  <2>1. /\ UNCHANGED <<threshold, at, current, size, net, done, accepted>>
        /\ half' = [by |-> s, dir |-> dir, done |-> done[s]]
    BY <1>6 DEF StoreKeys
  <2>2. DOMAIN db' = Side /\ \A t \in Side : DOMAIN db'[t] = Dir
    BY <1>6 DEF StoreKeys, Given, Shape
  <2> QED
    BY <2>1, <2>2 DEF Shape
<1>7. CASE StoreKeysAtPeer
  <2>1. UNCHANGED <<threshold, at, current, size, net, done, accepted>> /\ half' = NoStore
    BY <1>7 DEF StoreKeysAtPeer
  <2>2. DOMAIN db' = Side /\ \A t \in Side : DOMAIN db'[t] = Dir
    BY <1>7 DEF StoreKeysAtPeer, Given, Shape
  <2> QED
    BY <2>1, <2>2 DEF Shape
<1> QED
  BY <1>1, <1>2, <1>3, <1>4, <1>5, <1>6, <1>7 DEF Next

(* A store that comes too late comes too late after every step. *)
LEMMA DoomedStays == ASSUME Shape, Shape', skewed \/ Doomed, Next PROVE (skewed \/ Doomed)'
<1>1. skewed => skewed'
  BY DEF Next, Pick, Send, Receive, ReceiptFails, Resume, SetThreshold, StoreKeys,
         StoreKeysAtPeer
<1> SUFFICES ASSUME Doomed PROVE (skewed \/ Doomed)'
  BY <1>1
<1> DEFINE p == Peer(half.by)
<1>2. /\ half # NoStore /\ half.by \in Side /\ p \in Side /\ half.done \in Nat
      /\ done[p] \in Nat /\ half.done <= done[p]
  BY Sides DEF Doomed, Shape
<1>3. ASSUME UNCHANGED <<half, at, done>> PROVE Doomed'
  BY <1>3 DEF Doomed
<1>4. ASSUME NEW s \in Side, Ends(s), UNCHANGED half PROVE Doomed'
  <2>1. CASE s = p
    BY <1>2, <1>4, <2>1, EndsSteps DEF Doomed
  <2>2. CASE s # p
    <3>1. p = Peer(s)
      BY <1>2, <2>2, Sides
    <3> QED
      BY <1>2, <1>4, <3>1, EndsSteps DEF Doomed
  <2> QED
    BY <2>1, <2>2
<1>5. CASE Pick
  <2>1. UNCHANGED <<half, done>> /\ \A s \in Side : at[s] = "idle"
    BY <1>5 DEF Pick
  <2> QED
    BY <1>2, <2>1 DEF Doomed
<1>6. ASSUME NEW s \in Side, Send(s) PROVE Doomed'
  <2>1. CASE HasFinalKeys(s)
    <3>1. UNCHANGED <<half, done>> /\ at[s] = "process" /\ at' = [at EXCEPT ![s] = "wait"]
      BY <1>6, <2>1 DEF Send, Refuses
    <3> QED
      BY <1>2, <3>1 DEF Doomed, Shape
  <2>2. CASE ~HasFinalKeys(s)
    <3>1. Ends(s) /\ UNCHANGED half
      BY <1>6, <2>2 DEF Send, Refuses
    <3> QED
      BY <1>4, <3>1
  <2> QED
    BY <2>1, <2>2
<1>7. ASSUME NEW s \in Side, Receive(s) \/ ReceiptFails(s) PROVE Doomed'
  <2>1. Ends(s) /\ UNCHANGED half
    BY <1>7 DEF Receive, ReceiptFails, Refuses
  <2> QED
    BY <1>4, <2>1
<1>8. ASSUME NEW s \in Side, Resume(s) \/ SetThreshold(s) PROVE Doomed'
  BY <1>3, <1>8 DEF Resume, SetThreshold
<1>9. ASSUME NEW s \in Side, NEW dir \in Dir, StoreKeys(s, dir) PROVE FALSE
  BY <1>2, <1>9 DEF StoreKeys
<1>10. CASE StoreKeysAtPeer
  <2>1. PICK s \in Side : /\ half.by = Peer(s) /\ at[s] # "wait"
                          /\ skewed' = (skewed \/ half.done # done[s])
    BY <1>10 DEF StoreKeysAtPeer, Unlocked
  <2>2. s = p
    BY <2>1, Sides
  <2>3. half.done < done[p]
    BY <2>1, <2>2 DEF Doomed
  <2>4. half.done # done[s]
    BY <1>2, <2>2, <2>3
  <2> QED
    BY <2>1, <2>4
<1> QED
  BY <1>5, <1>6, <1>7, <1>8, <1>9, <1>10 DEF Next

-----------------------------------------------------------------------------
(* The steps, from a state in which the two are in step.                   *)

(* What the judgements of a waiting side rest on does not change behind    *)
(* its back.                                                               *)
LEMMA AfterStays ==
    ASSUME NEW s \in Side, UNCHANGED current, db'[s] = db[s], size'[s] = size[s],
           net'[s] = net[s], threshold'[s] = threshold[s]
    PROVE  /\ After(s)' = After(s)
           /\ Accepts(s, Head(net[s]))' <=> Accepts(s, Head(net[s]))
           /\ Message(s)' = Message(s)
<1>1. \A dir \in Dir : UsedUp(s, dir)' = UsedUp(s, dir)
  BY DEF UsedUp
<1>2. Adopted(s, Head(net[s]))' = Adopted(s, Head(net[s]))
  BY DEF Adopted
<1>3. \A t : Spent(s, t)' = Spent(s, t)
  BY <1>1 DEF Spent, Refill
<1>4. After(s)' = After(s)
  BY <1>2, <1>3 DEF After
<1>5. \A role, dir : Tag(s, role, dir)' = Tag(s, role, dir)
  BY DEF Tag, Seen
<1>6. Accepts(s, Head(net[s]))' <=> Accepts(s, Head(net[s]))
  BY <1>5 DEF Accepts
<1>7. Message(s)' = Message(s)
  BY <1>5 DEF Message
<1> QED
  BY <1>4, <1>6, <1>7

(* Of two mirrored sides that work on a key, one that waits is mirrored    *)
(* itself, if no store is bound to come too late.                          *)
LEMMA WaitingMirrors ==
    ASSUME Shape, ~Doomed, NEW s \in Side, at[s] = "wait", done[s] = done[Peer(s)],
           half.by # s
    PROVE  half = NoStore
<1> SUFFICES ASSUME half # NoStore PROVE FALSE
  OBVIOUS
<1>1. half.by \in Side /\ half.done \in Nat /\ half.done <= done[half.by]
  BY DEF Shape
<1>2. half.by = Peer(s) /\ Peer(half.by) = s
  BY <1>1, Sides
<1>3. done[s] \in Nat
  BY DEF Shape
<1> QED
  BY <1>1, <1>2, <1>3 DEF Doomed

(* The action Pick: both begin the next key. *)
LEMMA PickInStep == ASSUME Shape, InStep, Pick PROVE InStep'
<1>1. \A s \in Side : at[s] = "idle"
  BY DEF Pick
<1>2. Rest
  <2>1. ~Working
    BY <1>1 DEF Working, Side
  <2>2. ASSUME NEW s \in Side, Denied(s) \/ Finished(s) PROVE FALSE
    BY <1>1, <2>2, Sides DEF Denied, Finished
  <2> QED
    BY <2>1, <2>2 DEF InStep
<1>3. SameBooks'
  <2>1. UNCHANGED <<db, half, stores>>
    BY DEF Pick
  <2>2. SameBooks
    BY <1>2 DEF Rest, Side
  <2> QED
    BY <2>1, <2>2 DEF SameBooks, With, Gift
<1>4. ASSUME NEW s \in Side
      PROVE  /\ at'[s] = "process" /\ net'[Peer(s)] = <<>> /\ ~accepted'[s]
             /\ size'[s] = size'[Peer(s)] /\ done'[s] = done'[Peer(s)]
  BY <1>2, Sides DEF Pick, Rest
<1>5. Working'
  BY <1>3, <1>4 DEF Working
<1> QED
  BY <1>5 DEF InStep

(* The action Send: a side tells its tags, or has no final keys. *)
LEMMA SendInStep ==
    ASSUME Shape, ~Doomed, InStep, NEW s \in Side, Send(s), ~Doomed'
    PROVE  InStep'
<1> DEFINE o == Peer(s)
<1>0. o \in Side /\ o # s /\ Peer(o) = s /\ \A t \in Side : t = s \/ t = o
  BY Sides
<1>1. at[s] = "process" /\ UNCHANGED <<current, half, stores, db, threshold, accepted>>
  BY DEF Send, Refuses
<1>2. Working \/ Denied(o)
  <2>1. ~Rest
    BY <1>1 DEF Rest
  <2>2. ~Denied(s) /\ ~Finished(s) /\ ~Finished(o)
    BY <1>0, <1>1 DEF Denied, Finished
  <2> QED
    BY <1>0, <2>1, <2>2 DEF InStep
<1>3. SameBooks'
  <2>1. SameBooks
    BY <1>2 DEF Working, Denied
  <2> QED
    BY <1>1, <2>1 DEF SameBooks, With, Gift
<1>4. done[s] \in Nat /\ done[o] \in Nat
  BY <1>0 DEF Shape
<1>5. half # NoStore => /\ half.by \in {s, o} /\ half.done \in Nat
                        /\ half.done <= done[half.by]
  BY <1>0 DEF Shape
<1>6. CASE HasFinalKeys(s)
  <2>1. /\ at' = [at EXCEPT ![s] = "wait"] /\ UNCHANGED <<size, done>>
        /\ net' = [net EXCEPT ![o] = <<Message(s)>>]
    BY <1>6 DEF Send, Message, Refuses
  <2>2. at'[s] = "wait" /\ at'[o] = at[o]
    BY <1>0, <2>1 DEF Shape
  <2>3. net'[o] = <<Message(s)>> /\ net'[s] = net[s]
    BY <1>0, <2>1 DEF Shape
  <2>4. CASE Working
    <3>1. /\ at[o] \in {"process", "wait"} /\ done[s] = done[o] /\ size[s] = size[o]
          /\ ~accepted[s] /\ ~accepted[o] /\ (at[o] = "wait" => Has(db[o]))
          /\ net[s] = IF at[o] = "wait" THEN <<Message(o)>> ELSE <<>>
      BY <1>0, <2>4 DEF Working
    <3>2. Has(db[s])
      BY <1>6 DEF HasFinalKeys, Has
    <3>3. Message(s)' = Message(s) /\ Message(o)' = Message(o)
      BY <1>1 DEF Message, Tag, Seen
    <3>4. /\ at'[s] = "wait" /\ at'[o] \in {"process", "wait"} /\ Has(db[s])'
          /\ (at'[o] = "wait" => Has(db[o])')
      BY <1>1, <2>2, <3>1, <3>2 DEF Has
    <3>5. \A t \in Side :
            /\ at'[t] \in {"process", "wait"} /\ done'[t] = done'[Peer(t)]
            /\ size'[t] = size'[Peer(t)] /\ ~accepted'[t]
            /\ (at'[t] = "wait" => Has(db[t])')
      BY <1>0, <1>1, <2>1, <3>1, <3>4
    <3>6. \A t \in Side :
            net'[Peer(t)] = IF at'[t] = "wait" THEN <<Message(t)'>> ELSE <<>>
      BY <1>0, <2>2, <2>3, <3>1, <3>3
    <3>7. Working'
      BY <1>3, <3>5, <3>6 DEF Working
    <3> QED
      BY <3>7 DEF InStep
  <2>5. CASE Denied(o)
    <3>1. done[o] = done[s] + 1 /\ ~Has(IF half.done = done[s] THEN With(db[s], s) ELSE db[s])
      BY <1>0, <2>5 DEF Denied
    <3>2. Has(db[s])
      BY <1>6 DEF HasFinalKeys, Has
    <3>3. half.by = o /\ half.done = done[s]
      BY <1>0, <3>1, <3>2 DEF With
    <3>4. half # NoStore
      BY <1>0, <3>3, Sides DEF NoStore
    <3>5. Doomed'
      BY <1>0, <1>1, <2>1, <2>2, <3>3, <3>4 DEF Doomed
    <3> QED
      BY <3>5
  <2> QED
    BY <1>2, <2>4, <2>5
<1>7. CASE ~HasFinalKeys(s)
  <2>1. Ends(s) /\ UNCHANGED net /\ size' = [size EXCEPT ![s] = 0]
    BY <1>7 DEF Send, Refuses
  <2>2. /\ at'[s] = "idle" /\ at'[o] = at[o]
        /\ done'[s] = done[s] + 1 /\ done'[o] = done[o]
        /\ size'[s] = 0 /\ size'[o] = size[o]
    BY <1>0, <2>1, EndsSteps DEF Shape
  <2>3. ~Has(db[s])
    BY <1>7 DEF HasFinalKeys, Has
  <2>4. CASE Working
    <3>1. /\ at[o] \in {"process", "wait"} /\ done[s] = done[o]
          /\ ~accepted[s] /\ ~accepted[o] /\ (at[o] = "wait" => Has(db[o]))
      BY <1>0, <2>4 DEF Working
    <3>2. half = NoStore \/ half.by = s
      <4> SUFFICES ASSUME half # NoStore, half.by = o PROVE FALSE
        BY <1>5
      <4>1. half.done <= done[o] /\ half.done \in Nat
        BY <1>5
      <4>2. half.done < done'[s] /\ Peer(half'.by) = s
        BY <1>0, <1>1, <1>4, <2>2, <3>1, <4>1
      <4> QED
        BY <1>1, <4>2 DEF Doomed
    <3>3. Mirror(With(db[s], s), With(db[o], o)) /\ With(db[s], s) = db[s]
      <4>1. half.by # o
        BY <1>0, <3>2, Sides DEF NoStore
      <4> QED
        BY <1>0, <2>4, <4>1 DEF Working, SameBooks, With
    <3>4. ~Has(With(db[o], o))
      BY <2>3, <3>3, MirrorSymmetric, MirrorHas
    <3>5. at[o] = "process"
      <4> SUFFICES ASSUME at[o] = "wait" PROVE FALSE
        BY <3>1
      <4>1. half = NoStore
        <5>1. half # NoStore => half.done = done[o] \/ half.done < done[o]
          BY <1>4, <1>5, <3>1, <3>2
        <5> QED
          BY <1>0, <3>2, <5>1 DEF Doomed
      <4>2. With(db[o], o) = db[o]
        BY <1>0, <4>1, BooksPlain
      <4> QED
        BY <3>1, <3>4, <4>2
    <3>6. ~Has(IF half.done = done[o] THEN With(db[o], o) ELSE db[o])
      <4>1. half # NoStore => half.done = done[o]
        <5>1. half # NoStore => half.done <= done[o] /\ ~(half.done < done[o])
          BY <1>0, <1>5, <3>1, <3>2 DEF Doomed
        <5> QED
          BY <1>4, <1>5, <5>1
      <4>2. half = NoStore => With(db[o], o) = db[o]
        BY <1>0, BooksPlain
      <4> QED
        BY <3>4, <4>1, <4>2
    <3>7. Has(IF half.done = done[o] THEN With(db[o], o) ELSE db[o])' <=>
          Has(IF half.done = done[o] THEN With(db[o], o) ELSE db[o])
      BY <1>1, <2>2 DEF With, Gift, Has
    <3>8. Denied(s)'
      BY <1>0, <1>1, <1>3, <2>2, <3>1, <3>5, <3>6, <3>7 DEF Denied
    <3> QED
      BY <3>8 DEF InStep
  <2>5. CASE Denied(o)
    <3>1. /\ at[o] = "idle" /\ done[o] = done[s] + 1 /\ size[o] = 0
          /\ ~accepted[o] /\ ~accepted[s]
      BY <1>0, <2>5 DEF Denied
    <3>2. \A t \in Side :
            /\ at'[t] = "idle" /\ done'[t] = done'[Peer(t)]
            /\ accepted'[t] = accepted'[Peer(t)] /\ size'[t] = size'[Peer(t)]
      <4>1. accepted[s] = accepted[o]
        BY <1>0, <3>1 DEF Shape
      <4> QED
        BY <1>0, <1>1, <2>2, <3>1, <4>1
    <3>3. Rest'
      BY <1>3, <3>2 DEF Rest
    <3> QED
      BY <3>3 DEF InStep
  <2> QED
    BY <1>2, <2>4, <2>5
<1> QED
  BY <1>6, <1>7

(* The action Receive: a side takes the tags of its peer, and is the first *)
(* or the second to do so.                                                 *)
LEMMA ReceiveInStep ==
    ASSUME Shape, ~Doomed, InStep, NEW s \in Side, Receive(s)
    PROVE  InStep'
<1> DEFINE o == Peer(s)
           m == Head(net[s])
<1>0. o \in Side /\ o # s /\ Peer(o) = s /\ \A t \in Side : t = s \/ t = o
  BY Sides
<1>1. /\ at[s] = "wait" /\ net[s] # <<>> /\ Ends(s)
      /\ UNCHANGED <<current, half, stores>> /\ net' = [net EXCEPT ![s] = <<>>]
  BY DEF Receive, Refuses
<1>2. /\ at'[s] = "idle" /\ at'[o] = at[o] /\ done'[s] = done[s] + 1 /\ done'[o] = done[o]
      /\ net'[o] = net[o]
  BY <1>0, <1>1, EndsSteps DEF Shape
<1>3. Working \/ Finished(o)
  <2>1. ~Rest
    BY <1>1 DEF Rest
  <2>2. ~Denied(s) /\ ~Finished(s) /\ ~Denied(o)
    BY <1>0, <1>1 DEF Denied, Finished
  <2> QED
    BY <1>0, <2>1, <2>2 DEF InStep
<1>4. done[s] \in Nat /\ done[o] \in Nat /\ current.alike \in BOOLEAN
  BY <1>0 DEF Shape
<1>5. ~accepted[s] /\ (Accepts(s, m) <=> current.alike)
  <2>1. CASE Working
    <3>1. at[o] \in {"process", "wait"} /\ done[s] = done[o] /\ ~accepted[s]
          /\ net[s] = IF at[o] = "wait" THEN <<Message(o)>> ELSE <<>>
      BY <1>0, <2>1 DEF Working
    <3>2. at[o] = "wait" /\ m = Message(o)
      BY <1>1, <3>1
    <3>3. half = NoStore
      <4>1. half.by = s => half = NoStore
        BY <1>0, <3>1, <3>2, WaitingMirrors, Sides
      <4> QED
        BY <1>1, <3>1, <4>1, WaitingMirrors
    <3>4. Mirror(db[o], db[s])
      BY <1>0, <2>1, <3>3, BooksPlain DEF Working
    <3> QED
      BY <1>4, <3>1, <3>2, <3>4, Verdict
  <2>2. CASE Finished(o)
    BY <1>0, <2>2 DEF Finished
  <2> QED
    BY <1>3, <2>1, <2>2
<1>6. /\ \A dir \in Dir : db'[s][dir] = After(s).dbs[dir]
      /\ size'[s] = After(s).left /\ accepted'[s] = current.alike
      /\ UNCHANGED <<db[o], size[o], accepted[o]>>
      /\ threshold'["alice"] = threshold["alice"]
  <2>1. CASE current.alike
    <3>1. /\ accepted' = [accepted EXCEPT ![s] = TRUE]
          /\ threshold' = [threshold EXCEPT ![s] = Adopted(s, m)]
          /\ db' = [db EXCEPT ![s] = Spent(s, Adopted(s, m)).dbs]
          /\ size' = [size EXCEPT ![s] = Spent(s, Adopted(s, m)).left]
      BY <1>5, <2>1 DEF Receive, Spent
    <3>2. After(s) = Spent(s, Adopted(s, m))
      BY <2>1 DEF After
    <3> QED
      BY <1>0, <2>1, <3>1, <3>2 DEF Shape, Adopted
  <2>2. CASE ~current.alike
    <3>1. /\ UNCHANGED <<db, threshold, accepted>> /\ size' = [size EXCEPT ![s] = 0]
      BY <1>5, <2>2 DEF Receive, Refuses
    <3>2. After(s) = [dbs |-> db[s], left |-> 0]
      BY <2>2 DEF After
    <3> QED
      BY <1>0, <1>5, <2>2, <3>1, <3>2 DEF Shape
  <2> QED
    BY <2>1, <2>2
<1>7. CASE Working
  <2>1. /\ at[o] \in {"process", "wait"} /\ done[s] = done[o] /\ ~accepted[o]
        /\ size[s] = size[o]
        /\ net[s] = IF at[o] = "wait" THEN <<Message(o)>> ELSE <<>>
        /\ net[o] = <<Message(s)>>
    BY <1>0, <1>1, <1>7 DEF Working
  <2>2. at[o] = "wait" /\ m = Message(o) /\ Head(net[o]) = Message(s)
    BY <1>1, <2>1
  <2>3. half = NoStore
    <3>1. half.by = s => half = NoStore
      BY <1>0, <2>1, <2>2, WaitingMirrors, Sides
    <3> QED
      BY <1>1, <2>1, <3>1, WaitingMirrors
  <2>4. Mirror(db[s], db[o]) /\ Mirror(db[o], db[s])
    BY <1>0, <1>7, <2>3, BooksPlain DEF Working
  <2>5. Accepts(o, Head(net[o])) <=> current.alike
    BY <1>0, <1>4, <2>2, <2>4, Verdict
  <2>6. Adopted(s, m) = threshold["alice"] /\ Adopted(o, Head(net[o])) = threshold["alice"]
    BY <1>0, <2>2 DEF Adopted, Message, Side, Peer
  <2>7. Mirror(After(s).dbs, After(o).dbs) /\ After(s).left = After(o).left
    BY <1>0, <2>1, <2>4, <2>6, SpentMirrors DEF After
  <2>8. /\ After(o)' = After(o)
        /\ Accepts(o, Head(net[o]))' <=> Accepts(o, Head(net[o]))
    <3>1. Adopted(o, Head(net[o]))' = Adopted(o, Head(net[o]))
      BY <1>0, <1>2, <1>6 DEF Adopted, Side
    <3>2. \A dir \in Dir : UsedUp(o, dir)' = UsedUp(o, dir)
      BY <1>6 DEF UsedUp
    <3>3. \A t : Spent(o, t)' = Spent(o, t)
      BY <1>1, <1>6, <3>2 DEF Spent, Refill
    <3>4. \A role, dir : Tag(o, role, dir)' = Tag(o, role, dir)
      BY <1>1, <1>6 DEF Tag, Seen
    <3> QED
      BY <1>1, <1>2, <1>6, <3>1, <3>3, <3>4 DEF After, Accepts
  <2>9. Mirror(db'[s], With(After(o).dbs, o)')
    <3>1. With(After(o).dbs, o)' = After(o)'.dbs
      BY <1>0, <1>1, <2>3, Sides DEF With, NoStore
    <3> QED
      BY <1>6, <2>7, <2>8, <3>1 DEF Mirror
  <2>10. Finished(s)'
    <3>1. net'[o] # <<>>
      BY <1>2, <2>1
    <3> QED
      BY <1>1, <1>2, <1>6, <2>1, <2>2, <2>3, <2>5, <2>7, <2>8, <2>9, <3>1 DEF Finished
  <2> QED
    BY <2>10 DEF InStep
<1>8. CASE Finished(o)
  <2>1. /\ at[o] = "idle" /\ done[o] = done[s] + 1 /\ accepted[o] = current.alike
        /\ Mirror(db[o], With(After(s).dbs, s)) /\ size[o] = After(s).left
    BY <1>0, <1>8 DEF Finished
  <2>2. half.by # s
    BY <1>0, <1>8, Sides DEF Finished, NoStore
  <2>3. Mirror(With(db[s], s)', With(db[o], o)')
    <3>1. With(db[o], o)' = db[o]
      BY <1>0, <1>1, <1>6, <2>2 DEF With
    <3>2. \A dir \in Dir : With(db[s], s)'[dir] = With(After(s).dbs, s)[dir]
      <4>1. DOMAIN db'[s] = Dir /\ DOMAIN After(s).dbs = Dir
        <5>1. DOMAIN After(s).dbs = Dir
          BY DEF After, Spent, Refill, Shape
        <5>2. DOMAIN db'[s] = Dir
          BY ShapeStep DEF Next, Shape
        <5> QED
          BY <5>1, <5>2
      <4> QED
        BY <1>1, <1>6, <4>1 DEF With, Gift
    <3> QED
      BY <2>1, <3>1, <3>2, Sides DEF Mirror
  <2>4. SameBooks'
    <3>1. Mirror(With(db[s], s), With(db[Peer(s)], Peer(s)))'
      BY <2>3 DEF Mirror
    <3> QED
      BY <1>0, <3>1, MirrorSymmetric DEF SameBooks
  <2>5. \A t \in Side :
            /\ at'[t] = "idle" /\ done'[t] = done'[Peer(t)]
            /\ accepted'[t] = accepted'[Peer(t)] /\ size'[t] = size'[Peer(t)]
    BY <1>0, <1>2, <1>6, <2>1
  <2>6. Rest'
    BY <2>4, <2>5 DEF Rest
  <2> QED
    BY <2>6 DEF InStep
<1> QED
  BY <1>3, <1>7, <1>8

(* The two stay in step when none of what they share changes, nor the      *)
(* threshold of one that waits.                                            *)
LEMMA UnmovedInStep ==
    ASSUME Shape, InStep,
           UNCHANGED <<db, at, current, size, net, done, accepted, half, stores>>,
           \A t \in Side : at[t] = "wait" => threshold'[t] = threshold[t]
    PROVE  InStep'
<1>1. /\ UNCHANGED <<db, at, current, size, net, done, accepted, half, stores>>
      /\ \A t \in Side : at[t] = "wait" => threshold'[t] = threshold[t]
  OBVIOUS
<1>2. /\ SameBooks' <=> SameBooks
      /\ \A t \in Side : Denied(t)' <=> Denied(t)
  BY <1>1 DEF SameBooks, Denied, With, Gift, Has
<1>3. CASE Rest
  BY <1>1, <1>2, <1>3 DEF Rest, InStep
<1>4. CASE Working
  <2>1. \A t \in Side : at[t] = "wait" => Message(t)' = Message(t)
    BY <1>1 DEF Message, Tag, Seen
  <2>2. \A t \in Side : Has(db[t])' <=> Has(db[t])
    BY <1>1 DEF Has
  <2>3. Working'
    BY <1>1, <1>2, <1>4, <2>1, <2>2 DEF Working
  <2> QED
    BY <2>3 DEF InStep
<1>5. ASSUME NEW t \in Side, Denied(t) PROVE InStep'
  BY <1>2, <1>5 DEF InStep
<1>6. ASSUME NEW t \in Side, Finished(t) PROVE InStep'
  <2> DEFINE o == Peer(t)
  <2>1. o \in Side /\ at[o] = "wait"
    BY <1>6, Sides DEF Finished
  <2>2. /\ After(o)' = After(o)
        /\ Accepts(o, Head(net[o]))' <=> Accepts(o, Head(net[o]))
    BY <1>1, <2>1, AfterStays
  <2>3. With(After(o).dbs, o)' = With(After(o).dbs, o)
    BY <1>1, <2>2 DEF With, Gift
  <2>4. Finished(t)'
    BY <1>1, <1>6, <2>2, <2>3 DEF Finished, Mirror
  <2> QED
    BY <2>4 DEF InStep
<1> QED
  BY <1>3, <1>4, <1>5, <1>6 DEF InStep

(* A client that resumes a module, or sets the threshold of one that does  *)
(* not wait, does not pull the two apart.                                  *)
LEMMA ClientInStep ==
    ASSUME Shape, InStep, NEW s \in Side, Resume(s) \/ SetThreshold(s)
    PROVE  InStep'
<1>1. CASE Resume(s)
  BY <1>1, UnmovedInStep DEF Resume
<1>2. CASE SetThreshold(s)
  <2>1. /\ UNCHANGED <<db, at, current, size, net, done, accepted, half, stores>>
        /\ at[s] # "wait" /\ \E n : threshold' = [threshold EXCEPT ![s] = n]
    BY <1>2 DEF SetThreshold, Unlocked
  <2>2. \A t \in Side : at[t] = "wait" => threshold'[t] = threshold[t]
    BY <2>1 DEF Shape
  <2> QED
    BY <2>1, <2>2, UnmovedInStep
<1> QED
  BY <1>1, <1>2

(* The action StoreKeys: a store on one side, which the other will follow. *)
LEMMA StoreKeysInStep ==
    ASSUME Shape, InStep, NEW s \in Side, NEW dir \in Dir, StoreKeys(s, dir), ~Doomed'
    PROVE  InStep'
<1> DEFINE o == Peer(s)
<1>0. /\ o \in Side /\ o # s /\ Peer(o) = s /\ \A t \in Side : t = s \/ t = o
      /\ Opposite(dir) \in Dir /\ Opposite(Opposite(dir)) = dir
  BY Sides
<1>1. /\ at[s] # "wait" /\ half = NoStore /\ stores' = stores + 1
      /\ half' = [by |-> s, dir |-> dir, done |-> done[s]]
      /\ UNCHANGED <<threshold, at, current, size, net, done, accepted>>
  BY DEF StoreKeys, Unlocked
<1> DEFINE G(x) == StoreBytes(x, 0, 2 * FinalKeySize * (stores + 1), 2 * FinalKeySize)
<1>2. /\ db'[o] = db[o]
      /\ \A d \in Dir : db'[s][d] = IF d = dir THEN G(db[s][dir]) ELSE db[s][d]
  <2>1. db' = [db EXCEPT ![s][dir] = G(db[s][dir])]
    BY DEF StoreKeys, Given
  <2> HIDE DEF G
  <2> QED
    BY <1>0, <2>1 DEF Shape
<1>3. \A x : DOMAIN x = Dir => \A d \in Dir :
        [x EXCEPT ![Opposite(dir)] = Gift(@)]'[d] =
            IF d = Opposite(dir) THEN G(x'[Opposite(dir)]) ELSE x'[d]
  BY <1>0, <1>1 DEF Gift
<1>4. \A t \in Side : \A x : With(x, t) = x
  BY <1>1, BooksPlain
<1>5. /\ With(db[s], s)' = db'[s]
      /\ \A x : With(x, o)' = [x EXCEPT ![Opposite(dir)] = G(x[Opposite(dir)])]
  BY <1>0, <1>1 DEF With, Gift
<1> HIDE DEF G
<1>6. ASSUME NEW x, DOMAIN x = Dir, Mirror(db[s], x) PROVE Mirror(db'[s], With(x, o)')
  <2> DEFINE y == With(x, o)'
  <2>1. \A d \in Dir : y[d] = IF d = Opposite(dir) THEN G(x[Opposite(dir)]) ELSE x[d]
    BY <1>0, <1>5, <1>6
  <2> HIDE DEF y
  <2>2. Mirror(db'[s], y)
    BY <1>0, <1>2, <1>6, <2>1, Sides DEF Mirror
  <2> QED
    BY <2>2 DEF y
<1>7. Mirror(db[s], db[o]) => SameBooks'
  <2> SUFFICES ASSUME Mirror(db[s], db[o]) PROVE SameBooks'
    OBVIOUS
  <2>1. DOMAIN db[o] = Dir
    BY <1>0 DEF Shape
  <2>2. PICK x : x = db[o]
    OBVIOUS
  <2>3. Mirror(db'[s], With(x, o)')
    BY <1>6, <2>1, <2>2
  <2>4. With(db[o], o)' = With(x, o)'
    BY <1>2, <1>5, <2>2
  <2>5. Mirror(With(db[s], s), With(db[Peer(s)], Peer(s)))'
    BY <1>5, <2>3, <2>4 DEF Mirror
  <2> QED
    BY <1>0, <2>5, MirrorSymmetric DEF SameBooks
<1>8. half'.by = s /\ half'.done = done[s] /\ half' # NoStore
  BY <1>1, Sides DEF NoStore
<1>9. done[s] \in Nat /\ done[o] \in Nat /\ done' = done /\ at' = at
  BY <1>0, <1>1 DEF Shape
<1>10. SameBooks <=> Mirror(db[s], db[o])
  BY <1>0, <1>1, BooksPlain, MirrorSymmetric
<1>11. CASE Rest
  <2>1. Mirror(db[s], db[o])
    BY <1>10, <1>11 DEF Rest
  <2>2. Rest'
    BY <1>1, <1>7, <1>11, <2>1 DEF Rest
  <2> QED
    BY <2>2 DEF InStep
<1>12. CASE Working
  <2>1. Mirror(db[s], db[o]) /\ done[s] = done[o]
    BY <1>10, <1>12 DEF Working
  <2>2. at[s] = "process" /\ at[o] = "process"
    <3>1. at[o] # "wait"
      BY <1>0, <1>8, <1>9, <2>1 DEF Doomed
    <3> QED
      BY <1>0, <1>1, <1>12, <3>1 DEF Working
  <2>3. \A t \in Side : at[t] = "process"
    BY <1>0, <2>2
  <2>4. Working'
    BY <1>1, <1>7, <1>12, <2>1, <2>3 DEF Working
  <2> QED
    BY <2>4 DEF InStep
<1>13. CASE Denied(s)
  <2>1. /\ at[s] = "idle" /\ at[o] = "process" /\ done[s] = done[o] + 1
        /\ SameBooks /\ ~Has(db[o]) /\ size[s] = 0 /\ ~accepted[s] /\ ~accepted[o]
    BY <1>0, <1>4, <1>13 DEF Denied
  <2>2. half'.done # done'[o]
    BY <1>8, <1>9, <2>1
  <2>3. ~Has(db'[o])
    BY <1>2, <2>1
  <2>4. SameBooks'
    BY <1>7, <1>10, <2>1
  <2>5. ~Has(IF half.done = done[o] THEN With(db[o], o) ELSE db[o])'
    BY <2>2, <2>3 DEF Has
  <2>6. Denied(s)'
    BY <1>1, <1>9, <2>1, <2>4, <2>5 DEF Denied
  <2> QED
    BY <1>0, <2>6 DEF InStep
<1>14. CASE Denied(o)
  <2>1. done[o] = done[s] + 1
    BY <1>0, <1>14 DEF Denied
  <2> QED
    BY <1>8, <1>9, <2>1 DEF Doomed
<1>15. CASE Finished(s)
  <2>1. PICK x : x = After(o).dbs
    OBVIOUS
  <2>2. DOMAIN x = Dir /\ Mirror(db[s], x)
    <3>1. DOMAIN After(o).dbs = Dir
      BY <1>0 DEF After, Spent, Refill, Shape
    <3> QED
      BY <1>0, <1>4, <1>15, <2>1, <3>1 DEF Finished
  <2>3. /\ After(o)' = After(o)
        /\ Accepts(o, Head(net[o]))' <=> Accepts(o, Head(net[o]))
    BY <1>0, <1>1, <1>2, AfterStays
  <2>4. With(After(o).dbs, o)' = With(x, o)'
    BY <1>5, <2>1, <2>3
  <2>5. Mirror(db'[s], With(After(o).dbs, o)')
    BY <1>6, <2>2, <2>4
  <2>6. Finished(s)'
    BY <1>1, <1>8, <1>9, <1>15, <2>3, <2>5 DEF Finished, Mirror
  <2> QED
    BY <1>0, <2>6 DEF InStep
<1>16. ~Finished(o)
  BY <1>0, <1>1 DEF Finished
<1> QED
  BY <1>0, <1>11, <1>12, <1>13, <1>14, <1>15, <1>16 DEF InStep

(* The action StoreKeysAtPeer: the store is made on the other side as      *)
(* well, at the same point of its work.                                    *)
LEMMA StoreAtPeerInStep ==
    ASSUME Shape, ~Doomed, InStep, StoreKeysAtPeer, ~skewed'
    PROVE  InStep'
<1>1. PICK p \in Side :
        /\ half.by = Peer(p) /\ at[p] # "wait" /\ Given(p, Opposite(half.dir), stores)
        /\ half' = NoStore /\ skewed' = (skewed \/ half.done # done[p])
        /\ UNCHANGED <<threshold, at, current, size, net, done, accepted, stores>>
  BY DEF StoreKeysAtPeer, Unlocked
<1> DEFINE x == Peer(p)
<1>0. x \in Side /\ x # p /\ Peer(x) = p /\ \A t \in Side : t = p \/ t = x
  BY Sides
<1>2. half.done = done[p] /\ half # NoStore
  <2>1. half # NoStore
    BY <1>0, <1>1, Sides DEF NoStore
  <2>2. skewed' = (skewed \/ half.done # done[p])
    BY <1>1
  <2>3. half.done = done[p]
    BY ONLY <2>2, ~skewed', Zenon
  <2> QED
    BY <2>1, <2>3
<1>3. half.dir \in Dir /\ Opposite(half.dir) \in Dir
  BY <1>2, Sides DEF Shape
<1>4. db'[x] = db[x] /\ db'[p] = With(db[p], p)
  <2>1. db' = [db EXCEPT ![p] = [db[p] EXCEPT ![Opposite(half.dir)] = Gift(@)]]
    BY <1>1 DEF Given, Gift
  <2> QED
    BY <1>0, <1>1, <2>1 DEF Shape, With
<1>5. With(db[x], x) = db[x]
  BY <1>0, <1>1, Sides DEF With
<1>6. \A t \in Side : \A y : With(y, t)' = y
  BY <1>1, Sides DEF With, NoStore
<1>7. SameBooks => SameBooks'
  <2> SUFFICES ASSUME SameBooks PROVE SameBooks'
    OBVIOUS
  <2>1. Mirror(db'[p], db'[x])
    BY <1>4, <1>5 DEF SameBooks
  <2>2. Mirror(With(db[p], p), With(db[Peer(p)], Peer(p)))'
    BY <1>0, <1>6, <2>1 DEF Mirror
  <2> QED
    BY <1>0, <2>2, MirrorSymmetric DEF SameBooks
<1>8. CASE Rest
  <2>1. Rest'
    BY <1>1, <1>7, <1>8 DEF Rest
  <2> QED
    BY <2>1 DEF InStep
<1>9. CASE Working
  <2>1. at[p] = "process" /\ (at[x] = "wait" => Has(db[x])')
    BY <1>0, <1>1, <1>4, <1>9 DEF Working, Has
  <2>2. Message(x)' = Message(x)
    BY <1>1, <1>4 DEF Message, Tag, Seen
  <2>3. \A t \in Side : at[t] = "wait" => Message(t)' = Message(t) /\ Has(db[t])'
    BY <1>0, <2>1, <2>2
  <2>4. Working'
    BY <1>1, <1>7, <1>9, <2>3 DEF Working
  <2> QED
    BY <2>4 DEF InStep
<1>10. CASE Denied(x)
  <2>1. ~Has(With(db[p], p)) /\ SameBooks
    BY <1>0, <1>2, <1>10 DEF Denied
  <2>2. ~Has(IF half.done = done[p] THEN With(db[p], p) ELSE db[p])'
    BY <1>4, <1>6, <2>1 DEF Has
  <2>3. Denied(x)'
    BY <1>0, <1>1, <1>7, <1>10, <2>1, <2>2 DEF Denied
  <2> QED
    BY <1>0, <2>3 DEF InStep
<1>11. ~Denied(p)
  <2> SUFFICES ASSUME Denied(p) PROVE FALSE
    OBVIOUS
  <2>1. done[p] = done[x] + 1 /\ done[x] \in Nat
    BY <1>0 DEF Denied, Shape
  <2>2. half.done <= done[x]
    BY <1>1, <1>2 DEF Shape
  <2> QED
    BY <1>2, <2>1, <2>2
<1>12. ~Finished(x) /\ ~Finished(p)
  <2>1. ~Finished(x)
    BY <1>0, <1>1 DEF Finished
  <2>2. Finished(p) => half.by = p
    BY <1>2 DEF Finished
  <2> QED
    BY <1>0, <1>1, <2>1, <2>2
<1> QED
  BY <1>0, <1>8, <1>9, <1>10, <1>11, <1>12 DEF InStep

-----------------------------------------------------------------------------
LEMMA InitInvariant == Init => IInv
<1> SUFFICES ASSUME Init PROVE InStep
  BY InitShape DEF IInv
<1>1. half = NoStore /\ \A s \in Side : Mirror(db[s], db[Peer(s)])
  BY Sides DEF Init, Mirror
<1>2. SameBooks
  BY <1>1, BooksPlain
<1>3. Rest
  BY <1>2, Sides DEF Init, Rest
<1> QED
  BY <1>3 DEF InStep

(* Every step keeps the two in step, or has pulled them apart in a way the *)
(* program does not claim to survive.                                      *)
LEMMA NextInvariant == IInv /\ [Next]_vars => IInv'
<1> SUFFICES ASSUME IInv, [Next]_vars PROVE IInv'
  OBVIOUS
<1>0. Shape /\ (skewed \/ Doomed \/ InStep)
  BY DEF IInv
<1>1. CASE UNCHANGED vars
  <2>1. UNCHANGED <<db, threshold, at, current, size, net, done, accepted, half, stores, skewed>>
    BY <1>1 DEF vars
  <2>2. Shape'
    BY <1>0, <2>1 DEF Shape
  <2>3. Doomed => Doomed'
    BY <2>1 DEF Doomed
  <2>4. InStep => InStep'
    BY <1>0, <2>1, UnmovedInStep
  <2> QED
    BY <1>0, <2>1, <2>2, <2>3, <2>4 DEF IInv
<1>2. CASE Next
  <2>1. Shape'
    BY <1>0, <1>2, ShapeStep
  <2>2. CASE skewed \/ Doomed
    <3>1. (skewed \/ Doomed)'
      BY <1>0, <1>2, <2>1, <2>2, DoomedStays
    <3> QED
      BY <2>1, <3>1 DEF IInv
  <2>3. ASSUME InStep, ~skewed, ~Doomed, ~skewed', ~Doomed' PROVE InStep'
    <3>1. CASE Pick
      BY <1>0, <2>3, <3>1, PickInStep
    <3>2. CASE StoreKeysAtPeer
      BY <1>0, <2>3, <3>2, StoreAtPeerInStep
    <3>3. ASSUME NEW s \in Side, Send(s) PROVE InStep'
      BY <1>0, <2>1, <2>3, <3>3, SendInStep
    <3>4. ASSUME NEW s \in Side, Receive(s) PROVE InStep'
      BY <1>0, <2>1, <2>3, <3>4, ReceiveInStep
    <3>5. ASSUME NEW s \in Side, ReceiptFails(s) PROVE FALSE
      BY <2>3, <3>5 DEF ReceiptFails
    <3>6. ASSUME NEW s \in Side, Resume(s) \/ SetThreshold(s) PROVE InStep'
      BY <1>0, <2>3, <3>6, ClientInStep
    <3>7. ASSUME NEW s \in Side, NEW dir \in Dir, StoreKeys(s, dir) PROVE InStep'
      BY <1>0, <2>3, <3>7, StoreKeysInStep
    <3> QED
      BY <1>2, <3>1, <3>2, <3>3, <3>4, <3>5, <3>6, <3>7 DEF Next
  <2> QED
    BY <1>0, <2>1, <2>2, <2>3 DEF IInv
<1> QED
  BY <1>1, <1>2 DEF vars

(* The inductive invariant of the two authentication modules.              *)
THEOREM Invariance == Spec => []IInv
BY InitInvariant, NextInvariant, PTL DEF Spec

(* Between two keys the incoming database of one side is the outgoing one  *)
(* of the other, and both have come to one end with the last key, for any  *)
(* sizes, thresholds, stores and verdicts (qkd-auth.cpp:330-620).          *)
THEOREM AlwaysMirrored == Spec => []StoresMirrored
<1>1. IInv => StoresMirrored
  <2> SUFFICES ASSUME IInv, Resting, half = NoStore, ~skewed
               PROVE  /\ \A dir \in Dir :
                            Held(db["alice"][dir]) = Held(db["bob"][Opposite(dir)])
                      /\ accepted["alice"] = accepted["bob"] /\ size["alice"] = size["bob"]
    BY DEF StoresMirrored
  <2>1. Rest
    <3>1. InStep
      BY DEF IInv, Doomed
    <3>2. ~Working
      BY DEF Resting, Working, Side
    <3>3. ASSUME NEW s \in Side, Denied(s) \/ Finished(s) PROVE FALSE
      BY <3>3, Sides DEF Resting, Denied, Finished
    <3> QED
      BY <3>1, <3>2, <3>3 DEF InStep
  <2>2. Mirror(db["alice"], db["bob"])
    BY <2>1, BooksPlain DEF Rest, Side, Peer
  <2> QED
    BY <2>1, <2>2 DEF Rest, Mirror, Side, Peer
<1> QED
  BY <1>1, Invariance, PTL

(* A side that waits for tags not yet sent waits for a peer that will send *)
(* them: it has final keys as well (qkd-auth.cpp:330-480).                 *)
THEOREM NobodyWaitsInVain == Spec => []TagsWillCome
<1>1. IInv => TagsWillCome
  <2> SUFFICES ASSUME IInv, NEW s \in Side, at[s] = "wait", net[s] = <<>>, ~skewed,
                      half = NoStore
               PROVE  at[Peer(s)] = "process" /\ HasFinalKeys(Peer(s))
    BY DEF TagsWillCome
  <2> DEFINE o == Peer(s)
  <2>0. o \in Side /\ o # s /\ Peer(o) = s /\ \A t \in Side : t = s \/ t = o
    BY Sides
  <2>1. Working
    <3>1. InStep
      BY DEF IInv, Doomed
    <3>2. ~Rest
      BY DEF Rest
    <3>3. ASSUME NEW t \in Side, Denied(t) \/ Finished(t) PROVE FALSE
      BY <2>0, <3>3 DEF Denied, Finished
    <3> QED
      BY <3>1, <3>2, <3>3 DEF InStep
  <2>2. at[o] \in {"process", "wait"} /\ Has(db[s])
        /\ net[s] = IF at[o] = "wait" THEN <<Message(o)>> ELSE <<>>
    BY <2>0, <2>1 DEF Working
  <2>3. at[o] = "process"
    BY <2>2
  <2>4. Mirror(db[s], db[o])
    BY <2>1, BooksPlain DEF Working
  <2> QED
    BY <2>2, <2>3, <2>4, MirrorHas DEF HasFinalKeys, Has
<1> QED
  BY <1>1, Invariance, PTL

-----------------------------------------------------------------------------
(* What is stored: every byte of a key once.                               *)

Fields == {"valid", "real", "evt", "inj", "cnt", "data", "count", "countReal", "inserted", "picked"}
Table(d) == DOMAIN d = Fields /\ d.valid \subseteq Id

(* m is a quantum of key k between the bytes a and b. *)
Part(m, k, a, b) == m \in Nat \X Nat /\ m[1] = k /\ a <= m[2] /\ m[2] + Quantum <= b

(* r holds what d held and parts of key k between the bytes a and b.       *)
Added(r, d, k, a, b) ==
    /\ Table(r)
    /\ \A i \in r.valid : (i \in d.valid /\ r.data[i] = d.data[i]) \/ Part(r.data[i], k, a, b)

(* What d holds is of key 0, of keys before key id, or, unless the side is *)
(* at work on it, of key id behind the bytes left to forward.              *)
Mine(d, id, busy, left) ==
    \A i \in d.valid :
        LET m == d.data[i]
        IN  /\ m \in Nat \X Nat
            /\ m[1] = 0 \/ m[1] < id \/ (m[1] = id /\ ~busy /\ left <= m[2])

Disjoint(a, b) ==
    \A i \in a.valid, j \in b.valid :
        LET m == a.data[i]  n == b.data[j]
        IN  m[1] = n[1] /\ m[1] # 0 => m[2] + Quantum <= n[2] \/ n[2] + Quantum <= m[2]

Spare(dbs, id, busy, left) ==
    /\ DOMAIN dbs = Dir
    /\ \A dir \in Dir : Table(dbs[dir]) /\ Mine(dbs[dir], id, busy, left)
    /\ Disjoint(dbs["in"], dbs["out"])

Numbers ==
    /\ current.id \in Nat /\ threshold \in [Side -> Nat] /\ size \in [Side -> Nat]
    /\ at \in [Side -> {"idle", "process", "wait"}] /\ DOMAIN db = Side /\ DOMAIN net = Side
    /\ \A s \in Side : net[s] # <<>> => Head(net[s]).threshold \in Nat

Uses == Numbers /\ \A s \in Side : Spare(db[s], current.id, at[s] # "idle", size[s])

LEMMA LeastNumber ==
    ASSUME NEW C \in SUBSET Nat, C # {}
    PROVE  \E n \in C : \A m \in C : n <= m
<1> DEFINE Less == OpToRel(<, Nat)
<1>1. PICK n \in C : \A m \in C : ~(<<m, n>> \in Less)
  BY WFMin, NatLessThanWellFounded
<1>2. \A x, y \in Nat : x < y => <<x, y>> \in Less
  BY Zenon DEF OpToRel
<1> HIDE DEF Less
<1>3. \A m \in C : ~(m < n)
  BY <1>1, <1>2
<1> QED
  BY <1>3

LEMMA GreatestNumber ==
    ASSUME NEW m \in Nat, NEW S \in SUBSET (1 .. m), S # {}
    PROVE  \E x \in S : \A y \in S : x >= y
<1> DEFINE C == {m - x : x \in S}
<1>1. C \in SUBSET Nat /\ C # {}
  <2>1. \A x \in S : m - x \in Nat
    OBVIOUS
  <2>2. PICK x \in S : TRUE
    OBVIOUS
  <2> QED
    BY <2>1, <2>2
<1> HIDE DEF C
<1>2. PICK c \in C : \A e \in C : c <= e
  BY <1>1, LeastNumber
<1>3. PICK x \in S : c = m - x
  BY DEF C
<1>4. \A y \in S : m - y \in C
  BY DEF C
<1>5. \A y \in S : m - x <= m - y
  BY <1>2, <1>3, <1>4
<1> QED
  BY <1>5

(* One quantum changes one slot, or none. *)
LEMMA QuantumAdds ==
    ASSUME NEW d, Table(d), NEW m
    PROVE  LET r == StoreQuantum(d, m)
           IN  /\ Table(r)
               /\ \A i \in r.valid : (i \in d.valid /\ r.data[i] = d.data[i]) \/ r.data[i] = m
<1> DEFINE Stored(r) ==
             /\ Table(r)
             /\ \A i \in r.valid : (i \in d.valid /\ r.data[i] = d.data[i]) \/ r.data[i] = m
           ins == Insert(d, m, Quantum, Amount)
<1>1. \A f : DOMAIN f \subseteq {InsertSlot(d)} /\ (\A j \in DOMAIN f : f[j] = m)
              => Stored(SetKeys(d, f))
  BY DEF SetKeys, Table, Fields
<1>2. Stored(SetKey(d, InsertSlot(d), m, Quantum))
  <2>1. SetKey(d, InsertSlot(d), m, Quantum) = SetKeys(d, [j \in {InsertSlot(d)} |-> m])
    BY QuantumAssumption DEF SetKey
  <2>2. \A j \in {InsertSlot(d)} : [j2 \in {InsertSlot(d)} |-> m][j] = m
    OBVIOUS
  <2> QED
    BY <1>1, <2>1, <2>2
<1>3. \A r, n : Stored(r) => Stored([r EXCEPT !.inserted = n])
  BY DEF Table, Fields
<1>4. Stored(d)
  OBVIOUS
<1> HIDE DEF Stored
<1>5. Stored(ins.db)
  BY <1>2, <1>3, <1>4 DEF Insert
<1>6. \A r, S : Stored(r) => Stored(SetRealSync(SetInjected(r, S), S))
  BY DEF Stored, Table, Fields, SetRealSync, SetInjected
<1>7. Stored(StoreQuantum(d, m))
  BY <1>5, <1>6 DEF StoreQuantum
<1> QED
  BY <1>7 DEF Stored

(* Storing n bytes from byte a on adds parts of these only.  The fold over *)
(* the quanta exists (it is built up by the number of quanta), and keeps   *)
(* what each step keeps: no number of quanta is the least for which it     *)
(* does not.                                                               *)
LEMMA BytesAdd ==
    ASSUME NEW d, Table(d), NEW k \in Nat, NEW a \in Nat, NEW n \in Nat
    PROVE  Added(StoreBytes(d, k, a, n), d, k, a, a + n)
<1> DEFINE m == n \div Quantum
           D == 1 .. m
           q == [i \in D |-> <<k, a + (i - 1) * Quantum>>]
           Good(r) == Added(r, d, k, a, a + n)
           Upto(j) == {s \in SUBSET D : Cardinality(s) <= j}
           Next1(f, s) == IF s = {} THEN d ELSE StoreQuantum(f[s \ {Max(s)}], q[Max(s)])
           Fold(f, j) == f = [s \in Upto(j) |-> Next1(f, s)]
<1>1. m \in Nat /\ m * Quantum <= n
  BY QuantumAssumption
<1>2. IsFiniteSet(D) /\ Cardinality(D) = m
  BY <1>1, FS_Interval
<1>3. \A s \in SUBSET D : IsFiniteSet(s) /\ Cardinality(s) \in Nat /\ Cardinality(s) <= m
  BY <1>1, <1>2, FS_Subset, FS_CardinalityType
<1>4. ASSUME NEW s \in SUBSET D, s # {}
      PROVE  /\ Max(s) \in s /\ s \ {Max(s)} \in SUBSET D
             /\ Cardinality(s \ {Max(s)}) = Cardinality(s) - 1
  <2>1. Max(s) \in s
    BY <1>1, <1>4, GreatestNumber DEF Max
  <2> QED
    BY <1>3, <2>1, FS_RemoveElement
<1>5. \A s \in SUBSET D : Cardinality(s) = 0 <=> s = {}
  BY <1>3, FS_EmptySet
<1> HIDE DEF D, m
<1>6. \A j \in 0 .. m : \E f : Fold(f, j)
  <2> DEFINE Bad == {j \in 0 .. m : ~\E f : Fold(f, j)}
  <2> SUFFICES ASSUME Bad # {} PROVE FALSE
    OBVIOUS
  <2>1. Bad \in SUBSET Nat
    BY <1>1
  <2>2. PICK j \in Bad : \A i \in Bad : j <= i
    BY <2>1, LeastNumber
  <2>3. j \in 0 .. m /\ ~\E f : Fold(f, j)
    OBVIOUS
  <2>4. CASE j = 0
    <3> DEFINE f == [s \in Upto(j) |-> d]
    <3>1. \A s \in Upto(j) : Next1(f, s) = d
      BY <1>3, <1>5, <2>4
    <3>2. Fold(f, j)
      BY <3>1
    <3> QED
      BY <2>3, <3>2
  <2>5. CASE j # 0
    <3>1. j - 1 \in 0 .. m /\ ~(j <= j - 1)
      BY <1>1, <2>3, <2>5
    <3>2. PICK f : Fold(f, j - 1)
      BY <2>2, <3>1
    <3> DEFINE g == [s \in Upto(j) |-> Next1(f, s)]
    <3>3. ASSUME NEW s \in Upto(j) PROVE Next1(g, s) = Next1(f, s)
      <4>1. CASE s = {}
        BY <4>1
      <4>2. CASE s # {}
        <5> DEFINE u == s \ {Max(s)}
        <5>1. s \in SUBSET D /\ Cardinality(s) <= j /\ Cardinality(s) \in Nat
          BY <1>3
        <5>2. u \in SUBSET D /\ Cardinality(u) = Cardinality(s) - 1
          BY <1>4, <4>2, <5>1
        <5>3. u \in Upto(j - 1) /\ u \in Upto(j)
          BY <2>3, <5>1, <5>2
        <5> HIDE DEF u
        <5>4. f[u] = Next1(f, u) /\ g[u] = Next1(f, u)
          BY <3>2, <5>3
        <5>5. f[u] = g[u]
          BY <5>4
        <5> QED
          BY <4>2, <5>5 DEF u
      <4> QED
        BY <4>1, <4>2
    <3>4. Fold(g, j)
      <4>1. \A s \in Upto(j) : g[s] = Next1(f, s)
        OBVIOUS
      <4>2. \A s \in Upto(j) : g[s] = Next1(g, s)
        BY <3>3, <4>1
      <4>3. g = [s \in Upto(j) |-> g[s]]
        OBVIOUS
      <4> HIDE DEF g
      <4> QED
        BY <4>2, <4>3
    <3> QED
      BY <2>3, <3>4
  <2> QED
    BY <2>4, <2>5
<1> DEFINE iter == CHOOSE f : f = [s \in SUBSET D |-> Next1(f, s)]
<1>7. StoreBytes(d, k, a, n) = iter[D]
  BY DEF StoreBytes, FoldLeft, MapThenFoldSet, D, m
<1>8. iter = [s \in SUBSET D |-> Next1(iter, s)]
  <2>1. Upto(m) = SUBSET D
    BY <1>3
  <2> m \in 0 .. m
    BY <1>1
  <2>2. PICK f : Fold(f, m)
    BY <1>6
  <2>3. f = [s \in SUBSET D |-> Next1(f, s)]
    BY <2>1, <2>2
  <2> QED
    BY <2>3
<1> HIDE DEF iter
<1>9. \A s \in SUBSET D : iter[s] = Next1(iter, s)
  BY <1>8
<1>10. \A s \in SUBSET D : Good(iter[s])
  <2> DEFINE Bad == {j \in 0 .. m : \E s \in SUBSET D : Cardinality(s) = j /\ ~Good(iter[s])}
  <2> SUFFICES ASSUME Bad # {} PROVE FALSE
    <3>1. \A s \in SUBSET D : Cardinality(s) \in 0 .. m
      BY <1>1, <1>3
    <3> QED
      BY <3>1
  <2>1. Bad \in SUBSET Nat
    BY <1>1
  <2>2. PICK j \in Bad : \A i \in Bad : j <= i
    BY <2>1, LeastNumber
  <2>3. PICK s \in SUBSET D : Cardinality(s) = j /\ ~Good(iter[s])
    OBVIOUS
  <2>4. s # {}
    <3>1. Good(d)
      BY DEF Added
    <3> QED
      BY <1>9, <2>3, <3>1
  <2> DEFINE x == Max(s)
             u == s \ {x}
  <2>5. x \in D /\ u \in SUBSET D /\ Cardinality(u) = j - 1
    BY <1>4, <2>3, <2>4
  <2>6. iter[s] = StoreQuantum(iter[u], q[x])
    BY <1>9, <2>4
  <2> HIDE DEF x, u
  <2>7. Good(iter[u])
    <3>1. j \in 0 .. m /\ Cardinality(u) \in Nat
      BY <1>3, <2>5
    <3>2. j - 1 \in 0 .. m /\ ~(j <= j - 1)
      BY <1>1, <2>5, <3>1
    <3>3. j - 1 \notin Bad
      BY <2>2, <3>2
    <3> QED
      BY <2>5, <3>2, <3>3
  <2>8. Part(q[x], k, a, a + n)
    <3>1. x \in Nat /\ x - 1 \in Nat /\ x <= m /\ q[x] = <<k, a + (x - 1) * Quantum>>
      BY <1>1, <2>5 DEF D
    <3>2. (x - 1) * Quantum \in Nat
      BY <3>1, QuantumAssumption
    <3>3. (x - 1) * Quantum + Quantum = x * Quantum /\ x * Quantum <= m * Quantum
      BY <1>1, <3>1, QuantumAssumption
    <3> DEFINE y == (x - 1) * Quantum
               z == x * Quantum
               w == m * Quantum
    <3>4. y \in Nat /\ y + Quantum = z /\ z <= w /\ w <= n /\ z \in Int /\ w \in Int
      BY <1>1, <3>1, <3>2, <3>3, QuantumAssumption
    <3>5. q[x] = <<k, a + y>>
      BY <3>1
    <3> HIDE DEF y, z, w, q
    <3> QED
      BY <3>4, <3>5, QuantumAssumption DEF Part
  <2> HIDE DEF q
  <2>9. Good(iter[s])
    <3>1. Table(iter[u])
      BY <2>7 DEF Added
    <3>2. /\ Table(iter[s])
          /\ \A i \in iter[s].valid :
                (i \in iter[u].valid /\ iter[s].data[i] = iter[u].data[i]) \/ iter[s].data[i] = q[x]
      BY <2>6, <3>1, QuantumAdds
    <3> QED
      BY <2>7, <2>8, <3>2 DEF Added
  <2> QED
    BY <2>3, <2>9
<1> QED
  BY <1>7, <1>10

(* nibble() takes bytes off the high end of what is left of the key. *)
LEMMA NibbleAdds ==
    ASSUME NEW d, Table(d), NEW t \in Nat, NEW k \in Nat, NEW n \in Nat
    PROVE  LET r == Nibble(d, t, k, n)
           IN  r.left \in 0 .. n /\ Added(r.db, d, k, r.left, n)
<1> DEFINE eat == IF Available(d) >= t THEN 0 ELSE IF n < t THEN n ELSE t
<1>1. eat \in Nat /\ n - eat \in Nat /\ n - eat <= n /\ (n - eat) + eat = n
  OBVIOUS
<1>2. Nibble(d, t, k, n) = [db |-> StoreBytes(d, k, n - eat, eat), left |-> n - eat]
  BY DEF Nibble
<1> HIDE DEF eat
<1>3. Added(StoreBytes(d, k, n - eat, eat), d, k, n - eat, n)
  BY <1>1, BytesAdd
<1> QED
  BY <1>1, <1>2, <1>3

(* The next key is begun: all that was stored is of keys before it. *)
LEMMA BeginsSpare ==
    ASSUME NEW dbs, NEW id \in Nat, NEW busy \in BOOLEAN, NEW left \in Nat, NEW n,
           Spare(dbs, id, busy, left)
    PROVE  Spare(dbs, id + 1, TRUE, n)
<1>1. ASSUME NEW d, Mine(d, id, busy, left) PROVE Mine(d, id + 1, TRUE, n)
  BY <1>1 DEF Mine
<1> QED
  BY <1>1 DEF Spare

(* The work on a key ends, or goes on, without a byte stored. *)
LEMMA EndsSpare ==
    ASSUME NEW dbs, NEW id \in Nat, NEW busy, NEW m, NEW n, Spare(dbs, id, TRUE, m)
    PROVE  Spare(dbs, id, busy, n)
<1>1. ASSUME NEW d, Mine(d, id, TRUE, m) PROVE Mine(d, id, busy, n)
  BY <1>1 DEF Mine
<1> QED
  BY <1>1 DEF Spare

(* Keys leave a database. *)
LEMMA LessHeld ==
    ASSUME NEW d, Table(d), NEW S
    PROVE  LET e == Del(d, S)
           IN  Table(e) /\ \A i \in e.valid : i \in d.valid /\ e.data[i] = d.data[i]
<1> DEFINE e == Del(d, S)
<1>1. DOMAIN e = Fields /\ e.valid = d.valid \ S
  BY DEF Del, Table, Fields
<1>2. e.data = [i \in Id |-> IF i \in S THEN NoMaterial ELSE d.data[i]]
  BY DEF Del, Table, Fields
<1> HIDE DEF e
<1>3. Table(e) /\ \A i \in e.valid : i \in d.valid /\ e.data[i] = d.data[i]
  BY <1>1, <1>2 DEF Table
<1> QED
  BY <1>3 DEF e

LEMMA UsedUpSpare ==
    ASSUME NEW dbs, NEW id \in Nat, NEW busy, NEW left, Spare(dbs, id, busy, left),
           NEW f, DOMAIN f = Dir, \A dir \in Dir : \E S : f[dir] = Del(dbs[dir], S)
    PROVE  Spare(f, id, busy, left)
<1>1. \A dir \in Dir :
        /\ Table(f[dir])
        /\ \A i \in f[dir].valid : i \in dbs[dir].valid /\ f[dir].data[i] = dbs[dir].data[i]
  BY LessHeld DEF Spare
<1>2. \A dir \in Dir : Mine(f[dir], id, busy, left)
  BY <1>1 DEF Spare, Mine
<1>3. Disjoint(f["in"], f["out"])
  BY <1>1 DEF Spare, Disjoint, Dir
<1> QED
  BY <1>1, <1>2, <1>3 DEF Spare

(* Final keys of store_keys are of key 0, no part of a key processed. *)
LEMMA GivenSpare ==
    ASSUME NEW dbs, NEW id \in Nat, NEW busy, NEW left, Spare(dbs, id, busy, left),
           NEW dir \in Dir, NEW a \in Nat, NEW n \in Nat
    PROVE  Spare([dbs EXCEPT ![dir] = StoreBytes(@, 0, a, n)], id, busy, left)
<1> DEFINE f == [dbs EXCEPT ![dir] = StoreBytes(@, 0, a, n)]
<1>1. DOMAIN f = Dir /\ f[dir] = StoreBytes(dbs[dir], 0, a, n)
      /\ \A o \in Dir : o # dir => f[o] = dbs[o]
  BY DEF Spare
<1> HIDE DEF f
<1>2. \A o \in Dir :
        /\ Table(f[o])
        /\ \A i \in f[o].valid :
              (i \in dbs[o].valid /\ f[o].data[i] = dbs[o].data[i]) \/ Part(f[o].data[i], 0, a, a + n)
  BY <1>1, BytesAdd DEF Spare, Added
<1>3. \A o \in Dir : Mine(f[o], id, busy, left)
  BY <1>2 DEF Spare, Mine, Part
<1>4. Disjoint(f["in"], f["out"])
  BY <1>2 DEF Spare, Disjoint, Dir, Part
<1>5. Spare(f, id, busy, left)
  BY <1>1, <1>2, <1>3, <1>4 DEF Spare
<1> QED
  BY <1>5 DEF f

(* refill_local_keystores() cuts the key in three: what is left of it in   *)
(* front, what the database fed second got behind that, and what the one   *)
(* fed first got at the end.                                               *)
LEMMA RefillSpare ==
    ASSUME NEW s \in Side, NEW dbs, NEW t \in Nat, NEW n \in Nat, NEW m,
           current.id \in Nat, Spare(dbs, current.id, TRUE, m)
    PROVE  LET r == Refill(s, dbs, t, n)
           IN  r.left \in Nat /\ Spare(r.dbs, current.id, FALSE, r.left)
<1> DEFINE id == current.id
           r == Refill(s, dbs, t, n)
           f == FirstFed(s)
           g == Opposite(f)
           one == Nibble(dbs[f], t, id, n)
           two == Nibble(dbs[g], t, id, one.left)
<1>1. CASE ~current.amplified
  <2>1. r.dbs = dbs /\ r.left = n
    BY <1>1 DEF Refill
  <2>2. Spare(dbs, id, FALSE, n)
    BY EndsSpare
  <2> HIDE DEF r
  <2>3. r.left \in Nat /\ Spare(r.dbs, id, FALSE, r.left)
    BY <2>1, <2>2
  <2> QED
    BY <2>3 DEF r
<1>2. CASE current.amplified
  <2>1. f \in Dir /\ g \in Dir /\ \A dir \in Dir : dir # f <=> dir = g
    BY DEF FirstFed, Dir, Opposite
  <2>2. r = [dbs |-> [dir \in Dir |-> IF dir = f THEN one.db ELSE two.db], left |-> two.left]
    BY <1>2 DEF Refill
  <2> HIDE DEF f, g
  <2>3. one.left \in 0 .. n /\ Added(one.db, dbs[f], id, one.left, n)
    BY <2>1, NibbleAdds DEF Spare
  <2>4. one.left \in Nat
    BY <2>3
  <2>5. two.left \in 0 .. one.left /\ Added(two.db, dbs[g], id, two.left, one.left)
    BY <2>1, <2>4, NibbleAdds DEF Spare
  <2> HIDE DEF one, two
  <2> DEFINE a == one.db
             b == two.db
             mid == one.left
             left == two.left
  <2>6. mid \in Nat /\ left \in Nat /\ left <= mid
    BY <2>4, <2>5
  <2>7. \A i \in a.valid : \/ i \in dbs[f].valid /\ a.data[i] = dbs[f].data[i]
                         \/ Part(a.data[i], id, mid, n)
    BY <2>3 DEF Added
  <2>8. \A i \in b.valid : \/ i \in dbs[g].valid /\ b.data[i] = dbs[g].data[i]
                         \/ Part(b.data[i], id, left, mid)
    BY <2>5 DEF Added
  <2>9. Table(a) /\ Table(b)
    BY <2>3, <2>5 DEF Added
  <2>10. Mine(dbs[f], id, TRUE, m) /\ Mine(dbs[g], id, TRUE, m)
    BY <2>1 DEF Spare
  <2>11. Disjoint(dbs[f], dbs[g])
    BY <2>1, QuantumAssumption DEF Spare, Disjoint, Dir
  <2>12. r.dbs = [dir \in Dir |-> IF dir = f THEN a ELSE b] /\ r.left = left
    BY <2>2
  <2> HIDE DEF a, b, mid, left, r, id
  <2>13. id \in Nat
    BY DEF id
  <2>14. Mine(a, id, FALSE, left)
    BY <2>6, <2>7, <2>10, <2>13 DEF Mine, Part
  <2>15. Mine(b, id, FALSE, left)
    BY <2>6, <2>8, <2>10, <2>13 DEF Mine, Part
  <2>16. ASSUME NEW i \in a.valid, NEW j \in b.valid,
                a.data[i][1] = b.data[j][1], a.data[i][1] # 0
         PROVE  \/ a.data[i][2] + Quantum <= b.data[j][2]
                \/ b.data[j][2] + Quantum <= a.data[i][2]
    <3>1. CASE Part(a.data[i], id, mid, n)
      <4>1. b.data[j][1] = id /\ id # 0
        BY <2>16, <3>1 DEF Part
      <4>2. ~(j \in dbs[g].valid /\ b.data[j] = dbs[g].data[j])
        BY <2>10, <2>13, <4>1 DEF Mine
      <4>3. Part(b.data[j], id, left, mid)
        BY <2>8, <4>2
      <4> QED
        BY <2>6, <3>1, <4>3, QuantumAssumption DEF Part
    <3>2. CASE i \in dbs[f].valid /\ a.data[i] = dbs[f].data[i]
      <4>1. j \in dbs[g].valid /\ b.data[j] = dbs[g].data[j]
        BY <2>8, <2>10, <2>13, <2>16, <3>2 DEF Mine, Part
      <4> QED
        BY <2>11, <2>16, <3>2, <4>1 DEF Disjoint
    <3> QED
      BY <2>7, <3>1, <3>2
  <2>17. Disjoint(a, b) /\ Disjoint(b, a)
    BY <2>16 DEF Disjoint
  <2>18. Spare(r.dbs, id, FALSE, left)
    BY <2>1, <2>9, <2>12, <2>14, <2>15, <2>17 DEF Spare, Dir
  <2> QED
    BY <2>6, <2>12, <2>18 DEF r, id
<1> QED
  BY <1>1, <1>2

Kept(s) == Spare(db[s], current.id, at[s] # "idle", size[s])

LEMMA InitUses == Init => Uses
<1> SUFFICES ASSUME Init PROVE Uses
  OBVIOUS
<1>1. Numbers
  BY SizesAssumption DEF Init, Numbers, Side
<1>2. Table(Empty) /\ Empty.valid = {}
  BY DEF Empty, Table, Fields
<1>3. \A id, busy, left : Spare([dir \in Dir |-> Empty], id, busy, left)
  BY <1>2 DEF Spare, Mine, Disjoint, Dir
<1>4. \A s \in Side : db[s] = [dir \in Dir |-> Empty]
  BY DEF Init
<1> QED
  BY <1>1, <1>3, <1>4 DEF Uses

(* A step of one side leaves the databases of the other alone.             *)
LEMMA OneSideUses ==
    ASSUME Uses, Numbers', NEW s \in Side, Kept(s)', UNCHANGED current,
           \A o \in Side : o # s => db'[o] = db[o] /\ at'[o] = at[o] /\ size'[o] = size[o]
    PROVE  Uses'
<1>1. ASSUME NEW o \in Side PROVE Spare(db'[o], current'.id, at'[o] # "idle", size'[o])
  <2>1. CASE o = s
    BY <2>1 DEF Kept
  <2>2. CASE o # s
    <3>1. db'[o] = db[o] /\ at'[o] = at[o] /\ size'[o] = size[o] /\ current'.id = current.id
      BY <2>2
    <3>2. Spare(db[o], current.id, at[o] # "idle", size[o])
      BY DEF Uses
    <3> QED
      BY <3>1, <3>2
  <2> QED
    BY <2>1, <2>2
<1> QED
  BY <1>1 DEF Uses

(* A side at work that ends it, with nothing more stored, or goes on. *)
LEMMA StopsUses ==
    ASSUME Uses, NEW s \in Side, at[s] # "idle", UNCHANGED <<db, current>>
    PROVE  Kept(s)'
<1>1. Spare(db[s], current.id, at[s] # "idle", size[s]) /\ current.id \in Nat
  BY DEF Uses, Numbers
<1>2. (at[s] # "idle") = TRUE
  OBVIOUS
<1>3. Spare(db[s], current.id, TRUE, size[s])
  BY <1>1, <1>2
<1>4. Spare(db'[s], current'.id, at'[s] # "idle", size'[s])
  BY <1>1, <1>3, EndsSpare
<1> QED
  BY <1>4 DEF Kept

LEMMA PickUses == ASSUME Uses, Pick PROVE Uses'
<1>1. PICK n \in KeySizes, amplified \in BOOLEAN, alike \in BOOLEAN :
        /\ current' = [id |-> current.id + 1, size |-> n, amplified |-> amplified, alike |-> alike]
        /\ size' = [s \in Side |-> n]
  BY DEF Pick
<1>2. n \in Nat /\ current.id \in Nat /\ current'.id = current.id + 1
  BY <1>1, SizesAssumption DEF Uses, Numbers
<1>3. \A s \in Side : at'[s] = "process" /\ at[s] = "idle" /\ size'[s] = n
  BY <1>1 DEF Pick
<1>4. Numbers'
  BY <1>1, <1>2 DEF Pick, Uses, Numbers
<1>5. ASSUME NEW s \in Side PROVE Spare(db'[s], current'.id, at'[s] # "idle", size'[s])
  <2>1. Spare(db[s], current.id, at[s] # "idle", size[s]) /\ size[s] \in Nat
    BY DEF Uses, Numbers
  <2>2. Spare(db[s], current.id + 1, TRUE, n)
    BY <1>2, <2>1, BeginsSpare
  <2>3. (at'[s] # "idle") = TRUE
    BY <1>3
  <2>4. db'[s] = db[s]
    BY DEF Pick
  <2> QED
    BY <1>2, <1>3, <2>2, <2>3, <2>4
<1> QED
  BY <1>4, <1>5 DEF Uses

LEMMA RefusesUses ==
    ASSUME Uses, NEW s \in Side, at[s] # "idle", Refuses(s), UNCHANGED current,
           net' = net \/ net' = [net EXCEPT ![s] = <<>>]
    PROVE  Uses'
<1>1. Numbers'
  BY DEF Uses, Numbers, Refuses, Ends
<1>2. Kept(s)'
  BY StopsUses DEF Refuses
<1>3. \A o \in Side : o # s => db'[o] = db[o] /\ at'[o] = at[o] /\ size'[o] = size[o]
  BY DEF Refuses, Ends, Uses, Numbers
<1> QED
  BY <1>1, <1>2, <1>3, OneSideUses

LEMMA SendUses == ASSUME Uses, NEW s \in Side, Send(s) PROVE Uses'
<1>1. CASE ~HasFinalKeys(s) /\ Refuses(s) /\ UNCHANGED net
  BY <1>1, RefusesUses DEF Send
<1>2. CASE net' = [net EXCEPT ![Peer(s)] = <<Message(s)>>] /\ at' = [at EXCEPT ![s] = "wait"]
           /\ UNCHANGED <<db, threshold, size>>
  <2>1. Message(s).threshold \in Nat
    BY DEF Message, Uses, Numbers
  <2>2. Numbers'
    BY <1>2, <2>1 DEF Send, Uses, Numbers
  <2>3. Kept(s)'
    BY <1>2, StopsUses DEF Send
  <2>4. \A o \in Side : o # s => db'[o] = db[o] /\ at'[o] = at[o] /\ size'[o] = size[o]
    BY <1>2 DEF Uses, Numbers
  <2> QED
    BY <2>2, <2>3, <2>4, OneSideUses DEF Send
<1> QED
  BY <1>1, <1>2 DEF Send, Message

LEMMA ReceiveUses == ASSUME Uses, NEW s \in Side, Receive(s) PROVE Uses'
<1> DEFINE m == Head(net[s])
           r == Refill(s, [dir \in Dir |-> UsedUp(s, dir)], Adopted(s, m), size[s])
<1>1. at[s] = "wait" /\ net[s] # <<>> /\ net' = [net EXCEPT ![s] = <<>>] /\ UNCHANGED current
  BY DEF Receive
<1>2. CASE Refuses(s)
  BY <1>1, <1>2, RefusesUses
<1>3. CASE /\ Ends(s)
           /\ threshold' = [threshold EXCEPT ![s] = Adopted(s, m)]
           /\ db' = [db EXCEPT ![s] = r.dbs]
           /\ size' = [size EXCEPT ![s] = r.left]
  <2>1. Adopted(s, m) \in Nat /\ size[s] \in Nat /\ current.id \in Nat
    BY <1>1 DEF Adopted, Uses, Numbers
  <2>2. (at[s] # "idle") = TRUE
    BY <1>1
  <2>3. Spare(db[s], current.id, TRUE, size[s])
    BY <2>2 DEF Uses
  <2>4. Spare([dir \in Dir |-> UsedUp(s, dir)], current.id, TRUE, size[s])
    BY <2>1, <2>3, UsedUpSpare DEF UsedUp
  <2>5. r.left \in Nat /\ Spare(r.dbs, current.id, FALSE, r.left)
    BY <2>1, <2>4, RefillSpare
  <2> HIDE DEF r
  <2>6. Numbers'
    BY <1>1, <1>3, <2>1, <2>5 DEF Ends, Uses, Numbers
  <2>7. at'[s] = "idle" /\ db'[s] = r.dbs /\ size'[s] = r.left
    BY <1>3 DEF Ends, Uses, Numbers
  <2>8. (at'[s] # "idle") = FALSE
    BY <2>7
  <2>9. Spare(db'[s], current'.id, at'[s] # "idle", size'[s])
    BY <1>1, <2>5, <2>7, <2>8
  <2>10. \A o \in Side : o # s => db'[o] = db[o] /\ at'[o] = at[o] /\ size'[o] = size[o]
    BY <1>3 DEF Ends, Uses, Numbers
  <2>11. Kept(s)'
    BY <2>9 DEF Kept
  <2> QED
    BY <1>1, <2>6, <2>10, <2>11, OneSideUses
<1> QED
  BY <1>2, <1>3 DEF Receive

LEMMA GivenUses ==
    ASSUME Uses, NEW s \in Side, NEW dir \in Dir, NEW n \in Nat, Given(s, dir, n),
           UNCHANGED <<threshold, at, current, size, net>>
    PROVE  Uses'
<1>1. Numbers'
  BY DEF Given, Uses, Numbers
<1>2. Spare(db[s], current.id, at[s] # "idle", size[s]) /\ current.id \in Nat
  BY DEF Uses, Numbers
<1> DEFINE e == [db[s] EXCEPT ![dir] = StoreBytes(@, 0, 2 * FinalKeySize * n, 2 * FinalKeySize)]
<1>3. 2 * FinalKeySize * n \in Nat /\ 2 * FinalKeySize \in Nat
  BY SizesAssumption
<1>4. Spare(e, current.id, at[s] # "idle", size[s])
  BY <1>2, <1>3, GivenSpare
<1>5. db'[s] = e /\ \A o \in Side : o # s => db'[o] = db[o]
  BY DEF Given, Uses, Numbers
<1> HIDE DEF e
<1>6. Spare(db'[s], current'.id, at'[s] # "idle", size'[s])
  BY <1>4, <1>5
<1>7. Kept(s)'
  BY <1>6 DEF Kept
<1> QED
  BY <1>1, <1>5, <1>7, OneSideUses

LEMMA NextUses ==
    ASSUME Uses, stores \in Nat, Shape, [Next]_vars
    PROVE  Uses' /\ stores' \in Nat
<1>1. ASSUME Pick PROVE Uses' /\ UNCHANGED stores
  BY <1>1, PickUses DEF Pick
<1>2. ASSUME NEW s \in Side, Send(s) PROVE Uses' /\ UNCHANGED stores
  BY <1>2, SendUses DEF Send
<1>3. ASSUME NEW s \in Side, Receive(s) PROVE Uses' /\ UNCHANGED stores
  BY <1>3, ReceiveUses DEF Receive
<1>4. ASSUME NEW s \in Side, ReceiptFails(s) PROVE Uses' /\ UNCHANGED stores
  BY <1>4, RefusesUses DEF ReceiptFails
<1>5. ASSUME NEW s \in Side, Resume(s) PROVE Uses' /\ UNCHANGED stores
  BY <1>5 DEF Resume, Uses, Numbers
<1>6. ASSUME NEW s \in Side, SetThreshold(s) PROVE Uses' /\ UNCHANGED stores
  <2>1. PICK t \in Thresholds : threshold' = [threshold EXCEPT ![s] = t]
    BY <1>6 DEF SetThreshold
  <2>2. Numbers'
    BY <1>6, <2>1, SizesAssumption DEF SetThreshold, Uses, Numbers
  <2> QED
    BY <1>6, <2>2 DEF SetThreshold, Uses
<1>7. ASSUME NEW s \in Side, NEW dir \in Dir, StoreKeys(s, dir) PROVE Uses' /\ stores' \in Nat
  <2>1. stores + 1 \in Nat /\ stores' = stores + 1 /\ Given(s, dir, stores + 1)
    BY <1>7 DEF StoreKeys
  <2>2. UNCHANGED <<threshold, at, current, size, net>>
    BY <1>7 DEF StoreKeys
  <2> QED
    BY <2>1, <2>2, GivenUses
<1>8. ASSUME StoreKeysAtPeer PROVE Uses' /\ UNCHANGED stores
  <2>1. PICK s \in Side : half.by = Peer(s) /\ Given(s, Opposite(half.dir), stores)
    BY <1>8 DEF StoreKeysAtPeer
  <2>2. UNCHANGED <<threshold, at, current, size, net, stores>>
    BY <1>8 DEF StoreKeysAtPeer
  <2>3. Opposite(half.dir) \in Dir
    BY <2>1, Sides DEF Shape, NoStore
  <2> QED
    BY <2>1, <2>2, <2>3, GivenUses
<1>9. ASSUME UNCHANGED vars PROVE Uses' /\ UNCHANGED stores
  BY <1>9 DEF vars, Uses, Numbers
<1> QED
  BY <1>1, <1>2, <1>3, <1>4, <1>5, <1>6, <1>7, <1>8, <1>9 DEF Next

LEMMA UsesOnce == Uses => OneUse
<1> SUFFICES ASSUME Uses, NEW s \in Side
             PROVE  /\ Disjoint(db[s]["in"], db[s]["out"])
                    /\ \A dir \in Dir : \A i \in db[s][dir].valid :
                         db[s][dir].data[i][1] = current.id /\ current.id # 0
                            => db[s][dir].data[i][2] >= size[s]
  BY DEF OneUse, Disjoint
<1>1. Spare(db[s], current.id, at[s] # "idle", size[s])
  BY DEF Uses
<1>2. current.id \in Nat /\ size[s] \in Nat
  BY DEF Uses, Numbers
<1>3. Disjoint(db[s]["in"], db[s]["out"])
  BY <1>1 DEF Spare
<1>4. ASSUME NEW dir \in Dir, NEW i \in db[s][dir].valid,
             db[s][dir].data[i][1] = current.id, current.id # 0
      PROVE  db[s][dir].data[i][2] >= size[s]
  <2>1. Mine(db[s][dir], current.id, at[s] # "idle", size[s])
    BY <1>1 DEF Spare
  <2>2. db[s][dir].data[i] \in Nat \X Nat /\ size[s] <= db[s][dir].data[i][2]
    BY <1>2, <1>4, <2>1 DEF Mine
  <2> QED
    BY <1>2, <2>2
<1> QED
  BY <1>3, <1>4

(* No byte of a key processed is put to two uses (OneUse, nibble() and     *)
(* refill_local_keystores() in qkd-auth.cpp): what one database got of it  *)
(* the other did not, and neither is still part of the key forwarded,      *)
(* whatever the thresholds, and however many keys were refilled with.      *)
THEOREM EveryByteOnce == Spec => []OneUse
<1>1. Init => Uses /\ stores \in Nat
  BY InitUses DEF Init
<1>2. Uses /\ stores \in Nat /\ IInv /\ [Next]_vars => (Uses /\ stores \in Nat)'
  BY NextUses DEF IInv
<1>3. Uses => OneUse
  BY UsesOnce
<1> QED
  BY <1>1, <1>2, <1>3, Invariance, PTL DEF Spec
=============================================================================
