------------------------------ MODULE Cascade ------------------------------
(***************************************************************************)
(* The error correction of a key (src/bin/modules/qkd-cascade).  Alice and *)
(* Bob cut the key, shuffled anew in each pass, into blocks, tell each     *)
(* other the parities of the blocks and halve a block whose parities       *)
(* differ until one bit is left, which Bob flips.  Each keeps its own      *)
(* books of the blocks, their parities and the bits known to be right:     *)
(* nothing but the parities is exchanged, and the answer to a message is   *)
(* read by its place.  The average error rate the block sizes depend on is *)
(* never fed in this revision: all blocks are halves of the key.           *)
(***************************************************************************)
EXTENDS Integers, Sequences, FiniteSets, SequencesExt

CONSTANTS
    Bits,       \* bits of the key
    AliceKeys,  \* keys of Alice, as sets of bits that are 1
    Shuffles,   \* permutations a pass may draw
    Passes,     \* passes configured at first
    (* bounds of the exploration *)
    MaxErrors,  \* bits in which the keys differ
    MaxFaults   \* receipts that fail, settings of passes

Pos == 0 .. Bits - 1
Side == {"alice", "bob"}
Peer(s) == IF s = "alice" THEN "bob" ELSE "alice"

ASSUME BitsAssumption == Bits \in Nat \ {0} /\ Bits % 8 = 0
ASSUME KeysAssumption == AliceKeys \subseteq SUBSET Pos
ASSUME ShufflesAssumption ==
    Shuffles # {} /\ \A p \in Shuffles : p \in [Pos -> Pos] /\ IsInjective(p)
ASSUME BoundsAssumption == Passes \in Nat /\ MaxErrors \in Nat /\ MaxFaults \in Nat

VARIABLES
    frame,     \* side -> its key and its books (class frame)
    drawn,     \* pass -> permutation: both seed their generator alike
    net,       \* side -> parities on their way to it
    passes,    \* side -> passes()
    errors,    \* history: the bits in which the keys differed at first
    faults     \* bound

vars == <<frame, drawn, net, passes, errors, faults>>

Identity == [p \in Pos |-> p]
Block(offset, size, diff) == [offset |-> offset, size |-> size, diff |-> diff]
Span(b) == b.offset .. b.offset + b.size - 1
Odd(S) == Cardinality(S) % 2 = 1
Image(perm, S) == {perm[p] : p \in S}
Inverse1(perm, i) == CHOOSE p \in Pos : perm[p] = i

(* A checker of a pass: the permutation, the key when it was made, the bits *)
(* flipped since, the blocks with the parity difference, those that differ, *)
(* and the bits known to be right, all under the permutation.              *)
NewChecker(perm, key, right) ==
    [perm |-> perm, base |-> Image(perm, key), changed |-> {},
     blocks |-> {}, odd |-> {}, right |-> Image(perm, right)]

Frame(key) ==
    [key |-> key, at |-> "pass", step |-> 0, checkers |-> <<>>, cur |-> 0,
     work |-> <<>>, calc |-> <<>>, right |-> {}, corrected |-> {}, disclosed |-> 0]

Init ==
    /\ errors \in {E \in SUBSET Pos : Cardinality(E) <= MaxErrors}
    /\ \E a \in AliceKeys :
         frame = [s \in Side |->
             Frame(IF s = "alice" THEN a ELSE (a \ errors) \cup (errors \ a))]
    /\ drawn = <<>> /\ net = [s \in Side |-> <<>>]
    /\ passes = [s \in Side |-> Passes] /\ faults = 0

-----------------------------------------------------------------------------
(* The books of a side.                                                    *)

(* frame::notify_correct_bit, and of every checker. *)
KnownRight(f, p) ==
    [f EXCEPT !.right = @ \cup {p},
              !.checkers = [i \in DOMAIN @ |-> [@[i] EXCEPT !.right = @ \cup {f.checkers[i].perm[p]}]]]

(* Faulty: the flip is not noted beside the parities made before it. *)
ToldUnnoted(c, p, local) ==
    LET b   == CHOOSE x \in c.blocks : c.perm[p] \in Span(x)
        new == [b EXCEPT !.diff = ~@]
    IN  [c EXCEPT !.blocks = (@ \ {b}) \cup {new},
                  !.odd = IF new.diff THEN @ \cup {new} ELSE @ \ {b}]

(* parity_checker::notify_bit_change_local and _remote. *)
Told(c, p, local) ==
    LET b   == CHOOSE x \in c.blocks : c.perm[p] \in Span(x)
        new == [b EXCEPT !.diff = ~@]
    IN  [c EXCEPT !.blocks = (@ \ {b}) \cup {new},
                  !.odd = IF new.diff THEN @ \cup {new} ELSE @ \ {b},
                  !.changed = IF local THEN @ \cup {c.perm[p]} ELSE @]

(* Faulty: Alice does not mark the bit as right. *)
CorrectedUnmarked(s, f, i) ==
    LET p == Inverse1(f.checkers[f.cur].perm, i)
        bob == s = "bob"
        g == [f EXCEPT !.corrected = @ \cup {p},
                       !.key = IF ~bob THEN @ ELSE IF p \in @ THEN @ \ {p} ELSE @ \cup {p},
                       !.checkers = [j \in DOMAIN @ |-> Told(@[j], p, bob)]]
    IN  IF bob THEN KnownRight(g, p) ELSE g

(* A block of one bit: Bob flips the bit, Alice notes that he does.        *)
Corrected(s, f, i) ==
    LET p == Inverse1(f.checkers[f.cur].perm, i)
        bob == s = "bob"
        g == [f EXCEPT !.corrected = @ \cup {p},
                       !.key = IF ~bob THEN @ ELSE IF p \in @ THEN @ \ {p} ELSE @ \cup {p},
                       !.checkers = [j \in DOMAIN @ |-> Told(@[j], p, bob)]]
    IN  KnownRight(g, p)

(* The checker at work is the last while it is made, else the one picked.  *)
Checker(f) == f.checkers[f.cur]
Making(f) == Checker(f).blocks = {}

Needed(c, b) == ~(Span(b) \subseteq c.right)
Unknown(f) == SelectSeq(f.calc, LAMBDA b : Needed(Checker(f), b))

(* After the first pass the differences of all blocks of a pass are even   *)
(* in number: one parity less is told.                                     *)
Spared(f) == IF Making(f) /\ f.step > 1 /\ Unknown(f) # <<>> THEN 1 ELSE 0

Asked(f) == SubSeq(Unknown(f), 1, Len(Unknown(f)) - Spared(f))

(* The parity of a block when the checker was made, and the flips since.   *)
ParityOf(c, b) == Odd(c.base \cap Span(b)) # Odd(c.changed \cap Span(b))

(* calculate_block_diffparities(), up to the receipt. *)
Exchange(s, f) ==
    LET parities == [i \in DOMAIN Asked(f) |-> ParityOf(Checker(f), Asked(f)[i])]
    IN  IF parities = <<>>
        THEN /\ frame' = [frame EXCEPT ![s] = [f EXCEPT !.at = "settle"]]
             /\ UNCHANGED net
        ELSE /\ frame' = [frame EXCEPT ![s] =
                    [f EXCEPT !.at = "wait", !.disclosed = @ + Len(parities)]]
             /\ net' = [net EXCEPT ![Peer(s)] = Append(@, parities)]

(* What the comparison says of the blocks: those known right are even, the *)
(* one spared makes the sum even.                                          *)
Judged(f, peers) ==
    LET own == [i \in DOMAIN Asked(f) |-> ParityOf(Checker(f), Asked(f)[i])]
        diff == [i \in DOMAIN own |-> own[i] # peers[i]]
        sum == Odd({i \in DOMAIN diff : diff[i]})
        place(k) == Cardinality({j \in 1 .. k : Needed(Checker(f), f.calc[j])})
    IN  [k \in DOMAIN f.calc |->
            [f.calc[k] EXCEPT !.diff =
                IF ~Needed(Checker(f), f.calc[k]) THEN FALSE
                ELSE IF place(k) <= Len(diff) THEN diff[place(k)] ELSE sum]]

(* Blocks of one bit that do not differ: the bit is right. *)
SinglesRight(f, judged) ==
    FoldLeft(LAMBDA g, b : IF b.size = 1 /\ ~b.diff
                           THEN KnownRight(g, Inverse1(Checker(f).perm, b.offset)) ELSE g,
             f, judged)

First(b)  == Block(b.offset, (b.size + 1) \div 2, FALSE)
Second(b) == Block(b.offset + First(b).size, b.size - First(b).size, FALSE)

(* One half differs, the other does not. *)
Halves(b, compared) ==
    LET first == (compared.offset = Second(b).offset) # compared.diff
    IN  <<[First(b) EXCEPT !.diff = first], [Second(b) EXCEPT !.diff = ~first]>>

(* The second half of correct_blocks()'s loop: each block is replaced by   *)
(* its halves, and the one that differs is worked on.                      *)
Split(f, judged) ==
    FoldLeft(LAMBDA g, i :
        LET h == Halves(f.work[i], judged[i])
            c == [Checker(g) EXCEPT
                    !.blocks = (@ \ {f.work[i]}) \cup {h[1], h[2]},
                    !.odd = (@ \ {f.work[i]}) \cup {IF h[1].diff THEN h[1] ELSE h[2]}]
        IN  SinglesRight([g EXCEPT !.checkers[f.cur] = c,
                                   !.work[i] = IF h[1].diff THEN h[1] ELSE h[2]], h),
        f, [i \in DOMAIN judged |-> i])

(* A checker is complete: its blocks, and those that differ. *)
Made(f, judged) ==
    [f EXCEPT !.checkers[f.cur].blocks = ToSet(judged),
              !.checkers[f.cur].odd = {b \in ToSet(judged) : b.diff},
              !.at = "next"]

Compared(f, judged) ==
    LET g == SinglesRight(f, judged)
    IN  IF Making(f) THEN Made(g, judged) ELSE [Split(g, judged) EXCEPT !.at = "halve"]

-----------------------------------------------------------------------------
(* One side, from one blocking call to the next.                           *)

StartPass(s) ==
    /\ frame[s].at = "pass" /\ frame[s].step < passes[s]
    /\ LET f == frame[s]
           n == f.step + 1
           half == (Bits + 1) \div 2
       IN  \E perm \in IF n = 1 THEN {Identity} ELSE Shuffles :
             /\ IF n <= Len(drawn) THEN perm = drawn[n] /\ UNCHANGED drawn
                ELSE drawn' = Append(drawn, perm)
             /\ Exchange(s, [f EXCEPT
                    !.step = n, !.cur = n,
                    !.checkers = Append(@, NewChecker(perm, f.key, f.right)),
                    !.calc = <<Block(0, half, FALSE), Block(half, Bits - half, FALSE)>>])
    /\ UNCHANGED <<passes, errors, faults>>

Done(s) ==
    /\ frame[s].at = "pass" /\ frame[s].step >= passes[s]
    /\ frame' = [frame EXCEPT ![s].at = "done"]
    /\ UNCHANGED <<drawn, net, passes, errors, faults>>

BySize(a, b) == a.size < b.size \/ (a.size = b.size /\ a.offset < b.offset)

(* Faulty: only the checker of this pass is looked at. *)
PickCheckerNewest(s) ==
    /\ frame[s].at = "next"
    /\ LET f == frame[s]
       IN  frame' = [frame EXCEPT ![s] =
               IF f.checkers[f.step].odd = {} THEN [f EXCEPT !.at = "pass"]
               ELSE [f EXCEPT !.at = "halve", !.cur = f.step,
                              !.work = SetToSortSeq(f.checkers[f.step].odd, BySize)]]
    /\ UNCHANGED <<drawn, net, passes, errors, faults>>

(* The first checker with blocks that differ; none is left: the next pass. *)
PickChecker(s) ==
    /\ frame[s].at = "next"
    /\ LET f == frame[s]
           busy == {i \in DOMAIN f.checkers : f.checkers[i].odd # {}}
           i == CHOOSE j \in busy : \A k \in busy : j <= k
       IN  frame' = [frame EXCEPT ![s] =
               IF busy = {} THEN [f EXCEPT !.at = "pass"]
               ELSE [f EXCEPT !.at = "halve", !.cur = i,
                              !.work = SetToSortSeq(f.checkers[i].odd, BySize)]]
    /\ UNCHANGED <<drawn, net, passes, errors, faults>>

(* The first half of correct_blocks()'s loop: single bits are corrected,   *)
(* of each other block the second half is compared if it is known to be    *)
(* right, else the first.                                                  *)
Halve(s) ==
    /\ frame[s].at = "halve"
    /\ LET f == frame[s]
           g == FoldLeft(LAMBDA h, b : IF b.size = 1 THEN Corrected(s, h, b.offset) ELSE h,
                         f, f.work)
           rest == SelectSeq(f.work, LAMBDA b : b.size > 1)
           half(b) == IF Needed(Checker(g), Second(b)) THEN First(b) ELSE Second(b)
       IN  IF rest = <<>>
           THEN /\ frame' = [frame EXCEPT ![s] =
                      [g EXCEPT !.work = <<>>, !.calc = <<>>,
                                !.at = IF f.step = 1 THEN "pass" ELSE "next"]]
                /\ UNCHANGED net
           ELSE Exchange(s, [g EXCEPT !.work = rest, !.calc = [i \in DOMAIN rest |-> half(rest[i])]])
    /\ UNCHANGED <<drawn, passes, errors, faults>>

(* Nothing had to be asked. *)
Settle(s) ==
    /\ frame[s].at = "settle"
    /\ frame' = [frame EXCEPT ![s] = Compared(@, Judged(@, <<>>))]
    /\ UNCHANGED <<drawn, net, passes, errors, faults>>

(* An answer of another length is logged, the blocks asked for are taken   *)
(* to differ, and the work goes on.                                        *)
Receive(s) ==
    /\ frame[s].at = "wait" /\ net[s] # <<>>
    /\ LET f == frame[s]
           m == Head(net[s])
           unjudged == [k \in DOMAIN f.calc |-> [f.calc[k] EXCEPT !.diff = Needed(Checker(f), f.calc[k])]]
       IN  frame' = [frame EXCEPT ![s] =
               IF Len(m) # Len(Asked(f)) THEN Compared(f, unjudged)
               ELSE Compared(f, Judged(f, m))]
    /\ net' = [net EXCEPT ![s] = Tail(@)]
    /\ UNCHANGED <<drawn, passes, errors, faults>>

(* The receipt fails, or brings a message about a key the peer has gone on *)
(* to: the key is dropped.                                                 *)
Fails(s) ==
    /\ frame[s].at = "wait" /\ net[s] = <<>>
    /\ frame' = [frame EXCEPT ![s].at = "failed"]
    /\ \/ frame[Peer(s)].at \in {"done", "failed"} /\ UNCHANGED faults
       \/ faults < MaxFaults /\ faults' = faults + 1
    /\ UNCHANGED <<drawn, net, passes, errors>>

(* A D-Bus client sets the number of passes, on one side, at any time. *)
SetPasses(s) ==
    /\ faults < MaxFaults /\ faults' = faults + 1
    /\ \E n \in {passes[s] - 1, passes[s] + 1} \cap 0 .. Passes : passes' = [passes EXCEPT ![s] = n]
    /\ UNCHANGED <<frame, drawn, net, errors>>

Worker(s) ==
    \/ StartPass(s) \/ Done(s) \/ PickChecker(s) \/ Halve(s) \/ Settle(s)
    \/ Receive(s) \/ Fails(s)

Next == \E s \in Side : Worker(s) \/ SetPasses(s)

Spec == Init /\ [][Next]_vars

-----------------------------------------------------------------------------
Blocks(s) == UNION {frame[s].checkers[i].blocks : i \in DOMAIN frame[s].checkers}

(* The errors that are left as a side knows them: Alice is told of no flip *)
(* but knows each one.                                                     *)
Left(s) == (errors \ frame[s].corrected) \cup (frame[s].corrected \ errors)

(* The books are true: a block is marked if and only if the keys differ in *)
(* an odd number of its bits, in the checkers of all passes, whatever was  *)
(* halved, flipped, spared or deduced; the blocks of a checker share the   *)
(* bits of the key out, and no bit known to be right is wrong.             *)
BooksTrue ==
    \A s \in Side :
        /\ frame[s].right \cap Left(s) = {}
        /\ \A i \in DOMAIN frame[s].checkers :
             LET c == frame[s].checkers[i]
                 wrong == Image(c.perm, Left(s))
             IN  /\ c.perm = drawn[i] /\ c.odd = {b \in c.blocks : b.diff}
                 /\ \A b \in c.blocks : b.diff = Odd(wrong \cap Span(b))
                 /\ c.blocks # {} => \A p \in Pos : \E b \in c.blocks :
                        p \in Span(b) /\ \A d \in c.blocks \ {b} : p \notin Span(d)

(* Alice and Bob ask for the same blocks in the same order, though neither *)
(* tells the other which: an answer fits the question (the code logs and   *)
(* ignores one that does not), and they never wait for each other.         *)
AnswersFit ==
    /\ \A s \in Side : frame[s].at = "wait" /\ net[s] # <<>> =>
            Len(Head(net[s])) = Len(Asked(frame[s]))
    /\ \E s \in Side : frame[s].at # "wait" \/ net[s] # <<>>

(* A side ends a pass with no block left that differs, whatever earlier    *)
(* blocks a correction has turned odd again, and both have disclosed as    *)
(* much when both are done.                                                *)
PassesComplete ==
    /\ \A s \in Side : frame[s].at \in {"pass", "done"} => \A b \in Blocks(s) : ~b.diff
    /\ (\A s \in Side : frame[s].at = "done") /\ faults = 0 =>
         frame["alice"].disclosed = frame["bob"].disclosed
=============================================================================
