----------------------------- MODULE MCCascade -----------------------------
(***************************************************************************)
(* Model checking of Cascade: a key of one byte with up to four errors,    *)
(* three passes, three permutations (an interleaving and two that mix the  *)
(* halves).                                                                *)
(***************************************************************************)
EXTENDS Cascade

MCAliceKeys == {{1, 2, 6}}
MCShuffles ==
    LET of(s) == [p \in 0 .. 7 |-> s[p + 1]]
    IN  {of(<<0, 4, 1, 5, 2, 6, 3, 7>>), of(<<4, 2, 6, 0, 7, 1, 5, 3>>),
         of(<<3, 6, 0, 5, 2, 7, 1, 4>>)}
=============================================================================
