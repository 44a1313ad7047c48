----------------------------- MODULE MCDistill -----------------------------
(***************************************************************************)
(* A key of two bytes of two bits.                                         *)
(***************************************************************************)
EXTENDS Distill

(* 1 - h(errors / bits), times the bits, rounded down. *)
MCTau == [p \in {<<n, e>> \in (0 .. 4) \X (0 .. 2) : e <= n} |->
             IF p[2] = 0 THEN p[1] ELSE 0]

(* The default, and a rate of a half. *)
MCSettings ==
    {[calculation |-> "security", rate |-> 2, security |-> 1],
     [calculation |-> "rate", rate |-> 1, security |-> 0]}
=============================================================================
