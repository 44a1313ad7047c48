------------------------------ MODULE MCQ3PLink ------------------------------
(***************************************************************************)
(* Model checking of Q3PLink: one side listens, the other connects, loses  *)
(* its connection and connects again, over at most two connections at a    *)
(* time, an old one and a new one.                                         *)
(***************************************************************************)
EXTENDS Q3PLink
=============================================================================
