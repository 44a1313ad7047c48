----------------------------- MODULE MCQ3PLoad -----------------------------
(***************************************************************************)
(* Model checking of Q3PLoad: tables of six or seven slots, two buffer     *)
(* keys to a common store key.                                             *)
(***************************************************************************)
EXTENDS Q3PLoad
=============================================================================
