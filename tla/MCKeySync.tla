----------------------------- MODULE MCKeySync -----------------------------
(***************************************************************************)
(* Model checking of KeySync: two or three keys arriving in any order on   *)
(* each side, any of them expiring, and up to two faults.                  *)
(***************************************************************************)
EXTENDS KeySync
=============================================================================
