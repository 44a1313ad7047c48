------------------------------ MODULE MCResize ------------------------------
(***************************************************************************)
(* The cutting and joining of keys, with the sizes given by the            *)
(* configurations.                                                         *)
(***************************************************************************)
EXTENDS Resize
=============================================================================
