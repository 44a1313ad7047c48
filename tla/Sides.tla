------------------------------- MODULE Sides -------------------------------
(***************************************************************************)
(* What the modules of the post processing have in common: the two sides   *)
(* of a link, and the bits of a byte.                                      *)
(***************************************************************************)

CONSTANT Byte   \* bits of a byte, 8 in the code

Side == {"alice", "bob"}
Peer(s) == IF s = "alice" THEN "bob" ELSE "alice"
=============================================================================
