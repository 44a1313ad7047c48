------------------------------ MODULE MCEvHash ------------------------------
(***************************************************************************)
(* Blobs of two words of one byte of four bits, with f = x^8 + x^2 + 1.    *)
(* Nothing in the arithmetic needs f to be irreducible; no irreducible one *)
(* of this degree leaves room in a word for two indices.                   *)
(***************************************************************************)
EXTENDS EvHash

MCModulus == {0, 2}
MCByteValues == {{}, {0, 3}}
MCAlphas == {{1, 5, 6}}
MCSymmetry == Permutations(Contexts)
=============================================================================
