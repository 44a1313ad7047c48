------------------------------ MODULE MCQKDAuth ------------------------------
(***************************************************************************)
(* Model checking of QKDAuth: databases so small that inserts reach the    *)
(* end of the table, keys that fill one database but not both, two final   *)
(* keys that share one quantum, and keys that are not a multiple of it.    *)
(***************************************************************************)
EXTENDS QKDAuth

MCMaterial == (0 .. MaxKeys) \X (0 .. 20)
MCNoMaterial == <<-1, 0>>
=============================================================================
