-------------------------- MODULE MCModuleThread ---------------------------
(***************************************************************************)
(* Model checking of ModuleThread: three keys, a pipe for one, three calls *)
(* of the main thread in any order, a module that terminates after two     *)
(* keys.                                                                   *)
(***************************************************************************)
EXTENDS ModuleThread
=============================================================================
