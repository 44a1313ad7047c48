----------------------------- MODULE MCKeyStore -----------------------------
(***************************************************************************)
(* Model checking of KeyStore on a small table with one material.          *)
(***************************************************************************)
EXTENDS KeyStore

CONSTANTS
    MaxReal,       \* bound: count_real_sync() only grows while keys are set,
                   \* synchronised and deleted
    MaxInjected    \* bound: injected keys at a time

Bounds == db.countReal <= MaxReal /\ Cardinality(db.inj) <= MaxInjected
=============================================================================
