------------------------------ MODULE SlotPool ------------------------------
(***************************************************************************)
(* What a key database promises to the code that shares one: a pool of     *)
(* slots.  A slot is free or stores one material, and is held or not.  A   *)
(* search takes hold of slots nobody holds, all of them free or all of     *)
(* them stored; a key that is stored or dropped leaves its slot unheld; a  *)
(* restart lets go of every slot and loses no key.                         *)
(*                                                                         *)
(* This is the abstract specification module KeyStore implements: it knows *)
(* nothing of cursors, running totals, flags or search order.              *)
(***************************************************************************)
EXTENDS Integers

CONSTANTS Slots, Material, NoMaterial

VARIABLES
    stored,     \* slot -> its material, or NoMaterial when the slot is free
    held        \* the slots some caller holds

poolVars == <<stored, held>>

Free == {i \in Slots : stored[i] = NoMaterial}

PoolInit ==
    /\ stored = [i \in Slots |-> NoMaterial]
    /\ held = {}

(* A search hands out slots nobody holds, all stored or all free. *)
Hold(S) ==
    /\ S \subseteq Slots \ held
    /\ S \subseteq Free \/ S \cap Free = {}
    /\ held' = held \cup S
    /\ UNCHANGED stored

(* The holder, who knows the slot's number, decides whether it stays held *)
Mark(i, h) ==
    /\ held' = IF h THEN held \cup {i} ELSE held \ {i}
    /\ UNCHANGED stored

(* A key is stored in a slot, whatever the slot held. *)
Store(i, m) ==
    /\ stored' = [stored EXCEPT ![i] = m]
    /\ held' = held \ {i}

Drop(i) ==
    /\ stored' = [stored EXCEPT ![i] = NoMaterial]
    /\ held' = held \ {i}

Restart ==
    /\ held' = {}
    /\ UNCHANGED stored

PoolNext ==
    \/ \E S \in SUBSET Slots : Hold(S)
    \/ \E i \in Slots, h \in BOOLEAN : Mark(i, h)
    \/ \E i \in Slots, m \in Material : Store(i, m)
    \/ \E i \in Slots : Drop(i)
    \/ Restart

PoolSpec == PoolInit /\ [][PoolNext]_poolVars
=============================================================================
