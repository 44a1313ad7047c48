----------------------------- MODULE MCSifting -----------------------------
(* Two tables that agree in three, two, one or no pulses. *)
EXTENDS Sifting

D == "diagonal"
R == "rectilinear"

MCTables == {<<D, D, D>>, <<R, D, D>>, <<R, R, "invalid">>}
=============================================================================
