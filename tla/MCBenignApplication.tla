------------------------ MODULE MCBenignApplication ------------------------
(* Streams of a few values: the default ones include 0, and a size that    *)
(* does not fit its 16 bits, here 4 values.                                *)
EXTENDS BenignApplication

MCSizeOf == [t \in RvType |-> IF t = "Constant" THEN {3} ELSE {0, 2, 3}]
=============================================================================
