-------------------------- MODULE MCLinkFloodingCC --------------------------
(* An instance of LinkFloodingCC: three addresses on two nodes. *)
EXTENDS LinkFloodingCC

CONSTANTS a1, a2, a3, n1, n2

MCAddr == {a1, a2, a3}
MCNode == {n1, n2}
MCHolder == [a \in MCAddr |-> IF a = a3 THEN n2 ELSE n1]
MCDevice == [a \in MCAddr |-> IF a = a2 THEN 2 ELSE 1]
=============================================================================
