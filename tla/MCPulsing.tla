------------------------------ MODULE MCPulsing ------------------------------
(***************************************************************************)
(* Instances of Pulsing.  The latencies are chosen freely in the initial   *)
(* state, so that one run covers every near and far bot.                   *)
(***************************************************************************)
EXTENDS Pulsing

CONSTANTS b1, b2, c1

MCBots == {b1, b2}
OneController == {c1}

(* Bots listen from ScheduleBots on; b2 misses the connection if it is     *)
(* closer to the controller than 2.                                        *)
MCBotStart == [b \in MCBots |-> IF b = b2 THEN 7 ELSE 0]

SomeStop == {b1, c1}

(* What the alignment of the pulses is proved from holds of this instance. *)
ASSUME TimelyInstance == Timely
=============================================================================
