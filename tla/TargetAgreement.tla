-------------------------- MODULE TargetAgreement ---------------------------
(***************************************************************************)
(* What the control phase of the link-flooding attack promises             *)
(* (botnet/doc/botnet.md, steps 3 to 5): one target is chosen, every bot   *)
(* that learns a target learns that one, and a bot floods only once it has *)
(* learned it.                                                             *)
(***************************************************************************)
CONSTANTS Bot, Addr, NoAddr

VARIABLES
    chosen,   \* the target, NoAddr until it is chosen
    learned,  \* learned[b]: the target bot b knows of
    attacking \* the bots that have sent attack packets

vars == <<chosen, learned, attacking>>

Init ==
    /\ chosen = NoAddr
    /\ learned = [b \in Bot |-> NoAddr]
    /\ attacking = {}

Choose(a) ==
    /\ chosen = NoAddr
    /\ chosen' = a
    /\ UNCHANGED <<learned, attacking>>

Learn(b) ==
    /\ chosen # NoAddr
    /\ learned' = [learned EXCEPT ![b] = chosen]
    /\ UNCHANGED <<chosen, attacking>>

Attack(b) ==
    /\ learned[b] # NoAddr
    /\ attacking' = attacking \union {b}
    /\ UNCHANGED <<chosen, learned>>

Next ==
    \/ \E a \in Addr : Choose(a)
    \/ \E b \in Bot : Learn(b) \/ Attack(b)

Spec == Init /\ [][Next]_vars
=============================================================================
