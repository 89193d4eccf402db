--------------------------- MODULE MCLinkFlooding ---------------------------
(***************************************************************************)
(* Instances of LinkFlooding.  Bots b1 and b2 have addresses h1 and h2 and *)
(* two routers between them, of addresses x and y on the way from b1, and  *)
(* y on the way back; each bot also traces itself.                         *)
(***************************************************************************)
EXTENDS LinkFlooding

CONSTANTS b1, b2, b3, h1, h2, x, y, n1, n2, nx, ny

MCBot == {b1, b2}
MCThreeBots == {b1, b2, b3}
MCAddr == {h1, h2, x, y}
MCNode == {n1, n2, nx, ny}
MCHolder == [a \in MCAddr |-> CASE a = h1 -> n1 [] a = h2 -> n2
                                [] a = x -> nx  [] a = y -> ny]

(* y is on the second link of its router. *)
MCDevice == [a \in MCAddr |-> IF a = y THEN 2 ELSE 1]

(* Full routes: h1, h2 and y are each on two of them. *)
MCPath == [b \in MCBot |-> [r \in MCBot |->
    CASE b = b1 /\ r = b1 -> <<h1>>
      [] b = b1 /\ r = b2 -> <<x, y, h2>>
      [] b = b2 /\ r = b1 -> <<y, h1>>
      [] b = b2 /\ r = b2 -> <<h2>>]]

(* Shorter routes, for the runs in which every event interleaves. *)
ShortPath(bots) == [b \in bots |-> [r \in bots |->
    CASE b = b1 /\ r = b2 -> <<x, y>>
      [] b = b2 /\ r = b1 -> <<y>>
      [] OTHER -> <<>>]]
MCShortPath == ShortPath(MCBot)
MCThreePath == ShortPath(MCThreeBots)

NoWaits == {}
StartsAndRoutes == {"starts", "routes"}
AllWaits == {"starts", "routes", "answer"}

(* Bot b3 has no route to the controller, b2 none to the bot it traced. *)
AllRoutes == {}
SomeRoutesMissing == {<<b3, "CC">>, <<b2, b1>>}
=============================================================================
