--------------------------- MODULE MCBotnetHelper ---------------------------
(* Small topologies: none, a single leaf, an AS without leaves, two leaves. *)
EXTENDS BotnetHelper

MCTopology == {<<>>, <<1>>, <<0, 2>>, <<1, 2>>}
=============================================================================
