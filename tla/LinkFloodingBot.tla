-------------------------- MODULE LinkFloodingBot ---------------------------
(***************************************************************************)
(* The bots of the link-flooding attack                                    *)
(* (botnet/model/linkfloodingattack.cc).  Each bot keeps the hops its own  *)
(* traceroutes report, connects to the central controller after            *)
(* WaitForRouteMap, takes the address it is answered with as its target,   *)
(* and after a further WaitForReceive opens a socket to every bot whose    *)
(* route crosses the target and floods it.                                 *)
(*                                                                         *)
(* The module has the bots' handlers only; LinkFlooding composes them with *)
(* the controller and the network.  A bot is also the name of its address  *)
(* as a traceroute destination.  A pending Simulator::Schedule is kept in  *)
(* m_wait_event or m_send_events until it runs or is cancelled.            *)
(***************************************************************************)
EXTENDS Naturals, Sequences, FiniteSets

CONSTANTS
    Bot,       \* the bots
    Addr,      \* the addresses of hops
    NoAddr,    \* the default Ipv4Address of m_target_address
    NoRoute    \* pairs <<b, peer>>: Connect by b to a bot or to "CC" fails

VARIABLES
    appState,         \* the application: idle, running or stopped
    stopDone,         \* has StopApplication run, as it does once, at StopTime?
    m_wait_event,     \* the pending wait: none, RouteMap or Receive
    m_routes,         \* m_routes[b][r]: the hops reported on the way to r
    m_target_address, \* the address received from the controller
    m_cc_socket,      \* none, connecting, refused or connected
    m_remote_sockets, \* m_remote_sockets[b][r]: sockets opened to bot r
    m_send_events,    \* is a SendPackets event pending?
    flooded           \* history: the bots a packet was sent to

botVars == <<appState, stopDone, m_wait_event, m_routes, m_target_address,
             m_cc_socket, m_remote_sockets, m_send_events, flooded>>

BotInit ==
    /\ appState = [b \in Bot |-> "idle"]
    /\ stopDone = [b \in Bot |-> FALSE]
    /\ m_wait_event = [b \in Bot |-> "none"]
    /\ m_routes = [b \in Bot |-> [r \in Bot |-> <<>>]]
    /\ m_target_address = [b \in Bot |-> NoAddr]
    /\ m_cc_socket = [b \in Bot |-> "none"]
    /\ m_remote_sockets = [b \in Bot |-> [r \in Bot |-> 0]]
    /\ m_send_events = [b \in Bot |-> FALSE]
    /\ flooded = [b \in Bot |-> {}]

-----------------------------------------------------------------------------
StartApplication(b) ==
    /\ appState[b] = "idle"
    /\ appState' = [appState EXCEPT ![b] = "running"]
    /\ m_wait_event' = [m_wait_event EXCEPT ![b] = "RouteMap"]
    /\ UNCHANGED <<stopDone, m_routes, m_target_address, m_cc_socket,
                   m_remote_sockets, m_send_events, flooded>>

(* The operators called ...Mistake are plausible errors in the definition  *)
(* they precede; each makes TLC refute a property that should catch it.    *)

RecordedMistake(hops, route) == <<route>>   \* keeps the last hop only
Recorded(hops, route) == Append(hops, route)

(* Connected to the trace source by StartApplication and never             *)
(* disconnected: a stopped bot still records.                              *)
RouteTraceCallback(b, remote, route) ==
    /\ m_routes' = IF appState[b] = "idle" THEN m_routes
                   ELSE [m_routes EXCEPT ![b][remote] = Recorded(@, route)]
    /\ UNCHANGED <<appState, stopDone, m_wait_event, m_target_address,
                   m_cc_socket, m_remote_sockets, m_send_events, flooded>>

(* Ends the first wait: connects to the controller and starts the second.  *)
CompleteWaitForTraceRoute(b) ==
    /\ m_wait_event[b] = "RouteMap"
    /\ <<b, "CC">> \notin NoRoute
    /\ m_cc_socket' = [m_cc_socket EXCEPT ![b] = "connecting"]
    /\ m_wait_event' = [m_wait_event EXCEPT ![b] = "Receive"]
    /\ UNCHANGED <<appState, stopDone, m_routes, m_target_address,
                   m_remote_sockets, m_send_events, flooded>>

HandleRead(b, address) ==
    /\ m_target_address' = [m_target_address EXCEPT ![b] = address]
    /\ UNCHANGED <<appState, stopDone, m_wait_event, m_routes, m_cc_socket,
                   m_remote_sockets, m_send_events, flooded>>

Occurrences(a, route) == Cardinality({i \in DOMAIN route : route[i] = a})

CalculateRemoteAddressMistake(b) == [r \in Bot |-> Len(m_routes[b][r])]  \* no comparison

(* m_remote_addresses: remote r once for each time the target is on the    *)
(* route to r.                                                             *)
CalculateRemoteAddress(b) == [r \in Bot |-> Occurrences(m_target_address[b], m_routes[b][r])]

Remotes(sockets) == {r \in Bot : sockets[r] > 0}

FirstSendPacketsMistake(b, remotes) == UNCHANGED <<flooded, m_send_events>>   \* forgotten

FirstSendPackets(b, remotes) ==
    /\ flooded' = [flooded EXCEPT ![b] = @ \union remotes]
    /\ m_send_events' = [m_send_events EXCEPT ![b] = TRUE]

(* StartAttack: CalculateRemoteAddress, OpenConnections and the first      *)
(* SendPackets.  The StopApplication that CalculateRemoteAddress calls     *)
(* when it finds no remote has nothing to cancel yet and changes nothing.  *)
StartAttack(b) ==
    LET remotes == CalculateRemoteAddress(b) IN
    /\ m_wait_event[b] = "Receive"
    /\ \A r \in Remotes(remotes) : <<b, r>> \notin NoRoute
    /\ m_wait_event' = [m_wait_event EXCEPT ![b] = "none"]
    /\ m_remote_sockets' = [m_remote_sockets EXCEPT ![b] = remotes]
    /\ FirstSendPackets(b, Remotes(remotes))
    /\ UNCHANGED <<appState, stopDone, m_routes, m_target_address, m_cc_socket>>

(* A failing Connect, to the controller or to a remote, is exit(1): the    *)
(* composition ends the simulation.                                        *)
ConnectFails(b) ==
    \/ /\ m_wait_event[b] = "RouteMap"
       /\ <<b, "CC">> \in NoRoute
    \/ /\ m_wait_event[b] = "Receive"
       /\ \E r \in Remotes(CalculateRemoteAddress(b)) : <<b, r>> \in NoRoute

SendPackets(b) ==
    /\ m_send_events[b]
    /\ flooded' = [flooded EXCEPT ![b] = @ \union Remotes(m_remote_sockets[b])]
    /\ m_send_events' = [m_send_events EXCEPT ![b] = TRUE]
    /\ UNCHANGED <<appState, stopDone, m_wait_event, m_routes,
                   m_target_address, m_cc_socket, m_remote_sockets>>

CancelSendEvents(b) == m_send_events' = [m_send_events EXCEPT ![b] = FALSE]

CancelEventMistake(b) == CancelSendEvents(b) /\ UNCHANGED m_wait_event

CancelEvent(b) == CancelSendEvents(b) /\ m_wait_event' = [m_wait_event EXCEPT ![b] = "none"]

(* CancelEvent, and Close on the sockets to the remotes; the one to the    *)
(* controller stays open.  A StopTime before StartTime finds nothing to    *)
(* cancel, and the bot that starts later is not stopped again.             *)
StopApplication(b) ==
    /\ ~stopDone[b]
    /\ stopDone' = [stopDone EXCEPT ![b] = TRUE]
    /\ appState' = [appState EXCEPT ![b] = IF @ = "running" THEN "stopped" ELSE @]
    /\ CancelEvent(b)
    /\ m_remote_sockets' = [m_remote_sockets EXCEPT ![b] = [r \in Bot |-> 0]]
    /\ UNCHANGED <<m_routes, m_target_address, m_cc_socket, flooded>>

-----------------------------------------------------------------------------
BotTypeOK ==
    /\ appState \in [Bot -> {"idle", "running", "stopped"}]
    /\ stopDone \in [Bot -> BOOLEAN]
    /\ m_wait_event \in [Bot -> {"none", "RouteMap", "Receive"}]
    /\ m_routes \in [Bot -> [Bot -> Seq(Addr)]]
    /\ m_target_address \in [Bot -> Addr \union {NoAddr}]
    /\ m_cc_socket \in [Bot -> {"none", "connecting", "refused", "connected"}]
    /\ m_remote_sockets \in [Bot -> [Bot -> Nat]]
    /\ m_send_events \in [Bot -> BOOLEAN]
    /\ flooded \in [Bot -> SUBSET Bot]
=============================================================================
