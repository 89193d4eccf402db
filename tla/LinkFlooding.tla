---------------------------- MODULE LinkFlooding ----------------------------
(***************************************************************************)
(* The link-flooding attack: the controller of LinkFloodingCC, the bots of *)
(* LinkFloodingBot, the traceroutes that report to both, and the TCP       *)
(* connections between them.                                               *)
(*                                                                         *)
(* Nothing in the code synchronises the phases: a scenario gives each bot  *)
(* delays and hopes that they are long enough.  WaitsCover names the       *)
(* delays of a scenario that are:                                          *)
(*   "starts"  every application starts before a traceroute reports        *)
(*   "routes"  WaitForRouteMap outlasts every traceroute                   *)
(*   "answer"  WaitForReceive outlasts the exchange with the controller    *)
(* With none of them, events interleave freely.                            *)
(***************************************************************************)
EXTENDS LinkFloodingBot

CONSTANTS
    Path,       \* Path[b][r]: the hops the traceroute from b to r can report
    WaitsCover, \* the delays that are long enough
    MaxRepeats, \* bound: the hops reported twice in a run
    MaxMisses,  \* bound: the hops that never answer in a run
    Node, NoNode, Holder, Device, CountLimit, MaxReports

ASSUME HopAssumption    == NoAddr \notin Addr /\ NoNode \notin Node
ASSUME HolderAssumption == Holder \in [Addr -> Node] /\ Device \in [Addr -> Nat]
ASSUME CountAssumption  == MaxReports \in Nat /\ CountLimit \in Nat /\ CountLimit > 1
ASSUME PathAssumption   == Path \in [Bot -> [Bot -> Seq(Addr)]]
ASSUME WaitsAssumption  == WaitsCover \subseteq {"starts", "routes", "answer"}
ASSUME RepeatAssumption == MaxRepeats \in Nat /\ MaxMisses \in Nat

VARIABLES
    listening, m_routers, m_max_hops, m_max_address, m_critical_node_id,
    captured, answer, sim, tally,
    traced,  \* traced[b][r]: hops of Path[b][r] done with
    repeats, \* how many hops have been reported twice
    misses   \* how many hops went unreported

CC == INSTANCE LinkFloodingCC WITH Client <- Bot

ccVars == <<listening, m_routers, m_max_hops, m_max_address,
            m_critical_node_id, captured, answer, sim, tally>>
netVars == <<traced, repeats, misses>>
vars == <<botVars, ccVars, netVars>>

Init ==
    /\ BotInit
    /\ CC!Init
    /\ traced = [b \in Bot |-> [r \in Bot |-> 0]]
    /\ repeats = 0
    /\ misses = 0

-----------------------------------------------------------------------------
(* The traceroutes.  A V4TraceRoute fires its trace source once per hop;   *)
(* late replies make it report a hop again, lost ones leave a hop out.     *)

Tracing(b, r) == traced[b][r] < Len(Path[b][r])

RoutesDone == \A b, r \in Bot : ~Tracing(b, r)

Started == listening /\ \A b \in Bot : appState[b] # "idle"

(* One firing of the trace source runs the callbacks of both applications. *)
Report(b, r, hop) ==
    /\ "starts" \in WaitsCover => Started
    /\ RouteTraceCallback(b, r, hop)
    /\ IF listening THEN CC!RouteTraceCallback(hop)
       ELSE sim = "running" /\ UNCHANGED ccVars

TraceHop(b, r) ==
    /\ Tracing(b, r)
    /\ Report(b, r, Path[b][r][traced[b][r] + 1])
    /\ traced' = [traced EXCEPT ![b][r] = @ + 1]
    /\ UNCHANGED <<repeats, misses>>

TraceRepeat(b, r) ==
    /\ Tracing(b, r)
    /\ traced[b][r] > 0
    /\ repeats < MaxRepeats
    /\ Report(b, r, Path[b][r][traced[b][r]])
    /\ repeats' = repeats + 1
    /\ UNCHANGED <<traced, misses>>

TraceMiss(b, r) ==
    /\ sim = "running"
    /\ Tracing(b, r)
    /\ misses < MaxMisses
    /\ misses' = misses + 1
    /\ traced' = [traced EXCEPT ![b][r] = @ + 1]
    /\ UNCHANGED <<repeats, botVars, ccVars>>

-----------------------------------------------------------------------------
(* The applications, as the simulator starts them, runs their events and   *)
(* stops them.                                                             *)

CCStart == CC!StartApplication /\ UNCHANGED <<botVars, netVars>>

BotEvent(A) == sim = "running" /\ A /\ UNCHANGED <<ccVars, netVars>>

Start(b)  == BotEvent(StartApplication(b))
Stop(b)   == BotEvent(StopApplication(b))
Flood(b)  == BotEvent(SendPackets(b))

EndWaitForRoutes(b) ==
    /\ "routes" \in WaitsCover => RoutesDone
    /\ BotEvent(CompleteWaitForTraceRoute(b))

EndWaitForReceive(b) ==
    /\ "answer" \in WaitsCover =>
          m_target_address[b] # NoAddr \/ m_cc_socket[b] = "refused"
    /\ BotEvent(StartAttack(b))

(* exit(1) in OpenConnectionCC or OpenConnections. *)
Exit(b) ==
    /\ ConnectFails(b)
    /\ CC!Exit
    /\ UNCHANGED <<botVars, netVars>>

-----------------------------------------------------------------------------
(* The connections to the controller; TCP neither loses nor reorders.      *)

Connected(b) ==
    /\ m_cc_socket' = [m_cc_socket EXCEPT ![b] = "connected"]
    /\ UNCHANGED <<appState, stopDone, m_wait_event, m_routes, m_target_address,
                   m_remote_sockets, m_send_events, flooded, netVars>>

Accept(b) ==
    /\ m_cc_socket[b] = "connecting"
    /\ CC!HandleAccept(b)
    /\ Connected(b)

AcceptHangs(b) ==
    /\ m_cc_socket[b] = "connecting"
    /\ CC!HandleAcceptHangs(b)
    /\ Connected(b)

(* No one listens on the port: the bot sets no callback for the failure.   *)
Refuse(b) ==
    /\ ~listening
    /\ m_cc_socket[b] = "connecting"
    /\ BotEvent(/\ m_cc_socket' = [m_cc_socket EXCEPT ![b] = "refused"]
                /\ UNCHANGED <<appState, stopDone, m_wait_event, m_routes,
                      m_target_address, m_remote_sockets, m_send_events, flooded>>)

(* The answer arrives, also at a bot that was stopped meanwhile. *)
Read(b) ==
    /\ answer[b] # NoAddr
    /\ m_target_address[b] = NoAddr
    /\ BotEvent(HandleRead(b, answer[b]))

-----------------------------------------------------------------------------
BotNext(b) ==
    \/ Start(b) \/ Stop(b) \/ Flood(b)
    \/ EndWaitForRoutes(b) \/ EndWaitForReceive(b) \/ Exit(b)
    \/ Accept(b) \/ AcceptHangs(b) \/ Refuse(b) \/ Read(b)
    \/ \E r \in Bot : TraceHop(b, r) \/ TraceRepeat(b, r) \/ TraceMiss(b, r)

Next == CCStart \/ \E b \in Bot : BotNext(b)

Spec == Init /\ [][Next]_vars

(* Simulator::Run executes every event that is scheduled and not cancelled *)
(* and TCP retransmits until it gets through.  StopTime may lie beyond the *)
(* end of the run, so Stop is not fair.                                    *)
BotFairness(b) ==
    /\ WF_vars(Start(b))
    /\ WF_vars(EndWaitForRoutes(b))
    /\ WF_vars(EndWaitForReceive(b))
    /\ WF_vars(Exit(b))
    /\ WF_vars(Accept(b) \/ AcceptHangs(b) \/ Refuse(b))
    /\ WF_vars(Read(b))
    /\ \A r \in Bot : WF_vars(TraceHop(b, r) \/ TraceMiss(b, r))

FairSpec == Spec /\ WF_vars(CCStart) /\ \A b \in Bot : BotFairness(b)

-----------------------------------------------------------------------------
TypeOK ==
    /\ BotTypeOK
    /\ CC!TypeOK
    /\ traced \in [Bot -> [Bot -> Nat]]
    /\ repeats \in 0 .. MaxRepeats
    /\ misses \in 0 .. MaxMisses

(* Where the routes that the bots have mapped hold address a. *)
Entries(a, routes) ==
    UNION {{<<p, i>> : i \in {j \in DOMAIN routes[p[1]][p[2]] : routes[p[1]][p[2]][j] = a}} :
             p \in Bot \X Bot}

(* "calculates the most used link ... and sends the target link address to *)
(* all the bots": what a bot has received is the most reported address of  *)
(* the finished traceroutes, and so the same for every bot.                *)
OneFinalTarget ==
    \A b \in Bot : m_target_address[b] # NoAddr =>
      /\ CC!MostUsed(m_target_address[b])
      /\ \A c \in Bot : m_target_address[c] \in {NoAddr, m_target_address[b]}

(* The two records of the reports fit together: the address the controller *)
(* keeps in m_max_address from its own counters, and a bot received, is on *)
(* some bot's route, and none is more often on the routes that the bots    *)
(* keep in m_routes.  What was reported before an application connected to *)
(* the trace sources is missing from one record only.                      *)
TargetIsMostRecorded ==
    \A b \in Bot : m_target_address[b] # NoAddr =>
      LET crossings == Entries(m_target_address[b], m_routes) IN
      /\ crossings # {}
      /\ \A a \in Addr : Cardinality(Entries(a, m_routes)) <= Cardinality(crossings)

(* The node captured with the first answer is the one that holds the       *)
(* target of every bot, and nothing else is captured.  Of that node it is  *)
(* device 1: the link of the target only if the target is on that device,  *)
(* whatever "the packet trace obtained at the critical link" promises.     *)
TargetNodeIsCaptured ==
    \A b \in Bot : m_target_address[b] # NoAddr =>
      LET target == m_target_address[b] IN
      /\ captured = {<<Holder[target], 1>>}
      /\ <<Holder[target], Device[target]>> \in captured <=> Device[target] = 1

(* A bot floods only bots whose traceroute crossed its target, and has no  *)
(* more sockets to one than times it was reported to, even when hops are   *)
(* reported or the answer arrives after the attack has begun.              *)
FloodsCrossTarget ==
    \A b, r \in Bot :
      LET crossings == Occurrences(m_target_address[b], m_routes[b][r]) IN
      /\ r \in flooded[b] => crossings > 0
      /\ m_remote_sockets[b][r] <= crossings

(* After StopApplication nothing is left that could send: no wait that     *)
(* would start the attack, no send event and no open socket to a bot.      *)
StopIsQuiet ==
    \A b \in Bot : appState[b] = "stopped" =>
      /\ m_wait_event[b] = "none"
      /\ ~m_send_events[b]
      /\ Remotes(m_remote_sockets[b]) = {}

(* The attack implements the agreement on one target. *)
Abstract == INSTANCE TargetAgreement WITH
    chosen <- IF m_critical_node_id = NoNode THEN NoAddr ELSE m_max_address,
    learned <- m_target_address,
    attacking <- {b \in Bot : flooded[b] # {}}
ImplementsAgreement == Abstract!Spec

(* A bot that learns its target in time, and has a route across it, ends   *)
(* up flooding, unless it or the simulation stops first.                   *)
FloodStarts ==
    \A b \in Bot :
      (/\ m_target_address[b] # NoAddr
       /\ m_wait_event[b] = "Receive"
       /\ Remotes(CalculateRemoteAddress(b)) # {})
        ~> (flooded[b] # {} \/ appState[b] = "stopped" \/ sim # "running")

(* Every bot that connects hears from the controller or is refused. *)
EveryBotIsAnswered ==
    \A b \in Bot : m_cc_socket[b] = "connecting"
        ~> (m_target_address[b] # NoAddr \/ m_cc_socket[b] = "refused"
            \/ sim = "exited")

-----------------------------------------------------------------------------
(* A claim of a comment that the code does not keep; the README says what  *)
(* happens instead.                                                        *)

(* "when a remote address can't be found, stop the application": a bot     *)
(* without a remote has no send event.                                     *)
NoRemoteStops ==
    \A b \in Bot : m_send_events[b] => Remotes(m_remote_sockets[b]) # {}
=============================================================================
