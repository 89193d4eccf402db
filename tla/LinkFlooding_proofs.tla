------------------------- MODULE LinkFlooding_proofs -------------------------
(***************************************************************************)
(* Proofs about LinkFlooding for every number of bots, addresses and nodes *)
(* and all paths.  The invariants of the controller come from the proofs   *)
(* about it: LinkFlooding is shown to implement LinkFloodingCC, so what    *)
(* holds of the controller alone holds of it among the bots.               *)
(***************************************************************************)
EXTENDS LinkFlooding, FiniteSetTheorems, TLAPS

CCP == INSTANCE LinkFloodingCC_proofs WITH Client <- Bot

(* What LinkFloodingCC assumes of its constants holds of those it gets.    *)
LEMMA ControllerAssumptions ==
    /\ CCP!AddrAssumption /\ CCP!NodeAssumption /\ CCP!HolderAssumption
    /\ CCP!LimitAssumption /\ CCP!BoundAssumption
BY HopAssumption, HolderAssumption, CountAssumption DEF CCP!AddrAssumption, CCP!NodeAssumption,
   CCP!HolderAssumption, CCP!LimitAssumption, CCP!BoundAssumption

(* The two instances of the controller take the same steps. *)
LEMMA SameSteps == [CC!Next]_CC!vars => [CCP!Next]_CCP!vars
BY DEF CC!vars, CCP!vars, CC!Next, CCP!Next, CC!StartApplication, CCP!StartApplication,
   CC!Exit, CCP!Exit, CC!RouteTraceCallback, CCP!RouteTraceCallback, CC!Leads, CCP!Leads,
   CC!Incremented, CCP!Incremented, CC!HandleAccept, CCP!HandleAccept, CC!HandleAcceptHangs,
   CCP!HandleAcceptHangs, CC!Accepts, CCP!Accepts, CC!Captured, CCP!Captured, CC!Reply,
   CCP!Reply, CC!CriticalNode, CCP!CriticalNode, CC!GetCriticalNodeIndex,
   CCP!GetCriticalNodeIndex

-----------------------------------------------------------------------------
(* Steps of the composition.                                               *)

TracedType == traced \in [Bot -> [Bot -> Nat]]

(* A traceroute reports hops of its path. *)
LEMMA HopIsAddr ==
    ASSUME TracedType, NEW b \in Bot, NEW r \in Bot, Tracing(b, r)
    PROVE  /\ Path[b][r][traced[b][r] + 1] \in Addr
           /\ traced[b][r] > 0 => Path[b][r][traced[b][r]] \in Addr
<1> DEFINE p == Path[b][r]
           n == traced[b][r]
<1>1. p \in Seq(Addr) /\ n \in Nat /\ n < Len(p)
      BY PathAssumption DEF TracedType, Tracing
<1> HIDE DEF p, n
<1>2. n + 1 \in 1 .. Len(p) /\ (n > 0 => n \in 1 .. Len(p))
      BY <1>1
<1>3. \A i \in 1 .. Len(p) : p[i] \in Addr
      BY <1>1
<1> QED BY <1>2, <1>3 DEF p, n

(* Every firing of a trace source is a Report of an address. *)
LEMMA TraceReports ==
    ASSUME TracedType, NEW b \in Bot, NEW r \in Bot,
           TraceHop(b, r) \/ TraceRepeat(b, r)
    PROVE  Tracing(b, r) /\ \E hop \in Addr : Report(b, r, hop)
BY HopIsAddr DEF TraceHop, TraceRepeat

(* traced keeps its type. *)
LEMMA TracedStep == TracedType /\ [Next]_vars => TracedType'
<1> SUFFICES ASSUME TracedType, [Next]_vars PROVE TracedType'
    OBVIOUS
<1>1. ASSUME NEW b \in Bot, NEW r \in Bot, traced' = [traced EXCEPT ![b][r] = @ + 1]
      PROVE  TracedType'
      BY <1>1 DEF TracedType
<1>2. ASSUME UNCHANGED traced PROVE TracedType'
      BY <1>2 DEF TracedType
<1>3. ASSUME NEW b \in Bot, BotNext(b) PROVE TracedType'
      BY <1>1, <1>2, <1>3 DEF BotNext, Start, Stop, Flood, EndWaitForRoutes, EndWaitForReceive,
         Exit, Accept, AcceptHangs, Connected, Refuse, Read, BotEvent, TraceHop, TraceRepeat,
         TraceMiss, netVars
<1> QED BY <1>2, <1>3 DEF Next, CCStart, vars, netVars

(* Every step of the composition is one of the controller, or leaves it    *)
(* alone.                                                                  *)
LEMMA ControllerStep == TracedType /\ [Next]_vars => [CC!Next]_CC!vars
<1> SUFFICES ASSUME TracedType, [Next]_vars PROVE [CC!Next]_CC!vars
    OBVIOUS
<1>1. CASE UNCHANGED ccVars
      BY <1>1 DEF ccVars, CC!vars
<1>2. CASE CCStart
      BY <1>2 DEF CCStart, CC!Next
<1>3. ASSUME NEW b \in Bot, BotNext(b) PROVE [CC!Next]_CC!vars
  <2>1. CASE Start(b) \/ Stop(b) \/ Flood(b) \/ EndWaitForRoutes(b) \/ EndWaitForReceive(b)
             \/ Refuse(b) \/ Read(b)
        BY <1>1, <2>1 DEF Start, Stop, Flood, EndWaitForRoutes, EndWaitForReceive, Refuse, Read,
           BotEvent
  <2>2. CASE Exit(b) \/ Accept(b) \/ AcceptHangs(b)
        BY <2>2 DEF Exit, Accept, AcceptHangs, CC!Next
  <2>3. ASSUME NEW r \in Bot, NEW hop \in Addr, Report(b, r, hop) PROVE [CC!Next]_CC!vars
        BY <1>1, <2>3 DEF Report, CC!Next
  <2>4. ASSUME NEW r \in Bot, TraceHop(b, r) \/ TraceRepeat(b, r) PROVE [CC!Next]_CC!vars
        BY <2>3, <2>4, TraceReports
  <2>5. ASSUME NEW r \in Bot, TraceMiss(b, r) PROVE [CC!Next]_CC!vars
        BY <1>1, <2>5 DEF TraceMiss
  <2> QED BY <1>3, <2>1, <2>2, <2>4, <2>5 DEF BotNext
<1> QED BY <1>1, <1>2, <1>3 DEF Next, vars

(* The composition implements the controller. *)
THEOREM ImplementsController == Spec => CC!Spec
<1>1. Init => TracedType /\ CC!Init
      BY DEF Init, TracedType
<1>2. TracedType /\ [Next]_vars => TracedType' /\ [CC!Next]_CC!vars
      BY TracedStep, ControllerStep
<1> QED BY <1>1, <1>2, PTL DEF Spec, CC!Spec

(* So does it the controller whose proofs are at hand. *)
LEMMA ImplementsProvedController == Spec => CCP!Spec
<1>1. Init => TracedType /\ CCP!Init
      BY DEF Init, CC!Init, CCP!Init, TracedType
<1>2. TracedType /\ [Next]_vars => TracedType' /\ [CCP!Next]_CCP!vars
      BY TracedStep, ControllerStep, SameSteps
<1> QED BY <1>1, <1>2, PTL DEF Spec, CCP!Spec

-----------------------------------------------------------------------------
(* Types.                                                                  *)

(* A route is finite, so its occurrences of an address are a number, and   *)
(* there are some exactly when the address is on it.                       *)
LEMMA OccurrencesCount ==
    ASSUME NEW route \in Seq(Addr), NEW a
    PROVE  /\ Occurrences(a, route) \in Nat
           /\ Occurrences(a, route) > 0 <=> \E i \in DOMAIN route : route[i] = a
<1> DEFINE at == {i \in DOMAIN route : route[i] = a}
<1>1. IsFiniteSet(at)
  <2>1. DOMAIN route = 1 .. Len(route) /\ Len(route) \in Nat
        OBVIOUS
  <2>2. IsFiniteSet(1 .. Len(route))
        BY <2>1, FS_Interval
  <2> QED BY <2>1, <2>2, FS_Subset
<1>2. Cardinality(at) \in Nat /\ (Cardinality(at) = 0 <=> at = {})
      BY <1>1, FS_CardinalityType, FS_EmptySet
<1>3. at = {} <=> ~ \E i \in DOMAIN route : route[i] = a
      OBVIOUS
<1>4. Occurrences(a, route) = Cardinality(at)
      BY DEF Occurrences
<1> HIDE DEF at
<1> QED BY <1>2, <1>3, <1>4

(* CalculateRemoteAddress counts, for every bot, hops that are the target. *)
LEMMA RemoteAddressType ==
    ASSUME BotTypeOK, NEW b \in Bot
    PROVE  CalculateRemoteAddress(b) \in [Bot -> Nat]
<1>1. \A r \in Bot : Occurrences(m_target_address[b], m_routes[b][r]) \in Nat
      BY OccurrencesCount DEF BotTypeOK
<1> QED BY <1>1 DEF CalculateRemoteAddress

(* A report appends to one route. *)
LEMMA RouteTraceType ==
    ASSUME BotTypeOK, NEW b \in Bot, NEW r \in Bot, NEW hop \in Addr,
           RouteTraceCallback(b, r, hop)
    PROVE  m_routes' \in [Bot -> [Bot -> Seq(Addr)]]
<1>1. m_routes[b][r] \in Seq(Addr) /\ Append(m_routes[b][r], hop) \in Seq(Addr)
      BY DEF BotTypeOK
<1>2. CASE appState[b] = "idle"
      BY <1>2 DEF RouteTraceCallback, BotTypeOK
<1>3. CASE appState[b] # "idle"
      BY <1>1, <1>3 DEF RouteTraceCallback, Recorded, BotTypeOK
<1> QED BY <1>2, <1>3

(* What the bots keep has its types after every step. *)
LEMMA BotTypeStep ==
    ASSUME BotTypeOK, TracedType, [Next]_vars,
           answer \in [Bot -> Addr \union {NoAddr}]
    PROVE  BotTypeOK'
<1>1. CASE UNCHANGED botVars
      BY <1>1 DEF botVars, BotTypeOK
<1>2. ASSUME NEW b \in Bot, BotNext(b) PROVE BotTypeOK'
  <2>1. CASE Start(b)
        BY <2>1 DEF Start, BotEvent, StartApplication, BotTypeOK
  <2>2. CASE Stop(b)
        BY <2>2 DEF Stop, BotEvent, StopApplication, CancelEvent, CancelSendEvents, BotTypeOK
  <2>3. CASE Flood(b)
        BY <2>3 DEF Flood, BotEvent, SendPackets, Remotes, BotTypeOK
  <2>4. CASE EndWaitForRoutes(b)
        BY <2>4 DEF EndWaitForRoutes, BotEvent, CompleteWaitForTraceRoute, BotTypeOK
  <2>5. CASE EndWaitForReceive(b)
    <3> DEFINE remotes == CalculateRemoteAddress(b)
    <3>1. StartAttack(b) /\ remotes \in [Bot -> Nat]
          BY <2>5, RemoteAddressType DEF EndWaitForReceive, BotEvent
    <3>2. /\ m_wait_event' = [m_wait_event EXCEPT ![b] = "none"]
          /\ m_remote_sockets' = [m_remote_sockets EXCEPT ![b] = remotes]
          /\ flooded' = [flooded EXCEPT ![b] = @ \union Remotes(remotes)]
          /\ m_send_events' = [m_send_events EXCEPT ![b] = TRUE]
          /\ UNCHANGED <<appState, stopDone, m_routes, m_target_address, m_cc_socket>>
          BY <3>1 DEF StartAttack, FirstSendPackets
    <3>3. Remotes(remotes) \subseteq Bot
          BY DEF Remotes
    <3> HIDE DEF remotes
    <3> QED BY <3>1, <3>2, <3>3 DEF BotTypeOK
  <2>6. CASE Accept(b) \/ AcceptHangs(b)
        BY <2>6 DEF Accept, AcceptHangs, Connected, BotTypeOK
  <2>7. CASE Refuse(b)
        BY <2>7 DEF Refuse, BotEvent, BotTypeOK
  <2>8. CASE Read(b)
        BY <2>8 DEF Read, BotEvent, HandleRead, BotTypeOK
  <2>9. ASSUME NEW r \in Bot, TraceHop(b, r) \/ TraceRepeat(b, r) PROVE BotTypeOK'
    <3>1. PICK hop \in Addr : RouteTraceCallback(b, r, hop)
          BY <2>9, TraceReports DEF Report
    <3>2. m_routes' \in [Bot -> [Bot -> Seq(Addr)]]
          BY <3>1, RouteTraceType
    <3> QED BY <3>1, <3>2 DEF RouteTraceCallback, BotTypeOK
  <2>10. CASE Exit(b) \/ \E r \in Bot : TraceMiss(b, r)
        BY <1>1, <2>10 DEF Exit, TraceMiss
  <2> QED BY <1>2, <2>1, <2>2, <2>3, <2>4, <2>5, <2>6, <2>7, <2>8, <2>9, <2>10 DEF BotNext
<1> QED BY <1>1, <1>2 DEF Next, CCStart, vars

NetTypeOK == TracedType /\ repeats \in 0 .. MaxRepeats /\ misses \in 0 .. MaxMisses

(* The network counts no further than its bounds. *)
LEMMA NetTypeStep == NetTypeOK /\ [Next]_vars => NetTypeOK'
<1> SUFFICES ASSUME NetTypeOK, [Next]_vars PROVE NetTypeOK'
    OBVIOUS
<1>1. TracedType'
      BY TracedStep DEF NetTypeOK
<1>2. CASE UNCHANGED <<repeats, misses>>
      BY <1>1, <1>2 DEF NetTypeOK
<1>3. ASSUME NEW b \in Bot, NEW r \in Bot, TraceRepeat(b, r) \/ TraceMiss(b, r)
      PROVE  NetTypeOK'
      BY <1>1, <1>3, RepeatAssumption DEF NetTypeOK, TraceRepeat, TraceMiss
<1>4. ASSUME NEW b \in Bot, BotNext(b) PROVE NetTypeOK'
      BY <1>2, <1>3, <1>4 DEF BotNext, Start, Stop, Flood, EndWaitForRoutes, EndWaitForReceive,
         Exit, Accept, AcceptHangs, Connected, Refuse, Read, BotEvent, TraceHop, netVars
<1> QED BY <1>2, <1>4 DEF Next, CCStart, vars, netVars

(* Every part of the state has its type. *)
THEOREM TypeCorrect == Spec => []TypeOK
<1> DEFINE Inv == BotTypeOK /\ NetTypeOK
<1>1. Init => Inv
  <2>1. Init => BotTypeOK
        BY DEF Init, BotInit, BotTypeOK
  <2>2. Init => NetTypeOK
        BY RepeatAssumption DEF Init, NetTypeOK, TracedType
  <2> QED BY <2>1, <2>2
<1>2. Inv /\ CCP!TypeOK /\ [Next]_vars => Inv'
  <2>1. CCP!TypeOK => answer \in [Bot -> Addr \union {NoAddr}]
        BY DEF CCP!TypeOK
  <2> QED BY <2>1, BotTypeStep, NetTypeStep DEF NetTypeOK
<1>3. Spec => []CCP!TypeOK
  <2>1. CCP!Spec => []CCP!TypeOK
        BY ControllerAssumptions, CCP!TypeCorrect
  <2> QED BY <2>1, ImplementsProvedController, PTL
<1>4. Inv /\ CCP!TypeOK => TypeOK
      BY DEF NetTypeOK, TracedType, TypeOK, CC!TypeOK, CCP!TypeOK
<1> QED BY <1>1, <1>2, <1>3, <1>4, PTL DEF Spec

-----------------------------------------------------------------------------
(* The two records of the reports.                                         *)

(* An entry is a position of a route that holds the address. *)
LEMMA EntryPositions ==
    ASSUME NEW routes, NEW a, NEW e
    PROVE  e \in Entries(a, routes) <=>
             \E p \in Bot \X Bot : \E i \in DOMAIN routes[p[1]][p[2]] :
               e = <<p, i>> /\ routes[p[1]][p[2]][i] = a
<1> DEFINE At(p) == {<<p, i>> : i \in {j \in DOMAIN routes[p[1]][p[2]] : routes[p[1]][p[2]][j] = a}}
<1>1. e \in Entries(a, routes) <=> \E p \in Bot \X Bot : e \in At(p)
      BY DEF Entries
<1>2. ASSUME NEW p
      PROVE  e \in At(p) <=>
               \E i \in DOMAIN routes[p[1]][p[2]] : e = <<p, i>> /\ routes[p[1]][p[2]][i] = a
      OBVIOUS
<1> HIDE DEF At
<1> QED BY <1>1, <1>2

(* Every entry is counted, and there are finitely many. *)
RecordInv ==
    \A a \in Addr : /\ IsFiniteSet(Entries(a, m_routes))
                    /\ tally[a] = Cardinality(Entries(a, m_routes))

(* A recorded hop is one more entry of its address, and none of another.   *)
LEMMA RecordedEntry ==
    ASSUME BotTypeOK, NEW b \in Bot, NEW r \in Bot, NEW hop \in Addr,
           appState[b] # "idle", RouteTraceCallback(b, r, hop), NEW a \in Addr
    PROVE  LET e == <<<<b, r>>, Len(m_routes[b][r]) + 1>> IN
           /\ e \notin Entries(a, m_routes)
           /\ Entries(a, m_routes') = IF a = hop THEN Entries(a, m_routes) \union {e}
                                      ELSE Entries(a, m_routes)
<1> DEFINE route == m_routes[b][r]
           n == Len(route) + 1
           On(routes, p) == routes[p[1]][p[2]]
           new == <<<<b, r>>, n>>
<1>1. route \in Seq(Addr) /\ n \in Nat /\ DOMAIN route = 1 .. n - 1
      BY DEF BotTypeOK
<1>2. m_routes'[b][r] = Append(route, hop)
      BY DEF RouteTraceCallback, Recorded, BotTypeOK
<1>3. ASSUME NEW p \in Bot \X Bot, p # <<b, r>> PROVE On(m_routes', p) = On(m_routes, p)
      BY <1>3 DEF RouteTraceCallback, Recorded, BotTypeOK
<1>4. /\ DOMAIN m_routes'[b][r] = DOMAIN route \union {n}
      /\ n \notin DOMAIN route
      /\ m_routes'[b][r][n] = hop
      /\ \A i \in DOMAIN route : m_routes'[b][r][i] = route[i]
      BY <1>1, <1>2
<1> DEFINE Holds(routes, p, i) == i \in DOMAIN On(routes, p) /\ On(routes, p)[i] = a
<1>5. ASSUME NEW p \in Bot \X Bot, NEW i
      PROVE  Holds(m_routes', p, i) <=> Holds(m_routes, p, i) \/ (a = hop /\ <<p, i>> = new)
  <2>1. CASE p # <<b, r>>
        BY <1>3, <2>1
  <2>2. CASE p = <<b, r>>
    <3>1. On(m_routes', p) = m_routes'[b][r] /\ On(m_routes, p) = route
          BY <2>2
    <3>2. <<p, i>> = new <=> i = n
          BY <2>2
    <3> HIDE DEF route, n, On, new
    <3> QED BY <1>4, <3>1, <3>2
  <2> QED BY <2>1, <2>2
<1>6. ASSUME NEW routes, NEW e
      PROVE  e \in Entries(a, routes) <=>
               \E p \in Bot \X Bot : \E i : e = <<p, i>> /\ Holds(routes, p, i)
  <2> HIDE DEF new
  <2> QED BY EntryPositions
<1>7. <<b, r>> \in Bot \X Bot
      OBVIOUS
<1>8. new \notin Entries(a, m_routes)
  <2> SUFFICES ASSUME NEW p \in Bot \X Bot, NEW i, new = <<p, i>>, Holds(m_routes, p, i)
               PROVE  FALSE
      BY <1>6
  <2> QED BY <1>4
<1>9. ASSUME NEW e
      PROVE  e \in Entries(a, m_routes') <=> e \in Entries(a, m_routes) \/ (a = hop /\ e = new)
  <2>1. new = <<<<b, r>>, n>>
        OBVIOUS
  <2> HIDE DEF Holds, new, n, route
  <2> QED BY <1>5, <1>6, <1>7, <2>1
<1> HIDE DEF new
<1>10. Entries(a, m_routes') = IF a = hop THEN Entries(a, m_routes) \union {new}
                               ELSE Entries(a, m_routes)
       BY <1>9
<1> QED BY <1>8, <1>10 DEF new

(* When every application listens, a report is one entry and one count.    *)
LEMMA RecordStep ==
    ASSUME "starts" \in WaitsCover, BotTypeOK, CC!TypeOK, TracedType, RecordInv, [Next]_vars
    PROVE  RecordInv'
<1>1. CASE UNCHANGED <<m_routes, tally>>
      BY <1>1 DEF RecordInv, Entries
<1>2. ASSUME NEW b \in Bot, NEW r \in Bot, NEW hop \in Addr, Report(b, r, hop)
      PROVE  RecordInv'
  <2>1. /\ appState[b] # "idle" /\ RouteTraceCallback(b, r, hop)
        /\ tally' = [tally EXCEPT ![hop] = @ + 1]
        BY <1>2 DEF Report, Started, CC!RouteTraceCallback
  <2> SUFFICES ASSUME NEW a \in Addr
               PROVE  /\ IsFiniteSet(Entries(a, m_routes'))
                      /\ tally'[a] = Cardinality(Entries(a, m_routes'))
      BY DEF RecordInv, Entries
  <2> DEFINE e == <<<<b, r>>, Len(m_routes[b][r]) + 1>>
  <2>2. /\ e \notin Entries(a, m_routes)
        /\ Entries(a, m_routes') = IF a = hop THEN Entries(a, m_routes) \union {e}
                                   ELSE Entries(a, m_routes)
        BY <2>1, RecordedEntry
  <2>3. tally'[a] = IF a = hop THEN tally[a] + 1 ELSE tally[a]
        BY <2>1 DEF CC!TypeOK
  <2> HIDE DEF e
  <2>4. IsFiniteSet(Entries(a, m_routes)) /\ tally[a] = Cardinality(Entries(a, m_routes))
        BY DEF RecordInv
  <2> QED BY <2>2, <2>3, <2>4, FS_AddElement
<1>3. ASSUME NEW b \in Bot, BotNext(b) PROVE RecordInv'
  <2>1. CASE \E r \in Bot : TraceHop(b, r) \/ TraceRepeat(b, r)
        BY <1>2, <2>1, TraceReports
  <2> QED BY <1>1, <1>3, <2>1 DEF BotNext, Start, StartApplication, Stop, StopApplication, Flood,
             SendPackets, EndWaitForRoutes, CompleteWaitForTraceRoute, EndWaitForReceive,
             StartAttack, Exit, CC!Exit, Accept, CC!HandleAccept, AcceptHangs,
             CC!HandleAcceptHangs, Connected, Refuse, Read, HandleRead, BotEvent, TraceMiss,
             ccVars, botVars
<1> QED BY <1>1, <1>3 DEF Next, CCStart, CC!StartApplication, vars, ccVars, botVars

(* The reports of an address are as many as its entries, repeated hops     *)
(* included, when all applications start before the first report.          *)
LEMMA RecordInvariance ==
    ASSUME "starts" \in WaitsCover
    PROVE  Spec => []RecordInv
<1>1. Init => RecordInv
  <2> SUFFICES ASSUME Init, NEW a \in Addr
               PROVE  /\ IsFiniteSet(Entries(a, m_routes))
                      /\ tally[a] = Cardinality(Entries(a, m_routes))
      BY DEF RecordInv
  <2>1. tally[a] = 0 /\ \A b, r \in Bot : m_routes[b][r] = <<>>
        BY DEF Init, BotInit, CC!Init
  <2>2. Entries(a, m_routes) = {}
        BY <2>1, EntryPositions
  <2> QED BY <2>1, <2>2, FS_EmptySet
<1>2. TypeOK /\ RecordInv /\ [Next]_vars => RecordInv'
      BY RecordStep DEF TypeOK, TracedType
<1> QED BY <1>1, <1>2, TypeCorrect, PTL DEF Spec

-----------------------------------------------------------------------------
(* Stopping.                                                               *)

(* What StopApplication cancels stays cancelled: only events schedule      *)
(* events, and a stopped bot has none.                                     *)
THEOREM StopIsQuietHolds == Spec => []StopIsQuiet
<1>1. Init => StopIsQuiet
      BY DEF Init, BotInit, StopIsQuiet
<1>2. TypeOK /\ StopIsQuiet /\ [Next]_vars => StopIsQuiet'
  <2> SUFFICES ASSUME BotTypeOK, StopIsQuiet, [Next]_vars, NEW c \in Bot, appState'[c] = "stopped"
               PROVE  /\ m_wait_event'[c] = "none"
                      /\ ~m_send_events'[c]
                      /\ Remotes(m_remote_sockets'[c]) = {}
      BY DEF TypeOK, StopIsQuiet, Remotes
  <2> DEFINE Quiet == /\ m_wait_event'[c] = "none"
                      /\ ~m_send_events'[c]
                      /\ Remotes(m_remote_sockets'[c]) = {}
  <2>1. CASE UNCHANGED <<appState[c], m_wait_event[c], m_send_events[c], m_remote_sockets[c]>>
        BY <2>1 DEF StopIsQuiet
  <2>2. ASSUME NEW b \in Bot, BotNext(b) PROVE Quiet
    <3>1. CASE Start(b)
          BY <2>1, <3>1 DEF Start, BotEvent, StartApplication, BotTypeOK
    <3>2. CASE Stop(b)
      <4>1. CASE b = c
            BY <3>2, <4>1 DEF Stop, BotEvent, StopApplication, CancelEvent, CancelSendEvents,
               BotTypeOK, Remotes
      <4>2. CASE b # c
            BY <2>1, <3>2, <4>2 DEF Stop, BotEvent, StopApplication, CancelEvent,
               CancelSendEvents, BotTypeOK
      <4> QED BY <4>1, <4>2
    <3>3. CASE Flood(b) \/ EndWaitForRoutes(b) \/ EndWaitForReceive(b)
      <4>1. b # c
            BY <3>3 DEF Flood, EndWaitForRoutes, EndWaitForReceive, BotEvent, SendPackets,
               CompleteWaitForTraceRoute, StartAttack, StopIsQuiet
      <4> QED BY <2>1, <3>3, <4>1 DEF Flood, EndWaitForRoutes, EndWaitForReceive, BotEvent,
                 SendPackets, CompleteWaitForTraceRoute, StartAttack, FirstSendPackets, BotTypeOK
    <3>4. CASE UNCHANGED <<appState, m_wait_event, m_send_events, m_remote_sockets>>
          BY <2>1, <3>4
    <3> QED BY <2>2, <3>1, <3>2, <3>3, <3>4 DEF BotNext, Accept, AcceptHangs, Connected, Refuse,
               Read, BotEvent, HandleRead, Exit, botVars, TraceHop, TraceRepeat, TraceMiss, Report,
               RouteTraceCallback
  <2> QED BY <2>1, <2>2 DEF Next, CCStart, vars, botVars
<1> QED BY <1>1, <1>2, TypeCorrect, PTL DEF Spec

-----------------------------------------------------------------------------
(* Flooding.                                                               *)

(* The target of bot b is on its route to r. *)
Crosses(b, r) == \E i \in DOMAIN m_routes[b][r] : m_routes[b][r][i] = m_target_address[b]

(* A socket is opened, and a packet sent, across the target only; the      *)
(* packets of SendPackets go to the sockets.                               *)
CrossInv ==
    \A b, r \in Bot : m_remote_sockets[b][r] > 0 \/ r \in flooded[b] => Crosses(b, r)

(* Recording more hops takes none away. *)
LEMMA MoreHopsCross ==
    ASSUME BotTypeOK, NEW b \in Bot, NEW r \in Bot, NEW hop \in Addr,
           RouteTraceCallback(b, r, hop), NEW c \in Bot, NEW q \in Bot, Crosses(c, q)
    PROVE  Crosses(c, q)'
<1>1. m_target_address' = m_target_address
      BY DEF RouteTraceCallback
<1>2. CASE m_routes'[c][q] = m_routes[c][q]
      BY <1>1, <1>2 DEF Crosses
<1>3. CASE b = c /\ r = q /\ m_routes'[c][q] = Append(m_routes[c][q], hop)
  <2>1. PICK i \in DOMAIN m_routes[c][q] : m_routes[c][q][i] = m_target_address[c]
        BY DEF Crosses
  <2>2. m_routes[c][q] \in Seq(Addr)
        BY DEF BotTypeOK
  <2>3. /\ i \in DOMAIN Append(m_routes[c][q], hop)
        /\ Append(m_routes[c][q], hop)[i] = m_routes[c][q][i]
        BY <2>1, <2>2
  <2> QED BY <1>1, <1>3, <2>1, <2>3 DEF Crosses
<1> QED BY <1>2, <1>3 DEF RouteTraceCallback, Recorded, BotTypeOK

(* A target that is on a route is no default address. *)
LEMMA CrossesKnown ==
    ASSUME BotTypeOK, NEW b \in Bot, NEW r \in Bot, Crosses(b, r)
    PROVE  m_target_address[b] # NoAddr
<1>1. m_routes[b][r] \in Seq(Addr)
      BY DEF BotTypeOK
<1>2. \A i \in DOMAIN m_routes[b][r] : m_routes[b][r][i] \in Addr
      BY <1>1
<1> QED BY <1>2, HopAssumption DEF Crosses

(* No step opens a socket or sends a packet past the target. *)
LEMMA CrossStep == BotTypeOK /\ TracedType /\ CrossInv /\ [Next]_vars => CrossInv'
<1> SUFFICES ASSUME BotTypeOK, TracedType, CrossInv, [Next]_vars, NEW c \in Bot, NEW q \in Bot,
                    m_remote_sockets'[c][q] > 0 \/ q \in flooded'[c]
             PROVE  Crosses(c, q)'
    BY DEF CrossInv
<1>1. CASE /\ UNCHANGED <<m_routes[c], m_target_address[c]>>
           /\ m_remote_sockets[c][q] > 0 \/ q \in flooded[c]
      BY <1>1 DEF CrossInv, Crosses
<1>2. ASSUME NEW b \in Bot, BotNext(b) PROVE Crosses(c, q)'
  <2>1. CASE Stop(b)
        BY <1>1, <2>1 DEF Stop, BotEvent, StopApplication, BotTypeOK
  <2>2. CASE Flood(b)
        BY <1>1, <2>2 DEF Flood, BotEvent, SendPackets, Remotes, BotTypeOK
  <2>3. CASE EndWaitForReceive(b)
    <3>1. /\ m_remote_sockets' = [m_remote_sockets EXCEPT ![b] = CalculateRemoteAddress(b)]
          /\ flooded' = [flooded EXCEPT ![b] = @ \union Remotes(CalculateRemoteAddress(b))]
          /\ UNCHANGED <<m_routes, m_target_address>>
          BY <2>3 DEF EndWaitForReceive, BotEvent, StartAttack, FirstSendPackets
    <3>2. CASE b = c /\ CalculateRemoteAddress(c)[q] > 0
      <4>1. Occurrences(m_target_address[c], m_routes[c][q]) > 0 /\ m_routes[c][q] \in Seq(Addr)
            BY <3>2 DEF CalculateRemoteAddress, BotTypeOK
      <4> QED BY <3>1, <4>1, OccurrencesCount DEF Crosses
    <3>3. CASE ~(b = c /\ CalculateRemoteAddress(c)[q] > 0)
          BY <1>1, <3>1, <3>3 DEF Remotes, BotTypeOK
    <3> QED BY <3>2, <3>3
  <2>4. CASE Read(b)
    <3>1. /\ m_target_address[b] = NoAddr
          /\ m_target_address' = [m_target_address EXCEPT ![b] = answer[b]]
          /\ UNCHANGED <<m_routes, m_remote_sockets, flooded>>
          BY <2>4 DEF Read, BotEvent, HandleRead
    <3>2. b # c
          BY <3>1, CrossesKnown DEF CrossInv
    <3> QED BY <1>1, <3>1, <3>2 DEF BotTypeOK
  <2>5. ASSUME NEW r \in Bot, TraceHop(b, r) \/ TraceRepeat(b, r) PROVE Crosses(c, q)'
    <3>1. PICK hop \in Addr : RouteTraceCallback(b, r, hop)
          BY <2>5, TraceReports DEF Report
    <3>2. Crosses(c, q)
          BY <3>1 DEF RouteTraceCallback, CrossInv
    <3> QED BY <3>1, <3>2, MoreHopsCross
  <2>6. CASE UNCHANGED <<m_routes, m_target_address, m_remote_sockets, flooded>>
        BY <1>1, <2>6
  <2> QED BY <1>2, <2>1, <2>2, <2>3, <2>4, <2>5, <2>6 DEF BotNext, Start, StartApplication,
             EndWaitForRoutes, CompleteWaitForTraceRoute, Accept, AcceptHangs, Connected, Refuse,
             BotEvent, Exit, botVars, TraceMiss
<1> QED BY <1>1, <1>2 DEF Next, CCStart, vars, botVars

(* It holds in every state. *)
LEMMA CrossInvariance == Spec => []CrossInv
<1>1. Init => CrossInv
      BY DEF Init, BotInit, CrossInv
<1>2. TypeOK /\ CrossInv /\ [Next]_vars => CrossInv'
      BY CrossStep DEF TypeOK, TracedType
<1> QED BY <1>1, <1>2, TypeCorrect, PTL DEF Spec

(* A longer route has no fewer occurrences of an address. *)
LEMMA OccurrencesGrow ==
    ASSUME NEW route \in Seq(Addr), NEW hop \in Addr, NEW a
    PROVE  Occurrences(a, route) <= Occurrences(a, Append(route, hop))
<1> DEFINE at(s) == {i \in DOMAIN s : s[i] = a}
<1>1. Append(route, hop) \in Seq(Addr)
      OBVIOUS
<1>2. IsFiniteSet(at(Append(route, hop)))
  <2>1. /\ DOMAIN Append(route, hop) = 1 .. Len(route) + 1
        /\ Len(route) + 1 \in Nat
        OBVIOUS
  <2>2. IsFiniteSet(1 .. Len(route) + 1)
        BY <2>1, FS_Interval
  <2> QED BY <2>1, <2>2, FS_Subset
<1>3. at(route) \subseteq at(Append(route, hop))
      OBVIOUS
<1> QED BY <1>2, <1>3, FS_Subset DEF Occurrences

(* No bot has more sockets to another than its target has been reported on *)
(* the way.                                                                *)
SocketInv ==
    \A b, r \in Bot :
      m_remote_sockets[b][r] <= Occurrences(m_target_address[b], m_routes[b][r])

(* Sockets are opened as often as the target is on the route by then, and  *)
(* the route only grows.                                                   *)
LEMMA SocketStep ==
    BotTypeOK /\ BotTypeOK' /\ TracedType /\ CrossInv /\ SocketInv /\ [Next]_vars => SocketInv'
<1> SUFFICES ASSUME BotTypeOK, BotTypeOK', TracedType, CrossInv, SocketInv, [Next]_vars,
                    NEW c \in Bot, NEW q \in Bot
             PROVE  m_remote_sockets'[c][q] <= Occurrences(m_target_address'[c], m_routes'[c][q])
    BY DEF SocketInv, Occurrences
<1> DEFINE crossings == Occurrences(m_target_address[c], m_routes[c][q])
           crossings2 == Occurrences(m_target_address'[c], m_routes'[c][q])
           Fits == m_remote_sockets'[c][q] <= crossings2
<1>1. /\ m_routes[c][q] \in Seq(Addr) /\ m_routes'[c][q] \in Seq(Addr)
      /\ m_remote_sockets[c][q] \in Nat
      /\ m_remote_sockets[c][q] <= crossings
      BY DEF BotTypeOK, SocketInv
<1>2. crossings \in Nat /\ crossings2 \in Nat
      BY <1>1, OccurrencesCount
<1>3. CASE /\ m_routes'[c] = m_routes[c] /\ m_target_address'[c] = m_target_address[c]
           /\ m_remote_sockets'[c] = m_remote_sockets[c]
      BY <1>1, <1>3
<1>4. m_remote_sockets'[c][q] = 0 => Fits
      BY <1>2
<1>5. ASSUME NEW b \in Bot, BotNext(b) PROVE Fits
  <2>1. CASE Stop(b)
    <3>1. CASE b = c
          BY <1>4, <2>1, <3>1 DEF Stop, BotEvent, StopApplication, BotTypeOK
    <3>2. CASE b # c
          BY <1>3, <2>1, <3>2 DEF Stop, BotEvent, StopApplication, BotTypeOK
    <3> QED BY <3>1, <3>2
  <2>2. CASE EndWaitForReceive(b)
    <3>1. /\ m_remote_sockets' = [m_remote_sockets EXCEPT ![b] = CalculateRemoteAddress(b)]
          /\ UNCHANGED <<m_routes, m_target_address>>
          BY <2>2 DEF EndWaitForReceive, BotEvent, StartAttack, FirstSendPackets
    <3>2. CASE b = c
      <4>1. m_remote_sockets'[c][q] = crossings
            BY <3>1, <3>2 DEF BotTypeOK, CalculateRemoteAddress
      <4> QED BY <1>2, <3>1, <4>1
    <3>3. CASE b # c
          BY <1>3, <3>1, <3>3 DEF BotTypeOK
    <3> QED BY <3>2, <3>3
  <2>3. CASE Read(b)
    <3>1. /\ m_target_address[b] = NoAddr
          /\ m_target_address' = [m_target_address EXCEPT ![b] = answer[b]]
          /\ UNCHANGED <<m_routes, m_remote_sockets>>
          BY <2>3 DEF Read, BotEvent, HandleRead
    <3>2. CASE b = c
      <4>1. ~(m_remote_sockets[c][q] > 0)
            BY <3>1, <3>2, CrossesKnown DEF CrossInv
      <4> QED BY <1>1, <1>4, <3>1, <4>1
    <3>3. CASE b # c
          BY <1>3, <3>1, <3>3 DEF BotTypeOK
    <3> QED BY <3>2, <3>3
  <2>4. ASSUME NEW r \in Bot, TraceHop(b, r) \/ TraceRepeat(b, r) PROVE Fits
    <3>1. PICK hop \in Addr : RouteTraceCallback(b, r, hop)
          BY <2>4, TraceReports DEF Report
    <3>2. UNCHANGED <<m_target_address, m_remote_sockets>>
          BY <3>1 DEF RouteTraceCallback
    <3>3. CASE m_routes'[c][q] = m_routes[c][q]
          BY <1>1, <3>2, <3>3
    <3>4. CASE m_routes'[c][q] = Append(m_routes[c][q], hop)
      <4>1. crossings <= crossings2
            BY <1>1, <3>2, <3>4, OccurrencesGrow
      <4> QED BY <1>1, <1>2, <3>2, <4>1
    <3> QED BY <3>1, <3>3, <3>4 DEF RouteTraceCallback, Recorded, BotTypeOK
  <2>5. CASE UNCHANGED <<m_routes, m_target_address, m_remote_sockets>>
        BY <1>3, <2>5
  <2> QED BY <1>5, <2>1, <2>2, <2>3, <2>4, <2>5 DEF BotNext, Start, StartApplication, Flood,
             SendPackets, EndWaitForRoutes, CompleteWaitForTraceRoute, Accept, AcceptHangs,
             Connected, Refuse, BotEvent, Exit, botVars, TraceMiss
<1> QED BY <1>3, <1>5 DEF Next, CCStart, vars, botVars

(* Whatever the delays, and wherever hops and answers arrive between the   *)
(* packets, a bot floods only across its target, and opens no more sockets *)
(* than it was told to.                                                    *)
THEOREM FloodsCrossTargetHolds == Spec => []FloodsCrossTarget
<1>1. TypeOK /\ CrossInv /\ SocketInv => FloodsCrossTarget
  <2> SUFFICES ASSUME BotTypeOK, CrossInv, SocketInv, NEW b \in Bot, NEW r \in Bot
               PROVE  /\ r \in flooded[b] =>
                           Occurrences(m_target_address[b], m_routes[b][r]) > 0
                      /\ m_remote_sockets[b][r]
                           <= Occurrences(m_target_address[b], m_routes[b][r])
      BY DEF TypeOK, FloodsCrossTarget
  <2>1. m_routes[b][r] \in Seq(Addr)
        BY DEF BotTypeOK
  <2> QED BY <2>1, OccurrencesCount DEF CrossInv, SocketInv, Crosses
<1>2. Init => SocketInv
  <2> SUFFICES ASSUME Init, NEW b \in Bot, NEW r \in Bot
               PROVE  0 <= Occurrences(m_target_address[b], m_routes[b][r])
      BY DEF Init, BotInit, SocketInv
  <2>1. m_routes[b][r] \in Seq(Addr)
        BY DEF Init, BotInit
  <2> QED BY <2>1, OccurrencesCount
<1>3. TypeOK /\ TypeOK' /\ CrossInv /\ SocketInv /\ [Next]_vars => SocketInv'
      BY SocketStep DEF TypeOK, TracedType
<1> QED BY <1>1, <1>2, <1>3, CrossInvariance, TypeCorrect, PTL DEF Spec

-----------------------------------------------------------------------------
(* Agreement, when WaitForRouteMap outlasts the traceroutes.               *)

Connects == \E b \in Bot : m_cc_socket[b] # "none"

(* No bot connects before the last report, *)
ConnectsAfterReports == Connects => RoutesDone

(* so that m_max_address no longer changes once it is an answer,           *)
AnswersAreMax ==
    \A b \in Bot : answer[b] # NoAddr => answer[b] = m_max_address /\ m_critical_node_id # NoNode

(* the target of a bot,                                                    *)
TargetsAreAnswers == \A b \in Bot : m_target_address[b] \in {NoAddr, answer[b]}

(* or has been looked up, once, and captured.                              *)
NodeOfMax ==
    /\ m_critical_node_id = NoNode => captured = {}
    /\ m_critical_node_id # NoNode =>
         /\ m_max_address \in Addr
         /\ m_critical_node_id = Holder[m_max_address]
         /\ captured = {<<m_critical_node_id, 1>>}
         /\ Connects

AgreeInv == ConnectsAfterReports /\ AnswersAreMax /\ TargetsAreAnswers /\ NodeOfMax

(* While a traceroute has hops to report, nothing has been answered. *)
LEMMA ReportBeforeAnswers ==
    ASSUME AgreeInv, NEW b \in Bot, NEW r \in Bot, Tracing(b, r)
    PROVE  /\ ~Connects
           /\ m_critical_node_id = NoNode
           /\ \A c \in Bot : answer[c] = NoAddr /\ m_target_address[c] = NoAddr
<1>1. ~Connects
      BY DEF AgreeInv, ConnectsAfterReports, RoutesDone
<1> QED BY <1>1 DEF AgreeInv, AnswersAreMax, TargetsAreAnswers, NodeOfMax

(* The reports and misses of the traceroutes leave alone what has been     *)
(* agreed on.                                                              *)
LEMMA TraceFrame ==
    ASSUME TracedType, NEW b \in Bot, NEW r \in Bot,
           TraceHop(b, r) \/ TraceRepeat(b, r) \/ TraceMiss(b, r)
    PROVE  /\ Tracing(b, r)
           /\ UNCHANGED <<m_cc_socket, m_critical_node_id, captured, answer, m_target_address,
                          m_send_events, flooded>>
BY DEF TraceHop, TraceRepeat, TraceMiss, Report, RouteTraceCallback, CC!RouteTraceCallback,
   ccVars, botVars

(* What an answer does. *)
LEMMA AcceptEffect ==
    ASSUME BotTypeOK, CC!TypeOK, AgreeInv, NEW b \in Bot, Accept(b)
    PROVE  /\ m_max_address \in Addr
           /\ m_critical_node_id' = Holder[m_max_address]
           /\ m_critical_node_id \in {NoNode, m_critical_node_id'}
           /\ captured' = {<<m_critical_node_id', 1>>}
           /\ answer[b] = NoAddr
           /\ answer' = [answer EXCEPT ![b] = m_max_address]
           /\ m_cc_socket' = [m_cc_socket EXCEPT ![b] = "connected"]
           /\ m_cc_socket[b] = "connecting"
           /\ UNCHANGED <<m_max_address, m_target_address, traced, flooded, sim>>
<1>1. /\ m_critical_node_id' = CC!CriticalNode /\ CC!CriticalNode # NoNode
      /\ captured' = captured \union {<<CC!CriticalNode, 1>>}
      /\ answer[b] = NoAddr
      /\ answer' = [answer EXCEPT ![b] = m_max_address]
      /\ UNCHANGED <<m_max_address, sim>>
      BY DEF Accept, CC!HandleAccept, CC!Accepts, CC!Captured, CC!Reply
<1>2. CASE m_critical_node_id = NoNode
      BY <1>1, <1>2 DEF CC!CriticalNode, CC!GetCriticalNodeIndex, AgreeInv, NodeOfMax, Accept,
         Connected, netVars
<1>3. CASE m_critical_node_id # NoNode
      BY <1>1, <1>3 DEF CC!CriticalNode, AgreeInv, NodeOfMax, Accept, Connected, netVars
<1> QED BY <1>2, <1>3

(* With "routes" covered, every step keeps the agreement. *)
LEMMA AgreeStep ==
    ASSUME "routes" \in WaitsCover, TypeOK, AgreeInv, [Next]_vars
    PROVE  AgreeInv'
<1>0. BotTypeOK /\ CC!TypeOK /\ TracedType /\ answer \in [Bot -> Addr \union {NoAddr}]
      BY DEF TypeOK, TracedType, CC!TypeOK
<1>1. CASE UNCHANGED <<m_cc_socket, traced, answer, m_max_address, m_critical_node_id, captured,
                       m_target_address>>
      BY <1>1 DEF AgreeInv, ConnectsAfterReports, AnswersAreMax, TargetsAreAnswers, NodeOfMax,
         Connects, RoutesDone, Tracing
<1>2. ASSUME NEW b \in Bot, m_cc_socket[b] # "none" \/ RoutesDone,
             NEW s \in {"connecting", "refused", "connected"},
             m_cc_socket' = [m_cc_socket EXCEPT ![b] = s],
             UNCHANGED <<traced, answer, m_max_address, m_critical_node_id, captured,
                         m_target_address>>
      PROVE  AgreeInv'
  <2>1. RoutesDone
        BY <1>2 DEF AgreeInv, ConnectsAfterReports, Connects
  <2>2. RoutesDone'
        BY <1>2, <2>1 DEF RoutesDone, Tracing
  <2>3. Connects'
        BY <1>0, <1>2 DEF Connects, BotTypeOK
  <2> QED BY <1>2, <2>2, <2>3 DEF AgreeInv, ConnectsAfterReports, AnswersAreMax,
             TargetsAreAnswers, NodeOfMax
<1>3. ASSUME NEW b \in Bot, BotNext(b) PROVE AgreeInv'
  <2>1. CASE Start(b) \/ Stop(b) \/ Flood(b) \/ EndWaitForReceive(b) \/ Exit(b)
        BY <1>1, <2>1 DEF Start, StartApplication, Stop, StopApplication, Flood, SendPackets,
           EndWaitForReceive, StartAttack, Exit, CC!Exit, BotEvent, ccVars, netVars, botVars
  <2>2. CASE EndWaitForRoutes(b)
        BY <1>2, <2>2 DEF EndWaitForRoutes, CompleteWaitForTraceRoute, BotEvent, ccVars, netVars
  <2>3. CASE AcceptHangs(b)
        BY <1>2, <2>3 DEF AcceptHangs, CC!HandleAcceptHangs, Connected, netVars
  <2>4. CASE Refuse(b)
        BY <1>2, <2>4 DEF Refuse, BotEvent, ccVars, netVars
  <2>5. CASE Accept(b)
    <3> HIDE DEF AgreeInv
    <3>1. /\ m_max_address \in Addr
          /\ m_critical_node_id' = Holder[m_max_address]
          /\ m_critical_node_id \in {NoNode, m_critical_node_id'}
          /\ captured' = {<<m_critical_node_id', 1>>}
          /\ answer[b] = NoAddr
          /\ answer' = [answer EXCEPT ![b] = m_max_address]
          /\ m_cc_socket' = [m_cc_socket EXCEPT ![b] = "connected"]
          /\ m_cc_socket[b] = "connecting"
          /\ UNCHANGED <<m_max_address, m_target_address, traced>>
          BY <1>0, <2>5, AcceptEffect
    <3>2. Connects' /\ RoutesDone'
          BY <1>0, <3>1 DEF AgreeInv, ConnectsAfterReports, Connects, RoutesDone, Tracing,
             BotTypeOK
    <3>3. AnswersAreMax'
      <4> SUFFICES ASSUME NEW c \in Bot, answer'[c] # NoAddr
                   PROVE  answer'[c] = m_max_address' /\ m_critical_node_id' # NoNode
          BY DEF AnswersAreMax
      <4>1. m_critical_node_id' # NoNode
            BY <3>1, HopAssumption, HolderAssumption
      <4> QED BY <1>0, <3>1, <4>1 DEF AgreeInv, AnswersAreMax
    <3>4. TargetsAreAnswers'
          BY <1>0, <3>1 DEF AgreeInv, TargetsAreAnswers
    <3>5. NodeOfMax'
          BY <3>1, <3>2, HopAssumption, HolderAssumption DEF NodeOfMax
    <3> QED BY <3>2, <3>3, <3>4, <3>5 DEF AgreeInv, ConnectsAfterReports
  <2>6. CASE Read(b)
    <3>1. /\ m_target_address' = [m_target_address EXCEPT ![b] = answer[b]]
          /\ UNCHANGED <<m_cc_socket, traced, answer, m_max_address, m_critical_node_id, captured>>
          BY <2>6 DEF Read, BotEvent, HandleRead, ccVars, netVars
    <3>2. TargetsAreAnswers'
          BY <1>0, <3>1 DEF AgreeInv, TargetsAreAnswers, BotTypeOK
    <3> QED BY <3>1, <3>2 DEF AgreeInv, ConnectsAfterReports, AnswersAreMax, NodeOfMax, Connects,
               RoutesDone, Tracing
  <2>7. ASSUME NEW r \in Bot, TraceHop(b, r) \/ TraceRepeat(b, r) \/ TraceMiss(b, r)
        PROVE  AgreeInv'
    <3>1. /\ ~Connects
          /\ m_critical_node_id = NoNode
          /\ \A c \in Bot : answer[c] = NoAddr /\ m_target_address[c] = NoAddr
          BY <1>0, <2>7, TraceFrame, ReportBeforeAnswers
    <3>2. UNCHANGED <<m_cc_socket, m_critical_node_id, captured, answer, m_target_address>>
          BY <1>0, <2>7, TraceFrame
    <3> QED BY <3>1, <3>2 DEF AgreeInv, ConnectsAfterReports, AnswersAreMax, TargetsAreAnswers,
               NodeOfMax, Connects
  <2> QED BY <1>3, <2>1, <2>2, <2>3, <2>4, <2>5, <2>6, <2>7 DEF BotNext
<1>4. CASE CCStart
      BY <1>1, <1>4 DEF CCStart, CC!StartApplication, botVars, netVars
<1>5. CASE UNCHANGED vars
      BY <1>1, <1>5 DEF vars, botVars, ccVars, netVars
<1> QED BY <1>3, <1>4, <1>5 DEF Next

(* It holds in every state. *)
LEMMA AgreeInvariance ==
    ASSUME "routes" \in WaitsCover
    PROVE  Spec => []AgreeInv
<1>1. Init => AgreeInv
      BY DEF Init, BotInit, CC!Init, AgreeInv, ConnectsAfterReports, AnswersAreMax,
         TargetsAreAnswers, NodeOfMax, Connects
<1>2. TypeOK /\ AgreeInv /\ [Next]_vars => AgreeInv'
      BY AgreeStep
<1> QED BY <1>1, <1>2, TypeCorrect, PTL DEF Spec

(* When the bots wait for the traceroutes, the node that HandleAccept      *)
(* looked up once stays the one of the target for all of them, and its     *)
(* device 1 is all that is captured.                                       *)
THEOREM TargetNodeIsCapturedHolds ==
    ASSUME "routes" \in WaitsCover
    PROVE  Spec => []TargetNodeIsCaptured
<1>1. AgreeInv => TargetNodeIsCaptured
  <2> SUFFICES ASSUME AgreeInv, NEW b \in Bot, m_target_address[b] # NoAddr
               PROVE  captured = {<<Holder[m_target_address[b]], 1>>}
      BY DEF TargetNodeIsCaptured   \* <<n, d>> is <<n, 1>> exactly if d = 1
  <2>1. m_target_address[b] = m_max_address /\ m_critical_node_id # NoNode
        BY DEF AgreeInv, TargetsAreAnswers, AnswersAreMax
  <2> QED BY <2>1 DEF AgreeInv, NodeOfMax
<1> QED BY <1>1, AgreeInvariance, PTL

TallyBounded == \A a \in Addr : tally[a] <= MaxReports

(* The runs, and so the wraps they may reach, are bounded by MaxReports. *)
LEMMA TallyStep == CC!TypeOK /\ TallyBounded /\ [CC!Next]_CC!vars => TallyBounded'
<1> SUFFICES ASSUME CC!TypeOK, TallyBounded, [CC!Next]_CC!vars PROVE TallyBounded'
    OBVIOUS
<1>1. CASE UNCHANGED tally
      BY <1>1 DEF TallyBounded
<1>2. ASSUME NEW a \in Addr, CC!RouteTraceCallback(a) PROVE TallyBounded'
  <2>1. tally \in [Addr -> Nat] /\ tally[a] < MaxReports /\ tally' = [tally EXCEPT ![a] = @ + 1]
        BY <1>2 DEF CC!RouteTraceCallback, CC!TypeOK
  <2> QED BY <2>1, CountAssumption DEF TallyBounded
<1> QED BY <1>1, <1>2 DEF CC!Next, CC!vars, CC!StartApplication, CC!Exit, CC!HandleAccept,
           CC!HandleAcceptHangs

(* With fewer reports per address than m_routers can count, none wraps,    *)
LEMMA NoCounterWraps ==
    ASSUME MaxReports < CountLimit
    PROVE  Spec => []CCP!NoWrap
<1>1. Init => TallyBounded
      BY CountAssumption DEF Init, CC!Init, TallyBounded
<1>2. TypeOK /\ TallyBounded /\ [Next]_vars => TallyBounded'
  <2>1. TypeOK => TracedType /\ CC!TypeOK
        BY DEF TypeOK, TracedType
  <2> QED BY <2>1, ControllerStep, TallyStep
<1>3. TypeOK /\ TallyBounded => CCP!NoWrap
  <2> SUFFICES ASSUME CC!TypeOK, TallyBounded, NEW a \in Addr PROVE tally[a] < CountLimit
      BY DEF TypeOK, CCP!NoWrap
  <2>1. tally[a] \in Nat /\ tally[a] <= MaxReports
        BY DEF CC!TypeOK, TallyBounded
  <2> QED BY <2>1, CountAssumption
<1> QED BY <1>1, <1>2, <1>3, TypeCorrect, PTL DEF Spec

(* and every target is the controller's maximum, a most reported address.  *)
LEMMA TargetIsMax ==
    ASSUME AgreeInv, CCP!NoWrap, CCP!IInv, NEW b \in Bot, m_target_address[b] # NoAddr
    PROVE  /\ m_target_address[b] \in Addr
           /\ tally[m_target_address[b]] > 0
           /\ CC!MostUsed(m_target_address[b])
           /\ \A c \in Bot : m_target_address[c] \in {NoAddr, m_target_address[b]}
<1>1. \A c \in Bot : m_target_address[c] \in {NoAddr, m_max_address}
      BY DEF AgreeInv, TargetsAreAnswers, AnswersAreMax
<1>2. m_target_address[b] = m_max_address
      BY <1>1
<1>3. m_max_address \in Addr /\ m_max_hops = tally[m_max_address] /\ m_max_hops > 0
      BY <1>2 DEF CCP!IInv, CCP!TypeOK, CCP!MaxInv, CCP!MaxIsReached, CCP!MaxOfReports,
         CCP!NoWrap
<1>4. ASSUME NEW a \in Addr PROVE tally[a] <= m_max_hops
      BY DEF CCP!IInv, CCP!MaxInv, CCP!CountsTrue, CCP!MaxIsBound, CCP!NoWrap
<1> QED BY <1>1, <1>2, <1>3, <1>4 DEF CC!MostUsed

(* The controller's invariant holds of it among the bots. *)
LEMMA ControllerInvariance == Spec => []CCP!IInv
<1>1. CCP!Spec => []CCP!IInv
      BY ControllerAssumptions, CCP!Invariance
<1> QED BY <1>1, ImplementsProvedController, PTL

(* All bots that have a target have the same, and no address was reported  *)
(* more often.                                                             *)
THEOREM OneFinalTargetHolds ==
    ASSUME "routes" \in WaitsCover, MaxReports < CountLimit
    PROVE  Spec => []OneFinalTarget
<1>1. AgreeInv /\ CCP!NoWrap /\ CCP!IInv => OneFinalTarget
      BY TargetIsMax DEF OneFinalTarget
<1> QED BY <1>1, NoCounterWraps, ControllerInvariance, AgreeInvariance, PTL

(* If, besides, all applications start before the first report, what the   *)
(* controller answers from its own counters is the address that the bots'  *)
(* route maps hold most often, and they hold it.                           *)
THEOREM TargetIsMostRecordedHolds ==
    ASSUME {"starts", "routes"} \subseteq WaitsCover, MaxReports < CountLimit
    PROVE  Spec => []TargetIsMostRecorded
<1>1. AgreeInv /\ CCP!NoWrap /\ CCP!IInv /\ RecordInv => TargetIsMostRecorded
  <2> SUFFICES ASSUME AgreeInv, CCP!NoWrap, CCP!IInv, RecordInv, NEW b \in Bot,
                      m_target_address[b] # NoAddr
               PROVE  /\ Entries(m_target_address[b], m_routes) # {}
                      /\ \A a \in Addr : Cardinality(Entries(a, m_routes))
                             <= Cardinality(Entries(m_target_address[b], m_routes))
      BY DEF TargetIsMostRecorded
  <2> DEFINE t == m_target_address[b]
  <2>1. t \in Addr /\ tally[t] > 0 /\ \A a \in Addr : tally[a] <= tally[t]
        BY TargetIsMax DEF CC!MostUsed
  <2> HIDE DEF t
  <2>2. \A a \in Addr : tally[a] = Cardinality(Entries(a, m_routes))
        BY DEF RecordInv
  <2>3. Entries(t, m_routes) # {}
        BY <2>1, <2>2, FS_EmptySet
  <2> QED BY <2>1, <2>2, <2>3 DEF t
<1>2. "starts" \in WaitsCover /\ "routes" \in WaitsCover
      OBVIOUS
<1>3. Spec => []AgreeInv /\ []CCP!NoWrap /\ []CCP!IInv /\ []RecordInv
      BY <1>2, NoCounterWraps, ControllerInvariance, AgreeInvariance, RecordInvariance
<1> QED BY <1>1, <1>3, PTL

-----------------------------------------------------------------------------
(* The agreement on one target.                                            *)

(* Every step is one of the agreement, or changes none of its state.       *)
LEMMA RefinementStep ==
    ASSUME "routes" \in WaitsCover, TypeOK, AgreeInv, CrossInv, CrossInv', TypeOK', [Next]_vars
    PROVE  [Abstract!Next]_Abstract!vars
<1> DEFINE chosen == IF m_critical_node_id = NoNode THEN NoAddr ELSE m_max_address
           attacking == {b \in Bot : flooded[b] # {}}
<1>0. BotTypeOK /\ BotTypeOK' /\ CC!TypeOK /\ TracedType
      BY DEF TypeOK, TracedType
<1>1. CASE chosen' = chosen /\ UNCHANGED m_target_address /\ attacking' = attacking
      BY <1>1 DEF Abstract!vars
<1>2. CASE UNCHANGED <<m_critical_node_id, m_max_address, m_target_address, flooded>>
      BY <1>1, <1>2
<1>3. ASSUME NEW b \in Bot, BotNext(b) PROVE [Abstract!Next]_Abstract!vars
  <2>1. CASE Accept(b)
    <3>1. /\ m_max_address \in Addr
          /\ m_critical_node_id' = Holder[m_max_address]
          /\ m_critical_node_id \in {NoNode, m_critical_node_id'}
          /\ UNCHANGED <<m_max_address, m_target_address, flooded>>
          BY <1>0, <2>1, AcceptEffect
    <3>2. m_critical_node_id' # NoNode
          BY <3>1, HopAssumption, HolderAssumption
    <3>3. CASE m_critical_node_id = NoNode
      <4>1. Abstract!Choose(m_max_address)
            BY <3>1, <3>2, <3>3 DEF Abstract!Choose
      <4> QED BY <3>1, <4>1 DEF Abstract!Next
    <3>4. CASE m_critical_node_id # NoNode
          BY <1>1, <3>1, <3>2, <3>4
    <3> QED BY <3>3, <3>4
  <2>2. CASE Read(b)
    <3>1. /\ answer[b] # NoAddr
          /\ m_target_address' = [m_target_address EXCEPT ![b] = answer[b]]
          /\ UNCHANGED <<m_critical_node_id, m_max_address, flooded>>
          BY <2>2 DEF Read, BotEvent, HandleRead, ccVars
    <3>2. answer[b] = m_max_address /\ m_critical_node_id # NoNode
          BY <3>1 DEF AgreeInv, AnswersAreMax
    <3>3. Abstract!Learn(b)
          BY <3>1, <3>2 DEF Abstract!Learn
    <3> QED BY <3>3 DEF Abstract!Next
  <2>3. CASE Flood(b) \/ EndWaitForReceive(b)
    <3>1. PICK remotes : flooded' = [flooded EXCEPT ![b] = @ \union remotes]
          BY <2>3 DEF Flood, SendPackets, EndWaitForReceive, StartAttack, FirstSendPackets,
             BotEvent
    <3>2. UNCHANGED <<m_critical_node_id, m_max_address, m_target_address>>
          BY <2>3 DEF Flood, SendPackets, EndWaitForReceive, StartAttack, BotEvent, ccVars
    <3>3. CASE flooded'[b] = {}
      <4>1. attacking' = attacking
            BY <1>0, <3>1, <3>3 DEF BotTypeOK
      <4> QED BY <1>1, <3>2, <4>1
    <3>4. CASE flooded'[b] # {}
      <4>1. attacking' = attacking \union {b}
            BY <1>0, <3>1, <3>4 DEF BotTypeOK
      <4>2. m_target_address'[b] # NoAddr
        <5>1. PICK r \in Bot : r \in flooded'[b]
              BY <1>0, <3>4 DEF BotTypeOK
        <5>2. m_routes' = m_routes
              BY <2>3 DEF Flood, SendPackets, EndWaitForReceive, StartAttack, BotEvent
        <5>3. \E i \in DOMAIN m_routes[b][r] : m_routes[b][r][i] = m_target_address[b]
              BY <3>2, <5>1, <5>2 DEF CrossInv, Crosses
        <5> QED BY <1>0, <3>2, <5>3, CrossesKnown DEF Crosses
      <4>3. Abstract!Attack(b)
            BY <3>2, <4>1, <4>2 DEF Abstract!Attack
      <4> QED BY <4>3 DEF Abstract!Next
    <3> QED BY <3>3, <3>4
  <2>4. ASSUME NEW r \in Bot, TraceHop(b, r) \/ TraceRepeat(b, r) \/ TraceMiss(b, r)
        PROVE  [Abstract!Next]_Abstract!vars
    <3>1. Tracing(b, r) /\ UNCHANGED <<m_critical_node_id, m_target_address, flooded>>
          BY <1>0, <2>4, TraceFrame
    <3>2. m_critical_node_id = NoNode
          BY <3>1, ReportBeforeAnswers
    <3> QED BY <1>1, <3>1, <3>2
  <2>5. CASE Start(b) \/ Stop(b) \/ EndWaitForRoutes(b) \/ Exit(b) \/ AcceptHangs(b) \/ Refuse(b)
        BY <1>2, <2>5 DEF Start, StartApplication, Stop, StopApplication, EndWaitForRoutes,
           CompleteWaitForTraceRoute, Exit, CC!Exit, AcceptHangs, CC!HandleAcceptHangs, Connected,
           Refuse, BotEvent, ccVars, botVars
  <2> QED BY <1>3, <2>1, <2>2, <2>3, <2>4, <2>5 DEF BotNext
<1>4. CASE CCStart \/ UNCHANGED vars
      BY <1>2, <1>4 DEF CCStart, CC!StartApplication, vars, ccVars, botVars
<1> QED BY <1>3, <1>4 DEF Next

(* The attack implements the agreement: one target is chosen, every bot    *)
(* learns that one or none, and floods only once it has learned it.        *)
THEOREM ImplementsAgreementHolds ==
    ASSUME "routes" \in WaitsCover
    PROVE  Spec => ImplementsAgreement
<1>1. Init => Abstract!Init
      BY DEF Init, BotInit, CC!Init, Abstract!Init
<1>2. /\ TypeOK /\ TypeOK' /\ AgreeInv /\ CrossInv /\ CrossInv' /\ [Next]_vars
         => [Abstract!Next]_Abstract!vars
      BY RefinementStep
<1> QED BY <1>1, <1>2, TypeCorrect, AgreeInvariance, CrossInvariance, PTL
        DEF Spec, ImplementsAgreement, Abstract!Spec
=============================================================================
