------------------------ MODULE LinkFloodingCC_proofs ------------------------
(***************************************************************************)
(* Proofs about LinkFloodingCC for every set of addresses, nodes and       *)
(* clients, every order and number of reports, and every counter width.    *)
(***************************************************************************)
EXTENDS LinkFloodingCC, FiniteSetTheorems, TLAPS

(* Why m_max_address is right: a counter that has not wrapped is the true  *)
(* count, m_max_hops bounds the counters and is the count of m_max_address.*)
CountsTrue == \A a \in Addr : tally[a] < CountLimit => m_routers[a] = tally[a]

MaxIsBound == \A a \in Addr : m_routers[a] <= m_max_hops

MaxIsReached ==
    m_max_address \in Addr /\ tally[m_max_address] < CountLimit
      => m_max_hops = tally[m_max_address]

MaxOfReports ==
    IF m_max_address = NoAddr THEN m_max_hops = 0 /\ \A a \in Addr : tally[a] = 0
                              ELSE m_max_hops > 0

MaxInv == CountsTrue /\ MaxIsBound /\ MaxIsReached /\ MaxOfReports

(* Why a hang means that nothing was reported. *)
HangInv == sim = "hung" => m_max_address = NoAddr

(* Why one node is captured: it is computed with the first answer. *)
Uncomputed ==
    /\ m_critical_node_id = NoNode
    /\ captured = {}
    /\ \A c \in Client : answer[c] = NoAddr

Computed ==
    /\ m_critical_node_id \in Node
    /\ captured = {<<m_critical_node_id, 1>>}
    /\ \E c \in Client : answer[c] # NoAddr /\ Holder[answer[c]] = m_critical_node_id

CaptureInv == Uncomputed \/ Computed

IInv == TypeOK /\ MaxInv /\ HangInv /\ CaptureInv

USE AddrAssumption, NodeAssumption, HolderAssumption, LimitAssumption, BoundAssumption

(* Incrementing a counter keeps its width, and counts while it has room. *)
LEMMA IncrementedFits ==
    ASSUME NEW n \in 0 .. CountLimit - 1
    PROVE  /\ Incremented(n) \in 0 .. CountLimit - 1
           /\ n + 1 < CountLimit => Incremented(n) = n + 1
BY SMT DEF Incremented

(* A node computed for a client is a node, and the one of the maximum      *)
(* unless it was computed before.                                          *)
LEMMA CriticalNodeHolds ==
    ASSUME TypeOK
    PROVE  /\ CriticalNode \in Node \union {NoNode}
           /\ m_critical_node_id \in Node => CriticalNode = m_critical_node_id
           /\ m_critical_node_id = NoNode /\ m_max_address \in Addr
                => CriticalNode = Holder[m_max_address]
           /\ CriticalNode = NoNode => m_max_address = NoAddr
           /\ m_critical_node_id = NoNode /\ CriticalNode # NoNode
                => m_max_address \in Addr
BY DEF TypeOK, CriticalNode, GetCriticalNodeIndex

(* The initial state satisfies the inductive invariant. *)
LEMMA InitIInv == Init => IInv
<1> SUFFICES ASSUME Init PROVE IInv
  OBVIOUS
<1> USE DEF Init
<1>1. TypeOK
  <2>1. 0 \in 0 .. CountLimit - 1 /\ 0 \in Nat
    OBVIOUS
  <2>2. listening \in BOOLEAN /\ captured \subseteq Node \X Nat /\ sim \in {"running"}
    OBVIOUS
  <2>3. /\ m_routers \in [Addr -> 0 .. CountLimit - 1]
        /\ tally \in [Addr -> Nat]
        /\ answer \in [Client -> Addr \union {NoAddr}]
    BY <2>1
  <2> QED BY <2>1, <2>2, <2>3 DEF TypeOK
<1>2. MaxInv
  BY DEF MaxInv, CountsTrue, MaxIsBound, MaxIsReached, MaxOfReports
<1>3. HangInv /\ CaptureInv
  BY DEF HangInv, CaptureInv, Uncomputed
<1> QED BY <1>1, <1>2, <1>3 DEF IInv

(* Every step keeps the types. *)
LEMMA TypeStep == TypeOK /\ [Next]_vars => TypeOK'
<1> SUFFICES ASSUME TypeOK, [Next]_vars PROVE TypeOK'
  OBVIOUS
<1>1. CASE StartApplication
  BY <1>1 DEF TypeOK, StartApplication
<1>2. ASSUME NEW a \in Addr, RouteTraceCallback(a) PROVE TypeOK'
  <2>1. m_routers' \in [Addr -> 0 .. CountLimit - 1]
    BY <1>2, IncrementedFits DEF TypeOK, RouteTraceCallback, Leads
  <2>2. m_max_hops' \in 0 .. CountLimit - 1 /\ m_max_address' \in Addr \union {NoAddr}
    BY <1>2, <2>1 DEF TypeOK, RouteTraceCallback, Leads
  <2>3. tally' \in [Addr -> Nat]
    BY <1>2 DEF TypeOK, RouteTraceCallback, Leads
  <2> QED BY <1>2, <2>1, <2>2, <2>3 DEF TypeOK, RouteTraceCallback, Leads
<1>3. ASSUME NEW c \in Client, HandleAccept(c) PROVE TypeOK'
  BY <1>3, CriticalNodeHolds DEF TypeOK, HandleAccept, Accepts, Captured, Reply
<1>4. ASSUME NEW c \in Client, HandleAcceptHangs(c) PROVE TypeOK'
  BY <1>4 DEF TypeOK, HandleAcceptHangs, Accepts
<1>5. CASE Exit
  BY <1>5 DEF TypeOK, Exit
<1>6. CASE UNCHANGED vars
  BY <1>6 DEF TypeOK, vars
<1> QED BY <1>1, <1>2, <1>3, <1>4, <1>5, <1>6 DEF Next

(* A report keeps the relation between the counters and the maximum. *)
LEMMA ReportStep ==
    ASSUME TypeOK, MaxInv, NEW a \in Addr, RouteTraceCallback(a), TypeOK'
    PROVE  MaxInv'
<1> USE DEF RouteTraceCallback, Leads, TypeOK
<1>1. CountsTrue'
  <2> SUFFICES ASSUME NEW b \in Addr, tally'[b] < CountLimit
               PROVE  m_routers'[b] = tally'[b]
    BY DEF CountsTrue
  <2>1. CASE b = a
    <3>1. tally[a] < CountLimit /\ m_routers[a] = tally[a]
      BY <2>1 DEF MaxInv, CountsTrue
    <3>2. Incremented(m_routers[a]) = m_routers[a] + 1
      BY <2>1, <3>1, IncrementedFits
    <3> QED BY <2>1, <3>1, <3>2
  <2>2. CASE b # a
    BY <2>2 DEF MaxInv, CountsTrue
  <2> QED BY <2>1, <2>2
<1>2. MaxIsBound'
  <2> SUFFICES ASSUME NEW b \in Addr PROVE m_routers'[b] <= m_max_hops'
    BY DEF MaxIsBound
  <2>1. m_max_hops' >= m_max_hops /\ m_routers'[a] <= m_max_hops'
    OBVIOUS
  <2>2. b # a => m_routers'[b] = m_routers[b] /\ m_routers[b] <= m_max_hops
    BY DEF MaxInv, MaxIsBound
  <2> QED BY <2>1, <2>2
<1>3. MaxIsReached'
  <2> SUFFICES ASSUME m_max_address' \in Addr, tally'[m_max_address'] < CountLimit
               PROVE  m_max_hops' = tally'[m_max_address']
    BY DEF MaxIsReached
  <2>1. CASE m_routers'[a] > m_max_hops
    BY <1>1, <2>1 DEF CountsTrue
  <2>2. CASE ~(m_routers'[a] > m_max_hops)
    <3>1. m_max_address' = m_max_address /\ m_max_hops' = m_max_hops
      BY <2>2
    <3>2. m_max_address # a
      BY <1>1, <2>2, <3>1 DEF CountsTrue, MaxInv, MaxIsReached
    <3> QED BY <3>1, <3>2 DEF MaxInv, MaxIsReached
  <2> QED BY <2>1, <2>2
<1>4. MaxOfReports'
  <2>1. m_max_address = NoAddr => m_routers'[a] > m_max_hops
    <3> SUFFICES ASSUME m_max_address = NoAddr PROVE m_routers'[a] > m_max_hops
      OBVIOUS
    <3>1. m_max_hops = 0 /\ tally[a] = 0 /\ m_routers[a] = 0
      BY DEF MaxInv, MaxOfReports, CountsTrue
    <3> QED BY <3>1, IncrementedFits
  <2>2. m_max_address' # NoAddr
    BY <2>1
  <2>3. m_max_hops \in Nat /\ m_routers'[a] \in Nat
    OBVIOUS
  <2>4. CASE m_routers'[a] > m_max_hops
    BY <2>2, <2>3, <2>4 DEF MaxOfReports
  <2>5. CASE ~(m_routers'[a] > m_max_hops)
    BY <2>1, <2>2, <2>5 DEF MaxInv, MaxOfReports
  <2> QED BY <2>4, <2>5
<1> QED BY <1>1, <1>2, <1>3, <1>4 DEF MaxInv

(* Every step keeps it. *)
LEMMA MaxStep == TypeOK /\ TypeOK' /\ MaxInv /\ [Next]_vars => MaxInv'
<1> SUFFICES ASSUME TypeOK, TypeOK', MaxInv, [Next]_vars PROVE MaxInv'
  OBVIOUS
<1>1. ASSUME NEW a \in Addr, RouteTraceCallback(a) PROVE MaxInv'
  BY <1>1, ReportStep
<1>2. ASSUME UNCHANGED <<m_routers, m_max_hops, m_max_address, tally>> PROVE MaxInv'
  BY <1>2 DEF MaxInv, CountsTrue, MaxIsBound, MaxIsReached, MaxOfReports
<1> QED BY <1>1, <1>2 DEF Next, StartApplication, Exit, HandleAccept, HandleAcceptHangs, Accepts,
   Captured, Reply, vars

(* Nothing runs once the simulator hangs. *)
LEMMA HangStep == TypeOK /\ HangInv /\ [Next]_vars => HangInv'
BY CriticalNodeHolds DEF HangInv, Next, StartApplication, Exit, RouteTraceCallback,
   HandleAccept, HandleAcceptHangs, Accepts,
   Captured, Reply, vars

(* The first answer computes the node, later ones keep it. *)
LEMMA CaptureStep == TypeOK /\ CaptureInv /\ [Next]_vars => CaptureInv'
<1> SUFFICES ASSUME TypeOK, CaptureInv, [Next]_vars PROVE CaptureInv'
  OBVIOUS
<1>1. ASSUME NEW c \in Client, HandleAccept(c) PROVE CaptureInv'
  <2> USE <1>1 DEF HandleAccept, Accepts, Captured, Reply, TypeOK
  <2>1. CASE Uncomputed
    <3>1. m_max_address \in Addr /\ CriticalNode = Holder[m_max_address]
      BY <2>1, CriticalNodeHolds DEF Uncomputed
    <3>2. answer'[c] = m_max_address /\ captured' = {<<CriticalNode, 1>>}
      BY <2>1 DEF Uncomputed
    <3> QED BY <3>1, <3>2 DEF CaptureInv, Computed
  <2>2. CASE Computed
    <3>1. CriticalNode = m_critical_node_id
      BY <2>2, CriticalNodeHolds DEF Computed
    <3>2. PICK d \in Client : answer[d] # NoAddr /\ Holder[answer[d]] = m_critical_node_id
      BY <2>2 DEF Computed
    <3>3. answer'[d] = answer[d]
      BY <3>2
    <3> QED BY <2>2, <3>1, <3>2, <3>3 DEF CaptureInv, Computed
  <2> QED BY <2>1, <2>2 DEF CaptureInv
<1>2. ASSUME UNCHANGED <<m_critical_node_id, captured, answer>> PROVE CaptureInv'
  BY <1>2 DEF CaptureInv, Uncomputed, Computed
<1> QED BY <1>1, <1>2 DEF Next, StartApplication, Exit, RouteTraceCallback, HandleAcceptHangs,
                           vars

(* The inductive invariant holds in every reachable state. *)
THEOREM Invariance == Spec => []IInv
<1>1. Init => IInv
  BY InitIInv
<1>2. IInv /\ [Next]_vars => IInv'
  BY TypeStep, MaxStep, HangStep, CaptureStep DEF IInv
<1> QED BY <1>1, <1>2, PTL DEF Spec

(* Type correctness of the controller: in particular every counter of      *)
(* m_routers stays within its width.                                       *)
THEOREM TypeCorrect == Spec => []TypeOK
BY Invariance, PTL DEF IInv

(* The address that HandleAccept sends is a most reported one, for any     *)
(* order of the reports, as long as no counter has wrapped.                *)
THEOREM MaxIsMostUsedHolds == Spec => []MaxIsMostUsed
<1>1. IInv => MaxIsMostUsed
  <2> SUFFICES ASSUME IInv, NoWrap, m_max_address # NoAddr, NEW b \in Addr
               PROVE  tally[b] <= tally[m_max_address]
    BY DEF MaxIsMostUsed, MostUsed
  <2>1. m_max_address \in Addr
    BY DEF IInv, TypeOK
  <2>2. m_max_hops = tally[m_max_address]
    BY <2>1 DEF IInv, MaxInv, MaxIsReached, NoWrap
  <2>3. tally[b] = m_routers[b] /\ m_routers[b] <= m_max_hops
    BY DEF IInv, MaxInv, CountsTrue, MaxIsBound, NoWrap
  <2> QED BY <2>2, <2>3
<1> QED BY <1>1, Invariance, PTL

(* At most one device is ever captured, and its node holds an address that *)
(* some client was answered with; HandleAccept loops for ever only if no   *)
(* traceroute has reported a hop.                                          *)
THEOREM CaptureHoldsAnAnswerHolds == Spec => []CaptureHoldsAnAnswer
<1>1. IInv => CaptureHoldsAnAnswer
  <2> SUFFICES ASSUME CaptureInv, sim = "hung" => \A a \in Addr : tally[a] = 0
               PROVE  CaptureHoldsAnAnswer
    BY DEF IInv, MaxInv, MaxOfReports, HangInv
  <2>1. CASE Uncomputed
    BY <2>1, FS_EmptySet DEF Uncomputed, CaptureHoldsAnAnswer
  <2>2. CASE Computed
    <3>1. Cardinality(captured) = 1
      BY <2>2, FS_Singleton DEF Computed
    <3> QED BY <2>2, <3>1 DEF Computed, CaptureHoldsAnAnswer
  <2> QED BY <2>1, <2>2 DEF CaptureInv
<1> QED BY <1>1, Invariance, PTL

(* A tie never changes the address the controller answers with. *)
THEOREM OvertakenOnlyByMoreUsedHolds == Spec => OvertakenOnlyByMoreUsed
<1> DEFINE Overtaken == NoWrap' /\ m_max_address # NoAddr /\ m_max_address' # m_max_address
                          => tally'[m_max_address'] > tally'[m_max_address]
<1>1. ASSUME IInv, IInv', [Next]_vars PROVE [Overtaken]_vars
  <2>1. ASSUME NEW a \in Addr, RouteTraceCallback(a), NoWrap',
               m_max_address # NoAddr, m_max_address' # m_max_address
        PROVE  tally'[m_max_address'] > tally'[m_max_address]
    <3> USE <1>1, <2>1 DEF RouteTraceCallback, Leads, IInv, TypeOK
    <3>1. m_max_address' = a /\ m_routers'[a] > m_max_hops /\ m_max_address \in Addr
      OBVIOUS
    <3>2. tally'[m_max_address] = tally[m_max_address] /\ m_routers'[a] = tally'[a]
      BY <3>1 DEF MaxInv, CountsTrue, NoWrap
    <3>3. tally[m_max_address] < CountLimit
      BY <3>1, <3>2 DEF NoWrap
    <3>4. m_max_hops = tally[m_max_address]
      BY <3>1, <3>3 DEF MaxInv, MaxIsReached
    <3> QED BY <3>1, <3>2, <3>4
  <2>2. ASSUME m_max_address' = m_max_address PROVE Overtaken
    BY <2>2
  <2> QED BY <1>1, <2>1, <2>2 DEF Next, StartApplication, Exit, HandleAccept,
                                   HandleAcceptHangs, vars
<1> QED BY <1>1, Invariance, PTL DEF Spec, OvertakenOnlyByMoreUsed
=============================================================================
