--------------------------- MODULE LinkFloodingCC ---------------------------
(***************************************************************************)
(* The central controller of the link-flooding attack                      *)
(* (botnet/model/linkfloodingattackcc.cc).  Every traceroute of the        *)
(* network reports the hops it finds to RouteTraceCallback, which counts   *)
(* them per address; a bot that connects is answered, in HandleAccept,     *)
(* with the address counted most often so far.                             *)
(*                                                                         *)
(* The simulator runs one callback at a time, so each callback is one      *)
(* action.  An address that m_routers has no entry for counts as zero.     *)
(***************************************************************************)
EXTENDS Naturals, FiniteSets

CONSTANTS
    Addr,        \* the IPv4 addresses a traceroute can report
    NoAddr,      \* an Ipv4Address no node holds: the default-constructed one
    Node,        \* the nodes of NodeList
    NoNode,      \* -1, the value of m_critical_node_id until it is computed
    Holder,      \* Holder[a]: the node with an interface of address a
    Device,      \* Device[a]: the index of that interface's device on its node
    Client,      \* the bots that may connect
    CountLimit,  \* 2^16: m_routers counts in uint16_t
    MaxReports   \* bound: the reports per address that a run explores

ASSUME AddrAssumption  == NoAddr \notin Addr
ASSUME NodeAssumption  == NoNode \notin Node
ASSUME HolderAssumption == Holder \in [Addr -> Node] /\ Device \in [Addr -> Nat]
ASSUME LimitAssumption == CountLimit \in Nat /\ CountLimit > 1
ASSUME BoundAssumption == MaxReports \in Nat

VARIABLES
    listening,          \* StartApplication has run: listening and tracing
    m_routers,          \* reports per address, modulo CountLimit
    m_max_hops,         \* the largest count seen
    m_max_address,      \* the address that first reached it
    m_critical_node_id, \* the node believed to hold m_max_address
    captured,           \* <<node, device>>: written to a pcap file
    answer,             \* answer[c]: the address sent to client c
    sim,                \* the simulator: running, hung in a loop, or exited
    tally               \* history: the true number of reports per address

vars == <<listening, m_routers, m_max_hops, m_max_address,
          m_critical_node_id, captured, answer, sim, tally>>

Init ==
    /\ listening = FALSE
    /\ m_routers = [a \in Addr |-> 0]
    /\ m_max_hops = 0
    /\ m_max_address = NoAddr
    /\ m_critical_node_id = NoNode
    /\ captured = {}
    /\ answer = [c \in Client |-> NoAddr]
    /\ sim = "running"
    /\ tally = [a \in Addr |-> 0]

-----------------------------------------------------------------------------
(* The operators called ...Mistake are plausible errors in the definition  *)
(* they precede; each makes TLC refute a property that should catch it.    *)

IncrementedMistake(n) == n + 1   \* forgets the width of the counter

(* m_routers[addr] += 1 on a uint16_t. *)
Incremented(n) == IF n + 1 = CountLimit THEN 0 ELSE n + 1

StartApplication ==
    /\ sim = "running"
    /\ ~listening
    /\ listening' = TRUE
    /\ UNCHANGED <<m_routers, m_max_hops, m_max_address, m_critical_node_id,
                   captured, answer, sim, tally>>

LeadsStaleMistake(a) == m_routers[a] > m_max_hops             \* before the increment
LeadsTieMistake(a) == Incremented(m_routers[a]) >= m_max_hops

(* A report replaces the maximum only when it exceeds it. *)
Leads(a) == Incremented(m_routers[a]) > m_max_hops

RouteTraceCallback(a) ==
    /\ sim = "running"
    /\ listening
    /\ tally[a] < MaxReports
    /\ m_routers' = [m_routers EXCEPT ![a] = Incremented(@)]
    /\ IF Leads(a)
       THEN m_max_hops' = m_routers'[a] /\ m_max_address' = a
       ELSE UNCHANGED <<m_max_hops, m_max_address>>
    /\ tally' = [tally EXCEPT ![a] = @ + 1]
    /\ UNCHANGED <<listening, m_critical_node_id, captured, answer, sim>>

(* The index that GetCriticalNodeIndex leaves in m_critical_node_id: the   *)
(* node that holds m_max_address, or the old value when no node does.      *)
GetCriticalNodeIndex ==
    IF m_max_address \in Addr THEN Holder[m_max_address] ELSE m_critical_node_id

CriticalNodeMistake == GetCriticalNodeIndex  \* computes it every time

(* m_critical_node_id is computed for the first client only. *)
CriticalNode ==
    IF m_critical_node_id = NoNode THEN GetCriticalNodeIndex ELSE m_critical_node_id

AcceptsMistake(c) ==   \* serves the first client only
    sim = "running" /\ listening /\ answer[c] = NoAddr /\ captured = {}

Accepts(c) == sim = "running" /\ listening /\ answer[c] = NoAddr

CapturedMistake == captured       \* leaves out EnablePcapForCriticalNode

(* EnablePcapForCriticalNode: device 1 of the critical node, whichever     *)
(* device of that node the maximum address is on.                          *)
Captured == captured \union {<<CriticalNode, 1>>}

ReplyMistake == CriticalNode      \* the id of the node for its address
Reply == m_max_address

HandleAccept(c) ==
    /\ Accepts(c)
    /\ CriticalNode # NoNode
    /\ m_critical_node_id' = CriticalNode
    /\ captured' = Captured
    /\ answer' = [answer EXCEPT ![c] = Reply]
    /\ UNCHANGED <<listening, m_routers, m_max_hops, m_max_address, sim, tally>>

(* Nothing changes m_max_address while HandleAccept loops on it. *)
HandleAcceptHangs(c) ==
    /\ Accepts(c)
    /\ CriticalNode = NoNode
    /\ sim' = "hung"
    /\ UNCHANGED <<listening, m_routers, m_max_hops, m_max_address,
                   m_critical_node_id, captured, answer, tally>>

(* A bot whose Connect fails calls exit(1): the controller ends with it. *)
Exit ==
    /\ sim = "running"
    /\ sim' = "exited"
    /\ UNCHANGED <<listening, m_routers, m_max_hops, m_max_address,
                   m_critical_node_id, captured, answer, tally>>

Next ==
    \/ StartApplication
    \/ Exit
    \/ \E a \in Addr : RouteTraceCallback(a)
    \/ \E c \in Client : HandleAccept(c) \/ HandleAcceptHangs(c)

Spec == Init /\ [][Next]_vars

-----------------------------------------------------------------------------
TypeOK ==
    /\ listening \in BOOLEAN
    /\ m_routers \in [Addr -> 0 .. CountLimit - 1]
    /\ m_max_hops \in 0 .. CountLimit - 1
    /\ m_max_address \in Addr \union {NoAddr}
    /\ m_critical_node_id \in Node \union {NoNode}
    /\ captured \subseteq Node \X Nat
    /\ answer \in [Client -> Addr \union {NoAddr}]
    /\ sim \in {"running", "hung", "exited"}
    /\ tally \in [Addr -> Nat]

NoWrap == \A a \in Addr : tally[a] < CountLimit

(* No address was reported more often than a. *)
MostUsed(a) == \A b \in Addr : tally[b] <= tally[a]

(* The address RouteTraceCallback keeps incrementally is a most reported   *)
(* one, whatever the order of the reports, as long as no counter wrapped.  *)
MaxIsMostUsed == NoWrap /\ m_max_address # NoAddr => MostUsed(m_max_address)

(* One device is captured from the first answer on, and its node holds an  *)
(* address that some client was answered with.  HandleAccept fails to find *)
(* that node, and loops for ever, only when nothing was ever reported.     *)
CaptureHoldsAnAnswer ==
    /\ sim = "hung" => \A a \in Addr : tally[a] = 0
    /\ Cardinality(captured) <= 1
    /\ \A d \in captured :
         \E c \in Client : answer[c] # NoAddr /\ Holder[answer[c]] = d[1]
    /\ (\E c \in Client : answer[c] # NoAddr) => captured = {<<m_critical_node_id, 1>>}

(* The address in the lead is replaced only by one reported strictly more  *)
(* often: no tie makes two successive answers differ.                      *)
OvertakenOnlyByMoreUsed ==
    [][NoWrap' /\ m_max_address # NoAddr /\ m_max_address' # m_max_address
         => tally'[m_max_address'] > tally'[m_max_address]]_vars
=============================================================================
