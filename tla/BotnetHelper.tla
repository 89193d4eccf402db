---------------------------- MODULE BotnetHelper ----------------------------
(***************************************************************************)
(* The roles of the leaf nodes (botnet/helper/botnet-helper.cc).  A user   *)
(* program calls the operations of one BotnetHelper in any order before    *)
(* the simulation runs: CreateBotnet draws bots and a controller among the *)
(* leaves of a topology, CreateBenignNodes takes the rest, and             *)
(* InstallApplications creates the applications of each role on its nodes. *)
(*                                                                         *)
(* CreateBotnet is modelled draw by draw, as its last loop need not end.   *)
(* Called again for the same topology, it appends to m_nodeMap but goes on *)
(* reading and writing the rows of the first call: m_nodeMap is one map.   *)
(***************************************************************************)
EXTENDS Naturals, Sequences, FiniteSets

CONSTANTS
    Topology,   \* the topologies: a sequence of leaf counts, one per AS
    MaxBots,    \* the values of maxBotsPerAs
    Value,      \* the values of an attribute of an application
    Default,    \* the one it has until it is set
    NoNode,     \* the null m_botMaster
    MaxBotnets, \* bound: calls of CreateBotnet
    MaxApps     \* bound: factories per role, and applications per node

ASSUME TopologyAssumption == Topology \subseteq Seq(Nat)
ASSUME MaxBotsAssumption == MaxBots \subseteq Nat
ASSUME DefaultAssumption == Default \in Value
ASSUME NoNodeAssumption == NoNode \notin Nat \X Nat

VARIABLES
    leaves,         \* m_numLeafPerAs: the topology of this run
    pc,             \* where the helper is: idle between calls, in a loop, or over
    m_maxBotsPerAs,
    asId,           \* the AS CreateBotnet is at
    count,          \* the draws made there
    m_nodeMap,      \* the role of each leaf
    m_botnet,       \* the Botnet object of the last CreateBotnet
    m_apps,         \* m_botApps, m_ccApps and m_benignApps
    apps,           \* the applications installed on each node
    former          \* history: the bots and the other nodes of earlier botnets

loopVars == <<pc, asId, count>>
botnetVars == <<m_maxBotsPerAs, m_botnet, former>>
vars == <<leaves, loopVars, botnetVars, m_nodeMap, m_apps, apps>>

Leaf == UNION {{a} \X (1 .. leaves[a]) : a \in DOMAIN leaves}

AppRole == {"BOT", "CENTRAL_CONTROLLER", "BENIGN"}

(* new Botnet(type, name) *)
NewBotnet(type) ==
    [m_type |-> type, m_botNodes |-> {}, m_botNum |-> 0, m_botMaster |-> NoNode,
     m_benignNodes |-> {}, m_benignNum |-> 0]

Init ==
    /\ leaves \in Topology
    /\ pc = "idle" /\ asId = 1 /\ count = 0
    /\ m_maxBotsPerAs = 0
    /\ m_nodeMap = [n \in Leaf |-> "UNINITIALIZED"]
    /\ m_botnet = NewBotnet("none")
    /\ m_apps = [r \in AppRole |-> <<>>]
    /\ apps = [n \in Leaf |-> <<>>]
    /\ former = [calls |-> 0, bots |-> {}, rest |-> {}]

(* m_botnet points to an object. *)
Created == m_botnet.m_type # "none"

-----------------------------------------------------------------------------
CreateBotnet(max, type) ==
    /\ pc = "idle"
    /\ leaves # <<>>
    /\ former.calls < MaxBotnets
    /\ pc' = "bots" /\ asId' = 1 /\ count' = 0
    /\ m_maxBotsPerAs' = max
    /\ m_botnet' = NewBotnet(type)
    /\ former' = [calls |-> former.calls + 1,
                  bots |-> former.bots \union m_botnet.m_botNodes,
                  rest |-> former.rest \union m_botnet.m_benignNodes
                             \union ({m_botnet.m_botMaster} \ {NoNode})]
    /\ UNCHANGED <<leaves, m_nodeMap, m_apps, apps>>

(* exit(1) when the topology has no AS. *)
CreateBotnetExits ==
    /\ pc = "idle"
    /\ leaves = <<>>
    /\ pc' = "exited"
    /\ UNCHANGED <<leaves, asId, count, botnetVars, m_nodeMap, m_apps, apps>>

(* The operators called ...Mistake are plausible errors in the definition  *)
(* they precede; each makes TLC refute a property that should catch it.    *)

MoreDrawsMistake == leaves[asId] > 0 /\ count <= m_maxBotsPerAs

MoreDraws == leaves[asId] > 0 /\ count < m_maxBotsPerAs

FreeMistake(n) == m_nodeMap[n] # "BOT"

Free(n) == m_nodeMap[n] = "UNINITIALIZED"

(* Counts the draws instead of the bots. *)
WithBotMistake(n) ==
    [m_botnet EXCEPT !.m_botNodes = IF Free(n) THEN @ \union {n} ELSE @, !.m_botNum = @ + 1]

(* m_botnet after leaf n was drawn; a leaf drawn before is not added again. *)
WithBot(n) ==
    IF Free(n) THEN [m_botnet EXCEPT !.m_botNodes = @ \union {n}, !.m_botNum = @ + 1]
    ELSE m_botnet

(* leafId = rand() % m_numLeafPerAs[asId], with replacement. *)
DrawBot(leafId) ==
    /\ pc = "bots" /\ MoreDraws
    /\ leafId \in 1 .. leaves[asId]
    /\ m_botnet' = WithBot(<<asId, leafId>>)
    /\ m_nodeMap' = [m_nodeMap EXCEPT ![<<asId, leafId>>] =
                       IF Free(<<asId, leafId>>) THEN "BOT" ELSE @]
    /\ count' = count + 1
    /\ UNCHANGED <<leaves, pc, asId, m_maxBotsPerAs, former, m_apps, apps>>

LastAsMistake == asId > Len(leaves)

LastAs == asId = Len(leaves)

(* Only a centralized botnet gets a controller; P2P is not supported yet.  *)
NextAs ==
    /\ pc = "bots" /\ ~MoreDraws
    /\ count' = 0
    /\ IF LastAs
       THEN pc' = (IF m_botnet.m_type = "CENTRALIZED" THEN "drawAs" ELSE "idle")
            /\ UNCHANGED asId
       ELSE asId' = asId + 1 /\ UNCHANGED pc
    /\ UNCHANGED <<leaves, botnetVars, m_nodeMap, m_apps, apps>>

(* An AS without leaves is drawn anew. *)
DrawAs(a) ==
    /\ pc = "drawAs"
    /\ a \in DOMAIN leaves
    /\ asId' = a
    /\ pc' = IF leaves[a] = 0 THEN "drawAs" ELSE "drawLeaf"
    /\ UNCHANGED <<leaves, count, botnetVars, m_nodeMap, m_apps, apps>>

(* After a bot, draws another leaf of the same AS. *)
RedrawMistake == "drawLeaf"

(* After a bot, draws the AS again, too. *)
Redraw == "drawAs"

NoBot(n) == n \in Leaf /\ m_nodeMap[n] # "BOT"

(* Any leaf that is not a bot will do, whatever else it was before. *)
DrawLeaf(leafId) ==
    /\ pc = "drawLeaf"
    /\ leafId \in 1 .. leaves[asId]
    /\ IF NoBot(<<asId, leafId>>)
       THEN /\ pc' = "idle"
            /\ m_nodeMap' = [m_nodeMap EXCEPT ![<<asId, leafId>>] = "CENTRAL_CONTROLLER"]
            /\ m_botnet' = [m_botnet EXCEPT !.m_botMaster = <<asId, leafId>>]
       ELSE pc' = Redraw /\ UNCHANGED <<m_nodeMap, m_botnet>>
    /\ UNCHANGED <<leaves, asId, count, m_maxBotsPerAs, former, m_apps, apps>>

CreateBenignNodes ==
    LET rest == {n \in Leaf : m_nodeMap[n] = "UNINITIALIZED"} IN
    /\ pc = "idle" /\ Created
    /\ m_nodeMap' = [n \in Leaf |-> IF n \in rest THEN "BENIGN" ELSE m_nodeMap[n]]
    /\ m_botnet' = [m_botnet EXCEPT !.m_benignNodes = @ \union rest,
                                    !.m_benignNum = @ + Cardinality(rest)]
    /\ UNCHANGED <<leaves, loopVars, m_maxBotsPerAs, former, m_apps, apps>>

(* The indices GetBot and GetBenign log an error for, before they hand     *)
(* them to the container all the same.                                     *)
NoSuchBot(num) == num >= m_botnet.m_botNum
NoSuchBenign(num) == num >= m_botnet.m_benignNum

AddApplication(role) ==
    /\ pc = "idle"
    /\ Len(m_apps[role]) < MaxApps
    /\ m_apps' = [m_apps EXCEPT ![role] = Append(@, [type |-> role, value |-> Default])]
    /\ UNCHANGED <<leaves, loopVars, botnetVars, m_nodeMap, apps>>

(* Changes the factory, not what it has created. *)
SetAttribute(role, appIndex, value) ==
    /\ pc = "idle"
    /\ appIndex \in DOMAIN m_apps[role]
    /\ m_apps' = [m_apps EXCEPT ![role][appIndex].value = value]
    /\ UNCHANGED <<leaves, loopVars, botnetVars, m_nodeMap, apps>>

(* What InstallApplications adds to node n, in its order of the roles. *)
Installed(n) ==
    LET If(holds, s) == IF holds THEN s ELSE <<>> IN
    If(n \in m_botnet.m_botNodes, m_apps["BOT"])
      \o If(n = m_botnet.m_botMaster, m_apps["CENTRAL_CONTROLLER"])
      \o If(n \in m_botnet.m_benignNodes, m_apps["BENIGN"])

(* Without a controller, the first application for it is a null dereference. *)
InstallCrashes == m_botnet.m_botMaster = NoNode /\ m_apps["CENTRAL_CONTROLLER"] # <<>>

InstallApplications ==
    /\ pc = "idle" /\ Created
    /\ \A n \in Leaf : Len(apps[n]) < MaxApps
    /\ IF InstallCrashes THEN pc' = "crashed" /\ UNCHANGED apps
       ELSE apps' = [n \in Leaf |-> apps[n] \o Installed(n)] /\ UNCHANGED pc
    /\ UNCHANGED <<leaves, asId, count, botnetVars, m_nodeMap, m_apps>>

AsId == UNION {DOMAIN t : t \in Topology}
LeafId == UNION {UNION {1 .. t[a] : a \in DOMAIN t} : t \in Topology}

Next ==
    \/ \E max \in MaxBots, type \in {"CENTRALIZED", "P2P"} : CreateBotnet(max, type)
    \/ CreateBotnetExits
    \/ NextAs
    \/ \E a \in AsId : DrawAs(a)
    \/ \E l \in LeafId : DrawBot(l) \/ DrawLeaf(l)
    \/ CreateBenignNodes
    \/ InstallApplications
    \/ \E r \in AppRole :
         \/ AddApplication(r)
         \/ \E i \in 1 .. MaxApps, v \in Value : SetAttribute(r, i, v)

Spec == Init /\ [][Next]_vars

(* A call runs to its end, and rand() gives an AS that has a leaf to give  *)
(* again and again, and such a leaf of it; no one obliges the user to call. *)
FairSpec ==
    /\ Spec
    /\ WF_vars(NextAs) /\ WF_vars(\E l \in LeafId : DrawBot(l) \/ DrawLeaf(l))
    /\ SF_vars(\E a \in AsId : (\E l \in LeafId : NoBot(<<a, l>>)) /\ DrawAs(a))
    /\ SF_vars(\E l \in LeafId : NoBot(<<asId, l>>) /\ DrawLeaf(l))

-----------------------------------------------------------------------------
Role == AppRole \union {"UNINITIALIZED"}
Application == [type : AppRole, value : Value]

TypeOK ==
    /\ leaves \in Topology
    /\ pc \in {"idle", "bots", "drawAs", "drawLeaf", "exited", "crashed"}
    /\ asId \in Nat \ {0} /\ (pc \in {"bots", "drawLeaf"} => asId \in DOMAIN leaves)
    /\ count \in Nat
    /\ m_maxBotsPerAs \in Nat
    /\ m_nodeMap \in [Leaf -> Role]
    /\ m_botnet \in [m_type : {"none", "CENTRALIZED", "P2P"},
                     m_botNodes : SUBSET Leaf, m_botNum : Nat,
                     m_botMaster : Leaf \union {NoNode},
                     m_benignNodes : SUBSET Leaf, m_benignNum : Nat]
    /\ m_apps \in [AppRole -> Seq(Application)]
    /\ apps \in [Leaf -> Seq(Application)]
    /\ former \in [calls : Nat, bots : SUBSET Leaf, rest : SUBSET Leaf]

(* GetBot and GetBenign log an error for exactly the indices outside of    *)
(* the container they read, whatever was drawn twice: none is read in      *)
(* silence, and no node is out of reach.                                   *)
BadIndicesAreLogged ==
    \A num \in 0 .. Cardinality(Leaf) :
      /\ NoSuchBot(num) <=> num >= Cardinality(m_botnet.m_botNodes)
      /\ NoSuchBenign(num) <=> num >= Cardinality(m_botnet.m_benignNodes)

BotsOf(a) == {n \in m_botnet.m_botNodes : n[1] = a}

(* "a maximum of maxBotsPerAs from each existing AS"; and in the first     *)
(* botnet at least one, since its first draw in an AS hits a free leaf.    *)
BotsPerAs ==
    \A a \in DOMAIN leaves :
      /\ Cardinality(BotsOf(a)) <= m_maxBotsPerAs
      /\ former.calls = 1 /\ pc # "bots" /\ leaves[a] > 0 /\ m_maxBotsPerAs > 0
           => BotsOf(a) # {}

(* The roles of a botnet are disjoint, and botnets created one after the   *)
(* other share no node, except that a controller may be a benign node or   *)
(* the controller of an earlier one.  No controller is a bot of any.       *)
BotnetsShareNoBots ==
    LET earlier == former.bots \union former.rest IN
    /\ m_botnet.m_botNodes \intersect (earlier \union m_botnet.m_benignNodes) = {}
    /\ m_botnet.m_benignNodes \intersect earlier = {}
    /\ m_botnet.m_botMaster \notin
         former.bots \union m_botnet.m_botNodes \union m_botnet.m_benignNodes

(* The applications address each other by index: all bots of a botnet hold *)
(* the same applications at the same indices, and no application of        *)
(* another role comes between; likewise its benign nodes.                  *)
Alike(nodes, role) ==
    \A m, n \in nodes :
      apps[m] = apps[n] /\ \A i \in DOMAIN apps[n] : apps[n][i].type = role

AppIndicesAgree ==
    Alike(m_botnet.m_botNodes, "BOT") /\ Alike(m_botnet.m_benignNodes, "BENIGN")

(* CreateBotnet ends if some leaf is not a bot: "If your code ever gets    *)
(* stuck here, make the topology bigger".                                  *)
CreationEnds == pc = "bots" ~> (pc = "idle" \/ \A n \in Leaf : ~NoBot(n))
=============================================================================
