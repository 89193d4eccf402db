------------------------ MODULE BotnetHelper_proofs ------------------------
(***************************************************************************)
(* Proofs about BotnetHelper for every topology, every number of calls and *)
(* every sequence of draws.                                                *)
(***************************************************************************)
EXTENDS BotnetHelper, FiniteSetTheorems, SequenceTheorems, TLAPS

Bots == m_botnet.m_botNodes
Benign == m_botnet.m_benignNodes
Master == m_botnet.m_botMaster

Looping == pc \in {"bots", "drawAs", "drawLeaf"}

(* What m_nodeMap says of a leaf that has a role, in this botnet or before. *)
MapInv ==
    /\ \A n \in Bots \union former.bots : m_nodeMap[n] = "BOT"
    /\ \A n \in Benign \union former.rest \union ({Master} \ {NoNode}) :
         m_nodeMap[n] \in {"BENIGN", "CENTRAL_CONTROLLER"}

(* The controller is drawn before the benign nodes are taken. *)
RoleInv ==
    /\ Bots \intersect former.bots = {}
    /\ Benign \intersect former.rest = {}
    /\ Master \notin Benign
    /\ Looping => Benign = {} /\ Master = NoNode

(* The counters count what was added, not what was drawn. *)
FiniteInv ==
    /\ IsFiniteSet(Bots) /\ m_botnet.m_botNum = Cardinality(m_botnet.m_botNodes)
    /\ IsFiniteSet(Benign) /\ m_botnet.m_benignNum = Cardinality(m_botnet.m_benignNodes)

-----------------------------------------------------------------------------
(* The topology is a sequence, and its leaves are pairs of numbers. *)
LEMMA LeafFacts ==
    ASSUME leaves \in Topology
    PROVE  /\ Len(leaves) \in Nat /\ DOMAIN leaves = 1 .. Len(leaves)
           /\ \A a \in DOMAIN leaves : leaves[a] \in Nat
           /\ NoNode \notin Leaf
           /\ \A a \in DOMAIN leaves : \A l \in 1 .. leaves[a] : <<a, l>> \in Leaf
<1>1. leaves \in Seq(Nat)
  BY TopologyAssumption
<1>2. /\ Len(leaves) \in Nat /\ DOMAIN leaves = 1 .. Len(leaves)
      /\ \A a \in DOMAIN leaves : leaves[a] \in Nat
  BY <1>1, LenProperties
<1>3. Leaf \subseteq Nat \X Nat
  BY <1>2, NoNodeAssumption DEF Leaf
<1>4. \A a \in DOMAIN leaves : \A l \in 1 .. leaves[a] : <<a, l>> \in Leaf
  BY DEF Leaf
<1> QED BY <1>2, <1>3, <1>4, NoNodeAssumption

(* No call changes the topology of the run. *)
LEMMA LeafFixed == [Next]_vars => leaves' = leaves /\ Leaf' = Leaf
BY DEF Next, vars, CreateBotnet, CreateBotnetExits, NextAs, DrawAs, DrawBot, DrawLeaf,
   CreateBenignNodes, InstallApplications, AddApplication, SetAttribute, Leaf

(* The topology has finitely many leaves. *)
LEMMA LeafFinite == leaves \in Topology => IsFiniteSet(Leaf)
<1> SUFFICES ASSUME leaves \in Topology PROVE IsFiniteSet(Leaf)
  OBVIOUS
<1> DEFINE row == [a \in DOMAIN leaves |-> {a} \X (1 .. leaves[a])]
           rows == {{a} \X (1 .. leaves[a]) : a \in DOMAIN leaves}
<1>1. IsFiniteSet(DOMAIN leaves)
  BY LeafFacts, FS_Interval
<1>2. row \in Surjection(DOMAIN leaves, rows)
  BY DEF Surjection
<1>3. IsFiniteSet(rows)
  BY <1>1, <1>2, FS_Surjection
<1>4. \A T \in rows : IsFiniteSet(T)
  <2> SUFFICES ASSUME NEW a \in DOMAIN leaves PROVE IsFiniteSet({a} \X (1 .. leaves[a]))
    OBVIOUS
  <2>1. leaves[a] \in Int /\ 1 \in Int
    BY LeafFacts
  <2>2. IsFiniteSet({a}) /\ IsFiniteSet(1 .. leaves[a])
    BY <2>1, FS_Singleton, FS_Interval
  <2> QED BY <2>2, FS_Product
<1>5. IsFiniteSet(UNION rows)
  BY <1>3, <1>4, FS_UNION
<1> QED BY <1>5 DEF Leaf

(* What InstallApplications adds to a node is a sequence of applications. *)
LEMMA InstalledIsSeq ==
    ASSUME TypeOK, NEW n \in Leaf
    PROVE  /\ Installed(n) \in Seq(Application)
           /\ apps[n] \o Installed(n) \in Seq(Application)
<1> DEFINE If(holds, s) == IF holds THEN s ELSE <<>>
           b == If(n \in Bots, m_apps["BOT"])
           c == If(n = Master, m_apps["CENTRAL_CONTROLLER"])
           d == If(n \in Benign, m_apps["BENIGN"])
<1>1. b \in Seq(Application) /\ c \in Seq(Application) /\ d \in Seq(Application)
  BY EmptySeq DEF TypeOK, AppRole
<1>2. Installed(n) = b \o c \o d
  BY DEF Installed, Bots, Benign, Master
<1> HIDE DEF b, c, d
<1>3. b \o c \in Seq(Application)
  BY <1>1, ConcatProperties
<1>4. Installed(n) \in Seq(Application)
  BY <1>1, <1>2, <1>3, ConcatProperties
<1> QED BY <1>4, ConcatProperties DEF TypeOK

BotnetRecord ==
    [m_type : {"none", "CENTRALIZED", "P2P"}, m_botNodes : SUBSET Leaf, m_botNum : Nat,
     m_botMaster : Leaf \union {NoNode}, m_benignNodes : SUBSET Leaf, m_benignNum : Nat]

(* Updates of the Botnet object keep its type. *)
LEMMA BotnetUpdates ==
    ASSUME NEW b \in BotnetRecord, NEW S \in SUBSET Leaf, NEW k \in Nat
    PROVE  /\ [b EXCEPT !.m_botNodes = S, !.m_botNum = k] \in BotnetRecord
           /\ [b EXCEPT !.m_benignNodes = S, !.m_benignNum = k] \in BotnetRecord
<1>1. [b EXCEPT !.m_botNodes = S, !.m_botNum = k] \in BotnetRecord
  BY DEF BotnetRecord
<1>2. [b EXCEPT !.m_benignNodes = S, !.m_benignNum = k] \in BotnetRecord
  BY DEF BotnetRecord
<1> QED BY <1>1, <1>2

(* Every step keeps the types. *)
LEMMA TypeStep == TypeOK /\ [Next]_vars => TypeOK'
<1> SUFFICES ASSUME TypeOK, [Next]_vars PROVE TypeOK'
  OBVIOUS
<1>a. leaves' \in Topology /\ leaves' = leaves /\ Leaf' = Leaf
  BY LeafFixed DEF TypeOK
<1>b. /\ Len(leaves) \in Nat /\ DOMAIN leaves = 1 .. Len(leaves)
      /\ \A a \in DOMAIN leaves : \A l \in 1 .. leaves[a] : <<a, l>> \in Leaf
  BY LeafFacts DEF TypeOK
<1>c. m_botnet \in BotnetRecord
  BY DEF TypeOK, BotnetRecord
<1>d. ASSUME m_botnet' \in BotnetRecord, m_nodeMap' \in [Leaf -> Role],
             UNCHANGED <<m_maxBotsPerAs, m_apps, apps, former>>, count' \in Nat,
             pc' \in {"idle", "bots", "drawAs", "drawLeaf", "exited", "crashed"},
             asId' \in Nat \ {0}, pc' \in {"bots", "drawLeaf"} => asId' \in DOMAIN leaves
      PROVE  TypeOK'
  BY <1>a, <1>d DEF TypeOK, BotnetRecord
<1>e. ASSUME NEW n \in Leaf, NEW role \in Role, m_nodeMap' = [m_nodeMap EXCEPT ![n] = role]
      PROVE  m_nodeMap' \in [Leaf -> Role]
  BY <1>e DEF TypeOK
<1>1. ASSUME NEW max \in MaxBots, NEW type \in {"CENTRALIZED", "P2P"}, CreateBotnet(max, type)
      PROVE  TypeOK'
  <2>1. leaves # <<>> /\ leaves \in Seq(Nat)
    BY <1>1, TopologyAssumption DEF CreateBotnet, TypeOK
  <2>2. asId' \in DOMAIN leaves /\ asId' = 1
    BY <1>1, <1>b, <2>1, EmptySeq DEF CreateBotnet
  <2>3. former' \in [calls : Nat, bots : SUBSET Leaf, rest : SUBSET Leaf]
    BY <1>1 DEF CreateBotnet, TypeOK
  <2>4. NewBotnet(type) \in BotnetRecord
    BY DEF NewBotnet, BotnetRecord
  <2> QED BY <1>1, <1>a, <2>2, <2>3, <2>4, MaxBotsAssumption DEF CreateBotnet, TypeOK, BotnetRecord
<1>2. CASE CreateBotnetExits
  BY <1>2, <1>a, <1>c, <1>d DEF CreateBotnetExits, botnetVars, TypeOK
<1>3. CASE NextAs
  <2>1. pc' \in {"bots", "drawAs", "idle"} /\ asId' \in Nat \ {0}
    BY <1>3 DEF NextAs, TypeOK
  <2>2. pc' = "bots" => asId' \in DOMAIN leaves
    <3>1. asId \in 1 .. Len(leaves)
      BY <1>3, <1>b DEF NextAs, TypeOK
    <3>2. pc' = "bots" => asId # Len(leaves) /\ asId' = asId + 1
      BY <1>3 DEF NextAs, LastAs
    <3>3. Len(leaves) \in Nat /\ DOMAIN leaves = 1 .. Len(leaves)
      BY <1>b
    <3>4. ASSUME NEW n \in Nat, NEW i \in 1 .. n, i # n PROVE i + 1 \in 1 .. n
      BY <3>4
    <3>5. pc' = "bots" => asId + 1 \in 1 .. Len(leaves)
      BY <3>1, <3>2, <3>3, <3>4
    <3> QED BY <3>2, <3>3, <3>5
  <2> QED BY <1>3, <1>c, <1>d, <2>1, <2>2 DEF NextAs, botnetVars, TypeOK
<1>4. ASSUME NEW a \in AsId, DrawAs(a) PROVE TypeOK'
  BY <1>4, <1>b, <1>c, <1>d DEF DrawAs, botnetVars, TypeOK
<1>5. ASSUME NEW l \in LeafId, DrawBot(l) PROVE TypeOK'
  <2>1. <<asId, l>> \in Leaf
    BY <1>5, <1>b DEF DrawBot, TypeOK
  <2>2. m_nodeMap' \in [Leaf -> Role]
    <3>1. m_nodeMap[<<asId, l>>] \in Role /\ "BOT" \in Role
      BY <2>1 DEF TypeOK, Role, AppRole
    <3> QED BY <1>5, <1>e, <2>1, <3>1 DEF DrawBot
  <2>3. m_botnet' \in BotnetRecord
    <3>1. Bots \union {<<asId, l>>} \in SUBSET Leaf /\ m_botnet.m_botNum + 1 \in Nat
      BY <1>c, <2>1 DEF BotnetRecord, Bots
    <3> QED BY <1>5, <1>c, <3>1, BotnetUpdates DEF DrawBot, WithBot, Bots
  <2>4. count' \in Nat /\ UNCHANGED <<m_maxBotsPerAs, m_apps, apps, former, pc, asId>>
    BY <1>5 DEF DrawBot, TypeOK
  <2>5. pc = "bots" /\ asId \in DOMAIN leaves /\ asId \in Nat \ {0}
    BY <1>5 DEF DrawBot, TypeOK
  <2> QED BY <1>d, <2>2, <2>3, <2>4, <2>5
<1>6. ASSUME NEW l \in LeafId, DrawLeaf(l) PROVE TypeOK'
  <2>1. <<asId, l>> \in Leaf
    BY <1>6, <1>b DEF DrawLeaf, TypeOK
  <2>2. m_nodeMap' \in [Leaf -> Role]
    <3>1. "CENTRAL_CONTROLLER" \in Role
      BY DEF Role, AppRole
    <3> QED BY <1>6, <1>e, <2>1, <3>1 DEF DrawLeaf, TypeOK
  <2>3. m_botnet' \in BotnetRecord
    BY <1>6, <1>c, <2>1 DEF DrawLeaf, BotnetRecord
  <2> QED BY <1>6, <1>d, <2>2, <2>3 DEF DrawLeaf, Redraw, TypeOK
<1>7. CASE CreateBenignNodes
  <2> DEFINE rest == {n \in Leaf : m_nodeMap[n] = "UNINITIALIZED"}
  <2>1. m_nodeMap' \in [Leaf -> Role]
    BY <1>7 DEF CreateBenignNodes, Role, AppRole, TypeOK
  <2>2. IsFiniteSet(rest)
    BY LeafFinite, FS_Subset DEF TypeOK
  <2>3. Cardinality(rest) \in Nat
    BY <2>2, FS_CardinalityType
  <2>4. m_botnet' = [m_botnet EXCEPT !.m_benignNodes = @ \union rest,
                                     !.m_benignNum = @ + Cardinality(rest)]
    BY <1>7 DEF CreateBenignNodes
  <2>5. rest \subseteq Leaf
    OBVIOUS
  <2> HIDE DEF rest
  <2>6. m_botnet' \in BotnetRecord
    <3>1. Benign \union rest \in SUBSET Leaf /\ m_botnet.m_benignNum + Cardinality(rest) \in Nat
      BY <1>c, <2>3, <2>5 DEF BotnetRecord, Benign
    <3> QED BY <1>c, <2>4, <3>1, BotnetUpdates DEF Benign
  <2> QED BY <1>7, <1>d, <2>1, <2>6 DEF CreateBenignNodes, loopVars, TypeOK
<1>8. ASSUME m_apps' \in [AppRole -> Seq(Application)],
             UNCHANGED <<leaves, loopVars, botnetVars, m_nodeMap, apps>>
      PROVE  TypeOK'
  BY <1>8, <1>a DEF TypeOK, loopVars, botnetVars
<1>9. ASSUME NEW r \in AppRole, AddApplication(r) PROVE TypeOK'
  <2>1. [type |-> r, value |-> Default] \in Application /\ m_apps[r] \in Seq(Application)
    BY DefaultAssumption DEF Application, TypeOK
  <2>2. Append(m_apps[r], [type |-> r, value |-> Default]) \in Seq(Application)
    BY <2>1, AppendProperties
  <2>3. m_apps' \in [AppRole -> Seq(Application)]
    BY <1>9, <2>2 DEF AddApplication, TypeOK
  <2> QED BY <1>8, <1>9, <2>3 DEF AddApplication
<1>10. ASSUME NEW r \in AppRole, NEW i \in 1 .. MaxApps, NEW v \in Value, SetAttribute(r, i, v)
       PROVE  TypeOK'
  <2> DEFINE app == [m_apps[r][i] EXCEPT !.value = v]
  <2>1. m_apps[r] \in Seq(Application) /\ i \in 1 .. Len(m_apps[r])
    BY <1>10, LenProperties DEF SetAttribute, TypeOK
  <2>2. m_apps[r][i] \in Application
    BY <2>1, ElementOfSeq
  <2>3. app \in Application
    BY <2>2 DEF Application
  <2>4. [m_apps[r] EXCEPT ![i] = app] \in Seq(Application)
    BY <2>1, <2>3, ExceptSeq
  <2>5. m_apps' = [m_apps EXCEPT ![r] = [m_apps[r] EXCEPT ![i] = app]]
    BY <1>10 DEF SetAttribute, TypeOK
  <2>6. m_apps' \in [AppRole -> Seq(Application)]
    BY <2>4, <2>5 DEF TypeOK
  <2> QED BY <1>8, <1>10, <2>6 DEF SetAttribute
<1>11. CASE InstallApplications
  <2>1. apps' \in [Leaf -> Seq(Application)]
    <3>1. \A n \in Leaf : apps[n] \o Installed(n) \in Seq(Application)
      BY InstalledIsSeq
    <3>2. apps' = apps \/ apps' = [n \in Leaf |-> apps[n] \o Installed(n)]
      BY <1>11 DEF InstallApplications
    <3> QED BY <3>1, <3>2 DEF TypeOK
  <2>2. pc' \in {"idle", "crashed"}
    BY <1>11 DEF InstallApplications
  <2> QED BY <1>11, <1>a, <2>1, <2>2 DEF InstallApplications, botnetVars, TypeOK
<1>12. CASE UNCHANGED vars
  BY <1>12, <1>a DEF vars, loopVars, botnetVars, TypeOK
<1> QED BY <1>1, <1>2, <1>3, <1>4, <1>5, <1>6, <1>7, <1>9, <1>10, <1>11, <1>12 DEF Next

-----------------------------------------------------------------------------
(* The record of roles, field by field, after each call that changes it. *)
LEMMA DrawBotEffect ==
    ASSUME TypeOK, NEW l \in LeafId, DrawBot(l)
    PROVE  LET n == <<asId, l>> IN
           /\ n \in Leaf /\ pc = "bots" /\ Looping /\ pc' = pc
           /\ former' = former /\ Benign' = Benign /\ Master' = Master
           /\ \A k \in Leaf : k # n => m_nodeMap'[k] = m_nodeMap[k]
           /\ Free(n) => Bots' = Bots \union {n} /\ m_nodeMap'[n] = "BOT"
           /\ ~Free(n) => Bots' = Bots /\ m_nodeMap'[n] = m_nodeMap[n]
<1> DEFINE n == <<asId, l>>
<1>1. n \in Leaf
  BY LeafFacts DEF DrawBot, TypeOK
<1>2. pc = "bots" /\ Looping /\ pc' = pc /\ former' = former
  BY DEF DrawBot, Looping
<1>3. m_botnet' = WithBot(n)
  BY DEF DrawBot
<1>4. Benign' = Benign /\ Master' = Master
  BY <1>3 DEF WithBot, Benign, Master, TypeOK
<1>5. Bots' = IF Free(n) THEN Bots \union {n} ELSE Bots
  BY <1>3 DEF WithBot, Bots, TypeOK
<1>6. m_nodeMap' = [m_nodeMap EXCEPT ![n] = IF Free(n) THEN "BOT" ELSE @]
  BY DEF DrawBot
<1>7. /\ \A k \in Leaf : k # n => m_nodeMap'[k] = m_nodeMap[k]
      /\ Free(n) => m_nodeMap'[n] = "BOT"
      /\ ~Free(n) => m_nodeMap'[n] = m_nodeMap[n]
  <2> HIDE DEF n
  <2> QED BY <1>1, <1>6 DEF TypeOK
<1> QED BY <1>1, <1>2, <1>4, <1>5, <1>7

(* What one draw for the controller changes: it takes any leaf but a bot. *)
LEMMA DrawLeafEffect ==
    ASSUME TypeOK, NEW l \in LeafId, DrawLeaf(l)
    PROVE  LET n == <<asId, l>> IN
           /\ n \in Leaf /\ pc = "drawLeaf" /\ Looping
           /\ former' = former /\ Benign' = Benign /\ Bots' = Bots
           /\ \A k \in Leaf : k # n => m_nodeMap'[k] = m_nodeMap[k]
           /\ NoBot(n) => /\ Master' = n /\ pc' = "idle"
                          /\ m_nodeMap'[n] = "CENTRAL_CONTROLLER"
           /\ ~NoBot(n) => Master' = Master /\ m_nodeMap'[n] = m_nodeMap[n]
<1> DEFINE n == <<asId, l>>
<1>1. n \in Leaf
  BY LeafFacts DEF DrawLeaf, TypeOK
<1>2. pc = "drawLeaf" /\ Looping /\ former' = former
  BY DEF DrawLeaf, Looping
<1>3. CASE NoBot(n)
  <2>1. m_botnet' = [m_botnet EXCEPT !.m_botMaster = n] /\ pc' = "idle"
    BY <1>3 DEF DrawLeaf
  <2>2. Bots' = Bots /\ Benign' = Benign /\ Master' = n
    BY <2>1 DEF Bots, Benign, Master, TypeOK
  <2>3. m_nodeMap' = [m_nodeMap EXCEPT ![n] = "CENTRAL_CONTROLLER"]
    BY <1>3 DEF DrawLeaf
  <2>4. /\ m_nodeMap'[n] = "CENTRAL_CONTROLLER"
        /\ \A k \in Leaf : k # n => m_nodeMap'[k] = m_nodeMap[k]
    <3> HIDE DEF n
    <3> QED BY <1>1, <2>3 DEF TypeOK
  <2> QED BY <1>1, <1>2, <1>3, <2>1, <2>2, <2>4
<1>4. CASE ~NoBot(n)
  <2>1. m_botnet' = m_botnet /\ m_nodeMap' = m_nodeMap
    BY <1>4 DEF DrawLeaf
  <2> QED BY <1>1, <1>2, <1>4, <2>1 DEF Bots, Benign, Master
<1> QED BY <1>3, <1>4

(* What a call of CreateBotnet sets before its first draw. *)
LEMMA CreateBotnetEffect ==
    ASSUME TypeOK, NEW max, NEW type, CreateBotnet(max, type)
    PROVE  /\ Bots' = {} /\ Benign' = {} /\ Master' = NoNode /\ pc' = "bots"
           /\ former'.bots = former.bots \union Bots
           /\ former'.rest = former.rest \union Benign \union ({Master} \ {NoNode})
           /\ former'.calls = former.calls + 1
           /\ m_botnet'.m_botNum = 0 /\ m_botnet'.m_benignNum = 0
           /\ m_maxBotsPerAs' = max /\ asId' = 1 /\ count' = 0
           /\ UNCHANGED <<m_nodeMap, m_apps, apps>>
BY DEF CreateBotnet, NewBotnet, Bots, Benign, Master, TypeOK

(* What CreateBenignNodes changes: exactly the leaves without a role. *)
LEMMA CreateBenignEffect ==
    ASSUME TypeOK, CreateBenignNodes
    PROVE  LET rest == {n \in Leaf : m_nodeMap[n] = "UNINITIALIZED"} IN
           /\ pc = "idle" /\ pc' = "idle" /\ former' = former
           /\ Bots' = Bots /\ Master' = Master /\ Benign' = Benign \union rest
           /\ m_botnet'.m_botNum = m_botnet.m_botNum
           /\ m_botnet'.m_benignNum = m_botnet.m_benignNum + Cardinality(rest)
           /\ \A n \in Leaf : m_nodeMap'[n] = IF n \in rest THEN "BENIGN" ELSE m_nodeMap[n]
<1> DEFINE rest == {n \in Leaf : m_nodeMap[n] = "UNINITIALIZED"}
<1>1. /\ m_nodeMap' = [n \in Leaf |-> IF n \in rest THEN "BENIGN" ELSE m_nodeMap[n]]
      /\ m_botnet' = [m_botnet EXCEPT !.m_benignNodes = @ \union rest,
                                      !.m_benignNum = @ + Cardinality(rest)]
      /\ pc = "idle" /\ pc' = "idle" /\ former' = former
  BY DEF CreateBenignNodes, loopVars
<1> HIDE DEF rest
<1>2. /\ Bots' = Bots /\ Master' = Master /\ Benign' = Benign \union rest
      /\ m_botnet'.m_botNum = m_botnet.m_botNum
      /\ m_botnet'.m_benignNum = m_botnet.m_benignNum + Cardinality(rest)
  BY <1>1 DEF Bots, Master, Benign, TypeOK
<1>3. \A n \in Leaf : m_nodeMap'[n] = IF n \in rest THEN "BENIGN" ELSE m_nodeMap[n]
  BY <1>1
<1> QED BY <1>1, <1>2, <1>3 DEF rest

(* The types of the role sets. *)
LEMMA RoleTypes ==
    TypeOK => /\ Bots \subseteq Leaf /\ Benign \subseteq Leaf
              /\ former.bots \subseteq Leaf /\ former.rest \subseteq Leaf
              /\ Master \in Leaf \union {NoNode} /\ NoNode \notin Leaf
BY LeafFacts DEF TypeOK, Bots, Benign, Master

(* Every step keeps the roles apart. *)
LEMMA RoleStep == TypeOK /\ MapInv /\ RoleInv /\ [Next]_vars => MapInv' /\ RoleInv'
<1> SUFFICES ASSUME TypeOK, MapInv, RoleInv, [Next]_vars PROVE MapInv' /\ RoleInv'
  OBVIOUS
<1> USE DEF MapInv, RoleInv
<1>1. ASSUME NEW max, NEW type, CreateBotnet(max, type) PROVE MapInv' /\ RoleInv'
  BY <1>1, CreateBotnetEffect
<1>2. ASSUME NEW l \in LeafId, DrawBot(l) PROVE MapInv' /\ RoleInv'
  <2> DEFINE n == <<asId, l>>
  <2>1. /\ n \in Leaf /\ Looping
        /\ former' = former /\ Benign' = Benign /\ Master' = Master
        /\ \A k \in Leaf : k # n => m_nodeMap'[k] = m_nodeMap[k]
        /\ Free(n) => Bots' = Bots \union {n} /\ m_nodeMap'[n] = "BOT"
        /\ ~Free(n) => Bots' = Bots /\ m_nodeMap'[n] = m_nodeMap[n]
    BY <1>2, DrawBotEffect
  <2> HIDE DEF n
  <2>2. CASE Free(n)
    <3>1. n \notin Bots \union former.bots \union Benign \union former.rest \union {Master}
      BY <2>1, <2>2, RoleTypes DEF Free
    <3> QED BY <2>1, <2>2, <3>1, RoleTypes
  <2>3. CASE ~Free(n)
    <3>1. \A k \in Leaf : m_nodeMap'[k] = m_nodeMap[k]
      BY <2>1, <2>3
    <3> QED BY <2>1, <2>3, <3>1, RoleTypes
  <2> QED BY <2>2, <2>3
<1>3. ASSUME NEW l \in LeafId, DrawLeaf(l) PROVE MapInv' /\ RoleInv'
  BY <1>3, DrawLeafEffect, RoleTypes DEF NoBot, Looping
<1>4. CASE CreateBenignNodes
  BY <1>4, CreateBenignEffect, RoleTypes DEF Looping
<1>5. ASSUME UNCHANGED <<m_nodeMap, m_botnet, former>>, Looping' => Looping
      PROVE  MapInv' /\ RoleInv'
  BY <1>5 DEF Bots, Benign, Master
<1>6. ASSUME CreateBotnetExits \/ NextAs \/ InstallApplications \/ UNCHANGED vars
      PROVE  MapInv' /\ RoleInv'
  BY <1>5, <1>6 DEF CreateBotnetExits, NextAs, InstallApplications, vars, botnetVars, loopVars, Looping
<1>7. ASSUME NEW a \in AsId, DrawAs(a) PROVE MapInv' /\ RoleInv'
  BY <1>5, <1>7 DEF DrawAs, botnetVars, Looping
<1>8. ASSUME NEW r \in AppRole, AddApplication(r) PROVE MapInv' /\ RoleInv'
  BY <1>5, <1>8 DEF AddApplication, botnetVars, loopVars, Looping
<1>9. ASSUME NEW r \in AppRole, NEW i \in 1 .. MaxApps, NEW v \in Value, SetAttribute(r, i, v)
      PROVE  MapInv' /\ RoleInv'
  BY <1>5, <1>9 DEF SetAttribute, botnetVars, loopVars, Looping
<1> QED BY <1>1, <1>2, <1>3, <1>4, <1>6, <1>7, <1>8, <1>9 DEF Next

-----------------------------------------------------------------------------
(* Every step keeps the containers finite and the counters their sizes. *)
LEMMA CountStep == TypeOK /\ MapInv /\ FiniteInv /\ [Next]_vars => FiniteInv'
<1> SUFFICES ASSUME TypeOK, MapInv, FiniteInv, [Next]_vars PROVE FiniteInv'
  OBVIOUS
<1> USE DEF FiniteInv
<1>1. ASSUME NEW max, NEW type, CreateBotnet(max, type) PROVE FiniteInv'
  <2>1. Bots' = {} /\ Benign' = {} /\ m_botnet'.m_botNum = 0 /\ m_botnet'.m_benignNum = 0
    BY <1>1, CreateBotnetEffect
  <2> QED BY <2>1, FS_EmptySet DEF Bots, Benign
<1>2. ASSUME NEW l \in LeafId, DrawBot(l) PROVE FiniteInv'
  <2> DEFINE n == <<asId, l>>
  <2>1. /\ n \in Leaf /\ Benign' = Benign
        /\ Bots' = IF Free(n) THEN Bots \union {n} ELSE Bots
    BY <1>2, DrawBotEffect
  <2>2. /\ m_botnet'.m_benignNum = m_botnet.m_benignNum
        /\ m_botnet'.m_botNum = IF Free(n) THEN m_botnet.m_botNum + 1 ELSE m_botnet.m_botNum
    BY <1>2 DEF DrawBot, WithBot, TypeOK
  <2> HIDE DEF n
  <2>3. Free(n) => n \notin Bots
    BY DEF MapInv, Free
  <2>4. /\ IsFiniteSet(Bots \union {n})
        /\ n \notin Bots => Cardinality(Bots \union {n}) = Cardinality(Bots) + 1
    BY FS_AddElement
  <2> QED BY <2>1, <2>2, <2>3, <2>4 DEF Bots, Benign
<1>3. ASSUME NEW l \in LeafId, DrawLeaf(l) PROVE FiniteInv'
  <2>1. Bots' = Bots /\ Benign' = Benign
    BY <1>3, DrawLeafEffect
  <2>2. UNCHANGED <<m_botnet.m_botNum, m_botnet.m_benignNum>>
    BY <1>3 DEF DrawLeaf, TypeOK
  <2> QED BY <2>1, <2>2 DEF Bots, Benign
<1>4. CASE CreateBenignNodes
  <2> DEFINE rest == {n \in Leaf : m_nodeMap[n] = "UNINITIALIZED"}
  <2>1. /\ Bots' = Bots /\ Benign' = Benign \union rest
        /\ m_botnet'.m_botNum = m_botnet.m_botNum
        /\ m_botnet'.m_benignNum = m_botnet.m_benignNum + Cardinality(rest)
    BY <1>4, CreateBenignEffect
  <2>2. IsFiniteSet(rest)
    BY LeafFinite, FS_Subset DEF TypeOK
  <2>3. Benign \intersect rest = {}
    BY DEF MapInv
  <2> HIDE DEF rest
  <2>4. /\ IsFiniteSet(Benign \union rest)
        /\ Cardinality(Benign \union rest)
             = Cardinality(Benign) + Cardinality(rest) - Cardinality({})
    BY <2>2, <2>3, FS_Union
  <2>5. Cardinality({}) = 0 /\ Cardinality(Benign) \in Nat /\ Cardinality(rest) \in Nat
    BY <2>2, FS_EmptySet, FS_CardinalityType
  <2> QED BY <2>1, <2>4, <2>5 DEF Bots, Benign
<1>5. ASSUME UNCHANGED m_botnet PROVE FiniteInv'
  BY <1>5 DEF Bots, Benign
<1> QED BY <1>1, <1>2, <1>3, <1>4, <1>5 DEF Next, CreateBotnetExits, NextAs, DrawAs,
   AddApplication, SetAttribute, InstallApplications, botnetVars, vars

-----------------------------------------------------------------------------
(* Why the applications agree: a leaf gets its role before applications,   *)
(* no benign leaf is added later, and a factory creates its own role.      *)
FreshInv ==
    /\ \A n \in Leaf : m_nodeMap[n] = "UNINITIALIZED" => apps[n] = <<>>
    /\ Looping => \A n \in Bots : apps[n] = <<>>
    /\ Benign # {} => \A n \in Leaf : m_nodeMap[n] # "UNINITIALIZED"

FactoryInv == \A r \in AppRole : \A i \in DOMAIN m_apps[r] : m_apps[r][i].type = r

(* Every step keeps the factories of a role creating that role. *)
LEMMA FactoryStep == TypeOK /\ FactoryInv /\ [Next]_vars => FactoryInv'
<1> SUFFICES ASSUME TypeOK, FactoryInv, [Next]_vars PROVE FactoryInv'
  OBVIOUS
<1>1. ASSUME NEW r \in AppRole, AddApplication(r) PROVE FactoryInv'
  <2> DEFINE app == [type |-> r, value |-> Default]
  <2>1. m_apps[r] \in Seq(Application) /\ app \in Application /\ app.type = r
    BY DefaultAssumption DEF TypeOK, Application
  <2>2. m_apps' = [m_apps EXCEPT ![r] = Append(m_apps[r], app)]
    BY <1>1 DEF AddApplication
  <2> HIDE DEF app
  <2>3. /\ Append(m_apps[r], app) \in Seq(Application)
        /\ Len(Append(m_apps[r], app)) = Len(m_apps[r]) + 1
        /\ \A i \in 1 .. Len(m_apps[r]) : Append(m_apps[r], app)[i] = m_apps[r][i]
        /\ Append(m_apps[r], app)[Len(m_apps[r]) + 1] = app
    BY <2>1, AppendProperties
  <2>4. /\ DOMAIN Append(m_apps[r], app) = 1 .. Len(m_apps[r]) + 1
        /\ DOMAIN m_apps[r] = 1 .. Len(m_apps[r]) /\ Len(m_apps[r]) \in Nat
    BY <2>1, <2>3, LenProperties
  <2>5. \A i \in DOMAIN Append(m_apps[r], app) : Append(m_apps[r], app)[i].type = r
    <3> SUFFICES ASSUME NEW i \in 1 .. Len(m_apps[r]) + 1
                 PROVE  Append(m_apps[r], app)[i].type = r
      BY <2>4
    <3>1. CASE i = Len(m_apps[r]) + 1
      BY <2>1, <2>3, <3>1
    <3>2. CASE i # Len(m_apps[r]) + 1
      <4>1. i \in 1 .. Len(m_apps[r])
        BY <2>4, <3>2
      <4>2. m_apps[r][i].type = r
        BY <2>4, <4>1 DEF FactoryInv
      <4> QED BY <2>3, <4>1, <4>2
    <3> QED BY <3>1, <3>2
  <2> QED BY <2>2, <2>5 DEF FactoryInv, TypeOK
<1>2. ASSUME NEW r \in AppRole, NEW i \in 1 .. MaxApps, NEW v \in Value, SetAttribute(r, i, v)
      PROVE  FactoryInv'
  <2> DEFINE app == [m_apps[r][i] EXCEPT !.value = v]
  <2>1. m_apps[r] \in Seq(Application) /\ i \in DOMAIN m_apps[r] /\ i \in 1 .. Len(m_apps[r])
    BY <1>2, LenProperties DEF SetAttribute, TypeOK
  <2>2. m_apps[r][i] \in Application /\ m_apps[r][i].type = r
    BY <2>1, ElementOfSeq DEF FactoryInv
  <2>3. app.type = r
    BY <2>2 DEF Application
  <2>4. m_apps' = [m_apps EXCEPT ![r] = [m_apps[r] EXCEPT ![i] = app]]
    BY <1>2 DEF SetAttribute
  <2> HIDE DEF app
  <2>5. \A j \in DOMAIN m_apps[r] : [m_apps[r] EXCEPT ![i] = app][j].type = r
    BY <2>1, <2>3 DEF FactoryInv
  <2> QED BY <2>4, <2>5 DEF FactoryInv, TypeOK
<1>3. ASSUME UNCHANGED m_apps PROVE FactoryInv'
  BY <1>3 DEF FactoryInv
<1> QED BY <1>1, <1>2, <1>3 DEF Next, CreateBotnet, CreateBotnetExits, NextAs, DrawAs, DrawBot,
   DrawLeaf, CreateBenignNodes, InstallApplications, vars

(* What each kind of leaf is given by InstallApplications. *)
LEMMA InstalledByRole ==
    ASSUME TypeOK, MapInv, RoleInv, NEW n \in Leaf
    PROVE  /\ m_nodeMap[n] = "UNINITIALIZED" => Installed(n) = <<>>
           /\ n \in Bots => Installed(n) = m_apps["BOT"]
           /\ n \in Benign => Installed(n) = m_apps["BENIGN"]
<1> DEFINE If(holds, s) == IF holds THEN s ELSE <<>>
           b == If(n \in Bots, m_apps["BOT"])
           c == If(n = Master, m_apps["CENTRAL_CONTROLLER"])
           d == If(n \in Benign, m_apps["BENIGN"])
<1>1. b \in Seq(Application) /\ c \in Seq(Application) /\ d \in Seq(Application)
  BY EmptySeq DEF TypeOK, AppRole
<1>2. Installed(n) = b \o c \o d
  BY DEF Installed, Bots, Benign, Master
<1>3. /\ m_nodeMap[n] = "UNINITIALIZED" => b = <<>> /\ c = <<>> /\ d = <<>>
      /\ n \in Bots => b = m_apps["BOT"] /\ c = <<>> /\ d = <<>>
      /\ n \in Benign => b = <<>> /\ c = <<>> /\ d = m_apps["BENIGN"]
  <2>1. NoNode \notin Leaf
    BY RoleTypes
  <2> QED BY <2>1 DEF MapInv, RoleInv
<1> HIDE DEF b, c, d
<1>4. b \o <<>> = b /\ <<>> \o d = d
  BY <1>1, ConcatEmptySeq
<1>5. <<>> \o <<>> = <<>>
  BY EmptySeq, ConcatEmptySeq
<1> QED BY <1>2, <1>3, <1>4, <1>5

(* Nodes without applications are alike. *)
LEMMA EmptyAlike ==
    ASSUME NEW nodes, \A n \in nodes : apps[n] = <<>>, NEW role
    PROVE  Alike(nodes, role)
BY DEF Alike

(* Every step keeps leaves without a role free of applications. *)
LEMMA FreshStep ==
    TypeOK /\ MapInv /\ RoleInv /\ FreshInv /\ [Next]_vars => FreshInv'
<1> SUFFICES ASSUME TypeOK, MapInv, RoleInv, FreshInv, [Next]_vars PROVE FreshInv'
  OBVIOUS
<1> USE DEF FreshInv
<1>a. Leaf' = Leaf
  BY LeafFixed
<1>1. ASSUME NEW max, NEW type, CreateBotnet(max, type) PROVE FreshInv'
  BY <1>1, <1>a, CreateBotnetEffect
<1>2. ASSUME NEW l \in LeafId, DrawBot(l) PROVE FreshInv'
  <2> DEFINE n == <<asId, l>>
  <2>1. /\ n \in Leaf /\ Looping /\ Looping' /\ Benign' = Benign
        /\ \A k \in Leaf : k # n => m_nodeMap'[k] = m_nodeMap[k]
        /\ Free(n) => Bots' = Bots \union {n} /\ m_nodeMap'[n] = "BOT"
        /\ ~Free(n) => Bots' = Bots /\ m_nodeMap'[n] = m_nodeMap[n]
    BY <1>2, DrawBotEffect DEF Looping
  <2>2. apps' = apps
    BY <1>2 DEF DrawBot
  <2> HIDE DEF n
  <2>3. Benign = {}
    BY <2>1 DEF RoleInv
  <2> QED BY <1>a, <2>1, <2>2, <2>3 DEF Free
<1>3. ASSUME NEW l \in LeafId, DrawLeaf(l) PROVE FreshInv'
  <2> DEFINE n == <<asId, l>>
  <2>1. /\ n \in Leaf /\ Looping /\ Benign' = Benign /\ Bots' = Bots
        /\ \A k \in Leaf : k # n => m_nodeMap'[k] = m_nodeMap[k]
        /\ NoBot(n) => m_nodeMap'[n] = "CENTRAL_CONTROLLER"
        /\ ~NoBot(n) => m_nodeMap'[n] = m_nodeMap[n]
    BY <1>3, DrawLeafEffect
  <2>2. apps' = apps
    BY <1>3 DEF DrawLeaf
  <2> HIDE DEF n
  <2>3. Benign = {}
    BY <2>1 DEF RoleInv
  <2> QED BY <1>a, <2>1, <2>2, <2>3
<1>4. CASE CreateBenignNodes
  <2>1. apps' = apps
    BY <1>4 DEF CreateBenignNodes
  <2> QED BY <1>4, <1>a, <2>1, CreateBenignEffect DEF Looping
<1>5. CASE InstallApplications
  <2>1. UNCHANGED <<m_nodeMap, m_botnet>> /\ pc' \in {"idle", "crashed"}
    BY <1>5 DEF InstallApplications, botnetVars
  <2>2. \A n \in Leaf : m_nodeMap[n] = "UNINITIALIZED" => apps'[n] = <<>>
    <3> SUFFICES ASSUME NEW n \in Leaf, m_nodeMap[n] = "UNINITIALIZED"
                 PROVE  apps'[n] = <<>>
      OBVIOUS
    <3>1. apps[n] = <<>> /\ Installed(n) = <<>>
      BY InstalledByRole
    <3>2. <<>> \o <<>> = <<>>
      BY EmptySeq, ConcatEmptySeq
    <3>3. apps' = apps \/ apps' = [k \in Leaf |-> apps[k] \o Installed(k)]
      BY <1>5 DEF InstallApplications
    <3> QED BY <3>1, <3>2, <3>3
  <2> QED BY <1>a, <2>1, <2>2 DEF Looping, Bots, Benign
<1>6. ASSUME UNCHANGED <<m_nodeMap, m_botnet, apps>>, Looping' => Looping PROVE FreshInv'
  BY <1>6, <1>a DEF Bots, Benign
<1>7. ASSUME CreateBotnetExits \/ NextAs \/ UNCHANGED vars PROVE FreshInv'
  BY <1>6, <1>7 DEF CreateBotnetExits, NextAs, vars, botnetVars, loopVars, Looping
<1>8. ASSUME NEW a \in AsId, DrawAs(a) PROVE FreshInv'
  BY <1>6, <1>8 DEF DrawAs, botnetVars, Looping
<1>9. ASSUME NEW r \in AppRole, AddApplication(r) PROVE FreshInv'
  BY <1>6, <1>9 DEF AddApplication, botnetVars, loopVars, Looping
<1>10. ASSUME NEW r \in AppRole, NEW i \in 1 .. MaxApps, NEW v \in Value, SetAttribute(r, i, v)
       PROVE  FreshInv'
  BY <1>6, <1>10 DEF SetAttribute, botnetVars, loopVars, Looping
<1> QED BY <1>1, <1>2, <1>3, <1>4, <1>5, <1>7, <1>8, <1>9, <1>10 DEF Next

(* InstallApplications keeps nodes alike that are given the same. *)
LEMMA InstallAlike ==
    ASSUME TypeOK, FactoryInv, NEW role \in AppRole, NEW nodes \in SUBSET Leaf,
           Alike(nodes, role), \A n \in nodes : Installed(n) = m_apps[role],
           apps' = [n \in Leaf |-> apps[n] \o Installed(n)]
    PROVE  \A m, n \in nodes :
             apps'[m] = apps'[n] /\ \A i \in DOMAIN apps'[n] : apps'[n][i].type = role
<1> SUFFICES ASSUME NEW m \in nodes, NEW n \in nodes
             PROVE  apps'[m] = apps'[n] /\ \A i \in DOMAIN apps'[n] : apps'[n][i].type = role
  OBVIOUS
<1> DEFINE s == apps[n]
           t == m_apps[role]
<1>1. apps'[m] = s \o t /\ apps'[n] = s \o t
  BY DEF Alike
<1>2. s \in Seq(Application) /\ t \in Seq(Application)
  BY DEF TypeOK
<1>3. /\ \A i \in DOMAIN s : s[i].type = role
      /\ \A i \in DOMAIN t : t[i].type = role
  BY DEF Alike, FactoryInv
<1> HIDE DEF s, t
<1>4. /\ DOMAIN s = 1 .. Len(s) /\ DOMAIN t = 1 .. Len(t)
      /\ DOMAIN (s \o t) = 1 .. Len(s) + Len(t) /\ Len(s) \in Nat /\ Len(t) \in Nat
  BY <1>2, ConcatProperties, LenProperties
<1>5. \A i \in 1 .. Len(s) + Len(t) :
         (s \o t)[i] = IF i <= Len(s) THEN s[i] ELSE t[i - Len(s)]
  BY <1>2, ConcatProperties
<1>6. ASSUME NEW i \in 1 .. Len(s) + Len(t) PROVE (s \o t)[i].type = role
  <2>1. CASE i <= Len(s)
    <3>1. i \in 1 .. Len(s)
      BY <1>4, <2>1
    <3> QED BY <1>3, <1>4, <1>5, <2>1, <3>1
  <2>2. CASE ~(i <= Len(s))
    <3>1. i - Len(s) \in 1 .. Len(t)
      BY <1>4, <2>2
    <3> QED BY <1>3, <1>4, <1>5, <2>2, <3>1
  <2> QED BY <2>1, <2>2
<1> QED BY <1>1, <1>4, <1>6

(* Every step keeps the applications of a role alike. *)
LEMMA AgreeStep ==
    TypeOK /\ MapInv /\ RoleInv /\ FactoryInv /\ FreshInv /\ AppIndicesAgree /\ [Next]_vars
      => AppIndicesAgree'
<1> SUFFICES ASSUME TypeOK, MapInv, RoleInv, FactoryInv, FreshInv, AppIndicesAgree, [Next]_vars
             PROVE  Alike(Bots, "BOT")' /\ Alike(Benign, "BENIGN")'
  BY DEF AppIndicesAgree, Bots, Benign
<1>a. Alike(Bots, "BOT") /\ Alike(Benign, "BENIGN")
  BY DEF AppIndicesAgree, Bots, Benign
<1>1. ASSUME NEW max, NEW type, CreateBotnet(max, type)
      PROVE  Alike(Bots, "BOT")' /\ Alike(Benign, "BENIGN")'
  BY <1>1, CreateBotnetEffect DEF Alike
<1>2. ASSUME NEW l \in LeafId, DrawBot(l)
      PROVE  Alike(Bots, "BOT")' /\ Alike(Benign, "BENIGN")'
  <2> DEFINE n == <<asId, l>>
  <2>1. /\ n \in Leaf /\ Looping /\ Benign' = Benign
        /\ Bots' = IF Free(n) THEN Bots \union {n} ELSE Bots
    BY <1>2, DrawBotEffect
  <2>2. apps' = apps
    BY <1>2 DEF DrawBot
  <2> HIDE DEF n
  <2>3. \A k \in Bots' : apps'[k] = <<>>
    BY <2>1, <2>2 DEF FreshInv, Free
  <2>4. Benign' = {}
    BY <2>1 DEF RoleInv
  <2> QED BY <2>3, <2>4 DEF Alike
<1>3. ASSUME NEW l \in LeafId, DrawLeaf(l)
      PROVE  Alike(Bots, "BOT")' /\ Alike(Benign, "BENIGN")'
  <2>1. Bots' = Bots /\ Benign' = Benign /\ apps' = apps
    BY <1>3, DrawLeafEffect DEF DrawLeaf
  <2> QED BY <1>a, <2>1 DEF Alike
<1>4. CASE CreateBenignNodes
  <2> DEFINE rest == {n \in Leaf : m_nodeMap[n] = "UNINITIALIZED"}
  <2>1. Bots' = Bots /\ Benign' = Benign \union rest
    BY <1>4, CreateBenignEffect
  <2>2. apps' = apps
    BY <1>4 DEF CreateBenignNodes
  <2>3. \A n \in rest : apps[n] = <<>>
    BY DEF FreshInv
  <2>4. rest = {} \/ Benign = {}
    BY DEF FreshInv
  <2> HIDE DEF rest
  <2>5. Alike(Benign, "BENIGN")'
    <3>1. CASE rest = {}
      BY <1>a, <2>1, <2>2, <3>1 DEF Alike
    <3>2. CASE Benign = {}
      BY <2>1, <2>2, <2>3, <3>2 DEF Alike
    <3> QED BY <2>4, <3>1, <3>2
  <2> QED BY <1>a, <2>1, <2>2, <2>5 DEF Alike
<1>5. CASE InstallApplications
  <2>1. Bots' = Bots /\ Benign' = Benign
    BY <1>5 DEF InstallApplications, botnetVars, Bots, Benign
  <2>2. CASE apps' = apps
    BY <1>a, <2>1, <2>2 DEF Alike
  <2>3. CASE apps' = [n \in Leaf |-> apps[n] \o Installed(n)]
    <3>1. /\ Bots \in SUBSET Leaf /\ Benign \in SUBSET Leaf
          /\ "BOT" \in AppRole /\ "BENIGN" \in AppRole
          /\ \A n \in Bots : Installed(n) = m_apps["BOT"]
          /\ \A n \in Benign : Installed(n) = m_apps["BENIGN"]
      BY RoleTypes, InstalledByRole DEF AppRole
    <3>2. \A m, n \in Bots :
             apps'[m] = apps'[n] /\ \A i \in DOMAIN apps'[n] : apps'[n][i].type = "BOT"
      BY <1>a, <2>3, <3>1, InstallAlike
    <3>3. \A m, n \in Benign :
             apps'[m] = apps'[n] /\ \A i \in DOMAIN apps'[n] : apps'[n][i].type = "BENIGN"
      BY <1>a, <2>3, <3>1, InstallAlike
    <3> QED BY <2>1, <3>2, <3>3 DEF Alike
  <2> QED BY <1>5, <2>2, <2>3 DEF InstallApplications
<1>6. ASSUME UNCHANGED <<m_botnet, apps>> PROVE Alike(Bots, "BOT")' /\ Alike(Benign, "BENIGN")'
  BY <1>a, <1>6 DEF Bots, Benign, Alike
<1> QED BY <1>1, <1>2, <1>3, <1>4, <1>5, <1>6 DEF Next, CreateBotnetExits, NextAs, DrawAs,
   AddApplication, SetAttribute, botnetVars, vars

-----------------------------------------------------------------------------
(* Why every AS with leaves has a bot, and not too many: before its first  *)
(* draw an AS is untouched in the first botnet.                            *)
Untouched(a) == \A n \in Leaf : n[1] = a => m_nodeMap[n] = "UNINITIALIZED"

FirstInv ==
    former.calls = 0 =>
      /\ pc \in {"idle", "exited"} /\ ~Created /\ Bots = {}
      /\ \A n \in Leaf : m_nodeMap[n] = "UNINITIALIZED"

DrawInv ==
    pc = "bots" =>
      /\ count <= m_maxBotsPerAs
      /\ \A n \in Bots : n[1] <= asId
      /\ Cardinality(BotsOf(asId)) <= count
      /\ former.calls = 1 =>
           /\ \A a \in DOMAIN leaves : a > asId => Untouched(a)
           /\ count = 0 => Untouched(asId)
           /\ count > 0 => BotsOf(asId) # {}
           /\ \A a \in DOMAIN leaves :
                a < asId /\ leaves[a] > 0 /\ m_maxBotsPerAs > 0 => BotsOf(a) # {}

(* Every step keeps what is known before the first call. *)
LEMMA FirstStep == TypeOK /\ FirstInv /\ [Next]_vars => FirstInv'
<1> SUFFICES ASSUME TypeOK, FirstInv, [Next]_vars, former'.calls = 0
             PROVE  /\ pc' \in {"idle", "exited"} /\ ~Created' /\ Bots' = {}
                    /\ \A n \in Leaf : m_nodeMap'[n] = "UNINITIALIZED"
  BY LeafFixed DEF FirstInv
<1>1. ~(\E max \in MaxBots, type \in {"CENTRALIZED", "P2P"} : CreateBotnet(max, type))
  <2> SUFFICES ASSUME NEW max, NEW type, CreateBotnet(max, type) PROVE FALSE
    OBVIOUS
  <2>1. former'.calls = former.calls + 1 /\ former.calls \in Nat
    BY CreateBotnetEffect DEF TypeOK
  <2> QED BY <2>1
<1>2. UNCHANGED former
  BY <1>1 DEF Next, CreateBotnetExits, NextAs, DrawAs, DrawBot, DrawLeaf, CreateBenignNodes,
     InstallApplications, AddApplication, SetAttribute, botnetVars, vars
<1>3. /\ pc \in {"idle", "exited"} /\ ~Created /\ Bots = {}
      /\ \A n \in Leaf : m_nodeMap[n] = "UNINITIALIZED"
  BY <1>2 DEF FirstInv
<1>4. /\ pc' = "exited" \/ pc' = pc
      /\ UNCHANGED <<m_botnet, m_nodeMap>>
  BY <1>1, <1>3 DEF Next, CreateBotnetExits, NextAs, DrawAs, DrawBot, DrawLeaf, CreateBenignNodes,
     InstallApplications, AddApplication, SetAttribute, botnetVars, loopVars, vars
<1> QED BY <1>3, <1>4 DEF Created, Bots

(* Drawing a bot in one AS leaves the bots of the others alone. *)
LEMMA DrawStep ==
    ASSUME TypeOK, MapInv, FiniteInv, DrawInv, BotsPerAs, NEW l \in LeafId, DrawBot(l)
    PROVE  DrawInv' /\ BotsPerAs'
<1> DEFINE n == <<asId, l>>
<1>1. /\ n \in Leaf /\ n[1] = asId /\ pc = "bots" /\ pc' = "bots"
      /\ former' = former /\ asId' = asId /\ leaves' = leaves /\ Leaf' = Leaf
      /\ m_maxBotsPerAs' = m_maxBotsPerAs /\ count' = count + 1
      /\ count < m_maxBotsPerAs /\ count \in Nat /\ m_maxBotsPerAs \in Nat
      /\ asId \in Nat /\ asId \in DOMAIN leaves
  <2>1. n \in Leaf /\ n[1] = asId /\ pc = "bots" /\ pc' = "bots" /\ former' = former
    BY DrawBotEffect
  <2>2. leaves' = leaves /\ Leaf' = Leaf
    BY DEF DrawBot, Leaf
  <2>3. /\ asId' = asId /\ m_maxBotsPerAs' = m_maxBotsPerAs /\ count' = count + 1
        /\ count < m_maxBotsPerAs
    BY DEF DrawBot, MoreDraws
  <2> QED BY <2>1, <2>2, <2>3 DEF TypeOK
<1>2. /\ \A k \in Leaf : k # n => m_nodeMap'[k] = m_nodeMap[k]
      /\ Bots' = IF Free(n) THEN Bots \union {n} ELSE Bots
      /\ ~Free(n) => m_nodeMap'[n] = m_nodeMap[n]
  BY DrawBotEffect
<1> HIDE DEF n
<1>3. \A a : a # asId => BotsOf(a)' = BotsOf(a)
  BY <1>1, <1>2 DEF BotsOf, Bots
<1>4. BotsOf(asId)' = IF Free(n) THEN BotsOf(asId) \union {n} ELSE BotsOf(asId)
  BY <1>1, <1>2 DEF BotsOf, Bots
<1>5. /\ IsFiniteSet(BotsOf(asId)) /\ Cardinality(BotsOf(asId)) \in Nat
      /\ Cardinality(BotsOf(asId)) <= count
  <2>1. IsFiniteSet(BotsOf(asId))
    BY FS_Subset DEF FiniteInv, BotsOf, Bots
  <2> QED BY <1>1, <2>1, FS_CardinalityType DEF DrawInv
<1>6. Cardinality(BotsOf(asId)') <= count + 1
  <2>1. Cardinality(BotsOf(asId) \union {n})
          \in {Cardinality(BotsOf(asId)), Cardinality(BotsOf(asId)) + 1}
    BY <1>5, FS_AddElement
  <2>2. Cardinality(BotsOf(asId)')
          \in {Cardinality(BotsOf(asId)), Cardinality(BotsOf(asId)) + 1}
    BY <1>4, <2>1
  <2> QED BY <1>1, <1>5, <2>2
<1>7. former.calls = 1 => BotsOf(asId)' # {}
  <2>1. CASE Free(n)
    BY <1>4, <2>1
  <2>2. ASSUME ~Free(n), former.calls = 1 PROVE BotsOf(asId)' # {}
    <3>1. count > 0
      BY <1>1, <2>2 DEF DrawInv, Untouched, Free
    <3> QED BY <1>1, <1>4, <2>2, <3>1 DEF DrawInv
  <2> QED BY <2>1, <2>2
<1>8. DrawInv'
  <2>1. /\ count' <= m_maxBotsPerAs'
        /\ \A k \in Bots' : k[1] <= asId'
        /\ Cardinality(BotsOf(asId)') <= count'
    BY <1>1, <1>2, <1>6 DEF DrawInv
  <2>2. ASSUME former.calls = 1, NEW a \in DOMAIN leaves, a > asId PROVE Untouched(a)'
    <3>1. Untouched(a)
      BY <1>1, <2>2 DEF DrawInv
    <3> QED BY <1>1, <1>2, <2>2, <3>1 DEF Untouched
  <2>3. ASSUME former.calls = 1, NEW a \in DOMAIN leaves,
               a < asId, leaves[a] > 0, m_maxBotsPerAs > 0
        PROVE  BotsOf(a)' # {}
    BY <1>1, <1>3, <2>3 DEF DrawInv
  <2> QED BY <1>1, <1>7, <2>1, <2>2, <2>3 DEF DrawInv
<1>9. BotsPerAs'
  <2> SUFFICES ASSUME NEW a \in DOMAIN leaves PROVE Cardinality(BotsOf(a)') <= m_maxBotsPerAs
    BY <1>1 DEF BotsPerAs
  <2>1. CASE a = asId
    <3>1. IsFiniteSet(BotsOf(asId)')
      BY <1>4, <1>5, FS_AddElement
    <3>2. Cardinality(BotsOf(asId)') \in Nat
      BY <3>1, FS_CardinalityType
    <3> QED BY <1>1, <1>6, <2>1, <3>2
  <2>2. CASE a # asId
    BY <1>3, <2>2 DEF BotsPerAs
  <2> QED BY <2>1, <2>2
<1> QED BY <1>8, <1>9

(* The first draw of a botnet finds no AS that has been drawn from. *)
LEMMA CallStep ==
    ASSUME TypeOK, FirstInv, NEW max \in MaxBots, NEW type, CreateBotnet(max, type)
    PROVE  DrawInv' /\ BotsPerAs'
<1>1. /\ Bots' = {} /\ asId' = 1 /\ count' = 0 /\ m_maxBotsPerAs' = max /\ pc' = "bots"
      /\ former'.calls = former.calls + 1 /\ m_nodeMap' = m_nodeMap
  BY CreateBotnetEffect
<1>2. leaves' = leaves /\ Leaf' = Leaf /\ max \in Nat
  BY MaxBotsAssumption DEF CreateBotnet, Leaf
<1>3. \A a : BotsOf(a)' = {}
  BY <1>1 DEF BotsOf, Bots
<1>4. Cardinality({}) = 0
  BY FS_EmptySet
<1>5. BotsOf(asId)' = {}
  BY <1>1 DEF BotsOf, Bots
<1>6. former'.calls = 1 => \A a : Untouched(a)'
  <2>1. former'.calls = 1 => former.calls = 0
    BY <1>1 DEF TypeOK
  <2> QED BY <1>1, <1>2, <2>1 DEF FirstInv, Untouched
<1>7. former'.calls = 1 => Untouched(asId)'
  BY <1>1, <1>6 DEF Untouched
<1>8. DOMAIN leaves = 1 .. Len(leaves) /\ Len(leaves) \in Nat
  BY LeafFacts DEF TypeOK
<1>9. \A a \in DOMAIN leaves : ~(a < asId')
  BY <1>1, <1>8
<1>10. count' <= m_maxBotsPerAs' /\ ~(count' > 0) /\ Cardinality({}) <= count'
  BY <1>1, <1>2, <1>4
<1>11. DrawInv'
  BY <1>1, <1>2, <1>5, <1>6, <1>7, <1>9, <1>10 DEF DrawInv
<1>12. BotsPerAs'
  BY <1>1, <1>2, <1>3, <1>4 DEF BotsPerAs
<1> QED BY <1>11, <1>12

(* Going on to the next AS, or ending with the last. *)
LEMMA NextStep ==
    ASSUME TypeOK, DrawInv, BotsPerAs, NextAs
    PROVE  DrawInv' /\ BotsPerAs'
<1>1. /\ pc = "bots" /\ ~MoreDraws /\ count' = 0
      /\ UNCHANGED <<leaves, m_maxBotsPerAs, m_botnet, former, m_nodeMap>>
  BY DEF NextAs, botnetVars
<1>2. /\ Bots' = Bots /\ Leaf' = Leaf /\ \A a : BotsOf(a)' = BotsOf(a)
      /\ \A a : Untouched(a)' = Untouched(a)
  BY <1>1 DEF Bots, Leaf, BotsOf, Untouched
<1>3. /\ asId \in 1 .. Len(leaves) /\ Len(leaves) \in Nat /\ DOMAIN leaves = 1 .. Len(leaves)
      /\ leaves[asId] \in Nat /\ count \in Nat /\ m_maxBotsPerAs \in Nat
  BY <1>1, LeafFacts DEF TypeOK
<1>4. former.calls = 1 =>
        \A a \in DOMAIN leaves : a <= asId /\ leaves[a] > 0 /\ m_maxBotsPerAs > 0 => BotsOf(a) # {}
  <2> SUFFICES ASSUME former.calls = 1, NEW a \in DOMAIN leaves,
                      a <= asId, leaves[a] > 0, m_maxBotsPerAs > 0
               PROVE  BotsOf(a) # {}
    OBVIOUS
  <2>1. CASE a < asId
    BY <1>1, <2>1 DEF DrawInv
  <2>2. CASE a = asId
    <3>1. count > 0
      BY <1>1, <1>3, <2>2 DEF MoreDraws
    <3> QED BY <1>1, <2>2, <3>1 DEF DrawInv
  <2> QED BY <1>3, <2>1, <2>2
<1>5. CASE LastAs
  <2>1. pc' # "bots" /\ \A a \in DOMAIN leaves : a <= asId
    BY <1>3, <1>5 DEF NextAs, LastAs
  <2> QED BY <1>1, <1>2, <1>4, <2>1 DEF DrawInv, BotsPerAs
<1>6. CASE ~LastAs
  <2>1. pc' = "bots" /\ asId' = asId + 1
    BY <1>1, <1>6 DEF NextAs
  <2>2. asId + 1 \in DOMAIN leaves
    <3>1. asId # Len(leaves)
      BY <1>6 DEF LastAs
    <3>2. ASSUME NEW n \in Nat, NEW i \in 1 .. n, i # n PROVE i + 1 \in 1 .. n
      BY <3>2
    <3> QED BY <1>3, <3>1, <3>2
  <2>3. \A n \in Bots : n[1] <= asId
    BY <1>1 DEF DrawInv
  <2>4. BotsOf(asId + 1) = {}
    BY <1>3, <2>3 DEF BotsOf, Bots
  <2>5. BotsOf(asId)' = {} /\ Cardinality({}) = 0
    BY <1>2, <2>1, <2>4, FS_EmptySet DEF BotsOf
  <2>6. \A n \in Bots' : n[1] <= asId'
    <3>1. \A n \in Bots : n[1] \in Nat
      BY RoleTypes, LeafFacts DEF Leaf, TypeOK
    <3> QED BY <1>2, <1>3, <2>1, <2>3, <3>1
  <2>7. ASSUME former.calls = 1
        PROVE  /\ \A a \in DOMAIN leaves : a > asId' => Untouched(a)'
               /\ Untouched(asId)'
               /\ \A a \in DOMAIN leaves :
                    a < asId' /\ leaves[a] > 0 /\ m_maxBotsPerAs > 0 => BotsOf(a)' # {}
    <3>1. \A a \in DOMAIN leaves : a > asId => Untouched(a)
      BY <1>1, <2>7 DEF DrawInv
    <3>2. Untouched(asId + 1)
      BY <1>3, <2>2, <3>1
    <3>3. Untouched(asId)'
      BY <1>1, <1>2, <2>1, <3>2 DEF Untouched
    <3>4. \A a \in DOMAIN leaves : /\ a > asId' => a > asId
                                   /\ a < asId' => a <= asId
      BY <1>3, <2>1
    <3> QED BY <1>2, <1>4, <2>7, <3>1, <3>3, <3>4
  <2>8. DrawInv'
    <3>1. /\ count' <= m_maxBotsPerAs' /\ Cardinality(BotsOf(asId)') <= count'
          /\ ~(count' > 0) /\ leaves' = leaves /\ former' = former
          /\ m_maxBotsPerAs' = m_maxBotsPerAs
      BY <1>1, <1>3, <2>5
    <3> QED BY <2>6, <2>7, <3>1 DEF DrawInv
  <2>9. BotsPerAs'
    BY <1>1, <1>2, <2>1 DEF BotsPerAs
  <2> QED BY <2>8, <2>9
<1> QED BY <1>5, <1>6

(* Every step keeps the bounds on the bots of an AS. *)
LEMMA PerAsStep ==
    TypeOK /\ MapInv /\ FiniteInv /\ FirstInv /\ DrawInv /\ BotsPerAs /\ [Next]_vars
      => DrawInv' /\ BotsPerAs'
<1> SUFFICES ASSUME TypeOK, MapInv, FiniteInv, FirstInv, DrawInv, BotsPerAs, [Next]_vars
             PROVE  DrawInv' /\ BotsPerAs'
  OBVIOUS
<1>1. ASSUME UNCHANGED <<leaves, m_maxBotsPerAs, former>>, Bots' = Bots, pc # "bots", pc' # "bots"
      PROVE  DrawInv' /\ BotsPerAs'
  BY <1>1 DEF DrawInv, BotsPerAs, BotsOf, Bots
<1>2. CASE CreateBenignNodes
  <2>1. UNCHANGED <<leaves, m_maxBotsPerAs, former>>
    BY <1>2 DEF CreateBenignNodes
  <2> QED BY <1>1, <1>2, <2>1, CreateBenignEffect
<1>3. ASSUME NEW l \in LeafId, DrawLeaf(l) PROVE DrawInv' /\ BotsPerAs'
  <2>1. UNCHANGED <<leaves, m_maxBotsPerAs, former>> /\ pc' # "bots"
    BY <1>3 DEF DrawLeaf, Redraw
  <2> QED BY <1>1, <1>3, <2>1, DrawLeafEffect
<1>4. CASE CreateBotnetExits \/ InstallApplications
  BY <1>1, <1>4 DEF CreateBotnetExits, InstallApplications, botnetVars, Bots
<1>5. ASSUME NEW a \in AsId, DrawAs(a) PROVE DrawInv' /\ BotsPerAs'
  BY <1>1, <1>5 DEF DrawAs, botnetVars, Bots
<1>6. ASSUME NEW r \in AppRole, AddApplication(r) PROVE DrawInv' /\ BotsPerAs'
  BY <1>1, <1>6 DEF AddApplication, loopVars, botnetVars, Bots
<1>7. ASSUME NEW r \in AppRole, NEW i \in 1 .. MaxApps, NEW v \in Value, SetAttribute(r, i, v)
      PROVE  DrawInv' /\ BotsPerAs'
  BY <1>1, <1>7 DEF SetAttribute, loopVars, botnetVars, Bots
<1>8. CASE UNCHANGED vars
  BY <1>8 DEF vars, loopVars, botnetVars, DrawInv, BotsPerAs, BotsOf, Bots, Untouched, Leaf
<1> QED BY <1>2, <1>3, <1>4, <1>5, <1>6, <1>7, <1>8, CallStep, NextStep, DrawStep DEF Next

-----------------------------------------------------------------------------
NodeInv == MapInv /\ RoleInv
IInv ==
    /\ TypeOK /\ NodeInv /\ FiniteInv
    /\ FreshInv /\ FactoryInv /\ AppIndicesAgree
    /\ FirstInv /\ DrawInv /\ BotsPerAs

(* Nothing has a role before the first call. *)
LEMMA InitIInv == Init => IInv
<1> SUFFICES ASSUME Init PROVE IInv
  OBVIOUS
<1>1. /\ leaves \in Topology /\ pc = "idle" /\ asId = 1 /\ count = 0 /\ m_maxBotsPerAs = 0
      /\ m_nodeMap = [n \in Leaf |-> "UNINITIALIZED"] /\ apps = [n \in Leaf |-> <<>>]
      /\ m_apps = [r \in AppRole |-> <<>>]
      /\ former = [calls |-> 0, bots |-> {}, rest |-> {}]
      /\ m_botnet = NewBotnet("none")
  BY DEF Init
<1>2. /\ Bots = {} /\ Benign = {} /\ Master = NoNode /\ ~Created
      /\ m_botnet.m_botNum = 0 /\ m_botnet.m_benignNum = 0
  BY <1>1 DEF NewBotnet, Bots, Benign, Master, Created
<1>3. TypeOK
  <2>1. <<>> \in Seq(Application)
    BY EmptySeq
  <2>2. m_botnet \in BotnetRecord
    BY <1>1 DEF NewBotnet, BotnetRecord
  <2>3. m_nodeMap \in [Leaf -> Role]
    BY <1>1 DEF Role
  <2>4. m_apps \in [AppRole -> Seq(Application)] /\ apps \in [Leaf -> Seq(Application)]
    BY <1>1, <2>1
  <2>5. former \in [calls : Nat, bots : SUBSET Leaf, rest : SUBSET Leaf]
    BY <1>1
  <2> QED BY <1>1, <2>2, <2>3, <2>4, <2>5 DEF TypeOK, BotnetRecord
<1>4. NodeInv
  BY <1>1, <1>2 DEF NodeInv, MapInv, RoleInv, Looping
<1>5. FiniteInv
  BY <1>2, FS_EmptySet DEF FiniteInv, Bots, Benign
<1>6. FreshInv /\ FactoryInv
  BY <1>1, <1>2 DEF FreshInv, FactoryInv, Looping
<1>7. AppIndicesAgree
  BY <1>2 DEF AppIndicesAgree, Alike, Bots, Benign
<1>8. FirstInv /\ DrawInv
  BY <1>1, <1>2 DEF FirstInv, DrawInv
<1>9. BotsPerAs
  <2>1. \A a : BotsOf(a) = {}
    BY <1>2 DEF BotsOf, Bots
  <2>2. former.calls # 1 /\ m_maxBotsPerAs = 0
    BY <1>1
  <2>3. Cardinality({}) = 0
    BY FS_EmptySet
  <2>4. \A a : Cardinality(BotsOf(a)) <= m_maxBotsPerAs
    BY <2>1, <2>2, <2>3
  <2> QED BY <2>2, <2>4 DEF BotsPerAs
<1> QED BY <1>3, <1>4, <1>5, <1>6, <1>7, <1>8, <1>9 DEF IInv

(* The inductive invariant holds in every reachable state. *)
THEOREM Invariance == Spec => []IInv
<1>1. Init => IInv
  BY InitIInv
<1>2. IInv /\ [Next]_vars => IInv'
  BY TypeStep, RoleStep, CountStep, FreshStep, FactoryStep, AgreeStep, FirstStep, PerAsStep
     DEF IInv, NodeInv
<1> QED BY <1>1, <1>2, PTL DEF Spec

(* Type correctness of the helper, for every topology. *)
THEOREM TypeCorrect == Spec => []TypeOK
BY Invariance, PTL DEF IInv

(* GetBot and GetBenign log an error for the indices they do not hold and  *)
(* no other, however often a leaf is drawn and CreateBotnet is called.     *)
THEOREM BadIndicesAreLoggedHolds == Spec => []BadIndicesAreLogged
<1>1. IInv => BadIndicesAreLogged
  BY DEF IInv, FiniteInv, BadIndicesAreLogged, NoSuchBot, NoSuchBenign
<1> QED BY <1>1, Invariance, PTL

(* No draw gives an AS more than maxBotsPerAs bots, and the first botnet   *)
(* has a bot in every AS that has leaves.                                  *)
THEOREM BotsPerAsHolds == Spec => []BotsPerAs
BY Invariance, PTL DEF IInv

(* No node has two roles in one botnet, or is a bot of one botnet and has  *)
(* any role in another.                                                    *)
THEOREM BotnetsShareNoBotsHolds == Spec => []BotnetsShareNoBots
<1>1. IInv => BotnetsShareNoBots
  BY RoleTypes DEF IInv, NodeInv, MapInv, RoleInv, BotnetsShareNoBots, Bots, Benign, Master
<1> QED BY <1>1, Invariance, PTL

(* An index of SetAttributeBot or SetAttributeBenign means the same        *)
(* application on every node of the role.                                  *)
THEOREM AppIndicesAgreeHolds == Spec => []AppIndicesAgree
BY Invariance, PTL DEF IInv
=============================================================================
