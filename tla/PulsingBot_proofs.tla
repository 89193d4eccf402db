------------------------- MODULE PulsingBot_proofs --------------------------
(***************************************************************************)
(* Proofs about PulsingBot for every number of bots, rounds and            *)
(* notifications and every width of the round counter.                     *)
(***************************************************************************)
EXTENDS PulsingBot, TLAPS

(* Before and after the one notification of a bot. *)
Unnotified(b) ==
    /\ m_rounds[b] = Rounds /\ pending[b] = 0 /\ sent[b] = 0 /\ accepted[b] = 0
    /\ sim = "running" => m_target_socket[b] = "new"

OneChain(b) ==
    /\ m_rounds[b] + sent[b] = Rounds /\ accepted[b] = sent[b]
    /\ pending[b] <= 1
    /\ pending[b] = 1 => m_rounds[b] > 0
    /\ sim = "running" /\ pending[b] = 1 => m_target_socket[b] = "connected"

ChainInv ==
    \A b \in Bot :
      /\ notified[b] = 0 => Unnotified(b)
      /\ notified[b] = 1 => OneChain(b)

IInv == TypeOK /\ ChainInv

USE RoundAssumption, BotBoundAssumption

(* Decrementing stays within the width, and only zero wraps. *)
LEMMA DecrementedFits ==
    ASSUME NEW n \in 0 .. RoundLimit - 1
    PROVE  /\ Decremented(n) \in 0 .. RoundLimit - 1
           /\ n > 0 => Decremented(n) = n - 1
BY DEF Decremented

(* What one round does to the bot that sends it, and to the others. *)
LEMMA SendRoundEffect ==
    ASSUME TypeOK, NEW b \in Bot, NEW others \in Nat, SendRound(b, others)
    PROVE  /\ m_rounds' \in [Bot -> 0 .. RoundLimit - 1]
           /\ pending' \in [Bot -> Nat]
           /\ sent' \in [Bot -> Nat]
           /\ accepted' \in [Bot -> Nat]
           /\ m_rounds'[b] = Decremented(m_rounds[b])
           /\ sent'[b] = sent[b] + 1
           /\ m_target_socket'[b] = "connected" => accepted'[b] = accepted[b] + 1
           /\ pending'[b] = IF m_rounds'[b] > 0 THEN others + 1 ELSE others
           /\ \A c \in Bot \ {b} : /\ m_rounds'[c] = m_rounds[c]
                                   /\ sent'[c] = sent[c]
                                   /\ accepted'[c] = accepted[c]
                                   /\ pending'[c] = pending[c]
<1>1. Decremented(m_rounds[b]) \in 0 .. RoundLimit - 1
  BY DecrementedFits DEF TypeOK
<1> QED BY <1>1 DEF SendRound, SentRound, TypeOK

(* A socket without a connection starts one; another bot's is left alone.  *)
LEMMA ConnectEffect ==
    ASSUME TypeOK, NEW b \in Bot, Connect(b)
    PROVE  /\ m_target_socket' \in [Bot -> {"new", "connected", "closed"}]
           /\ m_target_socket[b] = "new" => m_target_socket'[b] = "connected"
           /\ \A c \in Bot \ {b} : m_target_socket'[c] = m_target_socket[c]
<1>1. PICK outcome \in {"connected", "closed"} :
        /\ m_target_socket' = [m_target_socket EXCEPT ![b] = outcome]
        /\ m_target_socket[b] = "new" => outcome = "connected"
  BY DEF Connect
<1> QED BY <1>1 DEF TypeOK

(* Every step keeps the types. *)
LEMMA TypeStep == TypeOK /\ [Next]_vars => TypeOK'
<1> SUFFICES ASSUME TypeOK, [Next]_vars PROVE TypeOK'
  OBVIOUS
<1>1. ASSUME NEW b \in Bot, StartApplication(b) PROVE TypeOK'
  BY <1>1 DEF StartApplication, TypeOK
<1>2. ASSUME NEW b \in Bot, ReceivePacketCC(b) PROVE TypeOK'
  <2>1. pending[b] \in Nat /\ notified' \in [Bot -> Nat]
    BY <1>2 DEF ReceivePacketCC, TypeOK
  <2>2. CASE m_rounds[b] > 0
    <3>1. Connect(b) /\ SendRound(b, pending[b])
      BY <1>2, <2>2 DEF ReceivePacketCC
    <3> QED BY <1>2, <2>1, <3>1, SendRoundEffect, ConnectEffect DEF ReceivePacketCC, TypeOK
  <2>3. CASE ~(m_rounds[b] > 0)
    BY <1>2, <2>1, <2>3 DEF ReceivePacketCC, TypeOK
  <2> QED BY <2>2, <2>3
<1>3. ASSUME NEW b \in Bot, SendPacketTarget(b) PROVE TypeOK'
  <2>1. pending[b] - 1 \in Nat /\ SendRound(b, pending[b] - 1)
    BY <1>3 DEF SendPacketTarget, TypeOK
  <2> QED BY <1>3, <2>1, SendRoundEffect DEF SendPacketTarget, TypeOK
<1>4. ASSUME NEW b \in Bot, StopApplication(b) PROVE TypeOK'
  BY <1>4 DEF StopApplication, TypeOK
<1>5. CASE UNCHANGED vars
  BY <1>5 DEF vars, TypeOK
<1> QED BY <1>1, <1>2, <1>3, <1>4, <1>5 DEF Next

(* The one notification starts the chain, each round continues it. *)
LEMMA ChainStep == TypeOK /\ ChainInv /\ [Next]_vars => ChainInv'
<1> SUFFICES ASSUME TypeOK, ChainInv, [Next]_vars, NEW c \in Bot
             PROVE  /\ notified'[c] = 0 => Unnotified(c)'
                    /\ notified'[c] = 1 => OneChain(c)'
  BY DEF ChainInv
<1> USE DEF Unnotified, OneChain
<1>1. ASSUME UNCHANGED <<m_rounds, pending, m_target_socket, sent, accepted, notified, sim>>
      PROVE  /\ notified'[c] = 0 => Unnotified(c)'
             /\ notified'[c] = 1 => OneChain(c)'
  BY <1>1 DEF ChainInv
<1>2. ASSUME NEW b \in Bot, ReceivePacketCC(b)
      PROVE  /\ notified'[c] = 0 => Unnotified(c)'
             /\ notified'[c] = 1 => OneChain(c)'
  <2>1. CASE m_rounds[b] > 0
    <3>1. Connect(b) /\ SendRound(b, pending[b]) /\ pending[b] \in Nat
      BY <1>2, <2>1 DEF ReceivePacketCC, TypeOK
    <3>2. CASE b = c
      <4>1. notified'[c] = notified[c] + 1 /\ notified[c] \in Nat
        BY <1>2, <3>2 DEF ReceivePacketCC, TypeOK
      <4>2. notified[c] = 0 => /\ m_rounds[c] = Rounds /\ pending[c] = 0
                               /\ sent[c] = 0 /\ accepted[c] = 0
                               /\ m_target_socket[c] = "new"
        BY <1>2 DEF ChainInv, ReceivePacketCC, Running
      <4>3. m_rounds'[c] = m_rounds[c] - 1 /\ m_rounds[c] \in Nat
        BY <2>1, <3>1, <3>2, SendRoundEffect, DecrementedFits DEF TypeOK
      <4>4. /\ sent'[c] = sent[c] + 1
            /\ pending'[c] = IF m_rounds'[c] > 0 THEN pending[c] + 1 ELSE pending[c]
        BY <3>1, <3>2, SendRoundEffect
      <4>5. notified'[c] = 1 => OneChain(c)'
        <5> SUFFICES ASSUME notified'[c] = 1 PROVE OneChain(c)'
          OBVIOUS
        <5>1. m_rounds[c] = Rounds /\ pending[c] = 0 /\ sent[c] = 0 /\ accepted[c] = 0
          BY <4>1, <4>2
        <5>3. m_target_socket'[c] = "connected"
          BY <3>1, <3>2, <4>1, <4>2, ConnectEffect
        <5>4. accepted'[c] = 1
          BY <3>1, <3>2, <5>1, <5>3, SendRoundEffect
        <5>2. m_rounds'[c] = Rounds - 1 /\ sent'[c] = 1 /\ Rounds \in Nat
          BY <4>3, <4>4, <5>1
        <5> QED BY <4>4, <5>1, <5>2, <5>3, <5>4
      <4> QED BY <4>1, <4>5
    <3>3. CASE b # c
      BY <1>2, <3>1, <3>3, SendRoundEffect, ConnectEffect DEF ReceivePacketCC, TypeOK, ChainInv
    <3> QED BY <3>2, <3>3
  <2>2. CASE ~(m_rounds[b] > 0)
    BY <1>2, <2>2 DEF ReceivePacketCC, TypeOK, ChainInv
  <2> QED BY <2>1, <2>2
<1>3. ASSUME NEW b \in Bot, SendPacketTarget(b)
      PROVE  /\ notified'[c] = 0 => Unnotified(c)'
             /\ notified'[c] = 1 => OneChain(c)'
  <2>1. SendRound(b, pending[b] - 1) /\ pending[b] - 1 \in Nat
    BY <1>3 DEF SendPacketTarget, TypeOK
  <2>2. CASE b = c
    <3>1. notified'[c] = notified[c] /\ notified[c] # 0
      BY <1>3, <2>2 DEF SendPacketTarget, ChainInv
    <3>2. notified[c] = 1 => /\ pending[c] = 1 /\ m_rounds[c] > 0
                             /\ m_rounds[c] + sent[c] = Rounds /\ accepted[c] = sent[c]
                             /\ m_target_socket'[c] = "connected"
      BY <1>3, <2>1, <2>2 DEF SendPacketTarget, Running, ChainInv, TypeOK
    <3>3. m_rounds[c] > 0 => m_rounds'[c] = m_rounds[c] - 1
      BY <2>1, <2>2, SendRoundEffect, DecrementedFits DEF TypeOK
    <3> QED BY <2>1, <2>2, <3>1, <3>2, <3>3, SendRoundEffect DEF TypeOK
  <2>3. CASE b # c
    BY <1>3, <2>1, <2>3, SendRoundEffect DEF SendPacketTarget, TypeOK, ChainInv
  <2> QED BY <2>2, <2>3
<1>4. ASSUME NEW b \in Bot, StopApplication(b)
      PROVE  /\ notified'[c] = 0 => Unnotified(c)'
             /\ notified'[c] = 1 => OneChain(c)'
  BY <1>4 DEF StopApplication, TypeOK, ChainInv
<1> QED BY <1>1, <1>2, <1>3, <1>4 DEF Next, StartApplication, vars

(* The inductive invariant holds in every reachable state. *)
THEOREM Invariance == Spec => []IInv
<1>1. Init => IInv
  BY DEF Init, IInv, TypeOK, ChainInv, Unnotified
<1>2. IInv /\ [Next]_vars => IInv'
  BY TypeStep, ChainStep DEF IInv
<1> QED BY <1>1, <1>2, PTL DEF Spec

(* Type correctness: m_rounds stays within its width, wraps included. *)
THEOREM TypeCorrect == Spec => []TypeOK
BY Invariance, PTL DEF IInv

ChainsFit == \A b \in Bot : pending[b] <= notified[b]

(* However many notifications arrive, each adds at most one chain. *)
LEMMA ChainsMatchNotifications == Spec => []ChainsFit
<1>1. Init => ChainsFit
  <2> SUFFICES ASSUME Init, NEW b \in Bot PROVE pending[b] <= notified[b]
    BY DEF ChainsFit
  <2>1. pending[b] = 0 /\ notified[b] = 0
    BY DEF Init
  <2> QED BY <2>1
<1>2. IInv /\ ChainsFit /\ [Next]_vars => ChainsFit'
  <2> SUFFICES ASSUME TypeOK, ChainsFit, [Next]_vars, NEW c \in Bot
               PROVE  pending'[c] <= notified'[c]
    BY DEF IInv, ChainsFit
  <2>1. pending[c] <= notified[c] /\ pending[c] \in Nat /\ notified[c] \in Nat
    BY DEF ChainsFit, TypeOK
  <2>2. ASSUME NEW b \in Bot, ReceivePacketCC(b) PROVE pending'[c] <= notified'[c]
    <3>1. pending'[c] <= pending[c] + (IF b = c THEN 1 ELSE 0)
      <4>1. CASE m_rounds[b] > 0
        <5>1. SendRound(b, pending[b]) /\ pending[b] \in Nat
          BY <2>2, <4>1 DEF ReceivePacketCC, TypeOK
        <5> QED BY <2>1, <5>1, SendRoundEffect
      <4>2. CASE ~(m_rounds[b] > 0)
        BY <2>1, <2>2, <4>2 DEF ReceivePacketCC
      <4> QED BY <4>1, <4>2
    <3>2. notified'[c] = notified[c] + (IF b = c THEN 1 ELSE 0)
      BY <2>1, <2>2 DEF ReceivePacketCC, TypeOK
    <3>3. pending'[c] \in Nat
      BY TypeStep DEF TypeOK
    <3> QED BY <2>1, <3>1, <3>2, <3>3
  <2>3. ASSUME NEW b \in Bot, SendPacketTarget(b) PROVE pending'[c] <= notified'[c]
    <3>1. SendRound(b, pending[b] - 1) /\ pending[b] - 1 \in Nat /\ notified' = notified
      BY <2>3 DEF SendPacketTarget, TypeOK
    <3>2. b = c => pending'[c] <= pending[c]
      BY <2>1, <3>1, SendRoundEffect
    <3>3. b # c => pending'[c] = pending[c]
      BY <3>1, SendRoundEffect
    <3>4. pending'[c] <= pending[c] /\ pending'[c] \in Nat /\ notified'[c] = notified[c]
      BY <2>1, <3>1, <3>2, <3>3, TypeStep DEF TypeOK
    <3> QED BY <2>1, <3>4
  <2>4. ASSUME NEW b \in Bot, StopApplication(b) PROVE pending'[c] <= notified'[c]
    BY <2>1, <2>4 DEF StopApplication, TypeOK
  <2> QED BY <2>1, <2>2, <2>3, <2>4 DEF Next, StartApplication, vars
<1> QED BY <1>1, <1>2, Invariance, PTL DEF Spec

(* One notification means exactly Rounds packets that the socket takes,    *)
(* however many bots run and however their events interleave; and each     *)
(* adds at most one chain.                                                 *)
THEOREM OneCommandOneAttackHolds == Spec => []OneCommandOneAttack
<1>1. IInv /\ ChainsFit => OneCommandOneAttack
  <2> SUFFICES ASSUME IInv, ChainsFit, NEW b \in Bot
               PROVE  /\ pending[b] <= notified[b]
                      /\ notified[b] <= 1 => /\ m_rounds[b] + sent[b] = Rounds
                                             /\ accepted[b] = sent[b]
                                             /\ m_rounds[b] = 0 => pending[b] = 0
    BY DEF OneCommandOneAttack
  <2>1. notified[b] <= 1 => notified[b] = 0 \/ notified[b] = 1
    BY DEF IInv, TypeOK
  <2> QED BY <2>1 DEF IInv, TypeOK, ChainInv, ChainsFit, Unnotified, OneChain
<1> QED BY <1>1, Invariance, ChainsMatchNotifications, PTL

-----------------------------------------------------------------------------
(* Each notification pays for a pending event, for a turn of the counter,  *)
(* or for the counter standing at 0.                                       *)
Turn(b, k) ==
    /\ m_rounds[b] + sent[b] = Rounds + k * RoundLimit
    /\ pending[b] + k + (IF m_rounds[b] = 0 THEN 1 ELSE 0) <= notified[b]

GoesOn(b) == notified[b] > 0 /\ m_rounds[b] > 0 => pending[b] > 0

Turns(b) ==
    IF Rounds = 0 THEN m_rounds[b] = 0 /\ sent[b] = 0 /\ pending[b] = 0
    ELSE \E k \in Nat : Turn(b, k)

TurnInv == sim = "running" => \A b \in Bot : GoesOn(b) /\ Turns(b)

(* What one round does to a turn, sent by an event or by a notification.   *)
LEMMA TurnRound ==
    ASSUME TypeOK, Rounds > 0, NEW b \in Bot, NEW k \in Nat, Turn(b, k),
           \/ /\ pending[b] > 0 /\ SendRound(b, pending[b] - 1)
              /\ notified'[b] = notified[b]
           \/ /\ m_rounds[b] > 0 /\ SendRound(b, pending[b])
              /\ notified'[b] = notified[b] + 1
    PROVE  \E j \in Nat : Turn(b, j)'
<1> DEFINE kr == k * RoundLimit
<1>1. /\ m_rounds[b] \in 0 .. RoundLimit - 1 /\ {pending[b], sent[b], notified[b]} \subseteq Nat
      /\ kr \in Nat /\ (k + 1) * RoundLimit = kr + RoundLimit
      /\ RoundLimit \in Nat /\ Rounds \in Nat /\ RoundLimit > 1
  BY DEF TypeOK
<1>2. PICK others \in Nat : /\ SendRound(b, others)
                            /\ \/ others = pending[b] - 1 /\ notified'[b] = notified[b]
                               \/ /\ others = pending[b] /\ m_rounds[b] > 0
                                  /\ notified'[b] = notified[b] + 1
  <2>1. pending[b] > 0 => pending[b] - 1 \in Nat
    BY <1>1
  <2> QED BY <1>1, <2>1
<1>3. /\ m_rounds'[b] = Decremented(m_rounds[b]) /\ sent'[b] = sent[b] + 1
      /\ pending'[b] = IF m_rounds'[b] > 0 THEN others + 1 ELSE others
  BY <1>2, SendRoundEffect
<1>4. /\ m_rounds[b] + sent[b] = Rounds + kr
      /\ pending[b] + k + (IF m_rounds[b] = 0 THEN 1 ELSE 0) <= notified[b]
  BY DEF Turn
<1> HIDE DEF kr
<1>5. CASE m_rounds[b] = 0
  <2>1. m_rounds'[b] = RoundLimit - 1
    BY <1>3, <1>5 DEF Decremented
  <2>2. m_rounds'[b] + sent'[b] = Rounds + (k + 1) * RoundLimit
    BY <1>1, <1>3, <1>4, <1>5, <2>1
  <2>3. pending'[b] + (k + 1) + (IF m_rounds'[b] = 0 THEN 1 ELSE 0) <= notified'[b]
    BY <1>1, <1>2, <1>3, <1>4, <1>5, <2>1
  <2>4. Turn(b, k + 1)'
    BY <2>2, <2>3 DEF Turn
  <2> QED BY <2>4
<1>6. CASE m_rounds[b] > 0
  <2>1. m_rounds'[b] = m_rounds[b] - 1
    BY <1>1, <1>3, <1>6 DEF Decremented
  <2>2. m_rounds'[b] + sent'[b] = Rounds + kr
    BY <1>1, <1>3, <1>4, <2>1
  <2>3. pending'[b] + k + (IF m_rounds'[b] = 0 THEN 1 ELSE 0) <= notified'[b]
    BY <1>1, <1>2, <1>3, <1>4, <1>6, <2>1
  <2>4. Turn(b, k)'
    BY <2>2, <2>3 DEF Turn, kr
  <2> QED BY <2>4
<1> QED BY <1>1, <1>5, <1>6

(* The bots that a step leaves alone. *)
LEMMA TurnFrame ==
    ASSUME NEW b, GoesOn(b), Turns(b), m_rounds'[b] = m_rounds[b], sent'[b] = sent[b],
           pending'[b] = pending[b], notified'[b] = notified[b]
    PROVE  GoesOn(b)' /\ Turns(b)'
BY DEF GoesOn, Turns, Turn

LEMMA TurnStep == TypeOK /\ TurnInv /\ [Next]_vars => TurnInv'
<1> SUFFICES ASSUME TypeOK, TurnInv, [Next]_vars, sim' = "running", NEW c \in Bot
             PROVE  GoesOn(c)' /\ Turns(c)'
  BY DEF TurnInv
<1>1. sim = "running" /\ GoesOn(c) /\ Turns(c)
  BY DEF TurnInv, Next, StartApplication, ReceivePacketCC, SendPacketTarget, StopApplication,
     Running, vars
<1>2. CASE UNCHANGED <<m_rounds, pending, sent, notified>>
  BY <1>1, <1>2, TurnFrame
<1>3. ASSUME NEW b \in Bot, ReceivePacketCC(b) PROVE GoesOn(c)' /\ Turns(c)'
  <2>1. /\ notified[c] \in Nat /\ pending[c] \in Nat /\ m_rounds[c] \in Nat
        /\ notified'[c] = notified[c] + (IF b = c THEN 1 ELSE 0)
    BY <1>3 DEF ReceivePacketCC, TypeOK
  <2>2. CASE b = c /\ m_rounds[c] > 0
    <3>1. SendRound(c, pending[c]) /\ Rounds > 0
      BY <1>1, <1>3, <2>2 DEF ReceivePacketCC, Turns
    <3>2. GoesOn(c)'
      BY <2>1, <3>1, SendRoundEffect DEF GoesOn
    <3>3. PICK k \in Nat : Turn(c, k)
      BY <1>1, <3>1 DEF Turns
    <3>4. \E j \in Nat : Turn(c, j)'
      BY <2>1, <2>2, <3>1, <3>3, TurnRound
    <3> QED BY <3>1, <3>2, <3>4 DEF Turns
  <2>3. CASE b = c /\ ~(m_rounds[c] > 0)
    <3>1. UNCHANGED <<m_rounds, pending, sent>>
      BY <1>3, <2>3 DEF ReceivePacketCC
    <3>2. ASSUME NEW k \in Nat, Turn(c, k) PROVE Turn(c, k)'
      BY <2>1, <2>3, <3>1, <3>2 DEF Turn
    <3> QED BY <1>1, <2>3, <3>1, <3>2 DEF GoesOn, Turns
  <2>4. CASE b # c
    <3>1. CASE m_rounds[b] > 0
      <4>1. SendRound(b, pending[b]) /\ pending[b] \in Nat
        BY <1>3, <3>1 DEF ReceivePacketCC, TypeOK
      <4> QED BY <1>1, <2>1, <2>4, <4>1, SendRoundEffect, TurnFrame
    <3>2. CASE ~(m_rounds[b] > 0)
      BY <1>1, <1>3, <2>1, <2>4, <3>2, TurnFrame DEF ReceivePacketCC
    <3> QED BY <3>1, <3>2
  <2> QED BY <2>2, <2>3, <2>4
<1>4. ASSUME NEW b \in Bot, SendPacketTarget(b) PROVE GoesOn(c)' /\ Turns(c)'
  <2>1. /\ SendRound(b, pending[b] - 1) /\ pending[b] - 1 \in Nat /\ pending[b] > 0
        /\ notified' = notified
    BY <1>4 DEF SendPacketTarget, TypeOK
  <2>2. CASE b = c
    <3>1. Rounds > 0
      BY <1>1, <2>1, <2>2 DEF Turns
    <3>2. GoesOn(c)'
      BY <2>1, <2>2, SendRoundEffect DEF GoesOn
    <3>3. PICK k \in Nat : Turn(c, k)
      BY <1>1, <3>1 DEF Turns
    <3>4. \E j \in Nat : Turn(c, j)'
      BY <2>1, <2>2, <3>1, <3>3, TurnRound
    <3> QED BY <3>1, <3>2, <3>4 DEF Turns
  <2>3. CASE b # c
    BY <1>1, <2>1, <2>3, SendRoundEffect, TurnFrame
  <2> QED BY <2>2, <2>3
<1> QED BY <1>2, <1>3, <1>4 DEF Next, StartApplication, StopApplication, vars

SentFits ==
    \A b \in Bot : notified[b] > 0 => sent[b] <= Rounds + (notified[b] - 1) * RoundLimit

(* The simulation has not crashed. *)
Alive == sim = "running"

(* A turn for every notification but one. *)
LEMMA TurnsBoundSent == IInv /\ TurnInv /\ Alive => SentFits
<1> SUFFICES ASSUME TypeOK, TurnInv, sim = "running", NEW b \in Bot, notified[b] > 0
             PROVE  sent[b] <= Rounds + (notified[b] - 1) * RoundLimit
  BY DEF SentFits, IInv, Alive
<1>1. {m_rounds[b], pending[b], sent[b], notified[b], Rounds, RoundLimit} \subseteq Nat
  BY DEF TypeOK
<1> DEFINE more == (notified[b] - 1) * RoundLimit
<1>2. more \in Nat
  BY <1>1
<1>3. CASE Rounds = 0
  BY <1>1, <1>2, <1>3 DEF TurnInv, Turns
<1>4. CASE Rounds # 0
  <2>1. PICK k \in Nat : Turn(b, k)
    BY <1>4 DEF TurnInv, Turns
  <2>2. k <= notified[b] - 1
    BY <1>1, <2>1 DEF TurnInv, GoesOn, Turn
  <2>3. PICK d \in Nat : notified[b] - 1 = k + d
    BY <1>1, <2>2
  <2> DEFINE kr == k * RoundLimit
             dr == d * RoundLimit
  <2>4. more = kr + dr /\ kr \in Nat /\ dr \in Nat
    BY <1>1, <2>3
  <2>5. m_rounds[b] + sent[b] = Rounds + kr
    BY <2>1 DEF Turn
  <2> HIDE DEF kr, dr, more
  <2>6. sent[b] <= Rounds + more
    BY <1>1, <2>4, <2>5
  <2> QED BY <2>6 DEF more
<1> QED BY <1>3, <1>4

(* Whatever chains overlap, the attack goes on while rounds are left, and  *)
(* each further notification prolongs it by one turn of the counter at     *)
(* most.                                                                   *)
THEOREM ChainsEndAtZeroHolds == Spec => []ChainsEndAtZero
<1>1. Init => TurnInv /\ SentFits
  <2> SUFFICES ASSUME Init, NEW b \in Bot PROVE GoesOn(b) /\ Turns(b) /\ ~(notified[b] > 0)
    BY DEF TurnInv, SentFits
  <2>1. notified[b] = 0 /\ m_rounds[b] = Rounds /\ pending[b] = 0 /\ sent[b] = 0
    BY DEF Init
  <2>2. Rounds # 0 => Turn(b, 0)
    BY <2>1 DEF Turn
  <2> QED BY <2>1, <2>2 DEF GoesOn, Turns
<1>2. IInv /\ TurnInv /\ SentFits /\ [Next]_vars => TurnInv' /\ (Alive' \/ SentFits')
  <2> SUFFICES ASSUME TypeOK, TurnInv, SentFits, [Next]_vars
               PROVE  TurnInv' /\ (Alive' \/ SentFits')
    BY DEF IInv
  <2>1. TurnInv'
    BY TurnStep
  <2>2. CASE sim' # "running"
    <3>1. UNCHANGED <<sent, notified>>
      BY <2>2 DEF Next, StartApplication, ReceivePacketCC, SendPacketTarget, StopApplication,
         Running, vars
    <3> QED BY <2>1, <3>1 DEF SentFits
  <2> QED BY <2>1, <2>2 DEF Alive
<1>3. IInv /\ TurnInv /\ SentFits => ChainsEndAtZero
  BY DEF TurnInv, SentFits, GoesOn, ChainsEndAtZero
<1> QED BY <1>1, <1>2, <1>3, TurnsBoundSent, Invariance, PTL DEF Spec
=============================================================================
