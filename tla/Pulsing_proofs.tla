--------------------------- MODULE Pulsing_proofs ---------------------------
(***************************************************************************)
(* Proofs about Pulsing for every number of bots and controllers, all      *)
(* latencies and all times.  The invariants of the bots come from the      *)
(* proofs about them: Pulsing is shown to implement PulsingBot, so what    *)
(* holds of the bots alone holds of them under their controllers.          *)
(***************************************************************************)
EXTENDS Pulsing, TLAPS

BP == INSTANCE PulsingBot_proofs

(* What PulsingBot assumes of its constants holds of those it gets. *)
LEMMA BotAssumptions == BP!RoundAssumption /\ BP!BotBoundAssumption
BY BotAssumption DEF BP!RoundAssumption, BP!BotBoundAssumption

(* The two instances of the bots take the same steps. *)
LEMMA SameSteps == [Bots!Next]_Bots!vars => [BP!Next]_BP!vars
BY DEF Bots!vars, BP!vars, Bots!Next, BP!Next, Bots!StartApplication, BP!StartApplication,
   Bots!ReceivePacketCC, BP!ReceivePacketCC, Bots!SendPacketTarget, BP!SendPacketTarget,
   Bots!StopApplication, BP!StopApplication, Bots!Running, BP!Running, Bots!Connect,
   BP!Connect, Bots!SendRound, BP!SendRound, Bots!SentRound, BP!SentRound,
   Bots!Decremented, BP!Decremented

-----------------------------------------------------------------------------
(* Who has been commanded.                                                 *)

(* Functions have their domains, and a bot is known before it is commanded.*)
KnownInv ==
    /\ ccState \in [Controller -> {"idle", "running", "stopped"}]
    /\ DOMAIN m_send_events = Controller
    /\ DOMAIN m_schedule_bots_event = Controller
    /\ DOMAIN m_ccRttTable \subseteq Bot
    /\ \A c \in Controller : DOMAIN m_send_events[c] \subseteq DOMAIN m_ccRttTable
    /\ \A m \in commands : m.to \in DOMAIN m_ccRttTable
    /\ \A b \in Bot : notified[b] > 0 => b \in DOMAIN m_ccRttTable

(* Only a running controller has something scheduled. *)
StoppedInv ==
    \A c \in Controller : ccState[c] # "running" =>
      m_schedule_bots_event[c] = {} /\ DOMAIN m_send_events[c] = {}

ControllerStep(c) ==
    StartController(c) \/ ScheduleBots(c) \/ StopController(c) \/ \E b \in Bot : SendCommand(c, b)

BotStep ==
    \/ \E b \in Bot : StartBot(b) \/ NextRound(b) \/ StopBot(b)
    \/ \E m \in commands : DeliverCommand(m)

(* The steps, by what they leave alone. *)
LEMMA Steps ==
    ASSUME [Next]_vars
    PROVE  \/ (\E c \in Controller : ControllerStep(c)) /\ UNCHANGED <<botVars, attackVars>>
           \/ BotStep /\ UNCHANGED <<ccVars, rttVars>>
           \/ (\E b \in Bot : m_ccRttTable' = Put(m_ccRttTable, b, 2 * ccLatency[b]))
              /\ UNCHANGED <<ccVars, botVars, attackVars, commands>>
           \/ UNCHANGED <<ccVars, m_ccRttTable, botVars, attackVars, commands>>
<1>1. ASSUME NEW c \in Controller, ControllerStep(c)
      PROVE  UNCHANGED <<botVars, attackVars>>
      BY <1>1 DEF ControllerStep, StartController, ScheduleBots, StopController, SendCommand
<1>2. ASSUME BotStep PROVE UNCHANGED <<ccVars, rttVars>>
      BY <1>2 DEF BotStep, StartBot, NextRound, StopBot, DeliverCommand, Attack
<1>3. ASSUME NEW b \in Bot, CCRttTraceCallback(b)
      PROVE  /\ m_ccRttTable' = Put(m_ccRttTable, b, 2 * ccLatency[b])
             /\ UNCHANGED <<ccVars, botVars, attackVars, commands>>
      BY <1>3 DEF CCRttTraceCallback
<1>4. ASSUME AdvanceTime \/ UNCHANGED vars \/ \E b \in Bot : TargetRttTraceCallback(b)
      PROVE  UNCHANGED <<ccVars, m_ccRttTable, botVars, attackVars, commands>>
      BY <1>4 DEF AdvanceTime, TargetRttTraceCallback, vars, rttVars
<1> QED BY <1>1, <1>2, <1>3, <1>4 DEF Next, ControllerStep, BotStep

(* What the steps of the bots do to who has been commanded. *)
LEMMA BotStepEffect ==
    ASSUME KnownInv, BotStep
    PROVE  \/ UNCHANGED <<notified, commands>>
           \/ \E m \in commands : /\ m.to \in Bot
                                  /\ commands' = commands \ {m}
                                  /\ notified' = [notified EXCEPT ![m.to] = @ + 1]
<1>1. ASSUME NEW b \in Bot, StartBot(b) \/ NextRound(b) \/ StopBot(b)
      PROVE  UNCHANGED <<notified, commands>>
      BY <1>1 DEF StartBot, NextRound, StopBot, Bots!StartApplication, Bots!SendPacketTarget,
         Bots!StopApplication
<1>2. ASSUME NEW m \in commands, DeliverCommand(m)
      PROVE  /\ m.to \in Bot
             /\ commands' = commands \ {m}
             /\ notified' = [notified EXCEPT ![m.to] = @ + 1]
      BY <1>2 DEF DeliverCommand, Bots!ReceivePacketCC, KnownInv
<1> QED BY <1>1, <1>2 DEF BotStep

(* What the steps of a controller do to what it has scheduled.             *)
LEMMA ControllerStepEffect ==
    ASSUME KnownInv, NEW c \in Controller, ControllerStep(c)
    PROVE  /\ DOMAIN m_ccRttTable' = DOMAIN m_ccRttTable
           /\ DOMAIN m_send_events' = Controller /\ DOMAIN m_schedule_bots_event' = Controller
           /\ \A d \in Controller \ {c} : /\ m_send_events'[d] = m_send_events[d]
                                          /\ m_schedule_bots_event'[d] = m_schedule_bots_event[d]
                                          /\ ccState'[d] = ccState[d]
           /\ \/ /\ StartController(c) /\ ccState[c] = "idle" /\ ccState'[c] = "running"
                 /\ UNCHANGED <<m_send_events, commands>>
              \/ /\ ScheduleBots(c) /\ m_schedule_bots_event[c] # {}
                 /\ m_schedule_bots_event'[c] = {}
                 /\ DOMAIN m_send_events'[c] = DOMAIN m_ccRttTable
                 /\ UNCHANGED <<ccState, commands>>
              \/ /\ StopController(c) /\ ccState[c] = "running" /\ ccState'[c] = "stopped"
                 /\ m_schedule_bots_event'[c] = {} /\ DOMAIN m_send_events'[c] = {}
                 /\ UNCHANGED commands
              \/ \E b \in Bot : /\ SendCommand(c, b) /\ b \in DOMAIN m_send_events[c]
                                /\ DOMAIN m_send_events'[c] = DOMAIN m_send_events[c] \ {b}
                                /\ UNCHANGED <<ccState, m_schedule_bots_event>>
                                /\ \/ UNCHANGED commands
                                   \/ \E m : /\ m.from = c /\ m.to = b
                                             /\ commands' = commands \union {m}
           /\ ccState' \in [Controller -> {"idle", "running", "stopped"}]
<1>1. CASE StartController(c)
      BY <1>1 DEF StartController, KnownInv, rttVars
<1>2. CASE ScheduleBots(c)
      BY <1>2 DEF ScheduleBots, KnownInv, Delays
<1>3. CASE StopController(c)
      BY <1>3 DEF StopController, CancelEvent, NoBots, KnownInv, rttVars
<1>4. ASSUME NEW b \in Bot, SendCommand(c, b)
      PROVE  /\ b \in DOMAIN m_send_events[c]
             /\ m_send_events' = [m_send_events EXCEPT ![c] = [d \in DOMAIN @ \ {b} |-> @[d]]]
             /\ UNCHANGED <<ccState, m_schedule_bots_event, m_ccRttTable>>
             /\ \/ UNCHANGED commands
                \/ \E m : m.from = c /\ m.to = b /\ commands' = commands \union {m}
  <2>1. CASE b \in DOMAIN m_socketMap[c]
    <3> DEFINE m == [from |-> c, to |-> b, at |-> Larger(now, m_socketMap[c][b]) + ccLatency[b]]
    <3>1. m.from = c /\ m.to = b /\ commands' = commands \union {m}
          BY <1>4, <2>1 DEF SendCommand
    <3> QED BY <1>4, <3>1 DEF SendCommand, rttVars
  <2>2. CASE b \notin DOMAIN m_socketMap[c]
        BY <1>4, <2>2 DEF SendCommand, rttVars
  <2> QED BY <2>1, <2>2
<1>5. ASSUME NEW b \in Bot, SendCommand(c, b)
      PROVE  /\ DOMAIN m_send_events' = Controller
             /\ DOMAIN m_send_events'[c] = DOMAIN m_send_events[c] \ {b}
             /\ \A d \in Controller \ {c} : m_send_events'[d] = m_send_events[d]
  <2> DEFINE left == [d \in DOMAIN m_send_events[c] \ {b} |-> m_send_events[c][d]]
  <2>1. m_send_events' = [m_send_events EXCEPT ![c] = left]
        BY <1>4, <1>5
  <2>2. DOMAIN left = DOMAIN m_send_events[c] \ {b}
        OBVIOUS
  <2> HIDE DEF left
  <2> QED BY <2>1, <2>2 DEF KnownInv
<1> DEFINE Others ==
             /\ DOMAIN m_ccRttTable' = DOMAIN m_ccRttTable
             /\ DOMAIN m_send_events' = Controller /\ DOMAIN m_schedule_bots_event' = Controller
             /\ \A d \in Controller \ {c} : /\ m_send_events'[d] = m_send_events[d]
                                            /\ m_schedule_bots_event'[d] = m_schedule_bots_event[d]
                                            /\ ccState'[d] = ccState[d]
             /\ ccState' \in [Controller -> {"idle", "running", "stopped"}]
<1>6. Others
  <2>1. ASSUME NEW b \in Bot, SendCommand(c, b) PROVE Others
        BY <1>4, <1>5, <2>1 DEF KnownInv
  <2> QED BY <1>1, <1>2, <1>3, <2>1 DEF ControllerStep
<1>7. ASSUME NEW b \in Bot, SendCommand(c, b)
      PROVE  /\ SendCommand(c, b) /\ b \in DOMAIN m_send_events[c]
             /\ DOMAIN m_send_events'[c] = DOMAIN m_send_events[c] \ {b}
             /\ UNCHANGED <<ccState, m_schedule_bots_event>>
             /\ \/ UNCHANGED commands
                \/ \E m : m.from = c /\ m.to = b /\ commands' = commands \union {m}
      BY <1>4, <1>5, <1>7
<1> QED BY <1>1, <1>2, <1>3, <1>6, <1>7 DEF ControllerStep

-----------------------------------------------------------------------------
(* The bots of PulsingBot.                                                 *)

(* Every step is one of the bots, or leaves them alone, as long as those   *)
(* that are commanded are bots.                                            *)
LEMMA ImplementsStep == KnownInv /\ [Next]_vars => [Bots!Next]_Bots!vars
<1> SUFFICES ASSUME KnownInv, [Next]_vars PROVE [Bots!Next]_Bots!vars
    OBVIOUS
<1>1. ASSUME NEW b \in Bot, StartBot(b) \/ NextRound(b) \/ StopBot(b) PROVE Bots!Next
      BY <1>1 DEF StartBot, NextRound, StopBot, Bots!Next
<1>2. ASSUME NEW m \in commands, DeliverCommand(m) PROVE Bots!Next
      BY <1>2 DEF DeliverCommand, KnownInv, Bots!Next
<1>3. CASE UNCHANGED botVars
      BY <1>3 DEF botVars, Bots!vars
<1> QED BY <1>1, <1>2, <1>3, Steps DEF BotStep

LEMMA InvInit == Init => KnownInv /\ StoppedInv
<1> SUFFICES ASSUME Init PROVE KnownInv /\ StoppedInv
    OBVIOUS
<1>1. /\ DOMAIN m_ccRttTable = {} /\ commands = {}
      /\ \A c \in Controller : DOMAIN m_send_events[c] = {} /\ m_schedule_bots_event[c] = {}
      /\ DOMAIN m_send_events = Controller /\ DOMAIN m_schedule_bots_event = Controller
      /\ ccState \in [Controller -> {"idle", "running", "stopped"}]
      BY DEF Init, NoBots
<1>2. \A b \in Bot : notified[b] = 0
      BY DEF Init, Bots!Init
<1> QED BY <1>1, <1>2 DEF KnownInv, StoppedInv

LEMMA KnownStep ==
    ASSUME KnownInv, BP!TypeOK, [Next]_vars
    PROVE  KnownInv'
<1>1. ASSUME NEW c \in Controller, ControllerStep(c), UNCHANGED botVars PROVE KnownInv'
  <2>1. /\ ccState' \in [Controller -> {"idle", "running", "stopped"}]
        /\ DOMAIN m_send_events' = Controller /\ DOMAIN m_schedule_bots_event' = Controller
        /\ DOMAIN m_ccRttTable' = DOMAIN m_ccRttTable
        BY <1>1, ControllerStepEffect
  <2>2. \A d \in Controller : DOMAIN m_send_events'[d] \subseteq DOMAIN m_ccRttTable
        BY <1>1, ControllerStepEffect DEF KnownInv
  <2>3. \A m \in commands' : m.to \in DOMAIN m_ccRttTable
        BY <1>1, ControllerStepEffect DEF KnownInv
  <2> QED BY <1>1, <2>1, <2>2, <2>3 DEF KnownInv, botVars
<1>2. ASSUME BotStep, UNCHANGED <<ccVars, rttVars>> PROVE KnownInv'
  <2>1. \A m \in commands' : m.to \in DOMAIN m_ccRttTable
        BY <1>2, BotStepEffect DEF KnownInv
  <2>2. \A b \in Bot : notified'[b] > 0 => b \in DOMAIN m_ccRttTable
        BY <1>2, BotStepEffect DEF KnownInv, BP!TypeOK
  <2> QED BY <1>2, <2>1, <2>2 DEF KnownInv, ccVars, rttVars
<1>3. ASSUME NEW b \in Bot, m_ccRttTable' = Put(m_ccRttTable, b, 2 * ccLatency[b]),
             UNCHANGED <<ccVars, botVars, commands>>
      PROVE  KnownInv'
  <2>1. DOMAIN m_ccRttTable' = DOMAIN m_ccRttTable \union {b}
        BY <1>3 DEF Put
  <2> QED BY <1>3, <2>1 DEF KnownInv, ccVars, botVars
<1>4. ASSUME UNCHANGED <<ccVars, m_ccRttTable, botVars, commands>> PROVE KnownInv'
      BY <1>4 DEF KnownInv, ccVars, botVars
<1> QED BY <1>1, <1>2, <1>3, <1>4, Steps

LEMMA StoppedStep ==
    ASSUME KnownInv, StoppedInv, [Next]_vars
    PROVE  StoppedInv'
<1>1. ASSUME NEW c \in Controller, ControllerStep(c) PROVE StoppedInv'
  <2> SUFFICES ASSUME NEW d \in Controller, ccState'[d] # "running"
               PROVE  m_schedule_bots_event'[d] = {} /\ DOMAIN m_send_events'[d] = {}
      BY DEF StoppedInv
  <2>1. CASE d # c
        BY <1>1, <2>1, ControllerStepEffect DEF StoppedInv
  <2>2. CASE d = c
        BY <1>1, <2>2, ControllerStepEffect DEF StoppedInv
  <2> QED BY <2>1, <2>2
<1>2. CASE UNCHANGED ccVars
      BY <1>2 DEF StoppedInv, ccVars
<1> QED BY <1>1, <1>2, Steps

-----------------------------------------------------------------------------
(* The composition implements the bots, so that their types are those of   *)
(* PulsingBot, which KnownInv rests on.                                    *)
LEMMA BotTypeStep ==
    ASSUME KnownInv, BP!TypeOK, [Next]_vars
    PROVE  BP!TypeOK'
BY BotAssumptions, ImplementsStep, SameSteps, BP!TypeStep

LEMMA BotTypes == Spec => [](KnownInv /\ BP!TypeOK)
<1>1. Init => KnownInv /\ BP!TypeOK
  <2>1. Init => BP!Init
        BY DEF Init, Bots!Init, BP!Init
  <2>2. BP!Init => BP!TypeOK
        BY BotAssumption DEF BP!Init, BP!TypeOK
  <2> QED BY <2>1, <2>2, InvInit
<1>2. KnownInv /\ BP!TypeOK /\ [Next]_vars => KnownInv' /\ BP!TypeOK'
      BY KnownStep, BotTypeStep
<1> QED BY <1>1, <1>2, PTL DEF Spec

(* The composition implements the bots. *)
THEOREM ImplementsBots == Spec => Bots!Spec
<1>1. Init => Bots!Init
      BY DEF Init
<1>2. KnownInv /\ [Next]_vars => [Bots!Next]_Bots!vars
      BY ImplementsStep
<1> QED BY <1>1, <1>2, BotTypes, PTL DEF Spec, Bots!Spec

LEMMA ImplementsProvedBots == Spec => BP!Spec
<1>1. Init => BP!Init
      BY DEF Init, Bots!Init, BP!Init
<1>2. KnownInv /\ [Next]_vars => [BP!Next]_BP!vars
      BY ImplementsStep, SameSteps
<1> QED BY <1>1, <1>2, BotTypes, PTL DEF Spec, BP!Spec

(* A stopped controller sends no further command. *)
THEOREM StopCancelsCommandsHolds == Spec => StopCancelsCommands
<1>1. KnownInv /\ StoppedInv /\ [Next]_vars =>
        [\A c \in Controller : ccState[c] = "stopped" =>
           \A m \in commands' \ commands : m.from # c]_vars
  <2> SUFFICES ASSUME KnownInv, StoppedInv, [Next]_vars, NEW c \in Controller,
                      ccState[c] = "stopped", NEW m \in commands' \ commands, m.from = c
               PROVE  FALSE
      OBVIOUS
  <2>1. ASSUME NEW d \in Controller, ControllerStep(d) PROVE FALSE
    <3>1. PICK b \in Bot : SendCommand(d, b) /\ b \in DOMAIN m_send_events[d]
                          /\ \E n : n.from = d /\ commands' = commands \union {n}
          BY <2>1, ControllerStepEffect
    <3>2. d = c
          BY <3>1
    <3> QED BY <3>1, <3>2 DEF StoppedInv
  <2>2. CASE BotStep
        BY <2>2, BotStepEffect
  <2>3. CASE UNCHANGED commands
        BY <2>3
  <2> QED BY <2>1, <2>2, <2>3, Steps
<1>2. KnownInv /\ StoppedInv /\ BP!TypeOK /\ [Next]_vars => KnownInv' /\ StoppedInv'
      BY KnownStep, StoppedStep
<1>3. Init => KnownInv /\ StoppedInv
      BY InvInit
<1> QED BY <1>1, <1>2, <1>3, BotTypes, PTL DEF Spec, StopCancelsCommands

-----------------------------------------------------------------------------
(* One controller commands a bot once.                                     *)

(* Nothing is commanded before ScheduleBots, which happens once; then the  *)
(* command of a bot is scheduled, or under way, or has been received.      *)
OnceInv(c) ==
    /\ ccState[c] = "idle" \/ m_schedule_bots_event[c] # {} =>
         DOMAIN m_send_events[c] = {} /\ commands = {} /\ \A b \in Bot : notified[b] = 0
    /\ \A b \in Bot : notified[b] <= 1
    /\ \A b \in DOMAIN m_send_events[c] : notified[b] = 0 /\ \A m \in commands : m.to # b
    /\ \A m \in commands : notified[m.to] = 0
    /\ \A m, n \in commands : m.to = n.to => m = n

LEMMA OnceStep ==
    ASSUME NEW c, Controller = {c}, KnownInv, StoppedInv, BP!TypeOK, OnceInv(c), [Next]_vars
    PROVE  OnceInv(c)'
<1>1. ASSUME ControllerStep(c), UNCHANGED botVars PROVE OnceInv(c)'
  <2>1. notified' = notified
        BY <1>1 DEF botVars
  <2>2. CASE StartController(c) /\ ccState[c] = "idle" /\ UNCHANGED <<m_send_events, commands>>
        BY <2>1, <2>2 DEF OnceInv
  <2>3. CASE /\ m_schedule_bots_event[c] # {} /\ m_schedule_bots_event'[c] = {}
             /\ DOMAIN m_send_events'[c] = DOMAIN m_ccRttTable
             /\ UNCHANGED <<ccState, commands>>
    <3>1. ccState'[c] = "running"
          BY <2>3 DEF StoppedInv
    <3> QED BY <2>1, <2>3, <3>1 DEF OnceInv, KnownInv
  <2>4. CASE /\ ccState'[c] = "stopped" /\ m_schedule_bots_event'[c] = {}
             /\ DOMAIN m_send_events'[c] = {} /\ UNCHANGED commands
        BY <2>1, <2>4 DEF OnceInv
  <2>5. ASSUME NEW b \in Bot, b \in DOMAIN m_send_events[c],
               DOMAIN m_send_events'[c] = DOMAIN m_send_events[c] \ {b},
               UNCHANGED <<ccState, m_schedule_bots_event>>,
               UNCHANGED commands \/ \E m : m.to = b /\ commands' = commands \union {m}
        PROVE  OnceInv(c)'
        BY <2>1, <2>5 DEF OnceInv
  <2> QED BY <1>1, <2>2, <2>3, <2>4, <2>5, ControllerStepEffect
<1>2. ASSUME BotStep, UNCHANGED ccVars PROVE OnceInv(c)'
  <2>1. CASE UNCHANGED <<notified, commands>>
        BY <1>2, <2>1 DEF OnceInv, ccVars
  <2>2. ASSUME NEW m \in commands, m.to \in Bot, commands' = commands \ {m},
               notified' = [notified EXCEPT ![m.to] = @ + 1]
        PROVE  OnceInv(c)'
    <3>1. /\ notified[m.to] = 0 /\ notified'[m.to] = 1
          /\ \A b \in Bot \ {m.to} : notified'[b] = notified[b]
          BY <2>2 DEF OnceInv, BP!TypeOK
    <3>2. \A n \in commands' : n.to # m.to /\ n.to \in Bot
          BY <2>2 DEF OnceInv, KnownInv
    <3>3. m.to \notin DOMAIN m_send_events[c] /\ DOMAIN m_send_events[c] \subseteq Bot
          BY <2>2 DEF OnceInv, KnownInv
    <3>4. ccState[c] # "idle" /\ m_schedule_bots_event[c] = {}
          BY <2>2 DEF OnceInv
    <3> QED BY <1>2, <2>2, <3>1, <3>2, <3>3, <3>4 DEF OnceInv, ccVars
  <2> QED BY <1>2, <2>1, <2>2, BotStepEffect
<1>3. CASE UNCHANGED <<ccVars, botVars, commands>>
      BY <1>3 DEF OnceInv, ccVars, botVars
<1> QED BY <1>1, <1>2, <1>3, Steps

(* Every packet that a socket has taken has its arrival. *)
ArrivalInv ==
    /\ DOMAIN arrivals = Bot
    /\ \A b \in Bot : Len(arrivals[b]) = accepted[b] /\ \E S : arrivals[b] \in Seq(S)

LEMMA AppendToAny ==
    ASSUME NEW S, NEW s \in Seq(S), NEW e
    PROVE  Len(Append(s, e)) = Len(s) + 1 /\ \E T : Append(s, e) \in Seq(T)
<1> DEFINE T == S \union {e}
<1>1. s \in Seq(T) /\ e \in T
      OBVIOUS
<1> HIDE DEF T
<1> QED BY <1>1

(* A round counts as one packet that the socket takes, or as none. *)
LEMMA AcceptedRound ==
    ASSUME BP!TypeOK, NEW b \in Bot, NEW left, NEW due, Bots!SentRound(b, left, due)
    PROVE  UNCHANGED accepted \/ accepted' = [accepted EXCEPT ![b] = @ + 1]
<1>1. accepted \in [Bot -> Nat]
      BY DEF BP!TypeOK
<1>2. accepted' = [accepted EXCEPT ![b] =
                     IF m_target_socket'[b] = "connected" THEN @ + 1 ELSE @]
      BY DEF Bots!SentRound
<1> QED BY <1>1, <1>2

LEMMA ArrivalStep ==
    ASSUME KnownInv, BP!TypeOK, ArrivalInv, [Next]_vars
    PROVE  ArrivalInv'
<1>1. ASSUME NEW b \in Bot, NEW due, NEW up, Attack(b, due, up),
             UNCHANGED accepted \/ accepted' = [accepted EXCEPT ![b] = @ + 1]
      PROVE  ArrivalInv'
  <2> DEFINE at == Larger(now, Max(up)) + targetLatency[b]
  <2>1. arrivals' = [arrivals EXCEPT ![b] = IF accepted'[b] > accepted[b] THEN Append(arrivals[b], at)
                                            ELSE arrivals[b]]
        BY <1>1 DEF Attack
  <2> HIDE DEF at
  <2>2. accepted \in [Bot -> Nat]
        BY DEF BP!TypeOK
  <2>3. CASE UNCHANGED accepted
    <3>1. DOMAIN arrivals' = Bot /\ \A d \in Bot : arrivals'[d] = arrivals[d]
          BY <2>1, <2>2, <2>3 DEF ArrivalInv
    <3> QED BY <2>3, <3>1 DEF ArrivalInv
  <2>4. CASE accepted' = [accepted EXCEPT ![b] = @ + 1]
    <3>1. accepted'[b] = accepted[b] + 1 /\ accepted'[b] > accepted[b]
          BY <2>2, <2>4
    <3>2. DOMAIN arrivals' = Bot /\ arrivals'[b] = Append(arrivals[b], at)
          BY <2>1, <3>1 DEF ArrivalInv
    <3>3. Len(arrivals'[b]) = accepted'[b] /\ \E S : arrivals'[b] \in Seq(S)
          BY <3>1, <3>2, AppendToAny DEF ArrivalInv
    <3>4. \A d \in Bot \ {b} : arrivals'[d] = arrivals[d] /\ accepted'[d] = accepted[d]
          BY <2>1, <2>2, <2>4 DEF ArrivalInv
    <3> QED BY <3>2, <3>3, <3>4 DEF ArrivalInv
  <2> QED BY <1>1, <2>3, <2>4
<1>2. ASSUME NEW m \in commands, DeliverCommand(m) PROVE ArrivalInv'
  <2>1. m.to \in Bot
        BY DEF KnownInv
  <2>2. UNCHANGED accepted \/ accepted' = [accepted EXCEPT ![m.to] = @ + 1]
        BY <1>2, <2>1, AcceptedRound DEF DeliverCommand, Bots!ReceivePacketCC, Bots!SendRound
  <2> QED BY <1>1, <1>2, <2>1, <2>2 DEF DeliverCommand
<1>3. ASSUME NEW b \in Bot, NextRound(b) PROVE ArrivalInv'
  <2>1. UNCHANGED accepted \/ accepted' = [accepted EXCEPT ![b] = @ + 1]
        BY <1>3, AcceptedRound DEF NextRound, Bots!SendPacketTarget, Bots!SendRound
  <2> QED BY <1>1, <1>3, <2>1 DEF NextRound
<1>4. CASE UNCHANGED <<accepted, arrivals>>
      BY <1>4 DEF ArrivalInv
<1>5. ASSUME NEW b \in Bot, StartBot(b) \/ StopBot(b) PROVE UNCHANGED <<accepted, arrivals>>
      BY <1>5 DEF StartBot, StopBot, Bots!StartApplication, Bots!StopApplication, attackVars
<1> QED BY <1>2, <1>3, <1>4, <1>5, Steps DEF BotStep, botVars, attackVars

(* With one controller a bot makes one attack, and only one whose ping was *)
(* answered.                                                               *)
THEOREM OneAttackPerBotHolds ==
    ASSUME NEW c, Controller = {c}
    PROVE  Spec => []OneAttackPerBot
<1>1. Init => OnceInv(c) /\ ArrivalInv /\ KnownInv /\ StoppedInv
  <2> SUFFICES ASSUME Init PROVE OnceInv(c) /\ ArrivalInv
      BY InvInit
  <2>1. DOMAIN m_send_events[c] = {} /\ commands = {} /\ arrivals = [b \in Bot |-> <<>>]
        BY DEF Init, NoBots
  <2>2. \A b \in Bot : notified[b] = 0 /\ accepted[b] = 0
        BY DEF Init, Bots!Init
  <2> QED BY <2>1, <2>2 DEF OnceInv, ArrivalInv
<1>2. KnownInv /\ StoppedInv /\ BP!TypeOK /\ OnceInv(c) /\ ArrivalInv /\ [Next]_vars
        => StoppedInv' /\ OnceInv(c)' /\ ArrivalInv'
      BY StoppedStep, OnceStep, ArrivalStep
<1>3. KnownInv /\ BP!TypeOK /\ OnceInv(c) /\ ArrivalInv /\ BP!OneCommandOneAttack => OneAttackPerBot
  <2> SUFFICES ASSUME KnownInv, BP!TypeOK, OnceInv(c), ArrivalInv, BP!OneCommandOneAttack,
                      NEW b \in Bot
               PROVE  (notified[b] > 0 => b \in DOMAIN m_ccRttTable) /\ Len(arrivals[b]) <= Rounds
      BY DEF OneAttackPerBot
  <2>1. m_rounds[b] + sent[b] = Rounds /\ accepted[b] = sent[b]
        BY DEF OnceInv, BP!OneCommandOneAttack
  <2>2. m_rounds[b] \in Nat /\ sent[b] \in Nat
        BY BotAssumption DEF BP!TypeOK
  <2>3. sent[b] <= Rounds
        BY <2>1, <2>2
  <2> QED BY <2>1, <2>3 DEF KnownInv, ArrivalInv
<1>4. BP!Spec => []BP!OneCommandOneAttack
      BY BotAssumptions, BP!OneCommandOneAttackHolds
<1> QED BY <1>1, <1>2, <1>3, <1>4, BotTypes, ImplementsProvedBots, PTL DEF Spec
=============================================================================
