------------------------------ MODULE Pulsing -------------------------------
(***************************************************************************)
(* The pulsing attack: controllers (botnet/model/pulsingattackcc.cc), the  *)
(* bots of PulsingBot, and the pings and connections between them.  Bots   *)
(* ping the controller and the target; the controller turns the measured   *)
(* round trips into one delay per bot and commands each bot so much later  *)
(* as it is closer, for the packets of all bots to reach the target as one *)
(* pulse.                                                                  *)
(*                                                                         *)
(* Time is discrete.  An event that is due runs before time advances, and  *)
(* events due at the same time run in any order.  A pending event is kept  *)
(* as the time it is due, in the variable of the EventId or as a message.  *)
(***************************************************************************)
EXTENDS Naturals, Sequences, FiniteSetsExt

CONSTANTS
    Bot, Rounds, RoundLimit, MaxNotifications, MaxSent,
    Controller,     \* the PulsingAttackCC applications
    Latency,        \* the one-way latencies a path can have
    BotStart,       \* BotStart[b]: StartTime of bot b
    PingUntil,      \* no ping is answered later than this
    ScheduleWait,   \* the 100 s from a controller's start to ScheduleBots
    AttackTime,     \* m_attack_time
    AttackInterval, \* m_attack_interval of every bot
    BotPort,        \* ReceivePort of the bots
    Stoppable       \* the applications with a StopTime

ASSUME BotAssumption ==
    /\ RoundLimit \in Nat /\ Rounds \in 0 .. RoundLimit - 1
    /\ {MaxNotifications, MaxSent} \subseteq Nat
ASSUME TimeAssumption ==
    /\ Latency \subseteq Nat /\ BotStart \in [Bot -> Nat]
    /\ {PingUntil, ScheduleWait, AttackTime, AttackInterval} \subseteq Nat

VARIABLES
    appState, m_rounds, pending, m_target_socket, sent, accepted, notified, sim,
    now,                   \* Simulator::Now()
    ccLatency,             \* latency between controller and bot; constant
    targetLatency,         \* latency between bot and target; constant
    m_ccRttTable,          \* per bot measured: static, one for all controllers
    m_targetRttTable,      \* likewise
    ccState,               \* each controller: idle, running or stopped
    m_maxDelay,            \* per controller
    m_schedule_bots_event, \* per controller: {} or {the time it is due}
    m_send_events,         \* per controller: bot -> time of its SendCommand
    m_socketMap,           \* per controller: bot -> time it is connected
    commands,              \* commands on their way: [from, to, at]
    roundDue,              \* per bot: when its pending rounds are due
    targetUp,              \* per bot: {} or {time its target is connected}
    arrivals               \* history: per bot, when its rounds hit the target

botVars ==
    <<appState, m_rounds, pending, m_target_socket, sent, accepted, notified, sim>>
rttVars == <<m_ccRttTable, m_targetRttTable>>
ccVars == <<ccState, m_maxDelay, m_schedule_bots_event, m_send_events, m_socketMap>>
attackVars == <<roundDue, targetUp, arrivals>>
latencies == <<ccLatency, targetLatency>>
vars == <<botVars, rttVars, ccVars, attackVars, latencies, commands, now>>

Bots == INSTANCE PulsingBot

CommandPort == 8000   \* ScheduleBots never reads m_remote_port

NoBots == [b \in {} |-> 0]

Init ==
    /\ Bots!Init
    /\ now = 0
    /\ ccLatency \in [Bot -> Latency]
    /\ targetLatency \in [Bot -> Latency]
    /\ m_ccRttTable = NoBots
    /\ m_targetRttTable = NoBots
    /\ ccState = [c \in Controller |-> "idle"]
    /\ m_maxDelay = [c \in Controller |-> 0]
    /\ m_schedule_bots_event = [c \in Controller |-> {}]
    /\ m_send_events = [c \in Controller |-> NoBots]
    /\ m_socketMap = [c \in Controller |-> NoBots]
    /\ commands = {}
    /\ roundDue = [b \in Bot |-> <<>>]
    /\ targetUp = [b \in Bot |-> {}]
    /\ arrivals = [b \in Bot |-> <<>>]

Larger(m, n) == IF m > n THEN m ELSE n

(* The operators called ...Mistake are plausible errors in the definition  *)
(* they precede; each makes TLC refute a property that should catch it.    *)

-----------------------------------------------------------------------------
(* The controllers. *)

StartController(c) ==
    /\ sim = "running"
    /\ ccState[c] = "idle"
    /\ ccState' = [ccState EXCEPT ![c] = "running"]
    /\ m_schedule_bots_event' =
         [m_schedule_bots_event EXCEPT ![c] = {now + ScheduleWait}]
    /\ UNCHANGED <<m_maxDelay, m_send_events, m_socketMap, rttVars, botVars,
                   attackVars, latencies, commands, now>>

Tracing == sim = "running" /\ \E c \in Controller : ccState[c] # "idle"

Put(table, b, rtt) ==
    [d \in DOMAIN table \union {b} |-> IF d = b THEN rtt ELSE table[d]]

(* A ping of the controller is answered.  Every controller has connected   *)
(* its callback, also a stopped one, and all write the same static table.  *)
CCRttTraceCallback(b) ==
    /\ Tracing
    /\ now <= PingUntil
    /\ m_ccRttTable' = Put(m_ccRttTable, b, 2 * ccLatency[b])
    /\ UNCHANGED <<m_targetRttTable, ccVars, botVars, attackVars, latencies,
                   commands, now>>

TargetRttTraceCallback(b) ==
    /\ Tracing
    /\ now <= PingUntil
    /\ m_targetRttTable' = Put(m_targetRttTable, b, 2 * targetLatency[b])
    /\ UNCHANGED <<m_ccRttTable, ccVars, botVars, attackVars, latencies,
                   commands, now>>

(* operator[] inserts a zero for a bot whose target ping is missing. *)
TargetRtt(b) == IF b \in DOMAIN m_targetRttTable THEN m_targetRttTable[b] ELSE 0

(* Adds the two round trips without halving them. *)
DelaysMistake ==
    [b \in DOMAIN m_ccRttTable |-> m_ccRttTable[b] + TargetRtt(b)]

(* The table of round trips becomes, in place, the table of delays. *)
Delays ==
    [b \in DOMAIN m_ccRttTable |-> (m_ccRttTable[b] + TargetRtt(b)) \div 2]

MaxDelayMistake(c) == m_maxDelay[c]   \* reads it before it is updated

MaxDelay(c) == Max({m_maxDelay[c]} \union {Delays[b] : b \in DOMAIN Delays})

(* The delay that SendCommand is scheduled with. *)
CommandTime(c, b) == AttackTime + MaxDelay(c) - Delays[b]

(* A bot accepts the connection when it listens by the time the SYN comes. *)
Accepts(b) ==
    /\ BotPort = CommandPort
    /\ appState[b] = "running" \/ BotStart[b] \in now .. now + ccLatency[b]

ScheduleBots(c) ==
    /\ sim = "running"
    /\ now \in m_schedule_bots_event[c]
    /\ m_schedule_bots_event' = [m_schedule_bots_event EXCEPT ![c] = {}]
    /\ m_ccRttTable' = Delays
    /\ m_targetRttTable' =
         [b \in DOMAIN m_targetRttTable \union DOMAIN m_ccRttTable |-> TargetRtt(b)]
    /\ m_maxDelay' = [m_maxDelay EXCEPT ![c] = MaxDelay(c)]
    /\ m_send_events' = [m_send_events EXCEPT ![c] =
         [b \in DOMAIN m_ccRttTable |-> now + CommandTime(c, b)]]
    /\ m_socketMap' = [m_socketMap EXCEPT ![c] =
         [b \in {d \in DOMAIN m_ccRttTable : Accepts(d)} |-> now + 2 * ccLatency[b]]]
    /\ UNCHANGED <<ccState, botVars, attackVars, latencies, commands, now>>

(* Data for a socket still connecting waits for it; a refused one drops it.*)
SendCommand(c, b) ==
    /\ sim = "running"
    /\ b \in DOMAIN m_send_events[c] /\ m_send_events[c][b] = now
    /\ m_send_events' = [m_send_events EXCEPT ![c] =
         [d \in DOMAIN @ \ {b} |-> @[d]]]
    /\ commands' =
         IF b \in DOMAIN m_socketMap[c]
         THEN commands \union {[from |-> c, to |-> b,
                at |-> Larger(now, m_socketMap[c][b]) + ccLatency[b]]}
         ELSE commands
    /\ UNCHANGED <<ccState, m_maxDelay, m_schedule_bots_event, m_socketMap,
                   rttVars, botVars, attackVars, latencies, now>>

(* Cancels the scheduling of the bots only. *)
CancelEventMistake(c) ==
    /\ m_schedule_bots_event' = [m_schedule_bots_event EXCEPT ![c] = {}]
    /\ UNCHANGED m_send_events

CancelEvent(c) ==
    /\ m_schedule_bots_event' = [m_schedule_bots_event EXCEPT ![c] = {}]
    /\ m_send_events' = [m_send_events EXCEPT ![c] = NoBots]

(* Data already given to the sockets is sent before they close.  A stop    *)
(* before the start finds nothing to cancel or close and changes nothing.  *)
StopController(c) ==
    /\ sim = "running"
    /\ c \in Stoppable
    /\ ccState[c] = "running"
    /\ ccState' = [ccState EXCEPT ![c] = "stopped"]
    /\ CancelEvent(c)
    /\ UNCHANGED <<m_maxDelay, m_socketMap, rttVars, botVars, attackVars,
                   latencies, commands, now>>

-----------------------------------------------------------------------------
(* The bots. *)

StartBot(b) ==
    /\ now = BotStart[b]
    /\ Bots!StartApplication(b)
    /\ UNCHANGED <<ccVars, rttVars, attackVars, latencies, commands, now>>

(* Schedules a round after the last one as well. *)
NextDueMistake(b, due) == Append(due, now + AttackInterval)

(* Never schedules the next round. *)
NextDueNeverMistake(b, due) == due

(* The rounds b has scheduled, when it has scheduled those of due before.  *)
NextDue(b, due) ==
    IF pending'[b] > Len(due) THEN Append(due, now + AttackInterval) ELSE due

(* A round that the socket of b takes now reaches the target once b is     *)
(* connected to it, and the next one is due an interval later.             *)
Attack(b, due, up) ==
    /\ targetUp' = [targetUp EXCEPT ![b] = up]
    /\ roundDue' = [roundDue EXCEPT ![b] = NextDue(b, due)]
    /\ arrivals' = [arrivals EXCEPT ![b] =
         IF accepted'[b] > accepted[b]
         THEN Append(@, Larger(now, Max(up)) + targetLatency[b]) ELSE @]
    /\ UNCHANGED <<ccVars, rttVars, latencies, now>>

(* The target is connected a round trip after a handshake that starts now. *)
UpAfterConnect(b) ==
    IF m_rounds[b] > 0 /\ (targetUp[b] = {} \/ m_target_socket[b] = "closed")
    THEN {now + 2 * targetLatency[b]} ELSE targetUp[b]

(* Connecting a connected socket resets it unless it is in its handshake.  *)
ResetOnlyOnceUp(b) ==
    m_rounds[b] > 0 /\ m_target_socket[b] = "connected" =>
      IF m_target_socket'[b] = "closed" THEN now >= Max(targetUp[b])
      ELSE now <= Max(targetUp[b])

(* A command arrives, and makes the bot connect to its target. *)
DeliverCommand(m) ==
    /\ m.at = now
    /\ Bots!ReceivePacketCC(m.to)
    /\ ResetOnlyOnceUp(m.to)
    /\ commands' = commands \ {m}
    /\ Attack(m.to, roundDue[m.to], UpAfterConnect(m.to))

NextRound(b) ==
    /\ roundDue[b] # <<>> /\ Head(roundDue[b]) = now
    /\ Bots!SendPacketTarget(b)
    /\ Attack(b, Tail(roundDue[b]), targetUp[b])
    /\ UNCHANGED commands

StopBot(b) ==
    /\ b \in Stoppable
    /\ Bots!StopApplication(b)
    /\ UNCHANGED <<ccVars, rttVars, attackVars, latencies, commands, now>>

-----------------------------------------------------------------------------
(* The times something is scheduled for. *)
Due ==
    (UNION {m_schedule_bots_event[c] : c \in Controller})
    \union (UNION {{m_send_events[c][b] : b \in DOMAIN m_send_events[c]} : c \in Controller})
    \union {m.at : m \in commands}
    \union {Head(roundDue[b]) : b \in {d \in Bot : roundDue[d] # <<>>}}
    \union {BotStart[b] : b \in {d \in Bot : appState[d] = "idle"}}

(* The simulator moves on to the next event; the controllers start first.  *)
AdvanceTime ==
    /\ sim = "running"
    /\ \A c \in Controller : ccState[c] # "idle"
    /\ Due # {}
    /\ Min(Due) > now
    /\ now' = Min(Due)
    /\ UNCHANGED <<botVars, rttVars, ccVars, attackVars, latencies, commands>>

Next ==
    \/ AdvanceTime
    \/ \E c \in Controller :
         \/ StartController(c) \/ ScheduleBots(c) \/ StopController(c)
         \/ \E b \in Bot : SendCommand(c, b)
    \/ \E b \in Bot :
         \/ CCRttTraceCallback(b) \/ TargetRttTraceCallback(b)
         \/ StartBot(b) \/ NextRound(b) \/ StopBot(b)
    \/ \E m \in commands : DeliverCommand(m)

Spec == Init /\ [][Next]_vars

(* Simulator::Run goes on to the next event as long as there is one.       *)
(* Pings may go unanswered and StopTime may lie beyond the run.            *)
FairSpec ==
    /\ Spec
    /\ WF_vars(AdvanceTime)
    /\ \A c \in Controller :
         /\ WF_vars(StartController(c)) /\ WF_vars(ScheduleBots(c))
         /\ \A b \in Bot : WF_vars(SendCommand(c, b))
    /\ \A b \in Bot : WF_vars(StartBot(b)) /\ WF_vars(NextRound(b))
    /\ WF_vars(\E m \in commands : DeliverCommand(m))

-----------------------------------------------------------------------------
TypeOK ==
    /\ Bots!TypeOK
    /\ now \in Nat
    /\ DOMAIN m_ccRttTable \subseteq Bot /\ DOMAIN m_targetRttTable \subseteq Bot
    /\ ccState \in [Controller -> {"idle", "running", "stopped"}]
    /\ m_maxDelay \in [Controller -> Nat]
    /\ \A c \in Controller : /\ DOMAIN m_send_events[c] \subseteq DOMAIN m_ccRttTable
                             /\ DOMAIN m_socketMap[c] \subseteq DOMAIN m_ccRttTable
    /\ commands \subseteq [from : Controller, to : Bot, at : Nat]
    /\ \A b \in Bot : Len(roundDue[b]) = pending[b] \/ sim = "crashed"

(* No event is ever scheduled in the past: the subtraction that gives a    *)
(* SendCommand delay stays positive, and no bot is commanded before        *)
(* AttackTime has passed since the controller connected to it.             *)
NothingInThePast ==
    /\ \A t \in Due : t >= now
    /\ \A c \in Controller : \A b \in DOMAIN m_send_events[c] :
         m_send_events[c][b] >= ScheduleWait + AttackTime

(* The bots both of whose round trips were known to ScheduleBots. *)
Measured ==
    {b \in DOMAIN m_ccRttTable \intersect DOMAIN m_targetRttTable :
       m_targetRttTable[b] = 2 * targetLatency[b]}

(* Pings end before ScheduleBots, and no handshake, two latencies, takes   *)
(* longer than AttackTime or AttackInterval.                               *)
Timely ==
    /\ PingUntil < ScheduleWait
    /\ \A l \in Latency : 2 * l <= AttackTime /\ 2 * l <= AttackInterval

(* The point of the schedule: the rounds of measured bots hit the target   *)
(* at the same time, whatever their latencies and whichever pings of other *)
(* bots were lost.  The first round is late by the bot's own handshake.    *)
PulsesAligned ==
    \A b, d \in Measured : \A k \in DOMAIN arrivals[b] \intersect DOMAIN arrivals[d] :
      IF k = 1
      THEN arrivals[b][1] + 2 * targetLatency[d] = arrivals[d][1] + 2 * targetLatency[b]
      ELSE arrivals[b][k] = arrivals[d][k]

(* A bot is commanded only if its ping of the controller was answered, and *)
(* one controller makes it attack once: no more than Rounds packets.       *)
OneAttackPerBot ==
    \A b \in Bot : /\ notified[b] > 0 => b \in DOMAIN m_ccRttTable
                   /\ Len(arrivals[b]) <= Rounds

(* A stopped controller sends no further command, also when its events and *)
(* StopApplication are due at the same time.                               *)
StopCancelsCommands ==
    [][\A c \in Controller : ccState[c] = "stopped" =>
         \A m \in commands' \ commands : m.from # c]_vars

(* A bot that has accepted a controller's connection makes its attack,     *)
(* unless the controller is stopped or the simulation ends.                *)
ScheduledBotsAttack ==
    \A c \in Controller, b \in Bot :
      b \in DOMAIN m_socketMap[c]
        ~> (Len(arrivals[b]) >= Rounds \/ ccState[c] = "stopped" \/ sim = "crashed")
=============================================================================
