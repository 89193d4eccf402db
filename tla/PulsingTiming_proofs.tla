------------------------ MODULE PulsingTiming_proofs -------------------------
(***************************************************************************)
(* Proofs about the times in Pulsing: nothing is scheduled in the past,    *)
(* and the pulses of measured bots hit the target together.                *)
(***************************************************************************)
EXTENDS Pulsing_proofs, FiniteSetTheorems

-----------------------------------------------------------------------------
(* Minima and maxima.                                                      *)

(* A finite set of numbers has a largest. *)
LEMMA MaxNat ==
    ASSUME NEW S \in SUBSET Nat, S # {}, IsFiniteSet(S)
    PROVE  Max(S) \in S /\ \A y \in S : Max(S) >= y
<1> DEFINE HasMax(X) == \E x \in X : \A y \in X : x >= y
           Without == {X \in SUBSET S : X # {} /\ ~HasMax(X)}
<1>1. ASSUME ~HasMax(S) PROVE FALSE
  <2>1. Without \subseteq FiniteSubsetsOf(S) /\ S \in Without
        BY <1>1, FS_Subset DEF FiniteSubsetsOf
  <2>2. PICK X \in Without : \A Y \in Without : <<Y, X>> \notin StrictSubsetOrdering(S)
    <3> HIDE DEF Without
    <3> QED BY <2>1, FS_StrictSubsetOrderingWellFounded, WFMin
  <2>3. PICK x \in X : TRUE
        OBVIOUS
  <2>4. X \ {x} \notin Without
        BY <2>2, <2>3 DEF StrictSubsetOrdering
  <2>5. CASE X \ {x} = {}
        BY <2>3, <2>5
  <2>6. CASE HasMax(X \ {x})
    <3>1. PICK m \in X \ {x} : \A y \in X \ {x} : m >= y
          BY <2>6
    <3>2. m \in Nat /\ x \in Nat /\ X \subseteq Nat
          OBVIOUS
    <3>3. CASE m >= x
          BY <3>1, <3>2, <3>3
    <3>4. CASE ~(m >= x)
      <4>1. \A y \in X : x >= y
            BY <3>1, <3>2, <3>4
      <4> QED BY <2>3, <4>1
    <3> QED BY <3>3, <3>4
  <2> QED BY <2>4, <2>5, <2>6
<1> QED BY <1>1 DEF Max

(* A set of numbers has a least element: its largest lower bound. *)
LEMMA MinNat ==
    ASSUME NEW S \in SUBSET Nat, S # {}
    PROVE  Min(S) \in S /\ \A y \in S : Min(S) <= y
<1> DEFINE L == {l \in Nat : \A y \in S : l <= y}
<1>1. PICK n \in S : TRUE
      OBVIOUS
<1>2. L \subseteq 0 .. n /\ 0 \in L
      BY <1>1
<1>3. IsFiniteSet(L)
  <2>1. IsFiniteSet(0 .. n)
        BY <1>1, FS_Interval
  <2> HIDE DEF L
  <2> QED BY <1>2, <2>1, FS_Subset
<1>4. PICK m \in L : \A l \in L : m >= l
  <2>1. L \in SUBSET Nat /\ L # {}
        BY <1>2
  <2> HIDE DEF L
  <2> QED BY <1>3, <2>1, MaxNat
<1>5. m \in S
  <2>1. m + 1 \notin L
        BY <1>4
  <2>2. PICK y \in S : ~(m + 1 <= y)
        BY <2>1
  <2> QED BY <2>2
<1> QED BY <1>5 DEF Min

-----------------------------------------------------------------------------
(* The clock and what is scheduled on it.                                  *)

LatencyInv == ccLatency \in [Bot -> Latency] /\ targetLatency \in [Bot -> Latency]

(* The tables hold round trips, or delays, of finitely many bots. *)
TableInv ==
    /\ m_ccRttTable \in [DOMAIN m_ccRttTable -> Nat]
    /\ m_targetRttTable \in [DOMAIN m_targetRttTable -> Nat]
    /\ DOMAIN m_targetRttTable \subseteq Bot
    /\ IsFiniteSet(DOMAIN m_ccRttTable)

(* Time does not pass before all controllers have started. *)
ClockInv == now \in Nat /\ \A c \in Controller : ccState[c] = "idle" => now = 0

(* ScheduleBots is due at ScheduleWait.  Its commands are due later by     *)
(* AttackTime at least, and no event is due in the past.                   *)
ScheduleInv ==
    /\ m_maxDelay \in [Controller -> Nat]
    /\ DOMAIN m_socketMap = Controller
    /\ \A c \in Controller :
         /\ m_schedule_bots_event[c] \subseteq {ScheduleWait}
         /\ m_schedule_bots_event[c] # {} => now <= ScheduleWait
         /\ m_send_events[c] \in [DOMAIN m_send_events[c] -> Nat]
         /\ \A b \in DOMAIN m_send_events[c] :
              m_send_events[c][b] >= now /\ m_send_events[c][b] >= ScheduleWait + AttackTime
         /\ DOMAIN m_socketMap[c] \subseteq DOMAIN m_ccRttTable
         /\ m_socketMap[c] \in [DOMAIN m_socketMap[c] -> Nat]

CommandInv ==
    /\ commands \subseteq [from : Controller, to : Bot, at : Nat]
    /\ \A m \in commands : m.at >= now

(* Rounds are due in the order they were scheduled in, an interval ahead   *)
(* at most.                                                                *)
InOrder(due) ==
    /\ due \in Seq(Nat)
    /\ \A i \in DOMAIN due : now <= due[i] /\ due[i] <= now + AttackInterval
    /\ \A i, j \in DOMAIN due : i <= j => due[i] <= due[j]

RoundInv ==
    /\ DOMAIN roundDue = Bot
    /\ \A b \in Bot : InOrder(roundDue[b]) /\ (sim = "running" => Len(roundDue[b]) = pending[b])

BotStartInv == \A b \in Bot : appState[b] = "idle" => BotStart[b] >= now

TimeInv ==
    /\ LatencyInv /\ TableInv /\ ClockInv /\ ScheduleInv
    /\ CommandInv /\ RoundInv /\ BotStartInv

(* The initial state has all of it. *)
LEMMA TimeInit == Init => TimeInv
<1> SUFFICES ASSUME Init PROVE TimeInv
    OBVIOUS
<1>1. LatencyInv /\ ClockInv
      BY DEF Init, LatencyInv, ClockInv
<1>2. TableInv
      BY FS_EmptySet DEF Init, NoBots, TableInv
<1>3. ScheduleInv /\ CommandInv
      BY DEF Init, NoBots, ScheduleInv, CommandInv
<1>4. RoundInv
      BY DEF Init, Bots!Init, RoundInv, InOrder
<1>5. BotStartInv
      BY TimeAssumption DEF Init, BotStartInv
<1> QED BY <1>1, <1>2, <1>3, <1>4, <1>5 DEF TimeInv

(* All that is due is due at a time, and none of it in the past. *)
LEMMA DueLater ==
    ASSUME TimeInv
    PROVE  Due \subseteq Nat /\ \A t \in Due : t >= now
<1>1. ASSUME NEW c \in Controller, NEW t \in m_schedule_bots_event[c] PROVE t \in Nat /\ t >= now
      BY TimeAssumption, <1>1 DEF TimeInv, ScheduleInv, ClockInv
<1>2. ASSUME NEW c \in Controller, NEW b \in DOMAIN m_send_events[c]
      PROVE  m_send_events[c][b] \in Nat /\ m_send_events[c][b] >= now
      BY <1>2 DEF TimeInv, ScheduleInv
<1>3. ASSUME NEW m \in commands PROVE m.at \in Nat /\ m.at >= now
      BY <1>3 DEF TimeInv, CommandInv
<1>4. ASSUME NEW b \in Bot, roundDue[b] # <<>>
      PROVE  Head(roundDue[b]) \in Nat /\ Head(roundDue[b]) >= now
  <2>1. roundDue[b] \in Seq(Nat)
        BY DEF TimeInv, RoundInv, InOrder
  <2>2. 1 \in DOMAIN roundDue[b] /\ Head(roundDue[b]) = roundDue[b][1]
        BY <1>4, <2>1
  <2>3. now <= roundDue[b][1] /\ now \in Nat /\ roundDue[b][1] \in Nat
        BY <2>1, <2>2 DEF TimeInv, RoundInv, InOrder, ClockInv
  <2> QED BY <2>2, <2>3
<1>5. ASSUME NEW b \in Bot, appState[b] = "idle" PROVE BotStart[b] \in Nat /\ BotStart[b] >= now
      BY <1>5, TimeAssumption DEF TimeInv, BotStartInv
<1> QED BY <1>1, <1>2, <1>3, <1>4, <1>5 DEF Due

(* Time moves on to the next thing that is due. *)
LEMMA AdvanceEffect ==
    ASSUME TimeInv, AdvanceTime
    PROVE  /\ now' \in Nat /\ now' > now /\ \A t \in Due : now' <= t
           /\ \A c \in Controller : ccState[c] # "idle"
<1>1. Due \subseteq Nat /\ Due # {} /\ now' = Min(Due) /\ now' > now
      BY DueLater DEF AdvanceTime
<1>2. \A c \in Controller : ccState[c] # "idle"
      BY DEF AdvanceTime
<1> HIDE DEF AdvanceTime, TimeInv
<1> QED BY <1>1, <1>2, MinNat

(* So what is due is still not in the past, and nothing else has changed.  *)
LEMMA AdvanceStep == TimeInv /\ AdvanceTime => TimeInv'
<1> SUFFICES ASSUME TimeInv, AdvanceTime PROVE TimeInv'
    OBVIOUS
<1>1. now' \in Nat /\ now \in Nat /\ now' > now /\ \A t \in Due : now' <= t
      BY AdvanceEffect DEF TimeInv, ClockInv
<1>2. UNCHANGED <<botVars, rttVars, ccVars, attackVars, latencies, commands>>
      BY DEF AdvanceTime
<1>3. LatencyInv' /\ TableInv'
      BY <1>2 DEF TimeInv, LatencyInv, TableInv, latencies, rttVars
<1>4. ClockInv'
      BY <1>1, <1>2, AdvanceEffect DEF ClockInv, ccVars
<1>5. ScheduleInv'
  <2>1. ASSUME NEW c \in Controller, m_schedule_bots_event[c] # {} PROVE now' <= ScheduleWait
    <3>1. ScheduleWait \in Due
          BY <2>1 DEF TimeInv, ScheduleInv, Due
    <3> QED BY <1>1, <3>1
  <2>2. ASSUME NEW c \in Controller, NEW b \in DOMAIN m_send_events[c]
        PROVE  m_send_events[c][b] >= now'
    <3>1. m_send_events[c][b] \in Due /\ m_send_events[c][b] \in Nat
          BY <2>2 DEF TimeInv, ScheduleInv, Due
    <3> QED BY <1>1, <3>1
  <2> QED BY <1>2, <2>1, <2>2 DEF TimeInv, ScheduleInv, ccVars, rttVars
<1>6. CommandInv'
  <2>1. ASSUME NEW m \in commands PROVE m.at >= now'
    <3>1. m.at \in Due /\ m.at \in Nat
          BY <2>1 DEF TimeInv, CommandInv, Due
    <3> QED BY <1>1, <3>1
  <2> QED BY <1>2, <2>1 DEF TimeInv, CommandInv
<1>7. RoundInv'
  <2>1. ASSUME NEW b \in Bot, NEW i \in DOMAIN roundDue[b]
        PROVE  now' <= roundDue[b][i] /\ roundDue[b][i] <= now' + AttackInterval
    <3>1. roundDue[b] \in Seq(Nat) /\ roundDue[b] # <<>>
          BY <2>1 DEF TimeInv, RoundInv, InOrder
    <3>2. i \in Nat /\ 1 <= i /\ 1 \in DOMAIN roundDue[b] /\ Head(roundDue[b]) = roundDue[b][1]
          BY <2>1, <3>1
    <3>3. Head(roundDue[b]) \in Due
          BY <3>1 DEF Due
    <3>4. roundDue[b][1] <= roundDue[b][i] /\ roundDue[b][i] <= now + AttackInterval
          BY <2>1, <3>2 DEF TimeInv, RoundInv, InOrder
    <3>5. roundDue[b][1] \in Nat /\ roundDue[b][i] \in Nat
          BY <2>1, <3>1, <3>2
    <3> QED BY <1>1, <3>2, <3>3, <3>4, <3>5, TimeAssumption
  <2> QED BY <1>2, <2>1 DEF TimeInv, RoundInv, InOrder, botVars, attackVars
<1>8. BotStartInv'
  <2>1. ASSUME NEW b \in Bot, appState[b] = "idle" PROVE BotStart[b] >= now'
    <3>1. BotStart[b] \in Due /\ BotStart[b] \in Nat
          BY <2>1, TimeAssumption DEF Due
    <3> QED BY <1>1, <3>1
  <2> QED BY <1>2, <2>1 DEF BotStartInv, botVars
<1> QED BY <1>3, <1>4, <1>5, <1>6, <1>7, <1>8 DEF TimeInv

-----------------------------------------------------------------------------
(* The delays.                                                             *)

(* A bot without a target round trip counts as one of zero. *)
LEMMA TargetRttType ==
    ASSUME TableInv, NEW b
    PROVE  TargetRtt(b) \in Nat
BY DEF TableInv, TargetRtt

LEMMA DelaysType ==
    ASSUME TableInv
    PROVE  Delays \in [DOMAIN m_ccRttTable -> Nat]
<1>1. \A b \in DOMAIN m_ccRttTable : m_ccRttTable[b] \in Nat /\ TargetRtt(b) \in Nat
      BY TargetRttType DEF TableInv
<1>2. \A m, n \in Nat : (m + n) \div 2 \in Nat
      OBVIOUS
<1> QED BY <1>1, <1>2 DEF Delays

(* No bot has a longer delay than the one all others wait for. *)
LEMMA MaxDelayBounds ==
    ASSUME TableInv, NEW c \in Controller, m_maxDelay \in [Controller -> Nat]
    PROVE  /\ MaxDelay(c) \in Nat
           /\ \A b \in DOMAIN m_ccRttTable : Delays[b] <= MaxDelay(c)
<1> DEFINE S == {Delays[b] : b \in DOMAIN Delays}
           All == {m_maxDelay[c]} \union S
<1>1. DOMAIN Delays = DOMAIN m_ccRttTable /\ S \subseteq Nat
      BY DelaysType
<1>2. IsFiniteSet(S)
  <2>1. Delays \in Surjection(DOMAIN Delays, S)
        BY DelaysType DEF Surjection
  <2>2. IsFiniteSet(DOMAIN Delays)
        BY <1>1 DEF TableInv
  <2> HIDE DEF S
  <2> QED BY <2>1, <2>2, FS_Surjection
<1>3. All \in SUBSET Nat /\ All # {} /\ IsFiniteSet(All)
  <2>1. All = S \union {m_maxDelay[c]} /\ m_maxDelay[c] \in Nat
        OBVIOUS
  <2> HIDE DEF S, All
  <2> QED BY <1>1, <1>2, <2>1, FS_AddElement
<1>4. MaxDelay(c) = Max(All)
      BY DEF MaxDelay
<1>5. \A b \in DOMAIN m_ccRttTable : Delays[b] \in All
      BY <1>1
<1> HIDE DEF All
<1>6. Max(All) \in Nat /\ \A y \in All : Max(All) >= y /\ y \in Nat
      BY <1>3, MaxNat
<1> QED BY <1>4, <1>5, <1>6

-----------------------------------------------------------------------------
(* The steps keep the clock and the schedule in order.                     *)

Ping(b) == CCRttTraceCallback(b) \/ TargetRttTraceCallback(b)

(* The steps by who takes them. *)
LEMMA StepCases ==
    [Next]_vars => \/ AdvanceTime
                   \/ \E c \in Controller : ControllerStep(c)
                   \/ BotStep
                   \/ \E b \in Bot : Ping(b)
                   \/ UNCHANGED vars
BY DEF Next, ControllerStep, BotStep, Ping

(* What they leave alone. *)
LEMMA ControllerFrame ==
    ASSUME NEW c, ControllerStep(c)
    PROVE  UNCHANGED <<botVars, attackVars, latencies, now>>
BY DEF ControllerStep, StartController, ScheduleBots, StopController, SendCommand

LEMMA BotFrame == BotStep => UNCHANGED <<ccVars, rttVars, latencies, now>>
BY DEF BotStep, StartBot, NextRound, StopBot, DeliverCommand, Attack

LEMMA PingFrame ==
    ASSUME NEW b, Ping(b)
    PROVE  UNCHANGED <<ccVars, botVars, attackVars, latencies, commands, now>>
BY DEF Ping, CCRttTraceCallback, TargetRttTraceCallback

(* Latencies are given. *)
LEMMA LatencyStep == LatencyInv /\ [Next]_vars => LatencyInv'
<1> SUFFICES ASSUME [Next]_vars PROVE UNCHANGED latencies
    BY DEF LatencyInv, latencies
<1>1. AdvanceTime \/ UNCHANGED vars => UNCHANGED latencies
      BY DEF AdvanceTime, vars
<1> QED BY <1>1, StepCases, ControllerFrame, BotFrame, PingFrame

(* A round trip is put into a table of numbers. *)
LEMMA PutType ==
    ASSUME NEW table, table \in [DOMAIN table -> Nat], NEW b, NEW rtt \in Nat
    PROVE  /\ DOMAIN Put(table, b, rtt) = DOMAIN table \union {b}
           /\ Put(table, b, rtt) \in [DOMAIN Put(table, b, rtt) -> Nat]
           /\ Put(table, b, rtt)[b] = rtt
           /\ \A d \in DOMAIN table : d # b => Put(table, b, rtt)[d] = table[d]
BY DEF Put

(* Twice a latency is a number. *)
LEMMA RttType ==
    ASSUME LatencyInv, NEW b \in Bot
    PROVE  /\ ccLatency[b] \in Nat /\ targetLatency[b] \in Nat
           /\ 2 * ccLatency[b] \in Nat /\ 2 * targetLatency[b] \in Nat
<1>1. ccLatency[b] \in Nat /\ targetLatency[b] \in Nat
      BY TimeAssumption DEF LatencyInv
<1> QED BY <1>1

(* The tables are written by the pings and by ScheduleBots. *)
LEMMA TableStep ==
    ASSUME KnownInv, LatencyInv, TableInv, [Next]_vars
    PROVE  TableInv'
<1>1. CASE UNCHANGED rttVars
      BY <1>1 DEF TableInv, rttVars
<1>2. ASSUME NEW b \in Bot, CCRttTraceCallback(b) PROVE TableInv'
  <2>1. m_ccRttTable' = Put(m_ccRttTable, b, 2 * ccLatency[b]) /\ UNCHANGED m_targetRttTable
        BY <1>2 DEF CCRttTraceCallback
  <2>2. /\ DOMAIN m_ccRttTable' = DOMAIN m_ccRttTable \union {b}
        /\ m_ccRttTable' \in [DOMAIN m_ccRttTable' -> Nat]
        BY <2>1, RttType, PutType DEF TableInv
  <2>3. IsFiniteSet(DOMAIN m_ccRttTable')
        BY <2>2, FS_AddElement DEF TableInv
  <2> QED BY <2>1, <2>2, <2>3 DEF TableInv
<1>3. ASSUME NEW b \in Bot, TargetRttTraceCallback(b) PROVE TableInv'
  <2>1. m_targetRttTable' = Put(m_targetRttTable, b, 2 * targetLatency[b]) /\ UNCHANGED m_ccRttTable
        BY <1>3 DEF TargetRttTraceCallback
  <2>2. /\ DOMAIN m_targetRttTable' = DOMAIN m_targetRttTable \union {b}
        /\ m_targetRttTable' \in [DOMAIN m_targetRttTable' -> Nat]
        BY <2>1, RttType, PutType DEF TableInv
  <2> QED BY <2>1, <2>2 DEF TableInv
<1>4. ASSUME NEW c \in Controller, ScheduleBots(c) PROVE TableInv'
  <2>1. m_ccRttTable' = Delays /\ Delays \in [DOMAIN m_ccRttTable -> Nat]
        BY <1>4, DelaysType DEF ScheduleBots
  <2>2. /\ DOMAIN m_targetRttTable' = DOMAIN m_targetRttTable \union DOMAIN m_ccRttTable
        /\ m_targetRttTable' \in [DOMAIN m_targetRttTable' -> Nat]
    <3> DEFINE D == DOMAIN m_targetRttTable \union DOMAIN m_ccRttTable
    <3>1. m_targetRttTable' = [b \in D |-> TargetRtt(b)]
          BY <1>4 DEF ScheduleBots
    <3> QED BY <3>1, TargetRttType
  <2> QED BY <2>1, <2>2 DEF TableInv, KnownInv
<1>5. ASSUME NEW c \in Controller, ControllerStep(c) PROVE TableInv'
      BY <1>1, <1>4, <1>5 DEF ControllerStep, StartController, StopController, SendCommand
<1>6. AdvanceTime \/ BotStep \/ UNCHANGED vars => UNCHANGED rttVars
      BY BotFrame DEF AdvanceTime, vars
<1> QED BY <1>1, <1>2, <1>3, <1>5, <1>6, StepCases DEF Ping

(* Controllers start at time zero. *)
LEMMA ClockStep ==
    ASSUME KnownInv, ClockInv, [Next]_vars, ~AdvanceTime
    PROVE  UNCHANGED now /\ ClockInv'
<1>1. UNCHANGED now
  <2>1. UNCHANGED vars => UNCHANGED now
        BY DEF vars
  <2> QED BY <2>1, StepCases, ControllerFrame, BotFrame, PingFrame
<1>2. \A c \in Controller : ccState'[c] = "idle" => ccState[c] = "idle"
  <2>1. ASSUME NEW c \in Controller, ControllerStep(c), NEW d \in Controller,
               ccState'[d] = "idle"
        PROVE  ccState[d] = "idle"
        BY <2>1, ControllerStepEffect
  <2>2. UNCHANGED vars => UNCHANGED ccVars
        BY DEF vars
  <2>3. CASE UNCHANGED ccVars
        BY <2>3 DEF ccVars
  <2> QED BY <2>1, <2>2, <2>3, StepCases, BotFrame, PingFrame
<1> QED BY <1>1, <1>2 DEF ClockInv

(* ScheduleBots schedules no command earlier than AttackTime from its own  *)
(* time on: MaxDelay is subtracted from by no more than itself.            *)
LEMMA CommandTimes ==
    ASSUME TimeInv, KnownInv, NEW c \in Controller, ScheduleBots(c)
    PROVE  /\ now = ScheduleWait
           /\ m_maxDelay' = [m_maxDelay EXCEPT ![c] = MaxDelay(c)] /\ MaxDelay(c) \in Nat
           /\ m_ccRttTable' = Delays /\ Delays \in [DOMAIN m_ccRttTable -> Nat]
           /\ DOMAIN m_send_events'[c] = DOMAIN m_ccRttTable
           /\ \A b \in DOMAIN m_ccRttTable :
                /\ m_send_events'[c][b] = now + (AttackTime + MaxDelay(c) - Delays[b])
                /\ m_send_events'[c][b] \in Nat
                /\ m_send_events'[c][b] >= now + AttackTime
           /\ DOMAIN m_socketMap'[c] \subseteq DOMAIN m_ccRttTable
           /\ \A b \in DOMAIN m_socketMap'[c] : m_socketMap'[c][b] = now + 2 * ccLatency[b]
<1>1. now = ScheduleWait
      BY DEF ScheduleBots, TimeInv, ScheduleInv
<1>2. TableInv /\ m_maxDelay \in [Controller -> Nat] /\ ScheduleWait \in Nat /\ AttackTime \in Nat
      BY TimeAssumption DEF TimeInv, ScheduleInv
<1>3. Delays \in [DOMAIN m_ccRttTable -> Nat]
      BY <1>2, DelaysType
<1>4. MaxDelay(c) \in Nat /\ \A b \in DOMAIN m_ccRttTable : Delays[b] <= MaxDelay(c)
      BY <1>2, MaxDelayBounds
<1>5. m_send_events'[c] = [b \in DOMAIN m_ccRttTable |-> now + CommandTime(c, b)]
      BY DEF ScheduleBots, KnownInv
<1>6. ASSUME NEW b \in DOMAIN m_ccRttTable
      PROVE  /\ m_send_events'[c][b] = now + (AttackTime + MaxDelay(c) - Delays[b])
             /\ m_send_events'[c][b] \in Nat
             /\ m_send_events'[c][b] >= now + AttackTime
  <2>1. m_send_events'[c][b] = now + (AttackTime + MaxDelay(c) - Delays[b])
        BY <1>5 DEF CommandTime
  <2>2. Delays[b] \in Nat /\ Delays[b] <= MaxDelay(c)
        BY <1>3, <1>4
  <2> QED BY <1>1, <1>2, <1>4, <2>1, <2>2
<1>7. m_socketMap'[c] =
        [b \in {d \in DOMAIN m_ccRttTable : Accepts(d)} |-> now + 2 * ccLatency[b]]
      BY DEF ScheduleBots, TimeInv, ScheduleInv
<1>8. /\ m_maxDelay' = [m_maxDelay EXCEPT ![c] = MaxDelay(c)]
      /\ m_ccRttTable' = Delays
      BY DEF ScheduleBots
<1> QED BY <1>1, <1>3, <1>4, <1>5, <1>6, <1>7, <1>8

(* What a controller schedules is in the future. *)
LEMMA ScheduleStep ==
    ASSUME KnownInv, TimeInv, [Next]_vars, ~AdvanceTime
    PROVE  ScheduleInv'
<1>1. UNCHANGED now /\ now \in Nat
      BY ClockStep DEF TimeInv, ClockInv
<1>2. ScheduleInv
      BY DEF TimeInv
<1>3. ASSUME NEW c \in Controller, ControllerStep(c) PROVE ScheduleInv'
  <2> DEFINE Good(d) ==
               /\ m_schedule_bots_event'[d] \subseteq {ScheduleWait}
               /\ m_schedule_bots_event'[d] # {} => now <= ScheduleWait
               /\ m_send_events'[d] \in [DOMAIN m_send_events'[d] -> Nat]
               /\ \A b \in DOMAIN m_send_events'[d] :
                    m_send_events'[d][b] >= now /\ m_send_events'[d][b] >= ScheduleWait + AttackTime
               /\ DOMAIN m_socketMap'[d] \subseteq DOMAIN m_ccRttTable'
               /\ m_socketMap'[d] \in [DOMAIN m_socketMap'[d] -> Nat]
  <2>1. DOMAIN m_ccRttTable' = DOMAIN m_ccRttTable
        BY <1>3, ControllerStepEffect
  <2>2. ASSUME NEW d \in Controller,
               UNCHANGED <<m_schedule_bots_event[d], m_send_events[d], m_socketMap[d]>>
        PROVE  Good(d)
        BY <1>2, <2>1, <2>2 DEF ScheduleInv
  <2>3. ASSUME NEW d \in Controller, d # c PROVE Good(d)
    <3>1. /\ m_send_events'[d] = m_send_events[d]
          /\ m_schedule_bots_event'[d] = m_schedule_bots_event[d]
          BY <1>3, <2>3, ControllerStepEffect
    <3>2. m_socketMap'[d] = m_socketMap[d]
          BY <1>2, <1>3, <2>3 DEF ControllerStep, StartController, ScheduleBots, StopController,
             SendCommand, ScheduleInv
    <3> QED BY <2>2, <2>3, <3>1, <3>2
  <2>4. CASE StartController(c)
    <3>1. now = 0
          BY <2>4 DEF StartController, TimeInv, ClockInv
    <3>2. m_schedule_bots_event'[c] = {ScheduleWait} /\ ScheduleWait \in Nat
          BY <2>4, <3>1, TimeAssumption DEF StartController, KnownInv
    <3>3. UNCHANGED <<m_send_events, m_socketMap, m_maxDelay>>
          BY <2>4 DEF StartController
    <3>4. Good(c)
          BY <1>2, <2>1, <3>1, <3>2, <3>3 DEF ScheduleInv
    <3> QED BY <1>1, <1>2, <2>3, <3>3, <3>4 DEF ScheduleInv
  <2>5. CASE ScheduleBots(c)
    <3>1. m_schedule_bots_event'[c] = {}
          BY <2>5 DEF ScheduleBots, KnownInv
    <3>2. /\ m_send_events'[c] \in [DOMAIN m_send_events'[c] -> Nat]
          /\ \A b \in DOMAIN m_send_events'[c] :
               m_send_events'[c][b] >= now /\ m_send_events'[c][b] >= ScheduleWait + AttackTime
      <4>1. m_send_events'[c] = [b \in DOMAIN m_ccRttTable |-> now + CommandTime(c, b)]
            BY <2>5 DEF ScheduleBots, KnownInv
      <4>2. AttackTime \in Nat
            BY TimeAssumption
      <4> QED BY <1>1, <2>5, <4>1, <4>2, CommandTimes
    <3>3. /\ DOMAIN m_socketMap'[c] \subseteq DOMAIN m_ccRttTable
          /\ m_socketMap'[c] \in [DOMAIN m_socketMap'[c] -> Nat]
      <4> DEFINE D == {d \in DOMAIN m_ccRttTable : Accepts(d)}
      <4>1. m_socketMap'[c] = [b \in D |-> now + 2 * ccLatency[b]]
            BY <1>2, <2>5 DEF ScheduleBots, ScheduleInv
      <4>2. D \subseteq DOMAIN m_ccRttTable /\ D \subseteq Bot
            BY DEF KnownInv
      <4>3. \A b \in D : now + 2 * ccLatency[b] \in Nat
            BY <1>1, <4>2, RttType DEF TimeInv
      <4> HIDE DEF D
      <4> QED BY <4>1, <4>2, <4>3
    <3>4. m_maxDelay' \in [Controller -> Nat] /\ DOMAIN m_socketMap' = Controller
          BY <1>2, <2>5, CommandTimes DEF ScheduleBots, ScheduleInv
    <3>5. Good(c)
          BY <2>1, <3>1, <3>2, <3>3
    <3> QED BY <1>1, <2>3, <3>4, <3>5 DEF ScheduleInv
  <2>6. CASE StopController(c)
    <3>1. /\ m_schedule_bots_event'[c] = {}
          /\ m_send_events'[c] = NoBots
          /\ UNCHANGED <<m_socketMap, m_maxDelay>>
          BY <2>6 DEF StopController, CancelEvent, KnownInv
    <3>2. Good(c)
          BY <1>2, <2>1, <3>1 DEF ScheduleInv, NoBots
    <3> QED BY <1>1, <1>2, <2>3, <3>1, <3>2 DEF ScheduleInv
  <2>7. ASSUME NEW b \in Bot, SendCommand(c, b) PROVE ScheduleInv'
    <3> DEFINE left == [d \in DOMAIN m_send_events[c] \ {b} |-> m_send_events[c][d]]
    <3>1. m_send_events'[c] = left
          BY <2>7 DEF SendCommand, KnownInv
    <3>2. UNCHANGED <<m_schedule_bots_event, m_socketMap, m_maxDelay>>
          BY <2>7 DEF SendCommand
    <3>3. Good(c)
          BY <1>2, <2>1, <3>1, <3>2 DEF ScheduleInv
    <3> QED BY <1>1, <1>2, <2>3, <3>2, <3>3 DEF ScheduleInv
  <2> QED BY <1>3, <2>4, <2>5, <2>6, <2>7 DEF ControllerStep
<1>4. CASE UNCHANGED ccVars /\ DOMAIN m_ccRttTable \subseteq DOMAIN m_ccRttTable'
      BY <1>1, <1>2, <1>4 DEF ScheduleInv, ccVars
<1>5. ASSUME NEW b \in Bot, Ping(b) PROVE DOMAIN m_ccRttTable \subseteq DOMAIN m_ccRttTable'
      BY <1>5 DEF Ping, CCRttTraceCallback, TargetRttTraceCallback, Put
<1>6. CASE UNCHANGED vars
      BY <1>4, <1>6 DEF vars, rttVars
<1>7. CASE BotStep
      BY <1>4, <1>7, BotFrame DEF rttVars
<1> QED BY <1>3, <1>4, <1>5, <1>6, <1>7, StepCases, PingFrame

(* A command arrives after it is sent. *)
LEMMA CommandStep ==
    ASSUME KnownInv, TimeInv, [Next]_vars, ~AdvanceTime
    PROVE  CommandInv'
<1>1. UNCHANGED now /\ now \in Nat /\ CommandInv
      BY ClockStep DEF TimeInv, ClockInv
<1>2. CASE UNCHANGED commands
      BY <1>1, <1>2 DEF CommandInv
<1>3. ASSUME NEW c \in Controller, NEW b \in Bot, SendCommand(c, b) PROVE CommandInv'
  <2>1. CASE b \in DOMAIN m_socketMap[c]
    <3> DEFINE at == Larger(now, m_socketMap[c][b]) + ccLatency[b]
    <3>1. commands' = commands \union {[from |-> c, to |-> b, at |-> at]}
          BY <1>3, <2>1 DEF SendCommand
    <3>2. m_socketMap[c][b] \in Nat /\ ccLatency[b] \in Nat
          BY <2>1, RttType DEF TimeInv, ScheduleInv
    <3>3. at \in Nat /\ at >= now
          BY <1>1, <3>2 DEF Larger
    <3> HIDE DEF at
    <3> QED BY <1>1, <3>1, <3>3 DEF CommandInv
  <2> QED BY <1>2, <1>3, <2>1 DEF SendCommand
<1>4. ASSUME NEW c \in Controller, ControllerStep(c) PROVE CommandInv'
      BY <1>2, <1>3, <1>4 DEF ControllerStep, StartController, ScheduleBots, StopController
<1>5. ASSUME NEW m \in commands, DeliverCommand(m) PROVE CommandInv'
  <2>1. commands' = commands \ {m}
        BY <1>5 DEF DeliverCommand
  <2> QED BY <1>1, <2>1 DEF CommandInv
<1>6. CASE BotStep
      BY <1>2, <1>5, <1>6 DEF BotStep, StartBot, NextRound, StopBot
<1>7. UNCHANGED vars => UNCHANGED commands
      BY DEF vars
<1> QED BY <1>2, <1>4, <1>6, <1>7, StepCases, PingFrame

(* The next round is due after all that are scheduled. *)
LEMMA NextDueInOrder ==
    ASSUME NEW due, InOrder(due), ClockInv
    PROVE  LET next == Append(due, now + AttackInterval) IN
           InOrder(next) /\ Len(next) = Len(due) + 1
<1> DEFINE next == Append(due, now + AttackInterval)
           n == Len(due)
<1>1. due \in Seq(Nat) /\ n \in Nat /\ now \in Nat /\ now + AttackInterval \in Nat
      BY TimeAssumption DEF InOrder, ClockInv
<1>2. /\ next \in Seq(Nat) /\ Len(next) = n + 1 /\ DOMAIN next = 1 .. n + 1
      /\ DOMAIN due = 1 .. n
      /\ next[n + 1] = now + AttackInterval
      /\ \A i \in DOMAIN due : next[i] = due[i] /\ due[i] \in Nat
      BY <1>1
<1>3. \A i \in DOMAIN due : now <= due[i] /\ due[i] <= now + AttackInterval
      BY DEF InOrder
<1>4. \A i, j \in DOMAIN due : i <= j => due[i] <= due[j]
      BY DEF InOrder
<1> HIDE DEF next, n
<1>5. \A i \in DOMAIN next : now <= next[i] /\ next[i] <= now + AttackInterval
  <2>1. now <= now + AttackInterval
        BY <1>1, TimeAssumption
  <2> QED BY <1>1, <1>2, <1>3, <2>1
<1>6. ASSUME NEW i \in DOMAIN next, NEW j \in DOMAIN next, i <= j PROVE next[i] <= next[j]
  <2>1. CASE j = n + 1
        BY <1>2, <1>5, <2>1
  <2>2. CASE j # n + 1
    <3>1. i \in DOMAIN due /\ j \in DOMAIN due
          BY <1>1, <1>2, <1>6, <2>2
    <3> QED BY <1>2, <1>4, <1>6, <3>1
  <2> QED BY <2>1, <2>2
<1> QED BY <1>2, <1>5, <1>6 DEF InOrder, next, n

(* The rounds after the first are in order when all are. *)
LEMMA TailInOrder ==
    ASSUME NEW due, InOrder(due), due # <<>>
    PROVE  InOrder(Tail(due)) /\ Len(Tail(due)) = Len(due) - 1
<1> DEFINE n == Len(due)
<1>1. due \in Seq(Nat) /\ n \in Nat \ {0} /\ DOMAIN due = 1 .. n
      BY DEF InOrder
<1>2. /\ Tail(due) \in Seq(Nat) /\ Len(Tail(due)) = n - 1 /\ DOMAIN Tail(due) = 1 .. n - 1
      /\ \A i \in 1 .. n - 1 : Tail(due)[i] = due[i + 1] /\ i + 1 \in 1 .. n
      BY <1>1
<1> HIDE DEF n
<1>3. \A i \in DOMAIN Tail(due) :
        now <= Tail(due)[i] /\ Tail(due)[i] <= now + AttackInterval
      BY <1>1, <1>2 DEF InOrder
<1>4. \A i, j \in DOMAIN Tail(due) : i <= j => Tail(due)[i] <= Tail(due)[j]
      BY <1>1, <1>2 DEF InOrder
<1> QED BY <1>2, <1>3, <1>4 DEF InOrder, n

(* A bot schedules its next round exactly when another event is pending.   *)
LEMMA AttackInOrder ==
    ASSUME KnownInv, TimeInv, BP!TypeOK, [Next]_vars, ~AdvanceTime, NEW b \in Bot, NEW due, NEW up,
           Attack(b, due, up), InOrder(due), sim = "running",
           \/ pending' = pending /\ pending[b] = Len(due)
           \/ \E n \in {Len(due), Len(due) + 1} : pending' = [pending EXCEPT ![b] = n]
    PROVE  RoundInv'
<1> DEFINE next == NextDue(b, due)
<1>1. UNCHANGED now /\ ClockInv
      BY ClockStep DEF TimeInv
<1>2. roundDue' = [roundDue EXCEPT ![b] = next]
      BY DEF Attack
<1>3. Len(due) \in Nat
      BY DEF InOrder
<1>4. pending \in [Bot -> Nat] /\ DOMAIN roundDue = Bot
      BY DEF BP!TypeOK, TimeInv, RoundInv
<1>5. pending'[b] \in {Len(due), Len(due) + 1}
      BY <1>4
<1>6. InOrder(next) /\ Len(next) = pending'[b]
      BY <1>1, <1>3, <1>5, NextDueInOrder DEF NextDue
<1> HIDE DEF next
<1>7. ASSUME NEW d \in Bot, d # b
      PROVE  /\ roundDue'[d] = roundDue[d] /\ pending'[d] = pending[d]
             /\ InOrder(roundDue[d]) /\ (sim = "running" => Len(roundDue[d]) = pending[d])
      BY <1>2, <1>4, <1>7 DEF TimeInv, RoundInv
<1>8. roundDue'[b] = next /\ DOMAIN roundDue' = Bot
      BY <1>2, <1>4
<1> QED BY <1>1, <1>6, <1>7, <1>8 DEF RoundInv, InOrder

(* The rounds a bot has scheduled are those pending. *)
LEMMA RoundStep ==
    ASSUME KnownInv, TimeInv, BP!TypeOK, [Next]_vars, ~AdvanceTime
    PROVE  RoundInv'
<1>1. UNCHANGED now /\ RoundInv
      BY ClockStep DEF TimeInv
<1>2. CASE UNCHANGED <<roundDue, pending, sim>>
      BY <1>1, <1>2 DEF RoundInv, InOrder
<1>3. ASSUME NEW b \in Bot, StartBot(b) PROVE RoundInv'
      BY <1>2, <1>3 DEF StartBot, Bots!StartApplication, attackVars
<1>4. ASSUME NEW b \in Bot, StopBot(b) PROVE RoundInv'
      BY <1>1, <1>4 DEF StopBot, Bots!StopApplication, attackVars, RoundInv, InOrder
<1>5. ASSUME NEW b \in Bot, NextRound(b) PROVE RoundInv'
  <2>1. /\ roundDue[b] # <<>> /\ sim = "running" /\ pending[b] > 0
        /\ Attack(b, Tail(roundDue[b]), targetUp[b])
        /\ \E n \in {pending[b] - 1, pending[b] - 1 + 1} : pending' = [pending EXCEPT ![b] = n]
        BY <1>5 DEF NextRound, Bots!SendPacketTarget, Bots!Running, Bots!SendRound, Bots!SentRound
  <2>2. InOrder(roundDue[b]) /\ Len(roundDue[b]) = pending[b]
        BY <1>1, <2>1 DEF RoundInv
  <2>3. InOrder(Tail(roundDue[b])) /\ Len(Tail(roundDue[b])) = pending[b] - 1
        BY <2>1, <2>2, TailInOrder
  <2> QED BY <2>1, <2>3, AttackInOrder
<1>6. ASSUME NEW m \in commands, DeliverCommand(m) PROVE RoundInv'
  <2> DEFINE b == m.to
  <2>1. b \in Bot
        BY DEF KnownInv
  <2>2. PICK up : /\ sim = "running" /\ Attack(b, roundDue[b], up)
                  /\ \/ pending' = pending
                     \/ \E n \in {pending[b], pending[b] + 1} : pending' = [pending EXCEPT ![b] = n]
        BY <1>6 DEF DeliverCommand, Bots!ReceivePacketCC, Bots!Running, Bots!SendRound,
           Bots!SentRound
  <2>3. InOrder(roundDue[b]) /\ Len(roundDue[b]) = pending[b]
        BY <1>1, <2>1, <2>2 DEF RoundInv
  <2> HIDE DEF b
  <2> QED BY <2>1, <2>2, <2>3, AttackInOrder
<1>7. UNCHANGED vars => UNCHANGED <<roundDue, pending, sim>>
      BY DEF vars, botVars, attackVars
<1>8. ASSUME UNCHANGED <<botVars, attackVars>> PROVE RoundInv'
      BY <1>2, <1>8 DEF botVars, attackVars
<1>9. CASE BotStep
      BY <1>3, <1>4, <1>5, <1>6, <1>9 DEF BotStep
<1> QED BY <1>2, <1>7, <1>8, <1>9, StepCases, ControllerFrame, PingFrame

(* Only time, which waits for it, can pass the start of a bot. *)
LEMMA BotStartStep ==
    ASSUME KnownInv, TimeInv, BP!TypeOK, [Next]_vars, ~AdvanceTime
    PROVE  BotStartInv'
<1>1. UNCHANGED now /\ BotStartInv
      BY ClockStep DEF TimeInv
<1>2. CASE UNCHANGED appState
      BY <1>1, <1>2 DEF BotStartInv
<1>3. ASSUME NEW b \in Bot, StartBot(b) PROVE BotStartInv'
  <2>1. appState' = [appState EXCEPT ![b] = "running"]
        BY <1>3 DEF StartBot, Bots!StartApplication
  <2> QED BY <1>1, <2>1 DEF BotStartInv, BP!TypeOK
<1>4. CASE BotStep
      BY <1>2, <1>3, <1>4 DEF BotStep, NextRound, StopBot, DeliverCommand, Bots!SendPacketTarget,
         Bots!StopApplication, Bots!ReceivePacketCC
<1>5. UNCHANGED vars \/ UNCHANGED botVars => UNCHANGED appState
      BY DEF vars, botVars
<1> QED BY <1>2, <1>4, <1>5, StepCases, ControllerFrame, PingFrame

(* Every step keeps all of it, and so does every behaviour. *)
LEMMA TimeStep == KnownInv /\ BP!TypeOK /\ TimeInv /\ [Next]_vars => TimeInv'
<1> SUFFICES ASSUME KnownInv, BP!TypeOK, TimeInv, [Next]_vars, ~AdvanceTime PROVE TimeInv'
    BY AdvanceStep
<1>1. LatencyInv' /\ TableInv'
      BY LatencyStep, TableStep DEF TimeInv
<1>2. ClockInv'
      BY ClockStep DEF TimeInv
<1> QED BY <1>1, <1>2, ScheduleStep, CommandStep, RoundStep, BotStartStep DEF TimeInv

LEMMA TimeInvariance == Spec => [](KnownInv /\ BP!TypeOK /\ TimeInv)
BY BotTypes, TimeInit, TimeStep, PTL DEF Spec

(* The state has its types; a bot keeps one due time per pending round.    *)
THEOREM TypeCorrect == Spec => []TypeOK
<1>1. KnownInv /\ BP!TypeOK /\ TimeInv => TypeOK
  <2> SUFFICES ASSUME KnownInv, BP!TypeOK, TimeInv PROVE TypeOK
      OBVIOUS
  <2>1. Bots!TypeOK
        BY DEF BP!TypeOK, Bots!TypeOK
  <2>2. \A b \in Bot : Len(roundDue[b]) = pending[b] \/ sim = "crashed"
        BY DEF TimeInv, RoundInv, BP!TypeOK
  <2> QED BY <2>1, <2>2 DEF KnownInv, TimeInv, ClockInv, TableInv, ScheduleInv, CommandInv, TypeOK
<1> QED BY <1>1, TimeInvariance, PTL

(* Whatever the latencies, the lost pings and the order of the events that *)
(* are due together, no event is scheduled in the past, and no command is  *)
(* due before AttackTime has passed since ScheduleBots.                    *)
THEOREM NothingInThePastHolds == Spec => []NothingInThePast
<1>1. TimeInv => NothingInThePast
      BY DueLater DEF NothingInThePast, TimeInv, ScheduleInv
<1> QED BY <1>1, TimeInvariance, PTL

-----------------------------------------------------------------------------
(* The schedule of one controller.                                         *)

(* The controller has scheduled, sent or got through a command. *)
Commanding(c) ==
    DOMAIN m_send_events[c] # {} \/ commands # {} \/ \E b \in Bot : notified[b] > 0

(* When the round after the first n is due at a bot that is commanded as a *)
(* measured one, counted at the target.                                    *)
PulseTime(c, n) == ScheduleWait + AttackTime + m_maxDelay[c] + n * AttackInterval

(* Until ScheduleBots the table holds round trips, and from the first      *)
(* command on no ping changes it any more.                                 *)
PhaseInv(c) ==
    /\ ccState[c] = "idle" \/ m_schedule_bots_event[c] # {} =>
         \A b \in DOMAIN m_ccRttTable : m_ccRttTable[b] = 2 * ccLatency[b]
    /\ Commanding(c) => now >= ScheduleWait

(* A socket is connected before its command is sent; the command is so     *)
(* much earlier than the pulse as it takes the bot to get one through.     *)
LeadInv(c) ==
    /\ \A b \in DOMAIN m_send_events[c] :
         /\ b \in DOMAIN m_socketMap[c] => m_socketMap[c][b] <= m_send_events[c][b]
         /\ b \in Measured =>
              m_send_events[c][b] + ccLatency[b] + targetLatency[b] = PulseTime(c, 0)
    /\ \A m \in commands : m.to \in Measured => m.at + targetLatency[m.to] = PulseTime(c, 0)

(* A measured bot is connected two latencies after its command has come,   *)
(* and its rounds are in step with the pulse.                              *)
InStep(c, b) ==
    /\ targetUp[b] = {PulseTime(c, 0) + targetLatency[b]}
    /\ arrivals[b][1] = PulseTime(c, 0) + 2 * targetLatency[b]
    /\ \A k \in 2 .. sent[b] : arrivals[b][k] = PulseTime(c, k - 1)
    /\ \A i \in DOMAIN roundDue[b] : roundDue[b][i] + targetLatency[b] = PulseTime(c, sent[b])

(* A bot that has sent nothing has nothing scheduled. *)
Pulse(c, b) ==
    /\ notified[b] = 0 => sent[b] = 0
    /\ sent[b] = 0 => targetUp[b] = {} /\ roundDue[b] = <<>>
    /\ b \in Measured /\ sent[b] > 0 => InStep(c, b)

PulseInv(c) == DOMAIN targetUp = Bot /\ \A b \in Bot : Pulse(c, b)

(* What is known of a single controller, its bots and its clock. *)
OneInv(c) ==
    /\ KnownInv /\ StoppedInv /\ OnceInv(c) /\ ArrivalInv /\ TimeInv
    /\ BP!TypeOK /\ BP!OneCommandOneAttack

(* Pulses are an interval apart. *)
LEMMA PulseTimes ==
    ASSUME NEW c \in Controller, m_maxDelay \in [Controller -> Nat], NEW n \in Nat
    PROVE  /\ PulseTime(c, n) \in Nat
           /\ PulseTime(c, n + 1) = PulseTime(c, n) + AttackInterval
           /\ n > 0 => PulseTime(c, n) >= PulseTime(c, 0) + AttackInterval
<1> DEFINE C == ScheduleWait + AttackTime + m_maxDelay[c]
<1>1. C \in Nat /\ AttackInterval \in Nat
      BY TimeAssumption
<1>2. \A i \in Nat : PulseTime(c, i) = C + i * AttackInterval
      BY DEF PulseTime
<1> HIDE DEF C
<1>3. n * AttackInterval \in Nat /\ (n + 1) * AttackInterval = n * AttackInterval + AttackInterval
      BY <1>1
<1>4. n > 0 => n * AttackInterval >= AttackInterval
      BY <1>1
<1>5. PulseTime(c, 0) = C
      BY <1>1, <1>2
<1> QED BY <1>1, <1>2, <1>3, <1>4, <1>5

(* They are, and Measured is, what they were when what they are made of is.*)
LEMMA PulseFrame ==
    /\ \A c, n : UNCHANGED m_maxDelay => PulseTime(c, n)' = PulseTime(c, n)
    /\ UNCHANGED <<rttVars, targetLatency>> => Measured' = Measured
BY DEF PulseTime, Measured, rttVars

LEMMA AppendAccess ==
    ASSUME NEW S, NEW s \in Seq(S), NEW e
    PROVE  /\ Append(s, e)[Len(s) + 1] = e
           /\ \A i \in 1 .. Len(s) : Append(s, e)[i] = s[i]
<1> DEFINE T == S \union {e}
<1>1. s \in Seq(T) /\ e \in T
      OBVIOUS
<1> HIDE DEF T
<1> QED BY <1>1

LEMMA MaxSingleton ==
    ASSUME NEW n \in Nat
    PROVE  Max({n}) = n
BY DEF Max

(* The pings of a measured bot are over when it is commanded. *)
LEMMA PingsEnd ==
    ASSUME NEW c, Controller = {c}, Timely, TimeInv, PhaseInv(c), NEW b \in Bot, Ping(b)
    PROVE  ~Commanding(c)
<1>1. now <= PingUntil
      BY DEF Ping, CCRttTraceCallback, TargetRttTraceCallback
<1> QED BY <1>1, TimeAssumption DEF PhaseInv, Timely, TimeInv, ClockInv

(* Pings and starts come before the schedule, and no command before it.    *)
LEMMA PhaseStep ==
    ASSUME NEW c, Controller = {c}, Timely, OneInv(c), PhaseInv(c), [Next]_vars
    PROVE  PhaseInv(c)'
<1>0. KnownInv /\ StoppedInv /\ TimeInv
      BY DEF OneInv
<1>1. now \in Nat /\ now' \in Nat /\ now' >= now
  <2>1. now \in Nat
        BY <1>0 DEF TimeInv, ClockInv
  <2> QED BY <1>0, <2>1, AdvanceEffect, ClockStep DEF TimeInv
<1> DEFINE Early == ccState[c] = "idle" \/ m_schedule_bots_event[c] # {}
           Rtts == \A b \in DOMAIN m_ccRttTable : m_ccRttTable[b] = 2 * ccLatency[b]
<1>2. UNCHANGED latencies
  <2>1. AdvanceTime \/ UNCHANGED vars => UNCHANGED latencies
        BY DEF AdvanceTime, vars
  <2> QED BY <2>1, StepCases, ControllerFrame, BotFrame, PingFrame
<1>3. Early' => Rtts'
  <2>1. CASE UNCHANGED <<ccVars, m_ccRttTable>>
        BY <1>2, <2>1 DEF PhaseInv, ccVars, latencies
  <2>2. CASE ControllerStep(c)
    <3>1. CASE StartController(c)
          BY <1>2, <3>1 DEF StartController, PhaseInv, rttVars, latencies
    <3>2. CASE ScheduleBots(c) \/ StopController(c)
      <4>1. ccState'[c] # "idle" /\ m_schedule_bots_event'[c] = {}
            BY <1>0, <3>2 DEF ScheduleBots, StopController, CancelEvent, StoppedInv, KnownInv
      <4> QED BY <4>1
    <3>3. CASE \E b \in Bot : SendCommand(c, b)
          BY <1>2, <3>3 DEF SendCommand, PhaseInv, rttVars, latencies
    <3> QED BY <2>2, <3>1, <3>2, <3>3 DEF ControllerStep
  <2>3. ASSUME NEW b \in Bot, Ping(b) PROVE Early' => Rtts'
    <3>1. CASE UNCHANGED m_ccRttTable
          BY <2>1, <2>3, <3>1, PingFrame
    <3>2. CASE m_ccRttTable' = Put(m_ccRttTable, b, 2 * ccLatency[b])
          BY <1>2, <2>3, <3>2, PingFrame DEF Put, PhaseInv, ccVars, latencies
    <3> QED BY <2>3, <3>1, <3>2 DEF Ping, CCRttTraceCallback, TargetRttTraceCallback
  <2>4. AdvanceTime \/ BotStep \/ UNCHANGED vars => UNCHANGED <<ccVars, m_ccRttTable>>
        BY BotFrame DEF AdvanceTime, vars, rttVars
  <2> QED BY <2>1, <2>2, <2>3, <2>4, StepCases
<1>4. Commanding(c)' => now' >= ScheduleWait
  <2>1. Commanding(c) => now' >= ScheduleWait
        BY <1>1, TimeAssumption DEF PhaseInv
  <2>2. CASE UNCHANGED <<m_send_events, commands, notified>>
        BY <2>1, <2>2 DEF Commanding
  <2>3. CASE ScheduleBots(c)
    <3>1. now = ScheduleWait
          BY <1>0, <2>3, CommandTimes
    <3> QED BY <1>1, <3>1
  <2>4. CASE StopController(c)
        BY <1>0, <2>1, <2>4 DEF StopController, CancelEvent, NoBots, KnownInv, Commanding, botVars
  <2>5. ASSUME NEW b \in Bot, SendCommand(c, b) PROVE Commanding(c)
        BY <2>5 DEF SendCommand, Commanding
  <2>6. ASSUME NEW m \in commands, DeliverCommand(m) PROVE Commanding(c)
        BY <2>6 DEF Commanding
  <2>7. ASSUME NEW b \in Bot, StartBot(b) \/ NextRound(b) \/ StopBot(b)
        PROVE  UNCHANGED <<m_send_events, commands, notified>>
        BY <2>7 DEF StartBot, NextRound, StopBot, Bots!StartApplication, Bots!SendPacketTarget,
           Bots!StopApplication, ccVars, Attack
  <2>8. CASE StartController(c) \/ AdvanceTime \/ UNCHANGED vars
        BY <2>2, <2>8 DEF StartController, AdvanceTime, vars, ccVars, botVars
  <2>9. CASE \E b \in Bot : Ping(b)
        BY <2>2, <2>9, PingFrame DEF ccVars, botVars
  <2> QED BY <2>1, <2>2, <2>3, <2>4, <2>5, <2>6, <2>7, <2>8, <2>9, StepCases
          DEF ControllerStep, BotStep
<1> QED BY <1>3, <1>4 DEF PhaseInv

(* A bot that is measured when it is scheduled is commanded earlier than   *)
(* the pulse by both of its latencies, and after it is connected.          *)
LEMMA ScheduleLeads ==
    ASSUME NEW c, Controller = {c}, Timely, OneInv(c), PhaseInv(c), ScheduleBots(c)
    PROVE  LeadInv(c)'
<1>0. KnownInv /\ TimeInv /\ OnceInv(c) /\ TableInv /\ LatencyInv
      BY DEF OneInv, TimeInv
<1>1. m_schedule_bots_event[c] # {}
      BY DEF ScheduleBots
<1>2. commands' = {}
      BY <1>0, <1>1 DEF ScheduleBots, OnceInv
<1>3. /\ now = ScheduleWait /\ MaxDelay(c) \in Nat /\ m_maxDelay'[c] = MaxDelay(c)
      /\ m_ccRttTable' = Delays /\ DOMAIN Delays = DOMAIN m_ccRttTable
      /\ DOMAIN m_send_events'[c] = DOMAIN m_ccRttTable
      BY <1>0, CommandTimes DEF TimeInv, ScheduleInv
<1>4. UNCHANGED latencies
      BY DEF ScheduleBots
<1>5. PulseTime(c, 0)' = ScheduleWait + AttackTime + MaxDelay(c)
      BY <1>3, TimeAssumption DEF PulseTime
<1>6. ASSUME NEW b \in DOMAIN m_ccRttTable
      PROVE  /\ b \in DOMAIN m_socketMap'[c] => m_socketMap'[c][b] <= m_send_events'[c][b]
             /\ b \in Measured' =>
                  m_send_events'[c][b] + ccLatency[b] + targetLatency[b] = PulseTime(c, 0)'
  <2>1. b \in Bot
        BY <1>0 DEF KnownInv
  <2>2. /\ m_send_events'[c][b] = now + (AttackTime + MaxDelay(c) - Delays[b])
        /\ m_send_events'[c][b] \in Nat /\ m_send_events'[c][b] >= now + AttackTime
        BY <1>0, CommandTimes
  <2>3. /\ ccLatency[b] \in Nat /\ targetLatency[b] \in Nat
        /\ ccLatency[b] \in Latency
        BY <1>0, <2>1, RttType DEF LatencyInv
  <2>4. ASSUME b \in DOMAIN m_socketMap'[c] PROVE m_socketMap'[c][b] <= m_send_events'[c][b]
    <3>1. m_socketMap'[c][b] = now + 2 * ccLatency[b]
          BY <1>0, <2>4, CommandTimes
    <3>2. 2 * ccLatency[b] <= AttackTime
          BY <2>3 DEF Timely
    <3> QED BY <1>3, <2>2, <2>3, <3>1, <3>2, TimeAssumption
  <2>5. ASSUME b \in Measured'
        PROVE  m_send_events'[c][b] + ccLatency[b] + targetLatency[b] = PulseTime(c, 0)'
    <3>1. TargetRtt(b) = 2 * targetLatency[b]
      <4> DEFINE D == DOMAIN m_targetRttTable \union DOMAIN m_ccRttTable
      <4>1. m_targetRttTable' = [d \in D |-> TargetRtt(d)]
            BY DEF ScheduleBots
      <4>2. m_targetRttTable'[b] = TargetRtt(b)
            BY <4>1
      <4> QED BY <1>4, <2>5, <4>2 DEF Measured, latencies
    <3>2. m_ccRttTable[b] = 2 * ccLatency[b]
          BY <1>1 DEF PhaseInv
    <3>3. Delays[b] = (2 * ccLatency[b] + 2 * targetLatency[b]) \div 2
          BY <3>1, <3>2 DEF Delays
    <3>4. \A m, n \in Nat : (2 * m + 2 * n) \div 2 = m + n
          OBVIOUS
    <3>5. Delays[b] = ccLatency[b] + targetLatency[b]
          BY <2>3, <3>3, <3>4
    <3> QED BY <1>3, <1>5, <2>2, <2>3, <3>5, TimeAssumption
  <2> QED BY <2>4, <2>5
<1> QED BY <1>2, <1>3, <1>4, <1>6 DEF LeadInv, latencies

(* A command takes the way to its bot, as its socket is connected by then, *)
(* and nothing else changes the lead.                                      *)
LEMMA LeadStep ==
    ASSUME NEW c, Controller = {c}, Timely, OneInv(c), PhaseInv(c), LeadInv(c), [Next]_vars
    PROVE  LeadInv(c)'
<1>0. KnownInv /\ TimeInv /\ LatencyInv
      BY DEF OneInv, TimeInv
<1>1. CASE /\ UNCHANGED <<rttVars, latencies, m_maxDelay, m_socketMap, m_send_events>>
           /\ commands' \subseteq commands
      BY <1>1, PulseFrame DEF LeadInv, latencies
<1>2. CASE ControllerStep(c)
  <2>1. CASE StartController(c)
        BY <1>1, <2>1 DEF StartController
  <2>2. CASE ScheduleBots(c)
        BY <2>2, ScheduleLeads
  <2>3. CASE StopController(c)
    <3>1. DOMAIN m_send_events'[c] = {}
          BY <1>0, <2>3 DEF StopController, CancelEvent, NoBots, KnownInv
    <3>2. UNCHANGED <<rttVars, latencies, m_maxDelay, commands>>
          BY <2>3 DEF StopController
    <3> QED BY <3>1, <3>2, PulseFrame DEF LeadInv, latencies
  <2>4. ASSUME NEW b \in Bot, SendCommand(c, b) PROVE LeadInv(c)'
    <3> DEFINE left == [d \in DOMAIN m_send_events[c] \ {b} |-> m_send_events[c][d]]
    <3>1. /\ m_send_events'[c] = left /\ b \in DOMAIN m_send_events[c]
          /\ m_send_events[c][b] = now
          /\ UNCHANGED <<rttVars, latencies, m_maxDelay, m_socketMap>>
          BY <1>0, <2>4 DEF SendCommand, KnownInv
    <3>2. /\ DOMAIN m_send_events'[c] \subseteq DOMAIN m_send_events[c]
          /\ \A d \in DOMAIN m_send_events'[c] : m_send_events'[c][d] = m_send_events[c][d]
          BY <3>1
    <3>3. ASSUME NEW m \in commands' \ commands
          PROVE  m.to = b /\ m.at = now + ccLatency[b]
      <4>1. /\ b \in DOMAIN m_socketMap[c] /\ m.to = b
            /\ m.at = Larger(now, m_socketMap[c][b]) + ccLatency[b]
            BY <2>4, <3>3 DEF SendCommand
      <4>2. m_socketMap[c][b] <= now /\ m_socketMap[c][b] \in Nat /\ now \in Nat
            BY <1>0, <3>1, <4>1 DEF LeadInv, TimeInv, ScheduleInv, ClockInv
      <4>3. Larger(now, m_socketMap[c][b]) = now
            BY <4>2 DEF Larger
      <4> QED BY <4>1, <4>3
    <3>4. ASSUME NEW m \in commands', m.to \in Measured
          PROVE  m.at + targetLatency[m.to] = PulseTime(c, 0)
      <4>1. CASE m \in commands
            BY <3>4, <4>1 DEF LeadInv
      <4>2. CASE m \notin commands
            BY <3>1, <3>3, <3>4, <4>2 DEF LeadInv
      <4> QED BY <4>1, <4>2
    <3> QED BY <3>1, <3>2, <3>4, PulseFrame DEF LeadInv, latencies
  <2> QED BY <1>2, <2>1, <2>2, <2>3, <2>4 DEF ControllerStep
<1>3. ASSUME NEW b \in Bot, Ping(b) PROVE LeadInv(c)'
  <2>1. DOMAIN m_send_events'[c] = {} /\ commands' = {}
        BY <1>0, <1>3, PingsEnd, PingFrame DEF Commanding, ccVars
  <2> QED BY <2>1 DEF LeadInv
<1>4. ASSUME NEW m \in commands, DeliverCommand(m) PROVE commands' \subseteq commands
      BY <1>4 DEF DeliverCommand
<1>5. ASSUME BotStep PROVE commands' \subseteq commands
      BY <1>4, <1>5 DEF BotStep, StartBot, NextRound, StopBot
<1>6. CASE BotStep
      BY <1>1, <1>5, <1>6, BotFrame DEF ccVars
<1>7. CASE AdvanceTime \/ UNCHANGED vars
      BY <1>1, <1>7 DEF AdvanceTime, vars, ccVars
<1> QED BY <1>2, <1>3, <1>6, <1>7, StepCases

(* A bot and its commands: one at most, and one round pending at most. *)
LEMMA Commanded ==
    ASSUME NEW c, OneInv(c), NEW b \in Bot
    PROVE  /\ notified[b] \in 0 .. 1 /\ sent[b] \in Nat
           /\ roundDue[b] \in Seq(Nat)
           /\ sim = "running" => Len(roundDue[b]) = pending[b] /\ Len(roundDue[b]) <= notified[b]
           /\ Len(arrivals[b]) = sent[b] /\ \E S : arrivals[b] \in Seq(S)
           /\ now \in Nat /\ targetLatency[b] \in Nat
           /\ 2 * targetLatency[b] \in Nat /\ targetLatency[b] \in Latency
<1>1. /\ notified[b] \in Nat /\ sent[b] \in Nat /\ pending[b] \in Nat
      /\ notified[b] <= 1 /\ pending[b] <= notified[b]
      BY DEF OneInv, OnceInv, BP!TypeOK, BP!OneCommandOneAttack
<1>2. roundDue[b] \in Seq(Nat) /\ (sim = "running" => Len(roundDue[b]) = pending[b])
      BY DEF OneInv, TimeInv, RoundInv, InOrder
<1>3. Len(arrivals[b]) = sent[b] /\ \E S : arrivals[b] \in Seq(S)
      BY <1>1 DEF OneInv, ArrivalInv, BP!OneCommandOneAttack
<1>4. /\ now \in Nat /\ targetLatency[b] \in Nat
      /\ 2 * targetLatency[b] \in Nat /\ targetLatency[b] \in Latency
      BY RttType DEF OneInv, TimeInv, ClockInv, LatencyInv
<1> QED BY <1>1, <1>2, <1>3, <1>4

(* What a round, or the command for the first, does to the bots.           *)
LEMMA AttackEffect ==
    ASSUME NEW c, OneInv(c), PulseInv(c), NEW b \in Bot, NEW due, NEW up, Attack(b, due, up)
    PROVE  /\ DOMAIN targetUp' = Bot /\ targetUp'[b] = up
           /\ roundDue'[b] = due \/ roundDue'[b] = Append(due, now + AttackInterval)
           /\ roundDue'[b] = NextDue(b, due)
           /\ accepted'[b] > accepted[b] =>
                arrivals'[b] = Append(arrivals[b], Larger(now, Max(up)) + targetLatency[b])
           /\ \A d \in Bot \ {b} : /\ targetUp'[d] = targetUp[d] /\ roundDue'[d] = roundDue[d]
                                   /\ arrivals'[d] = arrivals[d]
<1>1. DOMAIN targetUp = Bot /\ DOMAIN roundDue = Bot /\ DOMAIN arrivals = Bot
      BY DEF OneInv, PulseInv, TimeInv, RoundInv, ArrivalInv
<1>2. NextDue(b, due) \in {due, Append(due, now + AttackInterval)}
      BY DEF NextDue
<1> DEFINE next == NextDue(b, due)
           at == Larger(now, Max(up)) + targetLatency[b]
<1>3. /\ targetUp' = [targetUp EXCEPT ![b] = up]
      /\ roundDue' = [roundDue EXCEPT ![b] = next]
      /\ arrivals' = [arrivals EXCEPT ![b] =
           IF accepted'[b] > accepted[b] THEN Append(arrivals[b], at) ELSE arrivals[b]]
      BY DEF Attack
<1>4. next = due \/ next = Append(due, now + AttackInterval)
      BY <1>2
<1> HIDE DEF next, at
<1>5. /\ DOMAIN targetUp' = Bot /\ targetUp'[b] = up /\ roundDue'[b] = next
      /\ accepted'[b] > accepted[b] => arrivals'[b] = Append(arrivals[b], at)
      /\ \A d \in Bot \ {b} : /\ targetUp'[d] = targetUp[d] /\ roundDue'[d] = roundDue[d]
                              /\ arrivals'[d] = arrivals[d]
      BY <1>1, <1>3
<1> QED BY <1>4, <1>5 DEF next, at

(* The socket of a bot commanded once takes every packet, so one that is   *)
(* sent is one that is taken.                                              *)
OneTaken == BP!OneCommandOneAttack /\ \A b \in Bot : notified[b] <= 1

LEMMA SentIsTaken ==
    ASSUME OneTaken, OneTaken', NEW b \in Bot, sent'[b] > sent[b]
    PROVE  accepted'[b] > accepted[b]
BY DEF OneTaken, BP!OneCommandOneAttack

(* A bot that does nothing stays in step with the pulse. *)
LEMMA PulseKept ==
    ASSUME NEW c, NEW d \in Bot, Pulse(c, d), UNCHANGED <<m_maxDelay, rttVars, latencies>>,
           targetUp'[d] = targetUp[d], roundDue'[d] = roundDue[d], arrivals'[d] = arrivals[d],
           sent'[d] = sent[d], notified'[d] = notified[d]
    PROVE  Pulse(c, d)'
<1>1. Measured' = Measured /\ \A n : PulseTime(c, n)' = PulseTime(c, n)
      BY PulseFrame DEF latencies
<1>2. targetLatency'[d] = targetLatency[d]
      BY DEF latencies
<1> QED BY <1>1, <1>2 DEF Pulse, InStep

(* The command comes a latency earlier than the pulse, so the first round, *)
(* which waits for the handshake with the target, is two latencies late.   *)
LEMMA FirstPulse ==
    ASSUME NEW c, Controller = {c}, OneInv(c), LeadInv(c), PulseInv(c),
           OneTaken', NEW m \in commands, DeliverCommand(m)
    PROVE  PulseInv(c)'
<1> DEFINE b == m.to
           L == targetLatency[b]
           up == UpAfterConnect(b)
<1>1. /\ b \in Bot /\ notified[b] = 0 /\ sent[b] = 0 /\ targetUp[b] = {} /\ roundDue[b] = <<>>
  <2>1. b \in Bot
        BY DEF OneInv, KnownInv
  <2> QED BY <2>1 DEF OneInv, OnceInv, PulseInv, Pulse
<1>2. /\ sim = "running" /\ m.at = now /\ Attack(b, roundDue[b], up)
      /\ UNCHANGED <<m_maxDelay, rttVars, latencies>>
      BY BotFrame DEF DeliverCommand, BotStep, ccVars, Bots!ReceivePacketCC, Bots!Running
<1>3. /\ now \in Nat /\ L \in Nat /\ 2 * L \in Nat /\ pending[b] = 0
      /\ arrivals[b] = <<>> /\ \E S : arrivals[b] \in Seq(S)
      BY <1>1, <1>2, Commanded
<1>4. /\ notified \in [Bot -> Nat] /\ sent \in [Bot -> Nat] /\ m_rounds[b] \in Nat
      BY <1>1, BotAssumption DEF OneInv, BP!TypeOK
<1>5. notified' = [notified EXCEPT ![b] = @ + 1]
      BY DEF DeliverCommand, Bots!ReceivePacketCC
<1>6. \/ m_rounds[b] > 0 /\ sent' = [sent EXCEPT ![b] = @ + 1]
      \/ ~(m_rounds[b] > 0) /\ UNCHANGED <<sent, pending>>
      BY DEF DeliverCommand, Bots!ReceivePacketCC, Bots!SendRound, Bots!SentRound
<1> HIDE DEF b, up
<1>7. ASSUME NEW d \in Bot, d # b PROVE Pulse(c, d)'
  <2>1. /\ targetUp'[d] = targetUp[d] /\ roundDue'[d] = roundDue[d] /\ arrivals'[d] = arrivals[d]
        BY <1>1, <1>2, <1>7, AttackEffect
  <2>2. notified'[d] = notified[d] /\ sent'[d] = sent[d]
        BY <1>4, <1>5, <1>6, <1>7
  <2> QED BY <1>2, <2>1, <2>2, PulseKept DEF PulseInv
<1>8. DOMAIN targetUp' = Bot /\ targetUp'[b] = up
      BY <1>1, <1>2, AttackEffect
<1>9. CASE ~(m_rounds[b] > 0)
  <2>1. sent'[b] = 0 /\ pending'[b] = 0 /\ targetUp'[b] = {}
        BY <1>1, <1>3, <1>6, <1>8, <1>9 DEF up, UpAfterConnect
  <2>2. roundDue'[b] = <<>>
        BY <1>1, <1>2, <2>1, AttackEffect DEF NextDue
  <2>3. Pulse(c, b)'
        BY <1>1, <2>1, <2>2 DEF Pulse
  <2> QED BY <1>7, <1>8, <2>3 DEF PulseInv
<1>10. CASE m_rounds[b] > 0
  <2>1. sent'[b] = 1 /\ notified'[b] = 1 /\ up = {now + 2 * L}
        BY <1>1, <1>4, <1>5, <1>6, <1>10 DEF up, UpAfterConnect
  <2>2. arrivals'[b] = Append(<<>>, Larger(now, Max({now + 2 * L})) + L)
    <3>1. accepted'[b] > accepted[b]
          BY <1>1, <2>1, SentIsTaken DEF OneInv, OnceInv, OneTaken
    <3> QED BY <1>1, <1>2, <1>3, <2>1, <3>1, AttackEffect
  <2>3. arrivals'[b][1] = now + 2 * L + L
    <3>1. now + 2 * L \in Nat /\ now + 2 * L >= now
          BY <1>3
    <3>2. Larger(now, Max({now + 2 * L})) = now + 2 * L
          BY <1>3, <3>1, MaxSingleton DEF Larger
    <3> QED BY <2>2, <3>2
  <2>4. roundDue'[b] = <<>> \/ roundDue'[b] = <<now + AttackInterval>>
    <3>1. Append(<<>>, now + AttackInterval) = <<now + AttackInterval>>
          OBVIOUS
    <3> QED BY <1>1, <1>2, <3>1, AttackEffect
  <2>5. ASSUME b \in Measured' PROVE InStep(c, b)'
    <3>1. b \in Measured
          BY <1>2, <2>5, PulseFrame DEF latencies
    <3>2. now + L = PulseTime(c, 0)
          BY <1>2, <3>1 DEF LeadInv, b
    <3>3. /\ PulseTime(c, 0) \in Nat /\ PulseTime(c, 1) \in Nat
          /\ PulseTime(c, 1) = PulseTime(c, 0) + AttackInterval
          BY PulseTimes DEF OneInv, TimeInv, ScheduleInv
    <3>4. /\ PulseTime(c, 0)' = PulseTime(c, 0) /\ PulseTime(c, 1)' = PulseTime(c, 1)
          /\ targetLatency'[b] = L
          BY <1>2, PulseFrame DEF latencies
    <3>5. targetUp'[b] = {PulseTime(c, 0)' + targetLatency'[b]}
          BY <1>3, <1>8, <2>1, <3>2, <3>4
    <3>6. arrivals'[b][1] = PulseTime(c, 0)' + 2 * targetLatency'[b]
          BY <1>3, <2>3, <3>2, <3>4
    <3>7. \A i \in DOMAIN roundDue'[b] :
            roundDue'[b][i] + targetLatency'[b] = PulseTime(c, 1)'
      <4>1. now + AttackInterval + L = PulseTime(c, 1)
            BY <1>3, <3>2, <3>3, TimeAssumption
      <4> QED BY <2>4, <3>4, <4>1
    <3> QED BY <2>1, <3>5, <3>6, <3>7 DEF InStep
  <2>6. Pulse(c, b)'
        BY <2>1, <2>5 DEF Pulse
  <2> QED BY <1>7, <1>8, <2>6 DEF PulseInv
<1> QED BY <1>9, <1>10

(* The next round comes an interval after it, when the bot is connected.   *)
LEMMA NextPulse ==
    ASSUME NEW c, Controller = {c}, Timely, OneInv(c), PulseInv(c), OneTaken',
           NEW b \in Bot, NextRound(b)
    PROVE  PulseInv(c)'
<1> DEFINE L == targetLatency[b]
           n == sent[b]
<1>1. /\ sim = "running" /\ Attack(b, Tail(roundDue[b]), targetUp[b])
      /\ roundDue[b] # <<>> /\ Head(roundDue[b]) = now
      /\ UNCHANGED <<m_maxDelay, rttVars, latencies, notified>>
      /\ sent' = [sent EXCEPT ![b] = @ + 1]
      BY BotFrame DEF NextRound, BotStep, ccVars, Bots!SendPacketTarget, Bots!Running,
         Bots!SendRound, Bots!SentRound
<1>2. /\ now \in Nat /\ L \in Nat /\ 2 * L \in Nat /\ L \in Latency /\ n \in Nat
      /\ Len(arrivals[b]) = n /\ \E S : arrivals[b] \in Seq(S)
      /\ roundDue[b] \in Seq(Nat) /\ Len(roundDue[b]) <= 1
  <2>1. Len(roundDue[b]) <= notified[b] /\ notified[b] \in 0 .. 1 /\ roundDue[b] \in Seq(Nat)
        BY <1>1, Commanded
  <2>2. Len(roundDue[b]) \in Nat
        BY <2>1
  <2>3. Len(roundDue[b]) <= 1
        BY <2>1, <2>2
  <2> QED BY <2>1, <2>3, Commanded
<1>3. /\ Tail(roundDue[b]) = <<>> /\ 1 \in DOMAIN roundDue[b] /\ roundDue[b][1] = now
      BY <1>1, <1>2
<1>4. n > 0
      BY <1>1, <1>2 DEF PulseInv, Pulse
<1>5. /\ sent'[b] = n + 1 /\ sent'[b] > n /\ \A d \in Bot \ {b} : sent'[d] = sent[d]
      BY <1>1, <1>2 DEF OneInv, BP!TypeOK
<1>6. ASSUME NEW d \in Bot, d # b PROVE Pulse(c, d)'
  <2>1. /\ targetUp'[d] = targetUp[d] /\ roundDue'[d] = roundDue[d] /\ arrivals'[d] = arrivals[d]
        BY <1>1, <1>6, AttackEffect
  <2> QED BY <1>1, <1>5, <1>6, <2>1, PulseKept DEF PulseInv
<1>7. /\ DOMAIN targetUp' = Bot /\ targetUp'[b] = targetUp[b]
      /\ arrivals'[b] = Append(arrivals[b], Larger(now, Max(targetUp[b])) + L)
  <2>1. accepted'[b] > accepted[b]
        BY <1>5, SentIsTaken DEF OneInv, OnceInv, OneTaken, n
  <2> QED BY <1>1, <2>1, AttackEffect
<1>8. roundDue'[b] = <<>> \/ roundDue'[b] = <<now + AttackInterval>>
  <2>1. Append(<<>>, now + AttackInterval) = <<now + AttackInterval>>
        OBVIOUS
  <2> QED BY <1>1, <1>3, <2>1, AttackEffect
<1>9. /\ \A k \in 1 .. n : arrivals'[b][k] = arrivals[b][k]
      /\ arrivals'[b][n + 1] = Larger(now, Max(targetUp[b])) + L
  <2> DEFINE e == Larger(now, Max(targetUp[b])) + L
  <2> HIDE DEF e
  <2>1. PICK S : arrivals[b] \in Seq(S)
        BY <1>2
  <2>2. arrivals'[b] = Append(arrivals[b], e)
        BY <1>7 DEF e
  <2>3. arrivals'[b][n + 1] = e /\ \A k \in 1 .. n : arrivals'[b][k] = arrivals[b][k]
        BY <1>2, <2>1, <2>2, AppendAccess
  <2> QED BY <2>3 DEF e
<1> HIDE DEF n
<1>10. ASSUME b \in Measured' PROVE InStep(c, b)'
  <2>1. b \in Measured /\ InStep(c, b)
    <3>1. b \in Measured
          BY <1>1, <1>10, PulseFrame DEF latencies
    <3> QED BY <1>4, <3>1 DEF PulseInv, Pulse, n
  <2>2. /\ PulseTime(c, 0) \in Nat /\ PulseTime(c, n) \in Nat
        /\ PulseTime(c, n + 1) = PulseTime(c, n) + AttackInterval
        /\ PulseTime(c, n) >= PulseTime(c, 0) + AttackInterval
        BY <1>2, <1>4, PulseTimes DEF OneInv, TimeInv, ScheduleInv
  <2>3. /\ \A k : PulseTime(c, k)' = PulseTime(c, k)
        /\ targetLatency'[b] = L
        BY <1>1, PulseFrame DEF latencies
  <2>4. now + L = PulseTime(c, n)
        BY <1>3, <2>1 DEF InStep, n
  <2>5. targetUp[b] = {PulseTime(c, 0) + L}
        BY <2>1 DEF InStep
  <2>6. PulseTime(c, 0) + L <= now
    <3>1. 2 * L <= AttackInterval
          BY <1>2 DEF Timely
    <3> QED BY <1>2, <2>2, <2>4, <3>1, TimeAssumption
  <2>7. Larger(now, Max(targetUp[b])) = now
    <3>1. PulseTime(c, 0) + L \in Nat
          BY <1>2, <2>2
    <3>2. Max(targetUp[b]) = PulseTime(c, 0) + L
          BY <2>5, <3>1, MaxSingleton
    <3> QED BY <1>2, <2>6, <3>1, <3>2 DEF Larger
  <2>8. arrivals'[b][n + 1] = PulseTime(c, n)
        BY <1>9, <2>4, <2>7
  <2>9. arrivals'[b][1] = PulseTime(c, 0) + 2 * L
        BY <1>2, <1>4, <1>9, <2>1 DEF InStep
  <2>10. ASSUME NEW k \in 2 .. n + 1 PROVE arrivals'[b][k] = PulseTime(c, k - 1)
    <3>1. CASE k = n + 1
      <4>1. k - 1 = n
            BY <1>2, <3>1
      <4> QED BY <2>8, <3>1, <4>1
    <3>2. CASE k # n + 1
      <4>1. k \in 1 .. n /\ k \in 2 .. n
            BY <1>2, <2>10, <3>2
      <4> QED BY <1>9, <2>1, <4>1 DEF InStep, n
    <3> QED BY <3>1, <3>2
  <2>11. \A i \in DOMAIN roundDue'[b] : roundDue'[b][i] + L = PulseTime(c, n + 1)
    <3>1. now + AttackInterval + L = PulseTime(c, n + 1)
          BY <1>2, <2>2, <2>4, TimeAssumption
    <3> QED BY <1>8, <3>1
  <2> QED BY <1>5, <1>7, <2>3, <2>5, <2>9, <2>10, <2>11 DEF InStep
<1>11. Pulse(c, b)'
  <2>1. sent'[b] # 0
        BY <1>2, <1>5
  <2>2. notified'[b] = 0 => sent'[b] = 0
        BY <1>1, <1>2, <1>4 DEF PulseInv, Pulse, n
  <2> QED BY <1>10, <2>1, <2>2 DEF Pulse
<1> QED BY <1>6, <1>7, <1>11 DEF PulseInv

(* No other step disturbs the bots, and pings and the schedule come before *)
(* any is commanded.                                                       *)
LEMMA PulseStep ==
    ASSUME NEW c, Controller = {c}, Timely, OneInv(c), PhaseInv(c), LeadInv(c), PulseInv(c),
           OneTaken', [Next]_vars
    PROVE  PulseInv(c)'
<1>1. CASE UNCHANGED <<m_maxDelay, rttVars, latencies, attackVars, sent, notified>>
  <2>1. UNCHANGED <<targetUp, roundDue, arrivals>>
        BY <1>1 DEF attackVars
  <2>2. ASSUME NEW d \in Bot PROVE Pulse(c, d)'
        BY <1>1, <2>1, PulseKept DEF PulseInv
  <2> QED BY <2>1, <2>2 DEF PulseInv
<1>2. CASE UNCHANGED <<attackVars, botVars>> /\ \A b \in Bot : notified[b] = 0
  <2>1. \A b \in Bot : sent[b] = 0
        BY <1>2 DEF PulseInv, Pulse
  <2> QED BY <1>2, <2>1 DEF PulseInv, Pulse, attackVars, botVars
<1>3. CASE ControllerStep(c)
  <2>1. CASE ScheduleBots(c)
    <3>1. \A b \in Bot : notified[b] = 0
          BY <2>1 DEF ScheduleBots, OneInv, OnceInv
    <3> QED BY <1>2, <1>3, <3>1, ControllerFrame
  <2>2. CASE StartController(c) \/ StopController(c) \/ \E b \in Bot : SendCommand(c, b)
    <3>1. UNCHANGED <<m_maxDelay, rttVars, latencies>>
          BY <2>2 DEF StartController, StopController, SendCommand
    <3> QED BY <1>1, <1>3, <3>1, ControllerFrame DEF botVars
  <2> QED BY <1>3, <2>1, <2>2 DEF ControllerStep
<1>4. ASSUME NEW b \in Bot, Ping(b) PROVE PulseInv(c)'
  <2>1. \A d \in Bot : notified[d] = 0
    <3>1. ~Commanding(c)
          BY <1>4, PingsEnd DEF OneInv
    <3> QED BY <3>1 DEF Commanding, OneInv, BP!TypeOK
  <2> QED BY <1>2, <1>4, <2>1, PingFrame
<1>5. CASE BotStep
  <2>1. ASSUME NEW b \in Bot, StartBot(b) \/ StopBot(b) PROVE PulseInv(c)'
    <3>1. UNCHANGED <<attackVars, sent, notified>>
          BY <2>1 DEF StartBot, StopBot, Bots!StartApplication, Bots!StopApplication
    <3> QED BY <1>1, <1>5, <3>1, BotFrame DEF ccVars
  <2> QED BY <1>5, <2>1, FirstPulse, NextPulse DEF BotStep
<1>6. CASE AdvanceTime \/ UNCHANGED vars
      BY <1>1, <1>6 DEF AdvanceTime, vars, ccVars, botVars
<1> QED BY <1>3, <1>4, <1>5, <1>6, StepCases

(* All measured bots are in step with the same pulse.                      *)
LEMMA PulsesMeet ==
    ASSUME NEW c, Controller = {c}, OneInv(c), PulseInv(c)
    PROVE  PulsesAligned
<1>1. SUFFICES ASSUME NEW b \in Measured, NEW d \in Measured,
                      NEW k \in DOMAIN arrivals[b] \intersect DOMAIN arrivals[d]
               PROVE  IF k = 1
                      THEN arrivals[b][1] + 2 * targetLatency[d]
                             = arrivals[d][1] + 2 * targetLatency[b]
                      ELSE arrivals[b][k] = arrivals[d][k]
      BY DEF PulsesAligned
<1>2. ASSUME NEW x \in Measured, NEW i \in DOMAIN arrivals[x]
      PROVE  /\ 2 * targetLatency[x] \in Nat /\ i \in Nat \ {0}
             /\ arrivals[x][1] = PulseTime(c, 0) + 2 * targetLatency[x]
             /\ i # 1 => arrivals[x][i] = PulseTime(c, i - 1)
  <2>1. x \in Bot
        BY DEF Measured, OneInv, KnownInv
  <2>2. i \in 1 .. sent[x] /\ sent[x] \in Nat /\ 2 * targetLatency[x] \in Nat
    <3>1. PICK S : arrivals[x] \in Seq(S)
          BY <2>1, Commanded
    <3> QED BY <1>2, <2>1, <3>1, Commanded
  <2>3. InStep(c, x)
        BY <2>1, <2>2 DEF PulseInv, Pulse
  <2>4. i # 1 => i \in 2 .. sent[x]
        BY <2>2
  <2> QED BY <2>2, <2>3, <2>4 DEF InStep
<1>3. PulseTime(c, 0) \in Nat
      BY PulseTimes DEF OneInv, TimeInv, ScheduleInv
<1>4. CASE k = 1
      BY <1>2, <1>3, <1>4
<1>5. CASE k # 1
      BY <1>2, <1>5
<1> QED BY <1>4, <1>5

(* With one controller, pings that end before ScheduleBots and handshakes  *)
(* that take no longer than AttackTime and AttackInterval, the packets of  *)
(* measured bots reach the target as one pulse per round, whatever their   *)
(* latencies and whichever pings of other bots were lost.                  *)
THEOREM PulsesAlignedHolds ==
    ASSUME NEW c, Controller = {c}, Timely
    PROVE  Spec => []PulsesAligned
<1> DEFINE Chain == /\ KnownInv /\ StoppedInv /\ OnceInv(c) /\ ArrivalInv
                    /\ PhaseInv(c) /\ LeadInv(c) /\ PulseInv(c)
<1>1. Init => Chain
  <2> SUFFICES ASSUME Init PROVE Chain
      OBVIOUS
  <2>1. /\ DOMAIN m_send_events[c] = {} /\ commands = {} /\ arrivals = [b \in Bot |-> <<>>]
        /\ DOMAIN m_ccRttTable = {}
        /\ targetUp = [b \in Bot |-> {}] /\ roundDue = [b \in Bot |-> <<>>]
        BY DEF Init, NoBots
  <2>2. \A b \in Bot : notified[b] = 0 /\ sent[b] = 0 /\ accepted[b] = 0
        BY DEF Init, Bots!Init
  <2>3. OnceInv(c) /\ ArrivalInv
        BY <2>1, <2>2 DEF OnceInv, ArrivalInv
  <2>4. PhaseInv(c) /\ LeadInv(c)
        BY <2>1, <2>2 DEF PhaseInv, LeadInv, Commanding
  <2>5. PulseInv(c)
        BY <2>1, <2>2 DEF PulseInv, Pulse
  <2> QED BY <2>3, <2>4, <2>5, InvInit
<1>2. /\ Chain /\ TimeInv /\ BP!TypeOK /\ BP!OneCommandOneAttack /\ BP!OneCommandOneAttack'
      /\ [Next]_vars
      => Chain'
  <2> SUFFICES ASSUME Chain, TimeInv, BP!TypeOK, BP!OneCommandOneAttack,
                      BP!OneCommandOneAttack', [Next]_vars
               PROVE  Chain'
      OBVIOUS
  <2>1. OneInv(c)
        BY DEF OneInv
  <2>2. KnownInv' /\ StoppedInv' /\ OnceInv(c)' /\ ArrivalInv'
        BY KnownStep, StoppedStep, OnceStep, ArrivalStep
  <2>3. OneTaken'
        BY <2>2 DEF OneTaken, OnceInv
  <2>4. PhaseInv(c)' /\ LeadInv(c)' /\ PulseInv(c)'
        BY <2>1, <2>3, PhaseStep, LeadStep, PulseStep
  <2> QED BY <2>2, <2>4
<1>3. Chain /\ TimeInv /\ BP!TypeOK /\ BP!OneCommandOneAttack => PulsesAligned
      BY PulsesMeet DEF OneInv
<1>4. BP!Spec => []BP!OneCommandOneAttack
      BY BotAssumptions, BP!OneCommandOneAttackHolds
<1> HIDE DEF Chain
<1> QED BY <1>1, <1>2, <1>3, <1>4, TimeInvariance, ImplementsProvedBots, PTL DEF Spec
=============================================================================
