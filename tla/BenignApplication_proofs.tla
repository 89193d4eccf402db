----------------------- MODULE BenignApplication_proofs -----------------------
(***************************************************************************)
(* What BenignApplication keeps for all streams, rates, buffers and any    *)
(* resolution of the clock, the default ones of the code included.         *)
(***************************************************************************)
EXTENDS BenignApplication, TLAPS

(* The wait for a packet covers its bits at the largest rate, but for the  *)
(* fraction of a tick that the division drops.                             *)
WaitCovers ==
    m_send_event \in Nat => 8 * m_current_packet_size * Second <= MaxRate * (m_send_event + 1)

IInv == TypeOK /\ SilenceHasACause /\ WaitCovers /\ PacedByRate

-----------------------------------------------------------------------------
(* What Truncated returns fits the attribute's 16 bits. *)
LEMMA TruncatedType ==
    ASSUME NEW drawn \in Nat
    PROVE  Truncated(drawn) \in 0 .. SizeLimit - 1
BY WidthAssumption DEF Truncated

(* The wait of Wait is a number of ticks, and at most one tick too short.  *)
LEMMA WaitBounds ==
    ASSUME NEW size \in Nat, NEW rate \in 1 .. MaxRate
    PROVE  /\ Wait(size, rate) \in Nat
           /\ 8 * size * Second <= MaxRate * (Wait(size, rate) + 1)
<1> DEFINE bits == size * 8 * Second
           w == bits \div rate
<1>1. bits \in Nat /\ rate \in Nat /\ rate > 0 /\ MaxRate \in Nat /\ rate <= MaxRate
      BY WidthAssumption
<1>2. w \in Nat /\ bits <= rate * (w + 1)
  <2> HIDE DEF bits
  <2> QED BY <1>1
<1>3. rate * (w + 1) <= MaxRate * (w + 1)
  <2> HIDE DEF w
  <2> QED BY <1>1, <1>2
<1>4. bits = 8 * size * Second
      BY WidthAssumption
<1>5. Wait(size, rate) = w
      BY DEF Wait
<1> HIDE DEF bits, w
<1> QED BY <1>1, <1>2, <1>3, <1>4, <1>5

(* ScheduleNext leaves a packet and a wait of their types behind, and the  *)
(* wait covers the packet.                                                 *)
LEMMA ScheduleNextEffect ==
    ASSUME TypeOK, ScheduleNext
    PROVE  /\ m_current_packet_size' \in 0 .. SizeLimit - 1
           /\ m_send_event' \in Nat \union {Never}
           /\ sim' \in {sim, "running", "aborted"}
           /\ WaitCovers'
<1>1. PICK drawn \in m_packet_size_rv, rate \in m_data_rate_rv :
        LET size == Truncated(drawn) IN
        /\ m_current_packet_size' = size
        /\ \/ rate > 0 /\ m_send_event' = Wait(size, rate) /\ UNCHANGED sim
           \/ rate = 0 /\ m_send_event' = Never /\ sim' \in {"running", "aborted"}
      BY DEF ScheduleNext
<1>2. drawn \in Nat /\ rate \in 0 .. MaxRate
      BY DEF TypeOK
<1>3. Truncated(drawn) \in 0 .. SizeLimit - 1 /\ Truncated(drawn) \in Nat
      BY <1>2, TruncatedType, WidthAssumption
<1>4. CASE rate > 0 /\ m_send_event' = Wait(Truncated(drawn), rate) /\ UNCHANGED sim
  <2>1. rate \in 1 .. MaxRate
        BY <1>2, <1>4, WidthAssumption
  <2>2. /\ Wait(Truncated(drawn), rate) \in Nat
        /\ 8 * Truncated(drawn) * Second <= MaxRate * (Wait(Truncated(drawn), rate) + 1)
        BY <1>3, <2>1, WaitBounds
  <2> QED BY <1>1, <1>3, <1>4, <2>2 DEF WaitCovers
<1>5. CASE m_send_event' = Never /\ sim' \in {"running", "aborted"}
      BY <1>1, <1>3, <1>5, EventAssumption DEF WaitCovers
<1> QED BY <1>1, <1>4, <1>5

(* The first packet: nothing was sent yet, or the simulation has ended.    *)
LEMMA StartApplicationKeeps ==
    ASSUME IInv, StartApplication
    PROVE  IInv'
<1>1. CASE OtherName \in {m_packet_size_rv_type, m_data_rate_rv_type}
      BY <1>1 DEF IInv, StartApplication, SetRandomStreamAttributes, TypeOK, SilenceHasACause,
         WaitCovers, PacedByRate, attributes, history
<1>2. CASE OtherName \notin {m_packet_size_rv_type, m_data_rate_rv_type}
  <2>1. m_target_socket' \in {"open", "dead"} /\ ScheduleNext
        BY <1>2 DEF StartApplication
  <2>2. /\ m_current_packet_size' \in 0 .. SizeLimit - 1
        /\ m_send_event' \in Nat \union {Never}
        /\ sim' \in {sim, "running", "aborted"}
        /\ WaitCovers'
        BY <2>1, ScheduleNextEffect DEF IInv
  <2>3. TypeOK'
        BY <2>1, <2>2 DEF IInv, StartApplication, SetRandomStreamAttributes, TypeOK, attributes,
           history
  <2>4. SilenceHasACause'
        BY <2>1, <2>2, EventAssumption DEF SilenceHasACause
  <2>5. PacedByRate'
        BY DEF IInv, StartApplication, PacedByRate, history
  <2> QED BY <2>2, <2>3, <2>4, <2>5 DEF IInv
<1> QED BY <1>1, <1>2

(* A packet that is sent adds its bits on one side of PacedByRate and its  *)
(* wait on the other.                                                      *)
LEMMA SentKeepsPace ==
    ASSUME NEW s \in Nat, NEW p \in Nat, NEW e \in Nat, NEW size \in Nat, NEW wait \in Nat,
           8 * s * Second <= MaxRate * (e + p),
           8 * size * Second <= MaxRate * (wait + 1)
    PROVE  8 * (s + size) * Second <= MaxRate * ((e + wait) + (p + 1))
<1> DEFINE a == s * Second
           b == size * Second
           c == MaxRate * (e + p)
           d == MaxRate * (wait + 1)
<1>1. a \in Nat /\ b \in Nat /\ c \in Nat /\ d \in Nat
      BY WidthAssumption
<1>2. 8 * s * Second = 8 * a /\ 8 * size * Second = 8 * b
      BY WidthAssumption
<1>3. 8 * (s + size) * Second = 8 * a + 8 * b
      BY WidthAssumption
<1>4. MaxRate * ((e + wait) + (p + 1)) = c + d
      BY WidthAssumption
<1>5. 8 * a <= c /\ 8 * b <= d
      BY <1>2
<1> HIDE DEF a, b, c, d
<1> QED BY <1>1, <1>3, <1>4, <1>5

(* A Send that fails ends the traffic and says so; one that succeeds has   *)
(* waited for its bits, and schedules the next.                            *)
LEMMA SendPacketKeeps ==
    ASSUME IInv, SendPacket
    PROVE  IInv'
<1>1. m_send_event \in Nat /\ m_current_packet_size \in Nat
      BY WidthAssumption DEF IInv, SendPacket, TypeOK
<1>2. CASE ~Accepted
      BY <1>2, EventAssumption DEF IInv, SendPacket, GivesUp, TypeOK, SilenceHasACause,
         WaitCovers, PacedByRate, attributes, streams
<1>3. CASE Accepted
  <2>1. ScheduleNext
        BY <1>3 DEF SendPacket, GivesUp
  <2>2. /\ m_current_packet_size' \in 0 .. SizeLimit - 1
        /\ m_send_event' \in Nat \union {Never}
        /\ sim' \in {sim, "running", "aborted"}
        /\ WaitCovers'
        BY <2>1, ScheduleNextEffect DEF IInv
  <2>3. /\ buffered' = buffered + m_current_packet_size
        /\ packets' = packets + 1
        /\ sent' = sent + m_current_packet_size
        /\ elapsed' = elapsed + m_send_event
        /\ m_target_socket = "open" /\ m_target_socket' = "open"
        /\ buffered + m_current_packet_size <= BufferSize
        /\ failed' = FALSE
        BY <1>3 DEF SendPacket, Accepted
  <2>4. TypeOK'
    <3>1. buffered' \in 0 .. BufferSize
          BY <1>1, <2>3, WidthAssumption DEF IInv, TypeOK
    <3>2. packets' \in Nat /\ sent' \in Nat /\ elapsed' \in Nat
          BY <1>1, <2>3 DEF IInv, TypeOK
    <3> QED BY <2>2, <2>3, <3>1, <3>2 DEF IInv, TypeOK, SendPacket, attributes, streams
  <2>5. SilenceHasACause'
        BY <2>2, <2>3, EventAssumption DEF SilenceHasACause
  <2>6. PacedByRate'
    <3>1. sent \in Nat /\ packets \in Nat /\ elapsed \in Nat
          BY DEF IInv, TypeOK
    <3>2. /\ 8 * sent * Second <= MaxRate * (elapsed + packets)
          /\ 8 * m_current_packet_size * Second <= MaxRate * (m_send_event + 1)
          BY <1>1 DEF IInv, PacedByRate, WaitCovers
    <3>3. 8 * (sent + m_current_packet_size) * Second
            <= MaxRate * ((elapsed + m_send_event) + (packets + 1))
          BY <1>1, <3>1, <3>2, SentKeepsPace
    <3> QED BY <2>3, <3>3 DEF PacedByRate
  <2> QED BY <2>2, <2>4, <2>5, <2>6 DEF IInv
<1> QED BY <1>2, <1>3

(* Stopping cancels the only event there is. *)
LEMMA StopApplicationKeeps ==
    ASSUME IInv, StopApplication
    PROVE  IInv'
BY EventAssumption DEF IInv, StopApplication, CancelEvent, TypeOK, SilenceHasACause,
   WaitCovers, PacedByRate, attributes, streams, history

(* The network changes nothing these invariants relate but the socket.     *)
LEMMA NetworkKeeps ==
    ASSUME IInv, Drain \/ Disconnect
    PROVE  IInv'
<1>1. /\ buffered' \in 0 .. BufferSize
      /\ m_target_socket' \in {m_target_socket, "dead"}
      /\ m_target_socket' = "dead" => m_target_socket \in {"open", "dead"}
      BY WidthAssumption DEF IInv, Drain, Disconnect, TypeOK
<1>2. UNCHANGED <<started, stopped, attributes, streams, next, history>>
      BY DEF Drain, Disconnect
<1>3. TypeOK'
      BY <1>1, <1>2 DEF IInv, TypeOK, attributes, streams, next, history
<1>4. SilenceHasACause' /\ WaitCovers' /\ PacedByRate'
      BY <1>1, <1>2 DEF IInv, TypeOK, SilenceHasACause, WaitCovers, PacedByRate,
         next, history
<1> QED BY <1>3, <1>4 DEF IInv

-----------------------------------------------------------------------------
(* The inductive invariant holds in every state. *)
THEOREM Invariance == Spec => []IInv
<1>1. Init => IInv
  <2> SUFFICES ASSUME Init PROVE IInv
      OBVIOUS
  <2>1. TypeOK
    <3>1. 0 \in 0 .. SizeLimit - 1 /\ 0 \in 0 .. BufferSize
          BY WidthAssumption
    <3>2. m_current_packet_size \in 0 .. SizeLimit - 1 /\ buffered \in 0 .. BufferSize
          BY <3>1 DEF Init
    <3>3. m_packet_size_rv \subseteq Nat /\ m_data_rate_rv \subseteq 0 .. MaxRate
          BY StreamAssumption DEF Init
    <3>4. {m_packet_size_rv_type, m_data_rate_rv_type} \subseteq RvType \union {OtherName}
          BY DEF Init
    <3> QED BY <3>2, <3>3, <3>4 DEF Init, TypeOK
  <2>2. SilenceHasACause /\ WaitCovers
        BY EventAssumption DEF Init, SilenceHasACause, WaitCovers
  <2>3. PacedByRate
    <3>1. 8 * 0 * Second = 0 /\ MaxRate * (0 + 0) = 0
          BY WidthAssumption
    <3> QED BY <3>1 DEF Init, PacedByRate
  <2> QED BY <2>1, <2>2, <2>3 DEF IInv
<1>2. IInv /\ [Next]_vars => IInv'
  <2> SUFFICES ASSUME IInv, [Next]_vars PROVE IInv'
      OBVIOUS
  <2>1. CASE StartApplication
        BY <2>1, StartApplicationKeeps
  <2>2. CASE SendPacket
        BY <2>2, SendPacketKeeps
  <2>3. CASE StopApplication
        BY <2>3, StopApplicationKeeps
  <2>4. CASE Drain \/ Disconnect
        BY <2>4, NetworkKeeps
  <2>5. CASE UNCHANGED vars
        BY <2>5 DEF IInv, TypeOK, SilenceHasACause, WaitCovers, PacedByRate, vars,
           attributes, streams, next, history
  <2> QED BY <2>1, <2>2, <2>3, <2>4, <2>5 DEF Next
<1> QED BY <1>1, <1>2, PTL DEF Spec

(* The types, with sizes cut to their 16 bits and the buffer never overrun.*)
THEOREM TypeCorrect == Spec => []TypeOK
BY Invariance, PTL DEF IInv

(* Only a failed Send, a rate of 0 or a stop ends the traffic.             *)
THEOREM SilenceHasACauseHolds == Spec => []SilenceHasACause
BY Invariance, PTL DEF IInv

(* The traffic never exceeds the largest rate, whatever sizes are drawn.   *)
THEOREM PacedByRateHolds == Spec => []PacedByRate
BY Invariance, PTL DEF IInv
=============================================================================
