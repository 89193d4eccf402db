-------------------------- MODULE BenignApplication --------------------------
(***************************************************************************)
(* Background traffic (botnet/model/benignapplication.cc): one application *)
(* sends packets of random size over a TCP socket and waits before each as *)
(* long as its bits take at a random rate.  Each SendPacket that succeeds  *)
(* schedules the next, so at most one event is pending.                    *)
(*                                                                         *)
(* A random variable stream is the set of integers it may return.  TCP is  *)
(* a send buffer that the network drains, and a connection that may fail.  *)
(***************************************************************************)
EXTENDS Naturals

CONSTANTS
    RvType,     \* the names SetRandomStreamAttributes compares rv_type with
    OtherName,  \* any other name
    SizeOf,     \* SizeOf[t]: a stream of type t with PacketSizeMean and -StdDev
    Sizes,      \* the stream of the attribute PacketSizeRandomVariable
    Rates,      \* the stream of the attribute DataRateRandomVariable
    MaxRate,    \* no stream of rates returns more
    SizeLimit,  \* 2^16: m_current_packet_size is a uint16_t
    Second,     \* the resolution of the simulator's clock
    BufferSize, \* the send buffer of the socket
    None,       \* no event is pending
    Never,      \* the due time of an event that is pending and does not run
    MaxPackets  \* bound: calls of SendPacket

ASSUME StreamAssumption == Sizes \subseteq Nat /\ Rates \subseteq 0 .. MaxRate
ASSUME NameAssumption == OtherName \notin RvType /\ SizeOf \in [RvType -> SUBSET Nat]
ASSUME WidthAssumption ==
    MaxRate \in Nat /\ Second \in Nat /\ SizeLimit \in Nat \ {0} /\ BufferSize \in Nat
ASSUME EventAssumption == None # Never /\ None \notin Nat /\ Never \notin Nat

VARIABLES
    started, stopped,      \* the two calls of the simulator have been made
    m_packet_size_rv_type, \* the attributes of that name, set before the run
    m_data_rate_rv_type,
    m_packet_size_rv,      \* the stream sizes are drawn from
    m_data_rate_rv,        \* the stream rates are drawn from
    m_current_packet_size, \* of the packet to send next
    m_send_event,          \* how long from its scheduling SendPacket will run
    m_target_socket,       \* none, open, dead (not or no longer connected), closed
    buffered,              \* bytes in its send buffer
    failed,                \* history: a Send returned -1
    packets, sent,         \* history: packets sent, and their bytes
    elapsed,               \* history: the waits before them
    sim                    \* the simulator: running, exited or aborted

attributes == <<m_packet_size_rv_type, m_data_rate_rv_type>>
streams == <<m_packet_size_rv, m_data_rate_rv>>
next == <<m_current_packet_size, m_send_event, sim>>
history == <<failed, packets, sent, elapsed>>
vars == <<started, stopped, attributes, streams, next, m_target_socket, buffered, history>>

Init ==
    /\ started = FALSE /\ stopped = FALSE
    /\ m_packet_size_rv_type \in RvType \union {OtherName}
    /\ m_data_rate_rv_type \in RvType \union {OtherName}
    /\ m_packet_size_rv = Sizes /\ m_data_rate_rv = Rates
    /\ m_current_packet_size = 0 /\ m_send_event = None
    /\ m_target_socket = "none" /\ buffered = 0
    /\ failed = FALSE /\ packets = 0 /\ sent = 0 /\ elapsed = 0
    /\ sim = "running"

-----------------------------------------------------------------------------
(* The operators called ...Mistake are plausible errors in the definition  *)
(* they precede; each makes TLC refute a property that should catch it.    *)

WaitMistake(size, rate) == (m_current_packet_size * 8 * Second) \div rate  \* of the last packet

(* bits / m_instant_data_rate.GetBitRate(), for the packet it delays. *)
Wait(size, rate) == (size * 8 * Second) \div rate

TruncatedMistake(drawn) == drawn   \* a wider m_current_packet_size

(* GetInteger has 32 bits, m_current_packet_size 16. *)
Truncated(drawn) == drawn % SizeLimit

(* A rate of 0 makes the wait infinite, or no number at all: its conversion *)
(* to Time is undefined, and the event never runs or an assertion fails.    *)
ScheduleNext ==
    \E drawn \in m_packet_size_rv, rate \in m_data_rate_rv :
      LET size == Truncated(drawn) IN
      /\ m_current_packet_size' = size
      /\ \/ rate > 0 /\ m_send_event' = Wait(size, rate) /\ UNCHANGED sim
         \/ rate = 0 /\ m_send_event' = Never /\ sim' \in {"running", "aborted"}

(* Creates a stream of the type and assigns it to its own parameter, a     *)
(* copy of the pointer: what the caller's pointer refers to stays.         *)
SetRandomStreamAttributes(rv_stream, rv_type) == rv_stream

(* A Connect that fails is only logged.  An unknown type is exit(1).       *)
StartApplication ==
    /\ sim = "running" /\ ~started
    /\ started' = TRUE
    /\ m_packet_size_rv' = SetRandomStreamAttributes(m_packet_size_rv, m_packet_size_rv_type)
    /\ m_data_rate_rv' = SetRandomStreamAttributes(m_data_rate_rv, m_data_rate_rv_type)
    /\ IF OtherName \in {m_packet_size_rv_type, m_data_rate_rv_type}
       THEN sim' = "exited" /\ UNCHANGED <<m_current_packet_size, m_send_event, m_target_socket>>
       ELSE m_target_socket' \in {"open", "dead"} /\ ScheduleNext
    /\ UNCHANGED <<stopped, attributes, buffered, history>>

(* Socket::Send takes the packet, if connected and if there is room. *)
Accepted == m_target_socket = "open" /\ buffered + m_current_packet_size <= BufferSize

GivesUpMistake == ~Accepted \/ m_current_packet_size = 0   \* ret <= 0

(* ret == -1; Send returns the size of a packet it takes. *)
GivesUp == ~Accepted

SendPacket ==
    /\ sim = "running"
    /\ m_send_event \notin {None, Never}
    /\ packets < MaxPackets
    /\ failed' = ~Accepted
    /\ IF Accepted
       THEN /\ buffered' = buffered + m_current_packet_size
            /\ packets' = packets + 1
            /\ sent' = sent + m_current_packet_size
            /\ elapsed' = elapsed + m_send_event
       ELSE UNCHANGED <<buffered, packets, sent, elapsed>>
    /\ IF GivesUp THEN m_send_event' = None /\ UNCHANGED <<m_current_packet_size, sim>>
       ELSE ScheduleNext
    /\ UNCHANGED <<started, stopped, attributes, streams, m_target_socket>>

CancelEventMistake == UNCHANGED m_send_event

CancelEvent == m_send_event' = None

(* Called at StopTime, which may precede StartTime. *)
StopApplication ==
    /\ sim = "running" /\ ~stopped
    /\ stopped' = TRUE
    /\ CancelEvent
    /\ m_target_socket' = IF m_target_socket = "none" THEN "none" ELSE "closed"
    /\ UNCHANGED <<started, attributes, streams, m_current_packet_size, sim, buffered, history>>

(* The peer acknowledges data. *)
Drain ==
    /\ sim = "running" /\ m_target_socket \in {"open", "closed"}
    /\ buffered > 0
    /\ buffered' \in 0 .. buffered - 1
    /\ UNCHANGED <<started, stopped, attributes, streams, next, m_target_socket, history>>

(* The peer resets the connection, or does not answer for too long. *)
Disconnect ==
    /\ sim = "running" /\ m_target_socket = "open"
    /\ m_target_socket' = "dead"
    /\ UNCHANGED <<started, stopped, attributes, streams, next, buffered, history>>

Next == StartApplication \/ SendPacket \/ StopApplication \/ Drain \/ Disconnect

Spec == Init /\ [][Next]_vars

(* A scheduled event runs; nothing obliges StopTime, or the network.       *)
FairSpec == Spec /\ WF_vars(SendPacket)

-----------------------------------------------------------------------------
TypeOK ==
    /\ {started, stopped, failed} \subseteq BOOLEAN
    /\ {m_packet_size_rv_type, m_data_rate_rv_type} \subseteq RvType \union {OtherName}
    /\ m_packet_size_rv \subseteq Nat /\ m_data_rate_rv \subseteq 0 .. MaxRate
    /\ m_current_packet_size \in 0 .. SizeLimit - 1
    /\ m_send_event \in Nat \union {None, Never}
    /\ m_target_socket \in {"none", "open", "dead", "closed"}
    /\ buffered \in 0 .. BufferSize
    /\ packets \in Nat /\ sent \in Nat /\ elapsed \in Nat
    /\ sim \in {"running", "exited", "aborted"}

(* An application that has started is silent from its stop on, and before  *)
(* only after a Send returned -1, or for good when a rate of 0 was drawn.  *)
SilenceHasACause ==
    /\ m_target_socket = "closed" => m_send_event = None
    /\ sim = "running" /\ m_target_socket \in {"open", "dead"} /\ m_send_event = None => failed

(* Every packet waits for its own bits, cut to 16 bits or not: the traffic *)
(* is at no time ahead of the largest rate, a tick per packet aside.       *)
PacedByRate == 8 * sent * Second <= MaxRate * (elapsed + packets)

(* Traffic goes on, through empty packets too, until something ends it.    *)
Ended ==
    \/ packets = MaxPackets \/ failed \/ m_send_event = Never
    \/ m_target_socket = "closed" \/ sim # "running"

TrafficGoesOn == started ~> Ended

-----------------------------------------------------------------------------
(* A claim the code does not keep; the README says what happens instead.   *)

(* PacketSizeRandomVariableType: "If the user wants to change the random   *)
(* variable type for the packet size, this value should be changed."       *)
ConfiguredTypeIsUsed ==
    m_send_event # None =>
      m_current_packet_size \in {Truncated(s) : s \in SizeOf[m_packet_size_rv_type]}
=============================================================================
