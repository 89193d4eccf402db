----------------------------- MODULE PulsingBot -----------------------------
(***************************************************************************)
(* The bots of the pulsing attack (botnet/model/pulsingattackbot.cc).  A   *)
(* bot waits for data from the controller and then sends Rounds packets to *)
(* the target, one per AttackInterval.                                     *)
(*                                                                         *)
(* The socket layer calls ReceivePacketCC once per arrival of data, not    *)
(* once per command: a command of two segments, or a second controller,    *)
(* notifies twice.  Every notification that finds m_rounds positive starts *)
(* a chain of SendPacketTarget events of its own.  All chains have the     *)
(* same interval, so their events run in the order they were scheduled and *)
(* m_send_event, which keeps the last one only, is the last of them.       *)
(*                                                                         *)
(* Every such notification also calls Connect, on the same target socket.  *)
(* What Connect and Send then do is ns-3's TcpSocketBase: a socket that    *)
(* has no connection starts a handshake and takes data from then on; one   *)
(* still in its handshake sends the SYN again; one that is established     *)
(* resets the connection and takes no data until it connects anew.  The    *)
(* target answers every handshake.                                         *)
(***************************************************************************)
EXTENDS Naturals

CONSTANTS
    Bot,              \* the bots
    Rounds,           \* the attribute m_rounds starts from
    RoundLimit,       \* 2^16: m_rounds is a uint16_t
    MaxNotifications, \* bound: data notifications per bot
    MaxSent           \* bound: packets per bot

ASSUME RoundAssumption == RoundLimit \in Nat /\ Rounds \in 0 .. RoundLimit - 1
ASSUME BotBoundAssumption == MaxNotifications \in Nat /\ MaxSent \in Nat

VARIABLES
    appState,        \* the application: idle, or running
    m_rounds,        \* rounds left, modulo RoundLimit
    pending,         \* SendPacketTarget events that are scheduled
    m_target_socket, \* new, connected (or in its handshake), or closed
    sent,            \* history: packets handed to the socket of the target
    accepted,        \* history: those of them the socket has taken
    notified,        \* history: calls of ReceivePacketCC
    sim              \* the simulator: running, or crashed

vars == <<appState, m_rounds, pending, m_target_socket, sent, accepted, notified, sim>>

Init ==
    /\ appState = [b \in Bot |-> "idle"]
    /\ m_rounds = [b \in Bot |-> Rounds]
    /\ pending = [b \in Bot |-> 0]
    /\ m_target_socket = [b \in Bot |-> "new"]
    /\ sent = [b \in Bot |-> 0]
    /\ accepted = [b \in Bot |-> 0]
    /\ notified = [b \in Bot |-> 0]
    /\ sim = "running"

-----------------------------------------------------------------------------
(* The operators called ...Mistake are plausible errors in the definition  *)
(* they precede; each makes TLC refute a property that should catch it.    *)

DecrementedMistake(n) == n - 1   \* forgets the width of the counter

(* m_rounds-- on a uint16_t. *)
Decremented(n) == IF n = 0 THEN RoundLimit - 1 ELSE n - 1

StartApplication(b) ==
    /\ sim = "running"
    /\ appState[b] = "idle"
    /\ appState' = [appState EXCEPT ![b] = "running"]
    /\ UNCHANGED <<m_rounds, pending, m_target_socket, sent, accepted, notified, sim>>

Running(b) == sim = "running" /\ appState[b] = "running"

(* Connects the target socket, whatever it is connected to already.  The   *)
(* result is logged only.                                                  *)
Connect(b) ==
    \E outcome \in IF m_target_socket[b] = "connected"
                   THEN {"connected", "closed"} ELSE {"connected"} :
      m_target_socket' = [m_target_socket EXCEPT ![b] = outcome]

(* Send fails on a socket that is closed. *)
SentRound(b, left, due) ==
    /\ sent[b] < MaxSent
    /\ sent' = [sent EXCEPT ![b] = @ + 1]
    /\ accepted' = [accepted EXCEPT ![b] =
         IF m_target_socket'[b] = "connected" THEN @ + 1 ELSE @]
    /\ m_rounds' = [m_rounds EXCEPT ![b] = left]
    /\ pending' = [pending EXCEPT ![b] = due]

(* Tests m_rounds before decrementing it. *)
SendRoundTestMistake(b, others) ==
    SentRound(b, Decremented(m_rounds[b]), IF m_rounds[b] > 0 THEN others + 1 ELSE others)

(* Does not schedule the next round. *)
SendRoundLastMistake(b, others) == SentRound(b, Decremented(m_rounds[b]), others)

(* The body of SendPacketTarget, when others further events are pending.   *)
(* A failed Send counts as a round too.                                    *)
SendRound(b, others) ==
    LET left == Decremented(m_rounds[b]) IN
    SentRound(b, left, IF left > 0 THEN others + 1 ELSE others)

(* Connects, and sends the first round from within the notification. *)
ReceivePacketCC(b) ==
    /\ Running(b)
    /\ notified[b] < MaxNotifications
    /\ notified' = [notified EXCEPT ![b] = @ + 1]
    /\ IF m_rounds[b] > 0 THEN Connect(b) /\ SendRound(b, pending[b])
       ELSE UNCHANGED <<m_rounds, pending, m_target_socket, sent, accepted>>
    /\ UNCHANGED <<appState, sim>>

(* The scheduled event runs whatever m_rounds has become meanwhile. *)
SendPacketTarget(b) ==
    /\ Running(b)
    /\ pending[b] > 0
    /\ UNCHANGED m_target_socket
    /\ SendRound(b, pending[b] - 1)
    /\ UNCHANGED <<appState, notified, sim>>

(* Cancels m_send_event, closes m_target_socket, and then calls Close on   *)
(* m_cc_socket, a null pointer: nothing ever creates that socket.  Nor is  *)
(* there a target socket when StopTime comes before StartTime.             *)
StopApplication(b) ==
    /\ sim = "running"
    /\ pending' = [pending EXCEPT ![b] = IF @ > 0 THEN @ - 1 ELSE 0]
    /\ m_target_socket' =
         [m_target_socket EXCEPT ![b] = IF @ = "connected" THEN "closed" ELSE @]
    /\ sim' = "crashed"
    /\ UNCHANGED <<appState, m_rounds, sent, accepted, notified>>

Next ==
    \E b \in Bot :
      \/ StartApplication(b)
      \/ ReceivePacketCC(b)
      \/ SendPacketTarget(b)
      \/ StopApplication(b)

Spec == Init /\ [][Next]_vars

(* Scheduled events are run; nothing obliges the controller or StopTime.   *)
FairSpec == Spec /\ \A b \in Bot : WF_vars(SendPacketTarget(b))

-----------------------------------------------------------------------------
TypeOK ==
    /\ appState \in [Bot -> {"idle", "running"}]
    /\ m_rounds \in [Bot -> 0 .. RoundLimit - 1]
    /\ pending \in [Bot -> Nat]
    /\ m_target_socket \in [Bot -> {"new", "connected", "closed"}]
    /\ sent \in [Bot -> Nat]
    /\ accepted \in [Bot -> Nat]
    /\ notified \in [Bot -> Nat]
    /\ sim \in {"running", "crashed"}

(* Chains never multiply: only a notification adds one.  And a single one  *)
(* starts exactly one attack: rounds are neither lost nor added, the       *)
(* target socket takes every packet, and no event is left over that would  *)
(* send past the last one.                                                 *)
OneCommandOneAttack ==
    \A b \in Bot :
      /\ pending[b] <= notified[b]
      /\ notified[b] <= 1 => /\ m_rounds[b] + sent[b] = Rounds
                             /\ accepted[b] = sent[b]
                             /\ m_rounds[b] = 0 => pending[b] = 0

(* However many chains share m_rounds, one of them goes on as long as it   *)
(* is positive, and each that finds it at 0 ends or wraps it: a second     *)
(* notification makes the attack one turn of the counter longer at most.   *)
ChainsEndAtZero ==
    \A b \in Bot : notified[b] > 0 =>
      /\ sim = "running" /\ m_rounds[b] > 0 => pending[b] > 0
      /\ sent[b] <= Rounds + (notified[b] - 1) * RoundLimit

(* A bot that has been notified sends every round, and the socket takes    *)
(* them all if no other notification connects it again, unless the         *)
(* simulation ends.                                                        *)
EveryRoundIsSent ==
    \A b \in Bot : notified[b] > 0 ~>
      \/ sent[b] >= Rounds /\ (notified[b] > 1 \/ accepted[b] >= Rounds)
      \/ sim = "crashed"

(* A claim the code does not keep; the README says what happens instead.   *)

(* "The number of attack rounds": the target gets no more packets of a bot *)
(* than that.                                                              *)
AtMostRounds == \A b \in Bot : accepted[b] <= Rounds
=============================================================================
