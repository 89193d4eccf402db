---------------------------- MODULE V4TraceRoute ----------------------------
(***************************************************************************)
(* The traceroute applications of one node (botnet/changes/v4traceroute.cc)*)
(* An application sends echo requests of growing TTL, ProbeNum per hop and *)
(* one at a time, and fires the Route trace source with the address that   *)
(* answers the last probe of a hop.                                        *)
(*                                                                         *)
(* Every raw socket of a node is handed every ICMP message that arrives    *)
(* there, in one event.  Applications number their probes from zero, and   *)
(* a time-exceeded message is matched by that number only.                 *)
(***************************************************************************)
EXTENDS Naturals, Sequences

CONSTANTS
    App,        \* the V4TraceRoute applications of the node
    Hops,       \* Hops[t]: the routers on the way to the remote of t
    Remote,     \* Remote[t]: m_remote
    MaxHop,     \* m_maxTtl
    ProbeNum,   \* m_maxProbes
    Verbose,    \* the applications with m_verbose
    SeqLimit,   \* 2^16: m_seq is a uint16_t
    Scenario    \* what may happen in a run, see ScenarioAssumption

ASSUME ProbeAssumption == MaxHop \in Nat \ {0} /\ ProbeNum \in Nat \ {0}
ASSUME SeqAssumption == SeqLimit \in Nat /\ SeqLimit > MaxHop * ProbeNum + 1
ASSUME VerboseAssumption == Verbose \subseteq App
FullRoute(t) == Append(Hops[t], Remote[t])

Addresses == UNION {{FullRoute(t)[i] : i \in DOMAIN FullRoute(t)} : t \in App}

ASSUME RouteAssumption == Hops \in [App -> Seq(Addresses)]
ASSUME ScenarioAssumption ==
    Scenario \subseteq
      [running : SUBSET App,   \* the applications that are started
       overlap : BOOLEAN,      \* and may run at the same time
       immediate : SUBSET App, \* m_interval is 0: events they schedule run first
       stoppable : SUBSET App, \* they have a StopTime
       silent : SUBSET App,    \* their remote never answers
       late : BOOLEAN,         \* an answer may be later than m_timeout
       losses : Nat]           \* bound: answers lost

VARIABLES
    scenario,
    m_socket,     \* none, open or closed
    m_seq,        \* the sequence number of the next probe
    m_ttl,
    m_probeCount, \* probes sent with this TTL
    m_sent,       \* sequence numbers of the probes looked up on an answer
    m_next,       \* the StartWaitReplyTimer event that can be cancelled
    orphans,      \* earlier ones, scheduled before it and still pending
    timer,        \* is m_waitIcmpReplyTimer running?
    stopping,     \* is a StopApplication event pending?
    replies,      \* the ICMP messages on their way to the node
    losses,       \* answers lost so far
    disturbed,    \* history: those with late answers, or run beside another
    route,        \* history: what the Route trace source has fired
    extra         \* history: answers heard while no probe was waited for

appVars == <<scenario, m_socket, m_seq, m_ttl, m_probeCount, m_sent, m_next, orphans,
             timer, stopping, route, extra>>
vars == <<appVars, replies, losses, disturbed>>

Init ==
    /\ scenario \in Scenario
    /\ m_socket = [t \in App |-> "none"]
    /\ m_seq = [t \in App |-> 0]
    /\ m_ttl = [t \in App |-> 1]
    /\ m_probeCount = [t \in App |-> 0]
    /\ m_sent = [t \in App |-> {}]
    /\ m_next = [t \in App |-> FALSE]
    /\ orphans = [t \in App |-> 0]
    /\ timer = [t \in App |-> FALSE]
    /\ stopping = [t \in App |-> FALSE]
    /\ replies = {}
    /\ losses = 0
    /\ disturbed = {}
    /\ route = [t \in App |-> <<>>]
    /\ extra = [t \in App |-> 0]

Scheduled(t) == m_next[t] \/ orphans[t] > 0 \/ stopping[t]

Quiet(t) == ~Scheduled(t) /\ ~timer[t]

Awaited(t) == \E m \in replies : m.of = t

-----------------------------------------------------------------------------
StartApplication(t) ==
    LET beside == {u \in App \ {t} : ~Quiet(u) \/ Awaited(u)} IN
    /\ t \in scenario.running /\ m_socket[t] = "none"
    /\ beside = {} \/ scenario.overlap
    /\ disturbed' = IF beside = {} THEN disturbed ELSE disturbed \union beside \union {t}
    /\ m_socket' = [m_socket EXCEPT ![t] = "open"]
    /\ m_next' = [m_next EXCEPT ![t] = TRUE]
    /\ UNCHANGED <<scenario, m_seq, m_ttl, m_probeCount, m_sent, orphans, timer, stopping,
                   replies, losses, route, extra>>

(* Schedule(m_interval, StartWaitReplyTimer) for the applications of ts:   *)
(* m_next forgets the event it held, which stays pending.                  *)
ScheduleNext(ts) ==
    /\ m_next' = [t \in App |-> m_next[t] \/ t \in ts]
    /\ orphans' = [t \in App |-> IF t \in ts /\ m_next[t] THEN orphans[t] + 1
                                 ELSE orphans[t]]

(* The operators called ...Mistake are plausible errors in the definition  *)
(* they precede; each makes TLC refute a property that should catch it.    *)

MoreHopsMistake(t) == m_ttl[t] <= MaxHop + 1

MoreHops(t) == m_ttl[t] < MaxHop + 1

CancelTimerMistake(ts) == UNCHANGED timer

(* m_waitIcmpReplyTimer.Cancel() in the applications of ts. *)
CancelTimer(ts) == timer' = [t \in App |-> timer[t] /\ t \notin ts]

HopProbedMistake(t) == m_probeCount[t] > ProbeNum

(* Every probe of the current hop has been sent. *)
HopProbed(t) == m_probeCount[t] >= ProbeNum

(* What the network answers to a probe of t. *)
Answer(t, seq, ttl) ==
    IF ttl <= Len(Hops[t])
    THEN {[kind |-> "exceeded", from |-> Hops[t][ttl], seq |-> seq, of |-> t]}
    ELSE IF t \in scenario.silent THEN {}
    ELSE {[kind |-> "echo", from |-> Remote[t], seq |-> seq, of |-> t]}

Send(t) ==
    LET ttl == IF HopProbed(t) THEN m_ttl[t] + 1 ELSE m_ttl[t]
    IN  /\ m_probeCount' = [m_probeCount EXCEPT ![t] = IF HopProbed(t) THEN 1 ELSE @ + 1]
        /\ m_ttl' = [m_ttl EXCEPT ![t] = ttl]
        /\ m_seq' = [m_seq EXCEPT ![t] = (@ + 1) % SeqLimit]
        /\ m_sent' = [m_sent EXCEPT ![t] = @ \union {m_seq[t]}]
        /\ replies' = replies \union Answer(t, m_seq[t], ttl)

(* The oldest of the pending events runs; it does nothing while a probe is *)
(* being waited for.                                                       *)
StartWaitReplyTimer(t) ==
    /\ IF orphans[t] > 0
       THEN orphans' = [orphans EXCEPT ![t] = @ - 1] /\ UNCHANGED m_next
       ELSE m_next[t] /\ m_next' = [m_next EXCEPT ![t] = FALSE] /\ UNCHANGED orphans
    /\ IF timer[t] THEN UNCHANGED <<m_probeCount, m_ttl, m_seq, m_sent, replies, timer>>
       ELSE Send(t) /\ timer' = [timer EXCEPT ![t] = TRUE]
    /\ UNCHANGED <<scenario, m_socket, stopping, losses, disturbed, route, extra>>

(* Waits again for the answer that did not come. *)
HandleWaitReplyTimeoutMistake(t) ==
    /\ timer[t] /\ (Awaited(t) => scenario.late)
    /\ UNCHANGED vars

HandleWaitReplyTimeout(t) ==
    /\ timer[t] /\ (Awaited(t) => scenario.late)
    /\ disturbed' = IF Awaited(t) THEN disturbed \union {t} ELSE disturbed
    /\ timer' = [timer EXCEPT ![t] = FALSE]
    /\ ScheduleNext({u \in {t} : MoreHops(u)})
    /\ UNCHANGED <<scenario, m_socket, m_seq, m_ttl, m_probeCount, m_sent, stopping,
                   replies, losses, route, extra>>

(* Receive, in every application with an open socket.  An echo reply from  *)
(* the remote ends the wait even when its number is unknown.               *)
Hears(t, m) ==
    /\ m_socket[t] = "open"
    /\ \/ m.kind = "exceeded" /\ m.seq \in m_sent[t]
       \/ m.kind = "echo" /\ m.from = Remote[t]

LastProbe(t) == m_probeCount[t] = ProbeNum

(* Reports a hop once per probe. *)
TracesEveryProbeMistake(t, m) ==
    Hears(t, m) /\ m.seq \in m_sent[t] /\ (m.kind = "exceeded" \/ t \in Verbose)

(* Reports the routers, but not the remote itself. *)
TracesNoRemoteMistake(t, m) ==
    Hears(t, m) /\ m.seq \in m_sent[t] /\ LastProbe(t) /\ m.kind = "exceeded"

(* Application t fires its Route trace source on receiving m. *)
Traces(t, m) ==
    /\ Hears(t, m) /\ m.seq \in m_sent[t]
    /\ LastProbe(t)
    /\ m.kind = "exceeded" \/ t \in Verbose

Receive(m) ==
    LET hearers == {t \in App : Hears(t, m)}
        finished == {t \in hearers : LastProbe(t) /\ m.kind = "echo"}
    IN  /\ \A t \in scenario.immediate : ~Scheduled(t)
        /\ replies' = replies \ {m}
        /\ route' = [t \in App |-> IF Traces(t, m) THEN Append(route[t], m.from)
                                   ELSE route[t]]
        /\ extra' = [t \in App |-> IF t \in hearers /\ ~timer[t] THEN extra[t] + 1
                                   ELSE extra[t]]
        /\ m_sent' = [t \in App |-> IF t \in hearers /\ m.kind = "echo"
                                    THEN m_sent[t] \ {m.seq} ELSE m_sent[t]]
        /\ CancelTimer(hearers)
        /\ stopping' = [t \in App |-> stopping[t] \/ t \in finished]
        /\ ScheduleNext({t \in hearers \ finished : MoreHops(t)})
        /\ UNCHANGED <<scenario, m_socket, m_seq, m_ttl, m_probeCount, losses, disturbed>>

(* Cancels m_next and the timer, but not the events m_next has forgotten.  *)
(* Before the start there is nothing to cancel or close.                   *)
StopApplication(t) ==
    /\ stopping[t] \/ (t \in scenario.stoppable /\ m_socket[t] = "open")
    /\ m_socket' = [m_socket EXCEPT ![t] = "closed"]
    /\ m_next' = [m_next EXCEPT ![t] = FALSE]
    /\ CancelTimer({t})
    /\ stopping' = [stopping EXCEPT ![t] = FALSE]
    /\ UNCHANGED <<scenario, m_seq, m_ttl, m_probeCount, m_sent, orphans, replies, losses, disturbed,
                   route, extra>>

(* A probe or its answer is dropped on the way. *)
Lose(m) ==
    /\ losses < scenario.losses
    /\ losses' = losses + 1
    /\ replies' = replies \ {m}
    /\ UNCHANGED <<appVars, disturbed>>

Next ==
    \/ \E t \in App :
         \/ StartApplication(t) \/ StopApplication(t)
         \/ StartWaitReplyTimer(t) \/ HandleWaitReplyTimeout(t)
    \/ \E m \in replies : Receive(m) \/ Lose(m)

Spec == Init /\ [][Next]_vars

(* Scheduled events run, a message that is not lost arrives; an            *)
(* application with a StopTime need not have reached it.                   *)
FairSpec ==
    /\ Spec
    /\ \A t \in App :
         /\ WF_vars(StartApplication(t))
         /\ WF_vars(StartWaitReplyTimer(t))
         /\ WF_vars(HandleWaitReplyTimeout(t))
         /\ WF_vars(stopping[t] /\ StopApplication(t))
    /\ WF_vars(\E m \in replies : Receive(m))

-----------------------------------------------------------------------------
TypeOK ==
    /\ scenario \in Scenario
    /\ m_socket \in [App -> {"none", "open", "closed"}]
    /\ m_seq \in [App -> 0 .. SeqLimit - 1]
    /\ m_ttl \in [App -> Nat \ {0}]
    /\ m_probeCount \in [App -> 0 .. ProbeNum]
    /\ m_sent \in [App -> SUBSET (0 .. SeqLimit - 1)]
    /\ m_next \in [App -> BOOLEAN]
    /\ orphans \in [App -> Nat]
    /\ timer \in [App -> BOOLEAN]
    /\ stopping \in [App -> BOOLEAN]
    /\ replies \subseteq [kind : {"exceeded", "echo"}, from : Addresses,
                          seq : 0 .. SeqLimit - 1, of : App]
    /\ losses \in 0 .. scenario.losses
    /\ disturbed \subseteq App
    /\ route \in [App -> Seq(Addresses)]
    /\ extra \in [App -> Nat]

(* A traceroute with timely answers that runs alone reports hops of its    *)
(* own route only, each at most once and in the order of the route.  Not   *)
(* with one probe per hop: if the remote is silent the application ends    *)
(* with its socket open, and reports what later traceroutes receive.       *)
HopsInOrder ==
    ProbeNum > 1 => \A t \in App \ disturbed : \E f \in [DOMAIN route[t] -> DOMAIN FullRoute(t)] :
      \A i \in DOMAIN route[t] :
        /\ route[t][i] = FullRoute(t)[f[i]]
        /\ \A j \in DOMAIN route[t] : i < j => f[i] < f[j]

(* Probes go one at a time: what is pending is either the next probe or    *)
(* the wait for the last one, and nothing m_next has forgotten.  A closed  *)
(* application sends nothing more; only an event m_next has forgotten may  *)
(* survive, after a late answer.                                           *)
OneProbeAtATime ==
    \A t \in App :
      /\ t \notin disturbed => orphans[t] = 0 /\ ~(m_next[t] /\ timer[t])
      /\ m_socket[t] = "closed" => Quiet(t) \/ t \in disturbed \ scenario.immediate

(* If nothing is lost either, a traceroute without a StopTime that has     *)
(* ended has reported its whole route: the remote only if it is verbose.   *)
(* (Not with one probe per hop, as above.)                                 *)
NothingLostNothingMissing ==
    ProbeNum > 1 => \A t \in App \ disturbed :
      losses = 0 /\ m_socket[t] = "closed" /\ t \notin scenario.stoppable
        => route[t] = IF t \in Verbose THEN FullRoute(t) ELSE Hops[t]

(* The probes t has sent, by the TTL and the number of the last. *)
Probes(t) == ProbeNum * (m_ttl[t] - 1) + m_probeCount[t]

(* Answers heard while t waits for none: late ones, those of another       *)
(* traceroute of the node, and with one probe per hop those of a later     *)
(* one.  They can make m_next forget an event only if m_interval delays    *)
(* the next probe and if t is disturbed.                                   *)
Surplus(t) == IF t \in scenario.immediate \/ t \notin disturbed THEN 0 ELSE extra[t]

(* An application sends ProbeNum probes per TTL up to MaxHop, then one of  *)
(* TTL MaxHop + 1, although MaxHop is "the maximum number of hops to       *)
(* trace": m_ttl is compared before Send raises it.  Each answer that      *)
(* finds no probe waited for makes m_next forget one event at most, and    *)
(* adds one probe at most; if m_interval is 0 it adds none.  A hop may be  *)
(* reported more than once, by a late answer to an earlier probe too, but  *)
(* t fires the trace source at most once per TTL it has tried and once     *)
(* more for each such answer.                                              *)
ProbesAreBounded ==
    \A t \in App :
      /\ Probes(t) <= MaxHop * ProbeNum + 1 + Surplus(t)
      /\ orphans[t] <= Surplus(t)
      /\ ProbeNum > 1 => Len(route[t]) <= m_ttl[t] + Surplus(t)

(* Every traceroute comes to an end, whatever is lost, late or confused.   *)
TraceEnds == \A t \in App : m_socket[t] = "open" ~> []Quiet(t)
=============================================================================
