# A TLA+ model of the ns-3 botnet simulation module

The repository is an ns-3.37 module that generates DDoS data sets by simulation:
a BRITE topology gets bots, a central controller and benign nodes, and
applications installed on them carry out a *link-flooding* or a *pulsing* attack
inside the simulator. The code is single-threaded C++ (`src/botnet/`) driven by
the simulator's event queue: every handler runs to its end, and everything that
is hard lies between the handlers. Delays stand in for synchronisation, the
network delays, loses and repeats, events are scheduled and cancelled by an
`EventId` that may have been overwritten, and counters have a width.

This directory specifies that behaviour in TLA+, checks it with TLC on small
instances and proves the core of it for all instances with TLAPS.

## 1. Inventory

| Component | Source (`src/botnet/`) | State it keeps | Operations | In this project |
|---|---|---|---|---|
| Controller of link flooding | `model/linkfloodingattackcc.*` | reports per address, running maximum, critical node | `StartApplication`, `RouteTraceCallback`, `HandleAccept` (with `GetCriticalNodeIndex`, `EnablePcapForCriticalNode`) | `LinkFloodingCC` |
| Bot of link flooding | `model/linkfloodingattack.*` | route map, target, sockets, pending wait, send events | `StartApplication`, `CompleteWaitForTraceRoute`, `HandleRead`, `StartAttack`, `SendPackets`, `RouteTraceCallback`, `StopApplication` | `LinkFloodingBot` |
| Bot of the pulsing attack | `model/pulsingattackbot.*` | rounds left, pending event, target socket | `StartApplication`, `ReceivePacketCC`, `SendPacketTarget`, `StopApplication` | `PulsingBot` |
| Controller of the pulsing attack | `model/pulsingattackcc.*` | round-trip tables (static), largest delay, sockets, send events | `StartApplication`, the two Rtt callbacks, `ScheduleBots`, `SendCommand`, `StopApplication` | `Pulsing` |
| Traceroute with a trace source | `changes/v4traceroute.cc` | probe counters, probes sent, timer, next event | `StartApplication`, `Send`, `StartWaitReplyTimer`, `HandleWaitReplyTimeout`, `Receive`, `StopApplication` | `V4TraceRoute` |
| Roles of the nodes | `helper/botnet-helper.*`, `model/botnet.*` | role per leaf, containers and counts, application factories | `CreateBotnet`, `CreateBenignNodes`, `AddApplication`, `SetAttribute...`, `InstallApplications` | `BotnetHelper` |
| Benign traffic | `model/benignapplication.*` | next packet size, two random streams, send event, socket | `StartApplication` (with `SetRandomStreamAttributes`), `SendPacket`, `ScheduleNext`, `StopApplication` | `BenignApplication` |
| Single-application helpers | `helper/pulsingattack-helper.*`, `helper/benignapplication-helper.*` | none | object factories | not modelled: no behaviour |
| Examples, tests, tools | `examples/`, `test/`, `src/tools/` | none | scenarios, an empty test, plotting scripts | not modelled |

### How the components interact

* *Link flooding.* Every bot has one `V4TraceRoute` per bot (itself included).
  The `Route` trace source of each is connected to the bot of its node **and**
  to the controller, so one firing runs two callbacks. After `WaitForRouteMap`
  the bot connects to the controller, which answers from within its accept
  callback with the address counted most often. After a further
  `WaitForReceive` the bot opens a TCP socket to every bot whose route has the
  target on it, and floods until it is stopped. No message tells a component
  that a phase is over: the scenario chooses the delays.
* *Pulsing.* Every bot has two `V4Ping` applications, one for the controller and
  one for the target; their `Rtt` trace sources fill two static tables. 100 s
  after its start the controller turns them into a delay per bot, connects to
  every bot it knows, and sends each a packet so much later as the bot is closer.
  The arrival of data starts the bot's rounds.
* *Before the run* the user program calls the operations of one `BotnetHelper`,
  which decides on which nodes the applications above, and the benign ones, are
  installed. The applications of a role refer to each other by their index on a
  node (`/ApplicationList/<n>`), so all nodes of the role must have the same.
* *Benign traffic* shares links with the attacks, but no state.
* *The simulator* runs one event at a time and events due at the same time in
  an order that is not part of the code modelled here. Connections deliver in order and
  without loss; ICMP messages may be lost or late.

### What is hard here, and what makes each component correct

* Controller: reports in any order, ties, a counter of 16 bits against a maximum
  of 32, a critical node that is cached, and a loop that waits for something
  only other events could change. Correct: the address it answers with is a most
  reported one, and the node it captures holds an answer.
* Bots: waits racing the traceroutes and the answer, callbacks that stay
  connected after a stop. Correct: all learn one target, flood only across it,
  and are quiet after a stop.
* Pulsing bots: several notifications share one round counter, one `EventId` and one
  socket, which each of them connects again. Correct: one command makes one attack of
  `Rounds` packets, and chains that share the counter come to an end.
* Pulsing controller: unanswered pings, subtraction of times, commands pending at
  a stop. Correct: packets of all bots reach the target together.
* Traceroute: late and lost answers, several applications on one node, an
  `EventId` overwritten while its event is pending. Correct: hops are reported
  in order, once, completely when nothing is lost; late answers add a bounded
  number of probes and reports; and it ends.
* Roles: draws with replacement, a loop that hopes to find a free leaf, tables
  that a second call appends to. Correct: roles are disjoint, counts are those of
  the containers, all nodes of a role get the same applications, and the loop ends
  if there is a leaf to find.
* Benign traffic: the only event is scheduled by the one before it, sizes and
  rates come from streams without bounds. Correct: it goes on until something
  ends it, is silent after a stop, and is never faster than its largest rate.

`PROJECT.json` lists these hazards line by line with the properties that cover
each of them.

## 2. Plan

1. `LinkFloodingCC`, with its proofs: the component everything else of the
   attack depends on. *(done)*
2. `LinkFloodingBot`, `TargetAgreement` (what the control phase promises) and
   `LinkFlooding`, their composition with the network, shown to implement
   `TargetAgreement`. *(done)*
3. `PulsingBot` with its proofs, and `Pulsing`, the timed composition. *(done)*
4. `V4TraceRoute`. *(done)*
5. `BotnetHelper` with its proofs. *(done)*
6. `BenignApplication` with its proofs. *(done)*
7. Proofs about the composition: a step of `LinkFlooding` is a step of
   `LinkFloodingCC`, and from it `OneFinalTarget` and the refinement of
   `TargetAgreement`; `StopIsQuiet`, `FloodsCrossTarget`; `ChainsEndAtZero`. *(done)*
8. Proofs about `V4TraceRoute`, from types to completeness, and about `Pulsing`:
   its steps are steps of `PulsingBot`, `StopCancelsCommands`, `OneAttackPerBot`. *(done)*
9. Proofs about the times of `Pulsing` (`NothingInThePast`, `PulsesAligned`) and
   about the two records of the reports (`TargetIsMostRecorded`). *(done)*
10. What late answers can add to a traceroute (`ProbesAreBounded`, with its proof).
   *(done)*

## 3. The modules

**`LinkFloodingCC`.** One action per callback. `m_routers`, `m_max_hops`,
`m_max_address` and `m_critical_node_id` are the fields of those names, `captured`
the devices pcap was enabled for, as pairs of a node and an index, `answer` what each client was sent, `tally` a
history of the true counts. `Incremented` wraps at `CountLimit` as the
`uint16_t` does. `HandleAccept` is one action; where its loop would not end, it
is `HandleAcceptHangs`, and nothing runs afterwards. `GetCriticalNodeIndex` keeps
the old index if no node holds the address, as the code does. The initial
`m_max_address` is `NoAddr`, the default `Ipv4Address`, which no node has.
`Captured` adds device 1 of the critical node, as the code does, whichever device
(`Device`) the maximum address is on.
`Exit` is the `exit(1)` of a bot.

**`LinkFloodingBot`.** The handlers of the bots. A pending `Simulator::Schedule`
is a value of `m_wait_event` or `m_send_events`. `StartAttack` contains
`CalculateRemoteAddress`, `OpenConnections` and the first `SendPackets`, since
one event runs all three; the `StopApplication` it calls when it finds no remote
changes nothing at that moment, the attack goes on. `m_remote_sockets[b][r]`
counts the sockets to one remote, because a hop reported twice opens two.
`StopApplication` runs once (`stopDone`), at `StopTime`, which may lie before
`StartTime`: it then finds nothing, and the bot that starts later is never stopped.

**`LinkFlooding`.** Composes the two (`INSTANCE LinkFloodingCC`) with the
traceroutes and the connections. `TraceHop`, `TraceRepeat` and `TraceMiss` stand
for what `V4TraceRoute` can report: a hop, the same hop once more after a late
answer, or nothing; it may even repeat a hop without missing another, as
`V4TraceRoute` does when a late answer finds the next probe delayed, or when two
traceroutes overlap. `Tracing` ends where `V4TraceRoute` stops itself or schedules no
further probe. The module has no clock; `WaitsCover` says which delays of a
scenario are long enough, and with an empty set every event interleaves with
every other. `m_cc_socket` is `refused` if nobody listens: the bot has no
callback for it and goes on.

**`TargetAgreement`.** The promise of `doc/botnet.md`: one target is chosen,
whoever learns a target learns that one, and only those who have learned it
attack.

**`PulsingBot`.** `pending` counts `SendPacketTarget` events. All have the same
delay, so they run in the order they were scheduled and the one kept in
`m_send_event`, which `StopApplication` cancels, is the last. `Decremented` wraps
at `RoundLimit`. `Connect` is the `Connect` of every notification that finds rounds
left, on the one `m_target_socket`. What it does is ns-3's: a socket without a
connection starts a handshake and takes packets into its buffer from then on, one
in its handshake sends its SYN again, an established one is reset and closed until
it is connected anew. The module has no time, so a second `Connect` may find the socket in
either state; `Pulsing` knows which. `sent` counts the rounds, `accepted` those whose
packet the socket has taken. The target is assumed to answer every handshake and the
buffer to hold the packets of an attack. `StopApplication`, at any time and before the start
too, ends in a call through a null pointer, so `sim` becomes `crashed`.

**`Pulsing`.** Composes `PulsingBot` with the controllers in discrete time. An
event is pending as the time it is due; `AdvanceTime` goes to the next one
(`Due`) and is disabled while one is due now, so events due together run in
every order. Latencies are chosen in the initial state. `ScheduleBots` overwrites the
round trips with delays, in place, for all controllers, as the code does;
`m_socketMap` has the bots whose connection succeeds, with the time it does.
Pings are external (`V4Ping` is part of ns-3): a pinged round trip is twice the
latency, and a ping may stay unanswered.

**`V4TraceRoute`.** The applications of one node. `Receive` delivers one ICMP
message to every application whose socket is open, because raw sockets of a
node all get it, and matches it the way the code does: a time-exceeded message by
the sequence number only, an echo reply by the sender. `orphans` counts the
events that `m_next` held when it was overwritten. `m_sent` keeps what
time-exceeded answers leave in it. A `Scenario` says which applications run,
whether at the same time, which remotes are silent and whether answers may be later
than the timeout; `immediate` has the applications whose `Interval` is zero, its
default: a probe they schedule goes out before anything else arrives. `disturbed`
is a history of the applications that met a late answer or ran beside another, `extra`
of the answers an application heard while it waited for none.
`DoDispose` runs when the simulation is over; what it prints is left out.

**`BotnetHelper`.** The calls of a user program, in any order, on one topology,
a sequence of leaf counts. `CreateBotnet` is several steps: one per draw
(`DrawBot`), per AS (`NextAs`), and per choice of an AS and a leaf for the
controller (`DrawAs`, `DrawLeaf`), because its last loop need not end. `m_nodeMap`
is one function: a second call appends rows to it and to `m_numLeafPerAs` but goes
on reading the first ones, which for the same topology are the same.
`m_botnet` is the object of the last call; `former` is a history of the nodes of
the earlier ones. A factory is the attribute value it sets; `Installed` appends
what `InstallApplications` creates to the applications of a node.

**`BenignApplication`.** A stream of random numbers is the set of values it may
return. `m_send_event` is the delay of the only event there can be; with a rate of 0
the delay is infinite or no number, and what the conversion to `Time` makes of it
is undefined: the event never runs (`Never`) or the simulator aborts. `Truncated`
cuts a size to 16 bits. `SetRandomStreamAttributes` changes nothing, as in the
code, where the new stream is assigned to a copy of the pointer. TCP is a buffer of
limited size that the peer drains, and a connection that can break.

The MC modules define instances only. Operators named `...Mistake` are plausible
programming errors in the definition they precede; substituting one for the
original makes TLC refute the property named for it in `PROJECT.json`, which
shows that the property says something about the code.

## 4. What is checked

Runs that pass:

| Run | Configuration | What it shows |
|---|---|---|
| `cc` | `MCLinkFloodingCC.cfg` | The controller with three addresses on two nodes, two clients, any order of reports. `MaxIsMostUsed`: the running maximum is a most reported address while no counter has wrapped. `OvertakenOnlyByMoreUsed`: a tie never moves it. `CaptureHoldsAnAnswer`: one device is captured, some client was told to flood its node, and the loop that looks for it is endless only if nothing was reported. |
| `agree` | `MCLinkFloodingAgree.cfg` | The attack when applications start before the traceroutes and bots outwait them, but the attack may begin before the answer. All bots learn one target, reported most often (`OneFinalTarget`). The controller finds it in its own 16-bit counters; no address is more often on the routes that the bots keep (`TargetIsMostRecorded`). The node of that target is captured, on its device 1, the link of the target or not (`TargetNodeIsCaptured`). The whole implements `TargetAgreement` (`ImplementsAgreement`), every bot is answered and floods if it can (`EveryBotIsAnswered`, `FloodStarts`). |
| `free` | `MCLinkFloodingFree.cfg` | Three bots, no delay long enough, connects that fail: a bot still floods only remotes whose route has its target, over no more sockets than the target was reported on that route (`FloodsCrossTarget`), and nothing sends after a stop (`StopIsQuiet`), whatever arrives later. |
| `bot` | `PulsingBot.cfg` | Bots that are notified again and again, and stopped at any time. One command makes exactly one attack, whose packets the socket all takes, and chains do not multiply (`OneCommandOneAttack`). While rounds are left a chain goes on, and a chain that finds none left ends or wraps the counter, so that a further notification adds at most one turn of it (`ChainsEndAtZero`). Every round is sent, and taken if no other notification connects the socket again (`EveryRoundIsSent`). |
| `pulse` | `MCPulsing.cfg` | Delays never become negative (`NothingInThePast`); the rounds of measured bots hit the target at the same time for all latencies (`PulsesAligned`), apart from the first, which is late by the bot's own handshake with the target; a bot makes one attack, and only if its ping was answered (`OneAttackPerBot`); a stopped controller sends no command (`StopCancelsCommands`); accepted bots attack (`ScheduledBotsAttack`). |
| `trace` | `MCV4TraceRoute.cfg` | Two traceroutes of a node, in five scenarios. Three where nothing arrives while a probe is delayed: one after the other with lost answers and a silent remote; one with late answers that may be stopped; both at once. Two that wait `Interval` between probes: one with late answers that may be stopped, and one that hears the answers of another. One that is not disturbed reports hops of its own route, in order and none twice (`HopsInOrder`), all of them if nothing is lost (`NothingLostNothingMissing`), and has one event pending; a closed one is quiet (`OneProbeAtATime`). For those that are, both the timeout and the late answer schedule a probe, and `m_next` forgets one of the two: each answer that finds no probe waited for adds at most one probe, one report and one forgotten event (`ProbesAreBounded`). All end (`TraceEnds`). |
| `helper` | `MCBotnetHelper.cfg` | All orders of calls with two botnets. `BadIndicesAreLogged`: `GetBot` and `GetBenign` log an error for the indices their containers do not hold and for no other, since draws that hit a bot again are not counted. `BotsPerAs`: at most `maxBotsPerAs` bots in an AS, at least one in the first botnet. `BotnetsShareNoBots`: roles are disjoint, across botnets too. `AppIndicesAgree`: the bots of a botnet hold the same applications at the same indices, and so do its benign nodes. `CreationEnds` if a leaf is left. |
| `benign` | `MCBenignApplication.cfg` | Sizes and rates with 0 and with a size that does not fit. Traffic ends only for a reason (`SilenceHasACause`) and otherwise goes on (`TrafficGoesOn`), and is at no time ahead of the largest rate (`PacedByRate`). |

Runs that TLC refutes, each a sentence of the repository that the code does not
keep:

| Run | Claim | What the code does |
|---|---|---|
| `hang` | the controller "sends the target link address to all the bots" (`doc/botnet.md:76`) | A bot that connects before any hop was reported sends the controller into the loop of `linkfloodingattackcc.cc:165`. No node holds the default address, nothing in the loop changes it, and the simulation never returns. Under fairness, this bot and every other stay without an answer. |
| `no_remote` | "when a remote address can't be found, stop the application" (`linkfloodingattack.cc:227`) | The application is stopped before `StartAttack` goes on to `SendPackets`, which schedules itself for ever over an empty list of sockets. |
| `bot_overrun` | "The number of attack rounds" (`doc/models.md:31`) | Two notifications start two chains; from two rounds on one of them decrements the counter from 0 to 65535 and goes on. When the second comes during the handshake of the first, the socket takes all of it. A notification is an arrival of data, so a command larger than a segment is enough. |
| `benign_rv` | "If the user wants to change the random variable type for the packet size, this value should be changed" (`benignapplication.cc:38`, also `doc/models.md:77`) | The stream of the configured type is created, assigned to a by-value parameter, and dropped. Sizes and rates come from `PacketSizeRandomVariable` and `DataRateRandomVariable`, so type, mean and deviation have no effect. |

Other behaviour a reader should know, which the modules have but no run is about:

* Link flooding: a bot whose `StopTime` lies before its `StartTime` is never
  stopped; the count of an address wraps after 65535 reports (the proviso
  `NoWrap`); later clients may be sent an address on a node that is not captured
  if bots do not outwait the traceroutes (hence `CaptureHoldsAnAnswer` speaks of some
  answer); `WaitForTraceRoute` is an attribute nothing reads. `EnablePcap` is called
  for device 1 of the critical node (`linkfloodingattackcc.cc:188`): with the most
  reported address on another of its devices, as `y` in run `agree`, the file is not
  "the packet trace obtained at the critical link" that `doc/botnet.md:91` shows.
* Pulsing: `RemotePort` is an attribute nothing reads (`CommandPort`); a second
  controller averages the delays of the first; `PulsingAttackBot` cannot be stopped
  without a null dereference, before its start neither; a notification that finds
  rounds left and the target connected resets that connection, and the rounds that
  follow are counted though `Send` fails.
* Traceroute: the test `m_ttl < m_maxTtl + 1` (`v4traceroute.cc:291`) comes before
  `Send` raises the TTL, so that after the last probe of hop `MaxHop`, "the maximum
  number of hops to trace" (`:74`), one probe of TTL `MaxHop + 1` is sent, whose
  answer is reported only if `MaxProbes` is 1; without `Verbose` the remote itself is
  not reported; two traceroutes of one node that run at once report each other's hops, with no congestion, as
  both number their probes from 0; a late answer to an earlier probe of a hop is
  reported as well, so that a hop may be reported twice; with
  a positive `Interval` and late answers an event that `m_next` has forgotten
  survives `StopApplication`; with one probe per hop a traceroute whose remote never
  answered keeps its socket open and reports hops of later ones (hence the proviso
  `ProbeNum > 1`).
* Roles: `GetNBots` returns `m_botNum`, which counts the drawn bots and bounds the
  index of `GetBot`; `botnet-helper.h:39` says that it is the "total number of bot
  nodes including central controller". The controller of a second botnet may be a
  benign node that already holds benign applications, or the controller of the first; after `CreateBenignNodes` a second
  botnet has no bots; a P2P botnet has no controller, so that
  `InstallApplications` dereferences a null node if a controller application was
  added.
* Benign traffic: the documented names `ConstantRandomVariable` and
  `UniformRandomVariable` lack the `ns3::` that the code compares with, and lead to
  `exit(1)`; the variance of the normal distribution is given the standard
  deviation; with the default streams sizes and rates of 0, 1 and 2 are usual, and a
  rate of 0 ends the traffic.

### Bounds

* `cc`: three addresses, two of them on one node; `MaxReports` 5 with `CountLimit`
  4 lets every counter wrap; two clients make a first and a later one.
* `agree`: two bots, full routes, one repeat and one miss: every hop can be
  the missing or the repeated one, and three addresses tie for the maximum.
* `free`: three bots, one without a route to the controller, one without a
  route to a remote; shorter routes, since every event interleaves.
* `bot`: three rounds, a counter that wraps at 5, three notifications, fourteen
  packets: enough for three chains to go through zero and through the wrap, and, with
  three connects, for a socket to be reset and connected anew.
* `agree`: one address, `y`, is on the second device of its router.
* `pulse`: latencies 1 to 3 to controller and target, every combination for two
  bots; `b2` listens from 7 on, so that it is reached only if it is at least 2
  away. `ScheduleWait` 5, `AttackTime` 6 and `AttackInterval` 7 keep the proportions of
  the defaults (100 s, 20 s, 100 s against latencies of milliseconds), in particular
  commands arrive after the handshakes. One notification per command: a command
  is one segment. `Timely` states these proportions, and TLC evaluates it.
* `trace`: routes of one and of two routers that share the first, two probes per hop,
  `MaxHop` 3, up to two losses: answers come late at the first, the last and the
  surplus hop, and up to two events are forgotten at a time. `SeqLimit` exceeds the
  number of probes; the code's 65536 does for any `MaxHop * ProbeNum` in use.
* `helper`: topologies with no AS, one leaf, an AS without leaves, and two
  leaves beside one: enough to draw a leaf twice, to run out of leaves, and to
  leave one for a second botnet. One factory per role with two attribute values; one
  application per node, since a second installation only appends again.
* `benign`: a size that is cut, one that fills the buffer, empty packets, three
  packets; rates 0, 1 and 5.

Deadlock is not checked: simulations end when no event is left.

### Fairness

`Simulator::Run` executes every event that is scheduled and not cancelled, and TCP
retransmits, so events, connections and deliveries are weakly fair. Not fair are
`StopApplication` (the stop time may lie beyond the run), pings and losses (the
network owes nothing), data from the controller in `PulsingBot`, the peer of a
`BenignApplication`, and the calls of the user program. Within `CreateBotnet`
steps are weakly fair, and the draws of an AS with a leaf to give, and of such a
leaf, strongly: `rand()` returns every residue again and again.

## 5. What is proved

For every value of the constants that satisfies the named assumptions:

**`LinkFloodingCC_proofs`.** `TypeCorrect`, `MaxIsMostUsedHolds`,
`CaptureHoldsAnAnswerHolds` and `OvertakenOnlyByMoreUsedHolds`. `MaxIsMostUsed` is
not inductive: it says nothing of `m_max_hops`, with which the code compares.
`MaxInv` adds that an unwrapped counter is the true count, that `m_max_hops` bounds
every counter, wrapped ones included, that it is the count of `m_max_address` while
that has not wrapped, and that it is 0 before the first report. A report either
exceeds the bound and becomes it, or leaves it a bound (`ReportStep`). `CaptureInv`
says that either nothing was computed, captured or answered, or the captured node
is the computed one and was the holder of a first answer; `HangInv` that a hang saw
the default address. The action property follows from the same invariant.
Assumptions: `NoAddr` and `NoNode` are new values, each address is on one node, the
limit exceeds 1.

**`LinkFlooding_proofs`.** First, `ImplementsController`: every step of the attack
is a step of the controller or leaves it alone, so that the theorems about the
controller hold of it in the composition, for the substitution of bots for
clients. Then, with no assumption about delays, `TypeCorrect`, `StopIsQuietHolds` and
`FloodsCrossTargetHolds`; `CrossInv` (sockets and packets only across the target)
and `SocketInv` (no more sockets than reports) survive later reports, which only
add hops, and the answer, which finds no socket since the default address is on
no route. If applications start before the first report (`"starts" \in WaitsCover`),
`RecordInv`: the number of reports of an address is the number of its `Entries`, the
places it has in the recorded routes, since a report adds one to both
(`RecordedEntry`). Finally, if bots outwait the traceroutes (`"routes" \in WaitsCover`),
`TargetNodeIsCapturedHolds`, `ImplementsAgreementHolds` (every step is a step of
`TargetAgreement` or a stutter) and, if no counter can wrap, `OneFinalTargetHolds`; with
both hypotheses and `RecordInv`, `TargetIsMostRecordedHolds`, where the controller's
counters and maximum come in through `MaxInv` of `LinkFloodingCC_proofs`.
These rest on `AgreeInv`: no bot connects while a traceroute can still report, so the
maximum no longer moves once an answer was given, and every answer and every target
is that maximum, on the node that was computed.

**`PulsingBot_proofs`.** `TypeCorrect`, `OneCommandOneAttackHolds` and
`ChainsEndAtZeroHolds`. `ChainInv` is the strengthening: a bot not yet notified has all
its rounds, no event and a new socket; one notified once has at most one event, only
while rounds are left, and then the socket takes data. For `ChainsEndAtZero`, `TurnInv`
counts the times the counter has wrapped: in `Turn(b, k)`, `m_rounds + sent` is
`Rounds` and `k` turns of the counter, and each notification pays for one pending event,
for one turn, or for the counter standing at 0, which every round preserves
(`TurnRound`).

**`BotnetHelper_proofs`.** `TypeCorrect`, `BadIndicesAreLoggedHolds`,
`BotsPerAsHolds`, `BotnetsShareNoBotsHolds` and `AppIndicesAgreeHolds`, for every
topology and any number of calls. `MapInv` and `RoleInv` relate `m_nodeMap` to the
containers: the bots of every botnet are marked as bots, the other nodes as
something else, so that an unmarked leaf is in no container and no loop can take a
marked one again.
`FiniteInv`: the containers are finite, and the counters are their sizes. `FirstInv` and `DrawInv` bound the bots of the
AS at hand by the draws made there. `FreshInv` says that a leaf without a role
holds no application, and `FactoryInv` that factories create applications of their
role, so that a new container starts with nodes that are all alike.

**`BenignApplication_proofs`.** `TypeCorrect`, `SilenceHasACauseHolds` and
`PacedByRateHolds`. The last needs `WaitCovers`: the pending delay is at least what
the bits of the current packet take at the largest rate, up to one tick.

**`V4TraceRoute_proofs`.** `TypeCorrect` and all four safety invariants. An
application is *disturbed* by an answer that comes after its timeout, or by another
one at work on its node, and *steady* if it is not, or if its next probe is not
delayed. What makes the properties inductive is that an undisturbed application at
work is alone (`AloneInv`): only `StartApplication` makes an application `Busy`
(`BusyStep`), and it disturbs those that are. So what it hears is the one answer it
waits for (`WaitInv`, `OwnAnswer`), and a reply never finds a probe scheduled that
`m_next` would forget (`NothingForgotten`, `LifeInv`); hence `OneProbeAtATimeHolds`. For
`ProbesAreBoundedHolds`, `NumberInv` ties `m_seq` to `m_ttl` and `m_probeCount`, and
`RouteInv` says that a hop just reported leaves the application deaf until the next
probe; for the others `PaidInv` keeps accounts: the events pending and the timer exceed
one by the `extra` answers at most, what is still to be sent above `MaxHop` is pending
already, and each report is paid for by a TTL or by an extra answer. `HopsInOrderHolds` adds that an answer under way comes from the hop of the
current TTL (`Answers`), and builds the increasing map from reports to places on the
route one report at a time (`OneMorePlace`). `NothingLostNothingMissingHolds` follows
from `CompleteInv`: while nothing is lost, the route reported is the prefix that the
TTL determines. The last two hold for `ProbeNum > 1`; section 4 says what happens
with one probe. Assumptions: at least one hop and one probe, `m_seq` does not wrap,
routes are finite sequences.

**`Pulsing_proofs`.** `ImplementsBots`: every step is a step of `PulsingBot` or leaves
the bots alone, since only bots are commanded (`KnownInv`). `StopCancelsCommandsHolds`
rests on `StoppedInv`: a controller that does not run has nothing scheduled.
`OneAttackPerBotHolds`, for one controller: `OnceInv` says that the command of a bot is
scheduled, or under way, or received, and no two of these, so that `OneCommandOneAttack`
of `PulsingBot_proofs` applies; `ArrivalInv` that every packet sent arrives once.

**`PulsingTiming_proofs`.** For any number of controllers, `TypeCorrect` and
`NothingInThePastHolds`. A minimum or maximum of a set is proved to exist without
induction: among the subsets of a finite set that have none, one that is minimal
for inclusion would have one (`MaxNat`), and the least element of a set is its
largest lower bound (`MinNat`). So no delay exceeds `MaxDelay` (`MaxDelayBounds`),
whatever the shared table has become, and `CommandTime` is at least `AttackTime`;
and time moves on to the least of what is due. `TimeInv` is the strengthening: the
tables hold natural numbers for finitely many bots, `ScheduleBots` is due at
`ScheduleWait`, what is scheduled, under way or about to start is not in the past,
and a bot's rounds are due in the order they were scheduled in, one interval ahead
at most, so that the head of `roundDue` is the first.

For one controller, `PulsesAlignedHolds`. `PulseTime(c, n)` is the moment the
pulse after the first `n` hits the target, and all measured bots are shown to
keep to it. `PhaseInv`: the table holds round trips until `ScheduleBots` and does
not change from the first command on. `LeadInv`: a scheduled command is earlier than
the pulse by both latencies of its bot, one under way by the latency to the target;
its socket is connected by then, or the command would wait. `InStep`: the first
round comes two latencies after the pulse, which is the handshake, and every later
one with it. The hypotheses are `Timely`: no ping is answered after `ScheduleWait`
(one that is would overwrite a delay in the table by a round trip), and two
latencies are no more than `AttackTime` and `AttackInterval`. The examples keep far
within it: their pings stop after 7 s of the 100 s, `AttackTime` is 20 s, the
interval 3 s or more, and latencies are milliseconds. `NothingInThePast` and
`TypeOK` need none of it.

Only model-checked: liveness (`FloodStarts`, `EveryBotIsAnswered`,
`EveryRoundIsSent`, `ScheduledBotsAttack`, `TraceEnds`, `CreationEnds`,
`TrafficGoesOn`), which is beyond the prover. Every invariant, every action property
and the refinement of `TargetAgreement` that the passing runs check are theorems.

## 6. What is left out

Packet contents, output and logging, the distributions of random variables, TCP
below "connects, delivers in order, fills its buffer"; closing handshakes, whose
notifications the applications ignore; failures of `Bind`; other applications on the
controller's port. `GetMaxCount`, `OpenConnection` and `SendPacketCC` of
`PulsingAttackBot`, and `HandleAccept`/`HandleRead` of `PulsingAttackCC` have no caller
or keep no state; the getters of `BotnetHelper` only read, and of `GetBot`
and `GetBenign` the test of the index is modelled. Calls that are undefined in
C++ are not made in `BotnetHelper`: a second `CreateBotnet` with another topology, a
`CreateBenignNodes` or `InstallApplications` before the first, and an index out of
range.

Not modelled at all: the helpers of single applications, which forward to an object
factory and keep nothing (the one for benign traffic names a type that does not
exist, `ns3::BenignApplciation`); the examples, which fix what the constants here
range over; the test suite, an empty template; the plotting scripts.
