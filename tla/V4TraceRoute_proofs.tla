------------------------ MODULE V4TraceRoute_proofs -------------------------
(***************************************************************************)
(* Proofs about V4TraceRoute for every number of applications, hops and    *)
(* probes and all routes.                                                  *)
(***************************************************************************)
EXTENDS V4TraceRoute, TLAPS

USE ProbeAssumption, SeqAssumption

LEMMA ScenarioType ==
    ASSUME scenario \in Scenario
    PROVE  scenario.losses \in Nat
BY ScenarioAssumption

(* A hop, and the remote, are addresses of the route. *)
LEMMA RouteAddresses ==
    ASSUME NEW t \in App
    PROVE  /\ Hops[t] \in Seq(Addresses)
           /\ Remote[t] \in Addresses
<1>1. Hops[t] \in Seq(Addresses)
      BY RouteAssumption
<1>2. Len(FullRoute(t)) = Len(Hops[t]) + 1 /\ FullRoute(t)[Len(Hops[t]) + 1] = Remote[t]
      BY <1>1 DEF FullRoute
<1>3. Len(Hops[t]) + 1 \in DOMAIN FullRoute(t)
      BY <1>1, <1>2 DEF FullRoute
<1> QED BY <1>1, <1>2, <1>3 DEF Addresses

Messages == [kind : {"exceeded", "echo"}, from : Addresses, seq : 0 .. SeqLimit - 1, of : App]

(* What the network answers is one message, to the application that asked. *)
LEMMA AnswerType ==
    ASSUME NEW t \in App, NEW seq \in 0 .. SeqLimit - 1, NEW ttl \in Nat \ {0}
    PROVE  /\ Answer(t, seq, ttl) \subseteq Messages
           /\ \A m \in Answer(t, seq, ttl) : m.of = t
           /\ \A m, n \in Answer(t, seq, ttl) : m = n
<1>1. CASE ttl <= Len(Hops[t])
  <2>1. Hops[t][ttl] \in Addresses
        BY <1>1, RouteAddresses
  <2> QED BY <1>1, <2>1 DEF Answer, Messages
<1>2. CASE ~(ttl <= Len(Hops[t]))
      BY <1>2, RouteAddresses DEF Answer, Messages
<1> QED BY <1>1, <1>2

(* What sending a probe does to its application, and to the others. *)
LEMMA SendEffect ==
    ASSUME TypeOK, NEW t \in App, Send(t)
    PROVE  /\ m_probeCount' \in [App -> 0 .. ProbeNum]
           /\ m_ttl' \in [App -> Nat \ {0}]
           /\ m_seq' \in [App -> 0 .. SeqLimit - 1]
           /\ m_sent' \in [App -> SUBSET (0 .. SeqLimit - 1)]
           /\ replies' \subseteq Messages
           /\ \A m, n \in replies' \ replies : m.of = t /\ m = n
           /\ \A u \in App \ {t} : /\ m_probeCount'[u] = m_probeCount[u]
                                   /\ m_ttl'[u] = m_ttl[u]
                                   /\ m_seq'[u] = m_seq[u]
           /\ m_seq'[t] = (m_seq[t] + 1) % SeqLimit
           /\ HopProbed(t) => m_ttl'[t] = m_ttl[t] + 1 /\ m_probeCount'[t] = 1
           /\ ~HopProbed(t) => m_ttl'[t] = m_ttl[t] /\ m_probeCount'[t] = m_probeCount[t] + 1
<1> DEFINE ttl == IF HopProbed(t) THEN m_ttl[t] + 1 ELSE m_ttl[t]
<1>1. ttl \in Nat \ {0} /\ m_seq[t] \in 0 .. SeqLimit - 1 /\ (m_seq[t] + 1) % SeqLimit \in 0 .. SeqLimit - 1
      BY DEF TypeOK
<1>2. m_ttl' = [m_ttl EXCEPT ![t] = ttl]
      BY DEF Send
<1>3. replies' = replies \union Answer(t, m_seq[t], ttl)
      BY DEF Send
<1>4. m_probeCount' \in [App -> 0 .. ProbeNum]
      BY DEF Send, TypeOK, HopProbed
<1>5. m_seq' \in [App -> 0 .. SeqLimit - 1] /\ m_sent' \in [App -> SUBSET (0 .. SeqLimit - 1)]
      BY <1>1 DEF Send, TypeOK
<1>6. m_ttl' \in [App -> Nat \ {0}]
      BY <1>1, <1>2 DEF TypeOK
<1>7. replies \subseteq Messages
      BY DEF TypeOK, Messages
<1> HIDE DEF ttl
<1>8. /\ replies' \subseteq Messages
      /\ \A m, n \in replies' \ replies : m.of = t /\ m = n
      BY <1>1, <1>3, <1>7, AnswerType
<1> QED BY <1>2, <1>4, <1>5, <1>6, <1>8 DEF Send, TypeOK, ttl

(* Scheduling the next probe touches the applications of ts only. *)
LEMMA ScheduleNextEffect ==
    ASSUME TypeOK, NEW ts, ScheduleNext(ts)
    PROVE  /\ m_next' \in [App -> BOOLEAN]
           /\ orphans' \in [App -> Nat]
BY DEF ScheduleNext, TypeOK

(* Every step keeps the types. *)
LEMMA TypeStep == TypeOK /\ [Next]_vars => TypeOK'
<1> SUFFICES ASSUME TypeOK, [Next]_vars PROVE TypeOK'
    OBVIOUS
<1>0. scenario.losses \in Nat
      BY ScenarioType DEF TypeOK
<1>1. ASSUME NEW t \in App, StartApplication(t) PROVE TypeOK'
      BY <1>1 DEF StartApplication, TypeOK
<1>2. ASSUME NEW t \in App, StopApplication(t) PROVE TypeOK'
      BY <1>2 DEF StopApplication, CancelTimer, TypeOK
<1>3. ASSUME NEW t \in App, StartWaitReplyTimer(t) PROVE TypeOK'
  <2>1. m_next' \in [App -> BOOLEAN] /\ orphans' \in [App -> Nat]
    <3>1. CASE orphans[t] > 0
          BY <1>3, <3>1 DEF StartWaitReplyTimer, TypeOK
    <3>2. CASE ~(orphans[t] > 0)
          BY <1>3, <3>2 DEF StartWaitReplyTimer, TypeOK
    <3> QED BY <3>1, <3>2
  <2>2. /\ m_probeCount' \in [App -> 0 .. ProbeNum]
        /\ m_ttl' \in [App -> Nat \ {0}]
        /\ m_seq' \in [App -> 0 .. SeqLimit - 1]
        /\ m_sent' \in [App -> SUBSET (0 .. SeqLimit - 1)]
        /\ replies' \subseteq Messages
        /\ timer' \in [App -> BOOLEAN]
    <3>1. CASE timer[t]
          BY <1>3, <3>1 DEF StartWaitReplyTimer, TypeOK, Messages
    <3>2. CASE ~timer[t]
      <4>1. Send(t) /\ timer' = [timer EXCEPT ![t] = TRUE]
            BY <1>3, <3>2 DEF StartWaitReplyTimer
      <4> QED BY <4>1, SendEffect DEF TypeOK
    <3> QED BY <3>1, <3>2
  <2>3. UNCHANGED <<scenario, m_socket, stopping, losses, disturbed, route, extra>>
        BY <1>3 DEF StartWaitReplyTimer
  <2> QED BY <2>1, <2>2, <2>3 DEF TypeOK, Messages
<1>4. ASSUME NEW t \in App, HandleWaitReplyTimeout(t) PROVE TypeOK'
  <2>1. m_next' \in [App -> BOOLEAN] /\ orphans' \in [App -> Nat]
        BY <1>4, ScheduleNextEffect DEF HandleWaitReplyTimeout
  <2> QED BY <1>4, <2>1 DEF HandleWaitReplyTimeout, TypeOK
<1>5. ASSUME NEW m \in replies, Receive(m) PROVE TypeOK'
  <2>1. m_next' \in [App -> BOOLEAN] /\ orphans' \in [App -> Nat]
        BY <1>5, ScheduleNextEffect DEF Receive
  <2>2. timer' \in [App -> BOOLEAN] /\ stopping' \in [App -> BOOLEAN]
        BY <1>5 DEF Receive, CancelTimer, TypeOK
  <2>3. m_sent' \in [App -> SUBSET (0 .. SeqLimit - 1)]
        BY <1>5 DEF Receive, TypeOK
  <2>4. m.from \in Addresses
        BY DEF TypeOK
  <2>5. route' \in [App -> Seq(Addresses)]
        BY <1>5, <2>4 DEF Receive, TypeOK
  <2>6. replies' \subseteq replies
        BY <1>5 DEF Receive
  <2>7. UNCHANGED <<scenario, m_socket, m_seq, m_ttl, m_probeCount, losses, disturbed>>
        BY <1>5 DEF Receive
  <2>8. extra' \in [App -> Nat]
        BY <1>5 DEF Receive, TypeOK
  <2> QED BY <2>1, <2>2, <2>3, <2>5, <2>6, <2>7, <2>8 DEF TypeOK
<1>6. ASSUME NEW m \in replies, Lose(m) PROVE TypeOK'
  <2>1. losses' \in 0 .. scenario.losses
        BY <1>0, <1>6 DEF Lose, TypeOK
  <2>2. replies' \subseteq replies
        BY <1>6 DEF Lose
  <2> QED BY <1>6, <2>1, <2>2 DEF Lose, appVars, TypeOK
<1>7. CASE UNCHANGED vars
      BY <1>7 DEF vars, appVars, TypeOK
<1> QED BY <1>1, <1>2, <1>3, <1>4, <1>5, <1>6, <1>7 DEF Next

(* The types hold in the first state. *)
LEMMA TypeInit == Init => TypeOK
BY ScenarioType DEF Init, TypeOK

(* Every application's state keeps its type in every reachable state. *)
THEOREM TypeCorrect == Spec => []TypeOK
<1>1. Init => TypeOK
      BY TypeInit
<1>2. TypeOK /\ [Next]_vars => TypeOK'
      BY TypeStep
<1> QED BY <1>1, <1>2, PTL DEF Spec

-----------------------------------------------------------------------------
(* The inductive invariant.                                                *)

(* No late answer and no other traceroute has confused t, or none can      *)
(* make m_next forget an event.                                            *)
Steady(t) == t \in scenario.immediate \/ t \notin disturbed

(* t probes, waits, or will probe when it hears an answer. *)
Busy(t) ==
    \/ m_next[t] \/ orphans[t] > 0 \/ timer[t] \/ Awaited(t)
    \/ m_socket[t] = "open" /\ MoreHops(t)

Life(t) ==
    /\ m_socket[t] = "none" => /\ Quiet(t) /\ ~Awaited(t)
                              /\ m_seq[t] = 0 /\ m_ttl[t] = 1 /\ m_probeCount[t] = 0
    /\ m_socket[t] = "open" /\ MoreHops(t) => ~Quiet(t)
    /\ m_socket[t] = "closed" => Quiet(t) \/ ~Steady(t)
    /\ Steady(t) => orphans[t] = 0 /\ ~(m_next[t] /\ timer[t])

LifeInv == \A t \in App : Life(t)

(* An undisturbed traceroute waits for the one answer it is sent. *)
Waits(t) ==
    /\ m_socket[t] = "open" /\ Awaited(t) => timer[t]
    /\ \A m, n \in replies : m.of = t /\ n.of = t => m = n

WaitInv == \A t \in App \ disturbed : Waits(t)

(* An undisturbed traceroute is alone at work. *)
AloneInv == \A t \in App \ disturbed : \A u \in App \ {t} : ~(Busy(t) /\ Busy(u))

(* The number of a probe is its place among those of its TTL. *)
Numbered(t) ==
    /\ m_seq[t] = ProbeNum * (m_ttl[t] - 1) + m_probeCount[t]
    /\ m_ttl[t] <= MaxHop + 1
    /\ m_ttl[t] = MaxHop + 1 => m_probeCount[t] = 1
    /\ m_next[t] => MoreHops(t)

NumberInv == \A t \in App : Steady(t) => Numbered(t)

(* The wait for the last probe of this TTL is over, and nothing else is    *)
(* heard before the first one of the next.                                 *)
Heard(t) ==
    /\ LastProbe(t)
    /\ ~timer[t]
    /\ m_socket[t] = "closed" \/ m_next[t] \/ stopping[t]

Reported(t) == Heard(t) /\ Len(route[t]) = m_ttl[t]

RouteInv ==
    ProbeNum > 1 => \A t \in App : Steady(t) => Len(route[t]) < m_ttl[t] \/ Reported(t)

IInv == TypeOK /\ LifeInv /\ WaitInv /\ AloneInv /\ NumberInv /\ RouteInv
-----------------------------------------------------------------------------
(* What the steps do, application by application.                          *)

LEMMA WaitEffect ==
    ASSUME TypeOK, NEW t \in App, StartWaitReplyTimer(t)
    PROVE  /\ timer'[t] /\ (m_next[t] \/ orphans[t] > 0)
           /\ m_next'[t] => m_next[t]
           /\ orphans[t] = 0 => orphans'[t] = 0 /\ ~m_next'[t]
           /\ \A u \in App \ {t} : /\ m_next'[u] = m_next[u]
                                   /\ orphans'[u] = orphans[u]
                                   /\ timer'[u] = timer[u]
           /\ UNCHANGED <<scenario, m_socket, stopping, losses, disturbed, route>>
           /\ timer[t] => UNCHANGED <<m_probeCount, m_ttl, m_seq, m_sent, replies>>
           /\ ~timer[t] => Send(t)
<1>1. CASE orphans[t] > 0
      BY <1>1 DEF StartWaitReplyTimer, TypeOK
<1>2. CASE ~(orphans[t] > 0)
      BY <1>2 DEF StartWaitReplyTimer, TypeOK
<1> QED BY <1>1, <1>2

LEMMA TimeoutEffect ==
    ASSUME TypeOK, NEW t \in App, HandleWaitReplyTimeout(t)
    PROVE  /\ timer[t] /\ ~timer'[t]
           /\ m_next'[t] <=> m_next[t] \/ MoreHops(t)
           /\ ~m_next[t] => orphans'[t] = orphans[t]
           /\ orphans[t] > 0 => orphans'[t] > 0
           /\ \A u \in App \ {t} : /\ m_next'[u] = m_next[u]
                                   /\ orphans'[u] = orphans[u]
                                   /\ timer'[u] = timer[u]
           /\ disturbed \subseteq disturbed'
           /\ Awaited(t) => t \in disturbed'
           /\ UNCHANGED <<scenario, m_socket, m_seq, m_ttl, m_probeCount, m_sent, stopping,
                          replies, losses, route>>
<1>1. /\ timer[t] /\ timer' = [timer EXCEPT ![t] = FALSE]
      /\ disturbed' = IF Awaited(t) THEN disturbed \union {t} ELSE disturbed
      /\ UNCHANGED <<scenario, m_socket, m_seq, m_ttl, m_probeCount, m_sent, stopping,
                     replies, losses, route>>
      BY DEF HandleWaitReplyTimeout
<1>2. ScheduleNext({u \in {t} : MoreHops(u)})
      BY DEF HandleWaitReplyTimeout
<1> DEFINE ts == {u \in {t} : MoreHops(u)}
<1>3. /\ m_next'[t] <=> m_next[t] \/ MoreHops(t)
      /\ ~m_next[t] => orphans'[t] = orphans[t]
      /\ orphans[t] > 0 => orphans'[t] > 0
  <2>1. t \in ts <=> MoreHops(t)
        OBVIOUS
  <2>2. ScheduleNext(ts)
        BY <1>2
  <2> HIDE DEF ts
  <2>3. /\ m_next'[t] = (m_next[t] \/ t \in ts)
        /\ orphans'[t] = IF t \in ts /\ m_next[t] THEN orphans[t] + 1 ELSE orphans[t]
        BY <2>2 DEF ScheduleNext
  <2>4. m_next'[t] <=> m_next[t] \/ MoreHops(t)
        BY <2>1, <2>3
  <2>5. orphans[t] \in Nat
        BY DEF TypeOK
  <2>6. ~m_next[t] => orphans'[t] = orphans[t]
        BY <2>3
  <2>7. orphans[t] > 0 => orphans'[t] > 0
        BY <2>3, <2>5
  <2> QED BY <2>4, <2>6, <2>7
<1>4. \A u \in App \ {t} : orphans'[u] = orphans[u] /\ m_next'[u] = m_next[u]
      BY <1>2 DEF ScheduleNext, TypeOK
<1> QED BY <1>1, <1>3, <1>4 DEF TypeOK

Finished(t, m) == LastProbe(t) /\ m.kind = "echo"

LEMMA ReceiveEffect ==
    ASSUME TypeOK, NEW m \in replies, Receive(m), NEW t \in App
    PROVE  /\ t \in scenario.immediate => ~m_next[t] /\ orphans[t] = 0 /\ ~stopping[t]
           /\ replies' = replies \ {m}
           /\ UNCHANGED <<scenario, m_socket, m_seq, m_ttl, m_probeCount, losses, disturbed>>
           /\ ~m_next[t] => orphans'[t] = orphans[t]
           /\ orphans'[t] > 0 => orphans[t] > 0 \/ m_next[t]
           /\ orphans[t] > 0 => orphans'[t] > 0
           /\ m_next[t] => m_next'[t]
           /\ stopping[t] => stopping'[t]
           /\ ~Hears(t, m) => /\ m_next'[t] = m_next[t] /\ orphans'[t] = orphans[t]
                              /\ timer'[t] = timer[t] /\ stopping'[t] = stopping[t]
                              /\ route'[t] = route[t]
           /\ Hears(t, m) => /\ ~timer'[t]
                             /\ Finished(t, m) => stopping'[t] /\ m_next'[t] = m_next[t]
                             /\ ~Finished(t, m) /\ MoreHops(t) => m_next'[t]
                             /\ ~MoreHops(t) => m_next'[t] = m_next[t]
                             /\ \/ route'[t] = route[t]
                                \/ LastProbe(t) /\ Len(route'[t]) = Len(route[t]) + 1
<1> DEFINE hearers == {u \in App : Hears(u, m)}
           finished == {u \in hearers : LastProbe(u) /\ m.kind = "echo"}
           ts == {u \in hearers \ finished : MoreHops(u)}
<1>1. /\ \A u \in scenario.immediate : ~Scheduled(u)
      /\ replies' = replies \ {m}
      /\ route' = [u \in App |-> IF Traces(u, m) THEN Append(route[u], m.from) ELSE route[u]]
      /\ CancelTimer(hearers)
      /\ stopping' = [u \in App |-> stopping[u] \/ u \in finished]
      /\ ScheduleNext(ts)
      /\ UNCHANGED <<scenario, m_socket, m_seq, m_ttl, m_probeCount, losses, disturbed>>
      BY DEF Receive
<1>2. t \in hearers <=> Hears(t, m)
      OBVIOUS
<1>3. t \in finished <=> Hears(t, m) /\ Finished(t, m)
      BY DEF Finished
<1>4. t \in ts <=> Hears(t, m) /\ ~Finished(t, m) /\ MoreHops(t)
      BY <1>2, <1>3
<1> HIDE DEF hearers, finished, ts
<1>5. timer'[t] = (timer[t] /\ t \notin hearers)
      BY <1>1 DEF CancelTimer, TypeOK
<1>6. stopping'[t] = (stopping[t] \/ t \in finished)
      BY <1>1
<1>7. /\ m_next'[t] = (m_next[t] \/ t \in ts)
      /\ orphans'[t] = IF t \in ts /\ m_next[t] THEN orphans[t] + 1 ELSE orphans[t]
      BY <1>1 DEF ScheduleNext
<1>8. route'[t] = IF Traces(t, m) THEN Append(route[t], m.from) ELSE route[t]
      BY <1>1
<1>9. Traces(t, m) => Hears(t, m) /\ LastProbe(t)
      BY DEF Traces
<1>10. orphans[t] \in Nat /\ m_next[t] \in BOOLEAN /\ timer[t] \in BOOLEAN /\ stopping[t] \in BOOLEAN
       /\ route[t] \in Seq(Addresses) /\ m.from \in Addresses
      BY DEF TypeOK
<1>11. Len(Append(route[t], m.from)) = Len(route[t]) + 1
      BY <1>10
<1>12. t \in scenario.immediate => ~m_next[t] /\ orphans[t] = 0 /\ ~stopping[t]
      BY <1>1, <1>10 DEF Scheduled
<1>13. /\ ~m_next[t] => orphans'[t] = orphans[t]
       /\ orphans'[t] > 0 => orphans[t] > 0 \/ m_next[t]
       /\ orphans[t] > 0 => orphans'[t] > 0
      BY <1>7, <1>10
<1>14. ~Hears(t, m) => /\ m_next'[t] = m_next[t] /\ orphans'[t] = orphans[t]
                       /\ timer'[t] = timer[t] /\ stopping'[t] = stopping[t]
                       /\ route'[t] = route[t]
      BY <1>2, <1>3, <1>4, <1>5, <1>6, <1>7, <1>8, <1>9, <1>10
<1>15. Hears(t, m) => /\ ~timer'[t]
                      /\ Finished(t, m) => stopping'[t] /\ m_next'[t] = m_next[t]
                      /\ ~Finished(t, m) /\ MoreHops(t) => m_next'[t]
                      /\ ~MoreHops(t) => m_next'[t] = m_next[t]
      BY <1>2, <1>3, <1>4, <1>5, <1>6, <1>7, <1>10
<1>16. \/ route'[t] = route[t]
       \/ LastProbe(t) /\ Len(route'[t]) = Len(route[t]) + 1
      BY <1>8, <1>9, <1>11
<1> QED BY <1>1, <1>6, <1>7, <1>12, <1>13, <1>14, <1>15, <1>16

LEMMA StopEffect ==
    ASSUME TypeOK, NEW t \in App, StopApplication(t)
    PROVE  /\ m_socket'[t] = "closed" /\ ~m_next'[t] /\ ~timer'[t] /\ ~stopping'[t]
           /\ \A u \in App \ {t} : /\ m_socket'[u] = m_socket[u]
                                   /\ m_next'[u] = m_next[u]
                                   /\ timer'[u] = timer[u]
                                   /\ stopping'[u] = stopping[u]
           /\ UNCHANGED <<scenario, m_seq, m_ttl, m_probeCount, m_sent, orphans, replies,
                          losses, disturbed, route>>
BY DEF StopApplication, CancelTimer, TypeOK

LEMMA StartEffect ==
    ASSUME TypeOK, NEW t \in App, StartApplication(t)
    PROVE  /\ m_socket[t] = "none" /\ m_socket'[t] = "open" /\ m_next'[t]
           /\ \A u \in App \ {t} : m_socket'[u] = m_socket[u] /\ m_next'[u] = m_next[u]
           /\ disturbed \subseteq disturbed'
           /\ \/ t \in disturbed'
              \/ \A u \in App \ {t} : Quiet(u) /\ ~Awaited(u)
           /\ \A u \in App \ {t} : u \in disturbed' \/ (Quiet(u) /\ ~Awaited(u))
           /\ UNCHANGED <<scenario, m_seq, m_ttl, m_probeCount, m_sent, orphans, timer,
                          stopping, replies, losses, route>>
BY DEF StartApplication, TypeOK

(* A new answer is for the application that has sent a probe. *)
LEMMA AwaitedAfterWait ==
    ASSUME TypeOK, NEW t \in App, StartWaitReplyTimer(t)
    PROVE  /\ \A u \in App \ {t} : Awaited(u)' => Awaited(u)
           /\ \A u \in App \ {t} : \A n \in replies' : n.of = u => n \in replies
           /\ \A m, n \in replies' \ replies : m = n
           /\ timer[t] => replies' = replies
<1>1. CASE timer[t]
      BY <1>1, WaitEffect DEF Awaited
<1>2. CASE ~timer[t]
  <2>1. \A m, n \in replies' \ replies : m.of = t /\ m = n
        BY <1>2, WaitEffect, SendEffect
  <2> QED BY <1>2, <2>1 DEF Awaited
<1> QED BY <1>1, <1>2

(* Whatever else hears a message, an undisturbed application at work hears *)
(* its own answer while it waits for it.                                   *)
LEMMA OwnAnswer ==
    ASSUME IInv, NEW m \in replies, NEW t \in App \ disturbed, Hears(t, m), Busy(t)
    PROVE  m.of = t /\ timer[t]
<1>1. m.of \in App
      BY DEF IInv, TypeOK
<1>2. Busy(m.of)
      BY <1>1 DEF Busy, Awaited
<1>3. m.of = t
      BY <1>1, <1>2 DEF IInv, AloneInv
<1> QED BY <1>3 DEF Hears, Awaited, IInv, WaitInv, Waits

(* A steady application that hears a message has not scheduled a probe. *)
LEMMA NothingForgotten ==
    ASSUME IInv, NEW m \in replies, Receive(m), NEW t \in App, Steady(t), Hears(t, m)
    PROVE  ~m_next[t]
<1>1. CASE t \in scenario.immediate
      BY <1>1, ReceiveEffect DEF IInv
<1>2. CASE t \notin disturbed
      BY <1>2, OwnAnswer DEF IInv, LifeInv, Life, Steady, Busy
<1> QED BY <1>1, <1>2 DEF Steady
(* A step only disturbs: the steady applications were steady before it. *)
LEMMA DisturbedGrows ==
    ASSUME TypeOK, [Next]_vars
    PROVE  /\ scenario' = scenario
           /\ disturbed \subseteq disturbed'
           /\ \A t \in App : Steady(t)' => Steady(t)
<1> DEFINE Grows == scenario' = scenario /\ disturbed \subseteq disturbed'
<1>1. Grows
  <2>1. ASSUME NEW t \in App, StartApplication(t) PROVE Grows
        BY <2>1, StartEffect
  <2>2. ASSUME NEW t \in App, StopApplication(t) PROVE Grows
        BY <2>2, StopEffect
  <2>3. ASSUME NEW t \in App, StartWaitReplyTimer(t) PROVE Grows
        BY <2>3, WaitEffect
  <2>4. ASSUME NEW t \in App, HandleWaitReplyTimeout(t) PROVE Grows
        BY <2>4, TimeoutEffect
  <2>5. ASSUME NEW m \in replies, Receive(m) PROVE Grows
        BY <2>5 DEF Receive
  <2>6. CASE (\E m \in replies : Lose(m)) \/ UNCHANGED vars
        BY <2>6 DEF Lose, appVars, vars
  <2> QED BY <2>1, <2>2, <2>3, <2>4, <2>5, <2>6 DEF Next
<1>2. ASSUME NEW t \in App, Steady(t)' PROVE Steady(t)
  <2>1. CASE t \in scenario'.immediate
        BY <1>1, <2>1 DEF Steady
  <2>2. CASE t \notin disturbed'
        BY <1>1, <2>2 DEF Steady
  <2> QED BY <1>2, <2>1, <2>2 DEF Steady
<1> QED BY <1>1, <1>2

-----------------------------------------------------------------------------
(* The parts of the invariant are kept by every step.                      *)

LEMMA LifeStep ==
    ASSUME IInv, [Next]_vars, NEW u \in App
    PROVE  Life(u)'
<1>0. TypeOK /\ Life(u) /\ TypeOK'
      BY TypeStep DEF IInv, LifeInv
<1>s. Steady(u)' => Steady(u)
      BY <1>0, DisturbedGrows
<1>1. ASSUME NEW t \in App, StartApplication(t) PROVE Life(u)'
  <2>1. CASE u = t
        BY <1>0, <1>1, <1>s, <2>1, StartEffect DEF Life, Quiet, Scheduled
  <2>2. CASE u # t
        BY <1>0, <1>1, <1>s, <2>2, StartEffect DEF Life, Quiet, Scheduled, Awaited, MoreHops
  <2> QED BY <2>1, <2>2
<1>2. ASSUME NEW t \in App, StopApplication(t) PROVE Life(u)'
  <2>1. CASE u = t
        BY <1>0, <1>2, <1>s, <2>1, StopEffect DEF Life, Quiet, Scheduled
  <2>2. CASE u # t
        BY <1>0, <1>2, <1>s, <2>2, StopEffect DEF Life, Quiet, Scheduled, Awaited, MoreHops
  <2> QED BY <2>1, <2>2
<1>3. ASSUME NEW t \in App, StartWaitReplyTimer(t) PROVE Life(u)'
  <2>1. CASE u = t
        BY <1>0, <1>3, <1>s, <2>1, WaitEffect DEF Life, Quiet, Scheduled
  <2>2. CASE u # t
    <3>1. m_ttl'[u] = m_ttl[u] /\ m_seq'[u] = m_seq[u] /\ m_probeCount'[u] = m_probeCount[u]
          BY <1>0, <1>3, <2>2, WaitEffect, SendEffect
    <3>2. Awaited(u)' => Awaited(u)
          BY <1>0, <1>3, <2>2, AwaitedAfterWait
    <3> QED BY <1>0, <1>3, <1>s, <2>2, <3>1, <3>2, WaitEffect DEF Life, Quiet, Scheduled, MoreHops
  <2> QED BY <2>1, <2>2
<1>4. ASSUME NEW t \in App, HandleWaitReplyTimeout(t) PROVE Life(u)'
  <2>1. CASE u = t
        BY <1>0, <1>4, <1>s, <2>1, TimeoutEffect DEF Life, Quiet, Scheduled, MoreHops
  <2>2. CASE u # t
        BY <1>0, <1>4, <1>s, <2>2, TimeoutEffect DEF Life, Quiet, Scheduled, Awaited, MoreHops
  <2> QED BY <2>1, <2>2
<1>5. ASSUME NEW m \in replies, Receive(m) PROVE Life(u)'
  <2>1. Awaited(u)' => Awaited(u)
        BY <1>0, <1>5, ReceiveEffect DEF Awaited
  <2>2. MoreHops(u)' <=> MoreHops(u)
        BY <1>0, <1>5, ReceiveEffect DEF MoreHops
  <2>3. CASE Hears(u, m)
    <3>1. m_socket[u] = "open"
          BY <2>3 DEF Hears
    <3>2. Steady(u) => ~m_next[u]
          BY <1>5, <2>3, NothingForgotten
    <3> QED BY <1>0, <1>5, <1>s, <2>1, <2>2, <2>3, <3>1, <3>2, ReceiveEffect
        DEF Life, Quiet, Scheduled
  <2>4. CASE ~Hears(u, m)
        BY <1>0, <1>5, <1>s, <2>1, <2>2, <2>4, ReceiveEffect DEF Life, Quiet, Scheduled
  <2> QED BY <2>3, <2>4
<1>6. ASSUME NEW m \in replies, Lose(m) PROVE Life(u)'
      BY <1>0, <1>6 DEF Lose, appVars, Life, Quiet, Scheduled, Awaited, MoreHops, Steady
<1>7. CASE UNCHANGED vars
      BY <1>0, <1>7 DEF vars, appVars, Life, Quiet, Scheduled, Awaited, MoreHops, Steady
<1> QED BY <1>1, <1>2, <1>3, <1>4, <1>5, <1>6, <1>7 DEF Next

LEMMA WaitStep ==
    ASSUME IInv, [Next]_vars, NEW u \in App, u \notin disturbed'
    PROVE  Waits(u)'
<1>0. TypeOK /\ Life(u) /\ u \notin disturbed /\ Waits(u) /\ Steady(u) /\ TypeOK'
      BY TypeStep, DisturbedGrows DEF IInv, LifeInv, WaitInv, Steady
<1>1. ASSUME NEW t \in App, StartApplication(t) PROVE Waits(u)'
  <2>1. ~Awaited(t)
        BY <1>1, StartEffect DEF IInv, LifeInv, Life
  <2> QED BY <1>0, <1>1, <2>1, StartEffect DEF Waits, Awaited
<1>2. ASSUME NEW t \in App, StopApplication(t) PROVE Waits(u)'
      BY <1>0, <1>2, StopEffect DEF Waits, Awaited
<1>3. ASSUME NEW t \in App, StartWaitReplyTimer(t) PROVE Waits(u)'
  <2>1. CASE u = t
    <3>1. m_next[u] /\ ~timer[u]
          BY <1>0, <1>3, <2>1, WaitEffect DEF Life
    <3>2. m_socket[u] = "open"
          BY <1>0, <3>1 DEF Life, Quiet, Scheduled, TypeOK
    <3>3. ~Awaited(u)
          BY <1>0, <3>1, <3>2 DEF Waits
    <3> QED BY <1>0, <1>3, <2>1, <3>3, AwaitedAfterWait, WaitEffect DEF Waits, Awaited
  <2>2. CASE u # t
        BY <1>0, <1>3, <2>2, AwaitedAfterWait, WaitEffect DEF Waits
  <2> QED BY <2>1, <2>2
<1>4. ASSUME NEW t \in App, HandleWaitReplyTimeout(t) PROVE Waits(u)'
  <2>1. CASE u = t
        BY <1>0, <1>4, <2>1, TimeoutEffect DEF Waits, Awaited
  <2>2. CASE u # t
        BY <1>0, <1>4, <2>2, TimeoutEffect DEF Waits, Awaited
  <2> QED BY <2>1, <2>2
<1>5. ASSUME NEW m \in replies, Receive(m) PROVE Waits(u)'
  <2>1. replies' = replies \ {m} /\ m_socket' = m_socket
        BY <1>0, <1>5, ReceiveEffect
  <2>2. Hears(u, m) => ~Awaited(u)'
    <3> SUFFICES ASSUME Hears(u, m), Awaited(u)' PROVE FALSE
        OBVIOUS
    <3>1. Awaited(u)
          BY <2>1 DEF Awaited
    <3>2. m.of = u
          BY <1>0, <3>1, OwnAnswer DEF Busy
    <3> QED BY <1>0, <2>1, <3>2 DEF Waits, Awaited
  <2>3. ~Hears(u, m) => timer'[u] = timer[u]
        BY <1>0, <1>5, ReceiveEffect
  <2> QED BY <1>0, <2>1, <2>2, <2>3 DEF Waits, Awaited
<1>6. ASSUME NEW m \in replies, Lose(m) PROVE Waits(u)'
      BY <1>0, <1>6 DEF Lose, appVars, Waits, Awaited
<1>7. CASE UNCHANGED vars
      BY <1>0, <1>7 DEF vars, appVars, Waits, Awaited
<1> QED BY <1>1, <1>2, <1>3, <1>4, <1>5, <1>6, <1>7 DEF Next

(* Only StartApplication makes an application busy. *)
LEMMA BusyStep ==
    ASSUME IInv, [Next]_vars, NEW u \in App, Busy(u)', ~Busy(u)
    PROVE  StartApplication(u)
<1>0. TypeOK /\ TypeOK'
      BY TypeStep DEF IInv
<1>1. ASSUME NEW t \in App, StartApplication(t) PROVE u = t
      BY <1>0, <1>1, StartEffect DEF Busy, Awaited, MoreHops
<1>2. ASSUME NEW t \in App, StopApplication(t) PROVE FALSE
  <2>1. CASE u = t
        BY <1>0, <1>2, <2>1, StopEffect DEF Busy, Awaited, MoreHops
  <2>2. CASE u # t
        BY <1>0, <1>2, <2>2, StopEffect DEF Busy, Awaited, MoreHops
  <2> QED BY <2>1, <2>2
<1>3. ASSUME NEW t \in App, StartWaitReplyTimer(t) PROVE FALSE
  <2>1. Busy(t)
        BY <1>0, <1>3, WaitEffect DEF Busy
  <2>2. u # t
        BY <2>1
  <2>3. m_ttl'[u] = m_ttl[u]
        BY <1>0, <1>3, <2>2, WaitEffect, SendEffect
  <2> QED BY <1>0, <1>3, <2>2, <2>3, WaitEffect, AwaitedAfterWait DEF Busy, MoreHops
<1>4. ASSUME NEW t \in App, HandleWaitReplyTimeout(t) PROVE FALSE
  <2>1. u # t
        BY <1>0, <1>4, TimeoutEffect DEF Busy
  <2> QED BY <1>0, <1>4, <2>1, TimeoutEffect DEF Busy, Awaited, MoreHops
<1>5. ASSUME NEW m \in replies, Receive(m) PROVE FALSE
  <2>1. CASE Hears(u, m)
        BY <1>0, <1>5, <2>1, ReceiveEffect DEF Busy, Awaited, MoreHops, Hears
  <2>2. CASE ~Hears(u, m)
        BY <1>0, <1>5, <2>2, ReceiveEffect DEF Busy, Awaited, MoreHops
  <2> QED BY <2>1, <2>2
<1>6. ASSUME NEW m \in replies, Lose(m) PROVE FALSE
      BY <1>6 DEF Lose, appVars, Busy, Awaited, MoreHops
<1>7. CASE UNCHANGED vars
      BY <1>7 DEF vars, appVars, Busy, Awaited, MoreHops
<1> QED BY <1>1, <1>2, <1>3, <1>4, <1>5, <1>6, <1>7 DEF Next

LEMMA AloneStep ==
    ASSUME IInv, [Next]_vars
    PROVE  AloneInv'
<1> SUFFICES ASSUME NEW t \in App, t \notin disturbed', NEW u \in App \ {t}, Busy(t)', Busy(u)'
             PROVE  FALSE
    BY DEF AloneInv
<1>0. TypeOK /\ t \notin disturbed /\ ~(Busy(t) /\ Busy(u))
      BY DisturbedGrows DEF IInv, AloneInv
<1>1. ASSUME NEW v \in App, Quiet(v) /\ ~Awaited(v) PROVE ~Busy(v)
      BY <1>1 DEF IInv, LifeInv, Life, Busy, Quiet, Scheduled
<1>2. CASE ~Busy(t)
  <2>1. StartApplication(t)
        BY <1>2, BusyStep
  <2>2. ~Busy(u)
        BY <1>0, <1>1, <2>1, StartEffect
  <2>3. StartApplication(u)
        BY <2>2, BusyStep
  <2> QED BY <1>0, <2>1, <2>3, StartEffect
<1>3. CASE ~Busy(u)
  <2>1. StartApplication(u)
        BY <1>3, BusyStep
  <2>2. ~Busy(t)
        BY <1>0, <1>1, <2>1, StartEffect
  <2> QED BY <1>2, <2>2
<1> QED BY <1>0, <1>2, <1>3
(* Below the last TTL there are numbers left for all probes. *)
LEMMA NumbersLeft ==
    ASSUME NEW ttl \in Nat \ {0}, NEW count \in 0 .. ProbeNum, ttl <= MaxHop
    PROVE  /\ ProbeNum * (ttl - 1) + count <= MaxHop * ProbeNum
           /\ ProbeNum * (ttl - 1) + count >= 0
           /\ ProbeNum * (ttl - 1) + ProbeNum = ProbeNum * ttl
           /\ ProbeNum * ttl <= MaxHop * ProbeNum
<1>1. ProbeNum * (ttl - 1) + ProbeNum = ProbeNum * ttl
      OBVIOUS
<1>2. PICK d \in Nat : MaxHop = ttl + d
  <2>1. MaxHop - ttl \in Nat /\ MaxHop = ttl + (MaxHop - ttl)
        OBVIOUS
  <2> QED BY <2>1
<1>3. MaxHop * ProbeNum = ProbeNum * ttl + ProbeNum * d /\ ProbeNum * d \in Nat
      BY <1>2
<1>4. ProbeNum * (ttl - 1) \in Nat
      OBVIOUS
<1> QED BY <1>1, <1>3, <1>4

LEMMA NumberStep ==
    ASSUME IInv, [Next]_vars, NEW u \in App, Steady(u)'
    PROVE  Numbered(u)'
<1>0. TypeOK /\ Life(u) /\ Steady(u) /\ Numbered(u) /\ TypeOK'
      BY TypeStep, DisturbedGrows DEF IInv, LifeInv, NumberInv
<1>1. ASSUME NEW t \in App, StartApplication(t) PROVE Numbered(u)'
  <2>1. CASE u = t
        BY <1>0, <1>1, <2>1, StartEffect DEF Numbered, Life, MoreHops
  <2>2. CASE u # t
        BY <1>0, <1>1, <2>2, StartEffect DEF Numbered, MoreHops
  <2> QED BY <2>1, <2>2
<1>2. ASSUME NEW t \in App, StopApplication(t) PROVE Numbered(u)'
  <2>1. CASE u = t
        BY <1>0, <1>2, <2>1, StopEffect DEF Numbered, MoreHops
  <2>2. CASE u # t
        BY <1>0, <1>2, <2>2, StopEffect DEF Numbered, MoreHops
  <2> QED BY <2>1, <2>2
<1>3. ASSUME NEW t \in App, StartWaitReplyTimer(t) PROVE Numbered(u)'
  <2>1. CASE u = t
    <3>1. m_next[u] /\ ~timer[u] /\ ~m_next'[u] /\ Send(u)
          BY <1>0, <1>3, <2>1, WaitEffect DEF Life
    <3>2. m_ttl[u] \in Nat \ {0} /\ m_ttl[u] <= MaxHop /\ m_probeCount[u] \in 0 .. ProbeNum
      <4>1. m_ttl[u] \in Nat \ {0} /\ m_probeCount[u] \in 0 .. ProbeNum
            BY <1>0 DEF TypeOK
      <4>2. m_ttl[u] < MaxHop + 1
            BY <1>0, <3>1 DEF Numbered, MoreHops
      <4> QED BY <4>1, <4>2
    <3>3. m_seq[u] = ProbeNum * (m_ttl[u] - 1) + m_probeCount[u]
          BY <1>0 DEF Numbered
    <3>4. /\ m_seq[u] <= MaxHop * ProbeNum /\ m_seq[u] >= 0
          /\ ProbeNum * (m_ttl[u] - 1) + ProbeNum = ProbeNum * m_ttl[u]
          BY <3>2, <3>3, NumbersLeft
    <3>5. MaxHop * ProbeNum \in Nat /\ m_seq[u] \in Nat
          BY <1>0 DEF TypeOK
    <3>6. m_seq'[u] = m_seq[u] + 1
      <4>1. m_seq'[u] = (m_seq[u] + 1) % SeqLimit
            BY <1>0, <3>1, SendEffect
      <4>2. m_seq[u] + 1 \in 0 .. SeqLimit - 1
            BY <3>4, <3>5
      <4> QED BY <4>1, <4>2
    <3>7. CASE HopProbed(u)
      <4>1. m_ttl'[u] = m_ttl[u] + 1 /\ m_probeCount'[u] = 1
            BY <1>0, <3>1, <3>7, SendEffect
      <4>2. m_probeCount[u] = ProbeNum
            BY <3>2, <3>7 DEF HopProbed
      <4>3. m_seq'[u] = ProbeNum * m_ttl[u] + 1
            BY <3>3, <3>4, <3>6, <4>2
      <4>4. m_ttl'[u] - 1 = m_ttl[u]
            BY <3>2, <4>1
      <4> QED BY <3>1, <3>2, <4>1, <4>3, <4>4 DEF Numbered
    <3>8. CASE ~HopProbed(u)
      <4>1. m_ttl'[u] = m_ttl[u] /\ m_probeCount'[u] = m_probeCount[u] + 1
            BY <1>0, <3>1, <3>8, SendEffect
      <4>2. ProbeNum * (m_ttl[u] - 1) \in Nat
            BY <3>2
      <4>3. m_seq'[u] = ProbeNum * (m_ttl[u] - 1) + m_probeCount'[u]
            BY <3>2, <3>3, <3>6, <4>1, <4>2
      <4> QED BY <3>1, <3>2, <4>1, <4>3 DEF Numbered
    <3> QED BY <3>7, <3>8
  <2>2. CASE u # t
    <3>1. m_ttl'[u] = m_ttl[u] /\ m_seq'[u] = m_seq[u] /\ m_probeCount'[u] = m_probeCount[u]
          BY <1>0, <1>3, <2>2, WaitEffect, SendEffect
    <3> QED BY <1>0, <1>3, <2>2, <3>1, WaitEffect DEF Numbered, MoreHops
  <2> QED BY <2>1, <2>2
<1>4. ASSUME NEW t \in App, HandleWaitReplyTimeout(t) PROVE Numbered(u)'
  <2>1. CASE u = t
        BY <1>0, <1>4, <2>1, TimeoutEffect DEF Numbered, MoreHops
  <2>2. CASE u # t
        BY <1>0, <1>4, <2>2, TimeoutEffect DEF Numbered, MoreHops
  <2> QED BY <2>1, <2>2
<1>5. ASSUME NEW m \in replies, Receive(m) PROVE Numbered(u)'
  <2>1. /\ UNCHANGED <<m_seq, m_ttl, m_probeCount>>
        /\ m_next'[u] => m_next[u] \/ MoreHops(u)
        BY <1>0, <1>5, ReceiveEffect
  <2> QED BY <1>0, <2>1 DEF Numbered, MoreHops
<1>6. ASSUME NEW m \in replies, Lose(m) PROVE Numbered(u)'
      BY <1>0, <1>6 DEF Lose, appVars, Numbered, MoreHops
<1>7. CASE UNCHANGED vars
      BY <1>0, <1>7 DEF vars, appVars, Numbered, MoreHops
<1> QED BY <1>1, <1>2, <1>3, <1>4, <1>5, <1>6, <1>7 DEF Next

(* A reported hop stays the last thing heard until the next probe is sent. *)
LEMMA ReportedIsDeaf ==
    ASSUME IInv, ProbeNum > 1, NEW m \in replies, Receive(m), NEW u \in App, Steady(u),
           Reported(u)
    PROVE  ~Hears(u, m)
<1> SUFFICES ASSUME Hears(u, m) PROVE FALSE
    OBVIOUS
<1>0. TypeOK /\ Numbered(u)
      BY DEF IInv, NumberInv
<1>1. m_socket[u] = "open" /\ (m_next[u] \/ stopping[u]) /\ ~timer[u]
      BY DEF Hears, Reported, Heard
<1>2. u \notin scenario.immediate
      BY <1>0, <1>1, ReceiveEffect
<1>3. MoreHops(u)
      BY <1>0 DEF Reported, Heard, LastProbe, Numbered, MoreHops, TypeOK
<1>4. Busy(u) /\ u \notin disturbed
      BY <1>1, <1>2, <1>3 DEF Busy, Steady
<1> QED BY <1>1, <1>4, OwnAnswer

LEMMA RouteStep ==
    ASSUME IInv, [Next]_vars, ProbeNum > 1, NEW u \in App, Steady(u)'
    PROVE  (Len(route[u]) < m_ttl[u] \/ Reported(u))'
<1> DEFINE R == Len(route[u]) < m_ttl[u] \/ Reported(u)
<1>0. /\ TypeOK /\ Life(u) /\ Steady(u) /\ Numbered(u) /\ TypeOK' /\ R
      /\ m_ttl[u] \in Nat /\ Len(route[u]) \in Nat
  <2>1. TypeOK /\ TypeOK' /\ Steady(u)
        BY TypeStep, DisturbedGrows DEF IInv
  <2>2. Life(u) /\ Numbered(u) /\ R
        BY <2>1 DEF IInv, LifeInv, NumberInv, RouteInv
  <2>3. m_ttl[u] \in Nat /\ Len(route[u]) \in Nat
        BY <2>1 DEF TypeOK
  <2> QED BY <2>1, <2>2, <2>3
<1>1. ASSUME NEW t \in App, StartApplication(t) PROVE R'
  <2>1. CASE u = t
        BY <1>0, <1>1, <2>1, StartEffect DEF Life, Reported, Heard, LastProbe, TypeOK
  <2>2. CASE u # t
        BY <1>0, <1>1, <2>2, StartEffect DEF Reported, Heard, LastProbe
  <2> QED BY <2>1, <2>2
<1>2. ASSUME NEW t \in App, StopApplication(t) PROVE R'
  <2>1. CASE u = t
        BY <1>0, <1>2, <2>1, StopEffect DEF Reported, Heard, LastProbe
  <2>2. CASE u # t
        BY <1>0, <1>2, <2>2, StopEffect DEF Reported, Heard, LastProbe
  <2> QED BY <2>1, <2>2
<1>3. ASSUME NEW t \in App, StartWaitReplyTimer(t) PROVE R'
  <2>0. route' = route
        BY <1>0, <1>3, WaitEffect
  <2>1. CASE u = t
    <3>1. m_next[u] /\ ~timer[u] /\ Send(u)
          BY <1>0, <1>3, <2>1, WaitEffect DEF Life
    <3>2. CASE Reported(u)
      <4>1. HopProbed(u)
            BY <3>2 DEF Reported, Heard, LastProbe, HopProbed
      <4>2. m_ttl'[u] = m_ttl[u] + 1
            BY <1>0, <3>1, <4>1, SendEffect
      <4> QED BY <1>0, <2>0, <3>2, <4>2 DEF Reported, Heard
    <3>3. CASE Len(route[u]) < m_ttl[u]
      <4>1. m_ttl'[u] = m_ttl[u] + 1 \/ m_ttl'[u] = m_ttl[u]
            BY <1>0, <3>1, SendEffect
      <4> QED BY <1>0, <2>0, <3>3, <4>1
    <3> QED BY <1>0, <3>2, <3>3
  <2>2. CASE u # t
    <3>1. m_ttl'[u] = m_ttl[u] /\ m_probeCount'[u] = m_probeCount[u]
          BY <1>0, <1>3, <2>2, WaitEffect, SendEffect
    <3> QED BY <1>0, <1>3, <2>0, <2>2, <3>1, WaitEffect DEF Reported, Heard, LastProbe
  <2> QED BY <2>1, <2>2
<1>4. ASSUME NEW t \in App, HandleWaitReplyTimeout(t) PROVE R'
  <2>1. CASE u = t
        BY <1>0, <1>4, <2>1, TimeoutEffect DEF Reported, Heard, LastProbe
  <2>2. CASE u # t
        BY <1>0, <1>4, <2>2, TimeoutEffect DEF Reported, Heard, LastProbe
  <2> QED BY <2>1, <2>2
<1>5. ASSUME NEW m \in replies, Receive(m) PROVE R'
  <2>0. UNCHANGED <<m_socket, m_ttl, m_probeCount>>
        BY <1>0, <1>5, ReceiveEffect
  <2>1. CASE ~Hears(u, m)
        BY <1>0, <1>5, <2>0, <2>1, ReceiveEffect DEF Reported, Heard, LastProbe
  <2>2. CASE Hears(u, m)
    <3>1. Len(route[u]) < m_ttl[u]
          BY <1>0, <1>5, <2>2, ReportedIsDeaf
    <3>2. CASE route'[u] = route[u]
          BY <2>0, <3>1, <3>2
    <3>3. CASE LastProbe(u) /\ Len(route'[u]) = Len(route[u]) + 1
      <4>1. MoreHops(u)
            BY <1>0, <3>3 DEF LastProbe, Numbered, MoreHops, TypeOK
      <4>2. ~timer'[u] /\ (m_next'[u] \/ stopping'[u])
            BY <1>0, <1>5, <2>2, <4>1, ReceiveEffect
      <4>3. Len(route'[u]) < m_ttl'[u] \/ Len(route'[u]) = m_ttl'[u]
            BY <1>0, <2>0, <3>1, <3>3
      <4> QED BY <2>0, <3>3, <4>2, <4>3 DEF Reported, Heard, LastProbe
    <3> QED BY <1>0, <1>5, <2>2, <3>2, <3>3, ReceiveEffect
  <2> QED BY <2>1, <2>2
<1>6. ASSUME NEW m \in replies, Lose(m) PROVE R'
      BY <1>0, <1>6 DEF Lose, appVars, Reported, Heard, LastProbe
<1>7. CASE UNCHANGED vars
      BY <1>0, <1>7 DEF vars, appVars, Reported, Heard, LastProbe
<1> QED BY <1>1, <1>2, <1>3, <1>4, <1>5, <1>6, <1>7 DEF Next

-----------------------------------------------------------------------------
(* The invariant is inductive, and what it says of the runs' properties.   *)

LEMMA InvInit == Init => IInv
<1> SUFFICES ASSUME Init PROVE IInv
    OBVIOUS
<1>1. \A t \in App : /\ Quiet(t) /\ ~Awaited(t) /\ ~timer[t] /\ ~m_next[t] /\ orphans[t] = 0
                     /\ m_socket[t] = "none"
                     /\ m_seq[t] = 0 /\ m_ttl[t] = 1 /\ m_probeCount[t] = 0 /\ route[t] = <<>>
  <2>1. ASSUME NEW t \in App
        PROVE  /\ ~timer[t] /\ ~m_next[t] /\ ~stopping[t] /\ orphans[t] = 0 /\ replies = {}
               /\ m_socket[t] = "none"
               /\ m_seq[t] = 0 /\ m_ttl[t] = 1 /\ m_probeCount[t] = 0 /\ route[t] = <<>>
        BY DEF Init
  <2>2. ASSUME NEW t \in App PROVE Quiet(t) /\ ~Awaited(t)
        BY <2>1 DEF Quiet, Scheduled, Awaited
  <2> QED BY <2>1, <2>2
<1>2. LifeInv /\ AloneInv
      BY <1>1 DEF LifeInv, Life, AloneInv, Busy
<1>3. WaitInv
      BY DEF Init, WaitInv, Waits, Awaited
<1>4. NumberInv
      BY <1>1 DEF NumberInv, Numbered
<1>5. RouteInv
      BY <1>1 DEF RouteInv
<1> QED BY <1>2, <1>3, <1>4, <1>5, TypeInit DEF IInv

LEMMA InvStep == IInv /\ [Next]_vars => IInv'
<1> SUFFICES ASSUME IInv, [Next]_vars PROVE IInv'
    OBVIOUS
<1>1. TypeOK'
      BY TypeStep DEF IInv
<1>2. LifeInv'
      BY LifeStep DEF LifeInv
<1>3. WaitInv'
      BY WaitStep DEF WaitInv
<1>4. NumberInv'
      BY NumberStep DEF NumberInv
<1>5. RouteInv'
      BY RouteStep DEF RouteInv
<1> QED BY <1>1, <1>2, <1>3, <1>4, <1>5, AloneStep DEF IInv

LEMMA Invariant == Spec => []IInv
BY InvInit, InvStep, PTL DEF Spec

(* Probes go one at a time, and a closed application sends nothing more    *)
(* unless a late answer has made m_next forget an event.                   *)
THEOREM OneProbeAtATimeHolds == Spec => []OneProbeAtATime
<1>1. IInv => OneProbeAtATime
      BY DEF IInv, LifeInv, Life, Steady, TypeOK, OneProbeAtATime
<1> QED BY <1>1, Invariant, PTL

-----------------------------------------------------------------------------
(* What answers that find no probe waited for can add.                     *)

(* The events of t that are scheduled: each sends one probe at most. *)
Pending(t) == orphans[t] + (IF m_next[t] THEN 1 ELSE 0)

Waiting(t) == IF timer[t] THEN 1 ELSE 0

(* Each extra answer pays for one event, and so for one probe; the others  *)
(* hand on the one that StartApplication has scheduled.                    *)
PaidProbes(t) ==
    /\ Pending(t) + Waiting(t) <= extra[t] + (IF m_socket[t] = "closed" THEN 0 ELSE 1)
    /\ m_socket[t] # "closed" /\ orphans[t] > 0 => m_next[t]
    /\ m_ttl[t] > MaxHop => Probes(t) + Pending(t) <= MaxHop * ProbeNum + 1 + extra[t]

(* Each TTL pays for the report of its last probe, each extra answer for   *)
(* one more.                                                               *)
PaidReports(t) ==
    /\ Len(route[t]) + Waiting(t) <= m_ttl[t] + extra[t]
    /\ ~LastProbe(t) => Len(route[t]) < m_ttl[t] + extra[t]

PaidInv == \A t \in App : PaidProbes(t) /\ PaidReports(t)

(* The event that is scheduled takes the place of the one before it. *)
LEMMA ScheduledOne ==
    ASSUME TypeOK, NEW ts, ScheduleNext(ts), NEW t \in App
    PROVE  /\ t \in ts => m_next'[t] /\ Pending(t)' = Pending(t) + 1
           /\ t \notin ts => m_next'[t] = m_next[t] /\ orphans'[t] = orphans[t]
<1>1. /\ m_next'[t] = (m_next[t] \/ t \in ts)
      /\ orphans'[t] = IF t \in ts /\ m_next[t] THEN orphans[t] + 1 ELSE orphans[t]
      BY DEF ScheduleNext
<1>2. orphans[t] \in Nat /\ m_next[t] \in BOOLEAN
      BY DEF TypeOK
<1>3. ASSUME t \in ts PROVE m_next'[t] /\ Pending(t)' = Pending(t) + 1
  <2>1. m_next'[t] = TRUE
        BY <1>1, <1>3
  <2>2. CASE m_next[t]
        BY <1>1, <1>2, <1>3, <2>1, <2>2 DEF Pending
  <2>3. CASE ~m_next[t]
        BY <1>1, <1>2, <1>3, <2>1, <2>3 DEF Pending
  <2> QED BY <2>1, <2>2, <2>3
<1> QED BY <1>1, <1>2, <1>3

(* A probe counts once, and starts the next TTL when the last was the last *)
(* of its hop.                                                             *)
LEMMA OneMoreProbe ==
    ASSUME TypeOK, NEW t \in App, Send(t)
    PROVE  /\ Probes(t)' = Probes(t) + 1
           /\ LastProbe(t) => m_ttl'[t] = m_ttl[t] + 1 /\ m_probeCount'[t] = 1
           /\ ~LastProbe(t) => m_ttl'[t] = m_ttl[t] /\ m_probeCount'[t] = m_probeCount[t] + 1
<1>1. /\ HopProbed(t) <=> LastProbe(t)
      /\ m_ttl[t] \in Nat \ {0} /\ m_probeCount[t] \in 0 .. ProbeNum
      BY DEF TypeOK, HopProbed, LastProbe
<1>2. /\ LastProbe(t) => m_ttl'[t] = m_ttl[t] + 1 /\ m_probeCount'[t] = 1
      /\ ~LastProbe(t) => m_ttl'[t] = m_ttl[t] /\ m_probeCount'[t] = m_probeCount[t] + 1
      BY <1>1, SendEffect
<1> DEFINE sofar == ProbeNum * (m_ttl[t] - 1)
<1>3. sofar \in Nat /\ ProbeNum * ((m_ttl[t] + 1) - 1) = sofar + ProbeNum
      BY <1>1
<1>4. Probes(t) = sofar + m_probeCount[t] /\ Probes(t)' = ProbeNum * (m_ttl'[t] - 1) + m_probeCount'[t]
      BY DEF Probes
<1> HIDE DEF sofar
<1>5. CASE LastProbe(t)
  <2>1. Probes(t)' = ProbeNum * ((m_ttl[t] + 1) - 1) + 1 /\ m_probeCount[t] = ProbeNum
        BY <1>2, <1>4, <1>5 DEF LastProbe
  <2> QED BY <1>2, <1>3, <1>4, <1>5, <2>1
<1>6. CASE ~LastProbe(t)
  <2>1. Probes(t)' = sofar + (m_probeCount[t] + 1)
        BY <1>2, <1>4, <1>6 DEF sofar
  <2> QED BY <1>1, <1>2, <1>3, <1>4, <1>6, <2>1
<1> QED BY <1>5, <1>6

(* The applications that a step leaves alone. *)
LEMMA PaidFrame ==
    ASSUME NEW t, PaidProbes(t), PaidReports(t),
           m_socket'[t] = m_socket[t], m_ttl'[t] = m_ttl[t], m_probeCount'[t] = m_probeCount[t],
           m_next'[t] = m_next[t], orphans'[t] = orphans[t], timer'[t] = timer[t],
           route'[t] = route[t], extra'[t] = extra[t]
    PROVE  (PaidProbes(t) /\ PaidReports(t))'
BY DEF PaidProbes, PaidReports, Pending, Waiting, Probes, LastProbe

(* The numbers the accounts are kept in. *)
LEMMA PaidTypes ==
    ASSUME TypeOK, NEW t \in App
    PROVE  /\ orphans[t] \in Nat /\ m_next[t] \in BOOLEAN /\ timer[t] \in BOOLEAN
           /\ extra[t] \in Nat /\ m_ttl[t] \in Nat \ {0} /\ m_probeCount[t] \in 0 .. ProbeNum
           /\ Len(route[t]) \in Nat /\ Pending(t) \in Nat /\ Waiting(t) \in 0 .. 1
           /\ Probes(t) \in Nat /\ MaxHop * ProbeNum \in Nat
<1>1. m_ttl[t] - 1 \in Nat /\ m_probeCount[t] \in Nat
      BY DEF TypeOK
<1>2. ProbeNum * (m_ttl[t] - 1) \in Nat /\ MaxHop * ProbeNum \in Nat
      BY <1>1
<1>3. Probes(t) \in Nat
      BY <1>1, <1>2 DEF Probes
<1> QED BY <1>2, <1>3 DEF TypeOK, Pending, Waiting

(* A scheduled event sends a probe, or finds one waited for. *)
LEMMA PaidWait ==
    ASSUME TypeOK, TypeOK', PaidInv, NEW t \in App, StartWaitReplyTimer(t)
    PROVE  (PaidProbes(t) /\ PaidReports(t))'
<1>1. /\ PaidProbes(t) /\ PaidReports(t) /\ timer'[t]
      /\ UNCHANGED <<m_socket, route, extra>>
      /\ timer[t] => UNCHANGED <<m_probeCount, m_ttl>>
      /\ ~timer[t] => Send(t)
      BY WaitEffect DEF PaidInv, StartWaitReplyTimer
<1>2. /\ Pending(t)' = Pending(t) - 1
      /\ orphans'[t] > 0 => orphans[t] > 0 /\ m_next'[t] = m_next[t]
  <2>1. CASE orphans[t] > 0
    <3>1. orphans'[t] = orphans[t] - 1 /\ m_next' = m_next
          BY <2>1 DEF StartWaitReplyTimer, TypeOK
    <3> QED BY <2>1, <3>1, PaidTypes DEF Pending
  <2>2. CASE ~(orphans[t] > 0)
    <3>1. orphans' = orphans /\ m_next[t] /\ m_next'[t] = FALSE
          BY <2>2 DEF StartWaitReplyTimer, TypeOK
    <3>2. Pending(t) = orphans[t] + 1 /\ Pending(t)' = orphans[t] + 0
          BY <3>1 DEF Pending
    <3>3. orphans[t] = 0 /\ ~(orphans'[t] > 0)
          BY <2>2, <3>1, PaidTypes
    <3>4. Pending(t)' = Pending(t) - 1
          BY <3>2, <3>3
    <3> QED BY <3>3, <3>4
  <2> QED BY <2>1, <2>2
<1>3. Waiting(t)' = 1
      BY <1>1 DEF Waiting
<1> DEFINE all == MaxHop * ProbeNum
<1>4. all \in Nat /\ ProbeNum * ((MaxHop + 1) - 1) = all
      OBVIOUS
<1>5. CASE timer[t]
  <2>1. Probes(t)' = Probes(t) /\ (LastProbe(t)' <=> LastProbe(t)) /\ Waiting(t) = 1
        BY <1>1, <1>5 DEF Probes, LastProbe, Waiting
  <2>2. PaidProbes(t)'
        BY <1>1, <1>2, <1>3, <1>4, <1>5, <2>1, PaidTypes DEF PaidProbes
  <2>3. PaidReports(t)'
        BY <1>1, <1>3, <1>5, <2>1, PaidTypes DEF PaidReports
  <2> QED BY <2>2, <2>3
<1>6. CASE ~timer[t]
  <2>1. /\ Probes(t)' = Probes(t) + 1 /\ Waiting(t) = 0
        /\ LastProbe(t) => m_ttl'[t] = m_ttl[t] + 1 /\ m_probeCount'[t] = 1
        /\ ~LastProbe(t) => m_ttl'[t] = m_ttl[t] /\ m_probeCount'[t] = m_probeCount[t] + 1
        BY <1>1, <1>6, OneMoreProbe DEF Waiting
  <2>2. PaidReports(t)'
        BY <1>1, <1>3, <1>6, <2>1, PaidTypes DEF PaidReports, LastProbe
  <2>3. /\ (Pending(t) + Waiting(t) <= extra[t] + (IF m_socket[t] = "closed" THEN 0 ELSE 1))'
        /\ (m_socket[t] # "closed" /\ orphans[t] > 0 => m_next[t])'
        BY <1>1, <1>2, <1>3, <2>1, PaidTypes DEF PaidProbes
  <2>4. ASSUME m_ttl'[t] > MaxHop
        PROVE  Probes(t)' + Pending(t)' <= MaxHop * ProbeNum + 1 + extra'[t]
    <3>1. CASE m_ttl[t] > MaxHop
          BY <1>1, <1>2, <1>4, <2>1, <3>1, PaidTypes DEF PaidProbes
    <3>2. CASE ~(m_ttl[t] > MaxHop)
      <4>1. m_ttl'[t] = MaxHop + 1 /\ m_probeCount'[t] = 1
            BY <2>1, <2>4, <3>2, PaidTypes
      <4>2. Probes(t)' = all + 1
            BY <1>4, <4>1 DEF Probes
      <4>3. Pending(t)' <= extra[t]
            BY <1>1, <1>2, <2>1, PaidTypes DEF PaidProbes
      <4>4. Pending(t)' \in Nat /\ extra'[t] = extra[t] /\ extra[t] \in Nat
        <5>1. orphans'[t] \in Nat /\ m_next'[t] \in BOOLEAN
              BY DEF TypeOK
        <5> QED BY <1>1, <5>1, PaidTypes DEF Pending
      <4> HIDE DEF all
      <4>5. Probes(t)' + Pending(t)' <= all + 1 + extra'[t]
            BY <1>4, <4>2, <4>3, <4>4
      <4> QED BY <4>5 DEF all
    <3> QED BY <3>1, <3>2
  <2> QED BY <2>2, <2>3, <2>4 DEF PaidProbes
<1> QED BY <1>5, <1>6

(* The timeout hands its event on as long as there are hops. *)
LEMMA PaidTimeout ==
    ASSUME TypeOK, PaidInv, NEW t \in App, HandleWaitReplyTimeout(t)
    PROVE  (PaidProbes(t) /\ PaidReports(t))'
<1> DEFINE ts == {u \in {t} : MoreHops(u)}
<1>1. /\ PaidProbes(t) /\ PaidReports(t) /\ ScheduleNext(ts) /\ timer[t] /\ ~timer'[t]
      /\ UNCHANGED <<m_socket, m_ttl, m_probeCount, route, extra>>
      BY TimeoutEffect DEF PaidInv, HandleWaitReplyTimeout
<1>2. t \in ts <=> ~(m_ttl[t] > MaxHop)
      BY PaidTypes DEF MoreHops
<1> HIDE DEF ts
<1>3. /\ Waiting(t) = 1 /\ Waiting(t)' = 0
      /\ Probes(t)' = Probes(t) /\ (LastProbe(t)' <=> LastProbe(t))
      BY <1>1 DEF Waiting, Probes, LastProbe
<1>4. /\ t \in ts => m_next'[t] /\ Pending(t)' = Pending(t) + 1
      /\ t \notin ts => /\ m_next'[t] = m_next[t] /\ orphans'[t] = orphans[t]
                         /\ Pending(t)' = Pending(t)
      BY <1>1, ScheduledOne DEF Pending
<1>5. PaidProbes(t)'
      BY <1>1, <1>2, <1>3, <1>4, PaidTypes DEF PaidProbes
<1>6. PaidReports(t)'
      BY <1>1, <1>3, PaidTypes DEF PaidReports, LastProbe
<1> QED BY <1>5, <1>6

(* An answer takes the place of the wait, or counts as extra. *)
LEMMA PaidReceive ==
    ASSUME TypeOK, PaidInv, NEW m \in replies, Receive(m), NEW t \in App
    PROVE  (PaidProbes(t) /\ PaidReports(t))'
<1> DEFINE hearers == {u \in App : Hears(u, m)}
           finished == {u \in hearers : LastProbe(u) /\ m.kind = "echo"}
           ts == {u \in hearers \ finished : MoreHops(u)}
<1>1. /\ PaidProbes(t) /\ PaidReports(t)
      /\ UNCHANGED <<m_socket, m_ttl, m_probeCount>>
      BY ReceiveEffect DEF PaidInv
<1>2. /\ ScheduleNext(ts)
      /\ extra'[t] = IF Hears(t, m) /\ ~timer[t] THEN extra[t] + 1 ELSE extra[t]
      BY DEF Receive
<1>3. CASE ~Hears(t, m)
      BY <1>1, <1>2, <1>3, ReceiveEffect, PaidFrame
<1>4. CASE Hears(t, m)
  <2>1. t \in ts => ~(m_ttl[t] > MaxHop) /\ m_socket[t] = "open"
        BY <1>4, PaidTypes DEF MoreHops, Hears
  <2> HIDE DEF ts
  <2>2. /\ extra'[t] = extra[t] + 1 - Waiting(t) /\ Waiting(t)' = 0
        /\ Probes(t)' = Probes(t) /\ (LastProbe(t)' <=> LastProbe(t))
        /\ m_socket[t] = "open"
        BY <1>1, <1>2, <1>4, ReceiveEffect, PaidTypes DEF Waiting, Probes, LastProbe, Hears
  <2>3. /\ t \in ts => m_next'[t] /\ Pending(t)' = Pending(t) + 1
        /\ t \notin ts => /\ m_next'[t] = m_next[t] /\ orphans'[t] = orphans[t]
                           /\ Pending(t)' = Pending(t)
        BY <1>2, ScheduledOne DEF Pending
  <2>4. route'[t] = route[t] \/ (LastProbe(t) /\ Len(route'[t]) = Len(route[t]) + 1)
        BY <1>4, ReceiveEffect
  <2>5. PaidProbes(t)'
    <3>1. (Pending(t) + Waiting(t) <= extra[t] + (IF m_socket[t] = "closed" THEN 0 ELSE 1))'
          BY <1>1, <2>2, <2>3, PaidTypes DEF PaidProbes
    <3>2. (m_socket[t] # "closed" /\ orphans[t] > 0 => m_next[t])'
          BY <1>1, <2>3 DEF PaidProbes
    <3>3. ASSUME m_ttl'[t] > MaxHop
          PROVE  Probes(t)' + Pending(t)' <= MaxHop * ProbeNum + 1 + extra'[t]
      <4>1. m_ttl[t] > MaxHop /\ t \notin ts
            BY <1>1, <2>1, <3>3
      <4> QED BY <1>1, <2>2, <2>3, <4>1, PaidTypes DEF PaidProbes
    <3> QED BY <3>1, <3>2, <3>3 DEF PaidProbes
  <2>6. PaidReports(t)'
    <3>1. /\ Len(route[t]) \in Nat /\ m_ttl[t] \in Nat /\ extra[t] \in Nat
          /\ Waiting(t) \in 0 .. 1 /\ m_ttl'[t] = m_ttl[t]
          BY <1>1, PaidTypes
    <3>2. Len(route'[t]) <= m_ttl'[t] + extra'[t]
      <4>1. CASE route'[t] = route[t]
            BY <1>1, <2>2, <3>1, <4>1 DEF PaidReports
      <4>2. CASE LastProbe(t) /\ Len(route'[t]) = Len(route[t]) + 1
            BY <1>1, <2>2, <3>1, <4>2 DEF PaidReports
      <4> QED BY <2>4, <4>1, <4>2
    <3>3. ASSUME ~LastProbe(t)'
          PROVE  Len(route'[t]) < m_ttl'[t] + extra'[t]
      <4>1. ~LastProbe(t) /\ route'[t] = route[t]
            BY <2>2, <2>4, <3>3
      <4> QED BY <1>1, <2>2, <3>1, <4>1 DEF PaidReports
    <3> QED BY <2>2, <3>1, <3>2, <3>3 DEF PaidReports
  <2> QED BY <2>5, <2>6
<1> QED BY <1>3, <1>4

LEMMA PaidStep ==
    ASSUME TypeOK, TypeOK', LifeInv, PaidInv, [Next]_vars
    PROVE  PaidInv'
<1> SUFFICES ASSUME NEW u \in App PROVE (PaidProbes(u) /\ PaidReports(u))'
    BY DEF PaidInv
<1>0. PaidProbes(u) /\ PaidReports(u)
      BY DEF PaidInv
<1>1. ASSUME NEW t \in App, StartApplication(t) PROVE (PaidProbes(u) /\ PaidReports(u))'
  <2>0. UNCHANGED <<m_ttl, m_probeCount, orphans, timer, route, extra>>
        BY <1>1 DEF StartApplication
  <2>1. CASE t = u
    <3>1. /\ Pending(u) = 0 /\ Waiting(u) = 0 /\ orphans[u] = 0 /\ m_ttl[u] = 1
          /\ m_socket'[u] = "open" /\ m_next'[u]
          BY <1>1, <2>1, StartEffect, PaidTypes
             DEF LifeInv, Life, Quiet, Scheduled, Pending, Waiting
    <3>2. Pending(u)' = 1 /\ Waiting(u)' = 0 /\ (LastProbe(u)' <=> LastProbe(u))
          BY <2>0, <3>1 DEF Pending, Waiting, LastProbe
    <3>3. PaidProbes(u)'
      <4>1. m_ttl'[u] = 1 /\ Probes(u)' = Probes(u) /\ MaxHop \in Nat \ {0}
            BY <2>0, <3>1 DEF Probes
      <4>2. extra'[u] = extra[u] /\ orphans'[u] = 0 /\ extra[u] \in Nat
            BY <2>0, <3>1, PaidTypes
      <4> QED BY <3>1, <3>2, <4>1, <4>2 DEF PaidProbes
    <3>4. PaidReports(u)'
          BY <1>0, <2>0, <3>1, <3>2, PaidTypes DEF PaidReports, LastProbe
    <3> QED BY <3>3, <3>4
  <2>2. CASE t # u
        BY <1>0, <1>1, <2>0, <2>2, StartEffect, PaidFrame
  <2> QED BY <2>1, <2>2
<1>2. ASSUME NEW t \in App, StopApplication(t) PROVE (PaidProbes(u) /\ PaidReports(u))'
  <2>0. UNCHANGED <<m_ttl, m_probeCount, orphans, route, extra>>
        BY <1>2 DEF StopApplication
  <2>1. CASE t = u
    <3>1. /\ m_socket'[u] = "closed" /\ Pending(u)' = orphans[u] /\ Waiting(u)' = 0
          /\ Probes(u)' = Probes(u) /\ (LastProbe(u)' <=> LastProbe(u))
          BY <1>2, <2>0, <2>1, StopEffect, PaidTypes DEF Pending, Waiting, Probes, LastProbe
    <3>2. orphans[u] <= Pending(u) /\ (m_next[u] => orphans[u] + 1 = Pending(u))
          BY PaidTypes DEF Pending
    <3>3. PaidProbes(u)'
      <4>1. (Pending(u) + Waiting(u) <= extra[u] + (IF m_socket[u] = "closed" THEN 0 ELSE 1))'
        <5>1. CASE m_socket[u] = "closed"
              BY <1>0, <2>0, <3>1, <3>2, <5>1, PaidTypes DEF PaidProbes
        <5>2. CASE m_socket[u] # "closed" /\ m_next[u]
              BY <1>0, <2>0, <3>1, <3>2, <5>2, PaidTypes DEF PaidProbes
        <5>3. CASE m_socket[u] # "closed" /\ ~m_next[u]
              BY <1>0, <2>0, <3>1, <3>2, <5>3, PaidTypes DEF PaidProbes
        <5> QED BY <5>1, <5>2, <5>3
      <4>2. (m_ttl[u] > MaxHop => Probes(u) + Pending(u) <= MaxHop * ProbeNum + 1 + extra[u])'
            BY <1>0, <2>0, <3>1, <3>2, PaidTypes DEF PaidProbes
      <4> QED BY <3>1, <4>1, <4>2 DEF PaidProbes
    <3>4. PaidReports(u)'
          BY <1>0, <2>0, <3>1, PaidTypes DEF PaidReports, LastProbe
    <3> QED BY <3>3, <3>4
  <2>2. CASE t # u
        BY <1>0, <1>2, <2>0, <2>2, StopEffect, PaidFrame
  <2> QED BY <2>1, <2>2
<1>3. ASSUME NEW t \in App, StartWaitReplyTimer(t) PROVE (PaidProbes(u) /\ PaidReports(u))'
  <2>1. CASE t = u
        BY <1>3, <2>1, PaidWait
  <2>2. CASE t # u
    <3>1. UNCHANGED <<m_socket, route, extra>>
          BY <1>3 DEF StartWaitReplyTimer
    <3>2. m_ttl'[u] = m_ttl[u] /\ m_probeCount'[u] = m_probeCount[u]
          BY <1>3, <2>2, WaitEffect, SendEffect
    <3> QED BY <1>0, <1>3, <2>2, <3>1, <3>2, WaitEffect, PaidFrame
  <2> QED BY <2>1, <2>2
<1>4. ASSUME NEW t \in App, HandleWaitReplyTimeout(t) PROVE (PaidProbes(u) /\ PaidReports(u))'
  <2>1. CASE t = u
        BY <1>4, <2>1, PaidTimeout
  <2>2. CASE t # u
    <3>1. UNCHANGED <<m_socket, m_ttl, m_probeCount, route, extra>>
          BY <1>4 DEF HandleWaitReplyTimeout
    <3> QED BY <1>0, <1>4, <2>2, <3>1, TimeoutEffect, PaidFrame
  <2> QED BY <2>1, <2>2
<1>5. ASSUME NEW m \in replies, Receive(m) PROVE (PaidProbes(u) /\ PaidReports(u))'
      BY <1>5, PaidReceive
<1>6. CASE UNCHANGED appVars
      BY <1>0, <1>6, PaidFrame DEF appVars
<1> QED BY <1>1, <1>2, <1>3, <1>4, <1>5, <1>6 DEF Next, Lose, vars

(* What is pending, and so what is left to send, is paid for by answers    *)
(* heard while no probe was waited for.                                    *)
LEMMA PaidBounds ==
    ASSUME TypeOK, NEW t \in App, PaidProbes(t), PaidReports(t)
    PROVE  /\ Probes(t) <= MaxHop * ProbeNum + 1 + extra[t]
           /\ orphans[t] <= extra[t]
           /\ Len(route[t]) <= m_ttl[t] + extra[t]
<1>1. Probes(t) <= MaxHop * ProbeNum + 1 + extra[t]
  <2>1. CASE m_ttl[t] > MaxHop
        BY <2>1, PaidTypes DEF PaidProbes
  <2>2. CASE ~(m_ttl[t] > MaxHop)
    <3>1. Probes(t) <= MaxHop * ProbeNum
      <4>1. m_ttl[t] \in Nat \ {0} /\ m_probeCount[t] \in 0 .. ProbeNum /\ m_ttl[t] <= MaxHop
            BY <2>2, PaidTypes
      <4> QED BY <4>1, NumbersLeft DEF Probes
    <3> QED BY <3>1, PaidTypes
  <2> QED BY <2>1, <2>2
<1>2. orphans[t] <= extra[t]
      BY PaidTypes DEF PaidProbes, Pending
<1>3. Len(route[t]) <= m_ttl[t] + extra[t]
  <2>1. Len(route[t]) + Waiting(t) <= m_ttl[t] + extra[t]
        BY DEF PaidReports
  <2> QED BY <2>1, PaidTypes
<1> QED BY <1>1, <1>2, <1>3

(* A traceroute sends one probe beyond MaxHop, loses track of no event and *)
(* reports at most one hop per TTL, but for what each answer heard while   *)
(* it waits for none adds: one of each at most, and nothing where it finds *)
(* no probe delayed.                                                       *)
THEOREM ProbesAreBoundedHolds == Spec => []ProbesAreBounded
<1>1. ASSUME IInv, NEW t \in App, Steady(t)
      PROVE  /\ Probes(t) <= MaxHop * ProbeNum + 1
             /\ orphans[t] = 0
             /\ ProbeNum > 1 => Len(route[t]) <= m_ttl[t]
  <2>0. /\ Numbered(t) /\ orphans[t] = 0
        /\ m_ttl[t] \in Nat \ {0} /\ m_probeCount[t] \in 0 .. ProbeNum /\ Len(route[t]) \in Nat
        BY <1>1 DEF IInv, TypeOK, NumberInv, LifeInv, Life
  <2>1. Probes(t) <= MaxHop * ProbeNum + 1
    <3>1. CASE m_ttl[t] <= MaxHop
      <4>1. Probes(t) <= MaxHop * ProbeNum
            BY <2>0, <3>1, NumbersLeft DEF Probes
      <4>2. MaxHop * ProbeNum \in Nat /\ Probes(t) \in Nat
            BY <1>1, PaidTypes DEF IInv
      <4> QED BY <4>1, <4>2
    <3>2. CASE m_ttl[t] = MaxHop + 1
          BY <2>0, <3>2 DEF Numbered, Probes
    <3> QED BY <2>0, <3>1, <3>2 DEF Numbered
  <2>2. ProbeNum > 1 => Len(route[t]) < m_ttl[t] \/ Len(route[t]) = m_ttl[t]
        BY <1>1 DEF IInv, RouteInv, Reported
  <2> QED BY <2>0, <2>1, <2>2
<1>2. IInv /\ PaidInv => ProbesAreBounded
  <2> SUFFICES ASSUME IInv, PaidInv, NEW t \in App
               PROVE  /\ Probes(t) <= MaxHop * ProbeNum + 1 + Surplus(t)
                      /\ orphans[t] <= Surplus(t)
                      /\ ProbeNum > 1 => Len(route[t]) <= m_ttl[t] + Surplus(t)
      BY DEF ProbesAreBounded
  <2>1. CASE Steady(t)
    <3>1. Surplus(t) = 0
          BY <2>1 DEF Surplus, Steady
    <3> QED BY <1>1, <2>1, <3>1, PaidTypes DEF IInv
  <2>2. CASE ~Steady(t)
    <3>1. Surplus(t) = extra[t]
          BY <2>2 DEF Surplus, Steady
    <3> QED BY <3>1, PaidBounds DEF IInv, PaidInv
  <2> QED BY <2>1, <2>2
<1>3. Init => PaidInv
  <2> SUFFICES ASSUME Init, NEW t \in App PROVE PaidProbes(t) /\ PaidReports(t)
      BY DEF PaidInv
  <2>1. /\ m_socket[t] = "none" /\ m_ttl[t] = 1 /\ m_probeCount[t] = 0 /\ route[t] = <<>>
        /\ Pending(t) = 0 /\ Waiting(t) = 0 /\ orphans[t] = 0 /\ extra[t] = 0
        BY DEF Init, Pending, Waiting
  <2> QED BY <2>1 DEF PaidProbes, PaidReports, LastProbe
<1>4. IInv /\ IInv' /\ PaidInv /\ [Next]_vars => PaidInv'
      BY PaidStep DEF IInv
<1> QED BY <1>2, <1>3, <1>4, Invariant, PTL DEF Spec
-----------------------------------------------------------------------------
(* The hops an undisturbed traceroute reports.                             *)

(* The place on the route of what answers a probe with the TTL of t. *)
Reached(t) == IF m_ttl[t] <= Len(Hops[t]) THEN m_ttl[t] ELSE Len(Hops[t]) + 1

(* An answer on its way to an open application comes from there. *)
Answers(t) ==
    \A m \in replies :
      m.of = t /\ m_socket[t] = "open" =>
        /\ m.from = FullRoute(t)[Reached(t)]
        /\ m.kind = "exceeded" <=> m_ttl[t] <= Len(Hops[t])

(* The remote has answered the last probe, or the application is closed. *)
Ended(t) ==
    \/ m_socket[t] = "closed"
    \/ stopping[t] /\ LastProbe(t) /\ ~m_next[t] /\ ~timer[t]

(* f gives the places on the route of the hops reported, none of which is  *)
(* beyond the TTL; only one that has ended has reported its remote.        *)
Places(t, f) ==
    /\ f \in [DOMAIN route[t] -> DOMAIN FullRoute(t)]
    /\ \A i \in DOMAIN route[t] :
         /\ route[t][i] = FullRoute(t)[f[i]]
         /\ \A j \in DOMAIN route[t] : i < j => f[i] < f[j]
    /\ \/ Ended(t)
       \/ \A i \in DOMAIN route[t] :
            /\ f[i] <= Len(Hops[t])
            /\ f[i] < m_ttl[t] \/ (f[i] = m_ttl[t] /\ Heard(t))

OrderInv == \A t \in App \ disturbed : Answers(t) /\ (ProbeNum > 1 => \E f : Places(t, f))

LEMMA RouteOf ==
    ASSUME NEW t \in App
    PROVE  /\ DOMAIN FullRoute(t) = 1 .. Len(Hops[t]) + 1
           /\ Len(Hops[t]) \in Nat
           /\ \A i \in 1 .. Len(Hops[t]) : FullRoute(t)[i] = Hops[t][i]
           /\ FullRoute(t)[Len(Hops[t]) + 1] = Remote[t]
BY RouteAddresses DEF FullRoute

(* An undisturbed traceroute that hears something after the last probe of  *)
(* a hop was waiting for it.                                               *)
LEMMA LastAnswer ==
    ASSUME IInv, ProbeNum > 1, NEW m \in replies, NEW u \in App \ disturbed,
           Hears(u, m), LastProbe(u)
    PROVE  m.of = u /\ timer[u] /\ ~m_next[u] /\ MoreHops(u)
<1>0. TypeOK /\ Numbered(u) /\ Life(u) /\ Steady(u)
      BY DEF IInv, NumberInv, LifeInv, Steady
<1>1. MoreHops(u)
      BY <1>0 DEF LastProbe, Numbered, MoreHops, TypeOK
<1>2. Busy(u)
      BY <1>1 DEF Busy, Hears
<1>3. m.of = u /\ timer[u]
      BY <1>2, OwnAnswer
<1> QED BY <1>0, <1>1, <1>3 DEF Life

(* Only an application whose event is due sends a probe, and it waits for  *)
(* no other answer.                                                        *)
LEMMA SendsAlone ==
    ASSUME IInv, NEW u \in App \ disturbed, StartWaitReplyTimer(u)
    PROVE  /\ m_socket[u] = "open" /\ m_next[u] /\ ~timer[u] /\ ~Awaited(u)
           /\ Send(u)
<1>0. TypeOK /\ Life(u) /\ Waits(u) /\ Steady(u)
      BY DEF IInv, LifeInv, WaitInv, Steady
<1>1. m_next[u] /\ ~timer[u] /\ Send(u)
      BY <1>0, WaitEffect DEF Life
<1>2. m_socket[u] = "open"
      BY <1>0, <1>1 DEF Life, Quiet, Scheduled, TypeOK
<1> QED BY <1>0, <1>1, <1>2 DEF Waits

LEMMA AnswersStep ==
    ASSUME IInv, OrderInv, [Next]_vars, NEW u \in App, u \notin disturbed'
    PROVE  Answers(u)'
<1>0. TypeOK /\ u \notin disturbed /\ Answers(u)
      BY DisturbedGrows DEF IInv, OrderInv
<1>1. ASSUME NEW t \in App, StartApplication(t) PROVE Answers(u)'
  <2>1. ~Awaited(t)
        BY <1>1, StartEffect DEF IInv, LifeInv, Life
  <2> QED BY <1>0, <1>1, <2>1, StartEffect DEF Answers, Awaited, Reached
<1>2. ASSUME NEW t \in App, StopApplication(t) PROVE Answers(u)'
  <2>1. /\ m_socket'[u] = "open" => m_socket[u] = "open"
        /\ UNCHANGED <<replies, m_ttl>>
        BY <1>0, <1>2, StopEffect
  <2> QED BY <1>0, <2>1 DEF Answers, Reached
<1>3. ASSUME NEW t \in App, StartWaitReplyTimer(t) PROVE Answers(u)'
  <2>1. CASE u = t
    <3>1. Send(u) /\ ~Awaited(u)
          BY <1>0, <1>3, <2>1, SendsAlone
    <3>2. m_ttl'[u] \in Nat \ {0} /\ replies' = replies \union Answer(u, m_seq[u], m_ttl'[u])
      <4> DEFINE ttl == IF HopProbed(u) THEN m_ttl[u] + 1 ELSE m_ttl[u]
      <4>1. replies' = replies \union Answer(u, m_seq[u], ttl)
            BY <3>1 DEF Send
      <4>2. m_ttl'[u] = ttl /\ m_ttl'[u] \in Nat \ {0}
            BY <1>0, <3>1, SendEffect
      <4> HIDE DEF ttl
      <4> QED BY <4>1, <4>2
    <3>3. ASSUME NEW m \in replies', m.of = u PROVE m \in Answer(u, m_seq[u], m_ttl'[u])
          BY <3>1, <3>2, <3>3 DEF Awaited
    <3>4. CASE m_ttl'[u] <= Len(Hops[u])
      <4>1. Reached(u)' = m_ttl'[u] /\ FullRoute(u)[m_ttl'[u]] = Hops[u][m_ttl'[u]]
            BY <3>2, <3>4, RouteOf DEF Reached
      <4>2. \A m \in Answer(u, m_seq[u], m_ttl'[u]) :
              m.from = Hops[u][m_ttl'[u]] /\ m.kind = "exceeded"
            BY <3>4 DEF Answer
      <4> QED BY <3>3, <3>4, <4>1, <4>2 DEF Answers
    <3>5. CASE ~(m_ttl'[u] <= Len(Hops[u]))
      <4>1. FullRoute(u)[Reached(u)'] = Remote[u]
            BY <3>5, RouteOf DEF Reached
      <4>2. \A m \in Answer(u, m_seq[u], m_ttl'[u]) : m.from = Remote[u] /\ m.kind = "echo"
            BY <3>5 DEF Answer
      <4> QED BY <3>3, <3>5, <4>1, <4>2 DEF Answers
    <3> QED BY <3>4, <3>5
  <2>2. CASE u # t
    <3>1. m_ttl'[u] = m_ttl[u] /\ m_socket' = m_socket
          BY <1>0, <1>3, <2>2, WaitEffect, SendEffect
    <3>2. \A n \in replies' : n.of = u => n \in replies
          BY <1>0, <1>3, <2>2, AwaitedAfterWait
    <3> QED BY <1>0, <3>1, <3>2 DEF Answers, Reached
  <2> QED BY <2>1, <2>2
<1>4. ASSUME NEW t \in App, HandleWaitReplyTimeout(t) PROVE Answers(u)'
      BY <1>0, <1>4, TimeoutEffect DEF Answers, Reached
<1>5. ASSUME NEW m \in replies, Receive(m) PROVE Answers(u)'
      BY <1>0, <1>5, ReceiveEffect DEF Answers, Reached
<1>6. ASSUME NEW m \in replies, Lose(m) PROVE Answers(u)'
      BY <1>0, <1>6 DEF Lose, appVars, Answers, Reached
<1>7. CASE UNCHANGED vars
      BY <1>0, <1>7 DEF vars, appVars, Answers, Reached
<1> QED BY <1>1, <1>2, <1>3, <1>4, <1>5, <1>6, <1>7 DEF Next

(* A step that reports nothing leaves the places as they are, if what is   *)
(* said of the TTL stays true.                                             *)
LEMMA SamePlaces ==
    ASSUME TypeOK, NEW u \in App, NEW f, Places(u, f), route'[u] = route[u],
           \/ Ended(u)'
           \/ /\ ~Ended(u)
              /\ m_ttl'[u] \in Nat /\ m_ttl[u] <= m_ttl'[u]
              /\ Heard(u) => Heard(u)' \/ m_ttl[u] < m_ttl'[u]
    PROVE  Places(u, f)'
<1>1. /\ f \in [DOMAIN route'[u] -> DOMAIN FullRoute(u)]
      /\ \A i \in DOMAIN route'[u] :
           /\ route'[u][i] = FullRoute(u)[f[i]]
           /\ \A j \in DOMAIN route'[u] : i < j => f[i] < f[j]
      BY DEF Places
<1>2. CASE Ended(u)'
      BY <1>1, <1>2 DEF Places
<1>3. CASE ~Ended(u)'
  <2>1. ASSUME NEW i \in DOMAIN route'[u]
        PROVE  f[i] <= Len(Hops[u]) /\ (f[i] < m_ttl'[u] \/ (f[i] = m_ttl'[u] /\ Heard(u)'))
    <3>1. f[i] \in Nat /\ m_ttl[u] \in Nat
      <4>1. f[i] \in DOMAIN FullRoute(u)
            BY <1>1, <2>1
      <4>2. DOMAIN FullRoute(u) \subseteq Nat
            BY RouteOf
      <4> QED BY <4>1, <4>2 DEF TypeOK
    <3>2. f[i] <= Len(Hops[u]) /\ (f[i] < m_ttl[u] \/ (f[i] = m_ttl[u] /\ Heard(u)))
          BY <1>3 DEF Places
    <3> QED BY <1>3, <3>1, <3>2
  <2> QED BY <1>1, <2>1 DEF Places
<1> QED BY <1>2, <1>3

(* A hop that answers the last probe of its TTL comes after those already  *)
(* reported.                                                               *)
LEMMA OneMorePlace ==
    ASSUME TypeOK, NEW u \in App, NEW f, Places(u, f), ~Ended(u), ~Heard(u),
           m_ttl'[u] = m_ttl[u],
           route'[u] = Append(route[u], FullRoute(u)[Reached(u)]),
           Ended(u)' \/ (Heard(u)' /\ m_ttl[u] <= Len(Hops[u]))
    PROVE  \E g : Places(u, g)'
<1> DEFINE n == Len(route[u])
           g == [i \in DOMAIN route'[u] |-> IF i <= n THEN f[i] ELSE Reached(u)]
<1>0. /\ n \in Nat /\ DOMAIN route[u] = 1 .. n
      /\ DOMAIN route'[u] = 1 .. n + 1
      /\ route'[u][n + 1] = FullRoute(u)[Reached(u)]
      /\ \A i \in 1 .. n : route'[u][i] = route[u][i]
      BY DEF TypeOK
<1>1. /\ m_ttl[u] \in Nat \ {0} /\ Len(Hops[u]) \in Nat
      /\ DOMAIN FullRoute(u) = 1 .. Len(Hops[u]) + 1
      BY RouteOf DEF TypeOK
<1>2. \A i \in 1 .. n : /\ f[i] \in DOMAIN FullRoute(u)
                        /\ f[i] <= Len(Hops[u]) /\ f[i] < m_ttl[u]
                        /\ route[u][i] = FullRoute(u)[f[i]]
                        /\ \A j \in 1 .. n : i < j => f[i] < f[j]
      BY <1>0 DEF Places
<1> HIDE DEF n
<1>3. Reached(u) \in DOMAIN FullRoute(u) /\ \A i \in 1 .. n : f[i] < Reached(u)
      BY <1>1, <1>2 DEF Reached
<1>4. g \in [DOMAIN route'[u] -> DOMAIN FullRoute(u)]
      BY <1>0, <1>2, <1>3
<1>5. g[n + 1] = Reached(u) /\ \A i \in 1 .. n : g[i] = f[i]
      BY <1>0
<1> HIDE DEF g
<1>6. ASSUME NEW i \in DOMAIN route'[u]
      PROVE  /\ route'[u][i] = FullRoute(u)[g[i]]
             /\ \A j \in DOMAIN route'[u] : i < j => g[i] < g[j]
  <2>1. CASE i = n + 1
        BY <1>0, <1>5, <2>1
  <2>2. CASE i \in 1 .. n
        BY <1>0, <1>2, <1>3, <1>5, <2>2
  <2> QED BY <1>0, <2>1, <2>2
<1>7. CASE Ended(u)'
      BY <1>4, <1>6, <1>7 DEF Places
<1>8. CASE Heard(u)' /\ m_ttl[u] <= Len(Hops[u])
  <2>1. ASSUME NEW i \in DOMAIN route'[u]
        PROVE  g[i] <= Len(Hops[u]) /\ (g[i] < m_ttl'[u] \/ (g[i] = m_ttl'[u] /\ Heard(u)'))
    <3>1. CASE i = n + 1
          BY <1>1, <1>5, <1>8, <3>1 DEF Reached
    <3>2. CASE i \in 1 .. n
          BY <1>2, <1>5, <3>2
    <3> QED BY <1>0, <3>1, <3>2
  <2> QED BY <1>4, <1>6, <2>1 DEF Places
<1> QED BY <1>7, <1>8

LEMMA PlacesStep ==
    ASSUME IInv, OrderInv, [Next]_vars, ProbeNum > 1, NEW u \in App, u \notin disturbed'
    PROVE  \E g : Places(u, g)'
<1>0. /\ TypeOK /\ TypeOK' /\ u \notin disturbed /\ Life(u) /\ Steady(u)
      /\ m_ttl[u] \in Nat /\ m_ttl'[u] \in Nat
  <2>1. TypeOK /\ TypeOK' /\ u \notin disturbed /\ Steady(u)
        BY TypeStep, DisturbedGrows DEF IInv, Steady
  <2>2. Life(u)
        BY DEF IInv, LifeInv
  <2> QED BY <2>1, <2>2 DEF TypeOK
<1>f. PICK f : Places(u, f)
      BY <1>0 DEF OrderInv
<1> DEFINE Same == /\ route'[u] = route[u]
                   /\ \/ Ended(u)'
                      \/ /\ ~Ended(u) /\ m_ttl[u] <= m_ttl'[u]
                         /\ Heard(u) => Heard(u)' \/ m_ttl[u] < m_ttl'[u]
<1>s. Same => \E g : Places(u, g)'
      BY <1>0, <1>f, SamePlaces
<1>e. /\ UNCHANGED <<m_socket, m_next, timer, stopping, m_probeCount, m_ttl, route>> => Same
      /\ (/\ m_socket'[u] = m_socket[u] /\ m_next'[u] = m_next[u] /\ timer'[u] = timer[u]
          /\ stopping'[u] = stopping[u] /\ m_probeCount'[u] = m_probeCount[u]
          /\ m_ttl'[u] = m_ttl[u] /\ route'[u] = route[u]) => Same
      BY <1>0 DEF Ended, Heard, LastProbe
<1>1. ASSUME NEW t \in App, StartApplication(t) PROVE Same
  <2>1. CASE u = t
    <3>1. ~Ended(u) /\ ~Heard(u)
          BY <1>0, <1>1, <2>1, StartEffect DEF Ended, Heard, Life, Quiet, Scheduled
    <3> QED BY <1>0, <1>1, <2>1, <3>1, StartEffect
  <2>2. CASE u # t
        BY <1>0, <1>1, <1>e, <2>2, StartEffect
  <2> QED BY <2>1, <2>2
<1>2. ASSUME NEW t \in App, StopApplication(t) PROVE Same
  <2>1. CASE u = t
        BY <1>0, <1>2, <2>1, StopEffect DEF Ended
  <2>2. CASE u # t
        BY <1>0, <1>2, <1>e, <2>2, StopEffect
  <2> QED BY <2>1, <2>2
<1>3. ASSUME NEW t \in App, StartWaitReplyTimer(t) PROVE Same
  <2>0. UNCHANGED <<m_socket, stopping, route>>
        BY <1>0, <1>3, WaitEffect
  <2>1. CASE u = t
    <3>1. m_socket[u] = "open" /\ m_next[u] /\ ~timer[u] /\ Send(u)
          BY <1>0, <1>3, <2>1, SendsAlone
    <3>2. ~Ended(u)
          BY <3>1 DEF Ended
    <3>3. Heard(u) => m_ttl'[u] = m_ttl[u] + 1
      <4>1. Heard(u) => HopProbed(u)
            BY DEF Heard, LastProbe, HopProbed
      <4> QED BY <1>0, <3>1, <4>1, SendEffect
    <3>4. m_ttl'[u] = m_ttl[u] \/ m_ttl'[u] = m_ttl[u] + 1
          BY <1>0, <3>1, SendEffect
    <3> QED BY <1>0, <2>0, <3>2, <3>3, <3>4
  <2>2. CASE u # t
    <3>1. m_ttl'[u] = m_ttl[u] /\ m_probeCount'[u] = m_probeCount[u]
          BY <1>0, <1>3, <2>2, WaitEffect, SendEffect
    <3> QED BY <1>0, <1>3, <1>e, <2>0, <2>2, <3>1, WaitEffect
  <2> QED BY <2>1, <2>2
<1>4. ASSUME NEW t \in App, HandleWaitReplyTimeout(t) PROVE Same
  <2>1. CASE u = t
    <3>1. timer[u] /\ ~Heard(u)
          BY <1>0, <1>4, <2>1, TimeoutEffect DEF Heard
    <3>2. ~Ended(u)
          BY <1>0, <3>1 DEF Ended, Life, Quiet
    <3> QED BY <1>0, <1>4, <3>1, <3>2, TimeoutEffect
  <2>2. CASE u # t
        BY <1>0, <1>4, <1>e, <2>2, TimeoutEffect
  <2> QED BY <2>1, <2>2
<1>5. ASSUME NEW m \in replies, Receive(m) PROVE \E g : Places(u, g)'
  <2>0. UNCHANGED <<m_socket, m_ttl, m_probeCount>>
        BY <1>0, <1>5, ReceiveEffect
  <2>1. CASE ~Hears(u, m)
        BY <1>0, <1>5, <1>e, <1>s, <2>0, <2>1, ReceiveEffect
  <2>2. CASE Hears(u, m) /\ ~LastProbe(u)
    <3>1. ~Ended(u) /\ ~Heard(u)
          BY <2>2 DEF Ended, Heard, Hears
    <3>2. route'[u] = route[u]
          BY <1>0, <1>5, <2>2, ReceiveEffect
    <3> QED BY <1>0, <1>s, <2>0, <3>1, <3>2
  <2>3. CASE Hears(u, m) /\ LastProbe(u)
    <3>1. m.of = u /\ timer[u] /\ ~m_next[u] /\ MoreHops(u) /\ m_socket[u] = "open"
          BY <1>0, <2>3, LastAnswer DEF Hears
    <3>2. ~Ended(u) /\ ~Heard(u)
          BY <3>1 DEF Ended, Heard
    <3>3. CASE route'[u] = route[u]
          BY <1>0, <1>s, <2>0, <3>2, <3>3
    <3>4. CASE route'[u] # route[u]
      <4>1. route'[u] = Append(route[u], FullRoute(u)[Reached(u)])
        <5>1. route'[u] = Append(route[u], m.from)
              BY <1>5, <3>4 DEF Receive
        <5> QED BY <1>0, <3>1, <5>1 DEF OrderInv, Answers
      <4>2. Ended(u)' \/ (Heard(u)' /\ m_ttl[u] <= Len(Hops[u]))
        <5>1. ~timer'[u] /\ LastProbe(u)'
              BY <1>0, <1>5, <2>0, <2>3, ReceiveEffect DEF LastProbe
        <5>2. CASE Finished(u, m)
          <6>1. stopping'[u] /\ ~m_next'[u]
                BY <1>0, <1>5, <2>3, <3>1, <5>2, ReceiveEffect
          <6> QED BY <5>1, <6>1 DEF Ended
        <5>3. CASE ~Finished(u, m)
          <6>1. m_next'[u]
                BY <1>0, <1>5, <2>3, <3>1, <5>3, ReceiveEffect
          <6>2. m.kind = "exceeded"
                BY <1>0, <2>3, <5>3 DEF Finished, Hears
          <6>3. m_ttl[u] <= Len(Hops[u])
                BY <1>0, <3>1, <6>2 DEF OrderInv, Answers
          <6> QED BY <5>1, <6>1, <6>3 DEF Heard
        <5> QED BY <5>2, <5>3
      <4> QED BY <1>0, <1>f, <2>0, <3>2, <4>1, <4>2, OneMorePlace
    <3> QED BY <3>3, <3>4
  <2> QED BY <2>1, <2>2, <2>3
<1>6. ASSUME NEW m \in replies, Lose(m) PROVE Same
      BY <1>6, <1>e DEF Lose, appVars
<1>7. CASE UNCHANGED vars
      BY <1>7, <1>e, <1>s DEF vars, appVars
<1> HIDE DEF Same
<1> QED BY <1>s, <1>1, <1>2, <1>3, <1>4, <1>5, <1>6, <1>7 DEF Next

LEMMA OrderInit == Init => OrderInv
<1> SUFFICES ASSUME Init, NEW t \in App
             PROVE  Answers(t) /\ \E f : Places(t, f)
    BY DEF OrderInv
<1>1. Answers(t)
      BY DEF Init, Answers
<1>2. DOMAIN route[t] = {}
      BY DEF Init
<1>3. Places(t, [i \in {} |-> 1])
      BY <1>2 DEF Places
<1> QED BY <1>1, <1>3

LEMMA Ordered == Spec => []OrderInv
<1>1. IInv /\ OrderInv /\ [Next]_vars => OrderInv'
  <2> SUFFICES ASSUME IInv, OrderInv, [Next]_vars, NEW u \in App, u \notin disturbed'
               PROVE  Answers(u)' /\ (ProbeNum > 1 => \E g : Places(u, g)')
      BY DEF OrderInv
  <2> QED BY AnswersStep, PlacesStep
<1> QED BY <1>1, OrderInit, Invariant, PTL DEF Spec

(* The hops a traceroute alone on its node reports are on its route, in    *)
(* order and each reported once.                                           *)
THEOREM HopsInOrderHolds == Spec => []HopsInOrder
<1>1. OrderInv => HopsInOrder
      BY DEF OrderInv, Places, HopsInOrder
<1> QED BY <1>1, Ordered, PTL

-----------------------------------------------------------------------------
(* When nothing is lost a traceroute reports its whole route.              *)

(* Nothing is lost, and nothing but its own progress ends t. *)
Untouched(t) ==
    /\ ProbeNum > 1 /\ losses = 0
    /\ t \notin disturbed /\ t \notin scenario.stoppable

(* The number of routers t has reported before it has ended. *)
Routers(t) ==
    IF m_ttl[t] > Len(Hops[t]) THEN Len(Hops[t])
    ELSE IF LastProbe(t) /\ ~timer[t] THEN m_ttl[t] ELSE m_ttl[t] - 1

Whole(t) == IF t \in Verbose THEN FullRoute(t) ELSE Hops[t]

Done(t) == m_socket[t] = "closed" \/ stopping[t]

Complete(t) ==
    /\ m_socket[t] = "open" /\ timer[t] =>
         Awaited(t) \/ (t \in scenario.silent /\ m_ttl[t] > Len(Hops[t]))
    /\ m_socket[t] = "open" => \A m \in replies : m.of = t => m.seq \in m_sent[t]
    /\ stopping[t] => LastProbe(t) /\ ~m_next[t] /\ ~timer[t]
    /\ route[t] = IF Done(t) THEN Whole(t) ELSE SubSeq(Hops[t], 1, Routers(t))

CompleteInv == \A t \in App : Untouched(t) => Complete(t)

(* The first hops of a route, one at a time. *)
LEMMA PrefixGrows ==
    ASSUME NEW S, NEW s \in Seq(S), NEW k \in Nat
    PROVE  /\ SubSeq(s, 1, 0) = <<>>
           /\ SubSeq(s, 1, Len(s)) = s
           /\ k < Len(s) => Append(SubSeq(s, 1, k), s[k + 1]) = SubSeq(s, 1, k + 1)
<1>1. SubSeq(s, 1, 0) = <<>> /\ SubSeq(s, 1, Len(s)) = s
      OBVIOUS
<1>2. ASSUME k < Len(s) PROVE Append(SubSeq(s, 1, k), s[k + 1]) = SubSeq(s, 1, k + 1)
      BY <1>2
<1> QED BY <1>1, <1>2

LEMMA ReceivedEffect ==
    ASSUME TypeOK, NEW m \in replies, Receive(m), NEW u \in App
    PROVE  /\ route'[u] = IF Traces(u, m) THEN Append(route[u], m.from) ELSE route[u]
           /\ m_sent'[u] \subseteq m_sent[u]
           /\ ~Hears(u, m) => m_sent'[u] = m_sent[u]
           /\ stopping'[u] <=> stopping[u] \/ (Hears(u, m) /\ Finished(u, m))
BY DEF Receive, Finished

LEMMA UntouchedStep ==
    ASSUME TypeOK, [Next]_vars, NEW u \in App, Untouched(u)'
    PROVE  Untouched(u) /\ losses' = 0 /\ scenario' = scenario
<1>1. losses \in Nat
      BY ScenarioType DEF TypeOK
<1>2. losses' = losses \/ losses' = losses + 1
      BY DEF Next, StartApplication, StopApplication, StartWaitReplyTimer,
             HandleWaitReplyTimeout, Receive, Lose, vars
<1> QED BY <1>1, <1>2, DisturbedGrows DEF Untouched

(* What happens to the other traceroutes leaves u as it is. *)
LEMMA SameReport ==
    ASSUME TypeOK, NEW u \in App, Complete(u), scenario' = scenario,
           m_socket'[u] = m_socket[u], timer'[u] = timer[u], stopping'[u] = stopping[u],
           m_next'[u] = m_next[u], m_ttl'[u] = m_ttl[u], m_probeCount'[u] = m_probeCount[u],
           route'[u] = route[u], m_sent'[u] = m_sent[u],
           m_socket[u] = "open" /\ Awaited(u) => Awaited(u)',
           \A m \in replies' : m.of = u => m \in replies
    PROVE  Complete(u)'
BY DEF Complete, Routers, Done, Whole, LastProbe

(* The probe sent is answered, if only by a router, and its number known.  *)
LEMMA SentProbe ==
    ASSUME TypeOK, NEW u \in App, Send(u), ~Awaited(u)
    PROVE  /\ Awaited(u)' \/ (u \in scenario.silent /\ m_ttl'[u] > Len(Hops[u]))
           /\ \A m \in replies' : m.of = u => m.seq \in m_sent'[u]
<1> DEFINE ttl == IF HopProbed(u) THEN m_ttl[u] + 1 ELSE m_ttl[u]
<1>1. replies' = replies \union Answer(u, m_seq[u], ttl)
      BY DEF Send
<1>2. m_ttl'[u] = ttl /\ ttl \in Nat
  <2>1. m_ttl[u] \in Nat
        BY DEF TypeOK
  <2> QED BY <2>1, SendEffect
<1>3. m_seq[u] \in m_sent'[u]
      BY DEF Send, TypeOK
<1> HIDE DEF ttl
<1>4. \A m \in Answer(u, m_seq[u], ttl) : m.of = u /\ m.seq = m_seq[u]
      BY DEF Answer
<1>5. \A m \in replies' : m.of = u => m.seq \in m_sent'[u]
      BY <1>1, <1>3, <1>4 DEF Awaited
<1>6. Answer(u, m_seq[u], ttl) # {} \/ (u \in scenario.silent /\ ~(ttl <= Len(Hops[u])))
      BY DEF Answer
<1>7. CASE Answer(u, m_seq[u], ttl) # {}
      BY <1>1, <1>4, <1>5, <1>7 DEF Awaited
<1>8. CASE u \in scenario.silent /\ ~(ttl <= Len(Hops[u]))
      BY <1>2, <1>5, <1>8, RouteOf
<1> QED BY <1>6, <1>7, <1>8

(* An answer to an untouched traceroute is heard, and its number known. *)
LEMMA OwnIsHeard ==
    ASSUME TypeOK, NEW u \in App, Complete(u), Answers(u), NEW m \in replies,
           m_socket[u] = "open", m.of = u
    PROVE  Hears(u, m) /\ m.seq \in m_sent[u]
<1>1. m.seq \in m_sent[u] /\ m.kind \in {"exceeded", "echo"}
      BY DEF Complete, TypeOK
<1>2. ASSUME m.kind = "echo" PROVE m.from = Remote[u]
  <2>1. ~(m_ttl[u] <= Len(Hops[u])) /\ m.from = FullRoute(u)[Reached(u)]
        BY <1>2 DEF Answers
  <2> QED BY <2>1, RouteOf DEF Reached
<1> QED BY <1>1, <1>2 DEF Hears

LEMMA CompleteStep ==
    ASSUME IInv, OrderInv, CompleteInv, [Next]_vars, NEW u \in App, Untouched(u)'
    PROVE  Complete(u)'
<1>0. /\ TypeOK /\ Untouched(u) /\ Complete(u) /\ losses' = 0 /\ scenario' = scenario
      /\ u \notin disturbed /\ u \notin disturbed' /\ ProbeNum > 1 /\ u \notin scenario.stoppable
  <2>1. TypeOK
        BY DEF IInv
  <2>2. Untouched(u) /\ losses' = 0 /\ scenario' = scenario
        BY <2>1, UntouchedStep
  <2> QED BY <2>1, <2>2 DEF CompleteInv, Untouched
<1>1. Life(u) /\ Steady(u) /\ Waits(u) /\ Answers(u)
      BY <1>0 DEF IInv, LifeInv, WaitInv, OrderInv, Steady
<1>2. /\ m_ttl[u] \in Nat \ {0} /\ m_probeCount[u] \in 0 .. ProbeNum
      /\ Len(Hops[u]) \in Nat /\ Hops[u] \in Seq(Addresses)
      BY <1>0, RouteOf, RouteAddresses DEF TypeOK
<1>3. ASSUME NEW t \in App, StartApplication(t) PROVE Complete(u)'
  <2>1. ~Awaited(t)
        BY <1>3, StartEffect DEF IInv, LifeInv, Life
  <2>2. CASE u = t
    <3>1. ~timer[u] /\ ~stopping[u] /\ ~Done(u) /\ m_socket[u] = "none"
          BY <1>0, <1>1, <1>3, <2>2, StartEffect DEF Life, Quiet, Scheduled, Done
    <3>2. ~timer'[u] /\ ~stopping'[u] /\ ~Done(u)'
          BY <1>0, <1>3, <2>2, <3>1, StartEffect DEF Done
    <3> QED BY <1>0, <1>3, <2>1, <2>2, <3>1, <3>2, StartEffect
        DEF Complete, Routers, LastProbe, Awaited
  <2>3. CASE u # t
        BY <1>0, <1>3, <2>3, StartEffect, SameReport DEF Awaited
  <2> QED BY <2>2, <2>3
<1>4. ASSUME NEW t \in App, StopApplication(t) PROVE Complete(u)'
  <2>1. CASE u = t
    <3>1. stopping[u]
          BY <1>0, <1>4, <2>1 DEF StopApplication
    <3> QED BY <1>0, <1>4, <2>1, <3>1, StopEffect DEF Complete, Done, Whole
  <2>2. CASE u # t
        BY <1>0, <1>4, <2>2, StopEffect, SameReport DEF Awaited
  <2> QED BY <2>1, <2>2
<1>5. ASSUME NEW t \in App, StartWaitReplyTimer(t) PROVE Complete(u)'
  <2>0. UNCHANGED <<m_socket, stopping, route>>
        BY <1>0, <1>5, WaitEffect
  <2>1. CASE u = t
    <3>1. m_socket[u] = "open" /\ m_next[u] /\ ~timer[u] /\ ~Awaited(u) /\ Send(u)
          BY <1>0, <1>5, <2>1, SendsAlone
    <3>2. timer'[u]
          BY <1>0, <1>5, <2>1, WaitEffect
    <3>3. ~stopping[u] /\ ~Done(u) /\ ~Done(u)'
          BY <1>0, <2>0, <3>1 DEF Complete, Done
    <3>4. Routers(u)' = Routers(u)
      <4>1. HopProbed(u) <=> LastProbe(u)
            BY <1>2 DEF HopProbed, LastProbe
      <4>2. CASE LastProbe(u)
        <5>1. m_ttl'[u] = m_ttl[u] + 1
              BY <1>0, <3>1, <4>1, <4>2, SendEffect
        <5> QED BY <1>2, <3>1, <3>2, <4>2, <5>1 DEF Routers
      <4>3. CASE ~LastProbe(u)
        <5>1. m_ttl'[u] = m_ttl[u]
              BY <1>0, <3>1, <4>1, <4>3, SendEffect
        <5> QED BY <1>2, <3>1, <3>2, <4>3, <5>1 DEF Routers
      <4> QED BY <4>2, <4>3
    <3> QED BY <1>0, <2>0, <3>1, <3>3, <3>4, SentProbe DEF Complete
  <2>2. CASE u # t
    <3>1. /\ m_ttl'[u] = m_ttl[u] /\ m_probeCount'[u] = m_probeCount[u]
          /\ m_sent'[u] = m_sent[u] /\ replies \subseteq replies'
      <4>1. CASE timer[t]
            BY <1>0, <1>5, <4>1, WaitEffect
      <4>2. CASE ~timer[t]
        <5>1. Send(t)
              BY <1>0, <1>5, <4>2, WaitEffect
        <5>2. m_sent'[u] = m_sent[u] /\ replies \subseteq replies'
              BY <1>0, <2>2, <5>1 DEF Send, TypeOK
        <5> QED BY <1>0, <2>2, <5>1, <5>2, SendEffect
      <4> QED BY <4>1, <4>2
    <3>2. \A n \in replies' : n.of = u => n \in replies
          BY <1>0, <1>5, <2>2, AwaitedAfterWait
    <3>3. m_next'[u] = m_next[u] /\ timer'[u] = timer[u]
          BY <1>0, <1>5, <2>2, WaitEffect
    <3> QED BY <1>0, <2>0, <3>1, <3>2, <3>3, SameReport DEF Awaited
  <2> QED BY <2>1, <2>2
<1>6. ASSUME NEW t \in App, HandleWaitReplyTimeout(t) PROVE Complete(u)'
  <2>1. CASE u = t
    <3>1. timer[u] /\ ~timer'[u] /\ ~Awaited(u)
          BY <1>0, <1>6, <2>1, TimeoutEffect
    <3>2. m_socket[u] = "open"
          BY <1>0, <1>1, <3>1 DEF Life, Quiet, TypeOK
    <3>3. m_ttl[u] > Len(Hops[u])
          BY <1>0, <3>1, <3>2 DEF Complete
    <3>4. UNCHANGED <<scenario, m_socket, m_ttl, m_probeCount, m_sent, stopping, replies, route>>
          BY <1>0, <1>6, TimeoutEffect
    <3>5. ~stopping[u] /\ ~stopping'[u]
          BY <1>0, <3>1, <3>4 DEF Complete
    <3>6. Routers(u)' = Routers(u)
          BY <3>3, <3>4 DEF Routers
    <3> QED BY <1>0, <3>1, <3>2, <3>4, <3>5, <3>6 DEF Complete, Done
  <2>2. CASE u # t
        BY <1>0, <1>6, <2>2, TimeoutEffect, SameReport DEF Awaited
  <2> QED BY <2>1, <2>2
<1>7. ASSUME NEW m \in replies, Receive(m) PROVE Complete(u)'
  <2>0. UNCHANGED <<m_socket, m_ttl, m_probeCount>> /\ replies' = replies \ {m}
        BY <1>0, <1>7, ReceiveEffect
  <2>1. CASE ~Hears(u, m)
    <3>1. m_socket[u] = "open" => m.of # u
          BY <1>0, <1>1, <2>1, OwnIsHeard
    <3>2. ~Traces(u, m)
          BY <2>1 DEF Traces
    <3>3. m_socket[u] = "open" /\ Awaited(u) => Awaited(u)'
          BY <2>0, <3>1 DEF Awaited
    <3> QED BY <1>0, <1>7, <2>0, <2>1, <3>2, <3>3, ReceiveEffect, ReceivedEffect, SameReport
  <2>2. CASE Hears(u, m)
    <3>1. m_socket[u] = "open" /\ ~timer'[u]
          BY <1>0, <1>7, <2>2, ReceiveEffect DEF Hears
    <3>2. \A n \in replies' : n.of # u
      <4>1. Awaited(u) => m.of = u
            BY <1>0, <2>2, OwnAnswer DEF Busy
      <4> QED BY <1>1, <2>0, <4>1 DEF Waits, Awaited
    <3>3. CASE ~LastProbe(u)
      <4>1. ~stopping[u] /\ ~stopping'[u]
            BY <1>0, <1>7, <3>3, ReceivedEffect DEF Complete, Finished
      <4>2. route'[u] = route[u]
            BY <1>0, <1>7, <3>3, ReceivedEffect DEF Traces
      <4>3. Routers(u)' = Routers(u)
            BY <2>0, <3>3 DEF Routers, LastProbe
      <4> QED BY <1>0, <2>0, <3>1, <3>2, <4>1, <4>2, <4>3 DEF Complete, Done
    <3>4. CASE LastProbe(u)
      <4>1. m.of = u /\ timer[u] /\ ~m_next[u] /\ MoreHops(u)
            BY <1>0, <2>2, <3>4, LastAnswer
      <4>2. ~Done(u) /\ ~stopping[u] /\ m.seq \in m_sent[u]
            BY <1>0, <1>1, <3>1, <4>1, OwnIsHeard DEF Complete, Done
      <4>3. route[u] = SubSeq(Hops[u], 1, Routers(u))
            BY <1>0, <4>2 DEF Complete
      <4>4. LastProbe(u)'
            BY <2>0, <3>4 DEF LastProbe
      <4>5. /\ m.from = FullRoute(u)[Reached(u)]
            /\ m.kind = "exceeded" <=> m_ttl[u] <= Len(Hops[u])
            /\ m.kind = "exceeded" \/ m.kind = "echo"
            BY <1>0, <1>1, <3>1, <4>1 DEF Answers, TypeOK
      <4>6. CASE m.kind = "exceeded"
        <5>1. m_ttl[u] <= Len(Hops[u]) /\ m.from = Hops[u][m_ttl[u]]
              BY <1>2, <4>5, <4>6, RouteOf DEF Reached
        <5>2. Traces(u, m) /\ ~Finished(u, m)
              BY <2>2, <3>4, <4>2, <4>6 DEF Traces, Finished
        <5>3. ~stopping'[u]
              BY <1>0, <1>7, <4>2, <5>2, ReceivedEffect
        <5>4. Routers(u) = m_ttl[u] - 1 /\ Routers(u)' = m_ttl[u]
              BY <1>2, <2>0, <3>1, <4>1, <4>4, <5>1 DEF Routers
        <5>5. route'[u] = Append(SubSeq(Hops[u], 1, m_ttl[u] - 1), Hops[u][m_ttl[u]])
              BY <1>0, <1>7, <4>3, <5>1, <5>2, <5>4, ReceivedEffect
        <5>6. route'[u] = SubSeq(Hops[u], 1, m_ttl[u])
          <6>1. m_ttl[u] - 1 \in Nat /\ m_ttl[u] - 1 < Len(Hops[u]) /\ (m_ttl[u] - 1) + 1 = m_ttl[u]
                BY <1>2, <5>1
          <6> QED BY <1>2, <5>5, <6>1, PrefixGrows
        <5> QED BY <2>0, <3>1, <3>2, <5>3, <5>4, <5>6 DEF Complete, Done
      <4>7. CASE m.kind = "echo"
        <5>1. ~(m_ttl[u] <= Len(Hops[u])) /\ m.from = Remote[u]
              BY <1>2, <4>5, <4>7, RouteOf DEF Reached
        <5>2. Finished(u, m)
              BY <3>4, <4>7 DEF Finished
        <5>3. stopping'[u] /\ ~m_next'[u]
              BY <1>0, <1>7, <2>2, <4>1, <5>2, ReceiveEffect
        <5>4. route[u] = Hops[u]
              BY <1>2, <4>3, <5>1, PrefixGrows DEF Routers
        <5>5. Traces(u, m) <=> u \in Verbose
              BY <2>2, <3>4, <4>2, <4>7 DEF Traces
        <5>6. route'[u] = IF u \in Verbose THEN Append(Hops[u], Remote[u]) ELSE Hops[u]
              BY <1>0, <1>7, <5>1, <5>4, <5>5, ReceivedEffect
        <5>7. route'[u] = Whole(u)
              BY <5>6 DEF Whole, FullRoute
        <5> QED BY <2>0, <3>1, <3>2, <4>4, <5>3, <5>7 DEF Complete, Done, Whole
      <4> QED BY <4>5, <4>6, <4>7
    <3> QED BY <3>3, <3>4
  <2> QED BY <2>1, <2>2
<1>8. ASSUME NEW m \in replies, Lose(m) PROVE FALSE
  <2>1. losses' = losses + 1 /\ losses \in Nat
        BY <1>0, <1>8, ScenarioType DEF Lose, TypeOK
  <2> QED BY <1>0, <2>1
<1>9. CASE UNCHANGED vars
      BY <1>0, <1>9, SameReport DEF vars, appVars, Awaited
<1> QED BY <1>3, <1>4, <1>5, <1>6, <1>7, <1>8, <1>9 DEF Next

LEMMA CompleteInit == Init => CompleteInv
<1> SUFFICES ASSUME Init, NEW t \in App PROVE Complete(t)
    BY DEF CompleteInv
<1>1. /\ m_socket[t] = "none" /\ m_ttl[t] = 1 /\ m_probeCount[t] = 0 /\ ~timer[t]
      /\ ~stopping[t] /\ route[t] = <<>>
      BY DEF Init
<1>2. ~LastProbe(t) /\ ~Done(t)
      BY <1>1 DEF LastProbe, Done
<1>3. Routers(t) = 0
      BY <1>1, <1>2, RouteOf DEF Routers
<1>4. SubSeq(Hops[t], 1, 0) = <<>>
      BY RouteAddresses, PrefixGrows
<1> QED BY <1>1, <1>2, <1>3, <1>4 DEF Complete

(* A traceroute alone on its node that ends by itself, and of which no     *)
(* answer is lost, has reported its whole route.                           *)
THEOREM NothingLostNothingMissingHolds == Spec => []NothingLostNothingMissing
<1>1. IInv /\ OrderInv /\ CompleteInv /\ [Next]_vars => CompleteInv'
      BY CompleteStep DEF CompleteInv
<1>2. CompleteInv => NothingLostNothingMissing
      BY DEF CompleteInv, Untouched, Complete, Done, Whole, NothingLostNothingMissing
<1>3. Init => CompleteInv
      BY CompleteInit
<1> QED BY <1>1, <1>2, <1>3, Invariant, Ordered, PTL DEF Spec
=============================================================================
