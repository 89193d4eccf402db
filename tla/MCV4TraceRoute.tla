--------------------------- MODULE MCV4TraceRoute ---------------------------
(* Instances of V4TraceRoute: two traceroutes that share their first hop. *)
EXTENDS V4TraceRoute

CONSTANTS t1, t2, r1, r2, d1, d2

TwoApps == {t1, t2}
OneApp == {t2}
MCHops == [t \in App |-> IF t = t1 THEN <<r1>> ELSE <<r1, r2>>]
MCRemote == [t \in App |-> IF t = t1 THEN d1 ELSE d2]

(* No answer comes while the next probe waits for m_interval: one after    *)
(* the other with timely answers, some lost, and the remote of t1 silent;  *)
(* one with late answers and a StopTime, and both at once, without delay.  *)
PromptScenario ==
    {[running |-> App, overlap |-> FALSE, immediate |-> {}, stoppable |-> {},
      silent |-> {t1}, late |-> FALSE, losses |-> 2],
     [running |-> {t2}, overlap |-> FALSE, immediate |-> App, stoppable |-> {t2},
      silent |-> {}, late |-> TRUE, losses |-> 1],
     [running |-> App, overlap |-> TRUE, immediate |-> App, stoppable |-> {},
      silent |-> {}, late |-> FALSE, losses |-> 0]}

(* Another answer may come meanwhile: a late one of t1, which may have a   *)
(* StopTime; or one of t1 at t2.                                           *)
DelayedScenario ==
    {[running |-> {t1}, overlap |-> FALSE, immediate |-> {}, stoppable |-> {t1},
      silent |-> {}, late |-> TRUE, losses |-> 0],
     [running |-> App, overlap |-> TRUE, immediate |-> {t1}, stoppable |-> {},
      silent |-> {t1}, late |-> FALSE, losses |-> 0]}

MCScenario == PromptScenario \union DelayedScenario
=============================================================================
