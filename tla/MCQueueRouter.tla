---------------------------- MODULE MCQueueRouter ----------------------------
(* A small instance of QueueRouter: an item of each kind, and the scenarios. *)
EXTENDS QueueRouter, TLC

CONSTANTS r1, l1, l2, own, drawn, mt, web, tick, bad, stray, empty

OneRoute == {r1}
TwoLoops == {l1, l2}
AllItems == {own, drawn, mt, web, tick, bad, stray, empty}

\* Two reports, one of which carries its own number; a command that becomes a report and
\* one whose result goes to a browser; a tick of a schedule; and what cannot be used: a
\* report that is not JSON, a command without a route, an entry without a command.
EachKind == own :> "mo" @@ drawn :> "mo" @@ mt :> "mt" @@ web :> "web" @@ tick :> "schedule"
            @@ bad :> "malformed" @@ stray :> "unroutable" @@ empty :> "invalid"
ToRoute1 == [e \in Items |-> r1]
Numbers  == [e \in Items |-> IF e = own THEN 3 ELSE 0]

\* What is submitted in each scenario, by the faults it may meet.
Submitted ==
  {}                                                  :> {own, mt, bad}
  @@ {"stop", "crash"}                                :> {own, drawn}
  @@ {"stop"}                                         :> {drawn}
  @@ {"stop", "redisError", "crash", "routeError"}    :> {mt, web}
  @@ {"crash", "routeError"}                          :> {stray, empty, tick}
  @@ {"stop", "crash", "routeReset"}                  :> {web, tick}

\* Where a restart may start a loop beside the one of before.
OverlapIn == [F \in DOMAIN Submitted |-> IF F = {"stop"} THEN TwoLoops ELSE {l1}]

EveryScenario == DOMAIN Submitted
=============================================================================
