-------------------------------- MODULE Routes --------------------------------
(***************************************************************************)
(* How a peripheral comes to be served: the web application creates its    *)
(* route and its settings in Redis (routes/api.js), RouteWatcher reads the *)
(* routes and starts a PeripheralRouter for each that the QueueRouter does *)
(* not know, and a router that becomes ready is added to the QueueRouter   *)
(* (services/route-watcher.js, services/queue-router.js).  RouteWatcher is *)
(* a HashWatcher without keysets: it reads when it is started and when     *)
(* 'checkReady' is emitted, never of its own accord.                       *)
(***************************************************************************)
EXTENDS Naturals

CONSTANTS
  Requests,     \* the POST /peripheral requests
  IDs,
  IdOf,         \* Requests -> IDs
  maxRoutes,    \* bound: routes created
  maxRouters,   \* bound: routers started for one route
  Scenarios     \* the sets of faults that an execution may meet:
                \* "concurrent": requests overlap; "bare": one has nothing but an ID;
                \* "drop": one loses Redis; "blip": RouteWatcher loses Redis;
                \* "slow": the routes change before every router is ready

ASSUME RoutesAssumption ==
  /\ IdOf \in [Requests -> IDs]
  /\ maxRoutes \in Nat /\ maxRouters \in Nat
  /\ Scenarios \subseteq SUBSET {"concurrent", "bare", "drop", "blip", "slow"}

None    == 0                      \* no route index: they are counted from 1
Indices == 1..maxRoutes

VARIABLES
  faults,       \* the faults this execution may meet
  pc,           \* what a request does next
  index,        \* its route index, None before it has one
  nextRouteID,  \* Redis: the route indices given
  routes,       \* Redis: route index -> peripheral
  settings,     \* Redis: the peripherals that have settings
  live,         \* RouteWatcher has a client
  asked,        \* it is about to read the routes
  seen,         \* its lastJSON: the indices last read
  routers,      \* index -> PeripheralRouters started for it
  added         \* queueRouter.routes: the peripherals added, with the last index

redisVars == <<nextRouteID, routes, settings>>
watcherVars == <<live, asked, seen, routers, added>>
vars == <<faults, pc, index, redisVars, watcherVars>>

TypeOK ==
  /\ pc \in [Requests -> {"new", "checked", "counted", "routed", "done", "refused", "dropped"}]
  /\ index \in [Requests -> Indices \cup {None}]
  /\ nextRouteID \in 0..maxRoutes
  /\ DOMAIN routes \subseteq 1..nextRouteID /\ \A i \in DOMAIN routes : routes[i] \in IDs
  /\ settings \subseteq IDs
  /\ live \in BOOLEAN /\ asked \in BOOLEAN
  /\ seen \subseteq DOMAIN routes
  /\ routers \in [Indices -> Nat] /\ {i \in Indices : routers[i] > 0} \subseteq DOMAIN routes
  /\ added \in [IDs -> Indices \cup {None}]

Init ==
  /\ faults \in Scenarios
  /\ pc = [q \in Requests |-> "new"] /\ index = [q \in Requests |-> None]
  /\ nextRouteID = 0 /\ routes = [i \in {} |-> None] /\ settings = {}
  /\ live = TRUE /\ asked = TRUE /\ seen = {}
  /\ routers = [i \in Indices |-> 0] /\ added = [p \in IDs |-> None]

-----------------------------------------------------------------------------
(* routes/api.js: POST /peripheral, one Redis command after the other *)

Goes(q, from, to) == pc[q] = from /\ pc' = [pc EXCEPT ![q] = to]

Busy(q)  == pc[q] \in {"checked", "counted", "routed"}
AllAdded == \A i \in DOMAIN routes : added[routes[i]] # None

\* Mutant of Check: an ID in use is not refused.
CheckNothing(q) ==
  /\ "concurrent" \in faults \/ \A other \in Requests : ~Busy(other)
  /\ "slow" \in faults \/ AllAdded
  /\ Goes(q, "new", "checked")
  /\ UNCHANGED <<faults, index, redisVars, watcherVars>>

\* findIDs: the ID is refused if a peripheral has settings under it.
Check(q) ==
  /\ "concurrent" \in faults \/ \A other \in Requests : ~Busy(other)
  /\ "slow" \in faults \/ AllAdded
  /\ Goes(q, "new", IF IdOf[q] \in settings THEN "refused" ELSE "checked")
  /\ UNCHANGED <<faults, index, redisVars, watcherVars>>

Count(q) ==
  /\ nextRouteID < maxRoutes
  /\ Goes(q, "checked", "counted")
  /\ nextRouteID' = nextRouteID + 1
  /\ index' = [index EXCEPT ![q] = nextRouteID']
  /\ UNCHANGED <<faults, routes, settings, watcherVars>>

\* hset of the route, and what its callback does: changeHash sends the settings,
\* if there are any, and RouteWatcher is told to look.
SetRoute(q) ==
  /\ \/ Goes(q, "counted", "routed")
     \/ "bare" \in faults /\ Goes(q, "counted", "done")
  /\ routes' = [i \in DOMAIN routes \cup {index[q]} |-> IF i = index[q] THEN IdOf[q] ELSE routes[i]]
  /\ asked' = (asked \/ live)
  /\ UNCHANGED <<faults, index, nextRouteID, settings, live, seen, routers, added>>

\* Mutant of Save: it may come before the route.
SaveEarly(q) ==
  /\ pc[q] \in {"counted", "routed"}
  /\ settings' = settings \cup {IdOf[q]}
  /\ pc' = [pc EXCEPT ![q] = IF @ = "routed" THEN "done" ELSE @]
  /\ UNCHANGED <<faults, index, nextRouteID, routes, watcherVars>>

Save(q) ==
  /\ Goes(q, "routed", "done")
  /\ settings' = settings \cup {IdOf[q]}
  /\ UNCHANGED <<faults, index, nextRouteID, routes, watcherVars>>

\* Redis is lost between two commands of a request: nothing is undone.
Drop(q) ==
  /\ "drop" \in faults /\ Busy(q)
  /\ pc' = [pc EXCEPT ![q] = "dropped"]
  /\ UNCHANGED <<faults, index, redisVars, watcherVars>>

-----------------------------------------------------------------------------
(* services/route-watcher.js over services/hash-watcher.js *)

\* Mutant of StartsRouter: one for each route on every change.
StartsAlways(i) == TRUE

StartsRouter(i) == added[routes[i]] = None

\* Mutant of ReadRoutes: only the first reading starts routers.
ReadOnce ==
  /\ live /\ asked
  /\ asked' = FALSE
  /\ seen' = DOMAIN routes
  /\ routers' = [i \in Indices |->
       IF seen = {} /\ i \in DOMAIN routes /\ StartsRouter(i) THEN routers[i] + 1 ELSE routers[i]]
  /\ UNCHANGED <<faults, pc, index, redisVars, live, added>>

\* The routes are read; when they changed, a router is started for each route
\* whose peripheral the QueueRouter does not know.
ReadRoutes ==
  /\ live /\ asked
  /\ asked' = FALSE
  /\ seen' = DOMAIN routes
  /\ routers' = [i \in Indices |->
       IF seen # DOMAIN routes /\ i \in DOMAIN routes /\ StartsRouter(i)
         THEN routers[i] + 1 ELSE routers[i]]
  /\ \A i \in Indices : routers'[i] <= maxRouters
  /\ UNCHANGED <<faults, pc, index, redisVars, live, added>>

\* A router notes its status 'ready', once or again: addRoute.
AddRoute(i) ==
  /\ routers[i] > 0
  /\ added' = [added EXCEPT ![routes[i]] = i]
  /\ UNCHANGED <<faults, pc, index, redisVars, live, asked, seen, routers>>

ClientLost ==
  /\ "blip" \in faults /\ live
  /\ "slow" \in faults \/ AllAdded
  /\ live' = FALSE /\ asked' = FALSE /\ seen' = {}
  /\ UNCHANGED <<faults, pc, index, redisVars, routers, added>>

ClientBack ==
  /\ ~live
  /\ live' = TRUE /\ asked' = TRUE
  /\ UNCHANGED <<faults, pc, index, redisVars, seen, routers, added>>

Next ==
  \/ ReadRoutes \/ ClientLost \/ ClientBack
  \/ \E q \in Requests : Check(q) \/ Count(q) \/ SetRoute(q) \/ Save(q) \/ Drop(q)
  \/ \E i \in Indices : AddRoute(i)

Spec == Init /\ [][Next]_vars

\* Redis answers the requests and RouteWatcher, and comes back.
FairSpec ==
  /\ Spec
  /\ WF_vars(ReadRoutes) /\ WF_vars(ClientBack)
  /\ \A q \in Requests :
       WF_vars(Count(q)) /\ WF_vars(SetRoute(q)) /\ WF_vars(Save(q))
  /\ \A i \in Indices : WF_vars(AddRoute(i))

-----------------------------------------------------------------------------
(* Properties *)

\* No two routes lead to one peripheral: its index is what the gateway addresses.
\* It holds if no two requests overlap, each has settings to save, and Redis stays
\* while it is carried out.
OneRoute ==
  faults \cap {"concurrent", "bare", "drop"} = {} =>
    \A i, j \in DOMAIN routes : routes[i] = routes[j] => i = j

\* A peripheral has one router: two would open its port and run its schedule twice.
\* It holds, over losses of Redis, if the routers are ready before the routes are
\* read again.
OneRouter ==
  faults \subseteq {"blip"} =>
    \A i \in DOMAIN routes :
      /\ routers[i] <= 1
      /\ \A j \in DOMAIN routes \ {i} : routes[i] = routes[j] => routers[i] = 0 \/ routers[j] = 0

\* A peripheral that has settings has a route, whatever becomes of the request:
\* otherwise its ID would be taken though nobody serves it.
SettingsRouted == \A p \in settings : \E i \in DOMAIN routes : routes[i] = p

\* Every peripheral with a route is served in the end: RouteWatcher, told while it
\* reads or between two requests, misses none, and its router is added.
EveryPeripheralServed ==
  "slow" \notin faults =>
    \A p \in IDs : (\E i \in DOMAIN routes : routes[i] = p) ~> added[p] # None
=============================================================================
