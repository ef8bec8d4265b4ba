----------------------------- MODULE RoutesProofs -----------------------------
(* For every set of requests and peripherals: the types, that settings never *)
(* exist without a route, and that one peripheral gets one route when the    *)
(* requests come one after the other, carry settings and are not cut off.    *)
EXTENDS Routes, TLAPS

USE RoutesAssumption

-----------------------------------------------------------------------------
(* Types *)

FlagOK == live \in BOOLEAN /\ asked \in BOOLEAN

RedisOK ==
  /\ pc \in [Requests -> {"new", "checked", "counted", "routed", "done", "refused", "dropped"}]
  /\ index \in [Requests -> Indices \cup {None}]
  /\ nextRouteID \in 0..maxRoutes
  /\ DOMAIN routes \subseteq 1..nextRouteID /\ \A i \in DOMAIN routes : routes[i] \in IDs
  /\ settings \subseteq IDs

WatcherOK ==
  /\ seen \subseteq DOMAIN routes
  /\ routers \in [Indices -> Nat] /\ {i \in Indices : routers[i] > 0} \subseteq DOMAIN routes
  /\ added \in [IDs -> Indices \cup {None}]

\* Requests number their routes apart.
IndexOK ==
  /\ \A q \in Requests : index[q] <= nextRouteID
  /\ \A q \in Requests : pc[q] \in {"new", "checked", "refused"} => index[q] = None
  /\ \A q \in Requests : pc[q] \in {"counted", "routed"} => index[q] # None
  /\ \A p, q \in Requests : p # q /\ index[p] # None => index[p] # index[q]

\* A route is one that some request has set, for its own peripheral.
OwnRoute ==
  /\ \A q \in Requests : pc[q] = "counted" => index[q] \notin DOMAIN routes
  /\ \A q \in Requests : pc[q] = "routed" =>
        index[q] \in DOMAIN routes /\ routes[index[q]] = IdOf[q]

Inv == RedisOK /\ WatcherOK /\ IndexOK /\ OwnRoute /\ SettingsRouted

\* Every step keeps the flags.
LEMMA FlagStep == FlagOK /\ [Next]_vars => FlagOK'
<1> SUFFICES ASSUME FlagOK, [Next]_vars PROVE FlagOK'
  OBVIOUS
<1> USE DEF FlagOK, watcherVars, redisVars
<1>1. CASE ReadRoutes
  BY <1>1 DEF ReadRoutes
<1>2. CASE ClientLost
  BY <1>2 DEF ClientLost
<1>3. CASE ClientBack
  BY <1>3 DEF ClientBack
<1>4. ASSUME NEW q \in Requests, SetRoute(q) PROVE FlagOK'
  BY <1>4 DEF SetRoute
<1>5. ASSUME NEW q \in Requests, Check(q) \/ Count(q) \/ Save(q) \/ Drop(q) PROVE FlagOK'
  BY <1>5 DEF Check, Count, Save, Drop
<1>6. ASSUME NEW i \in Indices, AddRoute(i) PROVE FlagOK'
  BY <1>6 DEF AddRoute
<1>7. CASE UNCHANGED vars
  BY <1>7 DEF vars
<1> QED
  BY <1>1, <1>2, <1>3, <1>4, <1>5, <1>6, <1>7 DEF Next

\* Every step keeps the types and each route with its own request.
LEMMA InvStep == Inv /\ [Next]_vars => Inv'
<1> SUFFICES ASSUME Inv, [Next]_vars PROVE Inv'
  OBVIOUS
<1> USE DEF Inv, Indices, None
<1>1. ASSUME NEW q \in Requests, Check(q) \/ Drop(q) PROVE Inv'
  <2>1. /\ UNCHANGED <<index, redisVars, watcherVars>>
        /\ \E to \in {"checked", "refused", "dropped"} :
             /\ pc' = [pc EXCEPT ![q] = to]
             /\ to # "dropped" => pc[q] = "new"
    BY <1>1 DEF Check, Drop, Goes
  <2> QED
    BY <2>1 DEF redisVars, watcherVars, RedisOK, WatcherOK, IndexOK, OwnRoute, SettingsRouted
<1>2. ASSUME NEW q \in Requests, Count(q) PROVE Inv'
  <2>1. /\ pc[q] = "checked" /\ pc' = [pc EXCEPT ![q] = "counted"]
        /\ nextRouteID < maxRoutes /\ nextRouteID' = nextRouteID + 1
        /\ index' = [index EXCEPT ![q] = nextRouteID + 1]
        /\ UNCHANGED <<routes, settings, live, asked, seen, routers, added>>
    BY <1>2 DEF Count, Goes, watcherVars
  <2>2. RedisOK'
    BY <2>1 DEF RedisOK
  <2>3. IndexOK'
    BY <2>1 DEF RedisOK, IndexOK
  <2>4. OwnRoute'
    BY <2>1 DEF RedisOK, OwnRoute
  <2> QED
    BY <2>1, <2>2, <2>3, <2>4 DEF WatcherOK, SettingsRouted
<1>3. ASSUME NEW q \in Requests, SetRoute(q) PROVE Inv'
  <2>1. /\ pc[q] = "counted"
        /\ \E to \in {"done", "routed"} : pc' = [pc EXCEPT ![q] = to]
        /\ routes' = [i \in DOMAIN routes \cup {index[q]} |->
                        IF i = index[q] THEN IdOf[q] ELSE routes[i]]
        /\ UNCHANGED <<index, nextRouteID, settings, live, seen, routers, added>>
    BY <1>3 DEF SetRoute, Goes
  <2>2. /\ index[q] \in 1..nextRouteID /\ index[q] \notin DOMAIN routes
        /\ DOMAIN routes' = DOMAIN routes \cup {index[q]}
        /\ routes'[index[q]] = IdOf[q]
        /\ \A i \in DOMAIN routes : routes'[i] = routes[i]
    BY <2>1 DEF RedisOK, IndexOK, OwnRoute
  <2>3. RedisOK'
    BY <2>1, <2>2 DEF RedisOK
  <2>4. WatcherOK'
    BY <2>1, <2>2 DEF WatcherOK
  <2>5. IndexOK'
    BY <2>1 DEF RedisOK, IndexOK
  <2>6. OwnRoute'
    BY <2>1, <2>2 DEF RedisOK, IndexOK, OwnRoute
  <2>7. SettingsRouted'
    BY <2>1, <2>2 DEF SettingsRouted
  <2> QED
    BY <2>3, <2>4, <2>5, <2>6, <2>7
<1>4. ASSUME NEW q \in Requests, Save(q) PROVE Inv'
  <2>1. /\ pc[q] = "routed" /\ pc' = [pc EXCEPT ![q] = "done"]
        /\ settings' = settings \cup {IdOf[q]}
        /\ UNCHANGED <<index, nextRouteID, routes, live, asked, seen, routers, added>>
    BY <1>4 DEF Save, Goes, watcherVars
  <2>2. index[q] \in DOMAIN routes /\ routes[index[q]] = IdOf[q]
    BY <2>1 DEF OwnRoute
  <2>3. SettingsRouted'
    BY <2>1, <2>2 DEF SettingsRouted
  <2> QED
    BY <2>1, <2>3 DEF RedisOK, WatcherOK, IndexOK, OwnRoute
<1>5. ASSUME NEW i \in Indices, AddRoute(i) PROVE Inv'
  <2>1. /\ i \in DOMAIN routes /\ added' = [added EXCEPT ![routes[i]] = i]
        /\ UNCHANGED <<pc, index, nextRouteID, routes, settings, seen, routers>>
    BY <1>5 DEF AddRoute, redisVars, WatcherOK
  <2> QED
    BY <2>1 DEF RedisOK, WatcherOK, IndexOK, OwnRoute, SettingsRouted
<1>6. CASE ReadRoutes
  <2>1. /\ seen' = DOMAIN routes
        /\ UNCHANGED <<pc, index, nextRouteID, routes, settings, added>>
        /\ routers' = [i \in Indices |->
             IF (seen # DOMAIN routes /\ i \in DOMAIN routes /\ StartsRouter(i))
               THEN routers[i] + 1 ELSE routers[i]]
    BY <1>6 DEF ReadRoutes, redisVars
  <2>2. routers' \in [Indices -> Nat]
    BY <2>1 DEF WatcherOK
  <2>3. {i \in Indices : routers'[i] > 0} \subseteq DOMAIN routes
    BY <2>1 DEF WatcherOK
  <2> QED
    BY <2>1, <2>2, <2>3 DEF RedisOK, WatcherOK, IndexOK, OwnRoute, SettingsRouted
<1>7. CASE ClientLost \/ ClientBack \/ UNCHANGED vars
  <2>1. /\ seen' = {} \/ seen' = seen
        /\ UNCHANGED <<pc, index, nextRouteID, routes, settings, routers, added>>
    BY <1>7 DEF ClientLost, ClientBack, vars, redisVars, watcherVars
  <2> QED
    BY <2>1 DEF RedisOK, WatcherOK, IndexOK, OwnRoute, SettingsRouted
<1> QED
  BY <1>1, <1>2, <1>3, <1>4, <1>5, <1>6, <1>7 DEF Next

\* They hold always.
LEMMA Invariance == Spec => [](FlagOK /\ Inv)
<1>1. Init => FlagOK /\ Inv
  BY DEF Init, FlagOK, Inv, RedisOK, WatcherOK, IndexOK, OwnRoute, SettingsRouted, Indices, None
<1>2. FlagOK /\ Inv /\ [Next]_vars => FlagOK' /\ Inv'
  BY FlagStep, InvStep
<1> QED
  BY <1>1, <1>2, PTL DEF Spec

\* The routes, the indices and what RouteWatcher keeps of them are well-formed.
THEOREM TypeCorrect == Spec => []TypeOK
<1>1. FlagOK /\ Inv => TypeOK
  <2>1. Inv => (RedisOK /\ WatcherOK)
    BY DEF Inv
  <2>2. (FlagOK /\ RedisOK /\ WatcherOK) => TypeOK
    BY DEF FlagOK, RedisOK, WatcherOK, TypeOK
  <2> QED
    BY <2>1, <2>2
<1> QED
  BY <1>1, Invariance, PTL

\* Settings never exist without a route, though requests overlap or are cut off:
\* no request overwrites the route of another, and the route comes first.
THEOREM SettingsRoutedHolds == Spec => []SettingsRouted
<1>1. Inv => SettingsRouted
  BY DEF Inv
<1> QED
  BY <1>1, Invariance, PTL

-----------------------------------------------------------------------------
(* Requests that come one after the other. *)

NoOther == faults \cap {"concurrent", "bare", "drop"} = {}

OneEach == \A i, j \in DOMAIN routes : routes[i] = routes[j] => i = j

InTurn ==
  /\ \A p, q \in Requests : Busy(p) /\ Busy(q) => p = q
  /\ \A i \in DOMAIN routes : routes[i] \in settings
                              \/ \E q \in Requests : pc[q] = "routed" /\ IdOf[q] = routes[i]
  /\ \A q \in Requests : pc[q] \in {"checked", "counted"} => IdOf[q] \notin settings
  /\ OneEach

\* Requests that come in turn leave a route to each ID.
LEMMA InTurnHolds == Spec => [](NoOther => InTurn)
<1>1. Init => (NoOther => InTurn)
  BY DEF Init, InTurn, OneEach, Busy
<1>2. Inv /\ (NoOther => InTurn) /\ [Next]_vars => (NoOther => InTurn)'
  <2>a. [Next]_vars => faults' = faults
    BY DEF Next, vars, ReadRoutes, ClientLost, ClientBack, Check, Count, SetRoute, Save, Drop, AddRoute
  <2> SUFFICES ASSUME Inv, NoOther, InTurn, [Next]_vars PROVE InTurn'
    BY <2>a DEF NoOther
  <2> USE DEF Inv, Busy
  <2>1. ASSUME NEW q \in Requests, Check(q) PROVE InTurn'
    <3>1. /\ \A other \in Requests : ~Busy(other)
          /\ pc' = [pc EXCEPT ![q] = IF IdOf[q] \in settings THEN "refused" ELSE "checked"]
          /\ UNCHANGED <<routes, settings>>
      BY <2>1 DEF Check, Goes, redisVars, NoOther
    <3>2. \A p \in Requests \ {q} : pc'[p] = pc[p]
      BY <3>1
    <3> QED
      BY <3>1, <3>2 DEF InTurn, OneEach, RedisOK
  <2>2. ASSUME NEW q \in Requests, Count(q) PROVE InTurn'
    BY <2>2 DEF Count, Goes, InTurn, OneEach, RedisOK
  <2>3. ASSUME NEW q \in Requests, SetRoute(q) PROVE InTurn'
    <3>1. /\ pc[q] = "counted" /\ pc' = [pc EXCEPT ![q] = "routed"]
          /\ routes' = [i \in DOMAIN routes \cup {index[q]} |->
                          IF i = index[q] THEN IdOf[q] ELSE routes[i]]
          /\ UNCHANGED settings
      BY <2>3 DEF SetRoute, Goes, NoOther
    <3>2. \A i \in DOMAIN routes : routes[i] # IdOf[q]
      BY <3>1 DEF InTurn
    <3>3. OneEach'
      BY <3>1, <3>2 DEF InTurn, OneEach
    <3>4. \A i \in DOMAIN routes' :
            routes'[i] \in settings' \/ \E p \in Requests : pc'[p] = "routed" /\ IdOf[p] = routes'[i]
      <4>1. pc'[q] = "routed"
        BY <3>1 DEF RedisOK
      <4>2. \A i \in DOMAIN routes : routes[i] \in settings
        BY <3>1 DEF InTurn
      <4> QED
        BY <3>1, <4>1, <4>2
    <3>5. \A p \in Requests \ {q} : pc'[p] = pc[p]
      BY <3>1
    <3> QED
      BY <3>1, <3>3, <3>4, <3>5 DEF InTurn, RedisOK
  <2>4. ASSUME NEW q \in Requests, Save(q) PROVE InTurn'
    <3>1. /\ pc[q] = "routed" /\ pc' = [pc EXCEPT ![q] = "done"]
          /\ settings' = settings \cup {IdOf[q]} /\ UNCHANGED routes
      BY <2>4 DEF Save, Goes
    <3>2. \A p \in Requests \ {q} : pc'[p] = pc[p] /\ ~Busy(p)
      BY <3>1 DEF InTurn
    <3> QED
      BY <3>1, <3>2 DEF InTurn, OneEach, RedisOK
  <2>5. ASSUME NEW q \in Requests, Drop(q) PROVE FALSE
    BY <2>5 DEF Drop, NoOther
  <2>6. CASE \/ ReadRoutes \/ ClientLost \/ ClientBack \/ UNCHANGED vars
             \/ \E i \in Indices : AddRoute(i)
    BY <2>6 DEF ReadRoutes, ClientLost, ClientBack, AddRoute, vars, redisVars, InTurn, OneEach
  <2> QED
    BY <2>1, <2>2, <2>3, <2>4, <2>5, <2>6 DEF Next
<1> QED
  BY <1>1, <1>2, Invariance, PTL DEF Spec

\* One peripheral gets one route if no two requests overlap, each has settings to
\* save, and Redis stays while it is carried out.
THEOREM OneRouteHolds == Spec => []OneRoute
<1>1. (NoOther => InTurn) => OneRoute
  BY DEF InTurn, NoOther, OneEach, OneRoute
<1> QED
  BY <1>1, InTurnHolds, PTL

-----------------------------------------------------------------------------
(* Routers: one that waits to be ready was started for the routes last read, *)
(* and no request gets as far as a new route before it is ready.             *)

BlipOnly == faults \subseteq {"blip"}

StartedOnce ==
  /\ \A i \in Indices : routers[i] <= 1
  /\ \A i \in DOMAIN routes : routers[i] > 0 /\ added[routes[i]] = None => seen = DOMAIN routes
  /\ \A q \in Requests : pc[q] \in {"checked", "counted"} => AllAdded

\* Every step keeps a starting router the only one of its route.
LEMMA StartedOnceStep ==
  ASSUME Inv, InTurn, BlipOnly, StartedOnce, [Next]_vars
  PROVE  StartedOnce'
<1> USE DEF Inv, AllAdded
<1>1. ASSUME NEW q \in Requests, Check(q) PROVE StartedOnce'
  <2>1. /\ AllAdded
        /\ UNCHANGED <<routes, seen, routers, added>>
    BY <1>1 DEF Check, BlipOnly, redisVars, watcherVars
  <2> QED
    BY <2>1 DEF StartedOnce
<1>2. ASSUME NEW q \in Requests, Count(q) PROVE StartedOnce'
  <2>1. /\ pc[q] = "checked" /\ pc' = [pc EXCEPT ![q] = "counted"]
        /\ UNCHANGED <<routes, seen, routers, added>>
    BY <1>2 DEF Count, Goes, watcherVars
  <2>2. AllAdded
    BY <2>1 DEF StartedOnce
  <2> QED
    BY <2>1, <2>2 DEF StartedOnce
<1>3. ASSUME NEW q \in Requests, SetRoute(q) PROVE StartedOnce'
  <2>1. /\ pc[q] = "counted" /\ pc' = [pc EXCEPT ![q] = "routed"]
        /\ routes' = [i \in DOMAIN routes \cup {index[q]} |->
                        IF i = index[q] THEN IdOf[q] ELSE routes[i]]
        /\ UNCHANGED <<seen, routers, added>>
    BY <1>3 DEF SetRoute, Goes, BlipOnly
  <2>2. /\ index[q] \in Indices /\ index[q] \notin DOMAIN routes /\ routers[index[q]] = 0
    BY <2>1 DEF RedisOK, IndexOK, OwnRoute, WatcherOK
  <2>3. AllAdded
    BY <2>1 DEF StartedOnce
  <2>4. \A p \in Requests : pc'[p] \notin {"checked", "counted"}
    BY <2>1 DEF InTurn, Busy, RedisOK
  <2> QED
    BY <2>1, <2>2, <2>3, <2>4 DEF StartedOnce
<1>4. ASSUME NEW q \in Requests, Save(q) \/ Drop(q) PROVE StartedOnce'
  <2>1. /\ \E to \in {"done", "dropped"} : pc' = [pc EXCEPT ![q] = to]
        /\ UNCHANGED <<routes, seen, routers, added>>
    BY <1>4 DEF Save, Drop, Goes, redisVars, watcherVars
  <2> QED
    BY <2>1 DEF StartedOnce, RedisOK
<1>5. ASSUME NEW i \in Indices, AddRoute(i) PROVE StartedOnce'
  <2>1. /\ i \in DOMAIN routes /\ i # None
        /\ added' = [added EXCEPT ![routes[i]] = i]
        /\ UNCHANGED <<pc, routes, seen, routers>>
    BY <1>5 DEF AddRoute, redisVars, WatcherOK, Indices, None
  <2>2. \A p \in IDs : added[p] # None => added'[p] # None
    BY <2>1 DEF WatcherOK
  <2>3. \A j \in DOMAIN routes : routes[j] \in IDs
    BY DEF RedisOK
  <2> QED
    BY <2>1, <2>2, <2>3 DEF StartedOnce
<1>6. CASE ReadRoutes
  <2>1. /\ seen' = DOMAIN routes
        /\ UNCHANGED <<pc, routes, added>>
        /\ routers' = [i \in Indices |->
             IF (seen # DOMAIN routes /\ i \in DOMAIN routes /\ StartsRouter(i))
               THEN routers[i] + 1 ELSE routers[i]]
    BY <1>6 DEF ReadRoutes, redisVars
  <2>2. ASSUME NEW i \in Indices PROVE routers'[i] <= 1
    <3>1. CASE seen # DOMAIN routes /\ i \in DOMAIN routes /\ StartsRouter(i)
      <4>1. routers[i] = 0
        BY <3>1 DEF StartsRouter, StartedOnce, WatcherOK
      <4> QED
        BY <2>1, <3>1, <4>1
    <3>2. CASE ~(seen # DOMAIN routes /\ i \in DOMAIN routes /\ StartsRouter(i))
      BY <2>1, <3>2 DEF StartedOnce
    <3> QED
      BY <3>1, <3>2
  <2> QED
    BY <2>1, <2>2 DEF StartedOnce
<1>7. CASE ClientLost
  BY <1>7 DEF ClientLost, BlipOnly, redisVars, StartedOnce
<1>8. CASE ClientBack \/ UNCHANGED vars
  BY <1>8 DEF ClientBack, vars, redisVars, watcherVars, StartedOnce
<1> QED
  BY <1>1, <1>2, <1>3, <1>4, <1>5, <1>6, <1>7, <1>8 DEF Next

\* However often RouteWatcher loses Redis, a peripheral has one router, if the
\* routers are ready before the routes are read again.
THEOREM OneRouterHolds == Spec => []OneRouter
<1>1. Init => (BlipOnly => StartedOnce)
  BY DEF Init, StartedOnce, AllAdded
<1>2. BlipOnly => NoOther
  BY DEF BlipOnly, NoOther
<1>3. [Next]_vars => faults' = faults
  BY DEF Next, vars, ReadRoutes, ClientLost, ClientBack, Check, Count, SetRoute, Save, Drop, AddRoute
<1>4. /\ Inv /\ (NoOther => InTurn) /\ (BlipOnly => StartedOnce) /\ [Next]_vars
      => (BlipOnly => StartedOnce)'
  BY <1>2, <1>3, StartedOnceStep DEF BlipOnly
<1>5. Inv /\ (NoOther => InTurn) /\ (BlipOnly => StartedOnce) => OneRouter
  <2> SUFFICES ASSUME Inv, BlipOnly, InTurn, StartedOnce PROVE OneRouter
    BY <1>2 DEF OneRouter, BlipOnly
  <2>1. \A i \in DOMAIN routes : i \in Indices
    BY DEF Inv, RedisOK, Indices
  <2> QED
    BY <2>1 DEF OneRouter, StartedOnce, InTurn, OneEach
<1> QED
  BY <1>1, <1>4, <1>5, Invariance, InTurnHolds, PTL DEF Spec
=============================================================================
