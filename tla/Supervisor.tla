----------------------------- MODULE Supervisor -----------------------------
(***************************************************************************)
(* processes/m2m-supervisor.js with what it wires together: the            *)
(* RedisWatcher starts and stops the configuration watcher, which starts   *)
(* and stops gateway, pppd, modem and, once there is one, the heartbeat    *)
(* with the settings of their keyset; and pppd, when the ppp interface     *)
(* comes and goes, starts and stops modem and heartbeat too.  How the      *)
(* configuration is read and retried is in HashWatcher, what gateway and   *)
(* heartbeat do in Bridge; here they are started or not.                   *)
(***************************************************************************)
EXTENDS Naturals

CONSTANTS
  Gateways,     \* the settings of the gateway keyset
  Cellulars,    \* the settings of the cellular keyset
  Absent,       \* no settings: a required one is missing
  Unchecked,    \* a heartbeat's lastJSON before its first check
  maxOutputs,   \* bound: shell commands of pppd under way at once
  SupScenarios  \* the sets of faults that an execution may meet:
                \* "blip": the Redis client fails; "quit": the supervisor is stopped;
                \* "unset": a required setting is removed;
                \* "waiting": the interface goes and the pppd daemon stays;
                \* "slowShell": a command takes longer than the check interval;
                \* "shellError": a command fails;
                \* "slowPort": the modem's port opens after the modem was stopped

ASSUME SupervisorAssumption ==
  /\ Absent \notin Gateways \cup Cellulars /\ Unchecked \notin Gateways \cup Cellulars \cup {Absent}
  /\ maxOutputs \in Nat \ {0}
  /\ SupScenarios \subseteq SUBSET {"blip", "quit", "unset", "waiting", "slowShell",
                                    "shellError", "slowPort"}

VARIABLES
  supFaults,    \* the faults this execution may meet
  redis,        \* redisWatcher: "off", "checking", "ready" or "retry"
  stored,       \* the settings that Redis holds
  sup,          \* the watchers of the bridge process: see System
  late,         \* a client that quit still has replies to hgetall
  stray,        \* history: one came since configWatcher was stopped
  iface, daemon \* the ppp interface, and whether a pppd process runs

replyVars == <<late, stray>>
supervisorVars == <<supFaults, redis, stored, sup, replyVars, iface, daemon>>

Watchers == {"gateway", "pppd", "modem", "heartbeat"}
Users    == {"gateway", "heartbeat"}   \* those that keep the client they are started with
Setting  == Gateways \cup Cellulars \cup {Absent}
Settings == [gateway : Gateways \cup {Absent}, cellular : Cellulars \cup {Absent}]
Keyset   == [gateway |-> "gateway", heartbeat |-> "gateway",
             pppd |-> "cellular", modem |-> "cellular"]

\* No hash is told from every hash.
ASSUME HashAssumption == Absent \notin Settings

System ==
  [hash    : Settings \cup {Absent},    \* configWatcher.hash, Absent until it was read
   config  : BOOLEAN,                   \* configWatcher is started
   json    : [Watchers -> Setting \cup {Unchecked}], \* target.lastJSON, kept when it is stopped
   on      : [Watchers -> Setting],     \* what a watcher was started with, or Absent
   blind   : [Watchers -> BOOLEAN],     \* its client was null when it was last started
   ready   : BOOLEAN,                   \* pppd.readyState
   made    : BOOLEAN,                   \* there is a heartbeat
   latest  : Gateways \cup {Absent},    \* gateway.config, kept when it is stopped
   outputs : [{"route", "psaux"} -> Nat],  \* pppd: shell commands under way
   port    : {"closed", "opening", "open"},  \* the modem's
   orphan  : BOOLEAN,                   \* a stopped modem's port still opens
   threw   : BOOLEAN]                   \* 'already started', 'not started' or a null

SupervisorTypeOK ==
  /\ redis \in {"off", "checking", "ready", "retry"}
  /\ stored \in Settings
  /\ sup \in System
  /\ late \in BOOLEAN /\ stray \in BOOLEAN
  /\ iface \in BOOLEAN /\ daemon \in BOOLEAN

SupervisorInit ==
  /\ supFaults \in SupScenarios
  /\ redis = "off"
  /\ stored \in Settings
  /\ sup = [hash |-> Absent, config |-> FALSE,
            json |-> [w \in Watchers |-> Absent], on |-> [w \in Watchers |-> Absent],
            blind |-> [w \in Watchers |-> FALSE],
            ready |-> FALSE, made |-> FALSE, latest |-> Absent,
            outputs |-> [route |-> 0, psaux |-> 0],
            port |-> "closed", orphan |-> FALSE, threw |-> FALSE]
  /\ late = FALSE /\ stray = FALSE
  /\ iface = FALSE /\ daemon = FALSE

-----------------------------------------------------------------------------
(* Watcher: start, stop, ensureStartStop.  An operator takes the system before *)
(* a call to the one after it.                                                 *)

Started(s, w) == s.on[w] # Absent

\* pppd: findRoute at once, then a shell command.
CheckRoutes(s) == [s EXCEPT !.outputs[IF iface THEN "route" ELSE "psaux"] = @ + 1]

OnStart(s, w, c) ==
  CASE w = "gateway" -> [s EXCEPT !.latest = c]
    [] w = "pppd"    -> CheckRoutes(s)
    [] w = "modem"   -> [s EXCEPT !.port = "opening"]
    [] OTHER         -> s

StartWatcher(s, w, c, client) ==
  IF Started(s, w) THEN [s EXCEPT !.threw = TRUE]
                   ELSE OnStart([s EXCEPT !.on[w] = c, !.blind[w] = w \in Users /\ ~client], w, c)

\* A watcher runs that will throw, the heartbeat at once, when it uses its client.
Blind(s, w) == Started(s, w) /\ s.blind[w]
Thrown(s)   == s.threw \/ Blind(s, "heartbeat")

\* redisWatcher.client
HasClient == redis \in {"checking", "ready"}

\* stop, without the 'ready' that a ready pppd emits.
StopQuietly(s, w) ==
  IF ~Started(s, w) THEN [s EXCEPT !.threw = TRUE]
  ELSE LET t == [s EXCEPT !.on[w] = Absent] IN
       IF w # "modem" THEN t
       ELSE [t EXCEPT !.orphan = @ \/ t.port = "opening", !.port = "closed"]

\* Mutant of EnsureStartStop: started() is not asked.
StartOrStop(s, w, c) ==
  IF c # Absent THEN StartWatcher(s, w, c, HasClient) ELSE StopQuietly(s, w)

\* ensureStartStop, of modem and heartbeat.
EnsureStartStop(s, w, c) ==
  CASE c # Absent /\ ~Started(s, w) -> StartWatcher(s, w, c, HasClient)
    [] c = Absent /\ Started(s, w)  -> StopQuietly(s, w)
    [] OTHER                      -> s

\* addKeysetWatcher of a new heartbeat: checked at once if the configuration is watched.
AddHeartbeat(s) ==
  LET c == IF s.hash = Absent THEN Absent ELSE s.hash.gateway
      t == [s EXCEPT !.made = TRUE, !.json.heartbeat = IF s.config THEN c ELSE Unchecked]
  IN  IF s.config /\ c # Absent THEN StartWatcher(t, "heartbeat", c, TRUE) ELSE t

\* The handler of pppd's 'ready'.
PppdReady(s, ready) ==
  LET made  == IF ready /\ ~s.made THEN AddHeartbeat(s) ELSE s
      modem == EnsureStartStop(made, "modem", IF ready THEN s.on.pppd ELSE Absent)
  IN  IF modem.made THEN EnsureStartStop(modem, "heartbeat", IF ready THEN s.latest ELSE Absent)
                    ELSE modem

StopWatcher(s, w) ==
  LET t == StopQuietly(s, w) IN
  IF w = "pppd" /\ s.ready THEN PppdReady([t EXCEPT !.ready = FALSE], FALSE) ELSE t

\* Mutant of NotePppdReady: a late output counts though pppd was stopped.
NoteAnyway(s, ready) ==
  IF s.ready = ready THEN s ELSE PppdReady([s EXCEPT !.ready = ready], ready)

\* noteReady of pppd.
NotePppdReady(s, ready) ==
  IF ~Started(s, "pppd") \/ s.ready = ready THEN s
  ELSE PppdReady([s EXCEPT !.ready = ready], ready)

-----------------------------------------------------------------------------
(* The configuration and Redis *)

StopIfStarted(s, w) == IF Started(s, w) THEN StopWatcher(s, w) ELSE s

\* checkKeysetWatcher
Check(s, w) ==
  LET c == s.hash[Keyset[w]]
      t == StopIfStarted([s EXCEPT !.json[w] = c], w)
  IN  IF c = s.json[w] THEN s
      ELSE IF c # Absent THEN StartWatcher(t, w, c, s.config) ELSE t

Idle == sup.outputs.route + sup.outputs.psaux = 0

\* Shell commands end before the next check, unless they are slow.
MayCheckRoutes ==
  Idle \/ ("slowShell" \in supFaults /\ sup.outputs.route + sup.outputs.psaux < maxOutputs)

CheckAll(s) ==
  LET t == Check(Check(Check(s, "gateway"), "pppd"), "modem") IN
  IF t.made THEN Check(t, "heartbeat") ELSE t

\* The reply to hgetall of configWatcher, with a hash that is not the last one; it checks
\* the keysets also when configWatcher was stopped meanwhile and has no client.
ConfigReply ==
  /\ sup.config \/ late
  /\ sup.hash # stored /\ MayCheckRoutes
  /\ sup' = CheckAll([sup EXCEPT !.hash = stored])
  /\ late' \in {FALSE, late}
  /\ stray' = (stray \/ ~sup.config)
  /\ UNCHANGED <<supFaults, redis, stored, iface, daemon>>

\* Settings change, by the browser or the remote server.
Store ==
  /\ stored' \in Settings
  /\ "unset" \in supFaults \/ \A k \in DOMAIN stored : stored'[k] = Absent => stored[k] = Absent
  /\ UNCHANGED <<supFaults, redis, sup, replyVars, iface, daemon>>

\* configWatcher.stop
StopConfig(s) ==
  LET t == [s EXCEPT !.config = FALSE, !.hash = Absent] IN
  StopIfStarted(StopIfStarted(StopIfStarted(StopIfStarted(t,
    "gateway"), "pppd"), "modem"), "heartbeat")

\* M2mSupervisor.start
StartAll ==
  /\ redis = "off" /\ redis' = "checking"
  /\ UNCHANGED <<supFaults, stored, sup, replyVars, iface, daemon>>

\* M2mSupervisor.stop: client.quit() lets replies that are under way arrive.
StopAll ==
  /\ "quit" \in supFaults
  /\ redis # "off" /\ redis' = "off"
  /\ IF redis = "ready" THEN sup' = StopConfig(sup) /\ late' \in {late, TRUE} /\ stray' = FALSE
                        ELSE UNCHANGED <<sup, replyVars>>
  /\ UNCHANGED <<supFaults, stored, iface, daemon>>

\* keys('*') is answered: the client watchers are started.
RedisReady ==
  /\ redis = "checking" /\ redis' = "ready"
  /\ sup' = [sup EXCEPT !.config = TRUE]
  /\ UNCHANGED <<supFaults, stored, replyVars, iface, daemon>>

\* 'error' of the client, which is ended and says no more: callback(null).
RedisError ==
  /\ "blip" \in supFaults
  /\ redis \in {"checking", "ready"} /\ redis' = "retry"
  /\ IF redis = "ready" THEN sup' = StopConfig(sup) /\ stray' = FALSE
                        ELSE UNCHANGED <<sup, stray>>
  /\ UNCHANGED <<supFaults, stored, late, iface, daemon>>

RedisRetry ==
  /\ redis = "retry" /\ redis' = "checking"
  /\ UNCHANGED <<supFaults, stored, sup, replyVars, iface, daemon>>

-----------------------------------------------------------------------------
(* pppd and the modem *)

\* The interval of pppd.
Tick ==
  /\ Started(sup, "pppd") /\ MayCheckRoutes
  /\ sup' = CheckRoutes(sup)
  /\ UNCHANGED <<supFaults, redis, stored, replyVars, iface, daemon>>

Took(kind) == [sup EXCEPT !.outputs[kind] = @ - 1]

\* 'route -n': the route is there, or added.
RouteOutput ==
  /\ sup.outputs.route > 0
  /\ \/ sup' = NotePppdReady(Took("route"), TRUE)
     \/ "shellError" \in supFaults /\ sup' = NotePppdReady(Took("route"), FALSE)
  /\ UNCHANGED <<supFaults, redis, stored, replyVars, iface, daemon>>

\* Mutant of NotReady: a missing interface is not noted.
Unnoted(s) == s

NotReady(s) == NotePppdReady(s, FALSE)

\* 'ps aux': pppd is started, or waited for; stopped or not.
PsauxOutput ==
  /\ sup.outputs.psaux > 0
  /\ \/ ~daemon /\ daemon' = TRUE /\ sup' = NotReady(Took("psaux"))
     \/ daemon /\ sup' = Took("psaux") /\ UNCHANGED daemon
     \/ "shellError" \in supFaults /\ sup' = NotReady(Took("psaux")) /\ UNCHANGED daemon
  /\ UNCHANGED <<supFaults, redis, stored, replyVars, iface>>

\* The daemon connects; the connection goes, the daemon with it or not.
IfaceUp ==
  /\ daemon /\ ~iface /\ iface' = TRUE
  /\ UNCHANGED <<supFaults, redis, stored, sup, replyVars, daemon>>

IfaceDown ==
  /\ daemon /\ iface' = FALSE
  /\ daemon' \in IF "waiting" \in supFaults THEN BOOLEAN ELSE {FALSE}
  /\ UNCHANGED <<supFaults, redis, stored, sup, replyVars>>

\* The modem's port opens: RSSI is asked for from now on.
PortOpens ==
  /\ sup.port = "opening"
  /\ sup' = [sup EXCEPT !.port = "open"]
  /\ UNCHANGED <<supFaults, redis, stored, replyVars, iface, daemon>>

\* The open of a stopped modem's port ends: its connection is null, which only a
\* failed open does not touch.
OrphanOpens ==
  /\ sup.orphan
  /\ sup' = [sup EXCEPT !.orphan = FALSE, !.threw = "slowPort" \in supFaults]
  /\ UNCHANGED <<supFaults, redis, stored, replyVars, iface, daemon>>

\* An execution is followed to its first exception: it ends the process, but for one
\* in ConfigReply, which is logged and leaves a heartbeat without its timer.
SupervisorNext ==
  /\ ~Thrown(sup)
  /\ \/ ConfigReply \/ Store \/ StartAll \/ StopAll
     \/ RedisReady \/ RedisError \/ RedisRetry
     \/ Tick \/ RouteOutput \/ PsauxOutput \/ IfaceUp \/ IfaceDown
     \/ PortOpens \/ OrphanOpens

SupervisorSpec == SupervisorInit /\ [][SupervisorNext]_supervisorVars

\* The interval of pppd fires, and its commands end.
SupervisorFairSpec ==
  /\ SupervisorSpec
  /\ WF_supervisorVars(~Thrown(sup) /\ Tick)
  /\ WF_supervisorVars(~Thrown(sup) /\ RouteOutput) /\ WF_supervisorVars(~Thrown(sup) /\ PsauxOutput)

-----------------------------------------------------------------------------
(* Properties *)

\* Nothing is started twice or stopped twice, though modem and heartbeat follow both
\* their keyset and pppd, which may stop them within the stop of another, and nothing
\* runs with a client that is null; unless a modem's port opens after the modem was
\* stopped, or a reply to hgetall has come after configWatcher was.
NeverThrows ==
  /\ "slowPort" \notin supFaults => ~sup.threw
  /\ ~stray => \A w \in Watchers : ~Blind(sup, w)

\* What runs fits together.  Before a hash was read nothing runs, nor when the
\* configuration is not watched, but for what a reply after the stop has started;
\* while pppd is ready the modem runs and, if the gateway runs, the heartbeat;
\* watchers of one keyset that run do so with the same settings; and a heartbeat runs
\* only with a gateway, unless Redis failed or settings were removed: gateway.config
\* is then that of a gateway that was stopped.
RunTogether ==
  /\ sup.hash = Absent \/ ~(sup.config \/ stray) => \A w \in Watchers : ~Started(sup, w)
  /\ sup.ready => Started(sup, "modem")
  /\ sup.ready /\ Started(sup, "gateway") => Started(sup, "heartbeat")
  /\ \A v, w \in Watchers :
       Keyset[v] = Keyset[w] /\ Started(sup, v) /\ Started(sup, w) => sup.on[v] = sup.on[w]
  /\ supFaults \cap {"blip", "quit", "unset"} = {} =>
       (Started(sup, "heartbeat") => Started(sup, "gateway"))

\* pppd is ready in the end when the interface stays, and is not when it stays away;
\* unless the daemon outlives the interface, or an earlier command ends late.
PppTracked ==
  [](~Thrown(sup)) /\ "shellError" \notin supFaults =>
    /\ \A c \in Cellulars : <>[](iface /\ sup.on.pppd = c) => <>[](sup.ready)
    /\ supFaults \cap {"waiting", "slowShell"} = {} => (<>[](~iface) => <>[](~sup.ready))
=============================================================================
