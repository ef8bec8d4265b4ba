----------------------------- MODULE HashWatcher -----------------------------
(***************************************************************************)
(* services/hash-watcher.js over lib/watcher.js: it reads a hash of        *)
(* settings from Redis and starts, restarts and stops the watchers that    *)
(* depend on a keyset of it (the queue router, the gateway proxy, pppd).   *)
(* While some keyset is incomplete it polls with a timer; once all are     *)
(* complete it only looks when 'checkReady' is emitted.  RedisWatcher      *)
(* starts it with a client and stops it when the client is lost.           *)
(***************************************************************************)
EXTENDS Naturals, Sequences

CONSTANTS
  Targets,      \* the watchers that addKeysetWatcher knows sooner or later
  Early,        \* those added before the start
  Hashes,       \* the contents the hash may have
  Config,       \* Targets -> (Hashes -> configuration, or None: keys are missing)
  None,
  Unset,        \* a target's lastJSON before its first check
  Asked,        \* an hgetall that Redis has not executed yet
  maxNudges,    \* checks that others may ask for
  maxPending,   \* bound: checks and timers still pending when it is started again
  Scenarios     \* the sets of faults that an execution may meet: "blip", the Redis
                \* client fails; "quit", RedisWatcher.stop

Configs == {Config[t][h] : t \in Targets, h \in Hashes} \ {None}

ASSUME ConfigAssumption ==
  /\ Early \subseteq Targets
  /\ None \notin Hashes /\ Asked \notin Hashes /\ Unset \notin Configs \cup {None}
  /\ \A t \in Targets : DOMAIN Config[t] = Hashes
  /\ maxNudges \in Nat /\ maxPending \in Nat
  /\ Scenarios \subseteq SUBSET {"blip", "quit"}

VARIABLES
  faults,         \* the faults this execution may meet
  redisHash,      \* Redis: the settings
  started,        \* startCalled; the client is null when it is FALSE
  readyState,     \* some reply found every keyset complete
  readyStatus,    \* whether the last hash that was checked is complete
  lastJSON,       \* the last hash read, None for null
  keysetWatchers, \* the targets added
  targetJSON,     \* target.lastJSON: the configuration it was last checked with
  running,        \* the configuration a target was started with, None if stopped
  reads,          \* hgetall commands under way, oldest first: Asked or the reply
  timers,         \* retry timers that will call checkReady
  tracked,        \* retryTimeout refers to one of them
  nudges,         \* checks that others asked for
  announced       \* history: the hash has not changed since such a check

watcherVars == <<started, readyState, readyStatus, lastJSON>>
targetVars  == <<keysetWatchers, targetJSON, running>>
vars == <<faults, redisHash, watcherVars, targetVars, reads, timers, tracked, nudges, announced>>

TypeOK ==
  /\ redisHash \in Hashes
  /\ started \in BOOLEAN /\ readyState \in BOOLEAN /\ readyStatus \in BOOLEAN
  /\ lastJSON \in Hashes \cup {None}
  /\ keysetWatchers \subseteq Targets
  /\ targetJSON \in [Targets -> Configs \cup {None, Unset}]
  /\ running \in [Targets -> Configs \cup {None}]
  /\ reads \in Seq(Hashes \cup {Asked})
  /\ timers \in Nat /\ tracked \in BOOLEAN /\ nudges \in Nat /\ announced \in BOOLEAN

Init ==
  /\ faults \in Scenarios
  /\ redisHash \in Hashes
  /\ started = FALSE /\ readyState = FALSE /\ readyStatus = FALSE /\ lastJSON = None
  /\ keysetWatchers = Early
  /\ targetJSON = [t \in Targets |-> Unset]
  /\ running = [t \in Targets |-> None]
  /\ reads = <<>> /\ timers = 0 /\ tracked = FALSE
  /\ nudges = 0 /\ announced = FALSE

-----------------------------------------------------------------------------
(* lib/watcher.js *)

\* checkReady, called when "fired" timers (0 or 1) went off: it forgets the timer
\* it tracks, whether or not that one has gone off, and asks Redis.
CheckReady(fired) ==
  /\ timers' = timers - fired
  /\ tracked' = FALSE
  /\ reads' = IF started THEN Append(reads, Asked) ELSE reads

\* Mutant of NoteReady: an incomplete hash is not looked at again.
NoteReadyOnce(ready) ==
  /\ readyState' = ready
  /\ UNCHANGED <<timers, tracked>>

\* noteReady: a timer is set while something is missing, over the one it tracks.
NoteReady(ready) ==
  /\ readyState' = ready
  /\ IF ready THEN UNCHANGED <<timers, tracked>>
              ELSE timers' = timers + 1 /\ tracked' = TRUE

\* The client of RedisWatcher is there; start() checks at once.
Start ==
  /\ ~started
  /\ Len(reads) + timers <= maxPending
  /\ started' = TRUE
  /\ timers' = timers /\ tracked' = FALSE
  /\ reads' = Append(reads, Asked)
  /\ UNCHANGED <<faults, redisHash, readyState, readyStatus, lastJSON, targetVars,
                 nudges, announced>>

\* Mutants of ClearTimer and StopTargets.
KeepTimer == tracked' = FALSE /\ UNCHANGED timers
KeepTargets == UNCHANGED running

ClearTimer ==
  /\ timers' = IF tracked THEN timers - 1 ELSE timers
  /\ tracked' = FALSE

StopTargets ==
  running' = [t \in Targets |-> IF t \in keysetWatchers THEN None ELSE running[t]]

\* stop() and _onStop: what each target was last checked with is kept.
Stop ==
  /\ started
  /\ started' = FALSE /\ readyState' = FALSE /\ lastJSON' = None
  /\ ClearTimer
  /\ StopTargets
  /\ UNCHANGED <<faults, redisHash, readyStatus, keysetWatchers, targetJSON, nudges, announced>>

\* The client fails and is ended: replies under way are discarded; or it quits:
\* they still arrive.
ClientLost ==
  /\ \/ "blip" \in faults /\ reads' = <<>>
     \/ "quit" \in faults /\ UNCHANGED reads
  /\ Stop

TimerFires ==
  /\ timers > 0
  /\ CheckReady(1)
  /\ UNCHANGED <<faults, redisHash, watcherVars, targetVars, nudges, announced>>

-----------------------------------------------------------------------------
(* services/hash-watcher.js *)

\* Mutants of Changed and TargetChanged: only a first value counts.
FirstOnly(h) == lastJSON = None
FirstConfigOnly(t, c) == targetJSON[t] = Unset

Changed(h) == lastJSON # h
TargetChanged(t, c) == targetJSON[t] # c

\* validateRequirements: the configuration of a target, None while a key is missing.
ConfigOf(t, h) == IF h = None THEN None ELSE Config[t][h]

\* Mutant of CheckKeysets: a target whose keys are gone is left running.
StartOnly(S, h) ==
  LET changed == {t \in S : TargetChanged(t, ConfigOf(t, h))} IN
  /\ targetJSON' = [t \in Targets |-> IF t \in changed THEN ConfigOf(t, h) ELSE targetJSON[t]]
  /\ running' = [t \in Targets |-> IF t \in changed /\ ConfigOf(t, h) # None
                                     THEN ConfigOf(t, h) ELSE running[t]]

\* checkKeysetWatcher of the targets S: one whose configuration changed is
\* stopped, and started again if its keys are there.
CheckKeysets(S, h) ==
  LET changed == {t \in S : TargetChanged(t, ConfigOf(t, h))} IN
  /\ targetJSON' = [t \in Targets |-> IF t \in changed THEN ConfigOf(t, h) ELSE targetJSON[t]]
  /\ running'    = [t \in Targets |-> IF t \in changed THEN ConfigOf(t, h) ELSE running[t]]

Complete(h) == \A t \in keysetWatchers : ConfigOf(t, h) # None

RedisReads ==
  /\ \E i \in 1..Len(reads) :
       /\ reads[i] = Asked
       /\ \A j \in 1..(i-1) : reads[j] # Asked
       /\ reads' = [reads EXCEPT ![i] = redisHash]
  /\ UNCHANGED <<faults, redisHash, watcherVars, targetVars, timers, tracked, nudges, announced>>

\* The reply of hgetall; noteReady ignores it once stopped, the rest does not.
HashReply ==
  /\ reads # <<>> /\ Head(reads) # Asked
  /\ LET h == Head(reads) IN
       /\ IF Changed(h) THEN /\ lastJSON' = h
                             /\ readyStatus' = Complete(h)
                             /\ CheckKeysets(keysetWatchers, h)
                        ELSE UNCHANGED <<lastJSON, readyStatus, targetJSON, running>>
       /\ IF started THEN NoteReady(readyStatus') ELSE UNCHANGED <<readyState, timers, tracked>>
  /\ reads' = Tail(reads)
  /\ UNCHANGED <<faults, redisHash, started, keysetWatchers, nudges, announced>>

\* addKeysetWatcher after the start, as for the heartbeat once PPP is up: an
\* incomplete target asks for a check, next to the poll that may be under way.
AddKeysetWatcher(t) ==
  /\ t \notin keysetWatchers
  /\ keysetWatchers' = keysetWatchers \cup {t}
  /\ \/ /\ ~started
        /\ UNCHANGED <<readyStatus, targetJSON, running, reads, timers, tracked, nudges>>
     \/ /\ started /\ ConfigOf(t, lastJSON) # None
        /\ CheckKeysets({t}, lastJSON)
        /\ UNCHANGED <<readyStatus, reads, timers, tracked, nudges>>
     \/ /\ started /\ ConfigOf(t, lastJSON) = None
        /\ nudges < maxNudges
        /\ CheckKeysets({t}, lastJSON)
        /\ readyStatus' = FALSE
        /\ CheckReady(0)
        /\ nudges' = nudges + 1
  /\ UNCHANGED <<faults, redisHash, started, readyState, lastJSON, announced>>

-----------------------------------------------------------------------------
(* Others: the web application and other processes write the settings; only  *)
(* the web application, and only in the same process, announces it.          *)

Write(h) ==
  /\ redisHash' = h
  /\ announced' = FALSE
  /\ UNCHANGED <<faults, watcherVars, targetVars, reads, timers, tracked, nudges>>

Nudge ==
  /\ nudges < maxNudges
  /\ CheckReady(0)
  /\ nudges' = nudges + 1
  /\ announced' = started
  /\ UNCHANGED <<faults, redisHash, watcherVars, targetVars>>

Next ==
  \/ Start \/ ClientLost \/ TimerFires \/ RedisReads \/ HashReply \/ Nudge
  \/ \E t \in Targets : AddKeysetWatcher(t)
  \/ \E h \in Hashes : Write(h)

Spec == Init /\ [][Next]_vars

\* RedisWatcher retries until it has a client, timers go off, and Redis answers
\* what is asked of a live client.
FairSpec ==
  /\ Spec
  /\ WF_vars(Start) /\ WF_vars(TimerFires) /\ WF_vars(RedisReads) /\ WF_vars(HashReply)

-----------------------------------------------------------------------------
(* Properties *)

\* The targets are what the last hash read asks for: each runs with exactly its
\* configuration, or does not run if keys are missing.
Agree ==
  started /\ lastJSON # None =>
    \A t \in keysetWatchers : running[t] = ConfigOf(t, lastJSON)

\* It is so while the first client stays.
AgreeConnected == faults = {} => Agree

\* No target runs with a configuration other than that of the last hash read,
\* over lost clients and replies that arrive after a stop.
CurrentConfig ==
  \A t \in Targets : running[t] # None => running[t] = ConfigOf(t, lastJSON)

\* Nothing the watcher started is left running when its client is lost, unless a
\* stop leaves replies to come.
StoppedStopsAll ==
  "quit" \notin faults /\ ~started => \A t \in keysetWatchers : running[t] = None

\* The polls under way: one, and one more for each check that others asked for;
\* starting and stopping does not multiply them, unless replies outlive a stop.
PollsBounded == "quit" \notin faults => timers + Len(reads) <= 1 + nudges

\* Once the settings a target needs stay in Redis, and the client stays, the
\* target gets running, whoever wrote them: the watcher polls while it misses any.
ConfigArrives ==
  faults = {} => \A t \in Early :
    <>[](started /\ Config[t][redisHash] # None) => <>[](running[t] # None)

\* A change that the web application announces is taken over, even when an
\* earlier reading of the hash is still under way.
AnnouncedSeen == <>[](started /\ announced) => <>[](lastJSON = redisHash)
=============================================================================
