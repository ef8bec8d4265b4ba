------------------------- MODULE ConfigurationProofs --------------------------
(* What the hash watcher and the supervisor that listens to it guarantee.    *)
(* The hash watcher, for every set of targets and hashes: its types, that no *)
(* target runs with an outdated configuration, and that losing the client    *)
(* neither leaves a target running nor multiplies polls.  The supervisor,    *)
(* for every set of settings: its types, that its watchers run together with *)
(* settings that fit, and that no handler throws.                            *)
EXTENDS HashWatcher, Supervisor, TLAPS


-----------------------------------------------------------------------------
(* Types: the flags, and the rest. *)

FlagOK ==
  /\ started \in BOOLEAN /\ readyState \in BOOLEAN /\ readyStatus \in BOOLEAN
  /\ tracked \in BOOLEAN /\ announced \in BOOLEAN

DataOK ==
  /\ redisHash \in Hashes
  /\ lastJSON \in Hashes \cup {None}
  /\ keysetWatchers \subseteq Targets
  /\ targetJSON \in [Targets -> Configs \cup {None, Unset}]
  /\ running \in [Targets -> Configs \cup {None}]
  /\ reads \in Seq(Hashes \cup {Asked})
  /\ timers \in Nat /\ nudges \in Nat

\* The timer that stop() clears is a pending one.
TimerOK == tracked => timers > 0

TypeInv == FlagOK /\ DataOK /\ TimerOK

\* checkKeysetWatcher asks for a configuration, or finds keys missing.
LEMMA ConfigOfType ==
  ASSUME NEW t \in Targets, NEW h \in Hashes \cup {None}
  PROVE  ConfigOf(t, h) \in Configs \cup {None}
  BY DEF ConfigOf, Configs

\* checkKeysetWatcher keeps the types of the targets.
LEMMA CheckKeysetsType ==
  ASSUME DataOK, NEW S, NEW h \in Hashes \cup {None}, CheckKeysets(S, h)
  PROVE  /\ targetJSON' \in [Targets -> Configs \cup {None, Unset}]
         /\ running' \in [Targets -> Configs \cup {None}]
<1> DEFINE changed == {t \in S : TargetChanged(t, ConfigOf(t, h))}
<1>1. \A t \in Targets : ConfigOf(t, h) \in Configs \cup {None}
  BY ConfigOfType
<1>2. /\ targetJSON' = [t \in Targets |-> IF t \in changed THEN ConfigOf(t, h) ELSE targetJSON[t]]
      /\ running'    = [t \in Targets |-> IF t \in changed THEN ConfigOf(t, h) ELSE running[t]]
  BY DEF CheckKeysets
<1> HIDE DEF changed
<1> QED
  BY <1>1, <1>2 DEF DataOK

\* The types, flags and data apart.
LEMMA TypeParts == TypeOK <=> FlagOK /\ DataOK
  BY DEF TypeOK, FlagOK, DataOK

\* Every step keeps the flags.
LEMMA FlagStep == FlagOK /\ [Next]_vars => FlagOK'
<1> SUFFICES ASSUME FlagOK, [Next]_vars PROVE FlagOK'
  OBVIOUS
<1> USE DEF FlagOK, watcherVars, targetVars
<1>1. CASE Start
  BY <1>1 DEF Start
<1>2. CASE ClientLost
  BY <1>2 DEF ClientLost, Stop, ClearTimer
<1>3. CASE TimerFires
  BY <1>3 DEF TimerFires, CheckReady
<1>4. CASE RedisReads
  BY <1>4 DEF RedisReads
<1>5. CASE HashReply
  <2>1. readyStatus' \in BOOLEAN
    BY <1>5 DEF HashReply, Complete
  <2>2. readyState' \in BOOLEAN /\ tracked' \in BOOLEAN
    BY <1>5, <2>1 DEF HashReply, NoteReady
  <2> QED
    BY <1>5, <2>1, <2>2 DEF HashReply
<1>6. CASE Nudge
  BY <1>6 DEF Nudge, CheckReady
<1>7. ASSUME NEW t \in Targets, AddKeysetWatcher(t) PROVE FlagOK'
  BY <1>7 DEF AddKeysetWatcher, CheckReady
<1>8. ASSUME NEW h \in Hashes, Write(h) PROVE FlagOK'
  BY <1>8 DEF Write
<1>9. CASE UNCHANGED vars
  BY <1>9 DEF vars
<1> QED
  BY <1>1, <1>2, <1>3, <1>4, <1>5, <1>6, <1>7, <1>8, <1>9 DEF Next

\* Every step keeps the timers counted and the tracked one pending.
LEMMA TimerStep == FlagOK /\ DataOK /\ TimerOK /\ [Next]_vars => TimerOK' /\ timers' \in Nat
<1> SUFFICES ASSUME FlagOK, timers \in Nat, TimerOK, [Next]_vars
             PROVE  (tracked' => timers' > 0) /\ timers' \in Nat
  BY DEF DataOK, TimerOK
<1> USE DEF FlagOK, TimerOK, watcherVars, targetVars
<1>1. CASE Start
  BY <1>1 DEF Start
<1>2. CASE ClientLost
  BY <1>2 DEF ClientLost, Stop, ClearTimer
<1>3. CASE TimerFires
  BY <1>3 DEF TimerFires, CheckReady
<1>4. CASE RedisReads
  BY <1>4 DEF RedisReads
<1>5. CASE HashReply
  BY <1>5 DEF HashReply, NoteReady
<1>6. CASE Nudge
  BY <1>6 DEF Nudge, CheckReady
<1>7. ASSUME NEW t \in Targets, AddKeysetWatcher(t)
      PROVE  (tracked' => timers' > 0) /\ timers' \in Nat
  BY <1>7 DEF AddKeysetWatcher, CheckReady
<1>8. ASSUME NEW h \in Hashes, Write(h) PROVE (tracked' => timers' > 0) /\ timers' \in Nat
  BY <1>8 DEF Write
<1>9. CASE UNCHANGED vars
  BY <1>9 DEF vars
<1> QED
  BY <1>1, <1>2, <1>3, <1>4, <1>5, <1>6, <1>7, <1>8, <1>9 DEF Next

\* Every step keeps the hashes, the targets and the reads.
LEMMA DataStep == FlagOK /\ DataOK /\ TimerOK /\ [Next]_vars => DataOK'
<1> SUFFICES ASSUME FlagOK, DataOK, TimerOK, [Next]_vars PROVE DataOK'
  OBVIOUS
<1>t. timers' \in Nat
  BY TimerStep
<1> USE <1>t DEF DataOK, watcherVars, targetVars
<1>1. CASE Start
  BY <1>1 DEF Start
<1>2. CASE ClientLost
  <2>1. running' \in [Targets -> Configs \cup {None}]
    BY <1>2 DEF ClientLost, Stop, StopTargets
  <2>2. reads' \in Seq(Hashes \cup {Asked})
    <3>1. CASE reads' = <<>>
      BY <3>1
    <3>2. CASE reads' = reads
      BY <3>2
    <3> QED
      BY <1>2, <3>1, <3>2 DEF ClientLost
  <2>3. /\ redisHash' = redisHash /\ keysetWatchers' = keysetWatchers
        /\ targetJSON' = targetJSON /\ nudges' = nudges /\ lastJSON' = None
    BY <1>2 DEF ClientLost, Stop
  <2> QED
    BY <2>1, <2>2, <2>3
<1>3. CASE TimerFires
  BY <1>3 DEF TimerFires, CheckReady
<1>4. CASE RedisReads
  BY <1>4 DEF RedisReads
<1>5. CASE HashReply
  <2> DEFINE h == Head(reads)
  <2>1. h \in Hashes /\ reads' \in Seq(Hashes \cup {Asked})
    BY <1>5 DEF HashReply
  <2>2. /\ targetJSON' \in [Targets -> Configs \cup {None, Unset}]
        /\ running' \in [Targets -> Configs \cup {None}]
        /\ lastJSON' \in Hashes \cup {None}
    <3>1. CASE Changed(h)
      BY <1>5, <2>1, <3>1, CheckKeysetsType DEF HashReply
    <3>2. CASE ~Changed(h)
      BY <1>5, <3>2 DEF HashReply
    <3> QED
      BY <3>1, <3>2
  <2> QED
    BY <1>5, <2>1, <2>2 DEF HashReply
<1>6. CASE Nudge
  BY <1>6 DEF Nudge, CheckReady
<1>7. ASSUME NEW t \in Targets, AddKeysetWatcher(t) PROVE DataOK'
  <2>1. CASE ~started
    BY <1>7, <2>1 DEF AddKeysetWatcher
  <2>2. CASE started
    <3>1. CheckKeysets({t}, lastJSON)
      BY <1>7, <2>2 DEF AddKeysetWatcher
    <3>2. /\ targetJSON' \in [Targets -> Configs \cup {None, Unset}]
          /\ running' \in [Targets -> Configs \cup {None}]
      BY <3>1, CheckKeysetsType
    <3>3. CASE ConfigOf(t, lastJSON) # None
      BY <1>7, <2>2, <3>2, <3>3 DEF AddKeysetWatcher
    <3>4. CASE ConfigOf(t, lastJSON) = None
      <4>1. CheckReady(0) /\ nudges' = nudges + 1
        BY <1>7, <2>2, <3>4 DEF AddKeysetWatcher
      <4>2. reads' \in Seq(Hashes \cup {Asked})
        BY <4>1 DEF CheckReady
      <4> QED
        BY <1>7, <3>2, <4>1, <4>2 DEF AddKeysetWatcher
    <3> QED
      BY <3>3, <3>4
  <2> QED
    BY <2>1, <2>2
<1>8. ASSUME NEW h \in Hashes, Write(h) PROVE DataOK'
  BY <1>8 DEF Write
<1>9. CASE UNCHANGED vars
  BY <1>9 DEF vars
<1> QED
  BY <1>1, <1>2, <1>3, <1>4, <1>5, <1>6, <1>7, <1>8, <1>9 DEF Next

\* The types hold always.
LEMMA TypeInvHolds == Spec => []TypeInv
<1>1. Init => FlagOK
  BY DEF Init, FlagOK
<1>2. Init => DataOK
  BY ConfigAssumption DEF Init, DataOK
<1>3. Init => TimerOK
  BY DEF Init, TimerOK
<1>4. TypeInv /\ [Next]_vars => TypeInv'
  BY FlagStep, TimerStep, DataStep DEF TypeInv
<1> QED
  BY <1>1, <1>2, <1>3, <1>4, PTL DEF Spec, TypeInv

\* Every variable keeps its type, whatever becomes of the client.
THEOREM TypeCorrect == Spec => []TypeOK
  BY TypeInvHolds, TypeParts, PTL DEF TypeInv

-----------------------------------------------------------------------------
(* Configurations: what a target runs with is what it was last checked with, *)
(* and what the last hash read asks for.                                     *)

TargetInv ==
  /\ \A t \in Targets : running[t] # None => running[t] = targetJSON[t]
  /\ \A t \in Targets \ keysetWatchers : running[t] = None
  /\ CurrentConfig

\* checkKeysetWatcher of targets that are, or become, known.
LEMMA CheckKeysetsInv ==
  ASSUME DataOK, TargetInv, NEW S, NEW h \in Hashes \cup {None}, CheckKeysets(S, h),
         S \subseteq keysetWatchers', keysetWatchers \subseteq keysetWatchers',
         keysetWatchers \subseteq S \/ lastJSON = h, lastJSON' = h
  PROVE  TargetInv'
<1> DEFINE changed == {t \in S : targetJSON[t] # ConfigOf(t, h)}
<1>1. /\ targetJSON' = [t \in Targets |-> IF t \in changed THEN ConfigOf(t, h) ELSE targetJSON[t]]
      /\ running'    = [t \in Targets |-> IF t \in changed THEN ConfigOf(t, h) ELSE running[t]]
  BY DEF CheckKeysets, TargetChanged
<1>2. \A t \in Targets : running'[t] # None => running'[t] = targetJSON'[t]
  BY <1>1 DEF TargetInv
<1>3. \A t \in Targets \ keysetWatchers' : running'[t] = None
  BY <1>1 DEF TargetInv
<1>4. ASSUME NEW t \in Targets, running'[t] # None
      PROVE  running'[t] = ConfigOf(t, h)
  <2>1. CASE t \in changed
    BY <1>1, <2>1
  <2>2. CASE t \in S \ changed
    BY <1>1, <1>4, <2>2 DEF TargetInv
  <2>3. CASE t \notin S
    <3>1. running[t] = running'[t] /\ running[t] # None
      BY <1>1, <1>4, <2>3
    <3>2. lastJSON = h
      BY <2>3, <3>1 DEF TargetInv
    <3> QED
      BY <3>1, <3>2 DEF TargetInv, CurrentConfig
  <2> QED
    BY <2>1, <2>2, <2>3
<1> QED
  BY <1>2, <1>3, <1>4 DEF TargetInv, CurrentConfig, ConfigOf

\* Steps that leave the targets and the last hash alone.
LEMMA TargetsUntouched ==
  TargetInv /\ UNCHANGED <<targetVars, lastJSON>> => TargetInv'
  BY DEF TargetInv, CurrentConfig, ConfigOf, targetVars

\* Every step keeps what runs as it was last checked.
LEMMA TargetStep == DataOK /\ TargetInv /\ [Next]_vars => TargetInv'
<1> SUFFICES ASSUME DataOK, TargetInv, [Next]_vars PROVE TargetInv'
  OBVIOUS
<1>1. CASE ClientLost
  <2>1. /\ running' = [t \in Targets |-> IF t \in keysetWatchers THEN None ELSE running[t]]
        /\ keysetWatchers' = keysetWatchers
    BY <1>1 DEF ClientLost, Stop, StopTargets
  <2>2. \A t \in Targets : running'[t] = None
    BY <2>1 DEF TargetInv
  <2> QED
    BY <2>1, <2>2 DEF TargetInv, CurrentConfig
<1>2. CASE HashReply
  <2> DEFINE h == Head(reads)
  <2>1. h \in Hashes /\ keysetWatchers' = keysetWatchers
    BY <1>2 DEF HashReply, DataOK
  <2>2. CASE Changed(h)
    <3>1. CheckKeysets(keysetWatchers, h) /\ lastJSON' = h
      BY <1>2, <2>2 DEF HashReply
    <3> QED
      BY <2>1, <3>1, CheckKeysetsInv
  <2>3. CASE ~Changed(h)
    <3>1. UNCHANGED <<targetVars, lastJSON>>
      BY <1>2, <2>3 DEF HashReply, targetVars
    <3> QED
      BY <3>1, TargetsUntouched
  <2> QED
    BY <2>2, <2>3
<1>3. ASSUME NEW t \in Targets, AddKeysetWatcher(t) PROVE TargetInv'
  <2>1. keysetWatchers' = keysetWatchers \cup {t} /\ lastJSON' = lastJSON
    BY <1>3 DEF AddKeysetWatcher
  <2>2. CASE ~started
    <3>1. UNCHANGED <<targetJSON, running>>
      BY <1>3, <2>2 DEF AddKeysetWatcher
    <3> QED
      BY <2>1, <3>1 DEF TargetInv, CurrentConfig, ConfigOf
  <2>3. CASE started
    <3>1. CheckKeysets({t}, lastJSON)
      BY <1>3, <2>3 DEF AddKeysetWatcher
    <3>2. lastJSON \in Hashes \cup {None}
      BY DEF DataOK
    <3> QED
      BY <2>1, <3>1, <3>2, CheckKeysetsInv
  <2> QED
    BY <2>2, <2>3
<1>4. CASE Start \/ TimerFires \/ RedisReads \/ Nudge \/ (\E h \in Hashes : Write(h))
  <2>1. UNCHANGED <<targetVars, lastJSON>>
    BY <1>4 DEF Start, TimerFires, RedisReads, Nudge, Write, watcherVars
  <2> QED
    BY <2>1, TargetsUntouched
<1>5. CASE UNCHANGED vars
  BY <1>5, TargetsUntouched DEF vars, watcherVars
<1> QED
  BY <1>1, <1>2, <1>3, <1>4, <1>5 DEF Next

\* No target runs with a configuration other than that of the last hash read,
\* over lost clients and over replies that arrive after a stop.
THEOREM CurrentConfigHolds == Spec => []CurrentConfig
<1>1. Init => TargetInv
  BY DEF Init, TargetInv, CurrentConfig
<1>2. TypeInv /\ TargetInv /\ [Next]_vars => TargetInv'
  BY TargetStep DEF TypeInv
<1> QED
  BY <1>1, <1>2, TypeInvHolds, PTL DEF Spec, TargetInv

-----------------------------------------------------------------------------
(* Polls: the one of the start is over when only those asked for remain. *)

PollInv ==
  /\ PollsBounded
  /\ ~started => timers + Len(reads) <= nudges
  /\ started /\ ~tracked /\ reads = <<>> => timers <= nudges

\* No step changes what an execution may meet.
LEMMA FaultsFixed == [Next]_vars => faults' = faults
  BY DEF Next, vars, Start, ClientLost, Stop, TimerFires, RedisReads, HashReply, Nudge,
         AddKeysetWatcher, Write

\* How a step moves the number of polls under way.
LEMMA PollStep ==
  ASSUME "quit" \notin faults, FlagOK, DataOK, TimerOK, PollInv, [Next]_vars
  PROVE  PollInv'
<1>1. /\ timers \in Nat /\ Len(reads) \in Nat /\ nudges \in Nat
      /\ reads = <<>> <=> Len(reads) = 0
      /\ Len(Append(reads, Asked)) = Len(reads) + 1
      /\ reads # <<>> => Len(Tail(reads)) = Len(reads) - 1
  BY DEF DataOK
<1> USE <1>1 DEF FlagOK, TimerOK, PollInv, PollsBounded, watcherVars, targetVars
<1>2. CASE Start
  BY <1>2 DEF Start
<1>3. CASE ClientLost
  <2>1. reads' = <<>> /\ Len(reads') = 0
    BY <1>3 DEF ClientLost
  <2> QED
    BY <1>3, <2>1 DEF ClientLost, Stop, ClearTimer
<1>4. CASE TimerFires
  BY <1>4 DEF TimerFires, CheckReady
<1>5. CASE RedisReads
  <2>1. Len(reads') = Len(reads)
    BY <1>5 DEF RedisReads, DataOK
  <2> QED
    BY <1>5, <2>1 DEF RedisReads
<1>6. CASE HashReply
  <2>1. Len(reads') = Len(reads) - 1
    BY <1>6 DEF HashReply
  <2> QED
    BY <1>6, <2>1 DEF HashReply, NoteReady
<1>7. CASE Nudge
  BY <1>7 DEF Nudge, CheckReady
<1>8. ASSUME NEW t \in Targets, AddKeysetWatcher(t) PROVE PollInv'
  BY <1>8 DEF AddKeysetWatcher, CheckReady
<1>9. ASSUME NEW h \in Hashes, Write(h) PROVE PollInv'
  BY <1>9 DEF Write
<1>10. CASE UNCHANGED vars
  BY <1>10 DEF vars
<1> QED
  BY <1>2, <1>3, <1>4, <1>5, <1>6, <1>7, <1>8, <1>9, <1>10 DEF Next

\* However often the client is lost and found, there is one poll, and one more
\* for each check that others asked for, unless stop() leaves replies to come.
THEOREM PollsBoundedHolds == Spec => []PollsBounded
<1> DEFINE Inv == "quit" \notin faults => PollInv
<1>1. Init => Inv
  BY DEF Init, PollInv, PollsBounded
<1>2. TypeInv /\ Inv /\ [Next]_vars => Inv'
  BY FaultsFixed, PollStep DEF TypeInv
<1>3. Inv => PollsBounded
  BY DEF PollInv, PollsBounded
<1> QED
  BY <1>1, <1>2, <1>3, TypeInvHolds, PTL DEF Spec

-----------------------------------------------------------------------------
(* Stops: nothing runs, and no reply is left that could start something. *)

StopInv == ~started => reads = <<>> /\ \A t \in Targets : running[t] = None

\* Every step keeps a stopped watcher without anything that runs.
LEMMA StopStep ==
  ASSUME "quit" \notin faults, FlagOK, TargetInv, StopInv, [Next]_vars
  PROVE  StopInv'
<1> USE DEF FlagOK, StopInv, watcherVars, targetVars
<1>1. CASE Start
  BY <1>1 DEF Start
<1>2. CASE ClientLost
  <2>1. reads' = <<>>
    BY <1>2 DEF ClientLost
  <2>2. running' = [t \in Targets |-> IF t \in keysetWatchers THEN None ELSE running[t]]
    BY <1>2 DEF ClientLost, Stop, StopTargets
  <2>3. \A t \in Targets : running'[t] = None
    BY <2>2 DEF TargetInv
  <2> QED
    BY <2>1, <2>3
<1>3. CASE TimerFires
  BY <1>3 DEF TimerFires, CheckReady
<1>4. CASE RedisReads
  <2>1. started
    BY <1>4 DEF RedisReads
  <2> QED
    BY <1>4, <2>1 DEF RedisReads
<1>5. CASE HashReply
  BY <1>5 DEF HashReply
<1>6. CASE Nudge
  BY <1>6 DEF Nudge, CheckReady
<1>7. ASSUME NEW t \in Targets, AddKeysetWatcher(t) PROVE StopInv'
  BY <1>7 DEF AddKeysetWatcher
<1>8. ASSUME NEW h \in Hashes, Write(h) PROVE StopInv'
  BY <1>8 DEF Write
<1>9. CASE UNCHANGED vars
  BY <1>9 DEF vars
<1> QED
  BY <1>1, <1>2, <1>3, <1>4, <1>5, <1>6, <1>7, <1>8, <1>9 DEF Next

\* Nothing is left running when the client fails, nor started by a check that
\* was under way, unless stop() leaves replies to come.
THEOREM StoppedStopsAllHolds == Spec => []StoppedStopsAll
<1> DEFINE Inv == "quit" \notin faults => StopInv
<1>1. Init => TargetInv /\ Inv
  BY DEF Init, TargetInv, CurrentConfig, StopInv
<1>2. TypeInv /\ TargetInv /\ Inv /\ [Next]_vars => TargetInv' /\ Inv'
  BY FaultsFixed, TargetStep, StopStep DEF TypeInv
<1>3. TypeInv /\ Inv => StoppedStopsAll
  BY DEF TypeInv, DataOK, StopInv, StoppedStopsAll
<1> QED
  BY <1>1, <1>2, <1>3, TypeInvHolds, PTL DEF Spec

-----------------------------------------------------------------------------
(* While the client stays, a target is stopped and started only by the check *)
(* that also notes its configuration.                                        *)

CheckedInv ==
  /\ \A t \in Targets : running[t] = IF targetJSON[t] = Unset THEN None ELSE targetJSON[t]
  /\ lastJSON # None => /\ started
                        /\ \A t \in keysetWatchers : targetJSON[t] = ConfigOf(t, lastJSON)

\* checkKeysetWatcher of one more target, or of all when the hash changed.
LEMMA CheckKeysetsAgree ==
  ASSUME DataOK, CheckedInv, started', NEW S, NEW h \in Hashes \cup {None}, CheckKeysets(S, h),
         S \subseteq keysetWatchers', keysetWatchers' \subseteq Targets,
         keysetWatchers' = S \/ (lastJSON = h /\ keysetWatchers' = keysetWatchers \cup S),
         lastJSON' = h
  PROVE  CheckedInv'
<1> DEFINE changed == {t \in S : targetJSON[t] # ConfigOf(t, h)}
<1>1. /\ targetJSON' = [t \in Targets |-> IF t \in changed THEN ConfigOf(t, h) ELSE targetJSON[t]]
      /\ running'    = [t \in Targets |-> IF t \in changed THEN ConfigOf(t, h) ELSE running[t]]
  BY DEF CheckKeysets, TargetChanged
<1>2. \A t \in Targets : ConfigOf(t, h) # Unset
  BY ConfigOfType, ConfigAssumption
<1>3. \A t \in Targets : running'[t] = IF targetJSON'[t] = Unset THEN None ELSE targetJSON'[t]
  BY <1>1, <1>2 DEF CheckedInv
<1>4. \A t \in S : targetJSON'[t] = ConfigOf(t, h)
  BY <1>1
<1>5. ASSUME h # None, NEW t \in keysetWatchers' PROVE targetJSON'[t] = ConfigOf(t, h)
  <2>1. CASE t \in S
    BY <1>4, <2>1
  <2>2. CASE t \notin S
    BY <1>1, <1>5, <2>2 DEF CheckedInv
  <2> QED
    BY <2>1, <2>2
<1> QED
  BY <1>3, <1>5 DEF CheckedInv, ConfigOf

\* Every step but a lost client keeps the targets as the hash last read.
LEMMA CheckedStep ==
  ASSUME faults = {}, DataOK, StopInv, CheckedInv, [Next]_vars
  PROVE  CheckedInv'
<1>1. CASE HashReply
  <2> DEFINE h == Head(reads)
  <2>1. h \in Hashes /\ started /\ started' = started /\ keysetWatchers' = keysetWatchers
    BY <1>1 DEF HashReply, DataOK, StopInv
  <2>2. CASE Changed(h)
    <3>1. CheckKeysets(keysetWatchers, h) /\ lastJSON' = h
      BY <1>1, <2>2 DEF HashReply
    <3> QED
      BY <2>1, <3>1, CheckKeysetsAgree DEF DataOK
  <2>3. CASE ~Changed(h)
    <3>1. UNCHANGED <<lastJSON, targetJSON, running>>
      BY <1>1, <2>3 DEF HashReply
    <3> QED
      BY <2>1, <3>1 DEF CheckedInv, ConfigOf
  <2> QED
    BY <2>2, <2>3
<1>2. ASSUME NEW t \in Targets, AddKeysetWatcher(t) PROVE CheckedInv'
  <2>1. /\ keysetWatchers' = keysetWatchers \cup {t}
        /\ lastJSON' = lastJSON /\ started' = started
    BY <1>2 DEF AddKeysetWatcher
  <2>2. CASE ~started
    <3>1. UNCHANGED <<targetJSON, running>> /\ lastJSON = None
      BY <1>2, <2>2 DEF AddKeysetWatcher, CheckedInv
    <3> QED
      BY <2>1, <3>1 DEF CheckedInv
  <2>3. CASE started
    <3>1. CheckKeysets({t}, lastJSON) /\ lastJSON \in Hashes \cup {None}
      BY <1>2, <2>3 DEF AddKeysetWatcher, DataOK
    <3>2. keysetWatchers' \subseteq Targets
      BY <2>1 DEF DataOK
    <3> QED
      BY <2>1, <2>3, <3>1, <3>2, CheckKeysetsAgree
  <2> QED
    BY <2>2, <2>3
<1>3. CASE ClientLost
  BY <1>3 DEF ClientLost
<1>4. CASE Start
  BY <1>4 DEF Start, targetVars, CheckedInv, ConfigOf
<1>5. CASE TimerFires \/ RedisReads \/ Nudge \/ (\E h \in Hashes : Write(h)) \/ UNCHANGED vars
  <2>1. UNCHANGED <<targetVars, lastJSON, started>>
    BY <1>5 DEF TimerFires, RedisReads, Nudge, Write, vars, watcherVars
  <2> QED
    BY <2>1 DEF CheckedInv, ConfigOf, targetVars
<1> QED
  BY <1>1, <1>2, <1>3, <1>4, <1>5 DEF Next

\* While the first client stays, every target runs with exactly the configuration
\* of the last hash read, or not at all if keys are missing in it.
THEOREM AgreeConnectedHolds == Spec => []AgreeConnected
<1> DEFINE Inv == /\ "quit" \notin faults => StopInv
                  /\ faults = {} => CheckedInv
<1>1. Init => TargetInv /\ Inv
  BY DEF Init, TargetInv, CurrentConfig, StopInv, CheckedInv
<1>2. TypeInv /\ TargetInv /\ Inv /\ [Next]_vars => TargetInv' /\ Inv'
  BY FaultsFixed, TargetStep, StopStep, CheckedStep DEF TypeInv
<1>3. TypeInv /\ Inv => AgreeConnected
  <2> SUFFICES ASSUME TypeInv, CheckedInv, started, lastJSON # None, NEW t \in keysetWatchers
               PROVE  running[t] = ConfigOf(t, lastJSON)
    BY DEF AgreeConnected, Agree
  <2>1. t \in Targets /\ lastJSON \in Hashes \cup {None}
    BY DEF TypeInv, DataOK
  <2>2. ConfigOf(t, lastJSON) # Unset
    BY <2>1, ConfigOfType, ConfigAssumption
  <2> QED
    BY <2>1, <2>2 DEF CheckedInv
<1> QED
  BY <1>1, <1>2, <1>3, TypeInvHolds, PTL DEF Spec

-----------------------------------------------------------------------------
(* The calls, by what they change *)

\* No settings are none.
LEMMA NoSettings ==
  /\ Absent \notin Gateways /\ Absent \notin Cellulars /\ Absent \notin Settings
  /\ Unchecked \notin Setting
  BY SupervisorAssumption, HashAssumption DEF Setting

\* What a watcher may be started with.
Fitting(w, c) == c \in IF Keyset[w] = "gateway" THEN Gateways ELSE Cellulars

\* Nothing but the watchers that run changes from s to t, and ports and commands under way.
SameButOn(s, t) ==
  /\ t \in System
  /\ t.hash = s.hash /\ t.config = s.config /\ t.json = s.json
  /\ t.ready = s.ready /\ t.made = s.made /\ t.latest = s.latest /\ t.threw = s.threw

\* The fields of a system.
LEMMA Fields ==
  ASSUME NEW s \in System
  PROVE  /\ s.hash \in Settings \cup {Absent} /\ s.config \in BOOLEAN
         /\ s.json \in [Watchers -> Setting \cup {Unchecked}] /\ s.on \in [Watchers -> Setting]
         /\ s.blind \in [Watchers -> BOOLEAN]
         /\ s.ready \in BOOLEAN /\ s.made \in BOOLEAN /\ s.latest \in Gateways \cup {Absent}
         /\ s.outputs \in [{"route", "psaux"} -> Nat]
         /\ s.port \in {"closed", "opening", "open"} /\ s.orphan \in BOOLEAN
         /\ s.threw \in BOOLEAN
  BY DEF System

\* The watcher has been started, which the gateway's settings outlive.
HasStarted(s, t, w, c) ==
  /\ t \in System /\ t.on = [s.on EXCEPT ![w] = c]
  /\ w # "gateway" => SameButOn(s, t)
  /\ w = "gateway" => SameButOn([s EXCEPT !.latest = c], t)

\* A watcher that does not run is started.
LEMMA StartDoes ==
  ASSUME NEW s \in System, NEW w \in Watchers, NEW c, Fitting(w, c), ~Started(s, w),
         NEW client \in BOOLEAN
  PROVE  HasStarted(s, StartWatcher(s, w, c, client), w, c)
<1>1. c \in Setting /\ (w = "gateway" => c \in Gateways)
  BY DEF Fitting, Keyset, Watchers, Setting
<1>b. PICK b \in BOOLEAN : b = (w \in Users /\ ~client)
  OBVIOUS
<1> DEFINE t == [s EXCEPT !.on[w] = c, !.blind[w] = b]
<1>2. /\ t \in System /\ t.on = [s.on EXCEPT ![w] = c] /\ SameButOn(s, t)
      /\ StartWatcher(s, w, c, client) = OnStart(t, w, c)
  <2>1. /\ s.on \in [Watchers -> Setting] /\ s.blind \in [Watchers -> BOOLEAN]
        /\ [s.on EXCEPT ![w] = c] \in [Watchers -> Setting]
        /\ [s.blind EXCEPT ![w] = b] \in [Watchers -> BOOLEAN]
    BY <1>1, Fields
  <2>2. t \in System /\ t.on = [s.on EXCEPT ![w] = c] /\ SameButOn(s, t)
    BY <2>1 DEF SameButOn, System
  <2>3. StartWatcher(s, w, c, client) = OnStart(t, w, c)
    <3>1. StartWatcher(s, w, c, client) =
            OnStart([s EXCEPT !.on[w] = c, !.blind[w] = w \in Users /\ ~client], w, c)
      BY Zenon DEF StartWatcher
    <3> QED
      BY <3>1, <1>b, Zenon
  <2> QED
    BY <2>2, <2>3
<1> HIDE DEF t
<1>3. CASE w = "gateway"
  <2>1. StartWatcher(s, w, c, client) = [t EXCEPT !.latest = c]
    BY <1>2, <1>3 DEF OnStart
  <2> QED
    BY <2>1, <1>1, <1>2, <1>3 DEF HasStarted, SameButOn, System
<1>4. CASE w = "pppd"
  <2>1. StartWatcher(s, w, c, client) = CheckRoutes(t)
    BY <1>2, <1>4 DEF OnStart
  <2> QED
    BY <2>1, <1>2, <1>4 DEF HasStarted, CheckRoutes, SameButOn, System
<1>5. CASE w = "modem"
  <2>1. StartWatcher(s, w, c, client) = [t EXCEPT !.port = "opening"]
    BY <1>2, <1>5 DEF OnStart
  <2> QED
    BY <2>1, <1>2, <1>5 DEF HasStarted, SameButOn, System
<1>6. CASE w = "heartbeat"
  <2>1. StartWatcher(s, w, c, client) = t
    BY <1>2, <1>6 DEF OnStart
  <2> QED
    BY <2>1, <1>2, <1>6 DEF HasStarted
<1> QED
  BY <1>3, <1>4, <1>5, <1>6 DEF Watchers

\* A watcher that runs is stopped.
LEMMA StopQuietlyDoes ==
  ASSUME NEW s \in System, NEW w \in Watchers, Started(s, w)
  PROVE  /\ SameButOn(s, StopQuietly(s, w))
         /\ StopQuietly(s, w).on = [s.on EXCEPT ![w] = Absent]
<1> DEFINE t == [s EXCEPT !.on[w] = Absent]
<1>1. t \in System /\ t.on = [s.on EXCEPT ![w] = Absent] /\ SameButOn(s, t)
  BY Fields DEF SameButOn, System, Setting
<1>2. StopQuietly(s, w) =
        IF w # "modem" THEN t
        ELSE [t EXCEPT !.orphan = @ \/ t.port = "opening", !.port = "closed"]
  BY DEF StopQuietly
<1> HIDE DEF t
<1>3. CASE w = "modem"
  <2>1. PICK o \in BOOLEAN : o = (t.orphan \/ t.port = "opening")
    OBVIOUS
  <2>2. StopQuietly(s, w) = [t EXCEPT !.orphan = o, !.port = "closed"]
    BY <1>2, <1>3, <2>1
  <2> QED
    BY <1>1, <2>2 DEF SameButOn, System
<1>4. CASE w # "modem"
  BY <1>1, <1>2, <1>4
<1> QED
  BY <1>3, <1>4

\* Modem or heartbeat are brought to run with the settings, or not to run.
LEMMA EnsureDoes ==
  ASSUME NEW s \in System, NEW w \in {"modem", "heartbeat"}, NEW c, c = Absent \/ Fitting(w, c)
  PROVE  /\ SameButOn(s, EnsureStartStop(s, w, c))
         /\ \A v \in Watchers \ {w} : EnsureStartStop(s, w, c).on[v] = s.on[v]
         /\ EnsureStartStop(s, w, c).on[w] =
              IF c # Absent /\ Started(s, w) THEN s.on[w] ELSE c
<1>1. w \in Watchers /\ w # "gateway"
  BY DEF Watchers
<1>2. c # Absent => Fitting(w, c)
  OBVIOUS
<1>3. CASE c # Absent /\ ~Started(s, w)
  <2>1. EnsureStartStop(s, w, c) = StartWatcher(s, w, c, HasClient)
    BY <1>3 DEF EnsureStartStop
  <2>2. /\ StartWatcher(s, w, c, HasClient).on = [s.on EXCEPT ![w] = c]
        /\ SameButOn(s, StartWatcher(s, w, c, HasClient))
    <3>1. PICK b \in BOOLEAN : b = HasClient
      <4>1. HasClient \in BOOLEAN
        BY DEF HasClient
      <4> QED
        BY <4>1
    <3>2. PICK e : e = StartWatcher(s, w, c, b)
      OBVIOUS
    <3>3. HasStarted(s, e, w, c)
      BY <3>2, <1>1, <1>2, <1>3, StartDoes
    <3>4. e.on = [s.on EXCEPT ![w] = c] /\ SameButOn(s, e)
      BY <3>3, <1>1 DEF HasStarted
    <3>5. StartWatcher(s, w, c, HasClient) = e
      BY <3>1, <3>2, Zenon
    <3> QED
      BY <3>4, <3>5
  <2>3. s.on \in [Watchers -> Setting]
    BY Fields
  <2> QED
    BY <1>1, <1>3, <2>1, <2>2, <2>3
<1>4. CASE c = Absent /\ Started(s, w)
  <2>1. EnsureStartStop(s, w, c) = StopQuietly(s, w)
    BY <1>4 DEF EnsureStartStop
  <2>2. /\ StopQuietly(s, w).on = [s.on EXCEPT ![w] = Absent]
        /\ SameButOn(s, StopQuietly(s, w))
    BY <1>1, <1>4, StopQuietlyDoes
  <2>3. s.on \in [Watchers -> Setting]
    BY Fields
  <2> QED
    BY <1>1, <1>4, <2>1, <2>2, <2>3
<1>5. CASE (c # Absent /\ Started(s, w)) \/ (c = Absent /\ ~Started(s, w))
  <2>1. EnsureStartStop(s, w, c) = s
    BY <1>5 DEF EnsureStartStop
  <2> QED
    BY <1>1, <1>5, <2>1 DEF SameButOn, Started
<1> QED
  BY <1>3, <1>4, <1>5

\* While there is no heartbeat none runs, and only a pppd that runs is ready.
Sound(s) == (s.made \/ ~Started(s, "heartbeat")) /\ (s.ready => Started(s, "pppd"))

\* pppd is not ready any more: modem and heartbeat do not run.
LEMMA NotReadyDoes ==
  ASSUME NEW s \in System, s.made \/ ~Started(s, "heartbeat")
  PROVE  /\ SameButOn(s, PppdReady(s, FALSE))
         /\ PppdReady(s, FALSE).on = [s.on EXCEPT !["modem"] = Absent, !["heartbeat"] = Absent]
<1>1. PICK m : m = EnsureStartStop(s, "modem", Absent)
  OBVIOUS
<1>2. /\ SameButOn(s, m) /\ m \in System /\ m.on["modem"] = Absent
      /\ \A v \in Watchers \ {"modem"} : m.on[v] = s.on[v]
  BY <1>1, EnsureDoes DEF SameButOn
<1>3. PppdReady(s, FALSE) = IF m.made THEN EnsureStartStop(m, "heartbeat", Absent) ELSE m
  BY <1>1 DEF PppdReady
<1>4. PICK t : t = PppdReady(s, FALSE)
  OBVIOUS
<1>5. /\ SameButOn(s, t) /\ t \in System /\ t.on["modem"] = Absent /\ t.on["heartbeat"] = Absent
      /\ \A v \in Watchers \ {"modem", "heartbeat"} : t.on[v] = s.on[v]
  <2>1. CASE m.made
    <3>1. PICK e : e = EnsureStartStop(m, "heartbeat", Absent)
      OBVIOUS
    <3>2. t = e
      BY <1>3, <1>4, <2>1, <3>1
    <3>3. /\ SameButOn(m, e) /\ e.on["heartbeat"] = Absent
          /\ \A v \in Watchers \ {"heartbeat"} : e.on[v] = m.on[v]
      BY <1>2, <3>1, EnsureDoes
    <3> QED
      BY <3>2, <3>3, <1>2 DEF SameButOn, Watchers
  <2>2. CASE ~m.made
    <3>1. t = m
      BY <1>3, <1>4, <2>2
    <3> QED
      BY <3>1, <2>2, <1>2 DEF SameButOn, Started, Watchers
  <2> QED
    BY <2>1, <2>2
<1>6. s.on \in [Watchers -> Setting] /\ t.on \in [Watchers -> Setting]
  BY <1>5, Fields
<1>7. t.on = [s.on EXCEPT !["modem"] = Absent, !["heartbeat"] = Absent]
  BY <1>5, <1>6 DEF Watchers
<1> QED
  BY <1>4, <1>5, <1>7

\* A watcher is stopped if it runs; with a pppd that was ready what depends on it.
LEMMA StopIfStartedDoes ==
  ASSUME NEW s \in System, NEW w \in Watchers, Sound(s)
  PROVE  /\ w # "pppd" => /\ SameButOn(s, StopIfStarted(s, w))
                          /\ StopIfStarted(s, w).on = [s.on EXCEPT ![w] = Absent]
         /\ w = "pppd" => /\ SameButOn([s EXCEPT !.ready = FALSE], StopIfStarted(s, w))
                          /\ StopIfStarted(s, w).on =
                               IF s.ready
                               THEN [s.on EXCEPT !["pppd"] = Absent, !["modem"] = Absent,
                                                 !["heartbeat"] = Absent]
                               ELSE [s.on EXCEPT !["pppd"] = Absent]
<1>1. CASE ~Started(s, w)
  <2>1. StopIfStarted(s, w) = s /\ s.on \in [Watchers -> Setting]
    BY <1>1, Fields DEF StopIfStarted
  <2>2. s.on = [s.on EXCEPT ![w] = Absent]
    BY <1>1, <2>1 DEF Started
  <2>3. w = "pppd" => s = [s EXCEPT !.ready = FALSE] /\ ~s.ready
    <3>1. w = "pppd" => s.ready = FALSE
      BY <1>1, Fields DEF Sound
    <3> QED
      BY <3>1 DEF System
  <2> QED
    BY <2>1, <2>2, <2>3 DEF SameButOn
<1>2. CASE Started(s, w)
  <2>1. PICK q : q = StopQuietly(s, w)
    OBVIOUS
  <2>2. SameButOn(s, q) /\ q \in System /\ q.on = [s.on EXCEPT ![w] = Absent]
    BY <1>2, <2>1, StopQuietlyDoes DEF SameButOn
  <2>3. StopIfStarted(s, w) =
          IF w = "pppd" /\ s.ready THEN PppdReady([q EXCEPT !.ready = FALSE], FALSE) ELSE q
    BY <1>2, <2>1 DEF StopIfStarted, StopWatcher
  <2>4. CASE w # "pppd"
    BY <2>2, <2>3, <2>4
  <2>5. CASE w = "pppd" /\ ~s.ready
    <3>1. s = [s EXCEPT !.ready = FALSE]
      <4>1. s.ready = FALSE
        BY <2>5, Fields
      <4> QED
        BY <4>1 DEF System
    <3> QED
      BY <3>1, <2>2, <2>3, <2>5
  <2>6. CASE w = "pppd" /\ s.ready
    <3>1. PICK r : r = [q EXCEPT !.ready = FALSE]
      OBVIOUS
    <3>2. /\ r \in System /\ SameButOn([s EXCEPT !.ready = FALSE], r) /\ r.on = q.on
          /\ r.made = s.made
      BY <3>1, <2>2 DEF SameButOn, System
    <3>3. r.made \/ ~Started(r, "heartbeat")
      <4>1. r.on["heartbeat"] = s.on["heartbeat"]
        BY <3>2, <2>2, <2>6, Fields DEF Watchers
      <4> QED
        BY <4>1, <3>2 DEF Sound, Started
    <3>4. PICK t : t = PppdReady(r, FALSE)
      OBVIOUS
    <3>5. SameButOn(r, t) /\ t.on = [r.on EXCEPT !["modem"] = Absent, !["heartbeat"] = Absent]
      BY <3>2, <3>3, <3>4, NotReadyDoes
    <3>6. SameButOn([s EXCEPT !.ready = FALSE], t)
      BY <3>2, <3>5 DEF SameButOn
    <3>7. t.on = [s.on EXCEPT !["pppd"] = Absent, !["modem"] = Absent, !["heartbeat"] = Absent]
      BY <3>5, <3>2, <2>2, <2>6
    <3>8. StopIfStarted(s, w) = t
      BY <2>3, <2>6, <3>1, <3>4
    <3> QED
      BY <2>6, <3>6, <3>7, <3>8
  <2> QED
    BY <2>4, <2>5, <2>6
<1> QED
  BY <1>1, <1>2

\* What a check of one keyset leads to: nothing, or its watcher runs with the settings c.
HasChecked(s, t, w, c) ==
  /\ c = s.json[w] => t = s
  /\ c # s.json[w] =>
       /\ t \in System /\ t.json = [s.json EXCEPT ![w] = c] /\ t.on[w] = c
       /\ t.hash = s.hash /\ t.config = s.config /\ t.made = s.made /\ t.threw = s.threw
       /\ t.latest = IF w = "gateway" /\ c # Absent THEN c ELSE s.latest
       /\ w # "pppd" => t.ready = s.ready /\ \A v \in Watchers \ {w} : t.on[v] = s.on[v]
       /\ w = "pppd" => /\ ~t.ready /\ t.on["gateway"] = s.on["gateway"]
                        /\ \A v \in {"modem", "heartbeat"} :
                             t.on[v] = IF s.ready THEN Absent ELSE s.on[v]

\* A keyset that has not changed is let alone; else its watcher is stopped, and started if
\* there are settings.
LEMMA CheckDoes ==
  ASSUME NEW s \in System, NEW w \in Watchers, Sound(s), s.hash \in Settings,
         NEW c, c = s.hash[Keyset[w]], NEW t, t = Check(s, w)
  PROVE  HasChecked(s, t, w, c)
<1>1. c = Absent \/ Fitting(w, c)
  BY DEF Settings, Fitting, Keyset, Watchers
<1>2. c \in Setting
  BY <1>1 DEF Fitting, Setting
<1>3. CASE c = s.json[w]
  BY <1>3 DEF Check, HasChecked
<1>4. CASE c # s.json[w]
  <2>1. PICK r : r = [s EXCEPT !.json[w] = c]
    OBVIOUS
  <2>2. /\ r \in System /\ r.json = [s.json EXCEPT ![w] = c] /\ r.on = s.on
        /\ r.hash = s.hash /\ r.config = s.config /\ r.ready = s.ready /\ r.made = s.made
        /\ r.latest = s.latest /\ r.threw = s.threw
    BY <2>1, <1>2, Fields DEF System
  <2>3. Sound(r)
    BY <2>2 DEF Sound, Started
  <2>4. PICK q : q = StopIfStarted(r, w)
    OBVIOUS
  <2>5. /\ q \in System /\ q.json = r.json /\ q.hash = s.hash /\ q.config = s.config
        /\ q.made = s.made /\ q.latest = s.latest /\ q.threw = s.threw /\ q.on[w] = Absent
        /\ w # "pppd" => q.ready = s.ready /\ \A v \in Watchers \ {w} : q.on[v] = s.on[v]
        /\ w = "pppd" =>
             /\ ~q.ready /\ q.on["gateway"] = s.on["gateway"]
             /\ \A v \in {"modem", "heartbeat"} :
                  q.on[v] = IF s.ready THEN Absent ELSE s.on[v]
    <3>1. s.on \in [Watchers -> Setting]
      BY Fields
    <3>2. CASE w # "pppd"
      <4>1. SameButOn(r, q) /\ q.on = [r.on EXCEPT ![w] = Absent]
        BY <2>2, <2>3, <2>4, <3>2, StopIfStartedDoes
      <4> QED
        BY <4>1, <3>1, <3>2, <2>2 DEF SameButOn
    <3>3. CASE w = "pppd"
      <4>1. /\ SameButOn([r EXCEPT !.ready = FALSE], q)
            /\ q.on = IF r.ready
                      THEN [r.on EXCEPT !["pppd"] = Absent, !["modem"] = Absent, !["heartbeat"] = Absent]
                      ELSE [r.on EXCEPT !["pppd"] = Absent]
        BY <2>2, <2>3, <2>4, <3>3, StopIfStartedDoes
      <4>2. PICK r2 : r2 = [r EXCEPT !.ready = FALSE]
        OBVIOUS
      <4>3. /\ r2.json = r.json /\ r2.hash = s.hash /\ r2.config = s.config /\ r2.ready = FALSE
            /\ r2.made = s.made /\ r2.latest = s.latest /\ r2.threw = s.threw
        BY <4>2, <2>2 DEF System
      <4>4. SameButOn(r2, q)
        BY <4>1, <4>2
      <4> QED
        BY <4>1, <4>3, <4>4, <3>1, <3>3, <2>2 DEF SameButOn, Watchers
    <3> QED
      BY <3>2, <3>3
  <2>6. t = IF c # Absent THEN StartWatcher(q, w, c, s.config) ELSE q
    BY <1>4, <2>1, <2>4 DEF Check
  <2>7. CASE c = Absent
    BY <2>2, <2>5, <2>6, <2>7, <1>4 DEF HasChecked
  <2>8. CASE c # Absent
    <3>1. t = StartWatcher(q, w, c, s.config) /\ ~Started(q, w) /\ Fitting(w, c)
      BY <2>5, <2>6, <2>8, <1>1 DEF Started
    <3>2. /\ t \in System /\ t.on = [q.on EXCEPT ![w] = c] /\ q.on \in [Watchers -> Setting]
          /\ w # "gateway" => SameButOn(q, t)
          /\ w = "gateway" => SameButOn([q EXCEPT !.latest = c], t)
      <4>1. PICK e : e = StartWatcher(q, w, c, s.config)
        OBVIOUS
      <4>2. /\ e \in System /\ e.on = [q.on EXCEPT ![w] = c]
            /\ w # "gateway" => SameButOn(q, e)
            /\ w = "gateway" => SameButOn([q EXCEPT !.latest = c], e)
        <5>1. s.config \in BOOLEAN
          BY Fields
        <5> QED
          BY <5>1, <4>1, <3>1, <2>5, StartDoes DEF HasStarted
      <4>3. t = e /\ q \in System
        BY <3>1, <4>1, <2>5
      <4>4. q.on \in [Watchers -> Setting]
        BY <4>3, Fields
      <4> QED
        BY <4>2, <4>3, <4>4
    <3>3. /\ t.hash = q.hash /\ t.config = q.config /\ t.made = q.made /\ t.threw = q.threw
          /\ t.json = q.json /\ t.ready = q.ready
          /\ t.latest = IF w = "gateway" THEN c ELSE q.latest
      <4>1. CASE w # "gateway"
        BY <4>1, <3>2 DEF SameButOn
      <4>2. CASE w = "gateway"
        <5>1. PICK q2 : q2 = [q EXCEPT !.latest = c]
          OBVIOUS
        <5>2. /\ q2.json = q.json /\ q2.hash = q.hash /\ q2.config = q.config /\ q2.ready = q.ready
              /\ q2.made = q.made /\ q2.latest = c /\ q2.threw = q.threw
          BY <5>1, <2>5 DEF System
        <5>3. SameButOn(q2, t)
          BY <5>1, <4>2, <3>2
        <5> QED
          BY <5>2, <5>3, <4>2 DEF SameButOn
      <4> QED
        BY <4>1, <4>2
    <3>4. t.on[w] = c /\ \A v \in Watchers \ {w} : t.on[v] = q.on[v]
      BY <3>2
    <3> QED
      BY <1>4, <2>2, <2>5, <2>8, <3>2, <3>3, <3>4 DEF Watchers, HasChecked
  <2> QED
    BY <2>7, <2>8
<1> QED
  BY <1>3, <1>4

-----------------------------------------------------------------------------
(* No watcher runs with a client that is null while there is a client *)

\* What is blind in t was so in s.
Sees(s, t) == \A w \in Watchers : Blind(t, w) => Blind(s, w)

\* A start with a client.
LEMMA StartSees ==
  ASSUME NEW s \in System, NEW w \in Watchers, NEW c, Fitting(w, c), ~Started(s, w)
  PROVE  Sees(s, StartWatcher(s, w, c, TRUE))
<1>1. c \in Setting /\ s.on \in [Watchers -> Setting] /\ s.blind \in [Watchers -> BOOLEAN]
  BY Fields DEF Fitting, Setting
<1>2. PICK t : t = [s EXCEPT !.on[w] = c, !.blind[w] = FALSE]
  OBVIOUS
<1>3. t.on = [s.on EXCEPT ![w] = c] /\ t.blind = [s.blind EXCEPT ![w] = FALSE] /\ t \in System
  BY <1>1, <1>2 DEF System
<1>4. PICK e : e = StartWatcher(s, w, c, TRUE)
  OBVIOUS
<1>5. e = OnStart(t, w, c)
  <2>1. e = OnStart([s EXCEPT !.on[w] = c, !.blind[w] = w \in Users /\ ~TRUE], w, c)
    BY <1>4, Zenon DEF StartWatcher
  <2>2. PICK b \in BOOLEAN : b = (w \in Users /\ ~TRUE)
    OBVIOUS
  <2>3. e = OnStart([s EXCEPT !.on[w] = c, !.blind[w] = b], w, c)
    BY <2>1, <2>2, Zenon
  <2>4. b = FALSE
    BY <2>2
  <2> QED
    BY <2>3, <2>4, <1>2
<1>6. e.on = t.on /\ e.blind = t.blind
  BY <1>3, <1>5 DEF OnStart, CheckRoutes, System
<1>7. \A v \in Watchers : Blind(e, v) => Blind(s, v)
  BY <1>1, <1>3, <1>6 DEF Blind, Started
<1> QED
  BY <1>4, <1>7 DEF Sees

\* A stop.
LEMMA StopQuietlySees ==
  ASSUME NEW s \in System, NEW w \in Watchers, Started(s, w)
  PROVE  Sees(s, StopQuietly(s, w))
<1>1. s.on \in [Watchers -> Setting] /\ s.blind \in [Watchers -> BOOLEAN] /\ Absent \in Setting
  BY Fields DEF Setting
<1>2. PICK t : t = [s EXCEPT !.on[w] = Absent]
  OBVIOUS
<1>3. t.on = [s.on EXCEPT ![w] = Absent] /\ t.blind = s.blind /\ t \in System
  BY <1>1, <1>2 DEF System
<1>4. PICK e : e = StopQuietly(s, w)
  OBVIOUS
<1>5. PICK o : o = (t.orphan \/ t.port = "opening")
  OBVIOUS
<1>6. e = IF w # "modem" THEN t ELSE [t EXCEPT !.orphan = o, !.port = "closed"]
  BY <1>2, <1>4, <1>5 DEF StopQuietly
<1>7. e.on = t.on /\ e.blind = t.blind
  BY <1>3, <1>6 DEF System
<1>8. \A v \in Watchers : Blind(e, v) => Blind(s, v)
  BY <1>1, <1>3, <1>7 DEF Blind, Started
<1> QED
  BY <1>4, <1>8 DEF Sees

\* Modem or heartbeat follow.
LEMMA EnsureSees ==
  ASSUME NEW s \in System, NEW w \in {"modem", "heartbeat"}, NEW c,
         c = Absent \/ (HasClient /\ Fitting(w, c))
  PROVE  Sees(s, EnsureStartStop(s, w, c))
<1>1. w \in Watchers
  BY DEF Watchers
<1>2. CASE c # Absent /\ ~Started(s, w)
  <2>1. EnsureStartStop(s, w, c) = StartWatcher(s, w, c, HasClient)
    BY <1>2 DEF EnsureStartStop
  <2>2. HasClient = TRUE
    BY <1>2 DEF HasClient
  <2>3. EnsureStartStop(s, w, c) = StartWatcher(s, w, c, TRUE)
    BY <2>1, <2>2, Zenon
  <2> QED
    BY <1>1, <1>2, <2>3, StartSees
<1>3. CASE c = Absent /\ Started(s, w)
  <2>1. EnsureStartStop(s, w, c) = StopQuietly(s, w)
    BY <1>3 DEF EnsureStartStop
  <2> QED
    BY <1>1, <1>3, <2>1, StopQuietlySees
<1>4. CASE (c # Absent /\ Started(s, w)) \/ (c = Absent /\ ~Started(s, w))
  <2>1. EnsureStartStop(s, w, c) = s
    BY <1>4 DEF EnsureStartStop
  <2> QED
    BY <2>1 DEF Sees
<1> QED
  BY <1>2, <1>3, <1>4

\* pppd is not ready any more.
LEMMA NotReadySees ==
  ASSUME NEW s \in System, s.made \/ ~Started(s, "heartbeat")
  PROVE  Sees(s, PppdReady(s, FALSE))
<1>1. PICK m : m = EnsureStartStop(s, "modem", Absent)
  OBVIOUS
<1>2. m \in System /\ Sees(s, m)
  BY <1>1, EnsureDoes, EnsureSees DEF SameButOn
<1>3. PppdReady(s, FALSE) = IF m.made THEN EnsureStartStop(m, "heartbeat", Absent) ELSE m
  BY <1>1 DEF PppdReady
<1>4. PICK e : e = EnsureStartStop(m, "heartbeat", Absent)
  OBVIOUS
<1>5. Sees(m, e)
  BY <1>2, <1>4, EnsureSees
<1>6. PppdReady(s, FALSE) = e \/ PppdReady(s, FALSE) = m
  BY <1>3, <1>4
<1>7. Sees(s, e)
  BY <1>2, <1>5 DEF Sees
<1> QED
  BY <1>2, <1>6, <1>7

\* A watcher is stopped, with what depends on it.
LEMMA StopIfStartedSees ==
  ASSUME NEW s \in System, NEW w \in Watchers, Sound(s)
  PROVE  Sees(s, StopIfStarted(s, w))
<1>1. CASE ~Started(s, w)
  BY <1>1 DEF StopIfStarted, Sees
<1>2. CASE Started(s, w)
  <2>1. PICK q : q = StopQuietly(s, w)
    OBVIOUS
  <2>2. /\ q \in System /\ Sees(s, q) /\ q.made = s.made
        /\ q.on = [s.on EXCEPT ![w] = Absent]
    BY <1>2, <2>1, StopQuietlyDoes, StopQuietlySees DEF SameButOn
  <2>3. PICK r : r = [q EXCEPT !.ready = FALSE]
    OBVIOUS
  <2>4. r \in System /\ r.on = q.on /\ r.blind = q.blind /\ r.made = s.made
    BY <2>2, <2>3 DEF System
  <2>5. r.made \/ ~Started(r, "heartbeat")
    <3>1. s.on \in [Watchers -> Setting]
      BY Fields
    <3>2. r.on["heartbeat"] = s.on["heartbeat"] \/ r.on["heartbeat"] = Absent
      BY <3>1, <2>2, <2>4 DEF Watchers
    <3> QED
      BY <3>2, <2>4 DEF Sound, Started
  <2>6. PICK e : e = PppdReady(r, FALSE)
    OBVIOUS
  <2>7. Sees(r, e)
    BY <2>4, <2>5, <2>6, NotReadySees
  <2>8. Sees(s, e)
    BY <2>2, <2>4, <2>7 DEF Sees, Blind, Started
  <2>9. StopIfStarted(s, w) = IF w = "pppd" /\ s.ready THEN e ELSE q
    BY <1>2, <2>1, <2>3, <2>6 DEF StopIfStarted, StopWatcher
  <2> QED
    BY <2>2, <2>8, <2>9
<1> QED
  BY <1>1, <1>2

\* A keyset is checked by a configuration watcher that has a client.
LEMMA CheckSees ==
  ASSUME NEW s \in System, NEW w \in Watchers, Sound(s), s.hash \in Settings, s.config
  PROVE  Sees(s, Check(s, w))
<1>1. PICK c : c = s.hash[Keyset[w]]
  OBVIOUS
<1>2. c = Absent \/ Fitting(w, c)
  BY <1>1 DEF Settings, Fitting, Keyset, Watchers
<1>3. c \in Setting
  BY <1>2 DEF Fitting, Setting
<1>4. PICK r : r = [s EXCEPT !.json[w] = c]
  OBVIOUS
<1>5. /\ r \in System /\ r.on = s.on /\ r.blind = s.blind /\ r.made = s.made /\ r.ready = s.ready
  BY <1>3, <1>4, Fields DEF System
<1>6. Sound(r)
  BY <1>5 DEF Sound, Started
<1>7. PICK q : q = StopIfStarted(r, w)
  OBVIOUS
<1>8. q \in System /\ q.on[w] = Absent
  <2>1. r.on \in [Watchers -> Setting]
    BY <1>5, Fields
  <2>2. CASE w # "pppd"
    <3>1. SameButOn(r, q) /\ q.on = [r.on EXCEPT ![w] = Absent]
      BY <1>5, <1>6, <1>7, <2>2, StopIfStartedDoes
    <3> QED
      BY <2>1, <3>1 DEF SameButOn
  <2>3. CASE w = "pppd"
    <3>1. /\ SameButOn([r EXCEPT !.ready = FALSE], q)
          /\ q.on = IF r.ready
                    THEN [r.on EXCEPT !["pppd"] = Absent, !["modem"] = Absent, !["heartbeat"] = Absent]
                    ELSE [r.on EXCEPT !["pppd"] = Absent]
      BY <1>5, <1>6, <1>7, <2>3, StopIfStartedDoes
    <3> QED
      BY <2>1, <2>3, <3>1 DEF SameButOn
  <2> QED
    BY <2>2, <2>3
<1>9. Sees(s, q)
  <2>1. Sees(r, q)
    BY <1>5, <1>6, <1>7, StopIfStartedSees
  <2> QED
    BY <2>1, <1>5 DEF Sees, Blind, Started
<1>10. PICK e : e = StartWatcher(q, w, c, TRUE)
  OBVIOUS
<1>11. c # Absent => Sees(q, e)
  BY <1>2, <1>8, <1>10, StartSees DEF Started
<1>12. s.config = TRUE
  BY Fields
<1>13. Check(s, w) = IF c = s.json[w] THEN s ELSE IF c # Absent THEN StartWatcher(q, w, c, s.config) ELSE q
  BY <1>1, <1>4, <1>7 DEF Check
<1>14. Check(s, w) = s \/ (c # Absent /\ Check(s, w) = e) \/ Check(s, w) = q
  BY <1>10, <1>12, <1>13
<1>15. Sees(s, s) /\ (c # Absent => Sees(s, e))
  BY <1>9, <1>11 DEF Sees
<1> QED
  BY <1>9, <1>14, <1>15

-----------------------------------------------------------------------------
(* What runs fits together *)

\* Nothing runs before the configuration was read; while pppd is ready, modem and
\* heartbeat follow it.
Running(s) ==
  /\ s.hash = Absent => \A w \in Watchers : ~Started(s, w)
  /\ s.ready => s.made /\ Started(s, "pppd") /\ Started(s, "modem")
  /\ s.ready /\ Started(s, "gateway") => Started(s, "heartbeat")
  /\ s.made \/ ~Started(s, "heartbeat")

\* A watcher that runs does so with what its keyset was last checked with, which is what the
\* hash says once it was read; the heartbeat with what the gateway had last.  A heartbeat
\* that was added while the configuration was not watched is checked with the next hash.
Remembered(s) ==
  /\ s.hash # Absent => \A w \in Watchers \ {"heartbeat"} : s.json[w] = s.hash[Keyset[w]]
  /\ s.json["modem"] = s.json["pppd"]
  /\ \A w \in Watchers \ {"heartbeat"} : s.json[w] # Unchecked
  /\ s.json["heartbeat"] \in IF s.made THEN {s.json["gateway"], Unchecked} ELSE {Absent}
  /\ \A w \in Watchers \ {"heartbeat"} : Started(s, w) => s.on[w] = s.json[w]
  /\ Started(s, "heartbeat") => s.on["heartbeat"] = s.latest
  /\ s.json["gateway"] # Absent => s.latest = s.json["gateway"]

\* While nothing is stopped and no setting is removed, a gateway that once ran runs.
Lasting(s) ==
  /\ s.latest # Absent => s.json["gateway"] # Absent
  /\ s.json["gateway"] # Absent => Started(s, "gateway") /\ stored.gateway # Absent

Steady == supFaults \cap {"blip", "quit", "unset"} = {}

\* What a change of what runs may leave alone of what the gateway is.
SameGateway(s, t) ==
  /\ t.threw = s.threw /\ t.latest = s.latest /\ t.hash = s.hash /\ t.config = s.config
  /\ t.json["gateway"] = s.json["gateway"] /\ t.on["gateway"] = s.on["gateway"]

\* What has changed when a heartbeat was made, for a gateway with settings c.
HeartbeatAdded(s, t, c) ==
  /\ t \in System /\ t.made /\ t.hash = s.hash /\ t.config = s.config /\ t.ready = s.ready
  /\ t.latest = s.latest /\ t.threw = s.threw
  /\ \A v \in Watchers \ {"heartbeat"} : t.json[v] = s.json[v] /\ t.on[v] = s.on[v]
  /\ t.json["heartbeat"] = IF s.config THEN c ELSE Unchecked
  /\ t.on["heartbeat"] = IF s.config THEN c ELSE Absent

KeptBy(s, t) == t \in System /\ Running(t) /\ Remembered(t) /\ SameGateway(s, t)

\* The state of pppd becomes b.
NowReady(s, t, b) ==
  /\ t \in System /\ t.ready = b /\ t.on = s.on /\ t.json = s.json /\ t.hash = s.hash
  /\ t.config = s.config /\ t.made = s.made /\ t.latest = s.latest /\ t.threw = s.threw

\* A heartbeat is made, and started at once if the hash has settings of the gateway.
LEMMA AddHeartbeatDoes ==
  ASSUME NEW s \in System, ~s.made, ~Started(s, "heartbeat"), s.hash \in Settings,
         NEW c, c = s.hash["gateway"], NEW t, t = AddHeartbeat(s)
  PROVE  HeartbeatAdded(s, t, c)
<1>1. c \in Gateways \cup {Absent} /\ s.hash # Absent
  BY NoSettings DEF Settings
<1>2. /\ s.on \in [Watchers -> Setting] /\ s.json \in [Watchers -> Setting \cup {Unchecked}]
      /\ s.config \in BOOLEAN /\ "heartbeat" \in Watchers
  BY Fields DEF Watchers
<1>3. PICK j \in Setting \cup {Unchecked} : j = IF s.config THEN c ELSE Unchecked
  BY <1>1 DEF Setting
<1>4. PICK r : r = [s EXCEPT !.made = TRUE, !.json["heartbeat"] = j]
  OBVIOUS
<1>5. /\ r \in System /\ r.made /\ r.on = s.on /\ r.hash = s.hash
      /\ r.json = [s.json EXCEPT !["heartbeat"] = j]
      /\ r.config = s.config /\ r.ready = s.ready /\ r.latest = s.latest /\ r.threw = s.threw
  BY <1>2, <1>4 DEF System
<1>6. t = IF s.config /\ c # Absent THEN StartWatcher(r, "heartbeat", c, TRUE) ELSE r
  <2>1. t = LET d == IF s.hash = Absent THEN Absent ELSE s.hash["gateway"]
                u == [s EXCEPT !.made = TRUE,
                               !.json["heartbeat"] = IF s.config THEN d ELSE Unchecked]
            IN  IF s.config /\ d # Absent THEN StartWatcher(u, "heartbeat", d, TRUE) ELSE u
    BY DEF AddHeartbeat
  <2>2. c = IF s.hash = Absent THEN Absent ELSE s.hash["gateway"]
    BY <1>1
  <2> QED
    BY <2>1, <2>2, <1>3, <1>4
<1>7. CASE ~(s.config /\ c # Absent)
  <2>1. t = r /\ s.on["heartbeat"] = Absent
    BY <1>6, <1>7 DEF Started
  <2> QED
    BY <2>1, <1>2, <1>3, <1>5, <1>7 DEF HeartbeatAdded
<1>8. CASE s.config /\ c # Absent
  <2>1. PICK w \in Watchers : w = "heartbeat"
    BY <1>2
  <2>2. Fitting(w, c) /\ ~Started(r, w) /\ w # "gateway"
    BY <1>1, <1>5, <1>8, <2>1, NoSettings DEF Fitting, Keyset, Started
  <2>3. PICK e : e = StartWatcher(r, w, c, TRUE)
    OBVIOUS
  <2>4. e.on = [r.on EXCEPT ![w] = c] /\ SameButOn(r, e)
    <3>1. HasStarted(r, e, w, c)
      BY <1>5, <2>2, <2>3, StartDoes
    <3> QED
      BY <3>1, <2>2 DEF HasStarted
  <2>5. t = e
    BY <1>6, <1>8, <2>1, <2>3
  <2>6. /\ t \in System /\ t.hash = r.hash /\ t.config = r.config /\ t.json = r.json
        /\ t.ready = r.ready /\ t.made = r.made /\ t.latest = r.latest /\ t.threw = r.threw
    BY <2>4, <2>5 DEF SameButOn
  <2>7. t.on = [s.on EXCEPT !["heartbeat"] = c]
    BY <1>5, <2>1, <2>4, <2>5
  <2>8. /\ \A v \in Watchers \ {"heartbeat"} : t.json[v] = s.json[v] /\ t.on[v] = s.on[v]
        /\ t.json["heartbeat"] = c /\ t.on["heartbeat"] = c
    BY <1>2, <1>3, <1>5, <1>8, <2>6, <2>7
  <2> QED
    BY <1>5, <1>8, <2>6, <2>8 DEF HeartbeatAdded
<1> QED
  BY <1>7, <1>8

\* pppd is ready: modem and heartbeat run as it and the gateway do.
LEMMA BecomesReady ==
  ASSUME NEW s \in System, Running(s), Remembered(s), Started(s, "pppd"),
         NEW r, NowReady(s, r, TRUE)
  PROVE  KeptBy(s, PppdReady(r, TRUE))
<1>1. /\ s.hash \in Settings /\ s.config \in BOOLEAN /\ s.on \in [Watchers -> Setting]
      /\ s.json \in [Watchers -> Setting \cup {Unchecked}] /\ s.latest \in Gateways \cup {Absent}
  BY Fields DEF Running, Watchers
<1>2. /\ r \in System /\ r.ready /\ r.on = s.on /\ r.json = s.json /\ r.hash = s.hash
      /\ r.config = s.config /\ r.made = s.made /\ r.latest = s.latest /\ r.threw = s.threw
  BY DEF NowReady
<1>3. /\ s.on["pppd"] \in Cellulars /\ s.on["pppd"] # Absent
      /\ s.json["gateway"] = s.hash["gateway"]
  <2>1. /\ s.hash # Absent /\ Keyset["pppd"] = "cellular" /\ Keyset["gateway"] = "gateway"
        /\ "pppd" \in Watchers \ {"heartbeat"} /\ "gateway" \in Watchers \ {"heartbeat"}
    BY <1>1, NoSettings DEF Keyset, Watchers
  <2>2. s.on["pppd"] = s.hash["cellular"] /\ s.on["pppd"] # Absent
    BY <2>1 DEF Remembered, Started
  <2>3. s.json["gateway"] = s.hash["gateway"]
    BY <2>1 DEF Remembered
  <2>4. s.hash["cellular"] \in Cellulars \cup {Absent}
    BY <1>1 DEF Settings
  <2> QED
    BY <2>2, <2>3, <2>4
<1>4. PICK t : t = PppdReady(r, TRUE)
  OBVIOUS
<1>5. PICK h : h = IF ~r.made THEN AddHeartbeat(r) ELSE r
  OBVIOUS
<1>6. /\ h \in System /\ h.made /\ h.ready /\ h.hash = s.hash /\ h.config = s.config
      /\ h.latest = s.latest /\ h.threw = s.threw
      /\ \A v \in Watchers \ {"heartbeat"} : h.json[v] = s.json[v] /\ h.on[v] = s.on[v]
      /\ h.json["heartbeat"] \in {s.json["gateway"], Unchecked}
      /\ Started(h, "heartbeat") => h.on["heartbeat"] = s.latest
  <2>1. CASE s.made
    BY <1>2, <1>5, <2>1 DEF Remembered, Started
  <2>2. CASE ~s.made
    <3>1. PICK a : a = AddHeartbeat(r)
      OBVIOUS
    <3>2. PICK c : c = r.hash["gateway"]
      OBVIOUS
    <3>3. ~Started(r, "heartbeat") /\ ~r.made
      BY <1>2, <2>2 DEF Running, Started
    <3>4. /\ a \in System /\ a.made /\ a.hash = r.hash /\ a.config = r.config /\ a.ready = r.ready
          /\ a.latest = r.latest /\ a.threw = r.threw
          /\ \A v \in Watchers \ {"heartbeat"} : a.json[v] = r.json[v] /\ a.on[v] = r.on[v]
          /\ a.json["heartbeat"] = IF r.config THEN c ELSE Unchecked
          /\ a.on["heartbeat"] = IF r.config THEN c ELSE Absent
      <4>1. r \in System /\ r.hash \in Settings
        BY <1>1, <1>2
      <4>2. HeartbeatAdded(r, a, c)
        BY <4>1, <3>1, <3>2, <3>3, AddHeartbeatDoes
      <4> QED
        BY <4>2 DEF HeartbeatAdded
    <3>6. c = s.json["gateway"] /\ (c # Absent => c = s.latest)
      BY <1>2, <1>3, <3>2 DEF Remembered
    <3>7. h = a
      BY <1>5, <3>1, <3>3
    <3>8. /\ h \in System /\ h.made /\ h.ready /\ h.hash = s.hash /\ h.config = s.config
          /\ h.latest = s.latest /\ h.threw = s.threw
          /\ \A v \in Watchers \ {"heartbeat"} : h.json[v] = s.json[v] /\ h.on[v] = s.on[v]
      BY <1>2, <3>4, <3>7
    <3>9. /\ h.json["heartbeat"] \in {s.json["gateway"], Unchecked}
          /\ h.on["heartbeat"] # Absent => h.on["heartbeat"] = s.latest
      BY <1>2, <3>4, <3>6, <3>7
    <3> QED
      BY <3>8, <3>9 DEF Started
  <2> QED
    BY <2>1, <2>2
<1>7. PICK m : m = EnsureStartStop(h, "modem", s.on["pppd"])
  OBVIOUS
<1>8. /\ SameButOn(h, m) /\ m \in System
      /\ \A v \in Watchers \ {"modem"} : m.on[v] = h.on[v]
      /\ m.on["modem"] = IF Started(h, "modem") THEN h.on["modem"] ELSE s.on["pppd"]
  <2>1. PICK c : c = s.on["pppd"]
    OBVIOUS
  <2>2. c # Absent /\ Fitting("modem", c)
    BY <1>3, <2>1 DEF Fitting, Keyset
  <2>3. /\ SameButOn(h, EnsureStartStop(h, "modem", c))
        /\ \A v \in Watchers \ {"modem"} : EnsureStartStop(h, "modem", c).on[v] = h.on[v]
        /\ EnsureStartStop(h, "modem", c).on["modem"] =
             IF c # Absent /\ Started(h, "modem") THEN h.on["modem"] ELSE c
    BY <1>6, <2>2, EnsureDoes
  <2> QED
    BY <1>7, <2>1, <2>2, <2>3 DEF SameButOn
<1>9. PICK e : e = EnsureStartStop(m, "heartbeat", s.latest)
  OBVIOUS
<1>10. /\ SameButOn(m, e)
       /\ \A v \in Watchers \ {"heartbeat"} : e.on[v] = m.on[v]
  <2>1. PICK c : c = s.latest
    OBVIOUS
  <2>2. c = Absent \/ Fitting("heartbeat", c)
    BY <1>1, <2>1 DEF Fitting, Keyset
  <2> QED
    BY <1>8, <1>9, <2>1, <2>2, EnsureDoes
<1>11. e.on["heartbeat"] =
         IF s.latest # Absent /\ Started(m, "heartbeat") THEN m.on["heartbeat"] ELSE s.latest
  <2>1. PICK c : c = s.latest
    OBVIOUS
  <2>2. c = Absent \/ Fitting("heartbeat", c)
    BY <1>1, <2>1 DEF Fitting, Keyset
  <2>3. EnsureStartStop(m, "heartbeat", c).on["heartbeat"] =
          IF c # Absent /\ Started(m, "heartbeat") THEN m.on["heartbeat"] ELSE c
    BY <1>8, <2>2, EnsureDoes
  <2> QED
    BY <1>9, <2>1, <2>3
<1>12. t = e
  <2>1. m.made
    BY <1>6, <1>8 DEF SameButOn
  <2>2. PppdReady(r, TRUE) = EnsureStartStop(m, "heartbeat", s.latest)
    BY <1>2, <1>5, <1>7, <2>1 DEF PppdReady
  <2> QED
    BY <1>9, <1>4, <2>2
<1>13. /\ t \in System /\ t.made /\ t.ready /\ t.hash = s.hash /\ t.config = s.config
       /\ t.latest = s.latest /\ t.threw = s.threw
       /\ \A v \in Watchers \ {"heartbeat"} : t.json[v] = s.json[v]
       /\ t.json["heartbeat"] \in {s.json["gateway"], Unchecked}
  BY <1>6, <1>8, <1>10, <1>12 DEF SameButOn
<1>14. /\ t.on["gateway"] = s.on["gateway"] /\ t.on["pppd"] = s.on["pppd"]
       /\ t.on["modem"] = IF Started(s, "modem") THEN s.on["modem"] ELSE s.on["pppd"]
       /\ t.on["heartbeat"] = s.latest
  <2>1. /\ "gateway" \in Watchers \ {"modem"} /\ "pppd" \in Watchers \ {"modem"}
        /\ "heartbeat" \in Watchers \ {"modem"} /\ "gateway" \in Watchers \ {"heartbeat"}
        /\ "pppd" \in Watchers \ {"heartbeat"} /\ "modem" \in Watchers \ {"heartbeat"}
    BY DEF Watchers
  <2>2. /\ t.on["gateway"] = s.on["gateway"] /\ t.on["pppd"] = s.on["pppd"]
        /\ t.on["modem"] = m.on["modem"] /\ h.on["modem"] = s.on["modem"]
        /\ m.on["heartbeat"] = h.on["heartbeat"]
    BY <2>1, <1>6, <1>8, <1>10, <1>12
  <2>3. t.on["modem"] = IF Started(s, "modem") THEN s.on["modem"] ELSE s.on["pppd"]
    BY <2>2, <1>8 DEF Started
  <2>4. t.on["heartbeat"] = s.latest
    <3>1. Started(m, "heartbeat") => m.on["heartbeat"] = s.latest
      BY <2>2, <1>6 DEF Started
    <3> QED
      BY <3>1, <1>11, <1>12
  <2> QED
    BY <2>2, <2>3, <2>4
<1>15. Remembered(t)
  <2>1. /\ "gateway" \in Watchers \ {"heartbeat"} /\ "pppd" \in Watchers \ {"heartbeat"}
        /\ "modem" \in Watchers \ {"heartbeat"}
        /\ \A w \in Watchers \ {"heartbeat"} : w \in {"gateway", "pppd", "modem"}
    BY DEF Watchers
  <2>2. /\ t.json["gateway"] = s.json["gateway"] /\ t.json["modem"] = t.json["pppd"]
        /\ t.hash # Absent => \A w \in Watchers \ {"heartbeat"} : t.json[w] = t.hash[Keyset[w]]
        /\ \A w \in Watchers \ {"heartbeat"} : t.json[w] # Unchecked
    BY <2>1, <1>13 DEF Remembered
  <2>3. \A w \in {"gateway", "pppd", "modem"} : Started(t, w) => t.on[w] = t.json[w]
    BY <2>1, <1>13, <1>14 DEF Remembered, Started
  <2> QED
    BY <2>1, <2>2, <2>3, <1>13, <1>14 DEF Remembered, Started
<1>16. Running(t)
  <2>1. t.hash # Absent /\ Started(t, "pppd") /\ Started(t, "modem")
    BY <1>1, <1>3, <1>13, <1>14, NoSettings DEF Started
  <2>2. Started(t, "gateway") => Started(t, "heartbeat")
    BY <1>14, <1>13 DEF Remembered, Started, Watchers
  <2> QED
    BY <1>13, <2>1, <2>2 DEF Running
<1> QED
  BY <1>13, <1>14, <1>15, <1>16, <1>4 DEF SameGateway, Watchers, KeptBy

\* pppd is not ready: modem and heartbeat are stopped.
LEMMA BecomesUnready ==
  ASSUME NEW s \in System, Running(s), Remembered(s), NEW r, NowReady(s, r, FALSE)
  PROVE  KeptBy(s, PppdReady(r, FALSE))
<1>1. PICK t : t = PppdReady(r, FALSE)
  OBVIOUS
<1>2. /\ r \in System /\ r.ready = FALSE /\ r.on = s.on /\ r.json = s.json /\ r.hash = s.hash
      /\ r.config = s.config /\ r.made = s.made /\ r.latest = s.latest /\ r.threw = s.threw
      /\ s.on \in [Watchers -> Setting]
  BY Fields DEF NowReady
<1>3. /\ SameButOn(r, t)
      /\ t.on = [s.on EXCEPT !["modem"] = Absent, !["heartbeat"] = Absent]
  <2>1. r.made \/ ~Started(r, "heartbeat")
    BY <1>2 DEF Running, Started
  <2> QED
    BY <1>2, <1>1, <2>1, NotReadyDoes
<1>4. /\ t \in System /\ t.ready = FALSE /\ t.json = s.json /\ t.hash = s.hash
      /\ t.config = s.config /\ t.made = s.made /\ t.latest = s.latest /\ t.threw = s.threw
  BY <1>2, <1>3 DEF SameButOn
<1>5. /\ t.on["gateway"] = s.on["gateway"] /\ t.on["pppd"] = s.on["pppd"]
      /\ t.on["modem"] = Absent /\ t.on["heartbeat"] = Absent
  BY <1>2, <1>3 DEF Watchers
<1>6. Running(t)
  BY <1>4, <1>5 DEF Running, Started, Watchers
<1>7. Remembered(t)
  <2>1. \A w \in Watchers \ {"heartbeat"} : w \in {"gateway", "pppd", "modem"}
    BY DEF Watchers
  <2>2. \A w \in Watchers \ {"heartbeat"} : Started(t, w) => t.on[w] = t.json[w]
    BY <2>1, <1>4, <1>5 DEF Remembered, Started
  <2> QED
    BY <2>2, <1>4, <1>5 DEF Remembered, Started
<1> QED
  BY <1>4, <1>5, <1>6, <1>7, <1>1 DEF SameGateway, KeptBy

\* What pppd notes keeps what runs together.
LEMMA NoteReadyKeeps ==
  ASSUME NEW s \in System, Running(s), Remembered(s), NEW b \in BOOLEAN
  PROVE  KeptBy(s, NotePppdReady(s, b))
<1>1. CASE ~Started(s, "pppd") \/ s.ready = b
  BY <1>1 DEF NotePppdReady, SameGateway, KeptBy
<1>2. CASE Started(s, "pppd") /\ s.ready # b
  <2>1. PICK r : r = [s EXCEPT !.ready = b]
    OBVIOUS
  <2>2. NotePppdReady(s, b) = PppdReady(r, b)
    BY <1>2, <2>1 DEF NotePppdReady
  <2>3. NowReady(s, r, b)
    BY <2>1 DEF NowReady, System
  <2>4. CASE b = TRUE
    BY <1>2, <2>2, <2>4, <2>3, BecomesReady
  <2>5. CASE b = FALSE
    BY <2>2, <2>5, <2>3, BecomesUnready
  <2> QED
    BY <2>4, <2>5
<1> QED
  BY <1>1, <1>2

\* What pppd runs with, the modem may run with.
LEMMA PppdFits ==
  ASSUME NEW s \in System, Running(s), Remembered(s), Started(s, "pppd")
  PROVE  Fitting("modem", s.on["pppd"]) /\ s.on["pppd"] # Absent
<1>1. /\ s.hash \in Settings /\ Keyset["pppd"] = "cellular" /\ "pppd" \in Watchers \ {"heartbeat"}
      /\ s.hash # Absent
  BY Fields, NoSettings DEF Running, Watchers, Keyset
<1>2. s.on["pppd"] = s.hash["cellular"] /\ s.on["pppd"] # Absent
  BY <1>1 DEF Remembered, Started
<1>3. s.hash["cellular"] \in Cellulars \cup {Absent}
  BY <1>1 DEF Settings
<1> QED
  BY <1>2, <1>3 DEF Fitting, Keyset

\* A heartbeat that is added while the configuration is watched is given a client.
LEMMA MadeSees ==
  ASSUME NEW s \in System, Running(s), s.config, Started(s, "pppd"),
         NEW r \in System, r.on = s.on, r.made = s.made, r.hash = s.hash, r.config = s.config,
         r.latest = s.latest,
         NEW h, h = IF ~r.made THEN AddHeartbeat(r) ELSE r
  PROVE  h \in System /\ Sees(r, h) /\ h.latest = r.latest /\ h.on["pppd"] = r.on["pppd"]
<1>1. CASE r.made
  BY <1>1 DEF Sees
<1>2. CASE ~r.made
  <2>1. /\ r.hash \in Settings /\ r.hash # Absent /\ ~Started(r, "heartbeat") /\ r.config = TRUE
        /\ r.json \in [Watchers -> Setting \cup {Unchecked}]
    BY <1>2, Fields, NoSettings DEF Running, Started, Watchers
  <2>2. PICK c \in Gateways \cup {Absent} : c = r.hash["gateway"]
    BY <2>1 DEF Settings
  <2>3. PICK a : a = AddHeartbeat(r)
    OBVIOUS
  <2>4. HeartbeatAdded(r, a, c)
    BY <1>2, <2>1, <2>2, <2>3, AddHeartbeatDoes
  <2>5. PICK u : u = [r EXCEPT !.made = TRUE, !.json["heartbeat"] = c]
    OBVIOUS
  <2>6. u \in System /\ u.on = r.on /\ u.blind = r.blind
    BY <2>1, <2>2, <2>5 DEF System, Setting
  <2>7. a = IF c # Absent THEN StartWatcher(u, "heartbeat", c, TRUE) ELSE u
    <3>1. a = LET d == IF r.hash = Absent THEN Absent ELSE r.hash["gateway"]
                  v == [r EXCEPT !.made = TRUE,
                                 !.json["heartbeat"] = IF r.config THEN d ELSE Unchecked]
              IN  IF r.config /\ d # Absent THEN StartWatcher(v, "heartbeat", d, TRUE) ELSE v
      BY <2>3 DEF AddHeartbeat
    <3>2. c = IF r.hash = Absent THEN Absent ELSE r.hash["gateway"]
      BY <2>1, <2>2
    <3>3. c = IF r.config THEN c ELSE Unchecked
      BY <2>1
    <3> QED
      BY <3>1, <3>2, <3>3, <2>1, <2>5
  <2>8. PICK e : e = StartWatcher(u, "heartbeat", c, TRUE)
    OBVIOUS
  <2>9. c # Absent => Sees(u, e)
    <3>1. c # Absent => Fitting("heartbeat", c)
      BY <2>2 DEF Fitting, Keyset
    <3>2. "heartbeat" \in Watchers /\ ~Started(u, "heartbeat")
      BY <2>1, <2>6 DEF Started, Watchers
    <3> QED
      BY <3>1, <3>2, <2>6, <2>8, StartSees
  <2>10. Sees(u, a)
    BY <2>7, <2>8, <2>9 DEF Sees
  <2>11. Sees(r, a)
    BY <2>6, <2>10 DEF Sees, Blind, Started
  <2> QED
    BY <1>2, <2>3, <2>4, <2>11 DEF HeartbeatAdded, Watchers
<1> QED
  BY <1>1, <1>2

\* A pppd that gets ready, or stops to be, makes nothing blind.
LEMMA NoteReadySees ==
  ASSUME NEW s \in System, Running(s), Remembered(s), NEW b \in BOOLEAN, HasClient, s.config
  PROVE  Sees(s, NotePppdReady(s, b))
<1>1. CASE ~Started(s, "pppd") \/ s.ready = b
  BY <1>1 DEF NotePppdReady, Sees
<1>2. CASE Started(s, "pppd") /\ s.ready # b
  <2>1. PICK r : r = [s EXCEPT !.ready = b]
    OBVIOUS
  <2>2. PICK t : t = PppdReady(r, b)
    OBVIOUS
  <2>3. NotePppdReady(s, b) = t
    BY <1>2, <2>1, <2>2 DEF NotePppdReady
  <2>4. /\ r \in System /\ r.on = s.on /\ r.blind = s.blind /\ r.made = s.made /\ r.hash = s.hash
        /\ r.config = s.config /\ r.latest = s.latest
    BY <2>1 DEF System
  <2>5. CASE b = FALSE
    <3>1. r.made \/ ~Started(r, "heartbeat")
      BY <2>4 DEF Running, Started
    <3>2. t = PppdReady(r, FALSE)
      BY <2>2, <2>5
    <3>3. Sees(r, t)
      BY <3>1, <3>2, <2>4, NotReadySees
    <3> QED
      BY <3>3, <2>3, <2>4 DEF Sees, Blind, Started
  <2>6. CASE b = TRUE
    <3>1. PICK h : h = IF ~r.made THEN AddHeartbeat(r) ELSE r
      OBVIOUS
    <3>2. h \in System /\ Sees(r, h) /\ h.latest = s.latest
      BY <1>2, <2>4, <3>1, MadeSees
    <3>3. PICK c : c = r.on["pppd"]
      OBVIOUS
    <3>4. Fitting("modem", c) /\ c # Absent
      BY <1>2, <2>4, <3>3, PppdFits
    <3>5. h.on["pppd"] = c
      BY <1>2, <2>4, <3>1, <3>3, MadeSees
    <3>6. PICK m : m = EnsureStartStop(h, "modem", c)
      OBVIOUS
    <3>7. m \in System /\ Sees(h, m) /\ m.latest = s.latest
      BY <3>2, <3>4, <3>6, EnsureDoes, EnsureSees DEF SameButOn
    <3>8. PICK g : g = s.latest
      OBVIOUS
    <3>9. g = Absent \/ Fitting("heartbeat", g)
      BY <3>8, Fields DEF Fitting, Keyset
    <3>10. PICK e : e = EnsureStartStop(m, "heartbeat", g)
      OBVIOUS
    <3>11. Sees(m, e)
      BY <3>7, <3>9, <3>10, EnsureSees
    <3>12. t = e \/ t = m
      <4>1. t = PppdReady(r, TRUE)
        BY <2>2, <2>6
      <4>2. PppdReady(r, TRUE) = IF m.made THEN EnsureStartStop(m, "heartbeat", g) ELSE m
        BY <2>4, <3>1, <3>3, <3>6, <3>8 DEF PppdReady
      <4> QED
        BY <4>1, <4>2, <3>10
    <3>13. Sees(r, m) /\ Sees(r, e)
      BY <3>2, <3>7, <3>11 DEF Sees
    <3> QED
      BY <2>3, <2>4, <3>12, <3>13 DEF Sees, Blind, Started
  <2> QED
    BY <2>3, <2>5, <2>6
<1> QED
  BY <1>1, <1>2

\* The same watcher by watcher.
Turned(s, t, w, c) ==
  /\ t \in System /\ t.hash = s.hash /\ t.config = s.config /\ t.made = s.made /\ t.threw = s.threw
  /\ t.latest = IF w = "gateway" /\ c # s.json[w] /\ c # Absent THEN c ELSE s.latest
  /\ t.ready <=> s.ready /\ (w # "pppd" \/ c = s.json[w])
  /\ \A v \in Watchers : t.json[v] = IF v = w THEN c ELSE s.json[v]
  /\ \A v \in Watchers : t.on[v] =
       IF c = s.json[w] THEN s.on[v]
       ELSE IF v = w THEN c
       ELSE IF w = "pppd" /\ v \in {"modem", "heartbeat"} /\ s.ready THEN Absent ELSE s.on[v]

\* Every case of a check ends in the same relation.
LEMMA CheckedTurned ==
  ASSUME NEW s \in System, NEW t, NEW w \in Watchers, NEW c, HasChecked(s, t, w, c)
  PROVE  Turned(s, t, w, c)
<1>1. s.json \in [Watchers -> Setting \cup {Unchecked}] /\ s.on \in [Watchers -> Setting] /\ s.ready \in BOOLEAN
  BY Fields
<1>2. CASE c = s.json[w]
  <2>1. t = s
    BY <1>2 DEF HasChecked
  <2> QED
    BY <2>1, <1>1, <1>2 DEF Turned
<1>3. CASE c # s.json[w]
  <2>1. /\ t \in System /\ t.json = [s.json EXCEPT ![w] = c] /\ t.on[w] = c
        /\ t.hash = s.hash /\ t.config = s.config /\ t.made = s.made /\ t.threw = s.threw
        /\ t.latest = IF w = "gateway" /\ c # Absent THEN c ELSE s.latest
    BY <1>3 DEF HasChecked
  <2>2. CASE w # "pppd"
    <3>1. t.ready = s.ready /\ \A v \in Watchers \ {w} : t.on[v] = s.on[v]
      BY <1>3, <2>2 DEF HasChecked
    <3> QED
      BY <1>1, <1>3, <2>1, <2>2, <3>1 DEF Turned
  <2>3. CASE w = "pppd"
    <3>1. /\ ~t.ready /\ t.on["gateway"] = s.on["gateway"]
          /\ \A v \in {"modem", "heartbeat"} : t.on[v] = IF s.ready THEN Absent ELSE s.on[v]
      BY <1>3, <2>3 DEF HasChecked
    <3>2. \A v \in Watchers : v = w \/ v = "gateway" \/ v \in {"modem", "heartbeat"}
      BY <2>3 DEF Watchers
    <3> QED
      BY <1>1, <1>3, <2>1, <2>3, <3>1, <3>2 DEF Turned
  <2> QED
    BY <2>2, <2>3
<1> QED
  BY <1>2, <1>3

\* What runs fits together again, and the gateway has its settings g.
Reconfigured(s, t, g) ==
  /\ t \in System /\ Running(t) /\ Remembered(t) /\ t.threw = s.threw
  /\ t.config = s.config /\ t.hash # Absent /\ t.json["gateway"] = g
  /\ t.on["gateway"] = IF g = s.json["gateway"] THEN s.on["gateway"] ELSE g
  /\ t.latest = IF g # s.json["gateway"] /\ g # Absent THEN g ELSE s.latest

\* The keysets are checked in turn: pppd before the modem and the gateway before the
\* heartbeat, so what follows another watcher is checked after it.
LEMMA ConfigKeeps ==
  ASSUME NEW s \in System, Running(s), Remembered(s), NEW h \in Settings,
         NEW s0, s0 \in System, s0.hash = h, s0.config = s.config, s0.json = s.json, s0.on = s.on,
         s0.ready = s.ready, s0.made = s.made, s0.latest = s.latest, s0.threw = s.threw,
         NEW s1, HasChecked(s0, s1, "gateway", h["gateway"]),
         NEW s2, HasChecked(s1, s2, "pppd", h["cellular"]),
         NEW s3, HasChecked(s2, s3, "modem", h["cellular"]),
         NEW t, s3.made => HasChecked(s3, t, "heartbeat", h["gateway"]), ~s3.made => t = s3
  PROVE  Reconfigured(s, t, h["gateway"])
<1>1. PICK g : g = h["gateway"]
  OBVIOUS
<1>2. PICK c : c = h["cellular"]
  OBVIOUS
<1>3. /\ s.on \in [Watchers -> Setting] /\ s.json \in [Watchers -> Setting \cup {Unchecked}]
      /\ \A v \in Watchers : v \in {"gateway", "pppd", "modem", "heartbeat"}
      /\ {"gateway", "pppd", "modem", "heartbeat"} \subseteq Watchers
      /\ s.json["modem"] = s.json["pppd"]
      /\ s.json["heartbeat"] \in IF s.made THEN {s.json["gateway"], Unchecked} ELSE {Absent}
  BY Fields DEF Watchers, Remembered
<1>4. /\ s1 \in System /\ s1.hash = h /\ s1.config = s.config /\ s1.made = s.made /\ s1.threw = s.threw
      /\ (s1.ready <=> s.ready) /\ s1.json["gateway"] = g
      /\ \A v \in {"pppd", "modem", "heartbeat"} : s1.json[v] = s.json[v] /\ s1.on[v] = s.on[v]
      /\ s1.on["gateway"] = IF g = s.json["gateway"] THEN s.on["gateway"] ELSE g
      /\ s1.latest = IF g # s.json["gateway"] /\ g # Absent THEN g ELSE s.latest
  <2>1. Turned(s0, s1, "gateway", g)
    BY <1>1, <1>3, CheckedTurned
  <2> QED
    BY <2>1, <1>3 DEF Turned
<1>5. /\ s2 \in System /\ s2.hash = h /\ s2.config = s.config /\ s2.made = s.made /\ s2.threw = s.threw
      /\ (s2.ready <=> s.ready /\ c = s.json["pppd"]) /\ s2.latest = s1.latest
      /\ s2.json["gateway"] = g /\ s2.json["pppd"] = c
      /\ \A v \in {"modem", "heartbeat"} : s2.json[v] = s.json[v]
      /\ s2.on["gateway"] = s1.on["gateway"]
      /\ s2.on["pppd"] = IF c = s.json["pppd"] THEN s.on["pppd"] ELSE c
      /\ \A v \in {"modem", "heartbeat"} :
           s2.on[v] = IF c # s.json["pppd"] /\ s.ready THEN Absent ELSE s.on[v]
  <2>1. Turned(s1, s2, "pppd", c)
    BY <1>2, <1>3, <1>4, CheckedTurned
  <2> QED
    BY <2>1, <1>3, <1>4 DEF Turned
<1>6. /\ s3 \in System /\ s3.hash = h /\ s3.config = s.config /\ s3.made = s.made /\ s3.threw = s.threw
      /\ (s3.ready <=> s2.ready) /\ s3.latest = s1.latest
      /\ s3.json["gateway"] = g /\ s3.json["pppd"] = c /\ s3.json["modem"] = c
      /\ s3.json["heartbeat"] = s.json["heartbeat"]
      /\ \A v \in {"gateway", "pppd", "heartbeat"} : s3.on[v] = s2.on[v]
      /\ s3.on["modem"] = IF c = s.json["pppd"] THEN s.on["modem"] ELSE c
  <2>1. Turned(s2, s3, "modem", c)
    BY <1>2, <1>3, <1>5, CheckedTurned
  <2> QED
    BY <2>1, <1>3, <1>5 DEF Turned
<1>7. /\ t \in System /\ t.hash = h /\ t.config = s.config /\ t.made = s.made /\ t.threw = s.threw
      /\ (t.ready <=> s2.ready) /\ t.latest = s1.latest
      /\ t.json["gateway"] = g /\ t.json["pppd"] = c /\ t.json["modem"] = c
      /\ t.json["heartbeat"] = IF s.made THEN g ELSE Absent
      /\ \A v \in {"gateway", "pppd", "modem"} : t.on[v] = s3.on[v]
      /\ t.on["heartbeat"] = IF s.made /\ g # s.json["heartbeat"] THEN g ELSE s3.on["heartbeat"]
  <2>1. CASE ~s.made
    BY <1>3, <1>6, <2>1
  <2>2. CASE s.made
    <3>1. Turned(s3, t, "heartbeat", g)
      BY <1>1, <1>3, <1>6, <2>2, CheckedTurned
    <3> QED
      BY <3>1, <1>3, <1>6, <2>2 DEF Turned
  <2> QED
    BY <2>1, <2>2
<1>8. /\ t.on["gateway"] = IF g = s.json["gateway"] THEN s.on["gateway"] ELSE g
      /\ t.on["pppd"] = IF c = s.json["pppd"] THEN s.on["pppd"] ELSE c
      /\ t.on["modem"] = IF c = s.json["pppd"] THEN s.on["modem"] ELSE c
      /\ t.on["heartbeat"] = IF s.made /\ g # s.json["heartbeat"] THEN g
                             ELSE IF c # s.json["pppd"] /\ s.ready THEN Absent ELSE s.on["heartbeat"]
  BY <1>4, <1>5, <1>6, <1>7
<1>9. g # Unchecked /\ c # Unchecked
  BY <1>1, <1>2, NoSettings DEF Settings, Setting
<1>10. Remembered(t)
  <2>1. \A w \in Watchers \ {"heartbeat"} : t.json[w] = t.hash[Keyset[w]]
    BY <1>1, <1>2, <1>3, <1>7 DEF Keyset
  <2>2. \A w \in Watchers \ {"heartbeat"} : Started(t, w) => t.on[w] = t.json[w]
    BY <1>3, <1>7, <1>8 DEF Remembered, Started
  <2>3. s.json["gateway"] # Absent => s.latest = s.json["gateway"]
    BY DEF Remembered
  <2>4. t.json["gateway"] # Absent => t.latest = t.json["gateway"]
    BY <1>4, <1>7, <2>3
  <2>5. Started(t, "heartbeat") => t.on["heartbeat"] = t.latest
    <3>1. s.on["heartbeat"] # Absent => s.made /\ s.on["heartbeat"] = s.latest
      BY Fields DEF Running, Remembered, Started
    <3> QED
      BY <3>1, <2>4, <1>3, <1>4, <1>7, <1>8, <1>9 DEF Started
  <2>6. \A w \in Watchers \ {"heartbeat"} : t.json[w] # Unchecked
    <3>1. \A w \in Watchers \ {"heartbeat"} : w \in {"gateway", "pppd", "modem"}
      BY <1>3
    <3> QED
      BY <3>1, <1>7, <1>9
  <2> QED
    BY <1>7, <2>1, <2>2, <2>4, <2>5, <2>6 DEF Remembered
<1>11. Running(t)
  <2>1. t.hash # Absent
    BY <1>7, NoSettings
  <2>2. /\ s.ready => s.made /\ s.on["pppd"] # Absent /\ s.on["modem"] # Absent
        /\ s.ready /\ s.on["gateway"] # Absent => s.on["heartbeat"] # Absent
        /\ s.made \/ s.on["heartbeat"] = Absent
    BY <1>3 DEF Running, Started
  <2>3. s.on["gateway"] # Absent => s.on["gateway"] = s.json["gateway"]
    BY <1>3 DEF Remembered, Started
  <2>4. t.ready => /\ t.made /\ t.on["pppd"] # Absent /\ t.on["modem"] # Absent
                   /\ t.on["gateway"] # Absent => t.on["heartbeat"] # Absent
    BY <2>2, <2>3, <1>3, <1>5, <1>7, <1>8, <1>9
  <2>5. t.made \/ t.on["heartbeat"] = Absent
    BY <2>2, <1>7, <1>8
  <2> QED
    BY <1>7, <2>1, <2>4, <2>5 DEF Running, Started
<1>12. t.hash # Absent
  BY <1>7, NoSettings
<1> QED
  BY <1>1, <1>4, <1>7, <1>8, <1>10, <1>11, <1>12 DEF Reconfigured

\* A check of another keyset leaves it so that while there is no heartbeat none runs, and
\* that only a pppd that runs is ready.
LEMMA TurnedSound ==
  ASSUME NEW s, Sound(s), NEW t, NEW w \in Watchers \ {"heartbeat"}, NEW c, Turned(s, t, w, c)
  PROVE  Sound(t)
<1>1. {"pppd", "heartbeat"} \subseteq Watchers
  BY DEF Watchers
<1>2. (s.made \/ s.on["heartbeat"] = Absent) /\ (s.ready => s.on["pppd"] # Absent)
  BY DEF Sound, Started
<1>3. t.made \/ t.on["heartbeat"] = Absent
  BY <1>1, <1>2 DEF Turned
<1>4. t.ready => t.on["pppd"] # Absent
  BY <1>1, <1>2 DEF Turned
<1> QED
  BY <1>3, <1>4 DEF Sound, Started

\* A new hash leaves what runs fitting.
LEMMA ConfigReplyKeeps ==
  ASSUME SupervisorTypeOK, Running(sup), Remembered(sup), ConfigReply
  PROVE  /\ sup' \in System /\ Running(sup') /\ Remembered(sup') /\ sup'.threw = sup.threw
         /\ Lasting(sup) => Lasting(sup)'
         /\ sup'.config = sup.config /\ (sup.config => Sees(sup, sup'))
<1>1. stored \in Settings /\ sup \in System /\ stored' = stored
  BY DEF SupervisorTypeOK, ConfigReply
<1>2. PICK s0 : s0 = [sup EXCEPT !.hash = stored]
  OBVIOUS
<1>3. /\ s0 \in System /\ s0.hash = stored /\ s0.config = sup.config /\ s0.json = sup.json /\ s0.on = sup.on
      /\ s0.ready = sup.ready /\ s0.made = sup.made /\ s0.latest = sup.latest /\ s0.threw = sup.threw
      /\ s0.blind = sup.blind
  BY <1>1, <1>2 DEF System
<1>4. Sound(s0)
  BY <1>3 DEF Running, Sound, Started
<1>5. /\ Keyset["gateway"] = "gateway" /\ Keyset["heartbeat"] = "gateway"
      /\ Keyset["pppd"] = "cellular" /\ Keyset["modem"] = "cellular"
      /\ {"gateway", "pppd", "modem"} \subseteq Watchers \ {"heartbeat"}
      /\ "heartbeat" \in Watchers
  BY DEF Keyset, Watchers
<1>6. PICK s1 : s1 = Check(s0, "gateway")
  OBVIOUS
<1>7. HasChecked(s0, s1, "gateway", stored["gateway"])
  BY <1>1, <1>3, <1>4, <1>5, <1>6, CheckDoes
<1>8. s1 \in System /\ s1.hash = stored /\ s1.config = sup.config /\ Sound(s1)
  <2>1. Turned(s0, s1, "gateway", stored["gateway"])
    BY <1>3, <1>5, <1>7, CheckedTurned
  <2>2. s1 \in System /\ s1.hash = stored /\ s1.config = sup.config
    BY <2>1, <1>3 DEF Turned
  <2> QED
    BY <2>1, <2>2, <1>4, <1>5, TurnedSound
<1>9. PICK s2 : s2 = Check(s1, "pppd")
  OBVIOUS
<1>10. HasChecked(s1, s2, "pppd", stored["cellular"])
  BY <1>1, <1>5, <1>8, <1>9, CheckDoes
<1>11. s2 \in System /\ s2.hash = stored /\ s2.config = sup.config /\ Sound(s2)
  <2>1. Turned(s1, s2, "pppd", stored["cellular"])
    BY <1>5, <1>8, <1>10, CheckedTurned
  <2>2. s2 \in System /\ s2.hash = stored /\ s2.config = sup.config
    BY <2>1, <1>8 DEF Turned
  <2> QED
    BY <2>1, <2>2, <1>5, <1>8, TurnedSound
<1>12. PICK s3 : s3 = Check(s2, "modem")
  OBVIOUS
<1>13. HasChecked(s2, s3, "modem", stored["cellular"])
  BY <1>1, <1>5, <1>11, <1>12, CheckDoes
<1>14. s3 \in System /\ s3.hash = stored /\ s3.config = sup.config /\ Sound(s3)
  <2>1. Turned(s2, s3, "modem", stored["cellular"])
    BY <1>5, <1>11, <1>13, CheckedTurned
  <2>2. s3 \in System /\ s3.hash = stored /\ s3.config = sup.config
    BY <2>1, <1>11 DEF Turned
  <2> QED
    BY <2>1, <2>2, <1>5, <1>11, TurnedSound
<1>15. PICK t : t = sup'
  OBVIOUS
<1>16. t = IF s3.made THEN Check(s3, "heartbeat") ELSE s3
  BY <1>2, <1>6, <1>9, <1>12, <1>15 DEF ConfigReply, CheckAll
<1>17. s3.made => HasChecked(s3, t, "heartbeat", stored["gateway"])
  BY <1>1, <1>5, <1>14, <1>16, CheckDoes
<1>18. ~s3.made => t = s3
  BY <1>16
<1>19. Reconfigured(sup, t, stored["gateway"])
  BY <1>1, <1>3, <1>7, <1>10, <1>13, <1>17, <1>18, ConfigKeeps
<1>20. Lasting(sup) => Lasting(t)'
  <2> SUFFICES ASSUME Lasting(sup) PROVE Lasting(t)'
    OBVIOUS
  <2>1. /\ sup.latest # Absent => sup.json["gateway"] # Absent
        /\ sup.json["gateway"] # Absent => sup.on["gateway"] # Absent /\ stored["gateway"] # Absent
    BY DEF Lasting, Started
  <2>2. PICK g : g = stored["gateway"]
    OBVIOUS
  <2>3. /\ t.json["gateway"] = g
        /\ t.on["gateway"] = IF g = sup.json["gateway"] THEN sup.on["gateway"] ELSE g
        /\ t.latest = IF g # sup.json["gateway"] /\ g # Absent THEN g ELSE sup.latest
    BY <1>19, <2>2 DEF Reconfigured
  <2>4. /\ t.latest # Absent => t.json["gateway"] # Absent
        /\ t.json["gateway"] # Absent => t.on["gateway"] # Absent /\ g # Absent
    BY <2>1, <2>2, <2>3
  <2>5. stored'["gateway"] = g
    BY <1>1, <2>2
  <2> QED
    BY <2>4, <2>5 DEF Lasting, Started
<1>21. ASSUME sup.config PROVE Sees(sup, t)
  <2>1. Sees(s0, s1) /\ Sees(s1, s2) /\ Sees(s2, s3)
    BY <1>21, <1>1, <1>3, <1>4, <1>5, <1>6, <1>8, <1>9, <1>11, <1>12, CheckSees
  <2>2. Sees(s3, t)
    <3>1. s3.made => Sees(s3, t)
      BY <1>21, <1>1, <1>5, <1>14, <1>16, CheckSees
    <3>2. Sees(s3, s3)
      BY DEF Sees
    <3> QED
      BY <3>1, <3>2, <1>18
  <2>3. Sees(sup, s0)
    BY <1>3 DEF Sees, Blind, Started
  <2> QED
    BY <2>1, <2>2, <2>3 DEF Sees
<1> QED
  BY <1>15, <1>19, <1>20, <1>21 DEF Reconfigured, Lasting

\* The configuration is gone: nothing runs.
HasStopped(s, t, w) ==
  /\ t \in System /\ t.hash = s.hash /\ t.config = s.config /\ t.json = s.json
  /\ t.made = s.made /\ t.latest = s.latest /\ t.threw = s.threw
  /\ t.ready <=> s.ready /\ w # "pppd"
  /\ \A v \in Watchers : t.on[v] = IF v = w \/ (w = "pppd" /\ s.ready /\ v \in {"modem", "heartbeat"})
                                   THEN Absent ELSE s.on[v]

\* What is started is stopped, and what is not is let alone.
LEMMA StopIfStartedHas ==
  ASSUME NEW s \in System, NEW w \in Watchers, Sound(s)
  PROVE  HasStopped(s, StopIfStarted(s, w), w) /\ Sound(StopIfStarted(s, w))
<1>1. PICK t : t = StopIfStarted(s, w)
  OBVIOUS
<1>2. s.on \in [Watchers -> Setting] /\ s.ready \in BOOLEAN
  BY Fields
<1>3. HasStopped(s, t, w) => Sound(t)
  <2>1. {"pppd", "heartbeat"} \subseteq Watchers
    BY DEF Watchers
  <2>2. (s.made \/ s.on["heartbeat"] = Absent) /\ (s.ready => s.on["pppd"] # Absent)
    BY DEF Sound, Started
  <2> QED
    BY <2>1, <2>2 DEF HasStopped, Sound, Started
<1>4. CASE w # "pppd"
  <2>1. SameButOn(s, t) /\ t.on = [s.on EXCEPT ![w] = Absent]
    BY <1>1, <1>4, StopIfStartedDoes
  <2>2. HasStopped(s, t, w)
    BY <2>1, <1>2, <1>4 DEF SameButOn, HasStopped
  <2> QED
    BY <2>2, <1>1, <1>3
<1>5. CASE w = "pppd"
  <2>1. /\ SameButOn([s EXCEPT !.ready = FALSE], t)
        /\ t.on = IF s.ready
                  THEN [s.on EXCEPT !["pppd"] = Absent, !["modem"] = Absent, !["heartbeat"] = Absent]
                  ELSE [s.on EXCEPT !["pppd"] = Absent]
    BY <1>1, <1>5, StopIfStartedDoes
  <2>2. PICK r : r = [s EXCEPT !.ready = FALSE]
    OBVIOUS
  <2>3. /\ r.hash = s.hash /\ r.config = s.config /\ r.json = s.json /\ r.ready = FALSE
        /\ r.made = s.made /\ r.latest = s.latest /\ r.threw = s.threw
    BY <2>2 DEF System
  <2>4. SameButOn(r, t)
    BY <2>1, <2>2
  <2>5. HasStopped(s, t, w)
    BY <2>1, <2>3, <2>4, <1>2, <1>5 DEF SameButOn, HasStopped
  <2> QED
    BY <2>5, <1>1, <1>3
<1> QED
  BY <1>4, <1>5

\* When the configuration is given up nothing runs any more.
LEMMA StopConfigKeeps ==
  ASSUME NEW s \in System, Running(s), Remembered(s)
  PROVE  /\ StopConfig(s) \in System /\ Running(StopConfig(s)) /\ Remembered(StopConfig(s))
         /\ StopConfig(s).threw = s.threw
         /\ StopConfig(s).hash = Absent /\ StopConfig(s).config = FALSE
<1>1. PICK t0 : t0 = [s EXCEPT !.config = FALSE, !.hash = Absent]
  OBVIOUS
<1>2. /\ t0 \in System /\ t0.hash = Absent /\ t0.config = FALSE /\ t0.json = s.json /\ t0.on = s.on
      /\ t0.ready = s.ready /\ t0.made = s.made /\ t0.latest = s.latest /\ t0.threw = s.threw
  BY <1>1 DEF System
<1>3. Sound(t0) /\ {"gateway", "pppd", "modem", "heartbeat"} \subseteq Watchers
  BY <1>2 DEF Running, Sound, Started, Watchers
<1>4. PICK t1 : t1 = StopIfStarted(t0, "gateway")
  OBVIOUS
<1>5. HasStopped(t0, t1, "gateway") /\ Sound(t1)
  BY <1>2, <1>3, <1>4, StopIfStartedHas
<1>6. PICK t2 : t2 = StopIfStarted(t1, "pppd")
  OBVIOUS
<1>7. HasStopped(t1, t2, "pppd") /\ Sound(t2)
  <2>1. t1 \in System
    BY <1>5 DEF HasStopped
  <2> QED
    BY <2>1, <1>3, <1>5, <1>6, StopIfStartedHas
<1>8. PICK t3 : t3 = StopIfStarted(t2, "modem")
  OBVIOUS
<1>9. HasStopped(t2, t3, "modem") /\ Sound(t3)
  <2>1. t2 \in System
    BY <1>7 DEF HasStopped
  <2> QED
    BY <2>1, <1>3, <1>7, <1>8, StopIfStartedHas
<1>10. PICK t : t = StopIfStarted(t3, "heartbeat")
  OBVIOUS
<1>11. HasStopped(t3, t, "heartbeat")
  <2>1. t3 \in System
    BY <1>9 DEF HasStopped
  <2> QED
    BY <2>1, <1>3, <1>9, <1>10, StopIfStartedHas
<1>12. StopConfig(s) = t
  BY <1>1, <1>4, <1>6, <1>8, <1>10 DEF StopConfig
<1>13. /\ t1.hash = Absent /\ t1.config = FALSE /\ t1.json = s.json /\ t1.made = s.made
       /\ t1.latest = s.latest /\ t1.threw = s.threw /\ t1.on["gateway"] = Absent
  BY <1>2, <1>3, <1>5 DEF HasStopped
<1>14. /\ t2.hash = Absent /\ t2.config = FALSE /\ t2.json = s.json /\ t2.made = s.made
       /\ t2.latest = s.latest /\ t2.threw = s.threw /\ ~t2.ready
       /\ t2.on["gateway"] = Absent /\ t2.on["pppd"] = Absent
  BY <1>13, <1>3, <1>7 DEF HasStopped
<1>15. /\ t3.hash = Absent /\ t3.config = FALSE /\ t3.json = s.json /\ t3.made = s.made
       /\ t3.latest = s.latest /\ t3.threw = s.threw /\ ~t3.ready
       /\ t3.on["gateway"] = Absent /\ t3.on["pppd"] = Absent /\ t3.on["modem"] = Absent
  BY <1>14, <1>3, <1>9 DEF HasStopped
<1>16. /\ t \in System /\ t.hash = Absent /\ t.config = FALSE /\ t.json = s.json /\ t.made = s.made
       /\ t.latest = s.latest /\ t.threw = s.threw /\ ~t.ready
       /\ t.on["gateway"] = Absent /\ t.on["pppd"] = Absent /\ t.on["modem"] = Absent
       /\ t.on["heartbeat"] = Absent
  BY <1>15, <1>3, <1>11 DEF HasStopped
<1>17. Running(t)
  BY <1>16 DEF Running, Started, Watchers
<1>18. Remembered(t)
  <2>1. \A w \in Watchers : ~Started(t, w)
    BY <1>16 DEF Started, Watchers
  <2> QED
    BY <2>1, <1>3, <1>16 DEF Remembered
<1> QED
  BY <1>12, <1>16, <1>17, <1>18

-----------------------------------------------------------------------------
(* The steps *)

\* Ports and shell commands do not matter to what runs together.
Alike(s, t) ==
  /\ t \in System
  /\ t.hash = s.hash /\ t.config = s.config /\ t.json = s.json /\ t.on = s.on
  /\ t.ready = s.ready /\ t.made = s.made /\ t.latest = s.latest /\ t.blind = s.blind

\* What only differs in its outputs or its serial port keeps all of it.
LEMMA AlikeKeeps ==
  ASSUME NEW s, Running(s), Remembered(s), NEW t, Alike(s, t)
  PROVE  Running(t) /\ Remembered(t) /\ (Lasting(s) => Lasting(t)) /\ Sees(s, t)
<1>1. \A w : Started(t, w) <=> Started(s, w)
  BY DEF Started, Alike
<1>2. Running(t)
  BY <1>1 DEF Running, Alike
<1>3. Remembered(t)
  BY <1>1 DEF Remembered, Alike
<1>4. Lasting(s) => Lasting(t)
  BY <1>1 DEF Lasting, Alike
<1>5. Sees(s, t)
  BY <1>1 DEF Sees, Blind, Alike
<1> QED
  BY <1>2, <1>3, <1>4, <1>5

\* A shell command of pppd starts, or one ends.
LEMMA CountOutputs ==
  ASSUME NEW s \in System, NEW k \in {"route", "psaux"}, NEW n \in Nat
  PROVE  Alike(s, [s EXCEPT !.outputs[k] = n]) /\ [s EXCEPT !.outputs[k] = n].threw = s.threw
  BY Fields DEF Alike, System

\* Nothing runs, or there is a client.
Clear(s) == s.hash = Absent \/ (s.config /\ HasClient)

\* What it finds is noted.
LEMMA TookKeeps ==
  ASSUME SupervisorTypeOK, Running(sup), Remembered(sup), NEW k \in {"route", "psaux"}, sup.outputs[k] > 0,
         NEW b \in BOOLEAN
  PROVE  /\ Alike(sup, Took(k)) /\ Took(k).threw = sup.threw
         /\ KeptBy(Took(k), NotePppdReady(Took(k), b))
         /\ Clear(sup) => Sees(Took(k), NotePppdReady(Took(k), b))
<1>1. sup \in System /\ sup.outputs \in [{"route", "psaux"} -> Nat]
  BY Fields DEF SupervisorTypeOK
<1>2. PICK n \in Nat : n = sup.outputs[k] - 1
  BY <1>1
<1>3. PICK s : s = Took(k)
  OBVIOUS
<1>4. s = [sup EXCEPT !.outputs[k] = n]
  BY <1>2, <1>3 DEF Took
<1>5. Alike(sup, s) /\ s.threw = sup.threw
  BY <1>1, <1>4, CountOutputs
<1>6. s \in System /\ Running(s) /\ Remembered(s)
  BY <1>5, AlikeKeeps DEF Alike
<1>7. KeptBy(s, NotePppdReady(s, b))
  BY <1>6, NoteReadyKeeps
<1>8. ASSUME Clear(sup) PROVE Sees(s, NotePppdReady(s, b))
  <2>1. CASE s.hash = Absent
    <3>1. ~Started(s, "pppd")
      BY <1>6, <2>1 DEF Running, Watchers
    <3> QED
      BY <3>1 DEF NotePppdReady, Sees
  <2>2. CASE s.config /\ HasClient
    BY <1>6, <2>2, NoteReadySees
  <2> QED
    BY <1>5, <1>8, <2>1, <2>2 DEF Clear, Alike
<1> QED
  BY <1>3, <1>5, <1>7, <1>8

\* What is kept of what runs in a step that leaves the settings alone.
StepKeeps ==
  /\ sup' \in System /\ Running(sup') /\ Remembered(sup') /\ sup'.threw = sup.threw
  /\ Lasting(sup) => Lasting(sup')
  /\ sup'.hash = sup.hash /\ sup'.config = sup.config /\ (Clear(sup) => Sees(sup, sup'))

\* An output that arrives tells whether pppd is ready, or nothing.
LEMMA TookStep ==
  ASSUME SupervisorTypeOK, Running(sup), Remembered(sup), NEW k \in {"route", "psaux"}, sup.outputs[k] > 0,
         NEW b \in BOOLEAN, sup' = NotePppdReady(Took(k), b) \/ sup' = Took(k)
  PROVE  StepKeeps
<1>1. PICK s, t : s = Took(k) /\ t = NotePppdReady(s, b)
  OBVIOUS
<1>2. PICK u : u = sup'
  OBVIOUS
<1>3. Alike(sup, s) /\ s.threw = sup.threw /\ KeptBy(s, t) /\ (Clear(sup) => Sees(s, t))
  BY <1>1, TookKeeps
<1>4. s \in System /\ Running(s) /\ Remembered(s) /\ (Lasting(sup) => Lasting(s)) /\ Sees(sup, s)
  BY <1>3, AlikeKeeps DEF Alike
<1>5. t \in System /\ Running(t) /\ Remembered(t) /\ SameGateway(s, t)
  BY <1>3 DEF KeptBy
<1>6. t.threw = s.threw /\ (Lasting(s) => Lasting(t))
  BY <1>5 DEF SameGateway, Lasting, Started
<1>7. u = s \/ u = t
  BY <1>1, <1>2
<1>8. /\ u \in System /\ Running(u) /\ Remembered(u) /\ u.threw = sup.threw
      /\ Lasting(sup) => Lasting(u)
  BY <1>3, <1>4, <1>5, <1>6, <1>7
<1>9. u.hash = sup.hash /\ u.config = sup.config
  BY <1>3, <1>5, <1>7 DEF Alike, SameGateway
<1>10. Clear(sup) => Sees(sup, u)
  BY <1>3, <1>4, <1>7 DEF Sees
<1> QED
  BY <1>2, <1>8, <1>9, <1>10 DEF StepKeeps

\* The outputs of route and of ps are taken one by one.
LEMMA OutputKeeps ==
  ASSUME SupervisorTypeOK, Running(sup), Remembered(sup), RouteOutput \/ PsauxOutput
  PROVE  StepKeeps
<1>1. CASE RouteOutput
  <2>1. PICK b \in BOOLEAN : sup' = NotePppdReady(Took("route"), b)
    BY <1>1 DEF RouteOutput
  <2> QED
    BY <2>1, <1>1, TookStep DEF RouteOutput
<1>2. CASE PsauxOutput
  <2>1. sup' = NotePppdReady(Took("psaux"), FALSE) \/ sup' = Took("psaux")
    BY <1>2 DEF PsauxOutput, NotReady
  <2> QED
    BY <2>1, <1>2, TookStep DEF PsauxOutput
<1> QED
  BY <1>1, <1>2

\* The poll of pppd asks for another output.
LEMMA TickKeeps ==
  ASSUME SupervisorTypeOK, Running(sup), Remembered(sup), Tick
  PROVE  StepKeeps
<1>1. PICK k \in {"route", "psaux"} : k = IF iface THEN "route" ELSE "psaux"
  OBVIOUS
<1>2. sup \in System /\ sup.outputs \in [{"route", "psaux"} -> Nat]
  BY Fields DEF SupervisorTypeOK
<1>3. PICK n \in Nat : n = sup.outputs[k] + 1
  BY <1>2
<1>4. PICK u : u = sup'
  OBVIOUS
<1>5. u = [sup EXCEPT !.outputs[k] = n]
  BY <1>1, <1>3, <1>4 DEF Tick, CheckRoutes
<1>6. Alike(sup, u) /\ u.threw = sup.threw
  BY <1>2, <1>5, CountOutputs
<1> QED
  BY <1>4, <1>6, AlikeKeeps DEF StepKeeps, Alike

\* The configuration is watched while Redis is there; and unless a reply comes after it
\* was stopped nothing runs without it, nor with a client that is null.
Seen ==
  /\ sup.config <=> redis = "ready"
  /\ ~sup.config /\ ~stray => sup.hash = Absent
  /\ ~stray => \A w \in Watchers : ~Blind(sup, w)

\* A step that leaves the configuration alone.
LEMMA SeenKept ==
  ASSUME Seen, sup'.hash = sup.hash, sup'.config = sup.config, stray' = stray,
         redis' = redis \/ (redis # "ready" /\ redis' # "ready"),
         Clear(sup) => Sees(sup, sup')
  PROVE  Seen'
<1>1. ~stray => Clear(sup)
  BY DEF Seen, Clear, HasClient
<1>2. PICK u : u = sup'
  OBVIOUS
<1>3. ~stray => \A w \in Watchers : ~Blind(u, w)
  BY <1>1, <1>2 DEF Seen, Sees
<1>4. ~stray' => \A w \in Watchers : ~Blind(sup, w)'
  BY <1>2, <1>3 DEF Blind, Started
<1> QED
  BY <1>4 DEF Seen

\* Redis comes, and goes with the configuration.
LEMMA RedisKeeps ==
  ASSUME SupervisorTypeOK, Running(sup), Remembered(sup), Seen, StopAll \/ RedisReady \/ RedisError
  PROVE  /\ sup' \in System /\ Running(sup') /\ Remembered(sup') /\ sup'.threw = sup.threw
         /\ Steady /\ Lasting(sup) => Lasting(sup')
         /\ Seen'
<1>1. sup \in System
  BY DEF SupervisorTypeOK
<1>2. PICK u : u = sup'
  OBVIOUS
<1>3. CASE StopAll \/ RedisError
  <2>1. ~Steady
    BY <1>3 DEF StopAll, RedisError, Steady
  <2>2. u = StopConfig(sup) \/ u = sup
    BY <1>2, <1>3 DEF StopAll, RedisError
  <2>3. u \in System /\ Running(u) /\ Remembered(u) /\ u.threw = sup.threw
    BY <2>2, <1>1, StopConfigKeeps
  <2>4. Seen'
    <3>1. CASE redis = "ready"
      <4>1. u = StopConfig(sup) /\ redis' # "ready"
        BY <1>2, <1>3, <3>1 DEF StopAll, RedisError
      <4>2. u.hash = Absent /\ u.config = FALSE /\ \A w \in Watchers : ~Started(u, w)
        BY <4>1, <2>3, <1>1, StopConfigKeeps DEF Running
      <4> QED
        BY <4>1, <4>2, <1>2 DEF Seen, Blind, Started
    <3>2. CASE redis # "ready"
      <4>1. sup' = sup /\ stray' = stray /\ redis' # "ready"
        BY <1>3, <3>2 DEF StopAll, RedisError, replyVars
      <4> QED
        BY <4>1, <3>2 DEF Seen, Blind, Started
    <3> QED
      BY <3>1, <3>2
  <2> QED
    BY <2>1, <2>3, <2>4, <1>2
<1>4. CASE RedisReady
  <2>1. u = [sup EXCEPT !.config = TRUE]
    BY <1>2, <1>4 DEF RedisReady
  <2>2. /\ u \in System /\ u.hash = sup.hash /\ u.config /\ u.json = sup.json /\ u.on = sup.on
        /\ u.blind = sup.blind
        /\ u.ready = sup.ready /\ u.made = sup.made /\ u.latest = sup.latest /\ u.threw = sup.threw
    BY <2>1, <1>1 DEF System
  <2>3. \A w : Started(u, w) <=> Started(sup, w)
    BY <2>2 DEF Started
  <2>4. Running(u)
    BY <2>2, <2>3 DEF Running
  <2>5. Remembered(u)
    BY <2>2, <2>3 DEF Remembered
  <2>6. Lasting(sup) => Lasting(u)
    BY <2>2, <2>3 DEF Lasting
  <2>7. Seen'
    <3>1. redis' = "ready" /\ stray' = stray
      BY <1>4 DEF RedisReady, replyVars
    <3> QED
      BY <3>1, <2>2, <1>2 DEF Seen, Blind, Started
  <2> QED
    BY <1>2, <2>2, <2>4, <2>5, <2>6, <2>7
<1> QED
  BY <1>3, <1>4

\* The modem's port.
LEMMA PortKeeps ==
  ASSUME SupervisorTypeOK, Running(sup), Remembered(sup), PortOpens \/ OrphanOpens
  PROVE  /\ sup' \in System /\ Running(sup') /\ Remembered(sup')
         /\ sup'.threw => sup.threw \/ "slowPort" \in supFaults
         /\ Lasting(sup) => Lasting(sup')
         /\ sup'.hash = sup.hash /\ sup'.config = sup.config /\ Sees(sup, sup')
<1>1. sup \in System
  BY DEF SupervisorTypeOK
<1>2. PICK u : u = sup'
  OBVIOUS
<1>3. Alike(sup, u) /\ (u.threw => sup.threw \/ "slowPort" \in supFaults)
  <2>1. CASE PortOpens
    <3>1. u = [sup EXCEPT !.port = "open"]
      BY <1>2, <2>1 DEF PortOpens
    <3> QED
      BY <3>1, <1>1 DEF Alike, System
  <2>2. CASE OrphanOpens
    <3>1. u = [sup EXCEPT !.orphan = FALSE, !.threw = "slowPort" \in supFaults]
      BY <1>2, <2>2 DEF OrphanOpens
    <3>2. Alike(sup, u)
      <4>1. CASE "slowPort" \in supFaults
        <5>1. u = [sup EXCEPT !.orphan = FALSE, !.threw = TRUE]
          BY <3>1, <4>1
        <5> QED
          BY <5>1, <1>1 DEF Alike, System
      <4>2. CASE "slowPort" \notin supFaults
        <5>1. u = [sup EXCEPT !.orphan = FALSE, !.threw = FALSE]
          <6>1. ("slowPort" \in supFaults) = FALSE
            BY <4>2
          <6>2. PICK slow : slow = ("slowPort" \in supFaults)
            OBVIOUS
          <6>3. u = [sup EXCEPT !.orphan = FALSE, !.threw = slow]
            BY <3>1, <6>2, Zenon
          <6>4. slow = FALSE
            BY <6>1, <6>2, Zenon
          <6> QED
            BY <6>3, <6>4, Zenon
        <5> QED
          BY <5>1, <1>1 DEF Alike, System
      <4> QED
        BY <4>1, <4>2
    <3>3. u.threw => "slowPort" \in supFaults
      BY <3>1, <1>1 DEF System
    <3> QED
      BY <3>2, <3>3
  <2> QED
    BY <2>1, <2>2
<1> QED
  BY <1>2, <1>3, AlikeKeeps DEF Alike

\* A setting that is there stays there, unless it may be removed.
LEMMA StoreKeeps ==
  ASSUME SupervisorTypeOK, Store, Steady, Lasting(sup)
  PROVE  Lasting(sup)'
<1>1. stored' \in Settings /\ sup' = sup /\ stored \in Settings
  BY DEF Store, SupervisorTypeOK
<1>2. "gateway" \in DOMAIN stored
  BY <1>1 DEF Settings
<1>3. stored'["gateway"] = Absent => stored["gateway"] = Absent
  BY <1>2 DEF Store, Steady
<1> QED
  BY <1>1, <1>3 DEF Lasting, Started

\* All of it, as it is kept from step to step.
FitInv ==
  /\ SupervisorTypeOK /\ Running(sup) /\ Remembered(sup)
  /\ Steady => Lasting(sup)
  /\ "slowPort" \notin supFaults => ~sup.threw
  /\ Seen

\* The invariant holds before the configuration is read.
LEMMA InitFits ==
  ASSUME SupervisorInit
  PROVE  FitInv
<1>1. SupervisorTypeOK
  <2>1. /\ [w \in Watchers |-> Absent] \in [Watchers -> Setting]
        /\ [route |-> 0, psaux |-> 0] \in [{"route", "psaux"} -> Nat]
    BY DEF Setting
  <2>2. sup \in System
    BY <2>1 DEF SupervisorInit, System
  <2> QED
    BY <2>2 DEF SupervisorInit, SupervisorTypeOK
<1>2. /\ sup.hash = Absent /\ sup.config = FALSE /\ sup.ready = FALSE /\ sup.made = FALSE
      /\ sup.latest = Absent /\ sup.threw = FALSE /\ redis = "off"
      /\ \A w \in Watchers : sup.json[w] = Absent /\ sup.on[w] = Absent
  BY DEF SupervisorInit
<1>3. Running(sup) /\ Remembered(sup) /\ Lasting(sup)
  BY <1>2, NoSettings DEF Running, Remembered, Lasting, Started, Watchers, Setting
<1>4. Seen
  BY <1>2 DEF Seen, Blind, Started
<1> QED
  BY <1>1, <1>2, <1>3, <1>4 DEF FitInv

\* Every step keeps it.
LEMMA NextFits ==
  ASSUME FitInv, [SupervisorNext]_supervisorVars
  PROVE  FitInv'
<1>1. /\ SupervisorTypeOK /\ Running(sup) /\ Remembered(sup) /\ (Steady => Lasting(sup))
      /\ "slowPort" \notin supFaults => ~sup.threw
      /\ Seen
  BY DEF FitInv
<1>2. supFaults' = supFaults
  BY DEF SupervisorNext, supervisorVars, ConfigReply, Store, StartAll, StopAll, RedisReady, RedisError, RedisRetry,
         Tick, RouteOutput, PsauxOutput, IfaceUp, IfaceDown, PortOpens, OrphanOpens
<1>3. SupervisorTypeOK /\ sup' \in System => SupervisorTypeOK'
  <2>1. SupervisorTypeOK => late' \in BOOLEAN /\ stray' \in BOOLEAN
    BY DEF SupervisorNext, supervisorVars, replyVars, SupervisorTypeOK, ConfigReply, Store, StartAll, StopAll, RedisReady,
           RedisError, RedisRetry, Tick, RouteOutput, PsauxOutput, IfaceUp, IfaceDown, PortOpens, OrphanOpens
  <2>2. SupervisorTypeOK => /\ redis' \in {"off", "checking", "ready", "retry"}
                            /\ stored' \in Settings /\ iface' \in BOOLEAN /\ daemon' \in BOOLEAN
    BY DEF SupervisorNext, supervisorVars, SupervisorTypeOK, ConfigReply, Store, StartAll, StopAll, RedisReady,
           RedisError, RedisRetry, Tick, RouteOutput, PsauxOutput, IfaceUp, IfaceDown, PortOpens, OrphanOpens
  <2> QED
    BY <2>1, <2>2 DEF SupervisorTypeOK
<1>4. Steady' <=> Steady
  BY <1>2 DEF Steady
<1>5. ASSUME sup' \in System, Running(sup'), Remembered(sup'), Steady => Lasting(sup)',
             sup'.threw => sup.threw \/ "slowPort" \in supFaults, Seen'
      PROVE  FitInv'
  BY <1>1, <1>2, <1>3, <1>4, <1>5 DEF FitInv
<1>6. ASSUME UNCHANGED stored, Steady /\ Lasting(sup) => Lasting(sup')
      PROVE  Steady => Lasting(sup)'
  BY <1>1, <1>6 DEF Lasting
<1>7. CASE ConfigReply
  <2>1. /\ sup'.config = sup.config /\ redis' = redis /\ (sup.config => Sees(sup, sup'))
        /\ stray' = (stray \/ ~sup.config)
    BY <1>1, <1>7, ConfigReplyKeeps DEF ConfigReply
  <2>2. PICK u : u = sup'
    OBVIOUS
  <2>3. ~stray' => sup.config /\ \A w \in Watchers : ~Blind(u, w)
    BY <2>1, <2>2, <1>1 DEF Seen, Sees
  <2>4. Seen'
    BY <2>1, <2>2, <2>3, <1>1 DEF Seen, Blind, Started
  <2> QED
    BY <2>4, <1>1, <1>5, <1>7, ConfigReplyKeeps
<1>8. Sees(sup, sup)
  BY DEF Sees
<1>9. CASE Store
  <2>1. sup' = sup /\ sup \in System /\ redis' = redis /\ stray' = stray
    BY <1>1, <1>9 DEF Store, SupervisorTypeOK, replyVars
  <2>2. Seen'
    BY <2>1, <1>1, <1>8, SeenKept
  <2> QED
    BY <2>1, <2>2, <1>1, <1>5, <1>9, StoreKeeps
<1>10. CASE StartAll \/ RedisRetry \/ IfaceUp \/ IfaceDown \/ UNCHANGED supervisorVars
  <2>1. /\ UNCHANGED <<sup, stored, stray>>
        /\ redis' = redis \/ (redis # "ready" /\ redis' # "ready")
    BY <1>10 DEF StartAll, RedisRetry, IfaceUp, IfaceDown, supervisorVars, replyVars
  <2>2. Seen'
    BY <2>1, <1>1, <1>8, SeenKept
  <2> QED
    BY <2>1, <2>2, <1>1, <1>5, <1>6 DEF SupervisorTypeOK
<1>11. CASE StopAll \/ RedisReady \/ RedisError
  <2>1. UNCHANGED stored
    BY <1>11 DEF StopAll, RedisReady, RedisError
  <2> QED
    BY <2>1, <1>1, <1>5, <1>6, <1>11, RedisKeeps
<1>12. CASE Tick \/ RouteOutput \/ PsauxOutput
  <2>1. UNCHANGED <<stored, redis, stray>>
    BY <1>12 DEF Tick, RouteOutput, PsauxOutput, replyVars
  <2>2. StepKeeps
    BY <1>1, <1>12, TickKeeps, OutputKeeps
  <2>3. Seen'
    BY <2>1, <2>2, <1>1, SeenKept DEF StepKeeps
  <2> QED
    BY <2>1, <2>2, <2>3, <1>5, <1>6 DEF StepKeeps
<1>13. CASE PortOpens \/ OrphanOpens
  <2>1. UNCHANGED <<stored, redis, stray>>
    BY <1>13 DEF PortOpens, OrphanOpens, replyVars
  <2>2. Seen'
    BY <2>1, <1>1, <1>13, PortKeeps, SeenKept
  <2> QED
    BY <2>1, <2>2, <1>1, <1>5, <1>6, <1>13, PortKeeps
<1> QED
  BY <1>7, <1>9, <1>10, <1>11, <1>12, <1>13 DEF SupervisorNext

\* That the watchers run together follows from it.
LEMMA FitTogether ==
  ASSUME FitInv
  PROVE  RunTogether
<1>1. /\ sup.on \in [Watchers -> Setting]
      /\ \A v \in Watchers : v \in {"gateway", "pppd", "modem", "heartbeat"}
      /\ {"gateway", "pppd", "modem", "heartbeat"} \subseteq Watchers
  BY Fields DEF FitInv, SupervisorTypeOK, Watchers
<1>2. /\ sup.hash = Absent \/ ~(sup.config \/ stray) => \A w \in Watchers : ~Started(sup, w)
      /\ sup.ready => Started(sup, "modem")
      /\ sup.ready /\ Started(sup, "gateway") => Started(sup, "heartbeat")
  BY DEF FitInv, Running, Seen
<1>3. ASSUME NEW v \in Watchers, NEW w \in Watchers,
             Keyset[v] = Keyset[w], Started(sup, v), Started(sup, w)
      PROVE  sup.on[v] = sup.on[w]
  <2>1. /\ \A u \in {"gateway", "pppd", "modem"} : Started(sup, u) => sup.on[u] = sup.json[u]
        /\ sup.json["modem"] = sup.json["pppd"]
        /\ Started(sup, "heartbeat") => sup.on["heartbeat"] = sup.latest
        /\ sup.json["gateway"] # Absent => sup.latest = sup.json["gateway"]
    BY <1>1 DEF FitInv, Remembered
  <2>2. CASE v \in {"pppd", "modem"}
    <3>1. w \in {"pppd", "modem"}
      BY <1>1, <1>3, <2>2 DEF Keyset
    <3> QED
      BY <1>3, <2>1, <2>2, <3>1
  <2>3. CASE v \in {"gateway", "heartbeat"}
    <3>1. w \in {"gateway", "heartbeat"}
      BY <1>1, <1>3, <2>3 DEF Keyset
    <3>2. Started(sup, "gateway") => sup.on["gateway"] = sup.latest
      BY <2>1 DEF Started
    <3> QED
      BY <1>3, <2>1, <2>3, <3>1, <3>2
  <2> QED
    BY <1>1, <2>2, <2>3
<1>4. Steady => (Started(sup, "heartbeat") => Started(sup, "gateway"))
  <2>1. Started(sup, "heartbeat") => sup.on["heartbeat"] = sup.latest /\ sup.latest # Absent
    BY DEF FitInv, Remembered, Started
  <2> QED
    BY <2>1 DEF FitInv, Lasting
<1> QED
  BY <1>2, <1>3, <1>4 DEF RunTogether, Steady

\* Whatever the settings are and whatever fails, but for a modem's port that opens late,
\* no watcher is started or stopped twice.
THEOREM NeverThrowsHolds == SupervisorSpec => []NeverThrows
<1>1. SupervisorInit => FitInv
  BY InitFits
<1>2. FitInv /\ [SupervisorNext]_supervisorVars => FitInv'
  BY NextFits
<1>3. FitInv => NeverThrows
  BY DEF FitInv, Seen, NeverThrows
<1> QED
  BY <1>1, <1>2, <1>3, PTL DEF SupervisorSpec

\* Whatever the settings are and whatever fails, what runs fits together.
THEOREM RunTogetherHolds == SupervisorSpec => []RunTogether
<1>1. SupervisorInit => FitInv
  BY InitFits
<1>2. FitInv /\ [SupervisorNext]_supervisorVars => FitInv'
  BY NextFits
<1>3. FitInv => RunTogether
  BY FitTogether
<1> QED
  BY <1>1, <1>2, <1>3, PTL DEF SupervisorSpec

\* The types of the variables.
THEOREM SupervisorTypeCorrect == SupervisorSpec => []SupervisorTypeOK
<1>1. SupervisorInit => FitInv
  BY InitFits
<1>2. FitInv /\ [SupervisorNext]_supervisorVars => FitInv'
  BY NextFits
<1>3. FitInv => SupervisorTypeOK
  BY DEF FitInv
<1> QED
  BY <1>1, <1>2, <1>3, PTL DEF SupervisorSpec
=============================================================================
