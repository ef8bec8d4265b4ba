--------------------------- MODULE PeripheralRouter ---------------------------
(***************************************************************************)
(* services/peripheral-router.js: one peripheral, driven by the hash of    *)
(* its settings.  The connection keyset makes a peripheral, the command    *)
(* keys make a configuration, and the first status noted with both makes   *)
(* and opens a reader; a schedule is read from Redis and started when the  *)
(* reader is ready.  Commands go to the reader one at a time, by           *)
(* busyState.  RouteWatcher starts a router once and never stops it;       *)
(* RedisWatcher stops and starts only its settings watcher.                *)
(***************************************************************************)
EXTENDS Naturals, Sequences

CONSTANTS
  Conns,        \* values of the connection keyset
  Known,        \* those of a type that peripheral-builder knows
  Cmds,         \* values of the command keys, the routing among them
  Routing,      \* Cmds -> "none", "ad-hoc", "scheduled", "empty" (scheduled, but
                \* the schedule has no periods), "unknown" (or no schedule named)
  None,
  maxCommands,  \* bound: commands submitted to one reader at a time
  maxPending,   \* bound: deferred calls, late callbacks, schedules to come, zombies
                \* and leaked schedules, of each
  Scenarios     \* the sets of faults that an execution may meet:
                \* "hasty": settings change while a change is still carried out;
                \* "odd": settings that cannot be carried out;
                \* "both": a first connection comes with other command keys;
                \* "midwrite": they are carried out while a command is written;
                \* "error": the open connection fails; "blip": Redis is lost

Settings == [conn : Conns \cup {None}, cmd : Cmds]

\* Settings that can be carried out: a known type and routing, and a schedule
\* that has periods and a peripheral to go with.
Sound == {h \in Settings : /\ h.conn \in Known \cup {None}
                           /\ Routing[h.cmd] \in {"none", "ad-hoc", "scheduled"}
                           /\ Routing[h.cmd] = "scheduled" => h.conn # None}

ASSUME RouterAssumption ==
  /\ None \notin Conns /\ None \notin Cmds /\ None \notin Settings
  /\ Known \subseteq Conns
  /\ Routing \in [Cmds -> {"none", "ad-hoc", "scheduled", "empty", "unknown"}]
  /\ maxCommands \in Nat /\ maxPending \in Nat
  /\ Scenarios \subseteq SUBSET {"hasty", "odd", "both", "midwrite", "error", "blip"}

VARIABLES
  faults,       \* the faults this execution may meet
  settings,     \* Redis: the settings of the peripheral
  live,         \* the settings watcher has a Redis client
  staleClient,  \* the router's own client is an ended one
  lastHash,     \* the settings last seen, None for null
  connJSON,     \* the connection keyset it was last checked with
  r,            \* the router, a record of
                \*   peripheral: what peripheralWatcher runs with, None if stopped
                \*   reader, link: the configuration the reader was made with and
                \*     its connection
                \*   commands, schedule, ticking, busyState
                \*   writing, awaiting: commands of the reader by what they wait for
                \*   late: write callbacks to come of readers that were stopped
                \*   zombies: readers dropped while their connection opened
                \*   leaked: schedules dropped while they ticked
                \*   crashed: an exception ended the process
  pending,      \* the schedules asked for from Redis, oldest first
  deferred      \* calls of makeReady to come

vars == <<faults, settings, live, staleClient, lastHash, connJSON, r, pending, deferred>>

Offered == IF "odd" \in faults THEN Settings ELSE Sound

TypeOK ==
  /\ settings \in Settings /\ lastHash \in Settings \cup {None}
  /\ connJSON \in Conns \cup {None}
  /\ live \in BOOLEAN /\ staleClient \in BOOLEAN
  /\ r \in [peripheral : Conns \cup {None}, reader : Cmds \cup {None},
            link : {"closed", "opening", "open"}, commands : Cmds \cup {None},
            schedule : Cmds \cup {None}, ticking : BOOLEAN, busyState : BOOLEAN,
            writing : Nat, awaiting : Nat, late : Nat, zombies : Nat, leaked : Nat,
            crashed : BOOLEAN]
  /\ r.reader = None <=> r.link = "closed"
  /\ r.reader # None => r.peripheral \in Known
  /\ r.ticking => r.schedule # None
  /\ r.link # "open" => r.writing = 0 /\ r.awaiting = 0
  /\ pending \in Seq(Cmds) /\ deferred \in Nat

Init ==
  /\ faults \in Scenarios
  /\ settings \in Offered
  /\ live = TRUE /\ staleClient = FALSE /\ lastHash = None /\ connJSON = None
  /\ r = [peripheral |-> None, reader |-> None, link |-> "closed", commands |-> None,
          schedule |-> None, ticking |-> FALSE, busyState |-> TRUE, writing |-> 0,
          awaiting |-> 0, late |-> 0, zombies |-> 0, leaked |-> 0, crashed |-> FALSE]
  /\ pending = <<>> /\ deferred = 0

-----------------------------------------------------------------------------
(* services/peripheral-router.js: what a call makes of the router q. *)

One(b) == IF b THEN 1 ELSE 0

Ready(q) == q.reader # None /\ q.link = "open"
Busy(q)  == ~Ready(q) \/ q.busyState

\* Mutant of ResetReader: the schedule is not stopped.
ResetReaderOnly(q) ==
  [q EXCEPT !.reader = None, !.link = "closed", !.schedule = None, !.ticking = FALSE,
            !.busyState = TRUE, !.writing = 0, !.awaiting = 0,
            !.late = q.late + q.writing,
            !.zombies = q.zombies + One(q.reader # None /\ ~Ready(q)),
            !.leaked = q.leaked + One(q.ticking)]

\* resetReader: only a ready reader is stopped, with its schedule; its timers are
\* cleared, but a write under way will still call back.
ResetReader(q) ==
  [q EXCEPT !.reader = None, !.link = "closed", !.schedule = None, !.ticking = FALSE,
            !.busyState = TRUE, !.writing = 0, !.awaiting = 0,
            !.late = q.late + q.writing,
            !.zombies = q.zombies + One(q.reader # None /\ ~Ready(q)),
            !.leaked = q.leaked + One(q.ticking /\ ~Ready(q))]

Reset(q) == ResetReader([q EXCEPT !.peripheral = None, !.commands = None])

\* noteStatus, whatever the status (but "off"): a reader is made if there is none.
NoteStatus(q) ==
  IF q.peripheral \in Known /\ q.commands # None /\ q.reader = None
    THEN [q EXCEPT !.reader = q.commands, !.link = "opening"] ELSE q

NoteErrorStatus(q) == NoteStatus([q EXCEPT !.busyState = TRUE])

\* makeReady, deferred: start() of a schedule that ticks throws 'already started'.
MakeReady(q) ==
  IF q.schedule # None /\ q.ticking
    THEN [q EXCEPT !.busyState = FALSE, !.crashed = TRUE]
    ELSE NoteStatus([q EXCEPT !.busyState = FALSE, !.ticking = q.schedule # None])

\* Status "off" is makeReady(true) within the reply to hgetall, whose promise only logs
\* the same exception.
NoteOff(q) == [q EXCEPT !.commands = None, !.busyState = TRUE, !.ticking = q.schedule # None]

\* checkKeysetWatcher over peripheralWatcher, and its 'ready' events.
CheckConnection(q, conn) ==
  LET stopped == IF q.peripheral = None THEN q ELSE Reset(q)
      made    == [stopped EXCEPT !.peripheral = conn] IN
  IF conn = connJSON   THEN q
  ELSE IF conn = None  THEN stopped
  ELSE IF conn \in Known THEN NoteStatus(made) ELSE NoteErrorStatus(made)

\* Mutant of Restarted: the reader is kept when only the commands change.
Kept(q) == q

\* A new configuration: a ready reader is stopped first.
Restarted(q) == IF Ready(q) THEN ResetReader(q) ELSE q

\* The 'change' listener; it asks for the schedule of a scheduled routing.
Change(q, cmd) ==
  IF cmd = q.commands THEN q
  ELSE CASE Routing[cmd] = "none"    -> NoteOff(Restarted(q))
         [] Routing[cmd] = "ad-hoc"  -> NoteStatus([Restarted(q) EXCEPT !.commands = cmd])
         [] Routing[cmd] = "unknown" -> NoteErrorStatus(Restarted(q))
         [] OTHER                    -> Restarted(q)

AsksSchedule(q, cmd) == cmd # q.commands /\ Routing[cmd] \in {"scheduled", "empty"}

\* The reply with a schedule; one that ticked already is forgotten.
NewSchedule(q, cmd) ==
  NoteStatus([q EXCEPT !.commands = cmd, !.schedule = cmd, !.ticking = FALSE,
                       !.leaked = q.leaked + One(q.ticking)])

-----------------------------------------------------------------------------
(* Events *)

\* The settings watcher has read the hash, and it is another one.  An ended
\* client never replies with a schedule.
SettingsRead ==
  /\ ~r.crashed /\ live /\ settings # lastHash
  /\ "midwrite" \in faults \/ r.writing = 0
  /\ lastHash' = settings
  /\ connJSON' = settings.conn
  /\ LET q == CheckConnection(r, settings.conn) IN
       /\ r' = Change(q, settings.cmd)
       /\ pending' = IF AsksSchedule(q, settings.cmd) /\ ~staleClient
                       THEN Append(pending, settings.cmd) ELSE pending
  /\ Len(pending') <= maxPending /\ r'.zombies <= maxPending /\ r'.leaked <= maxPending
  /\ UNCHANGED <<faults, settings, live, staleClient, deferred>>

ScheduleReply ==
  /\ ~r.crashed /\ pending # <<>>
  /\ pending' = Tail(pending)
  /\ r' = IF Routing[Head(pending)] = "empty" THEN NoteErrorStatus(r)
                                              ELSE NewSchedule(r, Head(pending))
  /\ r'.leaked <= maxPending
  /\ UNCHANGED <<faults, settings, live, staleClient, lastHash, connJSON, deferred>>

\* The 'ready' event of a connection, of the reader's or of one that was dropped;
\* makeReady is deferred.
Opened ==
  /\ ~r.crashed /\ deferred < maxPending
  /\ deferred' = deferred + 1
  /\ \/ r.link = "opening" /\ r' = [r EXCEPT !.link = "open"]
     \/ r.zombies > 0 /\ r' = [r EXCEPT !.zombies = r.zombies - 1]
  /\ UNCHANGED <<faults, settings, live, staleClient, lastHash, connJSON, pending>>

DeferredReady ==
  /\ ~r.crashed /\ deferred > 0
  /\ deferred' = deferred - 1
  /\ r' = MakeReady(r)
  /\ UNCHANGED <<faults, settings, live, staleClient, lastHash, connJSON, pending>>

Step(q) ==
  /\ ~r.crashed
  /\ r' = q
  /\ UNCHANGED <<faults, settings, live, staleClient, lastHash, connJSON, pending, deferred>>

\* Mutant of Submit: the router is not marked busy.
SubmitFree ==
  /\ ~Busy(r) /\ r.writing + r.awaiting < maxCommands
  /\ Step([r EXCEPT !.writing = r.writing + 1])

\* processQueueEntry, by the QueueRouter when the route is not busy.
Submit ==
  /\ ~Busy(r) /\ r.writing + r.awaiting < maxCommands /\ r.late < maxPending
  /\ Step([r EXCEPT !.writing = r.writing + 1, !.busyState = TRUE])

Written ==
  /\ r.writing > 0
  /\ Step([r EXCEPT !.writing = r.writing - 1, !.awaiting = r.awaiting + 1])

\* Mutant of Answer: only an answer of the device makes the router free again.
AnswerOnly ==
  \/ r.awaiting > 0 /\ Step([r EXCEPT !.awaiting = r.awaiting - 1, !.busyState = FALSE])
  \/ r.awaiting > 0 /\ Step([r EXCEPT !.awaiting = r.awaiting - 1])
  \/ r.writing > 0  /\ Step([r EXCEPT !.writing = r.writing - 1])
  \/ r.late > 0     /\ Step([r EXCEPT !.late = r.late - 1])

\* The callback of submit: an answer or a timeout, a write error, or either for
\* a reader that was stopped while it wrote.
Answer ==
  \/ r.awaiting > 0 /\ Step([r EXCEPT !.awaiting = r.awaiting - 1, !.busyState = FALSE])
  \/ r.writing > 0  /\ Step([r EXCEPT !.writing = r.writing - 1, !.busyState = FALSE])
  \/ r.late > 0     /\ Step([r EXCEPT !.late = r.late - 1, !.busyState = FALSE])

LinkError == "error" \in faults /\ Ready(r) /\ Step(NoteErrorStatus(r))

\* RedisWatcher stops the settings watcher, which stops peripheralWatcher but
\* keeps what it was last checked with; the router keeps its client.
ClientLost ==
  /\ ~r.crashed /\ "blip" \in faults /\ live
  /\ live' = FALSE /\ staleClient' = TRUE /\ lastHash' = None /\ pending' = <<>>
  /\ r' = IF r.peripheral = None THEN r ELSE Reset(r)
  /\ UNCHANGED <<faults, settings, connJSON, deferred>>

ClientBack ==
  /\ ~r.crashed /\ ~live
  /\ live' = TRUE
  /\ UNCHANGED <<faults, settings, staleClient, lastHash, connJSON, r, pending, deferred>>

\* Nothing is under way in the router but commands that wait for their answer.
Quiet ==
  /\ live /\ lastHash = settings
  /\ pending = <<>> /\ deferred = 0 /\ r.link # "opening"
  /\ r.writing = 0 /\ r.late = 0 /\ r.zombies = 0

\* Somebody changes the settings of the peripheral.
ChangeSettings(h) ==
  /\ ~r.crashed
  /\ "hasty" \in faults \/ Quiet
  /\ "both" \in faults \/ settings.conn # None \/ h.conn = None \/ h.cmd = settings.cmd
  /\ settings' = h
  /\ UNCHANGED <<faults, live, staleClient, lastHash, connJSON, r, pending, deferred>>

Next ==
  \/ SettingsRead \/ ScheduleReply \/ Opened \/ DeferredReady
  \/ Submit \/ Written \/ Answer \/ LinkError \/ ClientLost \/ ClientBack
  \/ \E h \in Offered : ChangeSettings(h)

Spec == Init /\ [][Next]_vars

\* The polls and replies of Redis, the devices open sooner or later, deferred
\* calls run, and the reader calls back for every command.
FairSpec ==
  /\ Spec
  /\ WF_vars(SettingsRead) /\ WF_vars(ScheduleReply) /\ WF_vars(ClientBack)
  /\ WF_vars(Opened) /\ WF_vars(DeferredReady) /\ WF_vars(Written) /\ WF_vars(Answer)

-----------------------------------------------------------------------------
(* Properties *)

\* What the settings ask the router to run.
Serves(h) == h.conn \in Known /\ Routing[h.cmd] \in {"ad-hoc", "scheduled"}
Off(h)    == h.conn \notin Known \/ Routing[h.cmd] = "none"

\* Once the settings are carried out the reader has the configuration and the
\* connection they ask for and a schedule ticks exactly if they ask for one; or there
\* is neither.  It holds when settings change one after the other, over connection
\* errors and changes while a command is written; settings that cannot be carried out
\* may leave a schedule without its reader.
SettingsCarriedOut ==
  faults \cap {"hasty", "both", "blip"} = {} /\ Quiet =>
    /\ Serves(settings) => r.reader = settings.cmd /\ r.peripheral = settings.conn
    /\ Off(settings) => r.reader = None
    /\ "odd" \notin faults =>
         /\ Serves(settings) => (r.ticking <=> Routing[settings.cmd] = "scheduled")
         /\ Off(settings) => ~r.ticking

\* The router lets go of no connection that still opens and of no schedule that
\* still ticks: nobody could stop it any more.  And it starts no schedule that ticks:
\* Watcher.start would throw, and the exception of a deferred call ends the process;
\* over lost Redis clients too.
NothingLeft ==
  faults \cap {"hasty", "odd"} = {} =>
    /\ "blip" \notin faults => r.zombies = 0 /\ r.leaked = 0
    /\ ~r.crashed

\* One command at a time, over resets, late callbacks and connection errors, as
\* long as no reset meets a command that is being written.
OneCommand ==
  faults \cap {"hasty", "midwrite", "blip"} = {} =>
    r.writing + r.awaiting <= 1 /\ (r.writing + r.awaiting = 1 => r.busyState)

\* Once the settings of a peripheral stay complete, if its connection and Redis
\* stay, its queue is polled again and again: its reader does not stay busy.
QueueServed ==
  faults \subseteq {"midwrite"} => (<>[](live /\ Serves(settings)) => []<>~Busy(r))
=============================================================================
