# The m2m-supervisor in TLA+

Specifications of the m2m-supervisor, the configurations that TLC checks them
with, and theorems about them that TLAPS proves.  Paths are relative to the root
of the repository; `file.js:12` is a line.

Run from this directory: `tlc -config queues.cfg MCQueueRouter.tla` for a run
(`PROJECT.json` names module, configuration and expected result of each),
`tlapm QueueRouterProofs.tla` for the proofs of a module.

## 1. The system

A gateway device runs node.js processes around a local Redis.  Everything that
has to survive a restart is in Redis; the rest is the memory of a process, and
a process is one event loop: callbacks never overlap, but between a Redis
command and its reply anything else may run.  There is no `uncaughtException`
handler: an exception in an event handler ends the process, while one in the
callback of a Redis promise is only logged (`lib/hinted-redis.js`), and whatever
that callback would have done next does not happen.

| Component | State | Operations | Talks to |
|---|---|---|---|
| QueueRouter (`services/queue-router.js`) | ack state and lists in Redis; a check loop | start, stop, checkQueue, processPendingMessage, processAck / Command / Transmit / Route | GatewayProxy by UDP relay; PeripheralRouter by call; Redis |
| PeripheralRouter (`services/peripheral-router.js`) | reader, peripheral, commands, schedule, busyState | settings and connection changes, makeReady, reset, processQueueEntry | HashWatcher, PeripheralWatcher, DataReader, CommandScheduler |
| DataReader, IoPeripheral (serial, telnet, file) | command under way, timeout, partial frame; open / retry state | submit, data, timeout; open, close, retry | the device |
| CommandScheduler | intervals | a tick pushes the scheduled commands on the route's list | Redis |
| Watcher, HashWatcher (`lib/watcher.js`, `services/hash-watcher.js`) | started, ready, retry timer; last hash, targets | start, stop, checkReady, noteReady, addKeysetWatcher | Redis; starts and stops the services |
| RedisWatcher | the shared client | connect, retry, lose, quit | starts and stops the client watchers |
| RouteWatcher | none of its own | a new route makes a PeripheralRouter | HashWatcher, QueueRouter.addRoute |
| GatewayProxy, UdpListener | relays, one ignored ack | relay, routeAck, routeCommand | gateway; pushes acks and commands |
| HeartbeatGenerator | interval | get, llen, incr, send | GatewayProxy, Redis |
| PppdWatcher, DhclientWatcher, ModemWatcher | interval, last shell output; serial port | route and process checks | shell, modem |
| M2mSupervisor | the wiring of all of these | pppd ready starts modem and heartbeat | all |
| SystemChecker, SystemInitializer, NetworkNoter | port search, modem dialogue | run once to fill the configuration | serial ports, Redis |
| SocketServer, CommandBehavior, ShellBehavior | proxy socket, web queue, active process | browser events | browsers, route lists, shell |
| API routes | none | create and change settings | Redis, `checkReady` of the watchers |

What is hard in it, and what makes each part correct:

* **QueueRouter.**  The ack state it acts on was read before a `brpop` that may
  block for the whole poll interval; `stop` and `start`, a client error, a crash or
  the reset of a peripheral may come while it waits; acks come late, twice, in
  any order or not at all.  Correct: one report outstanding; none lost, doubled
  or credited with a foreign ack; a bounded number of attempts over both relays;
  one command at a time per peripheral; the loop goes on for ever.
* **HashWatcher.**  Polling and announced checks overlap, replies come after a stop.
  Correct: what runs, runs with the settings last read; settings that become
  complete are found; nothing runs without a client; polls do not multiply.
* **PeripheralRouter and DataReader.**  Settings change while a connection opens,
  a schedule is read or a command is under way.  Correct: one open connection per
  peripheral, the reader has the current settings, each command gets its answer.
* **GatewayProxy and HeartbeatGenerator.**  They share the sequence numbers of the
  transmit queue and one slot for the ack to ignore.
* **M2mSupervisor.**  Modem and heartbeat follow both their keyset and pppd; either may
  act within the other's call.  Correct: nothing is started or stopped twice, what runs
  together has settings of the same keyset, nothing runs without a configuration.
* **CommandBehavior, SocketServer, ShellBehavior.**  Results race timeouts, browsers share the
  socket to one remote supervisor, a process ends in two events.  Correct: a browser sees
  the results of its own commands, one of them has the remote end, no process is left
  that nobody can stop, every command is answered.
* **API, SystemChecker.**  Check-then-write over several Redis commands; a count of answers
  that come in any order, some of them late.

`PROJECT.json` lists every component with its status, and every hazard with its
line and the properties that cover it.

## 2. Modules

| Module | Content |
|---|---|
| `QueueRouter` | the check loop of the transceiver with Redis, peripherals, gateway and failures |
| `StopAndWait` | what its transmit side promises: one report at a time, in order, each one settled |
| `QueueRouterProofs` | types, one report outstanding, one command per route, a loop that stays alive, work conserved, attempts counted, acks credited to what was received, the refinement of `StopAndWait` |
| `HashWatcher` | the watcher of a settings hash and the services that depend on it |
| `PeripheralRouter` | one peripheral: its settings, its reader and connection, its schedule, its busy state |
| `PeripheralRouterProofs` | types, one command at a time, nothing left ticking or opening, settings carried out |
| `DataReader` | the reader: commands, frames in pieces, timeouts, a device |
| `Routes` | creation of a peripheral by the web application, RouteWatcher, `addRoute` |
| `RoutesProofs` | types, settings never without a route, one route and one router per peripheral |
| `Bridge` | GatewayProxy and HeartbeatGenerator: two links, sequence numbers, acks, the hint |
| `BridgeProofs` | types, what becomes of the acks of reports and of heartbeats, how long the link is silent at most |
| `WebCommands` | CommandBehavior: browsers, the lists of routes and of browsers, timeouts |
| `WebCommandsProofs` | types, no result of another's or of a later command, in time none but its own |
| `RemoteShell` | SocketServer with its proxy and relay sockets, and the ShellBehavior at the far end |
| `RemoteShellProofs` | types, no orphaned process, one browser served |
| `Supervisor` | M2mSupervisor: Redis, the configuration, pppd, modem, gateway and heartbeat as started and stopped |
| `SystemCheck` | SystemChecker and SystemInitializer: counted checks, the search for ports, the modem dialogue |
| `ConfigurationProofs` | of `HashWatcher`: types, current configuration, agreement, bounded polls, nothing left running; of `Supervisor`: types, no exception, what runs fits together |
| `SerialProofs` | of `DataReader`: types, the timer of the awaited command, one call of each callback, each answer to its own command; of `SystemCheck`: types, the check is over once and in order |
| `MCQueueRouter`, `MCHashWatcher`, `MCDataReader`, `MCPeripheralRouter`, `MCRoutes`, `MCBridge`, `MCWebCommands`, `MCRemoteShell`, `MCSupervisor`, `MCSystemCheck` | the small instances that TLC checks |

How they meet.  `QueueRouter` hands an entry to a `PeripheralRouter` when that is neither
unready nor busy; `PeripheralRouter` hands it to the `DataReader`, whose answer makes it free
again.  The settings of a `PeripheralRouter` come from a `HashWatcher`, as do the routes of
`Routes`, whose `AddRoute` makes a peripheral known to `QueueRouter`.  Each module keeps, of its
neighbours, only what it sees of them: `sent` and `gatewayAcks` in `QueueRouter` are all that a `Bridge` does with
a report, `reports` in `Bridge` is all it sees of the ack state of a `QueueRouter`; `route[r]` in `QueueRouter` is the reader and `busyState` of
a `PeripheralRouter`; `writing`, `awaiting` and `late` in `PeripheralRouter` count the commands that
`DataReader` tells apart; `SettingsRead` in `PeripheralRouter`, `ReadRoutes` in `Routes` and `ConfigReply` in
`Supervisor` are `HashReply` of a `HashWatcher` with the targets of that watcher (of these,
`ConfigReply` alone may come after a stop: routers and RouteWatcher lose their watchers only by
an error of the client, which discards its replies); `Start` and `Stop` in `QueueRouter` are what a `HashWatcher`
whose target it is does to it; `Take` and `Result` in
`WebCommands` are all that a browser sees of `QueueRouter` and `PeripheralRouter`; what `on` in `Supervisor`
says of gateway and heartbeat is `proxy` and `heart` in `Bridge`.

Faults.  Every module has a constant `Scenarios`, a set of sets of faults, and a variable
`faults`, chosen once from it (in `Supervisor` and `SystemCheck`, whose proofs share a module
with those of another component, the common names have a prefix: `SupScenarios`, `supFaults`): an execution meets only the faults in it.  A run thus
checks executions without faults and executions with several kinds of them, and a
property that the code only keeps without some fault says so in its first line
(`faults \cap {...} = {} => ...`).  What the code may do in any execution is no fault, and
a property that it breaks ends with a history variable instead: `~overlapped` in `QueueRouter`,
`~stray` in `Supervisor`.  Section 5 tells what goes wrong with that fault.  `faults` is no
state of the program; no action changes it.

### QueueRouter

An item (a transmit entry, a command, a schedule tick, a web command) is a
model value that keeps its identity on its way through the lists; `Kind`, `Target`
and `OwnSeq` say what the entry's JSON would say.  Redis is `queue`, `ack`, `lastSeq`.
Of the process, `router` is started / stopped / started with its client gone
(`"broken"`, after the client's error event, `queue-router.js:81-87`), `loop[l]` is what a
check loop waits for together with what its closures captured (`seen`, the ack
state of `mget`; `args`, the keys; `item` and `seq`, the popped entry), `route[r]` is what the
router sees of a PeripheralRouter.  `sent`, `gatewayAcks`, `outcome` are history.

One action is one callback: `CheckQueue` issues `mget`, `GetAckState` is its reply and
issues `brpop`, `Brpop` is Redis executing it, and the `Process...` / `Drop...` / `Incr...`
actions are the branches of the reply.  A command whose reply only continues
the same loop is one step with the state change it makes in Redis (`del`, `incr ticks`, `lpush`);
`mset`, `incr retries` and `incr sequenceNumber` have a step for the reply, because
the loop transmits there.  `ThrowWithoutClient` is any callback that uses
`self.client` after it was set to null: it throws, the entry it holds is lost and the
loop ends.  `ProcessRoute` distinguishes the reader that is ready, that is still
opening ("not ready" is answered at once), and that is null (the callback throws).

`Start` finds the router stopped and nothing else: a HashWatcher that sees other settings calls
`stop` and `start` one after the other (`hash-watcher.js:99-102`), while a loop of before still waits for
its `brpop`, and then both go on.  `overlapped` remembers that this happened; `Slots` bounds
the loops there are at a time.  With one slot a restart waits until the loop of before has seen the stop
and ended.

External parts are modelled from their use: the gateway (`GatewayAck`: any
transmission may be acknowledged, later, in any order, `Duplicates` times more often
than sent), the peripheral (`Answer`, `RouteOpen`, `RouteReady`, `RouteError`, `RouteReset`).

### HashWatcher

Generic over its targets: `Config[t][h]` is the configuration that hash content `h` gives
to target `t`, `None` if required keys are missing.  `reads` are the `hgetall` commands under
way with their answers, `timers` the retry timers that are set and `tracked` whether
`retryTimeout` refers to one of them.  `HashReply` is the whole callback: compare, check
every keyset (stop, start), note readiness, set the timer.  `ClientLost` is what
RedisWatcher does when its client fails (`"blip"`: `end()` discards the pending replies) or when
it is stopped (`"quit"`: they still arrive).  `Write` is any change of the settings, by this or
another process; `Nudge` is the web application's `checkReady` (`routes/api.js:151`).
Services that the supervisor also starts and stops itself (modem, heartbeat)
are in `Supervisor`.

### DataReader

`Submit`, `Written` / `WriteFails` (the write callback), `TimeoutFires`, `Data` (the listener, a frame at a
time) and `Stop` are the handlers of `lib/data-reader.js`; `awaiting` is `lastCommand` with its
`responseCallback`, `timeout` the command whose timer `self.timeout` refers to, `lastData` the commands
that the frame read so far is about.  The device is external: `Hear` and `Send`
let it receive a command before the write callback runs and answer in time, late, or with a frame that
never ends.  `OwnResponse` compares what a callback was handed with what it asked for.

### PeripheralRouter

`r` is the state of the router; `SettingsRead` is one change of the hash in the order
the code has it: first the connection keyset (`hash-watcher.js:47`; `CheckConnection`: reset,
new peripheral, its status), then the `change` listener (`Change`).  A schedule is asked for
and comes later (`pending`, `ScheduleReply`); a connection opens later (`Opened`) and `makeReady` is
deferred once more (`DeferredReady`).  Readers dropped while they open are counted in `zombies`,
because their `ready` still arrives; schedules dropped while they tick in `leaked`.  `crashed`
is the exception of `Watcher.start` in a deferred call, after which nothing happens; the same exception
in the reply to `hgetall` (`NoteOff`) is only logged.

### Routes

A POST request is a process that goes through `Check`, `Count`, `SetRoute` and `Save`, one
Redis command each (`routes/api.js:227-252`), and may lose Redis in between (`Drop`).  RouteWatcher
reads the routes when told to (`asked`), starts a router for each one that `added` does not
contain, and `AddRoute` is the status `ready` of such a router.

### Bridge

A message is on its way twice: in `sending`, from `sendPrivate` / `sendPublic` (`Pass`) to the reply of
`mset` or `set` (`Sent`), and in `out`, from there until it is answered or lost.  Whether its link is UDP
(an ack comes back through `outsideListener`, if that is open) or HTTPS (status 200 is the ack, even
after a stop) is the constant `Https`.  `RouteAck` compares with the one slot `ignoreAckHint` and
always clears it.  `asked` counts the replies to `get`, `llen` and `incr` that HeartbeatGenerator
waits for, each of which is an action, so reports are queued, taken and acked between them.  Time is
counted in intervals of the timer: `age` is what `last-private-timestamp` says, and `Recent` the
comparison with one interval and 10 ms.  `TakeReport` and `ReportEnds` are what QueueRouter does to the
counter and the outstanding number.

### WebCommands

`connection[s]` is what Redis still has to execute of the client of browser `s`: a `brpop` blocks its
connection, so a second command, `del` and `quit` wait behind it.  `commandEvent` appends a push and a
pop at once (`command-behavior.js:79-80`), `Push`, `Pop`, `PopTimeout`, `Del` and `Quit` are Redis executing the
first of them.  A result is the entry of its command, on the browser's own list.  `RunsOut` is
when the ten seconds are over: without `"late"` only when no result can come any more.
`answer[c]` is what was shown for command `c`.  `Take`, `Result` and `LoseCommand` are the routers.

### RemoteShell

The near end is the SocketServer with browsers whose session names a remote supervisor: `link` is
the proxy socket, `relaySocket` the browser that was told `ready`.  Handlers of a behavior go on
forwarding whoever the relay socket is, and the far end's emissions go to the relay socket,
which may be none: the exception ends the process (`crashed`).  The far end is the same program without
a proxy; it has one `process`, and each child has an exit (the process is cleared and `exit`
emitted) and later a close (the process is cleared again).  `Quiet` is the browser's patience: without
`"abrupt"` it leaves when all it asked for is over.

### Supervisor

`sup` is the state of the watchers of the bridge process.  A call of one watcher that makes it call
another one (`stop` of pppd emits `ready`, whose handler stops modem and heartbeat) is one operator that
takes the system before and gives the system after the call, in the order of the code; `threw` says
that one of them threw.  `ConfigReply` checks the keysets in the order in which `m2m-supervisor.js` adds them.  `late` says
that a client that quit still owes a reply, `stray` that one came while the configuration was not
watched: it starts watchers all the same, with a client that is null (`blind`).  One that was lost is ended
and its replies are discarded; it is taken to report no second error, as `end()` removes the listeners of its stream.
`outputs` are the shell commands of pppd under way, which may end after `stop`; `orphan` is a serial port
that was still opening when the modem was stopped.  The interface and the pppd daemon are external.

### SystemCheck

`checker` is the SystemChecker with the closures of its search: `key` and `callback` are variables of the
`findBest` call that opened a port, `port` the state of its connection (`"left"`: given up before it opened).
`Check` is the event that is counted; the one that completes the count starts the dialogue with the modem
within the handler that emitted it.  `Ready` is the initializer's handler, `stores` its `hmset`.

## 3. Runs

| Run | Checks | Instance |
|---|---|---|
| `queues` | `EveryReportSettles`, `NothingLost` and the second part of `AttemptsKept` without faults, the gateway being free to stay silent; `Conservation`, `AckedWasReceived` always; `OneOutstanding`, `RouteExclusive`, `LoopAlive`, the bound of `AttemptsKept` and the refinement of `StopAndWait` also with stops, restarts, crashes and Redis, peripheral and reset errors, as far as each states | an item of each kind, two or three of them in a scenario; one route; restarts beside a loop under way in the scenario of one report |
| `settings` | `CurrentConfig` always; `StoppedStopsAll`, `PollsBounded`, `AnnouncedSeen` also with lost clients; `AgreeConnected`, `ConfigArrives` while the client stays | two keysets over four contents of the hash, one announced check |
| `reader` | `CalledOnce` always; `OwnResponseInTime` with early answers and a stop; `EveryCommandEnds` with late, cut and early frames | two commands, submitted again and again |
| `routes` | `SettingsCarriedOut`, `NothingLeft`, `OneCommand` when settings change in turn; `QueueServed` while connection and Redis stay | three connections (one of an unknown type), six configurations |
| `routing` | `SettingsRouted` always; `OneRoute`, `OneRouter`, `EveryPeripheralServed` under the conditions they state | three requests, two of them for one peripheral |
| `bridge` | `LinkKept` always; `AcksSorted`: for reports unless they have numbers of their own, for heartbeats unless acks cross or repeat | private link over UDP, public over HTTPS, three numbers |
| `web` | `AnswerToOwnCommand` always; `AnswerInTime` with commands that the router drops; `EveryCommandAnswered` with such commands and with late results | two browsers at one peripheral, three commands, two of them from one browser |
| `shell` | one relay, `OneBrowserServed`, always, the rest of it and `NoOrphan`, `EveryCommandOver` under the conditions they state | two browsers, two commands |
| `supervisor` | `NeverThrows` unless a port opens late or, for null clients, a reply comes after the stop; `RunTogether` with every fault, but for its last part; `PppTracked` with lost clients, stops, removed settings and slow commands, as far as it states | two settings of each keyset and none |
| `checker` | `OnceInOrder` and `CheckEnds` whatever the order of the answers, and as far as they state with late events, a modem that fails twice or is silent, and a failing Redis | two programs, up to three ports in any order, two modem commands |
| `redis_blip` | *violation* of `Agree` (section 5) | a lost and restored client |
| `hourly` | *violation* of `HeartbeatHourly` (section 5) | no fault, nothing else to send |

`TypeOK` is proved for every module and is not part of a run.

Bounds.

* `QueueRouter`: `maxRetries` and `maxTicks` are small, but large enough that a report uses both
  relays, waits with a backoff that reaches its cap, and is given up; they are parameters
  of the code too.  `SeqMod` is large enough that the reports of an instance get different
  numbers: with a smaller one an old ack would match a new report, as it would after 1000
  reports in the code (`queue-router.js:247`); `AckedWasReceived` is claimed under that
  assumption.  Two reports are enough for one to be taken while the other is outstanding,
  two commands at one route to compete while the report of one is outstanding.  There are two loop slots, an
  overlap, in the scenario of stops with one report, where it shows that `Conservation`, `LoopAlive` and
  `AckedWasReceived` outlive it, and one slot in the others; the theorems are for any number.
  `Duplicates` bounds the extra acks.
* `HashWatcher`: `maxNudges` bounds the announced checks, `maxPending` those still pending at a
  restart.  Four hash contents give each pair of keysets complete, incomplete, changed.
* `DataReader`: two commands are enough to mistake one's answer for the other's; they are
  submitted again for ever.  `maxLine` pieces may be on the line, a head and a tail of different frames.
* `PeripheralRouter`: two known connections and two schedules, so that each can follow the
  other; one configuration of each other kind.  `maxCommands` = 2 lets two commands overlap if
  the code does; `maxPending` bounds deferred calls, schedules asked for, dropped readers and leaked
  schedules, of each; without `"hasty"` the bound is never reached by the last two (`NothingLeft`), and
  with `maxPending` = 2 the runs without `"hasty"` give the same result.
* `Routes`: `maxRoutes` equals the number of requests; `maxRouters` = 2 lets a second router start.
* `Bridge`: three numbers for a report, a heartbeat and the number after them, so that numbers
  wrap; a number is drawn again only when nothing of it is left (`Free`), and the number of a
  hint that still stands not at all by reports, because 999 others lie between.  `maxMessages` = 1:
  a relayed message or the ack of a command sees at most one on its way; heartbeats are not
  bounded by it.  `maxAsked` bounds heartbeats asked for at once, and waiting commands.  `age` does
  not tell more than three intervals apart.
* `WebCommands`: `maxPending` = 2 requests on a connection let a browser send a second command, or
  choose its peripheral again, while the result of the first is awaited; two commands of one browser and
  one of another are enough for a result to reach the wrong command or the wrong browser.
* `RemoteShell`: `maxQueue` = 1 bounds what comes on top of commands and their ends (opening the view,
  signals, output), so two commands, a signal and an end can cross.
* `Supervisor`: `maxOutputs` = 2 lets a late output meet the command of the next check.
* `SystemCheck`: three ports are one more than the search needs; `maxLate` = 2 events come late,
  enough to end a port twice.

Fairness.  node runs every due callback and Redis answers every command of a
live client, so each loop step, timer and reply is weakly fair; the reader's
timeout answers every command written to a peripheral; RedisWatcher retries
until it has a client; a router that is started becomes ready (`Routes`), a connection opens
(`PeripheralRouter`): the two are about what follows then.  Nothing obliges the gateway to
acknowledge (in `Bridge` a message is answered or lost), a device to answer, or anyone to write complete settings.  Liveness is claimed of
executions without faults that could recur for ever.

Nobody is obliged to act at a browser: in `WebCommands` and `RemoteShell` only Redis, the
network, the routers and the commands' own ends are fair; in `Supervisor` the interval and the shell
commands of pppd, not the daemon, the interface or whoever edits settings; in `SystemCheck` everything
that has an answer or a timeout, which the modem's commands have not.

Deadlock is checked in the runs of `QueueRouter`, `HashWatcher`, `DataReader` and `Bridge`.  Elsewhere the
system really stops: with its process (`crashed`, `threw`) in `routes`, `shell`, `supervisor` and `checker`, when
the requests, commands or browsers of the instance have run out in `routing`, `web` and `shell`, and
when the check is over in `checker`.

## 4. Proofs

The theorems hold for every choice of the constants that meets the modules'
assumptions (TLC evaluates those in every run).

* `TypeCorrect` (QueueRouter).  The inductive invariant adds `HandOK` to `TypeOK`: a loop that holds an
  entry or waits for a counter holds an item, which is why `incr` and `mset` store one.
* `StopAndWaitSafe`: `Spec => []OneOutstanding`, for any number of loops and every restart.  `OneOutstanding` is not
  inductive; `LoopInv` adds, until loops overlap, that at most one loop is not idle (`SingleLoop`), that a loop that
  polls the transmit list saw no outstanding message and there still is none
  (`SeenFresh`), and that there is none while a report is in a loop's hand (`HandFree`).
  Every action that can break one of them needs a second loop, and there is one only after a `Start`
  that found another under way, which sets `overlapped` for good.
* `OverlapNeedsRestart`: loops overlap only in executions in which the router is stopped: crashes, errors of
  Redis and peripherals, late acks and replies never make a second loop by themselves.
* `LoopAliveHolds`: every branch of the callback of `brpop` ends in another check or waits for a reply
  that does.  The one that could throw hands an entry to a route; by `RoutesPolled` that
  route had a reader when the keys were chosen, and only a reset takes it away.
* `RouteExclusiveHolds`, until loops overlap: by `HeldOnce` a route that works on a
  command is named by no poll that waits, which needs that only one loop polls.
* `ConservationHolds`, under every fault, overlapping loops included.  `Conservation` counts places with
  `Cardinality`; the invariant says the same item by item (`Kept`: listed once, in one hand, with one
  route or in the ack state, and in no two of these), which a step changes in one place at a time.
  `WorkInv` adds what each branch relies on: a message that a loop has seen in the ack state and that is no
  longer there has ended (`SeenSettled`), so no loop revives it, and what the lists hold is of
  their kind (`EntryKinds`).
* `NothingLostHolds`: without a fault the client is never gone and a stopped router has no loop (`Smooth`), so
  none of the exits to `"lost"` is open.
* `AttemptsKeptHolds`; the bound until loops overlap.  The counter in Redis may be one ahead of what was sent
  (a crash between `incr` and `transmit`), never behind: `AttemptInv` says which of the two it is
  by what the loop waits for.  Without faults `ExactInv` makes the count exact and fixes the
  relay of each attempt.
* `StopAndWaitRefined`: `Spec => StopAndWaitSpec`, which is the specification of `StopAndWait` with every step
  but those from the first overlap on; step by step.  It needs
  `LoopInv` (a report is taken up only when none is outstanding, and the one a loop gives up is the one stored)
  and `WorkInv` (the one taken up is in no other place, and no step ends a report elsewhere).
* `AckedWasReceivedHolds`, under every fault, if there are numbers enough for acks to be told apart
  (`EnoughNumbers`: no more numbered reports than `SeqMod`, and the numbers that entries bring with them are
  different and none of the counter's).  In the code the counter wraps after 1000 reports (`queue-router.js:247`), and
  an ack would have to be older than that.  `NumberInv`: every number drawn is in the
  hands of one report (`Claims`), and an ack on its way names one that was received.
* `TypeCorrect` (HashWatcher) with `TimerOK`: the timer that `stop` clears is pending.
* `CurrentConfigHolds`: by `TargetInv`, what a target runs with is what it was last checked
  with (`target.lastJSON`) and a target not yet added does not run.  It holds even for
  replies that arrive after a stop.
* `AgreeConnectedHolds`: by `CheckedInv`, while the client stays each target was last checked with the
  hash last read and runs with what it was checked with.
* `PollsBoundedHolds`, `StoppedStopsAllHolds`: unless `stop` leaves replies to come (`"quit"`).  `PollInv` adds that
  a stopped watcher, and one whose own poll has ended, has only the polls others asked for.
* `TypeCorrect`, `AwaitingTimedHolds`, `CalledOnceHolds` (DataReader): a command is awaited only while its
  own timer runs and `self.timeout` is that timer, so an answer and a timeout can never both
  reach one callback, under every fault, overlapping commands included.
* `OwnResponseInTimeHolds`: while the device answers in time, whole and to one command at a time, all that is
  under way is of the one command submitted (`Tidy`): the line holds nothing, or its whole reply, or the
  second half of one whose first half is the only thing in `lastData`.
* `TypeCorrect` (PeripheralRouter).  `RouterOK` adds what every call relies on: a reader has a
  connection, an opening reader a known peripheral, commands an open connection.
* `OneCommandHolds`, `NothingLeftHolds`, `SettingsCarriedOutHolds`.  The three share `ConnectionInv` (with its
  first client the router runs with the connection of the settings last seen) and `TurnInv`: when the
  next settings are read nothing of the last is under way, so a router that reads settings never
  opens, waits for a schedule, or has a deferred `makeReady`.  `CommandInv`: the
  deferred `makeReady`, which frees the router, comes before the first command.  `ScheduleInv`: a schedule
  that ticks has an open connection, so `resetReader` stops it.  `ServeInv` and `TickInv` say of each
  stage of a change what the reader and the schedule will be when it is over.
* `TypeCorrect` (Routes) with `IndexOK`: `incr` gives every request an index of its own, even
  when they overlap, so no request overwrites the route of another.
* `SettingsRoutedHolds`: by `OwnRoute`, a request that saves settings has set its route before.
* `OneRouteHolds`: `InTurn` adds that at most one request is under way, that every route has
  settings or a request that will save them, and that a request that was not refused is for
  an ID without settings.
* `OneRouterHolds`: by `StartedOnce`, a router that is not ready yet was started for the routes last
  read, and no further reading reaches it before it is ready; with `OneRouteHolds` two routes cannot be of
  one peripheral.
* `TypeCorrect` (Bridge).
* `ReportAckRelayedHolds`: by `HintApart`, the hint differs from the number that QueueRouter waits for
  and from that of every report under way; it needs that a report draws its number.
* `HeartbeatAckIgnoredHolds`: by `OneBeat`, one heartbeat is asked for or under way, in one place, and the
  hint is its number; it needs that acks neither cross nor repeat.  `AcksSortedHolds` is both.
* `SilenceBoundedHolds`, twice the interval that `HeartbeatHourly` asks for, which is what the code does keep: by
  `InUse`, with nothing queued the link was used within the last interval whenever no
  heartbeat is on its way, and within two when one is asked for.  The timer looks at the age before it
  asks, so the bound is one interval more than that at which it asks.
* `TypeCorrect`, `AnswerToOwnCommandHolds` (WebCommands): by `OwnInv`, whatever lies in a list, a router or a
  request of a browser belongs to a command that the browser named there has sent, and requests on a
  connection wait in the order in which they were sent, so the entry found by a pop is never
  later than the command it answers.
* `AnswerInTimeHolds`, unless a result is late or the client fails.  `WaitInv`: whatever is on its way to a socket, from the
  list of a route to the web queue, is what that socket waits for right now (`Awaiting`), there is one such thing at
  most (`Alone`), and a command pushed is the next one popped (`Paired`); so the pop finds its own result.
* `TypeCorrect` (RemoteShell) with `ByOK`: what is under way has a browser that asked for it.
* `NoOrphanHolds`: by `ActiveOnly`, a child that runs is the active process, and one that has
  exited but not closed leaves none active until it closes.
* `OneBrowserServedHolds`: `OneRelay` and `LinkInv` (someone waits while the first connection is made); by
  `AllOfRelay`, all that is under way, and every child that has not closed, is the relay socket's.
* `SupervisorTypeCorrect`, `NeverThrowsHolds`, `RunTogetherHolds`: one invariant, `FitInv`.  `Remembered`: what
  runs does so with what its keyset was last checked with, which is what the hash says once it was read; so a
  check that changes something finds its watcher where it left it, also when the reply comes after the
  stop and starts what it should not.  `Seen`: before such a reply no watcher that runs has a null for its
  client, as what starts one finds the configuration watched or the client there.  `Running`: a pppd that is ready runs,
  and so does the modem; so its stop, nested in that of another, stops each of the two once.
  `Lasting`, for the last part of `RunTogether`: unless Redis fails or settings are removed, a gateway that
  once ran still runs.  It needs that no hash is told from every hash (`HashAssumption`).
* `CheckerTypeCorrect`, `OnceInOrderHolds`: `OnceInv` says what follows from the count (nothing before the expected number,
  one dialogue or one `ready` after it) and `PortInv` that a port is tried once and for one purpose; both hold
  with late events too.  `CheckInv` counts: without them the count is the number of items checked, and of the
  steps of the search that have ended (`Searching`), so it is complete only when both are.

Only model-checked: all liveness.  Liveness under fairness, `ENABLED`, and induction over data are
out of the prover's reach and stay with TLC.

## 5. Findings

Two runs end in a violation.  `redis_blip` shows a statement of the repository that the code does not keep: README.md:41 has the
services wait for Redis and their configuration "to be available" and then work; after a lost and
restored Redis client they stay stopped until a setting changes, because `target.lastJSON` outlives the
stop (`hash-watcher.js:97`).  `hourly` shows another: README.md:36 promises a heartbeat every hour; by the
10 ms of `heartbeat-generator.js:37` one is due only when the timer goes off for the second time, so an idle
link is silent for two hours, as long as the timer is on time.  `SilenceBoundedHolds` proves that it is
never longer.

Other behaviour of the code that TLC showed, and that the conditions of the
properties exclude; removing the fault from a condition and adding it to a scenario shows it.
The first three contradict a document, end the check loop or end the process:

| Condition | What happens without it |
|---|---|
| `~overlapped` in `OneOutstanding`, `AttemptsKept`, `RouteExclusive`, `StopAndWaitSpec` | README.md:43 promises an entry is taken "only if no outstanding message is waiting"; a stop and a start within one poll leave two loops (`queue-router.js:111`), and a HashWatcher restarts the router in exactly this way when its settings change (`hash-watcher.js:99-102`): each loop takes a report, and the later one overwrites the other's ack state |
| `"routeReset"` in `LoopAlive` | a route that loses its reader between the choice of the keys and the arrival of its entry ends the check loop (`peripheral-router.js:161` on null) |
| `"hasty"` in `NothingLeft` | settings that change while a reader opens start a schedule twice, and the exception of `watcher.js:30` ends the process (`peripheral-router.js:46`) |
| `"hasty"` in `SettingsCarriedOut` | new commands that come while the reader opens do not replace it (`peripheral-router.js:73`) |
| `"both"` in `SettingsCarriedOut` | a first connection that comes with new commands makes a reader with the old ones (`hash-watcher.js:47-49`, `peripheral-router.js:36`) |
| `"odd"` in `SettingsCarriedOut`, `NothingLeft` | a schedule read for a peripheral without reader is started by routing none, and nobody stops it (`peripheral-router.js:34`, `:46`) |
| `"blip"` in `SettingsCarriedOut` | the router keeps the client it was started with, its settings watcher gets a new one (`peripheral-router.js:114`) |
| `"error"` in `QueueServed` | an error of an idle connection leaves the router busy (`peripheral-router.js:29`) |
| `"midwrite"` in `OneCommand` | the callback of a write that outlives a reset clears `busyState` of the next reader (`peripheral-router.js:161`) |
| `"late"`, `"cut"`, `"overlap"` in `OwnResponseInTime` | an answer after its timeout is handed to the next command, and so is a partial frame read before (`data-reader.js:48`, `:58`) |
| `"crossing"`, `"again"` in `HeartbeatAckIgnored` | any ack clears the hint, and the next ack of the heartbeat is relayed; QueueRouter drops it as one that does not match (`gateway-proxy.js:101`) |
| `"own"` in `ReportAckRelayed` | an entry with a sequence number of its own may have that of the hint, and its ack is kept from QueueRouter, which sends it again (`queue-router.js:246`) |
| `"concurrent"`, `"bare"`, `"drop"` in `OneRoute` | an ID is looked up three commands before it is taken; a request without settings, or one cut off, takes none (`routes/api.js:240`, `:246`) |
| `"slow"` in `OneRouter` | a router that is not ready yet is unknown to the queue router and is started again (`route-watcher.js:25`) |
| `"late"`, `"error"` in `AnswerInTime` | a result that comes after `timeout` stays in the web queue and is shown as the answer to the browser's next command (`command-behavior.js:80`) |
| `"busyActs"` in `OneBrowserServed`, `EveryCommandOver` | the commands of a browser that was told `busy` are relayed all the same, and what they say goes to the other one (`socket-server.js:101`, `:78`) |
| `"drop"`, `"abrupt"` in `OneBrowserServed` | the proxy socket connects again, or emits, when there is no relay socket: the process ends (`socket-server.js:87`, `:111`) |
| `"hasty"` in `NoOrphan` | a command typed between exit and close of the one before runs on without being the active process; neither `kill` nor a disconnect reaches it (`shell-behavior.js:61`) |
| `"slowPort"` in `NeverThrows` | a modem that was stopped while its port opened uses the connection it has set to null (`serial-peripheral.js:33`) |
| `~stray` in `NeverThrows`, `RunTogether`; `"quit"` in `StoppedStopsAll`, `PollsBounded` | a reply to `hgetall` that comes after `RedisWatcher.stop` (`redis-watcher.js:23`) is not asked whether the watcher still runs (`hash-watcher.js:38-50`): it starts gateway, pppd, modem and heartbeat, which the stop has missed, and whose client is null, so the heartbeat throws (`heartbeat-generator.js:52`) |
| `"unset"`, `"blip"`, `"quit"` in `RunTogether` | pppd that becomes ready starts the heartbeat with the configuration that the gateway had last, though it is stopped (`m2m-supervisor.js:82`) |
| `"waiting"`, `"slowShell"` in `PppTracked` | an interface that is gone while the daemon stays is not noted (`pppd-watcher.js:60`); an output that comes late may be the last one noted |
| `"redisError"` in `OnceInOrder` | a failing `hmset` calls `finishCallback` twice (`system-initializer.js:67`) |
| `"late"`, `"twice"` in `OnceInOrder`, `CheckEnds` | a late event of a port moves the search on twice, or uses a connection that is null (`system-checker.js:102`) |
| `"silent"` in `CheckEnds` | a modem that leaves a command unanswered holds the check for ever: the dialogue has no timeout (`system-checker.js:153`) |

Two things seen while modelling that no property is about: `exists.redis` of a
missing program is the word `missing`, which is truthy, so its absence is never reported (`system-checker.js:72`,
`system-initializer.js:17`); and an echo of `AT` that
arrives apart from its OK makes the search reject a modem (`system-checker.js:120`).

## 6. Not modelled

* Pure functions over strings, without state: command and schedule factories, hash helpers, message
  encoding.  Constant tables: schema, settings, hash keys.
* NetworkNoter writes the addresses of an interface once; DhclientWatcher only triggers it.
* IoPeripheral's differences between telnet, serial and file, and the retries of a failed open: a
  peripheral that is not open yet behaves the same to its reader.  The periods of a schedule.
* Of the API, what reads or changes one key at a time; ProxyHelper relays requests.
* Web server, session, logging, statistics, the browser client and its views, command-line tools.
* Vendored code (half of the repository's lines are one vendored library of the browser client)
  and the tests, which are used as a reference only.  With them left out the map names most of the code
  that keeps state.

What is left to do: a composition in which a `HashWatcher` restarts `QueueRouter`; the factories as operators over bounded inputs.
