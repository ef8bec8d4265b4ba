----------------------------- MODULE QueueRouter -----------------------------
(***************************************************************************)
(* The transceiver's queue loop, services/queue-router.js: it moves work   *)
(* between lists kept in Redis and sends each report to the gateway until  *)
(* the gateway acknowledges it.  An item of work keeps its identity on its *)
(* way through the lists:                                                  *)
(*                                                                         *)
(*   "command" -> a route -> (peripheral) -> "transmit" -> ack -> outcome  *)
(*                                                                         *)
(* The lists, the ack state and the last sequence number are in Redis and  *)
(* survive a crash; the rest is the memory of the node process, where      *)
(* every Redis command is asynchronous: an action is one callback, and     *)
(* "loop" holds what each check loop waits for and what its closures hold. *)
(***************************************************************************)
EXTENDS Naturals, Sequences, FiniteSets

CONSTANTS
  Items,        \* the units of work: transmit entries, commands, schedule ticks
  Routes,       \* the peripheral queues registered by addRoute
  None,         \* no item
  Loops,        \* slots for check loops
  Kind,         \* Items -> Kinds: where an item enters and what becomes of it
  Target,       \* Items -> Routes: the route a command names
  OwnSeq,       \* Items -> Nat: the sequence number an entry carries, 0 if none
  maxRetries,   \* config.maxRetries, 168 by default
  maxTicks,     \* config.maxTicks, 720 by default
  SeqMod,       \* sequence numbers run from 1 to SeqMod (1000 in the code)
  Duplicates,   \* acks of an item that may arrive beyond one per transmission
  Scenarios,    \* the sets of faults that an execution may meet
  Workload,     \* Scenarios -> SUBSET Items: the items submitted in it
  Slots         \* Scenarios -> SUBSET Loops: the bound on loops that overlap

Kinds == {"mo", "malformed", "mt", "unroutable", "schedule", "web", "invalid"}
FaultKinds == {"stop", "redisError", "crash", "routeReset", "routeError"}
Lists == {"ack", "command", "transmit"}
Keys  == Lists \cup Routes

ASSUME ItemsAssumption ==
  /\ None \notin Items /\ None \notin Keys
  /\ Lists \cap Routes = {}
  /\ Kind \in [Items -> Kinds]
  /\ \A e \in Items : Kind[e] \in {"mt", "schedule", "web", "invalid"} => Target[e] \in Routes
  /\ \A e \in Items : Target[e] \notin Lists
  /\ OwnSeq \in [Items -> Nat]

ASSUME BoundsAssumption ==
  /\ maxRetries \in Nat /\ maxTicks \in Nat /\ Duplicates \in Nat
  /\ SeqMod \in Nat \ {0}
  /\ Scenarios \subseteq SUBSET FaultKinds
  /\ Workload \in [Scenarios -> SUBSET Items]
  /\ Slots \in [Scenarios -> SUBSET Loops]

VARIABLES
  faults,       \* the faults this execution may meet
  queue,        \* Redis: the lists, oldest entry first
  ack,          \* Redis: the message that waits for its ack, and its counters
  lastSeq,      \* Redis: the last sequence number drawn
  router,       \* started with a client, "broken": started without, or stopped
  loop,         \* the check loops of the process
  route,        \* what the router sees of each PeripheralRouter
  sent,         \* history: the transmissions of each item
  gatewayAcks,  \* history: how often the gateway acknowledged each item
  outcome,      \* history: what became of each item
  overlapped    \* history: a check loop was started beside one still under way

redisVars   == <<queue, ack, lastSeq>>
historyVars == <<sent, gatewayAcks, outcome>>
runVars     == <<faults, overlapped>>
vars        == <<runVars, redisVars, router, loop, route, historyVars>>

-----------------------------------------------------------------------------
(* Types *)

AckState == [message : Items \cup {None}, retries : Nat, ticks : Nat, seq : Nat]
NoAck    == [message |-> None, retries |-> 0, ticks |-> 0, seq |-> 0]

\* A check loop: the reply it waits for, the ack state it read, the keys it polls,
\* and the entry popped for it: its list and the item, or the number of an ack.
Ops == {"idle", "check", "mget", "brpop", "popped", "incrRetries", "incrSeq", "mset"}
LoopState == [op : Ops, seen : AckState, args : SUBSET Keys, from : Keys \cup {None},
              item : Items \cup {None}, seq : Nat]
Idle      == [op |-> "idle", seen |-> NoAck, args |-> {}, from |-> None,
              item |-> None, seq |-> 0]
Checking  == [Idle EXCEPT !.op = "check"]

RouteState == [reader : {"none", "opening", "ready"}, busyState : BOOLEAN,
               held : SUBSET Items]
RouteInit  == [reader |-> "none", busyState |-> TRUE, held |-> {}]

Transmission == [seq : Nat, relay : {"primary", "secondary"}]
Outcomes == {"new", "live", "acked", "failed", "dropped", "answered", "lost"}

TypeOK ==
  /\ DOMAIN queue = Keys
  /\ queue["ack"] \in Seq(Nat)
  /\ \A k \in Keys \ {"ack"} : queue[k] \in Seq(Items)
  /\ ack \in AckState
  /\ lastSeq \in Nat
  /\ router \in {"stopped", "running", "broken"}
  /\ loop \in [Loops -> LoopState]
  /\ route \in [Routes -> RouteState]
  /\ sent \in [Items -> Seq(Transmission)]
  /\ gatewayAcks \in [Items -> Nat]
  /\ outcome \in [Items -> Outcomes]
  /\ overlapped \in BOOLEAN

Init ==
  /\ faults \in Scenarios
  /\ queue = [k \in Keys |-> <<>>] /\ ack = NoAck /\ lastSeq = 0
  /\ router = "stopped"
  /\ loop = [l \in Loops |-> Idle]
  /\ route = [r \in Routes |-> RouteInit]
  /\ sent = [e \in Items |-> <<>>]
  /\ gatewayAcks = [e \in Items |-> 0]
  /\ outcome = [e \in Items |-> "new"]
  /\ overlapped = FALSE

-----------------------------------------------------------------------------
(* Helpers *)

Become(l, state) == loop' = [loop EXCEPT ![l] = state]

\* noteQueueResult: 'queueResult' defers the next 'checkQueue' event.
NoteQueueResult(l) == Become(l, Checking)

\* A callback throws on a null object: its promise is rejected and nothing emits
\* 'queueResult' again.
Throw(l) == Become(l, Idle)

Push(k, entry) == queue' = [queue EXCEPT ![k] = Append(@, entry)]

Conclude(S, how) == outcome' = [e \in Items |-> IF e \in S THEN how ELSE outcome[e]]

\* The entry loop l got from list k, and the item only its memory still holds.
Entry(l, k) == loop[l].op = "popped" /\ loop[l].from = k
InHand(l) == {e \in Items : e = loop[l].item /\ loop[l].op \in {"popped", "incrSeq"}}

\* The datagram to the relay port of the GatewayProxy.
TransmitMessage(e, n, toggleRelay) ==
  sent' = [sent EXCEPT ![e] =
    Append(@, [seq |-> n, relay |-> IF toggleRelay THEN "secondary" ELSE "primary"])]

\* 'del' removes whatever Redis holds; the loop credits the message it has seen.
DelAckState(l, how) ==
  /\ ack' = NoAck
  /\ outcome' = [e \in Items |->
                   IF e = loop[l].seen.message THEN how
                   ELSE IF e = ack.message THEN "lost" ELSE outcome[e]]

\* 'mset' of the ack state; a message still outstanding there is overwritten.
AssembleMessage(l, e, n) ==
  /\ ack' = [message |-> e, retries |-> 0, ticks |-> 0, seq |-> n]
  /\ Conclude({ack.message} \ {e}, "lost")
  /\ Become(l, [Idle EXCEPT !.op = "mset", !.item = e, !.seq = n])

-----------------------------------------------------------------------------
(* start and stop, called by the HashWatcher of the configuration; failures *)

\* The HashWatcher restarts the router by stop(); start() when its settings change,
\* so a loop of before may still wait for Redis; then both go on.
Start ==
  /\ router = "stopped"
  /\ \E l \in Loops : l \in Slots[faults] /\ loop[l].op = "idle" /\ NoteQueueResult(l)
  /\ router' = "running"
  /\ overlapped' = (overlapped \/ \E l \in Loops : loop[l].op # "idle")
  /\ UNCHANGED <<faults, redisVars, route, historyVars>>

\* quit lets the replies already asked for arrive.
Stop ==
  /\ "stop" \in faults
  /\ router # "stopped"
  /\ router' = "stopped"
  /\ UNCHANGED <<runVars, redisVars, loop, route, historyVars>>

\* The client's 'error' event: end() discards every reply asked of it.  A reply that
\* an earlier client owes, or that its promise already has, still comes.
RedisError ==
  /\ "redisError" \in faults
  /\ router = "running"
  /\ router' = "broken"
  /\ \E kept \in SUBSET Loops :
       /\ \A l \in Loops : loop[l].op = "check" => l \in kept
       /\ loop' = [l \in Loops |-> IF l \in kept THEN loop[l] ELSE Idle]
       /\ Conclude(UNION {InHand(l) : l \in Loops \ kept}, "lost")
  /\ UNCHANGED <<runVars, redisVars, route, sent, gatewayAcks>>

\* The node process ends: its memory is gone, Redis is not.
ProcessEnds ==
  /\ router' = "stopped"
  /\ loop' = [l \in Loops |-> Idle]
  /\ route' = [r \in Routes |-> RouteInit]
  /\ Conclude(UNION ({InHand(l) : l \in Loops} \cup {route[r].held : r \in Routes}), "lost")
  /\ UNCHANGED <<runVars, redisVars, sent, gatewayAcks>>

Crash == "crash" \in faults /\ router # "stopped" /\ ProcessEnds

-----------------------------------------------------------------------------
(* checkQueue: mget, then brpop *)

CheckQueue(l) ==
  /\ loop[l].op = "check"
  /\ \/ /\ router = "stopped" /\ Become(l, Idle)
        /\ UNCHANGED <<router, route, outcome>>
     \/ /\ router = "running" /\ Become(l, [Checking EXCEPT !.op = "mget", !.seen = ack])
        /\ UNCHANGED <<router, route, outcome>>
     \/ router = "broken" /\ ProcessEnds   \* self.client is null: nothing catches it
  /\ UNCHANGED <<runVars, redisVars, sent, gatewayAcks>>

\* Mutants of Busy (a command handed over is forgotten) and of SetQueueArgs (the
\* transmit queue is polled whatever is outstanding).
NotReady(r) == route[r].reader # "ready"
AllQueueArgs(seen) == Keys

Busy(r) == route[r].reader # "ready" \/ route[r].busyState

SetQueueArgs(seen) ==
  (IF seen.message = None THEN Lists ELSE Lists \ {"transmit"}) \cup {r \in Routes : ~Busy(r)}

\* The reply of mget.
GetAckState(l) ==
  /\ loop[l].op = "mget"
  /\ router = "running"
  /\ Become(l, [loop[l] EXCEPT !.op = "brpop", !.args = SetQueueArgs(loop[l].seen)])
  /\ UNCHANGED <<runVars, redisVars, router, route, historyVars>>

\* brpop takes from the first of its keys whose list is not empty.
Waiting(l) == {k \in loop[l].args : queue[k] # <<>>}
Rank(k) == CASE k = "ack" -> 1 [] k = "command" -> 2 [] k = "transmit" -> 3 [] OTHER -> 4

Brpop(l) ==
  /\ loop[l].op = "brpop"
  /\ \E k \in Waiting(l) :
       /\ \A j \in Waiting(l) : Rank(k) <= Rank(j)
       /\ queue' = [queue EXCEPT ![k] = Tail(@)]
       /\ Become(l, [loop[l] EXCEPT !.op = "popped", !.args = {}, !.from = k,
                       !.item = IF k = "ack" THEN None ELSE Head(queue[k]),
                       !.seq  = IF k = "ack" THEN Head(queue[k]) ELSE 0])
  /\ UNCHANGED <<runVars, ack, lastSeq, router, route, historyVars>>

\* timeoutInterval passes with nothing to pop.
TimedOut(l) == loop[l].op = "brpop" /\ Waiting(l) = {}

NoteIdle(l) ==
  /\ TimedOut(l)
  /\ loop[l].seen.message = None
  /\ NoteQueueResult(l)
  /\ UNCHANGED <<runVars, redisVars, router, route, historyVars>>

-----------------------------------------------------------------------------
(* processPendingMessage: a message is outstanding and nothing came *)

PendingMessage(l) == TimedOut(l) /\ loop[l].seen.message # None

Backoff(retries) == IF 2^retries - 1 < maxTicks THEN 2^retries - 1 ELSE maxTicks

\* Mutant of ToggleRelay.
NeverToggle(retries) == FALSE

Exhausted(retries) == retries >= maxRetries
Waits(state) == state.ticks < Backoff(state.retries)
ToggleRelay(retries) == retries % 2 = 1

TooManyRetries(l) ==
  /\ PendingMessage(l) /\ router = "running"
  /\ Exhausted(loop[l].seen.retries)
  /\ DelAckState(l, "failed")
  /\ NoteQueueResult(l)
  /\ UNCHANGED <<runVars, queue, lastSeq, router, route, sent, gatewayAcks>>

IncrTicks(l) ==
  /\ PendingMessage(l) /\ router = "running"
  /\ ~Exhausted(loop[l].seen.retries) /\ Waits(loop[l].seen)
  /\ ack' = [ack EXCEPT !.ticks = @ + 1]
  /\ NoteQueueResult(l)
  /\ UNCHANGED <<runVars, queue, lastSeq, router, route, historyVars>>

IncrRetries(l) ==
  /\ PendingMessage(l) /\ router = "running"
  /\ ~Exhausted(loop[l].seen.retries) /\ ~Waits(loop[l].seen)
  /\ ack' = [ack EXCEPT !.retries = @ + 1, !.ticks = 0]
  /\ Become(l, [loop[l] EXCEPT !.op = "incrRetries", !.args = {}])
  /\ UNCHANGED <<runVars, queue, lastSeq, router, route, historyVars>>

\* The reply of incr: every second retry goes by the other relay.
Retransmit(l) ==
  /\ loop[l].op = "incrRetries"
  /\ LET seen == loop[l].seen IN
       TransmitMessage(seen.message, seen.seq, ToggleRelay(seen.retries))
  /\ NoteQueueResult(l)
  /\ UNCHANGED <<runVars, redisVars, router, route, gatewayAcks, outcome>>

-----------------------------------------------------------------------------
(* processQueueEntry: an entry came *)

\* Mutant: any ack settles the outstanding message.
AnyAck(l) == loop[l].seen.message # None

MatchingAck(l) == loop[l].seen.message # None /\ loop[l].seq = loop[l].seen.seq

ProcessAck(l) ==
  /\ Entry(l, "ack") /\ MatchingAck(l)
  /\ router = "running"
  /\ DelAckState(l, "acked")
  /\ NoteQueueResult(l)
  /\ UNCHANGED <<runVars, queue, lastSeq, router, route, sent, gatewayAcks>>

\* Mutant of IgnoreAck: the branch forgets noteQueueResult.
IgnoreAckSilently(l) ==
  /\ Entry(l, "ack") /\ ~MatchingAck(l)
  /\ Throw(l)
  /\ UNCHANGED <<runVars, redisVars, router, route, historyVars>>

IgnoreAck(l) ==
  /\ Entry(l, "ack") /\ ~MatchingAck(l)
  /\ NoteQueueResult(l)
  /\ UNCHANGED <<runVars, redisVars, router, route, historyVars>>

\* Unknown route, missing command, other event code; contents that are not JSON; an
\* entry of a route without a command.  (A command is always JSON: the GatewayProxy
\* stringifies each one, and nothing else writes that list.)
Unusable(l) ==
  \/ Entry(l, "command") /\ Kind[loop[l].item] = "unroutable"
  \/ Entry(l, "transmit") /\ Kind[loop[l].item] = "malformed"
  \/ \E r \in Routes : Entry(l, r) /\ Kind[loop[l].item] = "invalid"

DropEntry(l) ==
  /\ Unusable(l)
  /\ Conclude(InHand(l), "dropped")
  /\ NoteQueueResult(l)
  /\ UNCHANGED <<runVars, redisVars, router, route, sent, gatewayAcks>>

ProcessCommand(l) ==
  /\ Entry(l, "command") /\ ~Unusable(l)
  /\ router = "running"
  /\ Push(Target[loop[l].item], loop[l].item)
  /\ NoteQueueResult(l)
  /\ UNCHANGED <<runVars, ack, lastSeq, router, route, historyVars>>

\* An entry with a number of its own is stored at once, another draws the next.
ProcessTransmit(l) ==
  LET e == loop[l].item IN
  /\ Entry(l, "transmit") /\ ~Unusable(l)
  /\ router = "running"
  /\ \/ /\ OwnSeq[e] # 0
        /\ AssembleMessage(l, e, OwnSeq[e])
        /\ UNCHANGED lastSeq
     \/ /\ OwnSeq[e] = 0
        /\ lastSeq' = lastSeq + 1
        /\ Become(l, [Idle EXCEPT !.op = "incrSeq", !.item = e,
                                  !.seq = (lastSeq % SeqMod) + 1])
        /\ UNCHANGED <<ack, outcome>>
  /\ UNCHANGED <<runVars, queue, router, route, sent, gatewayAcks>>

\* The reply of incr.
GenerateMessage(l) ==
  /\ loop[l].op = "incrSeq"
  /\ router = "running"
  /\ AssembleMessage(l, loop[l].item, loop[l].seq)
  /\ UNCHANGED <<runVars, queue, lastSeq, router, route, sent, gatewayAcks>>

\* The reply of mset: the first transmission, by the primary relay.
Transmit(l) ==
  /\ loop[l].op = "mset"
  /\ TransmitMessage(loop[l].item, loop[l].seq, FALSE)
  /\ NoteQueueResult(l)
  /\ UNCHANGED <<runVars, redisVars, router, route, gatewayAcks, outcome>>

\* The callbacks that use self.client: after stop or a client error it is null,
\* they throw, and the entry they hold is lost.
NeedsClient(l) ==
  \/ loop[l].op \in {"mget", "incrSeq"}
  \/ PendingMessage(l)
  \/ Entry(l, "ack") /\ MatchingAck(l)
  \/ (Entry(l, "command") \/ Entry(l, "transmit")) /\ ~Unusable(l)

ThrowWithoutClient(l) ==
  /\ router # "running" /\ NeedsClient(l)
  /\ Throw(l)
  /\ Conclude(InHand(l), "lost")
  /\ UNCHANGED <<runVars, redisVars, router, route, sent, gatewayAcks>>

-----------------------------------------------------------------------------
(* processRoute, and what the router depends on in the PeripheralRouter *)

PushResultTwice(e) ==      \* mutant: a web result is reported to the gateway as well
  /\ Push("transmit", e)
  /\ IF Kind[e] = "web" THEN Conclude({e}, "answered") ELSE UNCHANGED outcome

\* The result of a command goes to its destination or to the transmit queue.
PushResult(e) ==
  IF Kind[e] = "web" THEN Conclude({e}, "answered") /\ UNCHANGED queue
                     ELSE Push("transmit", e) /\ UNCHANGED outcome

ProcessRoute(l) ==
  /\ ~Unusable(l)
  /\ \E r \in Routes : LET e == loop[l].item IN
       /\ Entry(l, r)
       /\ \/ /\ route[r].reader = "ready"      \* written to the peripheral
             /\ route' = [route EXCEPT ![r].held = @ \cup {e}, ![r].busyState = TRUE]
             /\ NoteQueueResult(l)
             /\ UNCHANGED <<queue, outcome>>
          \/ /\ route[r].reader = "opening"    \* answered at once: 'not ready'
             /\ route' = [route EXCEPT ![r].busyState = FALSE]
             /\ PushResult(e)
             /\ NoteQueueResult(l)
          \/ /\ route[r].reader = "none"       \* self.reader is null: submit throws
             /\ route' = [route EXCEPT ![r].busyState = TRUE]
             /\ Conclude({e}, "lost")
             /\ Throw(l)
             /\ UNCHANGED queue
  /\ UNCHANGED <<runVars, ack, lastSeq, router, sent, gatewayAcks>>

\* The callback of submit: a response, a write error or the reader's timeout.
Answer(r, e) ==
  /\ e \in route[r].held
  /\ route' = [route EXCEPT ![r].held = @ \ {e}, ![r].busyState = FALSE]
  /\ PushResult(e)
  /\ UNCHANGED <<runVars, ack, lastSeq, router, loop, sent, gatewayAcks>>

\* A reader is created; its peripheral opens and makeReady runs; an error of its
\* connection marks the route busy, and nothing but an answer clears that.
RouteOpen(r)  == /\ route[r].reader = "none"
                 /\ route' = [route EXCEPT ![r].reader = "opening"]
RouteReady(r) == /\ route[r].reader = "opening"
                 /\ route' = [route EXCEPT ![r].reader = "ready", ![r].busyState = FALSE]
RouteError(r) == /\ "routeError" \in faults
                 /\ route[r].reader = "ready"
                 /\ route' = [route EXCEPT ![r].busyState = TRUE]

\* resetReader, on a change of the peripheral's settings.  A command whose
\* timer runs is never answered; one still being written is.  (PeripheralRouter
\* has the reset of a reader that still opens.)
RouteReset(r) ==
  /\ "routeReset" \in faults
  /\ route[r].reader = "ready"
  /\ \E keep \in SUBSET route[r].held :
       /\ route' = [route EXCEPT ![r] = [RouteInit EXCEPT !.held = keep]]
       /\ Conclude(route[r].held \ keep, "lost")

RouteStep(r) ==
  /\ \/ (RouteOpen(r) \/ RouteReady(r) \/ RouteError(r)) /\ UNCHANGED outcome
     \/ RouteReset(r)
  /\ UNCHANGED <<runVars, redisVars, router, loop, sent, gatewayAcks>>

-----------------------------------------------------------------------------
(* Producers of work, and the gateway *)

EntryList(e) == CASE Kind[e] \in {"mo", "malformed"}  -> "transmit"
                  [] Kind[e] \in {"mt", "unroutable"} -> "command"
                  [] OTHER                            -> Target[e]

Submit(e) ==
  /\ e \in Workload[faults]
  /\ outcome[e] = "new"
  /\ Conclude({e}, "live")
  /\ Push(EntryList(e), e)
  /\ UNCHANGED <<runVars, ack, lastSeq, router, loop, route, sent, gatewayAcks>>

\* A datagram may be lost on its way, or be delivered and acknowledged; late,
\* repeated and reordered acks included.  The GatewayProxy pushes each one.
GatewayAck(e) ==
  /\ gatewayAcks[e] < Len(sent[e]) + Duplicates
  /\ \E i \in 1..Len(sent[e]) : Push("ack", sent[e][i].seq)
  /\ gatewayAcks' = [gatewayAcks EXCEPT ![e] = @ + 1]
  /\ UNCHANGED <<runVars, ack, lastSeq, router, loop, route, sent, outcome>>

-----------------------------------------------------------------------------
(* Specification *)

\* The steps of one check loop: callbacks of the process and replies of Redis.
LoopStep(l) ==
  \/ CheckQueue(l) \/ GetAckState(l) \/ Brpop(l) \/ NoteIdle(l)
  \/ TooManyRetries(l) \/ IncrTicks(l) \/ IncrRetries(l) \/ Retransmit(l)
  \/ ProcessAck(l) \/ IgnoreAck(l) \/ DropEntry(l) \/ ProcessCommand(l)
  \/ ProcessTransmit(l) \/ GenerateMessage(l) \/ Transmit(l) \/ ProcessRoute(l)
  \/ ThrowWithoutClient(l)

Next ==
  \/ Start \/ Stop \/ RedisError \/ Crash
  \/ \E l \in Loops : LoopStep(l)
  \/ \E r \in Routes : RouteStep(r) \/ \E e \in Items : Answer(r, e)
  \/ \E e \in Items : Submit(e) \/ GatewayAck(e)

Spec == Init /\ [][Next]_vars

\* node runs every callback that is due and Redis answers every command, so a
\* check loop never stands still; the reader's timer answers every command
\* written to a peripheral; the HashWatcher starts the router.  Nothing obliges
\* the gateway to acknowledge or a peripheral to open.
FairSpec ==
  /\ Spec
  /\ WF_vars(Start)
  /\ \A l \in Loops : WF_vars(LoopStep(l))
  /\ \A r \in Routes, e \in Items : WF_vars(Answer(r, e))

-----------------------------------------------------------------------------
(* Properties *)

\* The reports taken from the transmit queue and not yet settled: in the hand of
\* a check loop on their way to the ack state, or in the ack state.
InFlight(l) ==
  {e \in Items : /\ e = loop[l].item
                 /\ Entry(l, "transmit") \/ loop[l].op = "incrSeq"}

Outstanding == (UNION {InFlight(l) : l \in Loops}) \cup ({ack.message} \ {None})

\* README.md:43: a transmit entry is taken only when no earlier message waits for
\* its ack, over stops, restarts and crashes at any point; until a restart for the first
\* time starts a check loop beside one still under way, after which it does not hold.
OneOutstanding ==
  ~overlapped => /\ Cardinality(Outstanding) <= 1
                 /\ \A l, m \in Loops : InFlight(l) # {} /\ InFlight(m) # {} => l = m

\* Where an item is: its positions in the lists, the loops and the peripherals
\* that hold it, the ack state.
Places(e) ==
  (UNION {{<<k, i>> : i \in {j \in 1..Len(queue[k]) : queue[k][j] = e}} : k \in Keys \ {"ack"}})
  \cup {<<"hand", l>> : l \in {m \in Loops : e \in InHand(m)}}
  \cup {<<"held", r>> : r \in {q \in Routes : e \in route[q].held}}
  \cup {<<"ack", 0>> : x \in {ack.message} \cap {e}}

\* Work is neither lost nor duplicated on its way through the queues: an accepted
\* item that has not ended is in exactly one place, any other in none.  The only
\* exits are the outcomes, and "lost" is reached only through a fault.
Conservation ==
  \A e \in Items : Cardinality(Places(e)) = (IF outcome[e] = "live" THEN 1 ELSE 0)

\* Without a fault no accepted item is lost, in whatever order acks arrive.
NothingLost == faults = {} => \A e \in Items : outcome[e] # "lost"

\* maxRetries bounds the transmissions of a report, over crashes and restarts, as the
\* retry is counted in Redis before it is sent (two loops that overlap may both send a
\* last one); and without a fault a report is given up only after every attempt it is
\* entitled to, over both relays if there is a second retry.
AttemptsKept ==
  /\ ~overlapped => \A e \in Items : /\ Len(sent[e]) <= maxRetries + 1
                                     /\ e = ack.message => Len(sent[e]) <= ack.retries + 1
  /\ faults = {} => \A e \in Items : outcome[e] = "failed" =>
    /\ Len(sent[e]) = maxRetries + 1
    /\ maxRetries >= 2 => \A relay \in {"primary", "secondary"} :
                            \E i \in 1..Len(sent[e]) : sent[e][i].relay = relay

\* A report is taken for delivered only if the gateway received it: a late or
\* repeated ack of another message is never credited to it.  It needs sequence
\* numbers that do not wrap while an old ack can still arrive.
AckedWasReceived == \A e \in Items : outcome[e] = "acked" => gatewayAcks[e] > 0

\* A peripheral is handed one command at a time: no poll that is already waiting
\* names the queue of a route that works on a command; while no loops have overlapped
\* and no route is reset.  (A second loop may pop while the first one hands over; the
\* reset of a route forgets a command that is being written.)
RouteExclusive ==
  "routeReset" \notin faults /\ ~overlapped =>
    \A r \in Routes : /\ Cardinality(route[r].held) <= 1
                      /\ route[r].held # {} => \A l \in Loops : r \notin loop[l].args

\* While the router is started on a live client some check loop is under way: the
\* queues are checked, whatever the entries are and whatever was stopped before.
QueuesChecked == router = "running" => \E l \in Loops : loop[l].op # "idle"

\* It is so unless a route is reset: no other fault and no entry ends the loop.
LoopAlive == "routeReset" \notin faults => QueuesChecked

\* Without a fault the backlog of reports is worked off, again and again: each one that
\* reaches the transmit queue is settled, however silent the gateway is (Conservation
\* and NothingLost: it is then acked, given up or dropped as unreadable).
EveryReportSettles ==
  faults = {} => []<>(queue["transmit"] = <<>> /\ Outstanding = {})

\* The promise of the transmit side (StopAndWait): its queue, the report that is
\* outstanding, and how the reports taken so far ended.  It is kept by every step up
\* to the one with which check loops overlap for the first time.
outstandingReport == IF Outstanding = {} THEN None ELSE CHOOSE e \in Outstanding : TRUE

Promise == INSTANCE StopAndWait WITH
  Reports     <- Items,
  waiting     <- queue["transmit"],
  outstanding <- outstandingReport,
  acked       <- {e \in Items : outcome[e] = "acked"},
  failed      <- {e \in Items : outcome[e] = "failed"}

StopAndWaitSpec == Promise!Init /\ [][~overlapped' => Promise!Next]_(Promise!vars)
=============================================================================
