----------------------------- MODULE WebCommands -----------------------------
(***************************************************************************)
(* sockets/command-behavior.js: a browser chooses a peripheral and sends   *)
(* it commands.  A command is pushed on the list of the peripheral's       *)
(* route, its result comes back through a list of the browser's own, for   *)
(* which the same Redis client waits with brpop and a timeout.  brpop      *)
(* blocks its connection: what the behavior asks of the client meanwhile   *)
(* (the next command, del, quit) waits until it is over.                   *)
(***************************************************************************)
EXTENDS Naturals, Sequences

CONSTANTS
  Sockets,      \* the connections of browsers, each with a clientID of its own
  Commands,     \* the commands they send, each of them once
  Sender,       \* Commands -> Sockets
  Routes,       \* the peripherals
  None,
  Timeout,      \* the answer of a brpop that ran out
  maxPending,   \* bound: requests that wait on one Redis connection
  Scenarios     \* the sets of faults that an execution may meet:
                \* "late": a result comes after the timeout of its command;
                \* "lost": the router drops a command it works on;
                \* "error": the Redis client of a socket fails

ASSUME CommandsAssumption ==
  /\ Sockets # {} /\ Sockets \cap Routes = {}
  /\ None \notin Sockets \cup Routes \cup Commands
  /\ Sender \in [Commands -> Sockets]
  /\ Timeout \notin Commands \cup {None}
  /\ maxPending \in Nat
  /\ Scenarios \subseteq SUBSET {"late", "lost", "error"}

VARIABLES
  faults,           \* the faults this execution may meet
  connected,        \* the sockets whose browser has not left
  commandQueueKey,  \* the route a socket sends to, or None
  redisClient,      \* whether a socket has a Redis client
  connection,       \* what Redis still has to execute of a socket's client
  queue,            \* Redis: the lists of the routes and of the sockets
  held,             \* the entry the router of a route works on, or None
  number,           \* history: of a command, in the order its socket sent them; or 0
  sent,             \* history: how many it sent
  answer,           \* what a socket was told about a command
  crashed           \* an exception in an event handler ended the process

socketVars == <<connected, commandQueueKey, redisClient>>
history    == <<number, sent>>
vars == <<faults, socketVars, connection, queue, held, history, answer, crashed>>

\* A list entry: a result is the entry of its command, on its way back.
Entry   == [command : Commands, destination : Sockets]
Request ==
  {q \in [op : {"push", "pop", "del", "quit"}, key : Routes \cup Sockets \cup {None},
          command : Commands \cup {None}] :
     /\ q.op = "push" => q.key \in Routes
     /\ q.op \in {"pop", "del"} => q.key \in Sockets
     /\ q.op \in {"push", "pop"} => q.command \in Commands}

TypeOK ==
  /\ connected \subseteq Sockets
  /\ commandQueueKey \in [Sockets -> Routes \cup {None}]
  /\ redisClient \in [Sockets -> BOOLEAN]
  /\ connection \in [Sockets -> Seq(Request)]
  /\ queue \in [Routes \cup Sockets -> Seq(Entry)]
  /\ held \in [Routes -> Entry \cup {None}]
  /\ number \in [Commands -> Nat] /\ sent \in [Sockets -> Nat]
  /\ answer \in [Commands -> Commands \cup {None, Timeout}]
  /\ crashed \in BOOLEAN

Init ==
  /\ faults \in Scenarios
  /\ connected = Sockets
  /\ commandQueueKey = [s \in Sockets |-> None]
  /\ redisClient = [s \in Sockets |-> FALSE]
  /\ connection = [s \in Sockets |-> <<>>]
  /\ queue = [k \in Routes \cup Sockets |-> <<>>]
  /\ held = [r \in Routes |-> None]
  /\ number = [c \in Commands |-> 0] /\ sent = [s \in Sockets |-> 0]
  /\ answer = [c \in Commands |-> None]
  /\ crashed = FALSE

-----------------------------------------------------------------------------
(* The socket's events *)

\* Mutant of WebQueueKey: one web queue for everybody.
SharedQueueKey(s) == CHOOSE t \in Sockets : TRUE

\* socket.webQueueKey
WebQueueKey(s) == s

ToDo(op, key, c) == [op |-> op, key |-> key, command |-> c]

Ask(s, requests) == connection' = [connection EXCEPT ![s] = @ \o requests]

\* peripheralEvent, of a peripheral whose route has a reader (without one it only
\* says so): a client is made unless there is one, and old results are deleted.
PeripheralEvent(s, r) ==
  /\ s \in connected
  /\ Len(connection[s]) < maxPending
  /\ redisClient' = [redisClient EXCEPT ![s] = TRUE]
  /\ commandQueueKey' = [commandQueueKey EXCEPT ![s] = r]
  /\ Ask(s, <<ToDo("del", WebQueueKey(s), None)>>)
  /\ UNCHANGED <<faults, connected, queue, held, history, answer, crashed>>

\* Mutant of CommandRequests: the result is awaited before the command is pushed.
PopFirst(s, c) ==
  <<ToDo("pop", WebQueueKey(s), c), ToDo("push", commandQueueKey[s], c)>>

CommandRequests(s, c) ==
  <<ToDo("push", commandQueueKey[s], c), ToDo("pop", WebQueueKey(s), c)>>

\* commandEvent: a command is pushed and its result awaited, one after the other on
\* the same connection.  Whether the route still has a reader is not asked.
CommandEvent(s, c) ==
  /\ s \in connected /\ commandQueueKey[s] # None
  /\ Sender[c] = s /\ number[c] = 0
  /\ redisClient[s]
  /\ Len(connection[s]) < maxPending
  /\ number' = [number EXCEPT ![c] = sent[s] + 1]
  /\ sent' = [sent EXCEPT ![s] = @ + 1]
  /\ Ask(s, CommandRequests(s, c))
  /\ UNCHANGED <<faults, socketVars, queue, held, answer, crashed>>

\* commandEvent after the client failed: its key is still there, the client is null.
CommandThrows(s) ==
  /\ s \in connected /\ commandQueueKey[s] # None /\ ~redisClient[s]
  /\ crashed' = TRUE
  /\ UNCHANGED <<faults, socketVars, connection, queue, held, history, answer>>

\* disconnectEvent (and closeEvent, an event that no browser sends): the client
\* deletes the web queue and quits once what was asked of it before is done.
Disconnect(s) ==
  /\ s \in connected
  /\ connected' = connected \ {s}
  /\ commandQueueKey' = [commandQueueKey EXCEPT ![s] = None]
  /\ redisClient' = [redisClient EXCEPT ![s] = FALSE]
  /\ IF redisClient[s] THEN Ask(s, <<ToDo("del", WebQueueKey(s), None), ToDo("quit", None, None)>>)
                       ELSE UNCHANGED connection
  /\ UNCHANGED <<faults, queue, held, history, answer, crashed>>

\* The error handler of the client: what was asked of it is forgotten.
ClientError(s) ==
  /\ "error" \in faults
  /\ redisClient[s]
  /\ redisClient' = [redisClient EXCEPT ![s] = FALSE]
  /\ connection' = [connection EXCEPT ![s] = <<>>]
  /\ UNCHANGED <<faults, connected, commandQueueKey, queue, held, history, answer, crashed>>

-----------------------------------------------------------------------------
(* Redis executes what the client of a socket asked for *)

Executes(s, op) ==
  /\ connection[s] # <<>> /\ Head(connection[s]).op = op
  /\ connection' = [connection EXCEPT ![s] = Tail(@)]
  /\ UNCHANGED <<faults, socketVars, held, history, crashed>>

Push(s) ==
  /\ Executes(s, "push")
  /\ LET q == Head(connection[s]) IN
       queue' = [queue EXCEPT ![q.key] =
                   Append(@, [command |-> q.command, destination |-> WebQueueKey(s)])]
  /\ UNCHANGED answer

\* The reply of brpop: whatever the web queue holds answers the command.
Pop(s) ==
  /\ Executes(s, "pop")
  /\ LET q == Head(connection[s]) IN
       /\ queue[q.key] # <<>>
       /\ queue' = [queue EXCEPT ![q.key] = Tail(@)]
       /\ answer' = [answer EXCEPT ![q.command] = Head(queue[q.key]).command]

\* Where the result of a command may still come from.
Underway(c) ==
  \/ \E k \in DOMAIN queue : \E i \in DOMAIN queue[k] : queue[k][i].command = c
  \/ \E r \in Routes : held[r] # None /\ held[r].command = c

\* Mutant of RunsOut: brpop without a timeout.
NeverRunsOut(c) == FALSE

\* The ten seconds are over; unless "late", the result does not come any more.
RunsOut(c) == "late" \in faults \/ ~Underway(c)

PopTimeout(s) ==
  /\ Executes(s, "pop")
  /\ LET q == Head(connection[s]) IN
       /\ queue[q.key] = <<>>
       /\ RunsOut(q.command)
       /\ answer' = [answer EXCEPT ![q.command] = Timeout]
  /\ UNCHANGED queue

Del(s) ==
  /\ Executes(s, "del")
  /\ queue' = [queue EXCEPT ![Head(connection[s]).key] = <<>>]
  /\ UNCHANGED answer

Quit(s) == Executes(s, "quit") /\ UNCHANGED <<queue, answer>>

-----------------------------------------------------------------------------
(* The routers *)

\* QueueRouter hands the next entry to the PeripheralRouter when that is not busy.
Take(r) ==
  /\ held[r] = None /\ queue[r] # <<>>
  /\ held' = [held EXCEPT ![r] = Head(queue[r])]
  /\ queue' = [queue EXCEPT ![r] = Tail(@)]
  /\ UNCHANGED <<faults, socketVars, connection, history, answer, crashed>>

\* The callback of submit: the response, or the error of the peripheral.
Result(r) ==
  /\ held[r] # None
  /\ queue' = [queue EXCEPT ![held[r].destination] = Append(@, held[r])]
  /\ held' = [held EXCEPT ![r] = None]
  /\ UNCHANGED <<faults, socketVars, connection, history, answer, crashed>>

\* The router is reset or stopped: nothing becomes of the command.
LoseCommand(r) ==
  /\ "lost" \in faults /\ held[r] # None
  /\ held' = [held EXCEPT ![r] = None]
  /\ UNCHANGED <<faults, socketVars, connection, queue, history, answer, crashed>>

Next ==
  /\ ~crashed
  /\ \/ \E s \in Sockets :
          \/ CommandThrows(s) \/ Disconnect(s) \/ ClientError(s)
          \/ Push(s) \/ Pop(s) \/ PopTimeout(s) \/ Del(s) \/ Quit(s)
          \/ \E r \in Routes : PeripheralEvent(s, r)
          \/ \E c \in Commands : CommandEvent(s, c)
     \/ \E r \in Routes : Take(r) \/ Result(r) \/ LoseCommand(r)

Spec == Init /\ [][Next]_vars

\* Redis executes what it is asked and ends a brpop after its timeout; a router
\* takes the next entry when it is free, and the reader's timeout answers it.
FairSpec ==
  /\ Spec
  /\ \A s \in Sockets : WF_vars(~crashed /\ (Push(s) \/ Pop(s) \/ PopTimeout(s) \/ Del(s) \/ Quit(s)))
  /\ \A r \in Routes : WF_vars(~crashed /\ Take(r)) /\ WF_vars(~crashed /\ Result(r))

-----------------------------------------------------------------------------
(* Properties *)

\* A result shown as the answer to a command is that of a command that the same
\* browser sent, and sent no later: never of another browser at the same
\* peripheral, over timeouts, results that come late, lost clients and browsers
\* that leave.
AnswerToOwnCommand ==
  \A c \in Commands : answer[c] \in Commands =>
    Sender[answer[c]] = Sender[c] /\ number[answer[c]] <= number[c]

\* It is that of the command itself, unless a result came after its timeout or the
\* client failed in between: then it is left in the web queue for the next command.
AnswerInTime ==
  faults \cap {"late", "error"} = {} =>
    \A c \in Commands : answer[c] \in Commands => answer[c] = c

\* Every command a browser sends is answered in the end, by a result or by
\* 'timeout', though its router loses it, and though the browser sends others
\* meanwhile, chooses another peripheral or leaves.
EveryCommandAnswered ==
  "error" \notin faults => \A c \in Commands : number[c] > 0 ~> answer[c] # None
=============================================================================
