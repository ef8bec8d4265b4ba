----------------------------- MODULE RemoteShell -----------------------------
(***************************************************************************)
(* sockets/socket-server.js and sockets/shell-behavior.js: browsers whose  *)
(* session names a remote supervisor share one socket to it (the proxy     *)
(* socket).  One of them is told 'ready' and is the relay socket, to which *)
(* whatever the remote end emits is relayed; the others are told 'busy'.   *)
(* The remote end is a SocketServer without a proxy: it runs the commands  *)
(* of its one socket, the far end of the proxy socket, in a shell.         *)
(***************************************************************************)
EXTENDS Naturals, Sequences

CONSTANTS
  Browsers,     \* the sockets that browsers open
  Commands,     \* the commands they submit, each of them once, and their processes
  None,
  maxQueue,     \* bound: messages under way when a browser opens the view or sends a
                \* signal, or a process writes; commands and their ends come on top
  Scenarios     \* the sets of faults that an execution may meet:
                \* "abrupt": a browser leaves before all it asked for is over;
                \* "busyActs": one that was told 'busy' goes on all the same;
                \* "drop": the connection to the remote supervisor is lost;
                \* "hasty": a command arrives between the exit of the one before
                \* and the end of its output

ASSUME RemoteShellAssumption ==
  /\ None \notin Browsers \cup Commands
  /\ maxQueue \in Nat
  /\ Scenarios \subseteq SUBSET {"abrupt", "busyActs", "drop", "hasty"}

VARIABLES
  faults,       \* the faults this execution may meet
  browser,      \* what a browser was told last, "new" or "gone"
  relaySocket,  \* proxySocket.relaySocket
  link,         \* the proxy socket: "none", "connecting" or "up"
  shellApplied, \* the browsers with the handlers of the shell behavior
  down, up,     \* messages under way to the remote supervisor and from it
  farApplied,   \* whether the far end has the handlers of the shell behavior
  process,      \* the far end's socket.process
  children,     \* the processes whose events go to the current far end
  state,        \* of a process: "new", "running", "exited" or "closed"
  killed,       \* history: the processes that were sent a signal
  by,           \* history: the browser that submitted a command
  over,         \* history: the commands whose end or refusal was relayed
  crashed       \* an exception in an event handler ended the process

farVars   == <<farApplied, process, children, state, killed>>
history   == <<by, over>>
nearVars  == <<browser, relaySocket, shellApplied>>
vars == <<faults, nearVars, link, down, up, farVars, history, crashed>>

\* A message of a browser; and one for it: whose it is and the command it ends.
Downward == [event : {"behavior", "kill"}, from : Browsers, command : {None}]
            \cup [event : {"input"}, from : Browsers, command : Commands]
Upward   == [of : Browsers, ends : Commands \cup {None}]

TypeOK ==
  /\ browser \in [Browsers -> {"new", "waiting", "ready", "busy", "gone"}]
  /\ relaySocket \in Browsers \cup {None}
  /\ link \in {"none", "connecting", "up"}
  /\ shellApplied \subseteq Browsers
  /\ down \in Seq(Downward) /\ up \in Seq(Upward)
  /\ farApplied \in BOOLEAN
  /\ process \in Commands \cup {None} /\ children \subseteq Commands
  /\ state \in [Commands -> {"new", "running", "exited", "closed"}]
  /\ killed \subseteq Commands /\ over \subseteq Commands
  /\ by \in [Commands -> Browsers \cup {None}]
  /\ crashed \in BOOLEAN

Init ==
  /\ faults \in Scenarios
  /\ browser = [b \in Browsers |-> "new"]
  /\ relaySocket = None /\ link = "none"
  /\ shellApplied = {} /\ farApplied = FALSE
  /\ down = <<>> /\ up = <<>>
  /\ process = None /\ children = {}
  /\ state = [c \in Commands |-> "new"]
  /\ killed = {} /\ over = {}
  /\ by = [c \in Commands |-> None]
  /\ crashed = FALSE

-----------------------------------------------------------------------------
(* The near end: SocketServer and its browsers *)

\* 'connection' with a session that names the remote supervisor: findProxySocket.
Connect(b) ==
  /\ browser[b] = "new"
  /\ \/ /\ link = "none"
        /\ link' = "connecting" /\ relaySocket' = b
        /\ browser' = [browser EXCEPT ![b] = "waiting"]
     \/ /\ link # "none" /\ relaySocket = None
        /\ relaySocket' = b /\ UNCHANGED link
        /\ browser' = [browser EXCEPT ![b] = "ready"]
     \/ /\ link # "none" /\ relaySocket # None
        /\ browser' = [browser EXCEPT ![b] = "busy"]
        /\ UNCHANGED <<relaySocket, link>>
  /\ UNCHANGED <<faults, shellApplied, down, up, farVars, history, crashed>>

\* 'connect' of the proxy socket, the first one or one after a loss: its far end is
\* a new socket.  The relay socket, of which there may be none, is told 'ready'.
LinkUp ==
  /\ link = "connecting"
  /\ link' = "up"
  /\ IF relaySocket = None
       THEN crashed' = TRUE /\ UNCHANGED browser
       ELSE browser' = [browser EXCEPT ![relaySocket] = "ready"] /\ UNCHANGED crashed
  /\ UNCHANGED <<faults, relaySocket, shellApplied, down, up, farVars, history>>

Room == Len(down) + Len(up) < maxQueue

\* socket.io's client keeps what is emitted while it is not connected.
Emit(event, b, c) ==
  down' = Append(down, [event |-> event, from |-> b, command |-> c])

Acts(b) == browser[b] = "ready" \/ (browser[b] = "busy" /\ "busyActs" \in faults)

\* 'behavior', on 'ready' and whenever the view of the shell is opened:
\* applyBehavior, then the event is forwarded, whether or not it was before.
Behavior(b) ==
  /\ Acts(b) /\ Room
  /\ shellApplied' = shellApplied \cup {b}
  /\ Emit("behavior", b, None)
  /\ UNCHANGED <<faults, browser, relaySocket, link, up, farVars, history, crashed>>

\* 'input', forwarded by the handler of applyBehavior whoever the relay socket is.
Input(b, c) ==
  /\ Acts(b) /\ b \in shellApplied
  /\ by[c] = None
  /\ by' = [by EXCEPT ![c] = b]
  /\ Emit("input", b, c)
  /\ UNCHANGED <<faults, nearVars, link, up, farVars, over, crashed>>

\* 'kill', likewise.
Kill(b) ==
  /\ Acts(b) /\ b \in shellApplied /\ Room
  /\ Emit("kill", b, None)
  /\ UNCHANGED <<faults, nearVars, link, up, farVars, history, crashed>>

\* Mutant of ResetRelay: it does not ask whose the proxy socket is.
ResetAnyRelay(b) == None

ResetRelay(b) == IF relaySocket = b THEN None ELSE relaySocket

\* All that was asked of the remote supervisor is over.
Quiet == /\ link = "up" /\ down = <<>> /\ up = <<>>
         /\ \A c \in children : state[c] = "closed"

\* 'disconnect' of a browser: the behaviors of a proxied socket are not told, and
\* neither is the remote supervisor.
Leave(b) ==
  /\ browser[b] \in {"waiting", "ready", "busy"}
  /\ "abrupt" \in faults \/ browser[b] = "busy" \/ Quiet
  /\ browser' = [browser EXCEPT ![b] = "gone"]
  /\ relaySocket' = ResetRelay(b)
  /\ UNCHANGED <<faults, link, shellApplied, down, up, farVars, history, crashed>>

\* An emission of the far end: to the relay socket, of which there may be none.
Deliver ==
  /\ up # <<>>
  /\ up' = Tail(up)
  /\ IF relaySocket = None
       THEN crashed' = TRUE /\ UNCHANGED over
       ELSE over' = over \cup ({Head(up).ends} \ {None}) /\ UNCHANGED crashed
  /\ UNCHANGED <<faults, nearVars, link, down, farVars, by>>

-----------------------------------------------------------------------------
(* The far end: ShellBehavior *)

Arrives(event) ==
  /\ link = "up" /\ down # <<>> /\ Head(down).event = event
  /\ down' = Tail(down)
  /\ UNCHANGED <<faults, nearVars, link, history, crashed>>

Answer(b, c) == up' = Append(up, [of |-> b, ends |-> c])

FarBehavior ==
  /\ Arrives("behavior")
  /\ farApplied' = TRUE
  /\ UNCHANGED <<up, process, children, state, killed>>

\* A far end without the behavior has no handler for the event.
FarIgnores ==
  /\ ~farApplied
  /\ Arrives("input") \/ Arrives("kill")
  /\ UNCHANGED <<up, farVars>>

\* inputEvent, no process active: 'started' is emitted.
FarStart ==
  /\ farApplied /\ process = None
  /\ "hasty" \in faults \/ \A c \in children : state[c] # "exited"
  /\ Arrives("input")
  /\ LET c == Head(down).command IN
       /\ state' = [state EXCEPT ![c] = "running"]
       /\ process' = c /\ children' = children \cup {c}
       /\ Answer(Head(down).from, None)
  /\ UNCHANGED <<farApplied, killed>>

\* Mutant of Refuse: the command is ignored without a word.
SayNothing(b, c) == UNCHANGED up

Refuse(b, c) == Answer(b, c)

\* inputEvent while a process is active.
FarRefuse ==
  /\ farApplied /\ process # None
  /\ Arrives("input")
  /\ Refuse(Head(down).from, Head(down).command)
  /\ UNCHANGED farVars

\* killEvent: the active process is sent the signal; without one, it is said so.
FarKill ==
  /\ farApplied
  /\ Arrives("kill")
  /\ \/ process # None /\ killed' = killed \cup {process} /\ UNCHANGED up
     \/ process = None /\ Answer(Head(down).from, None) /\ UNCHANGED killed
  /\ UNCHANGED <<farApplied, process, children, state>>

\* 'data' of its stdout or stderr.
Output(c) ==
  /\ state[c] \in {"running", "exited"} /\ c \in children
  /\ Room
  /\ Answer(by[c], None)
  /\ UNCHANGED <<faults, nearVars, link, down, farVars, history, crashed>>

\* 'exit'; of a process of an earlier far end, the event reaches nobody.
Exit(c) ==
  /\ state[c] = "running"
  /\ state' = [state EXCEPT ![c] = "exited"]
  /\ IF c \in children THEN process' = None /\ Answer(by[c], c)
                       ELSE UNCHANGED <<process, up>>
  /\ UNCHANGED <<faults, nearVars, link, down, farApplied, children, killed, history, crashed>>

\* 'close': the process is cleared again, whichever it is.  The event is emitted,
\* but the near end only logs a 'close' of the proxy socket.
Close(c) ==
  /\ state[c] = "exited"
  /\ state' = [state EXCEPT ![c] = "closed"]
  /\ process' = IF c \in children THEN None ELSE process
  /\ UNCHANGED <<faults, nearVars, link, down, up, farApplied, children, killed, history, crashed>>

\* Mutant of KillActiveProcess: a disconnected socket's process is left alone.
LeaveAlone == {}

KillActiveProcess == {process} \ {None}

\* The connection is lost with all that is under way: disconnectEvent at the far
\* end; at the near end 'disconnect' of the proxy socket is only logged.
Drop ==
  /\ "drop" \in faults /\ link = "up"
  /\ link' = "connecting"
  /\ down' = <<>> /\ up' = <<>>
  /\ killed' = killed \cup KillActiveProcess
  /\ process' = None /\ children' = {} /\ farApplied' = FALSE
  /\ UNCHANGED <<faults, nearVars, state, history, crashed>>

-----------------------------------------------------------------------------
Far == FarBehavior \/ FarIgnores \/ FarStart \/ FarRefuse \/ FarKill

Next ==
  /\ ~crashed
  /\ \/ LinkUp \/ Deliver \/ Far \/ Drop
     \/ \E b \in Browsers :
          \/ Connect(b) \/ Behavior(b) \/ Kill(b) \/ Leave(b)
          \/ \E c \in Commands : Input(b, c)
     \/ \E c \in Commands : Output(c) \/ Exit(c) \/ Close(c)

Spec == Init /\ [][Next]_vars

\* The connection is made in the end, what is under way arrives, and a command comes
\* to an end.
FairSpec ==
  /\ Spec
  /\ WF_vars(~crashed /\ LinkUp) /\ WF_vars(~crashed /\ Deliver) /\ WF_vars(~crashed /\ Far)
  /\ \A c \in Commands : WF_vars(~crashed /\ Exit(c)) /\ WF_vars(~crashed /\ Close(c))

-----------------------------------------------------------------------------
(* Properties *)

\* No command goes on that nobody can stop: a running process is the active one,
\* which 'kill' and a disconnect reach, or was sent a signal; unless a command
\* arrived before the output of the one before had ended, whose 'close' clears it.
NoOrphan ==
  "hasty" \notin faults =>
    \A c \in Commands : state[c] = "running" => c = process \/ c \in killed

\* Of the browsers that were told 'ready' and have not left, each is the relay
\* socket, however browsers come and go and the connection is lost and made again.
OneRelay == \A b \in Browsers : browser[b] \in {"waiting", "ready"} <=> relaySocket = b

\* One browser at a time has the remote supervisor.  What is under way is for the
\* browser that the relay socket is, so that it sees what its own commands say and
\* nothing else, unless a browser leaves before its commands are over or one goes on
\* that was told 'busy'; and if the connection is not lost either, there always is a
\* relay socket to tell.
OneBrowserServed ==
  /\ OneRelay
  /\ faults \cap {"abrupt", "busyActs"} = {} =>
       /\ \A i \in DOMAIN up : up[i].of = relaySocket
       /\ "drop" \in faults \/ ~crashed

\* A command that a browser submits is refused or comes to an end, and the browser is
\* told, unless it left, another acted in its stead or the connection was lost.
EveryCommandOver ==
  faults \cap {"abrupt", "busyActs", "drop"} = {} =>
    \A c \in Commands : by[c] # None ~> c \in over
=============================================================================
