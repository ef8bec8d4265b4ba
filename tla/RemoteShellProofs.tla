-------------------------- MODULE RemoteShellProofs --------------------------
(***************************************************************************)
(* Proofs about RemoteShell, for every number of browsers and commands.    *)
(***************************************************************************)
EXTENDS RemoteShell, TLAPS

-----------------------------------------------------------------------------
(* Sequences *)

\* The elements of a tail.
LEMMA TailElements ==
  ASSUME NEW S, NEW q \in Seq(S), q # <<>>
  PROVE  /\ Head(q) \in S /\ Head(q) = q[1] /\ 1 \in DOMAIN q
         /\ Tail(q) \in Seq(S)
         /\ \A i \in DOMAIN Tail(q) : i + 1 \in DOMAIN q /\ Tail(q)[i] = q[i + 1]
  OBVIOUS

\* What is appended comes last, or is the only element that is new.
LEMMA AppendElements ==
  ASSUME NEW S, NEW q \in Seq(S), NEW e \in S
  PROVE  /\ Append(q, e) \in Seq(S)
         /\ \A i \in DOMAIN Append(q, e) :
              (i \in DOMAIN q /\ Append(q, e)[i] = q[i]) \/ Append(q, e)[i] = e
  OBVIOUS

-----------------------------------------------------------------------------
(* Type correctness *)

\* Commands under way were submitted by a browser, and so were those of processes.
ByOK ==
  /\ \A i \in DOMAIN down : down[i].event = "input" => by[down[i].command] = down[i].from
  /\ \A c \in children : by[c] \in Browsers

TypeInv == TypeOK /\ ByOK

\* A message that a browser emits.
LEMMA EmitType ==
  ASSUME TypeOK, NEW event, NEW b, NEW c, Emit(event, b, c),
         [event |-> event, from |-> b, command |-> c] \in Downward
  PROVE  /\ down' \in Seq(Downward)
         /\ \A i \in DOMAIN down' :
              \/ i \in DOMAIN down /\ down'[i] = down[i]
              \/ down'[i] = [event |-> event, from |-> b, command |-> c]
  BY AppendElements DEF TypeOK, Emit

\* A message that arrives at the remote supervisor.
LEMMA ArrivesType ==
  ASSUME TypeOK, NEW event, Arrives(event)
  PROVE  /\ Head(down) \in Downward /\ Head(down).event = event
         /\ Head(down) = down[1] /\ 1 \in DOMAIN down
         /\ down' \in Seq(Downward)
         /\ \A i \in DOMAIN down' : i + 1 \in DOMAIN down /\ down'[i] = down[i + 1]
  BY TailElements DEF TypeOK, Arrives

\* A message that the remote supervisor emits.
LEMMA AnswerType ==
  ASSUME TypeOK, NEW b \in Browsers, NEW c \in Commands \cup {None}, Answer(b, c)
  PROVE  /\ up' \in Seq(Upward)
         /\ \A i \in DOMAIN up' :
              (i \in DOMAIN up /\ up'[i] = up[i]) \/ up'[i] = [of |-> b, ends |-> c]
<1>1. [of |-> b, ends |-> c] \in Upward
  BY DEF Upward
<1> QED
  BY <1>1, AppendElements DEF TypeOK, Answer

\* The messages of browsers.
LEMMA DownwardTypes ==
  /\ \A b \in Browsers : [event |-> "behavior", from |-> b, command |-> None] \in Downward
  /\ \A b \in Browsers : [event |-> "kill", from |-> b, command |-> None] \in Downward
  /\ \A b \in Browsers, c \in Commands : [event |-> "input", from |-> b, command |-> c] \in Downward
  /\ \A m \in Downward : m.from \in Browsers /\ m.command \in Commands \cup {None}
  /\ \A m \in Downward : m.event = "input" => m.command \in Commands
  BY DEF Downward

\* The parts of TypeOK that the browsers' events may change, and the far end's.
NearOK ==
  /\ browser \in [Browsers -> {"new", "waiting", "ready", "busy", "gone"}]
  /\ relaySocket \in Browsers \cup {None}
  /\ link \in {"none", "connecting", "up"}
  /\ shellApplied \subseteq Browsers /\ over \subseteq Commands
  /\ crashed \in BOOLEAN

FarOK ==
  /\ farApplied \in BOOLEAN
  /\ process \in Commands \cup {None} /\ children \subseteq Commands
  /\ state \in [Commands -> {"new", "running", "exited", "closed"}]
  /\ killed \subseteq Commands

\* The types, near end and far end apart.
LEMMA TypeParts ==
  TypeOK <=> /\ NearOK /\ FarOK
             /\ down \in Seq(Downward) /\ up \in Seq(Upward)
             /\ by \in [Commands -> Browsers \cup {None}]
  BY DEF TypeOK, NearOK, FarOK

\* So it is of the next state.
LEMMA TypePartsNext ==
  TypeOK' <=> /\ NearOK' /\ FarOK'
              /\ down' \in Seq(Downward) /\ up' \in Seq(Upward)
              /\ by' \in [Commands -> Browsers \cup {None}]
  BY DEF TypeOK, NearOK, FarOK

\* Every step keeps the types.
LEMMA TypeStep == TypeInv /\ [Next]_vars => TypeInv'
<1> SUFFICES ASSUME TypeInv, [Next]_vars PROVE TypeInv'
  OBVIOUS
<1> USE RemoteShellAssumption DEF TypeInv
<1>0. TypeOK /\ ByOK /\ NearOK /\ FarOK
  BY TypeParts
<1>1. CASE UNCHANGED vars
  BY <1>0, <1>1 DEF TypeOK, ByOK, vars, nearVars, farVars, history
<1>2. ASSUME NEW b \in Browsers, Connect(b) PROVE TypeInv'
  <2>1. NearOK'
    BY <1>0, <1>2 DEF Connect, NearOK, history
  <2> QED
    BY <1>0, <1>2, <2>1, TypeParts, TypePartsNext DEF Connect, FarOK, ByOK, farVars, history
<1>3. CASE LinkUp
  <2>1. NearOK'
    BY <1>0, <1>3 DEF LinkUp, NearOK, history
  <2> QED
    BY <1>0, <1>3, <2>1, TypeParts, TypePartsNext DEF LinkUp, FarOK, ByOK, farVars, history
<1>4. ASSUME NEW b \in Browsers, Behavior(b) PROVE TypeInv'
  <2>1. /\ down' \in Seq(Downward)
        /\ \A i \in DOMAIN down' : \/ i \in DOMAIN down /\ down'[i] = down[i]
                                   \/ down'[i].event = "behavior"
    <3>1. Emit("behavior", b, None)
      BY <1>4 DEF Behavior
    <3>2. [event |-> "behavior", from |-> b, command |-> None] \in Downward
      BY DownwardTypes
    <3>3. \A i \in DOMAIN down' :
            \/ i \in DOMAIN down /\ down'[i] = down[i]
            \/ down'[i] = [event |-> "behavior", from |-> b, command |-> None]
      BY <1>0, <3>1, <3>2, EmitType
    <3> QED
      BY <1>0, <3>1, <3>2, <3>3, EmitType
  <2>2. NearOK' /\ FarOK' /\ UNCHANGED <<up, by, children>>
    BY <1>0, <1>4 DEF Behavior, NearOK, FarOK, farVars, history
  <2> QED
    BY <1>0, <2>1, <2>2, TypeParts, TypePartsNext DEF ByOK
<1>5. ASSUME NEW b \in Browsers, NEW c \in Commands, Input(b, c) PROVE TypeInv'
  <2> DEFINE m == [event |-> "input", from |-> b, command |-> c]
  <2>1. /\ down' \in Seq(Downward)
        /\ \A i \in DOMAIN down' : (i \in DOMAIN down /\ down'[i] = down[i]) \/ down'[i] = m
    <3>1. Emit("input", b, c)
      BY <1>5 DEF Input
    <3>2. m \in Downward
      BY DownwardTypes
    <3> QED
      BY <1>0, <3>1, <3>2, EmitType
  <2>2. NearOK' /\ FarOK' /\ UNCHANGED <<up, children>>
    BY <1>0, <1>5 DEF Input, NearOK, FarOK, nearVars, farVars
  <2>3. /\ by' \in [Commands -> Browsers \cup {None}]
        /\ by'[c] = b /\ by[c] = None
        /\ \A d \in Commands \ {c} : by'[d] = by[d]
    BY <1>0, <1>5 DEF Input, TypeOK
  <2>4. \A i \in DOMAIN down' : down'[i].event = "input" => by'[down'[i].command] = down'[i].from
    <3> TAKE i \in DOMAIN down'
    <3> HAVE down'[i].event = "input"
    <3>1. CASE down'[i] = m
      BY <3>1, <2>3
    <3>2. CASE i \in DOMAIN down /\ down'[i] = down[i]
      <4>1. down[i] \in Downward
        BY <1>0, <3>2 DEF TypeOK
      <4>2. by[down[i].command] = down[i].from /\ down[i].from \in Browsers /\ down[i].command \in Commands
        BY <1>0, <3>2, <4>1, DownwardTypes DEF ByOK
      <4> QED
        BY <3>2, <4>2, <2>3
    <3> QED
      BY <2>1, <3>1, <3>2
  <2>5. \A d \in children' : by'[d] \in Browsers
    BY <1>0, <2>2, <2>3 DEF ByOK, FarOK
  <2> QED
    BY <1>0, <2>1, <2>2, <2>3, <2>4, <2>5, TypeParts, TypePartsNext DEF ByOK
<1>6. ASSUME NEW b \in Browsers, Kill(b) PROVE TypeInv'
  <2>1. /\ down' \in Seq(Downward)
        /\ \A i \in DOMAIN down' : \/ i \in DOMAIN down /\ down'[i] = down[i]
                                   \/ down'[i].event = "kill"
    <3>1. Emit("kill", b, None)
      BY <1>6 DEF Kill
    <3>2. [event |-> "kill", from |-> b, command |-> None] \in Downward
      BY DownwardTypes
    <3>3. \A i \in DOMAIN down' :
            \/ i \in DOMAIN down /\ down'[i] = down[i]
            \/ down'[i] = [event |-> "kill", from |-> b, command |-> None]
      BY <1>0, <3>1, <3>2, EmitType
    <3> QED
      BY <1>0, <3>1, <3>2, <3>3, EmitType
  <2>2. NearOK' /\ FarOK' /\ UNCHANGED <<up, by, children>>
    BY <1>0, <1>6 DEF Kill, NearOK, FarOK, nearVars, farVars, history
  <2> QED
    BY <1>0, <2>1, <2>2, TypeParts, TypePartsNext DEF ByOK
<1>7. ASSUME NEW b \in Browsers, Leave(b) PROVE TypeInv'
  <2>1. NearOK'
    BY <1>0, <1>7 DEF Leave, ResetRelay, NearOK, history
  <2> QED
    BY <1>0, <1>7, <2>1, TypeParts, TypePartsNext DEF Leave, FarOK, ByOK, farVars, history
<1>8. CASE Deliver
  <2>1. Head(up) \in Upward /\ up' \in Seq(Upward)
    BY <1>0, <1>8, TailElements DEF Deliver, TypeOK
  <2>2. NearOK'
    BY <1>0, <1>8, <2>1 DEF Deliver, NearOK, Upward, nearVars
  <2> QED
    BY <1>0, <1>8, <2>1, <2>2, TypeParts, TypePartsNext DEF Deliver, FarOK, ByOK, farVars
<1>9. CASE FarBehavior
  <2>1. Arrives("behavior")
    BY <1>9 DEF FarBehavior
  <2>2. FarOK' /\ NearOK' /\ UNCHANGED <<up, by, children>>
    BY <1>0, <1>9 DEF FarBehavior, Arrives, FarOK, NearOK, nearVars, history
  <2> QED
    BY <1>0, <2>1, <2>2, ArrivesType, TypeParts, TypePartsNext DEF ByOK
<1>10. CASE FarIgnores
  <2>1. PICK event : Arrives(event)
    BY <1>10 DEF FarIgnores
  <2>2. FarOK' /\ NearOK' /\ UNCHANGED <<up, by, children>>
    BY <1>0, <1>10 DEF FarIgnores, Arrives, FarOK, NearOK, nearVars, farVars, history
  <2> QED
    BY <1>0, <2>1, <2>2, ArrivesType, TypeParts, TypePartsNext DEF ByOK
<1>11. CASE FarStart
  <2> DEFINE c == Head(down).command
  <2>1. Arrives("input") /\ Answer(Head(down).from, None)
    BY <1>11 DEF FarStart
  <2>2. c \in Commands /\ Head(down).from \in Browsers /\ by[c] = Head(down).from
    BY <1>0, <2>1, ArrivesType, DownwardTypes DEF ByOK
  <2>3. up' \in Seq(Upward)
    BY <1>0, <2>1, <2>2, AnswerType
  <2>4. FarOK' /\ NearOK' /\ UNCHANGED by /\ children' = children \cup {c}
    BY <1>0, <1>11, <2>2 DEF FarStart, Arrives, FarOK, NearOK, nearVars, history
  <2> QED
    BY <1>0, <2>1, <2>2, <2>3, <2>4, ArrivesType, TypeParts, TypePartsNext DEF ByOK
<1>12. CASE FarRefuse
  <2>1. Arrives("input") /\ Answer(Head(down).from, Head(down).command)
    BY <1>12 DEF FarRefuse, Refuse
  <2>2. Head(down).command \in Commands /\ Head(down).from \in Browsers
    BY <1>0, <2>1, ArrivesType, DownwardTypes
  <2>3. up' \in Seq(Upward)
    BY <1>0, <2>1, <2>2, AnswerType
  <2>4. FarOK' /\ NearOK' /\ UNCHANGED <<by, children>>
    BY <1>0, <1>12 DEF FarRefuse, Arrives, FarOK, NearOK, nearVars, farVars, history
  <2> QED
    BY <1>0, <2>1, <2>3, <2>4, ArrivesType, TypeParts, TypePartsNext DEF ByOK
<1>13. CASE FarKill
  <2>1. Arrives("kill")
    BY <1>13 DEF FarKill
  <2>2. Head(down).from \in Browsers
    BY <1>0, <2>1, ArrivesType, DownwardTypes
  <2>3. up' \in Seq(Upward)
    BY <1>0, <1>13, <2>2, AnswerType DEF FarKill, TypeOK
  <2>4. FarOK' /\ NearOK' /\ UNCHANGED <<by, children>>
    BY <1>0, <1>13 DEF FarKill, Arrives, FarOK, NearOK, nearVars, history
  <2> QED
    BY <1>0, <2>1, <2>3, <2>4, ArrivesType, TypeParts, TypePartsNext DEF ByOK
<1>14. ASSUME NEW c \in Commands, Output(c) PROVE TypeInv'
  <2>1. up' \in Seq(Upward)
    BY <1>0, <1>14, AnswerType DEF Output, ByOK
  <2> QED
    BY <1>0, <1>14, <2>1, TypeParts, TypePartsNext
    DEF Output, FarOK, NearOK, ByOK, nearVars, farVars, history
<1>15. ASSUME NEW c \in Commands, Exit(c) PROVE TypeInv'
  <2>1. up' \in Seq(Upward)
    BY <1>0, <1>15, AnswerType DEF Exit, ByOK, TypeOK
  <2>2. FarOK' /\ NearOK' /\ UNCHANGED <<down, by, children>>
    BY <1>0, <1>15 DEF Exit, FarOK, NearOK, nearVars, history
  <2> QED
    BY <1>0, <2>1, <2>2, TypeParts, TypePartsNext DEF ByOK
<1>16. ASSUME NEW c \in Commands, Close(c) PROVE TypeInv'
  <2>1. FarOK' /\ NearOK' /\ UNCHANGED <<down, up, by, children>>
    BY <1>0, <1>16 DEF Close, FarOK, NearOK, nearVars, history
  <2> QED
    BY <1>0, <2>1, TypeParts, TypePartsNext DEF ByOK
<1>17. CASE Drop
  <2>1. FarOK' /\ NearOK' /\ UNCHANGED by
    BY <1>0, <1>17 DEF Drop, KillActiveProcess, FarOK, NearOK, nearVars, history
  <2>2. down' = <<>> /\ up' = <<>> /\ children' = {}
    BY <1>17 DEF Drop
  <2> QED
    BY <1>0, <2>1, <2>2, TypeParts, TypePartsNext DEF ByOK
<1> QED
  BY <1>1, <1>2, <1>3, <1>4, <1>5, <1>6, <1>7, <1>8, <1>9, <1>10, <1>11, <1>12, <1>13,
     <1>14, <1>15, <1>16, <1>17 DEF Next, Far

\* They hold at first.
LEMMA TypeInit == Init => TypeInv
<1>1. \A S : <<>> \in Seq(S) /\ DOMAIN <<>> = {}
  OBVIOUS
<1>2. Init => TypeOK
  BY <1>1 DEF Init, TypeOK
<1>3. Init => ByOK
  BY <1>1 DEF Init, ByOK
<1> QED
  BY <1>2, <1>3 DEF TypeInv

\* For any number of browsers and commands the variables keep their types, and what
\* is under way for or from a process has a browser that asked for it.
THEOREM TypeCorrect == Spec => []TypeOK
<1>1. Spec => []TypeInv
  BY TypeInit, TypeStep, PTL DEF Spec
<1> QED
  BY <1>1, PTL DEF TypeInv

-----------------------------------------------------------------------------
(* No process is left that nobody can stop *)

\* Of the processes whose events reach the far end only the active one runs, and
\* there is none while one has exited whose 'close' is still to come.
ActiveOnly ==
  /\ \A c \in children : state[c] = "running" => c = process
  /\ \A c \in children : state[c] = "exited" => process = None
  /\ \A c \in Commands \ children : state[c] = "running" => c \in killed

OrphanInv == "hasty" \notin faults => ActiveOnly

\* Every step keeps what runs within reach.
LEMMA OrphanStep == TypeInv /\ OrphanInv /\ [Next]_vars => OrphanInv'
<1> SUFFICES ASSUME TypeInv, OrphanInv, [Next]_vars, "hasty" \notin faults' PROVE ActiveOnly'
  BY DEF OrphanInv
<1> USE RemoteShellAssumption
<1>0. FarOK /\ TypeOK
  BY TypeParts DEF TypeInv
<1>a. "hasty" \notin faults
  BY DEF Next, vars, Connect, LinkUp, Behavior, Input, Kill, Leave, Deliver, Far, FarBehavior,
     FarIgnores, FarStart, FarRefuse, FarKill, Arrives, Output, Exit, Close, Drop
<1>b. ActiveOnly
  BY <1>a DEF OrphanInv
<1>1. CASE UNCHANGED farVars
  BY <1>b, <1>1 DEF ActiveOnly, farVars
<1>2. CASE FarBehavior
  BY <1>b, <1>2 DEF FarBehavior, ActiveOnly
<1>3. CASE FarStart
  <2> DEFINE c == Head(down).command
  <2>1. process = None /\ \A d \in children : state[d] # "exited"
    BY <1>3, <1>a DEF FarStart
  <2>2. c \in Commands
    BY <1>0, <1>3, ArrivesType, DownwardTypes DEF FarStart
  <2>3. /\ process' = c /\ children' = children \cup {c} /\ UNCHANGED killed
        /\ state' = [state EXCEPT ![c] = "running"]
    BY <1>3 DEF FarStart
  <2>4. \A d \in children : state[d] # "running"
    BY <1>0, <1>b, <2>1 DEF ActiveOnly, FarOK
  <2> QED
    BY <1>0, <1>b, <2>1, <2>2, <2>3, <2>4 DEF ActiveOnly, FarOK
<1>4. CASE FarKill
  BY <1>0, <1>b, <1>4 DEF FarKill, ActiveOnly, FarOK
<1>5. ASSUME NEW c \in Commands, Exit(c) PROVE ActiveOnly'
  <2>1. CASE c \in children
    BY <1>0, <1>b, <1>5, <2>1 DEF Exit, ActiveOnly, FarOK
  <2>2. CASE c \notin children
    BY <1>0, <1>b, <1>5, <2>2 DEF Exit, ActiveOnly, FarOK
  <2> QED
    BY <2>1, <2>2
<1>6. ASSUME NEW c \in Commands, Close(c) PROVE ActiveOnly'
  BY <1>0, <1>b, <1>6 DEF Close, ActiveOnly, FarOK
<1>7. CASE Drop
  BY <1>0, <1>b, <1>7 DEF Drop, KillActiveProcess, ActiveOnly, FarOK
<1> QED
  BY <1>1, <1>2, <1>3, <1>4, <1>5, <1>6, <1>7
  DEF Next, vars, Connect, LinkUp, Behavior, Input, Kill, Leave, Deliver, Far, FarIgnores,
      FarRefuse, Output

\* At first nothing runs.
LEMMA OrphanInit == Init => OrphanInv
  BY DEF Init, OrphanInv, ActiveOnly

\* What is active or was sent a signal is no orphan.
LEMMA OrphanImplies == TypeInv /\ OrphanInv => NoOrphan
<1> SUFFICES ASSUME TypeInv, OrphanInv PROVE NoOrphan
  OBVIOUS
<1> QED
  BY DEF OrphanInv, ActiveOnly, NoOrphan

\* Whatever becomes of the connection, a running process is the active one or was sent
\* a signal, unless commands arrive between an exit and the 'close' after it.
THEOREM NoOrphanHolds == Spec => []NoOrphan
<1>1. Init => TypeInv /\ OrphanInv
  BY TypeInit, OrphanInit
<1>2. TypeInv /\ OrphanInv /\ [Next]_vars => (TypeInv /\ OrphanInv)'
  BY TypeStep, OrphanStep
<1> QED
  BY <1>1, <1>2, OrphanImplies, PTL DEF Spec

-----------------------------------------------------------------------------
(* One browser at a time *)

\* Before the connection is first asked for there is no relay socket; while it is not
\* lost there is one when it is made.
LinkInv ==
  /\ link = "none" => relaySocket = None
  /\ faults \cap {"abrupt", "busyActs", "drop"} = {} /\ link = "connecting" => relaySocket # None

\* Everything under way is of the relay socket: messages either way, and processes.
AllOfRelay ==
  /\ \A i \in DOMAIN down : down[i].from = relaySocket
  /\ \A i \in DOMAIN up : up[i].of = relaySocket
  /\ \A c \in children : state[c] # "closed" => by[c] = relaySocket

Polite == faults \cap {"abrupt", "busyActs"} = {}

RelayInv ==
  /\ OneRelay /\ LinkInv
  /\ Polite => AllOfRelay /\ ("drop" \in faults \/ ~crashed)

\* No step changes what an execution may meet.
LEMMA FaultsStay == [Next]_vars => UNCHANGED faults
  BY DEF Next, vars, Connect, LinkUp, Behavior, Input, Kill, Leave, Deliver, Far, FarBehavior,
     FarIgnores, FarStart, FarRefuse, FarKill, Arrives, Output, Exit, Close, Drop

\* Without a relay socket nothing is under way.
LEMMA NothingUnderWay ==
  ASSUME TypeInv, AllOfRelay, relaySocket = None
  PROVE  /\ DOMAIN down = {} /\ DOMAIN up = {}
         /\ \A c \in children : state[c] = "closed"
<1>1. \A i \in DOMAIN down : down[i].from \in Browsers
  <2>1. down \in Seq(Downward)
    BY DEF TypeInv, TypeOK
  <2>2. \A i \in DOMAIN down : down[i] \in Downward
    BY <2>1
  <2> QED
    BY <2>2, DownwardTypes
<1>2. \A i \in DOMAIN up : up[i].of \in Browsers
  <2>1. up \in Seq(Upward)
    BY DEF TypeInv, TypeOK
  <2>2. \A i \in DOMAIN up : up[i] \in Upward
    BY <2>1
  <2> QED
    BY <2>2 DEF Upward
<1>3. \A c \in children : by[c] \in Browsers
  BY DEF TypeInv, ByOK
<1>4. None \notin Browsers
  BY RemoteShellAssumption
<1>5. /\ \A i \in DOMAIN down : down[i].from = None
      /\ \A i \in DOMAIN up : up[i].of = None
      /\ \A c \in children : state[c] # "closed" => by[c] = None
  BY DEF AllOfRelay
<1>6. DOMAIN down = {}
  BY <1>1, <1>4, <1>5
<1>7. DOMAIN up = {}
  BY <1>2, <1>4, <1>5
<1> QED
  BY <1>3, <1>4, <1>5, <1>6, <1>7

\* Every step keeps the one told ready the relay socket.
LEMMA OneRelayStep == TypeInv /\ OneRelay /\ LinkInv /\ [Next]_vars => OneRelay' /\ LinkInv'
<1> SUFFICES ASSUME TypeInv, OneRelay, LinkInv, [Next]_vars PROVE OneRelay' /\ LinkInv'
  OBVIOUS
<1> USE RemoteShellAssumption
<1>0. NearOK /\ UNCHANGED faults
  BY TypeParts, FaultsStay DEF TypeInv
<1>1. CASE UNCHANGED <<browser, relaySocket, link>>
  BY <1>0, <1>1 DEF OneRelay, LinkInv
<1>2. ASSUME NEW b \in Browsers, Connect(b) PROVE OneRelay' /\ LinkInv'
  <2>1. CASE relaySocket = None
    <3>1. relaySocket' = b /\ browser'[b] \in {"waiting", "ready"}
      BY <1>0, <1>2, <2>1 DEF Connect, NearOK
    <3>2. \A a \in Browsers \ {b} : browser'[a] = browser[a]
      BY <1>0, <1>2, <2>1 DEF Connect, NearOK
    <3>3. link' # "none"
      BY <1>2, <2>1 DEF Connect
    <3> QED
      BY <2>1, <3>1, <3>2, <3>3 DEF OneRelay, LinkInv
  <2>2. CASE relaySocket # None
    <3>1. UNCHANGED <<relaySocket, link>> /\ browser' = [browser EXCEPT ![b] = "busy"]
      BY <1>2, <2>2 DEF Connect, LinkInv
    <3>2. browser[b] = "new"
      BY <1>2 DEF Connect
    <3> QED
      BY <1>0, <3>1, <3>2 DEF OneRelay, LinkInv, NearOK
  <2> QED
    BY <2>1, <2>2
<1>3. CASE LinkUp
  BY <1>0, <1>3 DEF LinkUp, OneRelay, LinkInv, NearOK
<1>4. ASSUME NEW b \in Browsers, Leave(b) PROVE OneRelay' /\ LinkInv'
  <2>1. OneRelay'
    BY <1>0, <1>4 DEF Leave, ResetRelay, OneRelay, NearOK
  <2>2. relaySocket = b => "abrupt" \in faults \/ link = "up"
    BY <1>4 DEF Leave, Quiet, OneRelay
  <2> QED
    BY <1>0, <1>4, <2>1, <2>2 DEF Leave, ResetRelay, LinkInv
<1>5. CASE Drop
  <2>1. "drop" \in faults /\ UNCHANGED <<browser, relaySocket>> /\ link' = "connecting"
    BY <1>5 DEF Drop, nearVars
  <2> QED
    BY <1>0, <2>1 DEF OneRelay, LinkInv
<1> QED
  BY <1>1, <1>2, <1>3, <1>4, <1>5
  DEF Next, vars, nearVars, Behavior, Input, Kill, Deliver, Far, FarBehavior,
      FarIgnores, FarStart, FarRefuse, FarKill, Arrives, Output, Exit, Close

\* The parts of AllOfRelay that the steps of the far end keep.
LEMMA ArrivesOfRelay ==
  ASSUME TypeInv, AllOfRelay, NEW event, Arrives(event)
  PROVE  /\ Head(down).from = relaySocket /\ Head(down).from \in Browsers
         /\ UNCHANGED <<relaySocket, by, crashed>>
         /\ \A i \in DOMAIN down' : down'[i].from = relaySocket
  BY ArrivesType, DownwardTypes DEF TypeInv, AllOfRelay, Arrives, nearVars, history

\* An emission for the relay socket, like those under way.
LEMMA AnswerOfRelay ==
  ASSUME TypeInv, AllOfRelay, NEW b \in Browsers, b = relaySocket,
         NEW c \in Commands \cup {None}, Answer(b, c)
  PROVE  \A i \in DOMAIN up' : up'[i].of = relaySocket
  BY AnswerType DEF TypeInv, AllOfRelay

\* Among polite browsers every step leaves all that is under way to the relay socket.
LEMMA AllOfRelayStep ==
  TypeInv /\ RelayInv /\ Polite /\ [Next]_vars => AllOfRelay' /\ ("drop" \in faults \/ ~crashed')
<1> SUFFICES ASSUME TypeInv, RelayInv, Polite, [Next]_vars
             PROVE  AllOfRelay' /\ ("drop" \in faults \/ ~crashed')
  OBVIOUS
<1> USE RemoteShellAssumption
<1> DEFINE Goal == AllOfRelay' /\ ("drop" \in faults \/ ~crashed')
<1>0. /\ NearOK /\ FarOK /\ TypeOK /\ ByOK
      /\ OneRelay /\ LinkInv /\ AllOfRelay /\ ("drop" \in faults \/ ~crashed)
  BY TypeParts DEF TypeInv, RelayInv
<1>1. CASE UNCHANGED <<relaySocket, down, up, children, state, by, crashed>>
  BY <1>0, <1>1 DEF AllOfRelay
<1>2. ASSUME NEW b \in Browsers, Connect(b) PROVE Goal
  <2>1. UNCHANGED <<down, up, children, state, by, crashed>>
    BY <1>2 DEF Connect, farVars, history
  <2>2. CASE relaySocket = None
    BY <1>0, <2>1, <2>2, NothingUnderWay DEF AllOfRelay
  <2>3. CASE relaySocket # None
    <3>1. UNCHANGED relaySocket
      BY <1>0, <1>2, <2>3 DEF Connect, LinkInv
    <3> QED
      BY <1>0, <2>1, <3>1 DEF AllOfRelay
  <2> QED
    BY <2>2, <2>3
<1>3. CASE LinkUp
  <2>1. "drop" \in faults \/ relaySocket # None
    BY <1>0, <1>3 DEF LinkUp, LinkInv, Polite
  <2> QED
    BY <1>0, <1>3, <2>1 DEF LinkUp, AllOfRelay, farVars, history
<1>4. ASSUME NEW b \in Browsers, Behavior(b) PROVE Goal
  <2>1. relaySocket = b
    BY <1>0, <1>4 DEF Behavior, Acts, OneRelay, Polite
  <2>2. Emit("behavior", b, None) /\ [event |-> "behavior", from |-> b, command |-> None] \in Downward
    BY <1>4, DownwardTypes DEF Behavior
  <2>3. \A i \in DOMAIN down' : down'[i].from = relaySocket
    BY <1>0, <2>1, <2>2, EmitType DEF AllOfRelay
  <2> QED
    BY <1>0, <1>4, <2>3 DEF Behavior, AllOfRelay, farVars, history
<1>5. ASSUME NEW b \in Browsers, NEW c \in Commands, Input(b, c) PROVE Goal
  <2>1. relaySocket = b
    BY <1>0, <1>5 DEF Input, Acts, OneRelay, Polite
  <2>2. Emit("input", b, c) /\ [event |-> "input", from |-> b, command |-> c] \in Downward
    BY <1>5, DownwardTypes DEF Input
  <2>3. \A i \in DOMAIN down' : down'[i].from = relaySocket
    BY <1>0, <2>1, <2>2, EmitType DEF AllOfRelay
  <2>4. by[c] = None /\ by' = [by EXCEPT ![c] = b]
        /\ UNCHANGED <<relaySocket, up, children, state, crashed>>
    BY <1>5 DEF Input, nearVars, farVars
  <2>5. \A d \in children : d # c /\ by'[d] = by[d]
    BY <1>0, <2>4 DEF ByOK, TypeOK
  <2> QED
    BY <1>0, <2>3, <2>4, <2>5 DEF AllOfRelay
<1>6. ASSUME NEW b \in Browsers, Kill(b) PROVE Goal
  <2>1. relaySocket = b
    BY <1>0, <1>6 DEF Kill, Acts, OneRelay, Polite
  <2>2. Emit("kill", b, None) /\ [event |-> "kill", from |-> b, command |-> None] \in Downward
    BY <1>6, DownwardTypes DEF Kill
  <2>3. \A i \in DOMAIN down' : down'[i].from = relaySocket
    BY <1>0, <2>1, <2>2, EmitType DEF AllOfRelay
  <2> QED
    BY <1>0, <1>6, <2>3 DEF Kill, AllOfRelay, nearVars, farVars, history
<1>7. ASSUME NEW b \in Browsers, Leave(b) PROVE Goal
  <2>1. UNCHANGED <<down, up, children, state, by, crashed>>
    BY <1>7 DEF Leave, farVars, history
  <2>2. CASE relaySocket = b
    <3>1. Quiet
      BY <1>0, <1>7, <2>2 DEF Leave, OneRelay, Polite
    <3> QED
      BY <1>0, <2>1, <3>1 DEF Quiet, AllOfRelay
  <2>3. CASE relaySocket # b
    BY <1>0, <1>7, <2>1, <2>3 DEF Leave, ResetRelay, AllOfRelay
  <2> QED
    BY <2>2, <2>3
<1>8. CASE Deliver
  <2>1. /\ up \in Seq(Upward) /\ up # <<>> /\ up' = Tail(up)
        /\ UNCHANGED <<relaySocket, down, children, state, by>>
    BY <1>0, <1>8 DEF Deliver, TypeOK, nearVars, farVars
  <2>2. /\ Head(up) \in Upward /\ Head(up) = up[1] /\ 1 \in DOMAIN up
        /\ \A i \in DOMAIN Tail(up) : i + 1 \in DOMAIN up /\ Tail(up)[i] = up[i + 1]
    BY <2>1, TailElements
  <2>3. Head(up).of \in Browsers
    BY <2>2 DEF Upward
  <2>4. relaySocket # None
    BY <1>0, <2>2, <2>3 DEF AllOfRelay
  <2> QED
    BY <1>0, <1>8, <2>1, <2>2, <2>4 DEF Deliver, AllOfRelay
<1>9. CASE FarBehavior
  BY <1>0, <1>9, ArrivesOfRelay DEF FarBehavior, AllOfRelay
<1>10. CASE FarIgnores
  BY <1>0, <1>10, ArrivesOfRelay DEF FarIgnores, AllOfRelay, farVars
<1>11. CASE FarStart
  <2> DEFINE c == Head(down).command
  <2>1. Arrives("input") /\ Answer(Head(down).from, None)
    BY <1>11 DEF FarStart
  <2>2. c \in Commands /\ by[c] = Head(down).from
    BY <1>0, <2>1, ArrivesType, DownwardTypes DEF ByOK
  <2>3. \A i \in DOMAIN up' : up'[i].of = relaySocket
    BY <1>0, <2>1, ArrivesOfRelay, AnswerOfRelay
  <2>4. children' = children \cup {c} /\ state' = [state EXCEPT ![c] = "running"]
    BY <1>11 DEF FarStart
  <2>5. \A d \in children' : state'[d] # "closed" => by[d] = relaySocket
    BY <1>0, <2>1, <2>2, <2>4, ArrivesOfRelay DEF AllOfRelay, FarOK
  <2> QED
    BY <1>0, <2>1, <2>3, <2>5, ArrivesOfRelay DEF AllOfRelay
<1>12. CASE FarRefuse
  <2>1. Arrives("input") /\ Answer(Head(down).from, Head(down).command) /\ UNCHANGED farVars
    BY <1>12 DEF FarRefuse, Refuse
  <2>2. Head(down).command \in Commands
    BY <1>0, <2>1, ArrivesType, DownwardTypes
  <2>3. \A i \in DOMAIN up' : up'[i].of = relaySocket
    BY <1>0, <2>1, <2>2, ArrivesOfRelay, AnswerOfRelay
  <2> QED
    BY <1>0, <2>1, <2>3, ArrivesOfRelay DEF AllOfRelay, farVars
<1>13. CASE FarKill
  <2>1. Arrives("kill") /\ UNCHANGED <<children, state>>
    BY <1>13 DEF FarKill
  <2>2. \A i \in DOMAIN up' : up'[i].of = relaySocket
    <3>1. up' = up \/ Answer(Head(down).from, None)
      BY <1>13 DEF FarKill
    <3>2. Head(down).from \in Browsers /\ Head(down).from = relaySocket /\ UNCHANGED relaySocket
      BY <1>0, <2>1, ArrivesOfRelay
    <3>3. CASE up' = up
      BY <1>0, <3>2, <3>3 DEF AllOfRelay
    <3>4. CASE Answer(Head(down).from, None)
      BY <1>0, <3>2, <3>4, AnswerOfRelay
    <3> QED
      BY <3>1, <3>3, <3>4
  <2> QED
    BY <1>0, <2>1, <2>2, ArrivesOfRelay DEF AllOfRelay
<1>14. ASSUME NEW c \in Commands, Output(c) PROVE Goal
  <2>1. by[c] \in Browsers /\ by[c] = relaySocket
    BY <1>0, <1>14 DEF Output, AllOfRelay, ByOK
  <2>2. \A i \in DOMAIN up' : up'[i].of = relaySocket
    BY <1>0, <1>14, <2>1, AnswerOfRelay DEF Output
  <2> QED
    BY <1>0, <1>14, <2>2 DEF Output, AllOfRelay, nearVars, farVars, history
<1>15. ASSUME NEW c \in Commands, Exit(c) PROVE Goal
  <2>1. UNCHANGED <<relaySocket, down, children, by, crashed>>
        /\ state' = [state EXCEPT ![c] = "exited"] /\ state[c] = "running"
    BY <1>15 DEF Exit, nearVars, history
  <2>2. \A i \in DOMAIN up' : up'[i].of = relaySocket
    <3>1. CASE c \in children
      <4>1. by[c] \in Browsers /\ by[c] = relaySocket /\ Answer(by[c], c)
        BY <1>0, <1>15, <3>1 DEF Exit, AllOfRelay, ByOK
      <4> QED
        BY <1>0, <4>1, AnswerOfRelay
    <3>2. CASE c \notin children
      BY <1>0, <1>15, <3>2 DEF Exit, AllOfRelay
    <3> QED
      BY <3>1, <3>2
  <2> QED
    BY <1>0, <2>1, <2>2 DEF AllOfRelay, FarOK
<1>16. ASSUME NEW c \in Commands, Close(c) PROVE Goal
  BY <1>0, <1>16 DEF Close, AllOfRelay, FarOK, nearVars, history
<1>17. CASE Drop
  BY <1>0, <1>17 DEF Drop, AllOfRelay, nearVars, history
<1> QED
  BY <1>1, <1>2, <1>3, <1>4, <1>5, <1>6, <1>7, <1>8, <1>9, <1>10, <1>11, <1>12, <1>13,
     <1>14, <1>15, <1>16, <1>17 DEF Next, Far, vars, nearVars, farVars, history

\* Every step keeps the three.
LEMMA RelayStep == TypeInv /\ RelayInv /\ [Next]_vars => RelayInv'
<1> SUFFICES ASSUME TypeInv, RelayInv, [Next]_vars PROVE RelayInv'
  OBVIOUS
<1>1. OneRelay' /\ LinkInv'
  BY OneRelayStep DEF RelayInv
<1>2. UNCHANGED faults
  BY FaultsStay
<1>3. Polite => AllOfRelay' /\ ("drop" \in faults \/ ~crashed')
  BY AllOfRelayStep
<1> QED
  BY <1>1, <1>2, <1>3 DEF RelayInv, Polite

\* They hold at first.
LEMMA RelayInit == Init => RelayInv
<1> SUFFICES ASSUME Init PROVE RelayInv
  OBVIOUS
<1>1. OneRelay /\ LinkInv
  BY RemoteShellAssumption DEF Init, OneRelay, LinkInv
<1>2. AllOfRelay /\ ~crashed
  BY DEF Init, AllOfRelay
<1> QED
  BY <1>1, <1>2 DEF RelayInv

\* Together they say that one browser is served.
LEMMA RelayImplies == RelayInv => OneBrowserServed
  BY DEF RelayInv, AllOfRelay, Polite, OneBrowserServed

\* However browsers come and go and the connection is lost, the browser that was told
\* 'ready' is the relay socket; and if browsers wait for what they asked and heed
\* 'busy', all that is under way is its own, and is never for nobody.
THEOREM OneBrowserServedHolds == Spec => []OneBrowserServed
<1>1. Init => TypeInv /\ RelayInv
  BY TypeInit, RelayInit
<1>2. TypeInv /\ RelayInv /\ [Next]_vars => (TypeInv /\ RelayInv)'
  BY TypeStep, RelayStep
<1> QED
  BY <1>1, <1>2, RelayImplies, PTL DEF Spec
=============================================================================
