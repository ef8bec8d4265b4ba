------------------------- MODULE WebCommandsProofs -------------------------
(***************************************************************************)
(* Proofs about WebCommands, for every number of browsers, commands and    *)
(* peripherals, and whatever faults they meet.                             *)
(***************************************************************************)
EXTENDS WebCommands, TLAPS

-----------------------------------------------------------------------------
(* Sequences *)

\* The elements of a tail.
LEMMA TailElements ==
  ASSUME NEW S, NEW q \in Seq(S), q # <<>>
  PROVE  /\ Head(q) \in S /\ Head(q) = q[1] /\ 1 \in DOMAIN q
         /\ Tail(q) \in Seq(S)
         /\ \A i \in DOMAIN Tail(q) : i + 1 \in DOMAIN q /\ Tail(q)[i] = q[i + 1]
  OBVIOUS

\* The elements of a list with one more.
LEMMA AppendElements ==
  ASSUME NEW S, NEW q \in Seq(S), NEW e \in S
  PROVE  /\ Append(q, e) \in Seq(S)
         /\ \A i \in DOMAIN Append(q, e) :
              \/ i \in DOMAIN q /\ Append(q, e)[i] = q[i]
              \/ i = Len(q) + 1 /\ Append(q, e)[i] = e
  OBVIOUS

\* The elements of a list with several more.
LEMMA ConcatElements ==
  ASSUME NEW S, NEW q \in Seq(S), NEW n \in Seq(S)
  PROVE  /\ q \o n \in Seq(S)
         /\ Len(q \o n) = Len(q) + Len(n)
         /\ \A i \in DOMAIN (q \o n) :
              \/ i \in DOMAIN q /\ (q \o n)[i] = q[i]
              \/ i \in Nat /\ i > Len(q) /\ i - Len(q) \in DOMAIN n /\ (q \o n)[i] = n[i - Len(q)]
  OBVIOUS

-----------------------------------------------------------------------------
(* Type correctness *)

\* The part of TypeOK that the lists and the connections do not need.
FlagOK ==
  /\ connected \subseteq Sockets
  /\ commandQueueKey \in [Sockets -> Routes \cup {None}]
  /\ redisClient \in [Sockets -> BOOLEAN]
  /\ number \in [Commands -> Nat] /\ sent \in [Sockets -> Nat]
  /\ answer \in [Commands -> Commands \cup {None, Timeout}]
  /\ crashed \in BOOLEAN

ListsOK ==
  /\ connection \in [Sockets -> Seq(Request)]
  /\ queue \in [Routes \cup Sockets -> Seq(Entry)]
  /\ held \in [Routes -> Entry \cup {None}]

\* What is asked of a client are requests.
LEMMA RequestTypes ==
  /\ \A s \in Sockets : ToDo("del", s, None) \in Request
  /\ ToDo("quit", None, None) \in Request
  /\ \A s \in Sockets, c \in Commands : ToDo("pop", s, c) \in Request
  /\ \A r \in Routes, c \in Commands : ToDo("push", r, c) \in Request
  BY DEF ToDo, Request

\* What a step of Redis leaves of a connection, and what it executed.
LEMMA ExecutesType ==
  ASSUME ListsOK, NEW s \in Sockets, NEW op, Executes(s, op)
  PROVE  /\ connection' \in [Sockets -> Seq(Request)]
         /\ Head(connection[s]) \in Request /\ Head(connection[s]).op = op
<1>1. connection[s] \in Seq(Request) /\ connection[s] # <<>>
  BY DEF ListsOK, Executes
<1>2. Head(connection[s]) \in Request /\ Tail(connection[s]) \in Seq(Request)
  BY <1>1, TailElements
<1> QED
  BY <1>2 DEF ListsOK, Executes

\* A client is asked.
LEMMA AskType ==
  ASSUME ListsOK, NEW s \in Sockets, NEW n \in Seq(Request), Ask(s, n)
  PROVE  connection' \in [Sockets -> Seq(Request)]
<1>1. connection[s] \o n \in Seq(Request)
  BY ConcatElements DEF ListsOK
<1> QED
  BY <1>1 DEF ListsOK, Ask

\* Every step keeps the types.
LEMMA TypeStep == FlagOK /\ ListsOK /\ [Next]_vars => FlagOK' /\ ListsOK'
<1> SUFFICES ASSUME FlagOK, ListsOK, [Next]_vars PROVE FlagOK' /\ ListsOK'
  OBVIOUS
<1> USE CommandsAssumption
<1>1. CASE UNCHANGED vars
  BY <1>1 DEF FlagOK, ListsOK, vars, socketVars, history
<1>2. ASSUME NEW s \in Sockets, NEW r \in Routes, PeripheralEvent(s, r) PROVE FlagOK' /\ ListsOK'
  <2>1. <<ToDo("del", s, None)>> \in Seq(Request)
    BY RequestTypes
  <2>2. connection' \in [Sockets -> Seq(Request)]
    BY <1>2, <2>1, AskType DEF PeripheralEvent, WebQueueKey
  <2> QED
    BY <1>2, <2>2 DEF PeripheralEvent, FlagOK, ListsOK, history
<1>3. ASSUME NEW s \in Sockets, NEW c \in Commands, CommandEvent(s, c) PROVE FlagOK' /\ ListsOK'
  <2>1. commandQueueKey[s] \in Routes
    BY <1>3 DEF CommandEvent, FlagOK
  <2>2. CommandRequests(s, c) \in Seq(Request)
    BY <2>1, RequestTypes DEF CommandRequests, WebQueueKey
  <2>3. connection' \in [Sockets -> Seq(Request)]
    BY <1>3, <2>2, AskType DEF CommandEvent
  <2>4. number' \in [Commands -> Nat] /\ sent' \in [Sockets -> Nat]
    BY <1>3 DEF CommandEvent, FlagOK
  <2>5. UNCHANGED <<connected, commandQueueKey, redisClient, queue, held, answer, crashed>>
    BY <1>3 DEF CommandEvent, socketVars
  <2> QED
    BY <2>3, <2>4, <2>5 DEF FlagOK, ListsOK
<1>4. ASSUME NEW s \in Sockets, CommandThrows(s) PROVE FlagOK' /\ ListsOK'
  BY <1>4 DEF CommandThrows, FlagOK, ListsOK, socketVars, history
<1>5. ASSUME NEW s \in Sockets, Disconnect(s) PROVE FlagOK' /\ ListsOK'
  <2>1. <<ToDo("del", s, None), ToDo("quit", None, None)>> \in Seq(Request)
    BY RequestTypes
  <2>2. connection' \in [Sockets -> Seq(Request)]
    BY <1>5, <2>1, AskType DEF Disconnect, WebQueueKey, ListsOK
  <2> QED
    BY <1>5, <2>2 DEF Disconnect, FlagOK, ListsOK, history
<1>6. ASSUME NEW s \in Sockets, ClientError(s) PROVE FlagOK' /\ ListsOK'
  <2>1. <<>> \in Seq(Request)
    OBVIOUS
  <2> QED
    BY <1>6, <2>1 DEF ClientError, FlagOK, ListsOK, history
<1>7. ASSUME NEW s \in Sockets, Push(s) PROVE FlagOK' /\ ListsOK'
  <2> DEFINE q == Head(connection[s])
             e == [command |-> q.command, destination |-> s]
  <2>1. connection' \in [Sockets -> Seq(Request)] /\ q \in Request /\ q.op = "push"
    BY <1>7, ExecutesType DEF Push
  <2>2. e \in Entry /\ q.key \in Routes
    BY <2>1 DEF Request, Entry
  <2>3. Append(queue[q.key], e) \in Seq(Entry)
    BY <2>2, AppendElements DEF ListsOK
  <2>4. queue' \in [Routes \cup Sockets -> Seq(Entry)]
    BY <1>7, <2>2, <2>3 DEF Push, ListsOK, WebQueueKey
  <2> QED
    BY <1>7, <2>1, <2>4 DEF Push, Executes, FlagOK, ListsOK, socketVars, history
<1>8. ASSUME NEW s \in Sockets, Pop(s) PROVE FlagOK' /\ ListsOK'
  <2> DEFINE q == Head(connection[s])
  <2>1. connection' \in [Sockets -> Seq(Request)] /\ q \in Request /\ q.op = "pop"
    BY <1>8, ExecutesType DEF Pop
  <2>2. q.key \in Sockets /\ q.command \in Commands
    BY <2>1 DEF Request
  <2>3. /\ Tail(queue[q.key]) \in Seq(Entry) /\ Head(queue[q.key]) \in Entry
    BY <1>8, <2>2, TailElements DEF Pop, ListsOK
  <2>4. Head(queue[q.key]).command \in Commands
    BY <2>3 DEF Entry
  <2>5. queue' \in [Routes \cup Sockets -> Seq(Entry)]
    BY <1>8, <2>2, <2>3 DEF Pop, ListsOK
  <2>6. answer' \in [Commands -> Commands \cup {None, Timeout}]
    BY <1>8, <2>2, <2>4 DEF Pop, FlagOK
  <2> QED
    BY <1>8, <2>1, <2>5, <2>6 DEF Pop, Executes, FlagOK, ListsOK, socketVars, history
<1>9. ASSUME NEW s \in Sockets, PopTimeout(s) PROVE FlagOK' /\ ListsOK'
  <2>1. connection' \in [Sockets -> Seq(Request)] /\ Head(connection[s]) \in Request
    BY <1>9, ExecutesType DEF PopTimeout
  <2>2. answer' \in [Commands -> Commands \cup {None, Timeout}]
    BY <1>9, <2>1 DEF PopTimeout, FlagOK
  <2> QED
    BY <1>9, <2>1, <2>2 DEF PopTimeout, Executes, FlagOK, ListsOK, socketVars, history
<1>10. ASSUME NEW s \in Sockets, Del(s) PROVE FlagOK' /\ ListsOK'
  <2>1. connection' \in [Sockets -> Seq(Request)]
    BY <1>10, ExecutesType DEF Del
  <2>2. queue' \in [Routes \cup Sockets -> Seq(Entry)]
    <3>1. <<>> \in Seq(Entry)
      OBVIOUS
    <3> QED
      BY <1>10, <3>1 DEF Del, ListsOK
  <2> QED
    BY <1>10, <2>1, <2>2 DEF Del, Executes, FlagOK, ListsOK, socketVars, history
<1>11. ASSUME NEW s \in Sockets, Quit(s) PROVE FlagOK' /\ ListsOK'
  <2>1. connection' \in [Sockets -> Seq(Request)]
    BY <1>11, ExecutesType DEF Quit
  <2> QED
    BY <1>11, <2>1 DEF Quit, Executes, FlagOK, ListsOK, socketVars, history
<1>12. ASSUME NEW r \in Routes, Take(r) PROVE FlagOK' /\ ListsOK'
  <2>1. Head(queue[r]) \in Entry /\ Tail(queue[r]) \in Seq(Entry)
    BY <1>12, TailElements DEF Take, ListsOK
  <2> QED
    BY <1>12, <2>1 DEF Take, FlagOK, ListsOK, socketVars, history
<1>13. ASSUME NEW r \in Routes, Result(r) PROVE FlagOK' /\ ListsOK'
  <2>1. held[r] \in Entry /\ held[r].destination \in Sockets
    BY <1>13 DEF Result, ListsOK, Entry
  <2>2. Append(queue[held[r].destination], held[r]) \in Seq(Entry)
    BY <2>1, AppendElements DEF ListsOK
  <2> QED
    BY <1>13, <2>1, <2>2 DEF Result, FlagOK, ListsOK, socketVars, history
<1>14. ASSUME NEW r \in Routes, LoseCommand(r) PROVE FlagOK' /\ ListsOK'
  BY <1>14 DEF LoseCommand, FlagOK, ListsOK, socketVars, history
<1> QED
  BY <1>1, <1>2, <1>3, <1>4, <1>5, <1>6, <1>7, <1>8, <1>9, <1>10, <1>11, <1>12, <1>13, <1>14
  DEF Next

\* They hold at first.
LEMMA InitTypes == Init => FlagOK /\ ListsOK
<1>1. <<>> \in Seq(Request) /\ <<>> \in Seq(Entry)
  OBVIOUS
<1>2. Init => FlagOK
  <2> SUFFICES ASSUME Init PROVE FlagOK
    OBVIOUS
  <2>1. /\ connected = Sockets /\ crashed = FALSE
        /\ commandQueueKey \in [Sockets -> Routes \cup {None}]
        /\ redisClient \in [Sockets -> BOOLEAN]
    BY DEF Init
  <2>2. /\ number \in [Commands -> Nat] /\ sent \in [Sockets -> Nat]
        /\ answer \in [Commands -> Commands \cup {None, Timeout}]
    BY DEF Init
  <2> QED
    BY <2>1, <2>2 DEF FlagOK
<1>3. Init => ListsOK
  BY <1>1, CommandsAssumption DEF Init, ListsOK
<1> QED
  BY <1>2, <1>3

\* The variables keep their types: in particular brpop and del are only ever asked
\* of web queues, and what is pushed on a route carries the web queue of a socket.
THEOREM TypeCorrect == Spec => []TypeOK
<1>1. FlagOK /\ ListsOK => TypeOK
  BY DEF FlagOK, ListsOK, TypeOK
<1> QED
  BY InitTypes, <1>1, TypeStep, PTL DEF Spec

-----------------------------------------------------------------------------
(* The answers a socket gets *)

Serial(q) == q.op \in {"push", "pop"}

\* A connection carries only what its own socket asked for, in the order in which
\* it asked.
InOrder(s) ==
  \A i \in DOMAIN connection[s] :
    /\ Serial(connection[s][i]) =>
         /\ Sender[connection[s][i].command] = s
         /\ number[connection[s][i].command] > 0
         /\ number[connection[s][i].command] <= sent[s]
         /\ \A j \in DOMAIN connection[s] : i < j /\ Serial(connection[s][j]) =>
              number[connection[s][i].command] <= number[connection[s][j].command]
    /\ connection[s][i].op \in {"pop", "del"} => connection[s][i].key = s

\* An entry on its way to a socket is of a command of that socket, no later than
\* any that its connection still has to execute or to answer.
Returns(e) ==
  /\ Sender[e.command] = e.destination
  /\ number[e.command] > 0
  /\ \A i \in DOMAIN connection[e.destination] :
       Serial(connection[e.destination][i]) =>
         number[e.command] <= number[connection[e.destination][i].command]

OwnInv ==
  /\ \A s \in Sockets : InOrder(s)
  /\ \A k \in Routes \cup Sockets : \A i \in DOMAIN queue[k] : Returns(queue[k][i])
  /\ \A s \in Sockets : \A i \in DOMAIN queue[s] : queue[s][i].destination = s
  /\ \A r \in Routes : held[r] # None => Returns(held[r])
  /\ \A c \in Commands : number[c] <= sent[Sender[c]]
  /\ \A c \in Commands : answer[c] \in Commands => number[answer[c]] > 0
  /\ AnswerToOwnCommand

\* A connection that only loses requests keeps its order, and what returns to its
\* socket is still no later.
LEMMA Shorter ==
  ASSUME ListsOK, FlagOK, OwnInv, UNCHANGED history, NEW s \in Sockets,
         \/ connection' = connection
         \/ connection[s] # <<>> /\ connection' = [connection EXCEPT ![s] = Tail(@)]
         \/ connection' = [connection EXCEPT ![s] = <<>>]
  PROVE  /\ \A t \in Sockets : InOrder(t)'
         /\ \A e \in Entry : Returns(e) => Returns(e)'
<1> USE CommandsAssumption DEF history
<1>1. CASE connection' = connection
  BY <1>1 DEF OwnInv, InOrder, Returns, Serial
<1>2. CASE connection' = [connection EXCEPT ![s] = <<>>]
  <2>1. \A t \in Sockets : connection'[t] = IF t = s THEN <<>> ELSE connection[t]
    BY <1>2 DEF ListsOK
  <2>2. \A t \in Sockets : InOrder(t)'
    BY <2>1 DEF OwnInv, InOrder, Serial
  <2>3. \A e \in Entry : Returns(e) => Returns(e)'
    BY <2>1 DEF Entry, Returns, Serial
  <2> QED
    BY <2>2, <2>3
<1>3. CASE connection[s] # <<>> /\ connection' = [connection EXCEPT ![s] = Tail(@)]
  <2>1. \A t \in Sockets \ {s} : connection'[t] = connection[t]
    BY <1>3 DEF ListsOK
  <2>2. connection[s] \in Seq(Request) /\ connection'[s] = Tail(connection[s])
    BY <1>3 DEF ListsOK
  <2>3. \A i \in DOMAIN connection'[s] :
          i + 1 \in DOMAIN connection[s] /\ connection'[s][i] = connection[s][i + 1]
    <3> DEFINE q == connection[s]
    <3>1. \A i \in DOMAIN Tail(q) : i + 1 \in DOMAIN q /\ Tail(q)[i] = q[i + 1]
      <4> HIDE DEF q
      <4>1. q \in Seq(Request) /\ q # <<>>
        BY <1>3, <2>2 DEF q
      <4> QED
        BY <4>1, TailElements
    <3> QED
      BY <2>2, <3>1
  <2>4. \A i, j \in DOMAIN connection'[s] : i < j => i + 1 < j + 1
    BY <2>2, <2>3
  <2>5. \A t \in Sockets \ {s} : InOrder(t)'
    BY <2>1 DEF OwnInv, InOrder, Serial
  <2>6. InOrder(s)'
    BY <2>3, <2>4 DEF OwnInv, InOrder, Serial
  <2>7. \A e \in Entry : Returns(e) => Returns(e)'
    BY <2>1, <2>3 DEF Entry, Returns, Serial
  <2> QED
    BY <2>5, <2>6, <2>7
<1> QED
  BY <1>1, <1>2, <1>3

\* Redis executes one request of a connection.
LEMMA ExecutesStep ==
  ASSUME ListsOK, FlagOK, OwnInv, NEW s \in Sockets, NEW op, Executes(s, op)
  PROVE  /\ \A t \in Sockets : InOrder(t)'
         /\ \A e \in Entry : Returns(e) => Returns(e)'
         /\ UNCHANGED <<number, sent, held>>
         /\ \A c \in Commands : number[c] <= sent[Sender[c]]
         /\ \A r \in Routes : held[r] # None => Returns(held[r])'
<1>1. /\ connection[s] # <<>> /\ connection' = [connection EXCEPT ![s] = Tail(@)]
      /\ UNCHANGED history /\ UNCHANGED held
  BY DEF Executes
<1>2. /\ \A t \in Sockets : InOrder(t)'
      /\ \A e \in Entry : Returns(e) => Returns(e)'
  BY <1>1, Shorter
<1>3. \A r \in Routes : held[r] # None => held[r] \in Entry /\ Returns(held[r])
  BY DEF ListsOK, OwnInv
<1> QED
  BY <1>1, <1>2, <1>3 DEF history, OwnInv

\* The lists keep their promise if every entry in them was there before, or is on
\* its way to a socket as it should be.
QueuesKept ==
  \A k \in Routes \cup Sockets : \A i \in DOMAIN queue'[k] :
    /\ queue'[k][i] \in Entry /\ Returns(queue'[k][i])
    /\ k \in Sockets => queue'[k][i].destination = k

\* A list without its head holds nothing new.
LEMMA TailKept ==
  ASSUME ListsOK, OwnInv, NEW k \in Routes \cup Sockets, queue[k] # <<>>,
         queue' = [queue EXCEPT ![k] = Tail(@)]
  PROVE  QueuesKept
<1>1. queue[k] \in Seq(Entry) /\ queue'[k] = Tail(queue[k])
      /\ \A j \in (Routes \cup Sockets) \ {k} : queue'[j] = queue[j]
  BY DEF ListsOK
<1> DEFINE q == queue[k]
<1>2. \A i \in DOMAIN Tail(q) : i + 1 \in DOMAIN q /\ Tail(q)[i] = q[i + 1]
  <2> HIDE DEF q
  <2>1. q \in Seq(Entry) /\ q # <<>>
    BY <1>1 DEF q
  <2> QED
    BY <2>1, TailElements
<1>3. \A j \in Routes \cup Sockets : \A i \in DOMAIN queue[j] :
        /\ queue[j][i] \in Entry /\ Returns(queue[j][i])
        /\ j \in Sockets => queue[j][i].destination = j
  BY DEF ListsOK, OwnInv
<1> QED
  BY <1>1, <1>2, <1>3 DEF QueuesKept

\* A list with one more entry that returns to its sender is as good.
LEMMA AppendKept ==
  ASSUME ListsOK, OwnInv, NEW k \in Routes \cup Sockets, NEW e \in Entry, Returns(e),
         k \in Sockets => e.destination = k,
         queue' = [queue EXCEPT ![k] = Append(@, e)]
  PROVE  QueuesKept
<1>1. queue[k] \in Seq(Entry) /\ queue'[k] = Append(queue[k], e)
      /\ \A j \in (Routes \cup Sockets) \ {k} : queue'[j] = queue[j]
  BY DEF ListsOK
<1> DEFINE q == queue[k]
<1>2. \A i \in DOMAIN Append(q, e) : \/ i \in DOMAIN q /\ Append(q, e)[i] = q[i]
                                     \/ Append(q, e)[i] = e
  <2> HIDE DEF q
  <2>1. q \in Seq(Entry)
    BY <1>1 DEF q
  <2> QED
    BY <2>1, AppendElements
<1>3. \A j \in Routes \cup Sockets : \A i \in DOMAIN queue[j] :
        /\ queue[j][i] \in Entry /\ Returns(queue[j][i])
        /\ j \in Sockets => queue[j][i].destination = j
  BY DEF ListsOK, OwnInv
<1> QED
  BY <1>1, <1>2, <1>3 DEF QueuesKept

\* A command is sent with a number above all others of its socket.
LEMMA CommandStep ==
  ASSUME ListsOK, FlagOK, OwnInv, NEW s \in Sockets, NEW c \in Commands, CommandEvent(s, c)
  PROVE  OwnInv'
<1> USE CommandsAssumption
<1> DEFINE q == connection[s]
           n == CommandRequests(s, c)
<1>1. /\ number' = [number EXCEPT ![c] = sent[s] + 1] /\ sent' = [sent EXCEPT ![s] = @ + 1]
      /\ Sender[c] = s /\ number[c] = 0
      /\ connection' = [connection EXCEPT ![s] = q \o n]
      /\ UNCHANGED <<queue, held, answer>>
  BY DEF CommandEvent, Ask
<1>2. /\ number'[c] = sent[s] + 1 /\ \A d \in Commands \ {c} : number'[d] = number[d]
      /\ sent'[s] = sent[s] + 1 /\ \A t \in Sockets \ {s} : sent'[t] = sent[t]
      /\ sent[s] \in Nat /\ \A d \in Commands : number[d] \in Nat
      /\ connection'[s] = q \o n /\ \A t \in Sockets \ {s} : connection'[t] = connection[t]
  BY <1>1 DEF FlagOK, ListsOK
<1>3. /\ n \in Seq(Request) /\ DOMAIN n = {1, 2}
      /\ n[1].op = "push" /\ n[2].op = "pop" /\ n[2].key = s
      /\ n[1].command = c /\ n[2].command = c
  <2>1. commandQueueKey[s] \in Routes
    BY DEF CommandEvent, FlagOK
  <2> QED
    BY <2>1, RequestTypes DEF CommandRequests, ToDo, WebQueueKey
<1>4. \A i \in DOMAIN (q \o n) :
        \/ i \in DOMAIN q /\ (q \o n)[i] = q[i]
        \/ /\ i \in Nat /\ i > Len(q)
           /\ (q \o n)[i].op \in {"push", "pop"} /\ (q \o n)[i].command = c
           /\ (q \o n)[i].op = "pop" => (q \o n)[i].key = s
  <2>1. q \in Seq(Request)
    BY DEF ListsOK
  <2> HIDE DEF q, n
  <2>2. \A i \in DOMAIN (q \o n) :
              \/ i \in DOMAIN q /\ (q \o n)[i] = q[i]
              \/ i \in Nat /\ i > Len(q) /\ i - Len(q) \in DOMAIN n /\ (q \o n)[i] = n[i - Len(q)]
    BY <2>1, <1>3, ConcatElements
  <2> QED
    BY <1>3, <2>2
<1>5. \A i \in DOMAIN q : i \in Nat /\ i <= Len(q)
  BY DEF ListsOK
<1>6. \A i \in DOMAIN q : Serial(q[i]) => /\ q[i].command # c /\ q[i].command \in Commands
                                          /\ number'[q[i].command] = number[q[i].command]
                                          /\ number[q[i].command] <= sent[s]
  <2>1. \A i \in DOMAIN q : q[i] \in Request
    BY DEF ListsOK
  <2> QED
    BY <1>1, <1>2, <2>1 DEF OwnInv, InOrder, Serial, Request
<1>7. InOrder(s)'
  <2> SUFFICES ASSUME NEW i \in DOMAIN (q \o n) PROVE
        /\ Serial((q \o n)[i]) =>
             /\ Sender[(q \o n)[i].command] = s
             /\ number'[(q \o n)[i].command] > 0
             /\ number'[(q \o n)[i].command] <= sent'[s]
             /\ \A j \in DOMAIN (q \o n) : i < j /\ Serial((q \o n)[j]) =>
                  number'[(q \o n)[i].command] <= number'[(q \o n)[j].command]
        /\ (q \o n)[i].op \in {"pop", "del"} => (q \o n)[i].key = s
    BY <1>2 DEF InOrder, Serial
  <2>1. InOrder(s)
    BY DEF OwnInv
  <2>2. CASE i \in DOMAIN q /\ (q \o n)[i] = q[i]
    <3>1. (q \o n)[i].op \in {"pop", "del"} => (q \o n)[i].key = s
      BY <2>1, <2>2 DEF InOrder
    <3>2. ASSUME Serial(q[i]) PROVE /\ Sender[q[i].command] = s
                                    /\ number'[q[i].command] > 0
                                    /\ number'[q[i].command] <= sent'[s]
      BY <3>2, <2>1, <2>2, <1>6, <1>2 DEF InOrder
    <3>3. ASSUME Serial(q[i]), NEW j \in DOMAIN (q \o n), i < j, Serial((q \o n)[j])
          PROVE number'[q[i].command] <= number'[(q \o n)[j].command]
      <4>1. CASE j \in DOMAIN q /\ (q \o n)[j] = q[j]
        <5>1. Serial(q[j])
          BY <3>3, <4>1
        <5>2. number[q[i].command] <= number[q[j].command]
          BY <5>1, <3>3, <4>1, <2>1, <2>2 DEF InOrder
        <5>3. number'[q[i].command] = number[q[i].command]
          BY <3>3, <2>2, <1>6
        <5>4. number'[q[j].command] = number[q[j].command]
          BY <5>1, <4>1, <1>6
        <5> QED
          BY <5>2, <5>3, <5>4, <4>1
      <4>2. CASE (q \o n)[j].command = c
        <5>1. number'[(q \o n)[j].command] = sent[s] + 1
          BY <4>2, <1>2
        <5>2. number'[q[i].command] <= sent[s] /\ number'[q[i].command] \in Nat
          BY <3>3, <2>2, <1>6, <1>2
        <5> QED
          BY <5>1, <5>2, <1>2
      <4> QED
        BY <4>1, <4>2, <1>4
    <3> QED
      BY <2>2, <3>1, <3>2, <3>3
  <2>3. CASE /\ i \in Nat /\ i > Len(q)
             /\ (q \o n)[i].op \in {"push", "pop"} /\ (q \o n)[i].command = c
             /\ (q \o n)[i].op = "pop" => (q \o n)[i].key = s
    <3>1. \A j \in DOMAIN (q \o n) : i < j => (q \o n)[j].command = c
      <4>1. Len(q) \in Nat
        BY DEF ListsOK
      <4> QED
        BY <1>4, <1>5, <2>3, <4>1
    <3> QED
      BY <3>1, <2>3, <1>1, <1>2
  <2> QED
    BY <2>2, <2>3, <1>4
<1>8. \A t \in Sockets \ {s} : InOrder(t)'
  <2> SUFFICES ASSUME NEW t \in Sockets \ {s} PROVE InOrder(t)'
    OBVIOUS
  <2>1. \A i \in DOMAIN connection[t] : connection[t][i] \in Request
    BY DEF ListsOK
  <2>2. InOrder(t) /\ connection'[t] = connection[t] /\ sent'[t] = sent[t]
    BY <1>2 DEF OwnInv
  <2>3. \A i \in DOMAIN connection[t] : Serial(connection[t][i]) =>
          number'[connection[t][i].command] = number[connection[t][i].command]
    BY <1>1, <1>2, <2>1, <2>2 DEF InOrder, Serial, Request
  <2> QED
    BY <2>2, <2>3 DEF InOrder, Serial
<1>9. ASSUME NEW e \in Entry, Returns(e) PROVE Returns(e)'
  <2>1. e.command \in Commands /\ e.destination \in Sockets /\ e.command # c
    BY <1>1, <1>9 DEF Entry, Returns
  <2>2. number'[e.command] = number[e.command]
    BY <2>1, <1>2
  <2>3. CASE e.destination = s
    <3>1. number[e.command] <= sent[s]
      BY <2>1, <2>3, <1>9 DEF OwnInv, Returns
    <3>2. ASSUME NEW i \in DOMAIN (q \o n), Serial((q \o n)[i])
          PROVE number[e.command] <= number'[(q \o n)[i].command]
      <4>1. CASE i \in DOMAIN q /\ (q \o n)[i] = q[i]
        BY <4>1, <3>2, <1>6, <1>9, <2>3 DEF Returns
      <4>2. CASE (q \o n)[i].command = c
        BY <4>2, <3>1, <1>2, <2>1
      <4> QED
        BY <4>1, <4>2, <1>4
    <3> QED
      BY <3>2, <2>2, <2>3, <1>2, <1>9 DEF Returns, Serial
  <2>4. CASE e.destination # s
    <3> DEFINE t == e.destination
    <3>1. InOrder(t) /\ connection'[t] = connection[t]
      BY <2>1, <2>4, <1>2 DEF OwnInv
    <3>2. \A i \in DOMAIN connection[t] : connection[t][i] \in Request
      BY <2>1 DEF ListsOK
    <3>3. \A i \in DOMAIN connection[t] : Serial(connection[t][i]) =>
            number'[connection[t][i].command] = number[connection[t][i].command]
      BY <1>1, <1>2, <2>4, <3>1, <3>2 DEF InOrder, Serial, Request
    <3> QED
      BY <3>1, <3>3, <2>2, <1>9 DEF Returns, Serial
  <2> QED
    BY <2>3, <2>4
<1>10. /\ (\A k \in Routes \cup Sockets : \A i \in DOMAIN queue[k] : Returns(queue[k][i]))'
       /\ (\A r \in Routes : held[r] # None => Returns(held[r]))'
  <2>1. \A k \in Routes \cup Sockets : \A i \in DOMAIN queue[k] : queue[k][i] \in Entry
    BY DEF ListsOK
  <2>2. \A r \in Routes : held[r] # None => held[r] \in Entry
    BY DEF ListsOK
  <2> QED
    BY <1>1, <1>9, <2>1, <2>2 DEF OwnInv
<1>11. \A d \in Commands : number'[d] <= sent'[Sender[d]]
  <2> SUFFICES ASSUME NEW d \in Commands PROVE number'[d] <= sent'[Sender[d]]
    OBVIOUS
  <2>1. Sender[d] \in Sockets /\ number[d] <= sent[Sender[d]] /\ sent[Sender[d]] \in Nat
    BY DEF OwnInv, FlagOK
  <2> QED
    BY <2>1, <1>1, <1>2
<1>12. \A d \in Commands : answer[d] \in Commands =>
         /\ number'[answer[d]] > 0 /\ Sender[answer[d]] = Sender[d]
         /\ number'[answer[d]] <= number'[d]
  <2> SUFFICES ASSUME NEW d \in Commands, answer[d] \in Commands
               PROVE /\ number'[answer[d]] > 0 /\ Sender[answer[d]] = Sender[d]
                     /\ number'[answer[d]] <= number'[d]
    OBVIOUS
  <2>1. /\ number[answer[d]] > 0 /\ Sender[answer[d]] = Sender[d]
        /\ number[answer[d]] <= number[d]
    BY DEF OwnInv, AnswerToOwnCommand
  <2>2. answer[d] # c /\ d # c
    BY <2>1, <1>1, <1>2
  <2> QED
    BY <2>1, <2>2, <1>2
<1>13. \A t \in Sockets : \A i \in DOMAIN queue'[t] : queue'[t][i].destination = t
  BY <1>1 DEF OwnInv
<1>14. (\A t \in Sockets : InOrder(t))'
  BY <1>7, <1>8
<1> QED
  BY <1>1, <1>10, <1>11, <1>12, <1>13, <1>14 DEF OwnInv, AnswerToOwnCommand

\* Asking to delete the web queue and to quit changes nothing of the order.
LEMMA AskToDelete ==
  ASSUME ListsOK, FlagOK, OwnInv, NEW s \in Sockets, NEW n \in Seq(Request), Ask(s, n),
         \A i \in DOMAIN n : ~Serial(n[i]) /\ (n[i].op = "del" => n[i].key = s),
         UNCHANGED <<number, sent, queue, held, answer>>
  PROVE  OwnInv'
<1> DEFINE q == connection[s]
<1>1. q \in Seq(Request) /\ connection'[s] = q \o n
      /\ \A t \in Sockets \ {s} : connection'[t] = connection[t]
  BY DEF ListsOK, Ask
<1>2. \A i \in DOMAIN (q \o n) :
        \/ i \in DOMAIN q /\ (q \o n)[i] = q[i]
        \/ ~Serial((q \o n)[i]) /\ ((q \o n)[i].op \in {"pop", "del"} => (q \o n)[i].key = s)
  <2> HIDE DEF q
  <2>1. \A i \in DOMAIN (q \o n) :
          \/ i \in DOMAIN q /\ (q \o n)[i] = q[i]
          \/ i \in Nat /\ i > Len(q) /\ i - Len(q) \in DOMAIN n /\ (q \o n)[i] = n[i - Len(q)]
    BY <1>1, ConcatElements
  <2> QED
    BY <2>1 DEF Serial
<1>3. InOrder(s)'
  BY <1>1, <1>2 DEF OwnInv, InOrder, Serial
<1>4. \A t \in Sockets \ {s} : InOrder(t)'
  BY <1>1 DEF OwnInv, InOrder, Serial
<1>5. \A e \in Entry : Returns(e) => Returns(e)'
  <2> SUFFICES ASSUME NEW e \in Entry, Returns(e) PROVE Returns(e)'
    OBVIOUS
  <2>1. CASE e.destination = s
    BY <2>1, <1>1, <1>2 DEF Returns, Serial
  <2>2. CASE e.destination # s
    BY <2>2, <1>1 DEF Returns, Serial, Entry
  <2> QED
    BY <2>1, <2>2
<1>6. /\ \A k \in Routes \cup Sockets : \A i \in DOMAIN queue[k] :
           queue[k][i] \in Entry /\ Returns(queue[k][i])
      /\ \A r \in Routes : held[r] # None => held[r] \in Entry /\ Returns(held[r])
  BY DEF ListsOK, OwnInv
<1>7. /\ (\A k \in Routes \cup Sockets : \A i \in DOMAIN queue[k] : Returns(queue[k][i]))'
      /\ (\A r \in Routes : held[r] # None => Returns(held[r]))'
  BY <1>5, <1>6
<1> QED
  BY <1>3, <1>4, <1>7 DEF OwnInv, AnswerToOwnCommand

\* What is left to show of a step that sends no command: the lists and the answers.
LEMMA ListStep ==
  ASSUME ListsOK, OwnInv, UNCHANGED <<number, sent>>,
         \A t \in Sockets : InOrder(t)', \A e \in Entry : Returns(e) => Returns(e)',
         QueuesKept, \A r \in Routes : held'[r] # None => held'[r] \in Entry /\ Returns(held'[r]),
         \A c \in Commands : answer'[c] \in Commands =>
           number[answer'[c]] > 0 /\ Sender[answer'[c]] = Sender[c]
           /\ number[answer'[c]] <= number[c]
  PROVE  OwnInv'
<1>1. (\A k \in Routes \cup Sockets : \A i \in DOMAIN queue[k] : Returns(queue[k][i]))'
  BY DEF QueuesKept
<1>2. (\A r \in Routes : held[r] # None => Returns(held[r]))'
  OBVIOUS
<1>3. (\A s \in Sockets : \A i \in DOMAIN queue[s] : queue[s][i].destination = s)'
  BY DEF QueuesKept
<1> QED
  BY <1>1, <1>2, <1>3 DEF OwnInv, AnswerToOwnCommand

\* Lists that stay are as good as they were.
LEMMA SameLists == ASSUME ListsOK, OwnInv, queue' = queue PROVE QueuesKept
  BY DEF ListsOK, OwnInv, QueuesKept

\* So are the entries that routers hold.
LEMMA SameHeld == ASSUME ListsOK, OwnInv, held' = held
                  PROVE  \A r \in Routes : held'[r] # None => held'[r] \in Entry /\ Returns(held'[r])
  BY DEF ListsOK, OwnInv

\* So are the answers.
LEMMA SameAnswers ==
  ASSUME OwnInv, answer' = answer
  PROVE  \A c \in Commands : answer'[c] \in Commands =>
           number[answer'[c]] > 0 /\ Sender[answer'[c]] = Sender[c]
           /\ number[answer'[c]] <= number[c]
  BY DEF OwnInv, AnswerToOwnCommand

\* Every step keeps requests in order and results with their browser.
LEMMA OwnStep == FlagOK /\ ListsOK /\ OwnInv /\ [Next]_vars => OwnInv'
<1> SUFFICES ASSUME FlagOK, ListsOK, OwnInv, [Next]_vars PROVE OwnInv'
  OBVIOUS
<1> USE CommandsAssumption
<1>1. CASE UNCHANGED vars
  BY <1>1 DEF vars, socketVars, history, OwnInv, InOrder, Returns, Serial, AnswerToOwnCommand
<1>2. ASSUME NEW s \in Sockets, NEW r \in Routes, PeripheralEvent(s, r) PROVE OwnInv'
  <2> DEFINE n == <<ToDo("del", s, None)>>
  <2>1. n \in Seq(Request) /\ \A i \in DOMAIN n : ~Serial(n[i]) /\ (n[i].op = "del" => n[i].key = s)
    BY RequestTypes DEF ToDo, Serial
  <2>2. Ask(s, n) /\ UNCHANGED <<number, sent, queue, held, answer>>
    BY <1>2 DEF PeripheralEvent, WebQueueKey, history
  <2> HIDE DEF n
  <2> QED
    BY <2>1, <2>2, AskToDelete
<1>3. ASSUME NEW s \in Sockets, NEW c \in Commands, CommandEvent(s, c) PROVE OwnInv'
  BY <1>3, CommandStep
<1>4. ASSUME NEW s \in Sockets, CommandThrows(s) PROVE OwnInv'
  BY <1>4 DEF CommandThrows, history, OwnInv, InOrder, Returns, Serial, AnswerToOwnCommand
<1>5. ASSUME NEW s \in Sockets, Disconnect(s) PROVE OwnInv'
  <2>1. UNCHANGED <<number, sent, queue, held, answer>>
    BY <1>5 DEF Disconnect, history
  <2>2. CASE redisClient[s]
    <3> DEFINE n == <<ToDo("del", s, None), ToDo("quit", None, None)>>
    <3>1. n \in Seq(Request) /\ \A i \in DOMAIN n : ~Serial(n[i]) /\ (n[i].op = "del" => n[i].key = s)
      BY RequestTypes DEF ToDo, Serial
    <3>2. Ask(s, n)
      BY <1>5, <2>2 DEF Disconnect, WebQueueKey
    <3> HIDE DEF n
    <3> QED
      BY <3>1, <3>2, <2>1, AskToDelete
  <2>3. CASE ~redisClient[s]
    <3>1. UNCHANGED connection
      BY <1>5, <2>3 DEF Disconnect
    <3> QED
      BY <3>1, <2>1 DEF OwnInv, InOrder, Returns, Serial, AnswerToOwnCommand
  <2> QED
    BY <2>2, <2>3
<1>6. ASSUME NEW s \in Sockets, ClientError(s) PROVE OwnInv'
  <2>1. /\ connection' = [connection EXCEPT ![s] = <<>>] /\ UNCHANGED history
        /\ UNCHANGED <<number, sent, queue, held, answer>>
    BY <1>6 DEF ClientError, history
  <2> QED
    BY <2>1, Shorter, SameLists, SameHeld, SameAnswers, ListStep
<1>7. ASSUME NEW s \in Sockets, Push(s) PROVE OwnInv'
  <2> DEFINE q == Head(connection[s])
             e == [command |-> q.command, destination |-> s]
  <2>1. Executes(s, "push") /\ q \in Request /\ q.op = "push"
    BY <1>7, ExecutesType DEF Push
  <2>2. q.key \in Routes /\ e \in Entry
    BY <2>1 DEF Request, Entry
  <2>3. connection[s] \in Seq(Request) /\ connection[s] # <<>> /\ InOrder(s)
    BY <2>1 DEF Executes, ListsOK, OwnInv
  <2>4. 1 \in DOMAIN connection[s] /\ connection[s][1] = q
    BY <2>3, TailElements
  <2>5. \A i \in DOMAIN connection[s] : i = 1 \/ 1 < i
    BY <2>3
  <2>6. number[q.command] \in Nat
    BY <2>2 DEF FlagOK, Entry
  <2>7. Returns(e)
    BY <2>1, <2>3, <2>4, <2>5, <2>6 DEF Returns, InOrder, Serial
  <2>8. queue' = [queue EXCEPT ![q.key] = Append(@, e)] /\ answer' = answer
    BY <1>7 DEF Push, WebQueueKey
  <2>9. QueuesKept
    <3> HIDE DEF e
    <3> QED
      BY <2>2, <2>7, <2>8, AppendKept
  <2>10. /\ \A t \in Sockets : InOrder(t)'
         /\ \A f \in Entry : Returns(f) => Returns(f)'
         /\ UNCHANGED <<number, sent, held>>
    BY <2>1, ExecutesStep
  <2> QED
    BY <2>8, <2>9, <2>10, SameHeld, SameAnswers, ListStep
<1>8. ASSUME NEW s \in Sockets, Pop(s) PROVE OwnInv'
  <2> DEFINE q == Head(connection[s])
             a == Head(queue[q.key])
  <2>1. Executes(s, "pop") /\ q \in Request /\ q.op = "pop"
    BY <1>8, ExecutesType DEF Pop
  <2>2. connection[s] \in Seq(Request) /\ connection[s] # <<>> /\ InOrder(s)
    BY <2>1 DEF Executes, ListsOK, OwnInv
  <2>3. 1 \in DOMAIN connection[s] /\ connection[s][1] = q
    BY <2>2, TailElements
  <2>4. q.key = s /\ q.command \in Commands /\ Sender[q.command] = s
    BY <2>1, <2>2, <2>3 DEF InOrder, Serial, Request
  <2>5. /\ queue[s] # <<>> /\ queue' = [queue EXCEPT ![s] = Tail(@)]
        /\ answer' = [answer EXCEPT ![q.command] = a.command]
    BY <1>8, <2>4 DEF Pop
  <2>6. queue[s] \in Seq(Entry)
    BY DEF ListsOK
  <2>7. a \in Entry /\ 1 \in DOMAIN queue[s] /\ a = queue[s][1]
    BY <2>4, <2>5, <2>6, TailElements
  <2>8. Returns(a) /\ a.destination = s /\ a.command \in Commands
    BY <2>7 DEF OwnInv, Entry
  <2>9. /\ number[a.command] > 0 /\ Sender[a.command] = s
        /\ number[a.command] <= number[q.command]
    BY <2>1, <2>3, <2>8 DEF Returns, Serial
  <2>10. QueuesKept
    BY <2>5, TailKept
  <2>11. \A c \in Commands : answer'[c] \in Commands =>
           number[answer'[c]] > 0 /\ Sender[answer'[c]] = Sender[c]
           /\ number[answer'[c]] <= number[c]
    <3> SUFFICES ASSUME NEW c \in Commands, answer'[c] \in Commands
                 PROVE  number[answer'[c]] > 0 /\ Sender[answer'[c]] = Sender[c]
                        /\ number[answer'[c]] <= number[c]
      OBVIOUS
    <3>1. CASE c = q.command
      <4>1. answer'[c] = a.command
        BY <3>1, <2>5 DEF FlagOK
      <4> QED
        BY <4>1, <3>1, <2>4, <2>9
    <3>2. CASE c # q.command
      <4>1. answer'[c] = answer[c]
        BY <3>2, <2>5 DEF FlagOK
      <4> QED
        BY <4>1 DEF OwnInv, AnswerToOwnCommand
    <3> QED
      BY <3>1, <3>2
  <2>12. /\ \A t \in Sockets : InOrder(t)'
         /\ \A f \in Entry : Returns(f) => Returns(f)'
         /\ UNCHANGED <<number, sent, held>>
    BY <2>1, ExecutesStep
  <2> QED
    BY <2>10, <2>11, <2>12, SameHeld, ListStep
<1>9. ASSUME NEW s \in Sockets, PopTimeout(s) PROVE OwnInv'
  <2> DEFINE q == Head(connection[s])
  <2>1. Executes(s, "pop") /\ UNCHANGED queue /\ answer' = [answer EXCEPT ![q.command] = Timeout]
    BY <1>9 DEF PopTimeout
  <2>2. \A c \in Commands : answer'[c] \in Commands => answer'[c] = answer[c]
    BY <2>1 DEF FlagOK
  <2>3. \A c \in Commands : answer'[c] \in Commands =>
          number[answer'[c]] > 0 /\ Sender[answer'[c]] = Sender[c]
          /\ number[answer'[c]] <= number[c]
    BY <2>2 DEF OwnInv, AnswerToOwnCommand
  <2>4. /\ \A t \in Sockets : InOrder(t)'
        /\ \A f \in Entry : Returns(f) => Returns(f)'
        /\ UNCHANGED <<number, sent, held>>
    BY <2>1, ExecutesStep
  <2> QED
    BY <2>1, <2>3, <2>4, SameLists, SameHeld, ListStep
<1>10. ASSUME NEW s \in Sockets, Del(s) PROVE OwnInv'
  <2>1. Executes(s, "del") /\ answer' = answer
        /\ queue' = [queue EXCEPT ![Head(connection[s]).key] = <<>>]
    BY <1>10 DEF Del
  <2>2. QueuesKept
    <3>1. \A k \in Routes \cup Sockets : queue'[k] = queue[k] \/ queue'[k] = <<>>
      BY <2>1 DEF ListsOK
    <3>2. \A k \in Routes \cup Sockets : \A i \in DOMAIN queue'[k] :
            i \in DOMAIN queue[k] /\ queue'[k][i] = queue[k][i]
      BY <3>1
    <3>3. \A k \in Routes \cup Sockets : \A i \in DOMAIN queue[k] : queue[k][i] \in Entry
      BY DEF ListsOK
    <3> QED
      BY <3>2, <3>3 DEF OwnInv, QueuesKept
  <2>3. /\ \A t \in Sockets : InOrder(t)'
        /\ \A f \in Entry : Returns(f) => Returns(f)'
        /\ UNCHANGED <<number, sent, held>>
    BY <2>1, ExecutesStep
  <2> QED
    BY <2>1, <2>2, <2>3, SameHeld, SameAnswers, ListStep
<1>11. ASSUME NEW s \in Sockets, Quit(s) PROVE OwnInv'
  <2>1. Executes(s, "quit") /\ queue' = queue /\ answer' = answer
    BY <1>11 DEF Quit
  <2>2. /\ \A t \in Sockets : InOrder(t)'
        /\ \A f \in Entry : Returns(f) => Returns(f)'
        /\ UNCHANGED <<number, sent, held>>
    BY <2>1, ExecutesStep
  <2> QED
    BY <2>1, <2>2, SameLists, SameHeld, SameAnswers, ListStep
<1>12. ASSUME NEW r \in Routes, Take(r) \/ Result(r) \/ LoseCommand(r) PROVE OwnInv'
  <2>1. UNCHANGED history /\ connection' = connection /\ answer' = answer
        /\ UNCHANGED <<number, sent>>
    BY <1>12 DEF Take, Result, LoseCommand, history
  <2>2. /\ \A t \in Sockets : InOrder(t)'
        /\ \A f \in Entry : Returns(f) => Returns(f)'
    BY <2>1, Shorter
  <2>3. \A t \in Routes : held[t] # None => held[t] \in Entry /\ Returns(held[t])
    BY DEF ListsOK, OwnInv
  <2>4. CASE Take(r)
    <3> DEFINE a == Head(queue[r])
    <3>1. queue[r] # <<>> /\ queue' = [queue EXCEPT ![r] = Tail(@)]
          /\ held' = [held EXCEPT ![r] = a]
      BY <2>4 DEF Take
    <3>2. queue[r] \in Seq(Entry)
      BY DEF ListsOK
    <3>3. a \in Entry /\ 1 \in DOMAIN queue[r] /\ a = queue[r][1]
      BY <3>1, <3>2, TailElements
    <3>4. Returns(a)
      BY <3>3 DEF OwnInv
    <3>5. QueuesKept
      BY <3>1, TailKept
    <3>6. \A t \in Routes : held'[t] # None => held'[t] \in Entry /\ Returns(held'[t])
      BY <3>1, <3>3, <3>4, <2>3 DEF ListsOK
    <3> QED
      BY <2>1, <2>2, <3>5, <3>6, SameAnswers, ListStep
  <2>5. CASE Result(r)
    <3> DEFINE e == held[r]
    <3>1. e \in Entry /\ Returns(e) /\ e.destination \in Sockets
      BY <2>5, <2>3 DEF Result, Entry
    <3>2. queue' = [queue EXCEPT ![e.destination] = Append(@, e)]
      BY <2>5 DEF Result
    <3>3. QueuesKept
      <4> DEFINE k == e.destination
      <4>1. e \in Entry /\ Returns(e) /\ k \in Routes \cup Sockets /\ (k \in Sockets => e.destination = k)
            /\ queue' = [queue EXCEPT ![k] = Append(@, e)]
        BY <3>1, <3>2
      <4> HIDE DEF k, e
      <4> QED
        BY <4>1, AppendKept
    <3>4. \A t \in Routes : held'[t] # None => held'[t] \in Entry /\ Returns(held'[t])
      BY <2>5, <2>3 DEF Result, ListsOK
    <3> QED
      BY <2>1, <2>2, <3>3, <3>4, SameAnswers, ListStep
  <2>6. CASE LoseCommand(r)
    <3>1. \A t \in Routes : held'[t] # None => held'[t] \in Entry /\ Returns(held'[t])
      BY <2>6, <2>3 DEF LoseCommand, ListsOK
    <3>2. queue' = queue
      BY <2>6 DEF LoseCommand
    <3> QED
      BY <2>1, <2>2, <3>1, <3>2, SameLists, SameAnswers, ListStep
  <2> QED
    BY <1>12, <2>4, <2>5, <2>6
<1> QED
  BY <1>1, <1>2, <1>3, <1>4, <1>5, <1>6, <1>7, <1>8, <1>9, <1>10, <1>11, <1>12 DEF Next

\* Types and order hold always.
LEMMA Invariance == Spec => [](FlagOK /\ ListsOK /\ OwnInv)
<1>1. Init => FlagOK /\ ListsOK
  BY InitTypes
<1>2. Init => OwnInv
  <2> SUFFICES ASSUME Init PROVE OwnInv
    OBVIOUS
  <2>1. /\ \A s \in Sockets : DOMAIN connection[s] = {}
        /\ \A k \in Routes \cup Sockets : DOMAIN queue[k] = {}
    BY DEF Init
  <2>2. /\ \A r \in Routes : held[r] = None
        /\ \A c \in Commands : answer[c] = None /\ number[c] = 0 /\ sent[Sender[c]] = 0
    BY CommandsAssumption DEF Init
  <2> QED
    BY <2>1, <2>2, CommandsAssumption DEF OwnInv, InOrder, AnswerToOwnCommand
<1> QED
  BY <1>1, <1>2, TypeStep, OwnStep, PTL DEF Spec

\* The answer shown to a command is the result of one that the same browser sent,
\* no later, whatever comes late, gets lost or fails: web queues are not shared, and
\* what is asked on one connection is executed in order.
THEOREM AnswerToOwnCommandHolds == Spec => []AnswerToOwnCommand
<1>1. OwnInv => AnswerToOwnCommand
  BY DEF OwnInv
<1> QED
  BY <1>1, Invariance, PTL

-----------------------------------------------------------------------------
(* The answers in time *)

\* A command pushed is the next one awaited.
Paired(s) ==
  \A i \in DOMAIN connection[s] : connection[s][i].op = "push" =>
    /\ i + 1 \in DOMAIN connection[s]
    /\ connection[s][i + 1].op = "pop"
    /\ connection[s][i + 1].command = connection[s][i].command

\* What its socket waits for right now is the result of an entry.
Awaited(e) ==
  /\ connection[e.destination] # <<>>
  /\ connection[e.destination][1].op = "pop"
  /\ connection[e.destination][1].command = e.command

\* Where entries are: <<k, i>> is the i-th of the list k, or what the router of k holds
\* for i = 0.
Spots == (Routes \cup Sockets) \X Nat
There(p) == IF p[2] = 0 THEN p[1] \in Routes /\ held[p[1]] # None
                        ELSE p[2] \in DOMAIN queue[p[1]]
At(p) == IF p[2] = 0 THEN held[p[1]] ELSE queue[p[1]][p[2]]

\* Whatever is under way is awaited, and nothing else is under way to the same socket.
Awaiting == \A p \in Spots : There(p) => Awaited(At(p))
Alone ==
  \A p, o \in Spots : There(p) /\ There(o) /\ At(p).destination = At(o).destination => p = o
AnsweredRight == \A c \in Commands : answer[c] \in Commands => answer[c] = c

WaitInv == (\A s \in Sockets : Paired(s)) /\ Awaiting /\ Alone /\ AnsweredRight

InTime == faults \cap {"late", "error"} = {}

\* What is under way are entries.
LEMMA EntryThere == ASSUME ListsOK, NEW p \in Spots, There(p)
                    PROVE  At(p) \in Entry /\ At(p).destination \in Sockets
<1>1. p[1] \in Routes \cup Sockets
  BY DEF Spots
<1>2. CASE p[2] = 0
  BY <1>2 DEF ListsOK, There, At, Entry
<1>3. CASE p[2] # 0
  <2>1. queue[p[1]] \in Seq(Entry) /\ p[2] \in DOMAIN queue[p[1]] /\ At(p) = queue[p[1]][p[2]]
    BY <1>1, <1>3 DEF ListsOK, There, At
  <2>2. At(p) \in Entry
    BY <2>1
  <2> QED
    BY <2>2 DEF Entry
<1> QED
  BY <1>2, <1>3

\* Every entry under way was under way before, each at a spot of its own.
Traces(from) ==
  /\ from \in [Spots -> Spots]
  /\ \A p \in Spots : There(p)' => There(from[p]) /\ At(p)' = At(from[p])
  /\ \A p, o \in Spots : There(p)' /\ There(o)' /\ from[p] = from[o] => p = o

\* Then they are still alone, and still awaited if their sockets wait for the same.
LEMMA Traced ==
  ASSUME ListsOK, Awaiting, Alone, NEW from, Traces(from),
         \A p \in Spots : There(p)' /\ Awaited(At(from[p])) =>
           connection'[At(p)'.destination] = connection[At(p)'.destination]
  PROVE  Awaiting' /\ Alone'
<1>1. Alone'
  <2> SUFFICES ASSUME NEW p \in Spots, NEW o \in Spots, There(p)', There(o)',
                      At(p)'.destination = At(o)'.destination
               PROVE  p = o
    BY DEF Alone
  <2>1. from[p] = from[o]
    BY DEF Alone, Traces
  <2> QED
    BY <2>1 DEF Traces
<1>2. Awaiting'
  <2> SUFFICES ASSUME NEW p \in Spots, There(p)' PROVE Awaited(At(p))'
    BY DEF Awaiting
  <2>1. There(from[p]) /\ At(p)' = At(from[p]) /\ from[p] \in Spots
    BY DEF Traces
  <2>2. Awaited(At(from[p]))
    BY <2>1 DEF Awaiting
  <2>3. connection'[At(p)'.destination] = connection[At(from[p]).destination]
    BY <2>1, <2>2
  <2> QED
    BY <2>1, <2>2, <2>3 DEF Awaited
<1> QED
  BY <1>1, <1>2

\* An entry that stays where it is.
LEMMA Stay ==
  ASSUME \A p \in Spots : There(p)' => There(p) /\ At(p)' = At(p)
  PROVE  Traces([p \in Spots |-> p])
  BY DEF Traces

\* The head of a list goes, to whoever holds what is taken from that list if anybody does.
LEMMA TailSpots ==
  ASSUME ListsOK, NEW k \in Routes \cup Sockets, queue[k] # <<>>,
         queue' = [queue EXCEPT ![k] = Tail(@)],
         \/ k \in Sockets /\ held' = held
         \/ k \in Routes /\ held' = [held EXCEPT ![k] = Head(queue[k])]
  PROVE  Traces([p \in Spots |-> IF p[1] = k THEN <<k, p[2] + 1>> ELSE p])
<1> DEFINE from == [p \in Spots |-> IF p[1] = k THEN <<k, p[2] + 1>> ELSE p]
           q == queue[k]
<1>1. q \in Seq(Entry) /\ queue'[k] = Tail(q) /\ \A j \in (Routes \cup Sockets) \ {k} : queue'[j] = queue[j]
  BY DEF ListsOK
<1>2. /\ Head(q) = q[1] /\ 1 \in DOMAIN q
      /\ \A i \in DOMAIN Tail(q) : i + 1 \in DOMAIN q /\ Tail(q)[i] = q[i + 1]
  <2> HIDE DEF q
  <2>1. q \in Seq(Entry) /\ q # <<>>
    BY <1>1 DEF q
  <2> QED
    BY <2>1, TailElements
<1>3. from \in [Spots -> Spots]
  BY DEF Spots
<1>4. ASSUME NEW p \in Spots, There(p)' PROVE There(from[p]) /\ At(p)' = At(from[p])
  <2>1. p[1] \in Routes \cup Sockets /\ p[2] \in Nat /\ p = <<p[1], p[2]>>
    BY DEF Spots
  <2>2. CASE p[1] # k
    <3>1. from[p] = p
      BY <2>2
    <3>2. CASE p[2] = 0
      <4>1. p[1] \in Routes /\ held'[p[1]] # None
        BY <1>4, <3>2 DEF There
      <4>2. held'[p[1]] = held[p[1]]
        BY <2>2, <4>1 DEF ListsOK
      <4> QED
        BY <3>1, <3>2, <4>1, <4>2 DEF There, At
    <3>3. CASE p[2] # 0
      BY <1>1, <1>4, <2>1, <2>2, <3>1, <3>3 DEF There, At
    <3> QED
      BY <3>2, <3>3
  <2>3. CASE p[1] = k /\ p[2] = 0
    <3>1. k \in Routes
      BY <1>4, <2>3 DEF There
    <3>2. held'[k] = q[1]
      BY <3>1, <1>2, CommandsAssumption DEF ListsOK
    <3>3. from[p] = <<k, 1>>
      BY <2>3
    <3> QED
      BY <3>2, <3>3, <2>3, <1>2 DEF There, At
  <2>4. CASE p[1] = k /\ p[2] # 0
    <3>1. p[2] \in DOMAIN Tail(q) /\ At(p)' = Tail(q)[p[2]]
      BY <1>1, <1>4, <2>4 DEF There, At
    <3>2. from[p] = <<k, p[2] + 1>> /\ p[2] + 1 # 0
      BY <2>1, <2>4
    <3> QED
      BY <3>1, <3>2, <1>2 DEF There, At
  <2> QED
    BY <2>2, <2>3, <2>4
<1>5. \A p, o \in Spots : from[p] = from[o] => p = o
  BY DEF Spots
<1> QED
  BY <1>3, <1>4, <1>5 DEF Traces

\* A result goes from the router to the web queue.
LEMMA ResultSpots ==
  ASSUME ListsOK, NEW r \in Routes, Result(r)
  PROVE  Traces([p \in Spots |-> IF p = <<held[r].destination, Len(queue[held[r].destination]) + 1>>
                                 THEN <<r, 0>> ELSE p])
<1> DEFINE e == held[r]
           d == e.destination
           q == queue[d]
           from == [p \in Spots |-> IF p = <<d, Len(q) + 1>> THEN <<r, 0>> ELSE p]
<1>1. e \in Entry /\ e # None /\ d \in Sockets /\ q \in Seq(Entry)
  BY DEF Result, ListsOK, Entry
<1>2. /\ queue'[d] = Append(q, e) /\ \A j \in (Routes \cup Sockets) \ {d} : queue'[j] = queue[j]
      /\ held'[r] = None /\ \A t \in Routes \ {r} : held'[t] = held[t]
  BY <1>1 DEF Result, ListsOK
<1>3. \A i \in DOMAIN Append(q, e) : \/ i \in DOMAIN q /\ Append(q, e)[i] = q[i]
                                     \/ i = Len(q) + 1 /\ Append(q, e)[i] = e
  <2> HIDE DEF q, e
  <2> QED
    BY <1>1, AppendElements
<1>4. from \in [Spots -> Spots]
  BY DEF Spots
<1>5. Len(q) \in Nat /\ \A i \in DOMAIN q : i # Len(q) + 1
  BY <1>1
<1>6. ASSUME NEW p \in Spots, There(p)'
      PROVE  There(from[p]) /\ At(p)' = At(from[p]) /\ (from[p] = <<r, 0>> => p = <<d, Len(q) + 1>>)
  <2>1. p[1] \in Routes \cup Sockets /\ p[2] \in Nat /\ p = <<p[1], p[2]>>
    BY DEF Spots
  <2>2. CASE p = <<d, Len(q) + 1>>
    <3>1. from[p] = <<r, 0>> /\ p[1] = d /\ p[2] # 0
      BY <2>2, <1>5
    <3>2. p[2] \in DOMAIN Append(q, e) /\ At(p)' = Append(q, e)[p[2]]
      BY <1>2, <1>6, <3>1 DEF There, At
    <3>3. At(p)' = e
      BY <3>2, <2>2, <1>3, <1>5
    <3> QED
      BY <3>1, <3>3, <2>2, <1>1 DEF There, At
  <2>3. CASE p # <<d, Len(q) + 1>>
    <3>1. from[p] = p
      BY <2>3
    <3>2. CASE p[2] = 0
      BY <1>2, <1>6, <3>1, <3>2 DEF There, At
    <3>3. CASE p[2] # 0 /\ p[1] = d
      <4>1. p[2] \in DOMAIN Append(q, e) /\ At(p)' = Append(q, e)[p[2]]
        BY <1>2, <1>6, <3>3 DEF There, At
      <4>2. p[2] \in DOMAIN q /\ At(p)' = q[p[2]]
        BY <4>1, <1>3, <2>1, <2>3, <3>3
      <4> QED
        BY <4>2, <3>1, <3>3 DEF There, At
    <3>4. CASE p[2] # 0 /\ p[1] # d
      BY <1>2, <1>6, <2>1, <3>1, <3>4 DEF There, At
    <3> QED
      BY <3>2, <3>3, <3>4
  <2> QED
    BY <2>2, <2>3
<1>7. \A p, o \in Spots : There(p)' /\ There(o)' /\ from[p] = from[o] => p = o
  BY <1>6
<1> QED
  BY <1>4, <1>6, <1>7 DEF Traces

\* The heads of connections decide what is awaited: a step of Redis on one of them changes
\* nothing for other sockets, and finds nothing under way to its own unless it answers.
LEMMA HeadExecuted ==
  ASSUME ListsOK, WaitInv, NEW s \in Sockets, NEW op, Executes(s, op)
  PROVE  /\ \A t \in Sockets : Paired(t)'
         /\ \A t \in Sockets \ {s} : connection'[t] = connection[t]
         /\ connection[s] # <<>> /\ connection[s][1] = Head(connection[s])
         /\ connection[s][1].op = op
         /\ op # "pop" => \A p \in Spots : There(p) => At(p).destination # s
         /\ op = "push" => \A e \in Entry :
              e.destination = s /\ e.command = connection[s][1].command => Awaited(e)'
<1> DEFINE q == connection[s]
<1>1. /\ q \in Seq(Request) /\ q # <<>> /\ connection'[s] = Tail(q) /\ Head(q).op = op
      /\ \A t \in Sockets \ {s} : connection'[t] = connection[t]
  BY DEF Executes, ListsOK
<1>2. /\ Head(q) = q[1] /\ 1 \in DOMAIN q /\ Tail(q) \in Seq(Request)
      /\ \A i \in DOMAIN Tail(q) : i + 1 \in DOMAIN q /\ Tail(q)[i] = q[i + 1]
      /\ \A i \in DOMAIN q : i \in Nat /\ (i # 1 => i - 1 \in DOMAIN Tail(q))
  <2> HIDE DEF q
  <2>1. q \in Seq(Request) /\ q # <<>>
    BY <1>1
  <2>2. \A i \in DOMAIN q : i \in Nat /\ (i # 1 => i - 1 \in DOMAIN Tail(q))
    BY <2>1
  <2> QED
    BY <2>1, <2>2, TailElements
<1>3. \A t \in Sockets \ {s} : Paired(t)'
  BY <1>1 DEF WaitInv, Paired
<1>4. Paired(s)'
  <2> SUFFICES ASSUME NEW i \in DOMAIN Tail(q), Tail(q)[i].op = "push"
               PROVE  /\ i + 1 \in DOMAIN Tail(q) /\ Tail(q)[i + 1].op = "pop"
                      /\ Tail(q)[i + 1].command = Tail(q)[i].command
    BY <1>1 DEF Paired
  <2>1. i \in Nat /\ i + 1 \in DOMAIN q /\ q[i + 1].op = "push" /\ i + 1 # 1
    BY <1>2
  <2>2. /\ (i + 1) + 1 \in DOMAIN q /\ q[(i + 1) + 1].op = "pop"
        /\ q[(i + 1) + 1].command = q[i + 1].command
    BY <2>1 DEF WaitInv, Paired
  <2>3. ((i + 1) + 1) - 1 = i + 1 /\ (i + 1) + 1 # 1
    BY <2>1
  <2>4. i + 1 \in DOMAIN Tail(q)
    BY <2>2, <2>3, <1>2
  <2> QED
    BY <2>2, <2>4, <1>2
<1>5. ASSUME op # "pop", NEW p \in Spots, There(p) PROVE At(p).destination # s
  BY <1>1, <1>2, <1>5 DEF WaitInv, Awaiting, Awaited
<1>6. ASSUME op = "push", NEW e \in Entry, e.destination = s, e.command = q[1].command
      PROVE  Awaited(e)'
  <2>1. 2 \in DOMAIN q /\ q[2].op = "pop" /\ q[2].command = q[1].command
    BY <1>1, <1>2, <1>6 DEF WaitInv, Paired
  <2>2. 1 \in DOMAIN Tail(q) /\ Tail(q)[1] = q[2]
    BY <2>1, <1>2
  <2>3. Tail(q) # <<>>
    <3> HIDE DEF q
    <3>1. DOMAIN Tail(q) # {}
      BY <2>2
    <3> QED
      BY <3>1
  <2> QED
    BY <2>1, <2>2, <2>3, <1>1, <1>6 DEF Awaited
<1> QED
  BY <1>1, <1>2, <1>3, <1>4, <1>5, <1>6

\* What a socket asks for later changes nothing of what it waits for.
LEMMA AskedLater ==
  ASSUME ListsOK, WaitInv, NEW s \in Sockets, NEW n \in Seq(Request), Ask(s, n),
         \A i \in DOMAIN n : n[i].op = "push" =>
           i + 1 \in DOMAIN n /\ n[i + 1].op = "pop" /\ n[i + 1].command = n[i].command,
         UNCHANGED <<queue, held, answer>>
  PROVE  WaitInv'
<1> DEFINE q == connection[s]
<1>1. /\ q \in Seq(Request) /\ connection'[s] = q \o n
      /\ \A t \in Sockets \ {s} : connection'[t] = connection[t]
  BY DEF ListsOK, Ask
<1>2. /\ \A i \in DOMAIN (q \o n) :
           \/ i \in DOMAIN q /\ (q \o n)[i] = q[i]
           \/ i \in Nat /\ i > Len(q) /\ i - Len(q) \in DOMAIN n /\ (q \o n)[i] = n[i - Len(q)]
      /\ Len(q \o n) = Len(q) + Len(n) /\ q \o n \in Seq(Request)
  <2> HIDE DEF q
  <2> QED
    BY <1>1, ConcatElements
<1>3. /\ DOMAIN q = 1..Len(q) /\ DOMAIN n = 1..Len(n) /\ Len(q) \in Nat /\ Len(n) \in Nat
      /\ DOMAIN (q \o n) = 1..(Len(q) + Len(n))
  <2> HIDE DEF q
  <2> QED
    BY <1>1, <1>2
<1>4. \A i \in DOMAIN q : i \in DOMAIN (q \o n) /\ (q \o n)[i] = q[i]
  BY <1>2, <1>3
<1>5. \A j \in DOMAIN n : Len(q) + j \in DOMAIN (q \o n) /\ (q \o n)[Len(q) + j] = n[j]
  <2> HIDE DEF q
  <2> SUFFICES ASSUME NEW j \in DOMAIN n
               PROVE  Len(q) + j \in DOMAIN (q \o n) /\ (q \o n)[Len(q) + j] = n[j]
    OBVIOUS
  <2>1. Len(q) + j \in DOMAIN (q \o n) /\ Len(q) + j \notin DOMAIN q /\ (Len(q) + j) - Len(q) = j
    BY <1>3
  <2> QED
    BY <2>1, <1>2
<1>6. Paired(s)'
  <2> SUFFICES ASSUME NEW i \in DOMAIN (q \o n), (q \o n)[i].op = "push"
               PROVE  /\ i + 1 \in DOMAIN (q \o n) /\ (q \o n)[i + 1].op = "pop"
                      /\ (q \o n)[i + 1].command = (q \o n)[i].command
    BY <1>1 DEF Paired
  <2>1. CASE i \in DOMAIN q /\ (q \o n)[i] = q[i]
    <3>1. i + 1 \in DOMAIN q /\ q[i + 1].op = "pop" /\ q[i + 1].command = q[i].command
      BY <2>1 DEF WaitInv, Paired
    <3> QED
      BY <2>1, <3>1, <1>4
  <2>2. CASE i \in Nat /\ i > Len(q) /\ i - Len(q) \in DOMAIN n /\ (q \o n)[i] = n[i - Len(q)]
    <3> DEFINE j == i - Len(q)
    <3>1. j + 1 \in DOMAIN n /\ n[j + 1].op = "pop" /\ n[j + 1].command = n[j].command
      BY <2>2
    <3>2. Len(q) + (j + 1) = i + 1
      BY <2>2, <1>3
    <3>3. Len(q) + (j + 1) \in DOMAIN (q \o n) /\ (q \o n)[Len(q) + (j + 1)] = n[j + 1]
      <4> HIDE DEF j
      <4> QED
        BY <3>1, <1>5
    <3> QED
      BY <2>2, <3>1, <3>2, <3>3
  <2> QED
    BY <2>1, <2>2, <1>2
<1>7. \A t \in Sockets \ {s} : Paired(t)'
  BY <1>1 DEF WaitInv, Paired
<1>8. ASSUME NEW e \in Entry, Awaited(e) PROVE Awaited(e)'
  <2>1. CASE e.destination = s
    <3>1. 1 \in DOMAIN q
      BY <1>1, <1>8, <2>1 DEF Awaited
    <3>2. q \o n # <<>> /\ (q \o n)[1] = q[1]
      BY <3>1, <1>4
    <3> QED
      BY <3>2, <1>1, <1>8, <2>1 DEF Awaited
  <2>2. CASE e.destination # s
    BY <1>1, <1>8, <2>2 DEF Awaited, Entry
  <2> QED
    BY <2>1, <2>2
<1>9. \A p \in Spots : (There(p)' <=> There(p)) /\ At(p)' = At(p)
  BY DEF There, At
<1>10. Awaiting'
  <2> SUFFICES ASSUME NEW p \in Spots, There(p)' PROVE Awaited(At(p))'
    BY DEF Awaiting
  <2>1. There(p) /\ At(p)' = At(p) /\ At(p) \in Entry /\ Awaited(At(p))
    BY <1>9, EntryThere DEF WaitInv, Awaiting
  <2>2. PICK e \in Entry : e = At(p)
    BY <2>1
  <2>3. Awaited(e)'
    BY <2>1, <2>2, <1>8
  <2> QED
    BY <2>1, <2>2, <2>3 DEF Awaited
<1>11. Alone' /\ AnsweredRight'
  BY <1>9 DEF WaitInv, Alone, AnsweredRight
<1> QED
  BY <1>6, <1>7, <1>10, <1>11 DEF WaitInv

\* A step that leaves connections, lists, routers and answers alone keeps it.
LEMMA WaitFrame ==
  ASSUME WaitInv, UNCHANGED <<connection, queue, held, answer>>
  PROVE  WaitInv'
<1>1. /\ \A p \in Spots : (There(p)' <=> There(p)) /\ At(p)' = At(p)
      /\ connection' = connection /\ answer' = answer
  BY DEF There, At
<1>2. \A s \in Sockets : Paired(s)'
  BY <1>1 DEF WaitInv, Paired
<1>3. Awaiting'
  <2> SUFFICES ASSUME NEW p \in Spots, There(p)' PROVE Awaited(At(p))'
    BY DEF Awaiting
  <2>1. PICK e : e = At(p)
    OBVIOUS
  <2>2. Awaited(e) /\ At(p)' = e
    BY <1>1, <2>1 DEF WaitInv, Awaiting
  <2>3. Awaited(e)'
    BY <1>1, <2>2 DEF Awaited
  <2> QED
    BY <2>2, <2>3 DEF Awaited
<1>4. Alone' /\ AnsweredRight'
  BY <1>1 DEF WaitInv, Alone, AnsweredRight
<1> QED
  BY <1>2, <1>3, <1>4 DEF WaitInv

\* Every step keeps what is under way awaited and alone.
LEMMA WaitStep ==
  ASSUME InTime, FlagOK, ListsOK, OwnInv, WaitInv, [Next]_vars
  PROVE  WaitInv'
<1> USE CommandsAssumption
<1> DEFINE same == [p \in Spots |-> p]
<1>0. ASSUME NEW from, Traces(from), \A s \in Sockets : Paired(s)', AnsweredRight',
             \A p \in Spots : There(p)' /\ Awaited(At(from[p])) =>
               connection'[At(p)'.destination] = connection[At(p)'.destination]
      PROVE  WaitInv'
  BY <1>0, Traced DEF WaitInv
<1>1. CASE UNCHANGED vars \/ \E s \in Sockets : CommandThrows(s)
  <2>1. UNCHANGED <<connection, queue, held, answer>>
    BY <1>1 DEF vars, socketVars, CommandThrows
  <2> QED
    BY <2>1, WaitFrame
<1>2. ASSUME NEW s \in Sockets, NEW r \in Routes, PeripheralEvent(s, r) PROVE WaitInv'
  <2> DEFINE n == <<ToDo("del", s, None)>>
  <2>1. n \in Seq(Request) /\ \A i \in DOMAIN n : n[i].op # "push"
    BY RequestTypes DEF ToDo
  <2>2. Ask(s, n) /\ UNCHANGED <<queue, held, answer>>
    BY <1>2 DEF PeripheralEvent, WebQueueKey
  <2> HIDE DEF n
  <2> QED
    BY <2>1, <2>2, AskedLater
<1>3. ASSUME NEW s \in Sockets, NEW c \in Commands, CommandEvent(s, c) PROVE WaitInv'
  <2> DEFINE n == CommandRequests(s, c)
  <2>1. commandQueueKey[s] \in Routes
    BY <1>3 DEF CommandEvent, FlagOK
  <2>2. /\ n \in Seq(Request) /\ DOMAIN n = {1, 2}
        /\ n[2].op = "pop" /\ n[1].command = c /\ n[2].command = c
    BY <2>1, RequestTypes DEF CommandRequests, ToDo, WebQueueKey
  <2>3. Ask(s, n) /\ UNCHANGED <<queue, held, answer>>
    BY <1>3 DEF CommandEvent
  <2>4. \A i \in DOMAIN n : n[i].op = "push" =>
          i + 1 \in DOMAIN n /\ n[i + 1].op = "pop" /\ n[i + 1].command = n[i].command
    <3> HIDE DEF n
    <3> QED
      BY <2>2
  <2> HIDE DEF n
  <2> QED
    BY <2>2, <2>3, <2>4, AskedLater
<1>4. ASSUME NEW s \in Sockets, Disconnect(s) PROVE WaitInv'
  <2>1. UNCHANGED <<queue, held, answer>>
    BY <1>4 DEF Disconnect
  <2>2. CASE redisClient[s]
    <3> DEFINE n == <<ToDo("del", s, None), ToDo("quit", None, None)>>
    <3>1. n \in Seq(Request) /\ \A i \in DOMAIN n : n[i].op # "push"
      BY RequestTypes DEF ToDo
    <3>2. Ask(s, n)
      BY <1>4, <2>2 DEF Disconnect, WebQueueKey
    <3> HIDE DEF n
    <3> QED
      BY <3>1, <3>2, <2>1, AskedLater
  <2>3. CASE ~redisClient[s]
    <3>1. UNCHANGED connection
      BY <1>4, <2>3 DEF Disconnect
    <3> QED
      BY <3>1, <2>1, WaitFrame
  <2> QED
    BY <2>2, <2>3
<1>5. ASSUME NEW s \in Sockets, ClientError(s) PROVE FALSE
  BY <1>5 DEF ClientError, InTime
<1>6. ASSUME NEW s \in Sockets, Push(s) PROVE WaitInv'
  <2> DEFINE q == Head(connection[s])
             k == q.key
             new == <<k, Len(queue[k]) + 1>>
  <2>0. PICK e : e = [command |-> q.command, destination |-> s]
    OBVIOUS
  <2>1. Executes(s, "push") /\ q \in Request /\ q.op = "push"
    BY <1>6, ExecutesType DEF Push
  <2>2. k \in Routes /\ e \in Entry /\ e.destination = s
    BY <2>0, <2>1 DEF Request, Entry
  <2>3. queue[k] \in Seq(Entry) /\ queue' = [queue EXCEPT ![k] = Append(@, e)]
        /\ UNCHANGED <<answer, held>>
    BY <1>6, <2>0, <2>2 DEF Push, WebQueueKey, ListsOK, Executes
  <2>4. /\ \A t \in Sockets : Paired(t)'
        /\ \A t \in Sockets \ {s} : connection'[t] = connection[t]
        /\ \A p \in Spots : There(p) => At(p).destination # s
        /\ connection[s][1] = q
    BY <2>1, HeadExecuted
  <2>5. Awaited(e)'
    <3>1. e.command = connection[s][1].command
      BY <2>0, <2>4
    <3> QED
      BY <3>1, <2>1, <2>2, HeadExecuted
  <2>6. \A i \in DOMAIN Append(queue[k], e) :
          \/ i \in DOMAIN queue[k] /\ Append(queue[k], e)[i] = queue[k][i]
          \/ i = Len(queue[k]) + 1 /\ Append(queue[k], e)[i] = e
    <3> HIDE DEF k
    <3> QED
      BY <2>2, <2>3, AppendElements
  <2>7. ASSUME NEW p \in Spots, There(p)'
        PROVE  \/ p = new /\ At(p)' = e
               \/ There(p) /\ At(p)' = At(p)
    <3>1. p[1] \in Routes \cup Sockets /\ p = <<p[1], p[2]>>
      BY DEF Spots
    <3>2. queue'[k] = Append(queue[k], e) /\ \A j \in (Routes \cup Sockets) \ {k} : queue'[j] = queue[j]
      BY <2>2, <2>3 DEF ListsOK
    <3> HIDE DEF k
    <3>3. CASE p[2] = 0
      BY <2>3, <2>7, <3>3 DEF There, At
    <3>4. CASE p[2] # 0 /\ p[1] # k
      BY <2>7, <3>1, <3>2, <3>4 DEF There, At
    <3>5. CASE p[2] # 0 /\ p[1] = k
      <4>1. p[2] \in DOMAIN Append(queue[k], e) /\ At(p)' = Append(queue[k], e)[p[2]]
        BY <2>7, <3>2, <3>5 DEF There, At
      <4> QED
        BY <4>1, <2>6, <3>1, <3>5 DEF There, At
    <3> QED
      BY <3>3, <3>4, <3>5
  <2>8. Alone'
    <3> HIDE DEF new
    <3> SUFFICES ASSUME NEW p \in Spots, NEW o \in Spots, There(p)', There(o)',
                        At(p)'.destination = At(o)'.destination
                 PROVE  p = o
      BY DEF Alone
    <3> QED
      BY <2>2, <2>4, <2>7 DEF WaitInv, Alone
  <2>9. Awaiting'
    <3> HIDE DEF new
    <3> SUFFICES ASSUME NEW p \in Spots, There(p)' PROVE Awaited(At(p))'
      BY DEF Awaiting
    <3>1. CASE At(p)' = e
      BY <3>1, <2>5 DEF Awaited
    <3>2. CASE There(p) /\ At(p)' = At(p)
      <4>1. At(p).destination \in Sockets \ {s} /\ Awaited(At(p))
        BY <3>2, <2>4, EntryThere DEF WaitInv, Awaiting
      <4> QED
        BY <3>2, <4>1, <2>4 DEF Awaited
    <3> QED
      BY <3>1, <3>2, <2>7
  <2> QED
    BY <2>3, <2>4, <2>8, <2>9 DEF WaitInv, AnsweredRight
<1>7. ASSUME NEW s \in Sockets, Pop(s) PROVE WaitInv'
  <2> DEFINE q == Head(connection[s])
             from == [p \in Spots |-> IF p[1] = s THEN <<s, p[2] + 1>> ELSE p]
  <2>1. Executes(s, "pop") /\ q \in Request /\ q.op = "pop"
    BY <1>7, ExecutesType DEF Pop
  <2>2. /\ \A t \in Sockets : Paired(t)'
        /\ \A t \in Sockets \ {s} : connection'[t] = connection[t]
        /\ connection[s] # <<>> /\ connection[s][1] = q
    BY <2>1, HeadExecuted
  <2>3. connection[s] \in Seq(Request) /\ 1 \in DOMAIN connection[s] /\ InOrder(s)
    BY <2>2, TailElements DEF ListsOK, OwnInv
  <2>4. q.key = s /\ q.command \in Commands
    BY <2>1, <2>2, <2>3 DEF InOrder, Request
  <2>5. /\ queue[s] # <<>> /\ queue' = [queue EXCEPT ![s] = Tail(@)] /\ held' = held
        /\ answer' = [answer EXCEPT ![q.command] = Head(queue[s]).command]
    BY <1>7, <2>1, <2>4 DEF Pop, Executes
  <2>6. Traces(from)
    BY <2>5, TailSpots
  <2>7. queue[s] \in Seq(Entry)
    BY DEF ListsOK
  <2>8. 1 \in DOMAIN queue[s] /\ Head(queue[s]) = queue[s][1]
    BY <2>5, <2>7, TailElements
  <2>9. <<s, 1>> \in Spots /\ There(<<s, 1>>) /\ At(<<s, 1>>) = queue[s][1]
    BY <2>8 DEF Spots, There, At
  <2>10. queue[s][1].destination = s /\ Awaited(queue[s][1])
    BY <2>8, <2>9 DEF OwnInv, WaitInv, Awaiting
  <2>11. Head(queue[s]).command = q.command
    BY <2>2, <2>8, <2>10 DEF Awaited
  <2>12. AnsweredRight'
    BY <2>4, <2>5, <2>11 DEF WaitInv, AnsweredRight, FlagOK
  <2>13. ASSUME NEW p \in Spots, There(p)'
         PROVE  connection'[At(p)'.destination] = connection[At(p)'.destination]
    <3>1. There(from[p]) /\ At(p)' = At(from[p]) /\ from[p] \in Spots
      BY <2>6, <2>13 DEF Traces
    <3>2. from[p] # <<s, 1>>
      <4>1. p \in Spots /\ (p = <<s, 0>> => ~There(p)')
        BY DEF There
      <4>2. p # <<s, 0>>
        BY <4>1, <2>13
      <4> QED
        BY <4>2 DEF Spots
    <3>3. At(from[p]).destination \in Sockets \ {s}
      BY <2>9, <2>10, <3>1, <3>2, EntryThere DEF WaitInv, Alone
    <3> QED
      BY <3>1, <3>3, <2>2
  <2> HIDE DEF from
  <2> QED
    BY <2>2, <2>6, <2>12, <2>13, <1>0
<1>8. ASSUME NEW s \in Sockets, PopTimeout(s) \/ Del(s) \/ Quit(s) PROVE WaitInv'
  <2> DEFINE q == Head(connection[s])
  <2>1. PICK op : op \in {"pop", "del", "quit"} /\ Executes(s, op) /\ (op = "pop" <=> PopTimeout(s))
    BY <1>8 DEF PopTimeout, Del, Quit, Executes
  <2>2. /\ \A t \in Sockets : Paired(t)'
        /\ \A t \in Sockets \ {s} : connection'[t] = connection[t]
        /\ connection[s] # <<>> /\ connection[s][1] = q
        /\ op # "pop" => \A p \in Spots : There(p) => At(p).destination # s
    BY <2>1, HeadExecuted
  <2>3. held' = held /\ \A k \in Routes \cup Sockets : queue'[k] = queue[k] \/ queue'[k] = <<>>
    BY <1>8 DEF PopTimeout, Del, Quit, Executes, ListsOK
  <2>4. \A p \in Spots : There(p)' => There(p) /\ At(p)' = At(p)
    BY <2>3 DEF Spots, There, At
  <2>5. Traces(same)
    BY <2>4, Stay
  <2>6. ASSUME NEW p \in Spots, There(p) PROVE At(p).destination # s
    <3>1. CASE op # "pop"
      BY <2>2, <2>6, <3>1
    <3>2. CASE PopTimeout(s)
      <4>1. ~Underway(q.command)
        BY <3>2 DEF PopTimeout, RunsOut, InTime
      <4>2. At(p).command # q.command
        <5>1. CASE p[2] = 0
          BY <5>1, <4>1, <2>6 DEF Underway, There, At
        <5>2. CASE p[2] # 0
          <6>1. p[1] \in DOMAIN queue
            BY DEF Spots, ListsOK
          <6> QED
            BY <6>1, <5>2, <4>1, <2>6 DEF Underway, There, At
        <5> QED
          BY <5>1, <5>2
      <4> QED
        BY <4>2, <2>2, <2>6 DEF WaitInv, Awaiting, Awaited
    <3> QED
      BY <2>1, <3>1, <3>2
  <2>7. ASSUME NEW p \in Spots, There(p)'
        PROVE  connection'[At(p)'.destination] = connection[At(p)'.destination]
    BY <2>2, <2>4, <2>6, <2>7, EntryThere
  <2>8. AnsweredRight'
    <3>1. CASE answer' = answer
      BY <3>1 DEF WaitInv, AnsweredRight
    <3>2. CASE answer' = [answer EXCEPT ![q.command] = Timeout]
      BY <3>2 DEF WaitInv, AnsweredRight, FlagOK
    <3> QED
      BY <1>8, <3>1, <3>2 DEF PopTimeout, Del, Quit
  <2> HIDE DEF same
  <2> QED
    BY <2>2, <2>5, <2>7, <2>8, <1>0
<1>9. ASSUME NEW r \in Routes, Take(r) \/ Result(r) \/ LoseCommand(r) PROVE WaitInv'
  <2>1. connection' = connection /\ answer' = answer
    BY <1>9 DEF Take, Result, LoseCommand
  <2>2. (\A s \in Sockets : Paired(s)') /\ AnsweredRight'
    BY <2>1 DEF WaitInv, Paired, AnsweredRight
  <2>3. \E from : Traces(from)
    <3>1. CASE Take(r)
      <4>1. /\ queue[r] # <<>> /\ queue' = [queue EXCEPT ![r] = Tail(@)]
            /\ held' = [held EXCEPT ![r] = Head(queue[r])]
        BY <3>1 DEF Take
      <4>2. Traces([p \in Spots |-> IF p[1] = r THEN <<r, p[2] + 1>> ELSE p])
        BY <4>1, TailSpots
      <4> QED
        BY <4>2
    <3>2. CASE Result(r)
      <4>1. Traces([p \in Spots |->
                     IF p = <<held[r].destination, Len(queue[held[r].destination]) + 1>>
                     THEN <<r, 0>> ELSE p])
        BY <3>2, ResultSpots
      <4> QED
        BY <4>1
    <3>3. CASE LoseCommand(r)
      <4>1. queue' = queue /\ \A t \in Routes : held'[t] = held[t] \/ held'[t] = None
        BY <3>3 DEF LoseCommand, ListsOK
      <4>2. \A p \in Spots : There(p)' => There(p) /\ At(p)' = At(p)
        BY <4>1 DEF There, At
      <4>3. Traces(same)
        BY <4>2, Stay
      <4> QED
        BY <4>3
    <3> QED
      BY <1>9, <3>1, <3>2, <3>3
  <2>4. PICK from : Traces(from)
    BY <2>3
  <2> QED
    BY <2>1, <2>2, <2>4, <1>0
<1> QED
  BY <1>1, <1>2, <1>3, <1>4, <1>5, <1>6, <1>7, <1>8, <1>9 DEF Next

\* No step changes what an execution may meet.
LEMMA FaultsFixed == [Next]_vars => faults' = faults
  BY DEF Next, vars, CommandThrows, Disconnect, ClientError, Push, Pop, PopTimeout, Del, Quit, Executes,
         PeripheralEvent, CommandEvent, Take, Result, LoseCommand

\* As long as no result comes late and no client fails, the answer to a command is its own
\* result: a socket waits for one result at a time, and drops none that is still to come.
THEOREM AnswerInTimeHolds == Spec => []AnswerInTime
<1> DEFINE Inv == InTime => WaitInv
<1>1. Init => Inv
  <2> SUFFICES ASSUME Init PROVE WaitInv
    OBVIOUS
  <2>1. /\ \A s \in Sockets : connection[s] = <<>>
        /\ \A k \in Routes \cup Sockets : queue[k] = <<>>
        /\ \A r \in Routes : held[r] = None
        /\ \A c \in Commands : answer[c] = None
    BY DEF Init
  <2>2. /\ \A s \in Sockets : DOMAIN connection[s] = {}
        /\ \A k \in Routes \cup Sockets : DOMAIN queue[k] = {}
    BY DEF Init
  <2>3. \A p \in Spots : ~There(p)
    BY <2>1, <2>2, CommandsAssumption DEF Spots, There
  <2> QED
    BY <2>1, <2>2, <2>3, CommandsAssumption
    DEF WaitInv, Paired, Awaiting, Alone, AnsweredRight
<1>2. (FlagOK /\ ListsOK /\ OwnInv) /\ Inv /\ [Next]_vars => Inv'
  BY WaitStep, FaultsFixed DEF InTime
<1>3. Inv => AnswerInTime
  BY DEF InTime, WaitInv, AnsweredRight, AnswerInTime
<1> QED
  BY <1>1, <1>2, <1>3, Invariance, PTL DEF Spec
=============================================================================
