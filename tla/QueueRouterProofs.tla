-------------------------- MODULE QueueRouterProofs --------------------------
(***************************************************************************)
(* Proofs about QueueRouter, for every number of items, routes and loops   *)
(* and every choice of the bounds.                                         *)
(***************************************************************************)
EXTENDS QueueRouter, FiniteSetTheorems, TLAPS

-----------------------------------------------------------------------------
(* Type correctness *)

\* What a loop that holds an entry or a message holds is an item.
HandOK ==
  \A l \in Loops :
    /\ loop[l].op = "popped" /\ loop[l].from # "ack" => loop[l].item \in Items
    /\ loop[l].op \in {"incrSeq", "mset"} => loop[l].item \in Items
    /\ loop[l].op = "incrRetries" => loop[l].seen.message \in Items

QueueOK ==
  /\ DOMAIN queue = Keys
  /\ queue["ack"] \in Seq(Nat)
  /\ \A k \in Keys \ {"ack"} : queue[k] \in Seq(Items)

LoopOK == loop \in [Loops -> LoopState] /\ HandOK

TypeInv == TypeOK /\ HandOK

\* The records a loop and a route start with.
LEMMA InitialRecords ==
  /\ Idle \in LoopState /\ Idle.op = "idle"
  /\ Checking \in LoopState /\ Checking.op = "check"
  /\ NoAck \in AckState
  /\ RouteInit \in RouteState
  BY DEF Idle, Checking, LoopState, Ops, NoAck, AckState, RouteInit, RouteState

\* A step that moves one loop keeps the types if its new state is well formed.
LEMMA BecomeType ==
  ASSUME LoopOK, NEW l \in Loops, NEW s \in LoopState, Become(l, s),
         s.op = "popped" /\ s.from # "ack" => s.item \in Items,
         s.op \in {"incrSeq", "mset"} => s.item \in Items,
         s.op = "incrRetries" => s.seen.message \in Items
  PROVE  LoopOK'
  BY DEF LoopOK, HandOK, Become

\* A loop that checks again or ends is a loop.
LEMMA EndOfTurnType ==
  ASSUME LoopOK, NEW l \in Loops, NoteQueueResult(l) \/ Throw(l)
  PROVE  LoopOK'
  BY InitialRecords, BecomeType DEF NoteQueueResult, Throw

\* An item that ends has an outcome.
LEMMA ConcludeType ==
  ASSUME outcome \in [Items -> Outcomes], NEW S, NEW how \in Outcomes, Conclude(S, how)
  PROVE  outcome' \in [Items -> Outcomes]
  BY DEF Conclude

\* A list gets one more item.
LEMMA PushType ==
  ASSUME QueueOK, NEW k, k # "ack", NEW e \in Items, Push(k, e)
  PROVE  QueueOK'
<1>1. CASE k \in Keys
  <2>1. Append(queue[k], e) \in Seq(Items)
    BY <1>1 DEF QueueOK
  <2> QED
    BY <1>1, <2>1 DEF QueueOK, Push
<1>2. CASE k \notin Keys
  BY <1>2 DEF QueueOK, Push
<1> QED
  BY <1>1, <1>2

\* The ack state is deleted.
LEMMA DelAckStateType ==
  ASSUME outcome \in [Items -> Outcomes], NEW l \in Loops, NEW how \in Outcomes,
         DelAckState(l, how)
  PROVE  ack' \in AckState /\ outcome' \in [Items -> Outcomes]
  BY InitialRecords DEF DelAckState, Outcomes

\* A report is stored as outstanding.
LEMMA AssembleMessageType ==
  ASSUME LoopOK, outcome \in [Items -> Outcomes], NEW l \in Loops, NEW e \in Items,
         NEW n \in Nat, AssembleMessage(l, e, n)
  PROVE  ack' \in AckState /\ outcome' \in [Items -> Outcomes] /\ LoopOK'
<1> DEFINE s == [Idle EXCEPT !.op = "mset", !.item = e, !.seq = n]
<1>1. s \in LoopState /\ s.op = "mset" /\ s.item = e
  BY DEF Idle, LoopState, Ops, NoAck, AckState
<1>2. LoopOK'
  BY <1>1, BecomeType DEF AssembleMessage
<1>3. ack' \in AckState
  BY DEF AssembleMessage, AckState
<1> QED
  BY <1>2, <1>3, ConcludeType DEF AssembleMessage, Outcomes

\* A report is sent.
LEMMA TransmitMessageType ==
  ASSUME sent \in [Items -> Seq(Transmission)], NEW e \in Items, NEW n \in Nat,
         NEW toggle, TransmitMessage(e, n, toggle)
  PROVE  sent' \in [Items -> Seq(Transmission)]
<1> DEFINE t == [seq |-> n, relay |-> IF toggle THEN "secondary" ELSE "primary"]
<1>1. t \in Transmission
  BY DEF Transmission
<1>2. Append(sent[e], t) \in Seq(Transmission)
  BY <1>1
<1>3. sent' = [sent EXCEPT ![e] = Append(@, t)]
  BY DEF TransmitMessage
<1> QED
  BY <1>2, <1>3

\* Counting a retry or a tick keeps the ack state well formed.
LEMMA CountersType ==
  ASSUME NEW a \in AckState
  PROVE  /\ [a EXCEPT !.ticks = @ + 1] \in AckState
         /\ [a EXCEPT !.retries = @ + 1, !.ticks = 0] \in AckState
<1>1. [a EXCEPT !.retries = @ + 1] \in AckState
  BY DEF AckState
<1>2. ASSUME NEW c \in AckState
      PROVE  [c EXCEPT !.ticks = 0] \in AckState
  BY DEF AckState
<1>3. [a EXCEPT !.ticks = @ + 1] \in AckState
  BY DEF AckState
<1> QED
  BY <1>1, <1>2, <1>3

\* So do a change of the commands a route holds and of its busy state.
LEMMA RouteChangeType ==
  ASSUME NEW f \in [Routes -> RouteState], NEW r \in Routes,
         NEW x \in {"opening", "ready"}, NEW h \in SUBSET Items, NEW b \in BOOLEAN
  PROVE  /\ [f EXCEPT ![r].reader = x] \in [Routes -> RouteState]
         /\ [f EXCEPT ![r].busyState = b] \in [Routes -> RouteState]
         /\ [f EXCEPT ![r].reader = x, ![r].busyState = b] \in [Routes -> RouteState]
         /\ [f EXCEPT ![r].held = h, ![r].busyState = b] \in [Routes -> RouteState]
<1>1. ASSUME NEW s \in RouteState
      PROVE  /\ [s EXCEPT !.busyState = b] \in RouteState
             /\ [s EXCEPT !.reader = x] \in RouteState
             /\ [s EXCEPT !.held = h] \in RouteState
  BY DEF RouteState
<1>2. ASSUME NEW g \in [Routes -> RouteState]
      PROVE  /\ [g EXCEPT ![r].busyState = b] \in [Routes -> RouteState]
             /\ [g EXCEPT ![r].reader = x] \in [Routes -> RouteState]
             /\ [g EXCEPT ![r].held = h] \in [Routes -> RouteState]
  BY <1>1
<1>3. /\ [f EXCEPT ![r].reader = x] \in [Routes -> RouteState]
      /\ [f EXCEPT ![r].held = h] \in [Routes -> RouteState]
  BY <1>2
<1>4. [f EXCEPT ![r].reader = x, ![r].busyState = b] \in [Routes -> RouteState]
  BY <1>2, <1>3
<1>5. [f EXCEPT ![r].held = h, ![r].busyState = b] \in [Routes -> RouteState]
  BY <1>2, <1>3
<1> QED
  BY <1>2, <1>4, <1>5

\* A result is an item of its own list.
LEMMA PushResultType ==
  ASSUME QueueOK, ItemsAssumption, outcome \in [Items -> Outcomes],
         NEW e \in Items, PushResult(e)
  PROVE  QueueOK' /\ outcome' \in [Items -> Outcomes]
<1>1. "transmit" \in Keys \ {"ack"}
  BY DEF Keys, Lists
<1>2. CASE Kind[e] = "web"
  BY <1>2, ConcludeType DEF PushResult, Outcomes, QueueOK
<1>3. CASE Kind[e] # "web"
  BY <1>1, <1>3, PushType DEF PushResult
<1> QED
  BY <1>2, <1>3

\* The end of the process keeps the types.
LEMMA ProcessEndsType ==
  ASSUME TypeInv, ProcessEnds
  PROVE  TypeInv'
<1> USE DEF TypeInv, TypeOK
<1>1. outcome' \in [Items -> Outcomes]
  BY ConcludeType DEF ProcessEnds, Outcomes
<1>2. LoopOK'
  BY InitialRecords DEF ProcessEnds, LoopOK, HandOK
<1>3. route' \in [Routes -> RouteState]
  BY InitialRecords DEF ProcessEnds
<1> QED
  BY <1>1, <1>2, <1>3 DEF ProcessEnds, redisVars, runVars, LoopOK

\* Each step of a check loop keeps the types.
LEMMA LoopStepType ==
  ASSUME TypeInv, NEW l \in Loops, LoopStep(l), ItemsAssumption, BoundsAssumption
  PROVE  TypeInv'
<1> USE DEF redisVars, runVars, historyVars
<1>0. /\ QueueOK /\ LoopOK /\ loop[l] \in LoopState /\ loop[l].seen \in AckState
      /\ ack \in AckState /\ lastSeq \in Nat
      /\ router \in {"stopped", "running", "broken"}
      /\ route \in [Routes -> RouteState]
      /\ sent \in [Items -> Seq(Transmission)]
      /\ gatewayAcks \in [Items -> Nat]
      /\ outcome \in [Items -> Outcomes]
  BY DEF TypeInv, TypeOK, QueueOK, LoopOK, LoopState
<1>1. CASE CheckQueue(l)
  <2>1. CASE Become(l, Idle) /\ UNCHANGED <<router, route, outcome>>
    <3>1. LoopOK'
      BY <1>0, <2>1, EndOfTurnType DEF Throw
    <3> QED
      BY <1>0, <1>1, <2>1, <3>1 DEF CheckQueue, QueueOK, LoopOK, TypeInv, TypeOK
  <2>2. CASE Become(l, [Checking EXCEPT !.op = "mget", !.seen = ack])
             /\ UNCHANGED <<router, route, outcome>>
    <3> DEFINE s == [Checking EXCEPT !.op = "mget", !.seen = ack]
    <3>1. s \in LoopState /\ s.op = "mget"
      BY <1>0 DEF Checking, Idle, LoopState, Ops
    <3>2. LoopOK'
      BY <1>0, <2>2, <3>1, BecomeType
    <3> QED
      BY <1>0, <1>1, <2>2, <3>2 DEF CheckQueue, QueueOK, LoopOK, TypeInv, TypeOK
  <2> QED
    BY <1>1, <2>1, <2>2, ProcessEndsType DEF CheckQueue
<1>2. CASE GetAckState(l)
  <2> DEFINE s == [loop[l] EXCEPT !.op = "brpop", !.args = SetQueueArgs(loop[l].seen)]
  <2>1. SetQueueArgs(loop[l].seen) \subseteq Keys
    BY DEF SetQueueArgs, Keys
  <2>2. s \in LoopState /\ s.op = "brpop"
    BY <1>0, <2>1 DEF LoopState, Ops
  <2>3. LoopOK'
    BY <1>0, <1>2, <2>2, BecomeType DEF GetAckState
  <2> QED
    BY <1>0, <1>2, <2>3 DEF GetAckState, QueueOK, LoopOK, TypeInv, TypeOK
<1>3. CASE Brpop(l)
  <2>1. PICK k \in Waiting(l) :
          /\ queue' = [queue EXCEPT ![k] = Tail(@)]
          /\ Become(l, [loop[l] EXCEPT !.op = "popped", !.args = {}, !.from = k,
                          !.item = IF k = "ack" THEN None ELSE Head(queue[k]),
                          !.seq  = IF k = "ack" THEN Head(queue[k]) ELSE 0])
    BY <1>3 DEF Brpop
  <2>2. k \in Keys /\ queue[k] # <<>>
    BY <1>0, <2>1 DEF Waiting, LoopState
  <2>3. CASE k = "ack"
    <3> DEFINE s == [loop[l] EXCEPT !.op = "popped", !.args = {}, !.from = k,
                                    !.item = None, !.seq = Head(queue[k])]
    <3>1. Head(queue[k]) \in Nat /\ Tail(queue[k]) \in Seq(Nat)
      BY <1>0, <2>2, <2>3 DEF QueueOK
    <3>2. s \in LoopState /\ s.op = "popped" /\ s.from = "ack"
      BY <1>0, <2>2, <2>3, <3>1 DEF LoopState, Ops
    <3>3. LoopOK'
      BY <1>0, <2>1, <2>3, <3>2, BecomeType
    <3>4. QueueOK'
      BY <1>0, <2>1, <2>3, <3>1 DEF QueueOK
    <3> QED
      BY <1>0, <1>3, <3>3, <3>4 DEF Brpop, QueueOK, LoopOK, TypeInv, TypeOK
  <2>4. CASE k # "ack"
    <3> DEFINE s == [loop[l] EXCEPT !.op = "popped", !.args = {}, !.from = k,
                                    !.item = Head(queue[k]), !.seq = 0]
    <3>1. queue[k] \in Seq(Items)
      BY <1>0, <2>2, <2>4 DEF QueueOK
    <3>2. Head(queue[k]) \in Items /\ Tail(queue[k]) \in Seq(Items)
      BY <2>2, <3>1
    <3>3. s \in LoopState /\ s.op = "popped" /\ s.item = Head(queue[k])
      BY <1>0, <2>2, <3>2 DEF LoopState, Ops
    <3>4. LoopOK'
      BY <1>0, <2>1, <2>4, <3>2, <3>3, BecomeType
    <3>5. QueueOK'
      BY <1>0, <2>1, <2>2, <2>4, <3>2 DEF QueueOK
    <3> QED
      BY <1>0, <1>3, <3>4, <3>5 DEF Brpop, QueueOK, LoopOK, TypeInv, TypeOK
  <2> QED
    BY <2>3, <2>4
<1>4. CASE IncrRetries(l)
  <2> DEFINE s == [loop[l] EXCEPT !.op = "incrRetries", !.args = {}]
  <2>1. s \in LoopState /\ s.op = "incrRetries" /\ s.seen = loop[l].seen
    BY <1>0 DEF LoopState, Ops
  <2>2. s.seen.message \in Items
    BY <1>0, <1>4, <2>1 DEF IncrRetries, PendingMessage, AckState
  <2>3. LoopOK'
    BY <1>0, <1>4, <2>1, <2>2, BecomeType DEF IncrRetries
  <2>4. ack' = [ack EXCEPT !.retries = @ + 1, !.ticks = 0]
    BY <1>4 DEF IncrRetries
  <2>5. ack' \in AckState
    BY <1>0, <2>4, CountersType
  <2> QED
    BY <1>0, <1>4, <2>3, <2>5 DEF IncrRetries, QueueOK, LoopOK, TypeInv, TypeOK
<1>5. CASE ProcessTransmit(l)
  <2> DEFINE e == loop[l].item
  <2>1. e \in Items
    BY <1>0, <1>5 DEF ProcessTransmit, Entry, LoopOK, HandOK
  <2>2. CASE AssembleMessage(l, e, OwnSeq[e]) /\ UNCHANGED lastSeq
    <3>1. OwnSeq[e] \in Nat
      BY <2>1, ItemsAssumption
    <3>2. ack' \in AckState /\ outcome' \in [Items -> Outcomes] /\ LoopOK'
      BY <1>0, <2>1, <2>2, <3>1, AssembleMessageType
    <3> QED
      BY <1>0, <1>5, <2>2, <3>2 DEF ProcessTransmit, QueueOK, LoopOK, TypeInv, TypeOK
  <2>3. CASE /\ lastSeq' = lastSeq + 1
             /\ Become(l, [Idle EXCEPT !.op = "incrSeq", !.item = e,
                                       !.seq = (lastSeq % SeqMod) + 1])
             /\ UNCHANGED <<ack, outcome>>
    <3> DEFINE n == (lastSeq % SeqMod) + 1
               s == [Idle EXCEPT !.op = "incrSeq", !.item = e, !.seq = n]
    <3>1. n \in Nat /\ lastSeq' \in Nat
      BY <1>0, <2>3, BoundsAssumption
    <3>2. s \in LoopState /\ s.op = "incrSeq" /\ s.item = e
      BY <2>1, <3>1 DEF Idle, LoopState, Ops, NoAck, AckState
    <3>3. LoopOK'
      BY <1>0, <2>1, <2>3, <3>2, BecomeType
    <3> QED
      BY <1>0, <1>5, <2>3, <3>1, <3>3 DEF ProcessTransmit, QueueOK, LoopOK, TypeInv, TypeOK
  <2> QED
    BY <1>5, <2>2, <2>3 DEF ProcessTransmit
<1>6. CASE GenerateMessage(l)
  <2>1. loop[l].item \in Items /\ loop[l].seq \in Nat
    BY <1>0, <1>6 DEF GenerateMessage, LoopOK, HandOK, LoopState
  <2>2. ack' \in AckState /\ outcome' \in [Items -> Outcomes] /\ LoopOK'
    BY <1>0, <1>6, <2>1, AssembleMessageType DEF GenerateMessage
  <2> QED
    BY <1>0, <1>6, <2>2 DEF GenerateMessage, QueueOK, LoopOK, TypeInv, TypeOK
<1>7. CASE ProcessRoute(l)
  <2>1. PICK r \in Routes : LET e == loop[l].item IN
          /\ Entry(l, r)
          /\ \/ /\ route' = [route EXCEPT ![r].held = @ \cup {e}, ![r].busyState = TRUE]
                /\ NoteQueueResult(l)
                /\ UNCHANGED <<queue, outcome>>
             \/ /\ route' = [route EXCEPT ![r].busyState = FALSE]
                /\ PushResult(e)
                /\ NoteQueueResult(l)
             \/ /\ route' = [route EXCEPT ![r].busyState = TRUE]
                /\ Conclude({e}, "lost")
                /\ Throw(l)
                /\ UNCHANGED queue
    BY <1>7 DEF ProcessRoute
  <2> DEFINE e == loop[l].item
  <2>2. e \in Items
    BY <1>0, <2>1, ItemsAssumption DEF Entry, LoopOK, HandOK, Lists
  <2>3. LoopOK'
    BY <1>0, <2>1, EndOfTurnType
  <2>4. QueueOK' /\ outcome' \in [Items -> Outcomes]
    BY <1>0, <2>1, <2>2, PushResultType, ConcludeType DEF QueueOK, Outcomes
  <2>5. route' \in [Routes -> RouteState]
    <3>1. /\ route \in [Routes -> RouteState]
          /\ route[r].held \cup {e} \in SUBSET Items
      BY <1>0, <2>2 DEF RouteState
    <3>2. /\ [route EXCEPT ![r].held = @ \cup {e}, ![r].busyState = TRUE]
               \in [Routes -> RouteState]
          /\ [route EXCEPT ![r].busyState = FALSE] \in [Routes -> RouteState]
          /\ [route EXCEPT ![r].busyState = TRUE] \in [Routes -> RouteState]
      BY <3>1, RouteChangeType
    <3>3. \/ route' = [route EXCEPT ![r].held = @ \cup {e}, ![r].busyState = TRUE]
          \/ route' = [route EXCEPT ![r].busyState = FALSE]
          \/ route' = [route EXCEPT ![r].busyState = TRUE]
      BY <2>1
    <3> QED
      BY <3>2, <3>3
  <2> QED
    BY <1>0, <1>7, <2>3, <2>4, <2>5 DEF ProcessRoute, QueueOK, LoopOK, TypeInv, TypeOK
<1>8. CASE NoteIdle(l) \/ IgnoreAck(l)
  <2>1. LoopOK'
    BY <1>0, <1>8, EndOfTurnType DEF NoteIdle, IgnoreAck
  <2> QED
    BY <1>0, <1>8, <2>1 DEF NoteIdle, IgnoreAck, QueueOK, LoopOK, TypeInv, TypeOK
<1>9. CASE TooManyRetries(l) \/ ProcessAck(l)
  <2>1. LoopOK'
    BY <1>0, <1>9, EndOfTurnType DEF TooManyRetries, ProcessAck
  <2>2. ack' \in AckState /\ outcome' \in [Items -> Outcomes]
    BY <1>0, <1>9, DelAckStateType DEF TooManyRetries, ProcessAck, Outcomes
  <2> QED
    BY <1>0, <1>9, <2>1, <2>2 DEF TooManyRetries, ProcessAck, QueueOK, LoopOK, TypeInv, TypeOK
<1>10. CASE IncrTicks(l)
  <2>1. LoopOK'
    BY <1>0, <1>10, EndOfTurnType DEF IncrTicks
  <2>2. ack' \in AckState
    BY <1>0, <1>10, CountersType DEF IncrTicks
  <2> QED
    BY <1>0, <1>10, <2>1, <2>2 DEF IncrTicks, QueueOK, LoopOK, TypeInv, TypeOK
<1>11. CASE Retransmit(l)
  <2>1. LoopOK'
    BY <1>0, <1>11, EndOfTurnType DEF Retransmit
  <2>2. loop[l].seen.message \in Items /\ loop[l].seen.seq \in Nat
    BY <1>0, <1>11 DEF Retransmit, LoopOK, HandOK, AckState
  <2>3. sent' \in [Items -> Seq(Transmission)]
    BY <1>0, <1>11, <2>2, TransmitMessageType DEF Retransmit
  <2> QED
    BY <1>0, <1>11, <2>1, <2>3 DEF Retransmit, QueueOK, LoopOK, TypeInv, TypeOK
<1>12. CASE Transmit(l)
  <2>1. LoopOK'
    BY <1>0, <1>12, EndOfTurnType DEF Transmit
  <2>2. loop[l].item \in Items /\ loop[l].seq \in Nat
    BY <1>0, <1>12 DEF Transmit, LoopOK, HandOK, LoopState
  <2>3. sent' \in [Items -> Seq(Transmission)]
    BY <1>0, <1>12, <2>2, TransmitMessageType DEF Transmit
  <2> QED
    BY <1>0, <1>12, <2>1, <2>3 DEF Transmit, QueueOK, LoopOK, TypeInv, TypeOK
<1>13. CASE DropEntry(l) \/ ThrowWithoutClient(l)
  <2>1. LoopOK'
    BY <1>0, <1>13, EndOfTurnType DEF DropEntry, ThrowWithoutClient
  <2>2. outcome' \in [Items -> Outcomes]
    BY <1>0, <1>13, ConcludeType DEF DropEntry, ThrowWithoutClient, Outcomes
  <2> QED
    BY <1>0, <1>13, <2>1, <2>2 DEF DropEntry, ThrowWithoutClient, QueueOK, LoopOK, TypeInv, TypeOK
<1>14. CASE ProcessCommand(l)
  <2>1. LoopOK'
    BY <1>0, <1>14, EndOfTurnType DEF ProcessCommand
  <2>2. loop[l].item \in Items
    BY <1>0, <1>14 DEF ProcessCommand, Entry, LoopOK, HandOK
  <2>3. QueueOK'
    BY <1>0, <1>14, <2>2, ItemsAssumption, PushType DEF ProcessCommand, Lists
  <2> QED
    BY <1>0, <1>14, <2>1, <2>3 DEF ProcessCommand, QueueOK, LoopOK, TypeInv, TypeOK
<1> QED
  BY <1>1, <1>2, <1>3, <1>4, <1>5, <1>6, <1>7, <1>8, <1>9, <1>10, <1>11, <1>12, <1>13,
     <1>14 DEF LoopStep

\* So does the answer of a peripheral.
LEMMA AnswerType ==
  ASSUME TypeInv, ItemsAssumption, NEW r \in Routes, NEW e \in Items, Answer(r, e)
  PROVE  TypeInv'
<1>1. QueueOK /\ outcome \in [Items -> Outcomes] /\ route \in [Routes -> RouteState]
  BY DEF TypeInv, TypeOK, QueueOK
<1>2. QueueOK' /\ outcome' \in [Items -> Outcomes]
  BY <1>1, PushResultType DEF Answer
<1>3. route[r].held \ {e} \in SUBSET Items
  BY <1>1 DEF RouteState
<1>4. route' \in [Routes -> RouteState]
  BY <1>1, <1>3, RouteChangeType DEF Answer
<1> QED
  BY <1>2, <1>4 DEF Answer, runVars, TypeInv, TypeOK, HandOK, QueueOK

\* So does what becomes of a route.
LEMMA RouteStepType ==
  ASSUME TypeInv, NEW r \in Routes, RouteStep(r)
  PROVE  TypeInv'
<1>1. route \in [Routes -> RouteState] /\ outcome \in [Items -> Outcomes]
  BY DEF TypeInv, TypeOK
<1>2. /\ [route EXCEPT ![r].reader = "opening"] \in [Routes -> RouteState]
      /\ [route EXCEPT ![r].reader = "ready", ![r].busyState = FALSE]
           \in [Routes -> RouteState]
      /\ [route EXCEPT ![r].busyState = TRUE] \in [Routes -> RouteState]
  BY <1>1, RouteChangeType
<1>3. route' \in [Routes -> RouteState] /\ outcome' \in [Items -> Outcomes]
  <2>1. CASE (RouteOpen(r) \/ RouteReady(r) \/ RouteError(r)) /\ UNCHANGED outcome
    BY <1>1, <1>2, <2>1 DEF RouteOpen, RouteReady, RouteError
  <2>2. CASE RouteReset(r)
    <3>1. PICK keep \in SUBSET route[r].held :
            /\ route' = [route EXCEPT ![r] = [RouteInit EXCEPT !.held = keep]]
            /\ Conclude(route[r].held \ keep, "lost")
      BY <2>2 DEF RouteReset
    <3>2. keep \in SUBSET Items
      BY <1>1 DEF RouteState
    <3>3. [RouteInit EXCEPT !.held = keep] \in RouteState
      BY <3>2 DEF RouteInit, RouteState
    <3>4. outcome' \in [Items -> Outcomes]
      BY <1>1, <3>1, ConcludeType DEF Outcomes
    <3>5. route' \in [Routes -> RouteState]
      BY <1>1, <3>1, <3>3
    <3> QED
      BY <3>4, <3>5
  <2> QED
    BY <2>1, <2>2 DEF RouteStep
<1> QED
  BY <1>3 DEF RouteStep, redisVars, runVars, TypeInv, TypeOK, HandOK

\* Every step keeps the types.
LEMMA NextType ==
  ASSUME TypeInv, [Next]_vars, ItemsAssumption, BoundsAssumption
  PROVE  TypeInv'
<1>1. /\ QueueOK /\ LoopOK /\ sent \in [Items -> Seq(Transmission)]
      /\ outcome \in [Items -> Outcomes]
  BY DEF TypeInv, TypeOK, QueueOK, LoopOK
<1>2. CASE Start
  <2>1. LoopOK'
    BY <1>1, <1>2, EndOfTurnType DEF Start
  <2> QED
    BY <1>2, <2>1 DEF Start, redisVars, runVars, historyVars, LoopOK, TypeInv, TypeOK
<1>3. CASE Stop
  BY <1>3 DEF Stop, redisVars, runVars, historyVars, HandOK, TypeInv, TypeOK
<1>4. CASE RedisError
  <2>1. LoopOK'
    BY <1>1, <1>4, InitialRecords DEF RedisError, LoopOK, HandOK
  <2>2. outcome' \in [Items -> Outcomes]
    BY <1>1, <1>4, ConcludeType DEF RedisError, Outcomes
  <2> QED
    BY <1>4, <2>1, <2>2 DEF RedisError, redisVars, runVars, LoopOK, TypeInv, TypeOK
<1>5. CASE Crash
  BY <1>5, ProcessEndsType DEF Crash
<1>6. CASE \E l \in Loops : LoopStep(l)
  BY <1>6, LoopStepType
<1>7. CASE \E r \in Routes : RouteStep(r) \/ \E e \in Items : Answer(r, e)
  BY <1>7, RouteStepType, AnswerType
<1>8. ASSUME NEW e \in Items, Submit(e)
      PROVE  TypeInv'
  <2>1. EntryList(e) # "ack"
    BY <1>8, ItemsAssumption DEF EntryList, Lists
  <2>2. QueueOK'
    BY <1>1, <1>8, <2>1, PushType DEF Submit
  <2>3. outcome' \in [Items -> Outcomes]
    BY <1>1, <1>8, ConcludeType DEF Submit, Outcomes
  <2> QED
    BY <1>8, <2>2, <2>3 DEF Submit, runVars, QueueOK, HandOK, TypeInv, TypeOK
<1>9. ASSUME NEW e \in Items, GatewayAck(e)
      PROVE  TypeInv'
  <2>1. PICK i \in 1..Len(sent[e]) : Push("ack", sent[e][i].seq)
    BY <1>9 DEF GatewayAck
  <2>2. sent[e][i].seq \in Nat
    <3>1. sent[e] \in Seq(Transmission)
      BY <1>1
    <3>2. sent[e][i] \in Transmission
      BY <2>1, <3>1
    <3> QED
      BY <3>2 DEF Transmission
  <2>3. QueueOK'
    <3>1. Append(queue["ack"], sent[e][i].seq) \in Seq(Nat)
      BY <1>1, <2>2 DEF QueueOK
    <3> QED
      BY <1>1, <2>1, <3>1 DEF QueueOK, Push
  <2>4. gatewayAcks' \in [Items -> Nat]
    BY <1>9 DEF GatewayAck, TypeInv, TypeOK
  <2> QED
    BY <1>9, <2>3, <2>4 DEF GatewayAck, runVars, QueueOK, HandOK, TypeInv, TypeOK
<1>10. CASE UNCHANGED vars
  BY <1>10 DEF vars, redisVars, runVars, historyVars, HandOK, TypeInv, TypeOK
<1> QED
  BY <1>2, <1>3, <1>4, <1>5, <1>6, <1>7, <1>8, <1>9, <1>10 DEF Next

\* They hold at first.
LEMMA InitType ==
  ASSUME Init
  PROVE  TypeInv
<1>1. <<>> \in Seq(Nat) /\ <<>> \in Seq(Items) /\ <<>> \in Seq(Transmission)
  OBVIOUS
<1>2. "ack" \in Keys
  BY DEF Keys, Lists
<1>3. /\ DOMAIN queue = Keys /\ queue["ack"] \in Seq(Nat)
      /\ \A k \in Keys \ {"ack"} : queue[k] \in Seq(Items)
  BY <1>1, <1>2 DEF Init
<1>4. HandOK
  BY InitialRecords DEF Init, HandOK
<1> QED
  BY <1>1, <1>3, <1>4, InitialRecords DEF Init, TypeInv, TypeOK, Outcomes

\* Every variable of the queue router keeps its type: the ack list holds numbers,
\* the other lists, the loops and the peripherals hold items of work, and the
\* ack state in Redis is always one the loops can read back.
THEOREM TypeCorrect == Spec => []TypeOK
<1>1. Init => TypeInv
  BY InitType
<1>2. TypeInv /\ [Next]_vars => TypeInv'
  BY NextType, ItemsAssumption, BoundsAssumption
<1>3. TypeInv => TypeOK
  BY DEF TypeInv
<1> QED
  BY <1>1, <1>2, <1>3, PTL DEF Spec

-----------------------------------------------------------------------------
(* One report at a time *)

\* At most one check loop runs.
SingleLoop == \A l, m \in Loops : loop[l].op # "idle" /\ loop[m].op # "idle" => l = m

\* What a loop that polls, or got an entry, has seen of the ack state is still so:
\* only the loop itself writes it.
SeenFresh ==
  \A l \in Loops : loop[l].op \in {"mget", "brpop", "popped"} => loop[l].seen = ack

\* A loop polls the transmit queue, or works on a report, only while no message
\* is outstanding.
HandFree ==
  \A l \in Loops :
    \/ loop[l].op = "brpop" /\ "transmit" \in loop[l].args
    \/ Entry(l, "transmit")
    \/ loop[l].op = "incrSeq"
    => ack.message = None

LoopInv == SingleLoop /\ SeenFresh /\ HandFree

\* A step of the only loop that is not idle: the invariant holds if it holds of
\* the loop's new state.
LEMMA OnlyLoop ==
  ASSUME TypeInv, SingleLoop, NEW l \in Loops, loop[l].op # "idle",
         NEW s, Become(l, s),
         s.op \in {"mget", "brpop", "popped"} => s.seen = ack',
         \/ s.op = "brpop" /\ "transmit" \in s.args
         \/ s.op = "popped" /\ s.from = "transmit"
         \/ s.op = "incrSeq"
         => ack'.message = None
  PROVE  LoopInv'
<1>1. loop' = [loop EXCEPT ![l] = s] /\ loop \in [Loops -> LoopState]
  BY DEF Become, TypeInv, TypeOK
<1>2. \A m \in Loops : m # l => loop'[m] = loop[m] /\ loop[m].op = "idle"
  BY <1>1 DEF SingleLoop
<1>3. loop'[l] = s
  BY <1>1
<1> QED
  BY <1>2, <1>3 DEF LoopInv, SingleLoop, SeenFresh, HandFree, Entry

\* A loop that ends its turn, or waits for a reply that carries nothing, holds
\* neither a view of the ack state nor a report.
LEMMA QuietStep ==
  ASSUME TypeInv, SingleLoop, NEW l \in Loops, loop[l].op # "idle",
         NEW s, Become(l, s), s.op \in {"idle", "check", "mset", "incrRetries"}
  PROVE  LoopInv'
  BY OnlyLoop

\* A loop that checks again or ends has nothing in its hand.
LEMMA EndOfTurn ==
  ASSUME TypeInv, SingleLoop, NEW l \in Loops, loop[l].op # "idle",
         NoteQueueResult(l) \/ Throw(l)
  PROVE  LoopInv'
  BY InitialRecords, QuietStep DEF NoteQueueResult, Throw

\* Loops that only wait to check hold nothing.
LEMMA AllQuiet ==
  ASSUME \A l \in Loops : loop'[l].op \in {"idle", "check"},
         SingleLoop'
  PROVE  LoopInv'
  BY DEF LoopInv, SeenFresh, HandFree, Entry

\* Without a process there is no loop.
LEMMA ProcessEndsInv ==
  ASSUME ProcessEnds
  PROVE  LoopInv'
<1>1. \A l \in Loops : loop'[l].op = "idle"
  BY DEF ProcessEnds, Idle
<1> QED
  BY <1>1, AllQuiet DEF SingleLoop

\* Each step of a loop keeps it the only one, and fresh.
LEMMA LoopStepInv ==
  ASSUME TypeInv, LoopInv, NEW l \in Loops, LoopStep(l)
  PROVE  LoopInv'
<1> USE DEF LoopInv
<1>0. loop[l] \in LoopState
  BY DEF TypeInv, TypeOK
<1>1. CASE CheckQueue(l)
  <2>1. loop[l].op # "idle" /\ ack' = ack
    BY <1>1 DEF CheckQueue, redisVars, runVars
  <2>2. CASE Become(l, Idle)
    BY <2>1, <2>2, EndOfTurn DEF Throw
  <2>3. CASE Become(l, [Checking EXCEPT !.op = "mget", !.seen = ack])
    <3> DEFINE s == [Checking EXCEPT !.op = "mget", !.seen = ack]
    <3>1. s.op = "mget" /\ s.seen = ack
      BY DEF Checking, Idle
    <3> QED
      BY <2>1, <2>3, <3>1, OnlyLoop
  <2>4. CASE ProcessEnds
    BY <2>4, ProcessEndsInv
  <2> QED
    BY <1>1, <2>2, <2>3, <2>4 DEF CheckQueue
<1>2. CASE GetAckState(l)
  <2> DEFINE s == [loop[l] EXCEPT !.op = "brpop", !.args = SetQueueArgs(loop[l].seen)]
  <2>1. loop[l].op = "mget" /\ ack' = ack /\ Become(l, s)
    BY <1>2 DEF GetAckState, redisVars, runVars
  <2>2. s.op = "brpop" /\ s.seen = loop[l].seen /\ s.args = SetQueueArgs(loop[l].seen)
    BY <1>0 DEF LoopState
  <2>3. s.seen = ack'
    BY <2>1, <2>2 DEF SeenFresh
  <2>4. "transmit" \in s.args => ack'.message = None
    BY <2>1, <2>2, <2>3, ItemsAssumption DEF SetQueueArgs, Lists
  <2> QED
    BY <2>1, <2>2, <2>3, <2>4, OnlyLoop
<1>3. CASE Brpop(l)
  <2>1. PICK k \in Waiting(l) :
          Become(l, [loop[l] EXCEPT !.op = "popped", !.args = {}, !.from = k,
                       !.item = IF k = "ack" THEN None ELSE Head(queue[k]),
                       !.seq  = IF k = "ack" THEN Head(queue[k]) ELSE 0])
    BY <1>3 DEF Brpop
  <2> DEFINE s == [loop[l] EXCEPT !.op = "popped", !.args = {}, !.from = k,
                     !.item = IF k = "ack" THEN None ELSE Head(queue[k]),
                     !.seq  = IF k = "ack" THEN Head(queue[k]) ELSE 0]
  <2>2. s.op = "popped" /\ s.from = k /\ s.seen = loop[l].seen
    BY <1>0 DEF LoopState
  <2>3. loop[l].op = "brpop" /\ ack' = ack /\ k \in loop[l].args
    BY <1>3, <2>1 DEF Brpop, Waiting
  <2>4. s.seen = ack'
    BY <2>2, <2>3 DEF SeenFresh
  <2>5. s.from = "transmit" => ack'.message = None
    BY <2>2, <2>3 DEF HandFree
  <2> QED
    BY <2>1, <2>2, <2>3, <2>4, <2>5, OnlyLoop
<1>4. CASE IncrRetries(l)
  <2> DEFINE s == [loop[l] EXCEPT !.op = "incrRetries", !.args = {}]
  <2>1. s.op = "incrRetries"
    BY <1>0 DEF LoopState
  <2>2. loop[l].op # "idle" /\ Become(l, s)
    BY <1>4 DEF IncrRetries, PendingMessage, TimedOut
  <2> QED
    BY <2>1, <2>2, QuietStep
<1>5. ASSUME NEW e, NEW n, AssembleMessage(l, e, n), loop[l].op # "idle"
      PROVE  LoopInv'
  <2> DEFINE s == [Idle EXCEPT !.op = "mset", !.item = e, !.seq = n]
  <2>1. s.op = "mset"
    BY DEF Idle
  <2> QED
    BY <1>5, <2>1, QuietStep DEF AssembleMessage
<1>6. CASE ProcessTransmit(l)
  <2> DEFINE e == loop[l].item
  <2>1. loop[l].op # "idle" /\ ack.message = None
    BY <1>6 DEF ProcessTransmit, Entry, HandFree
  <2>2. CASE AssembleMessage(l, e, OwnSeq[e])
    BY <1>5, <2>1, <2>2
  <2>3. CASE /\ Become(l, [Idle EXCEPT !.op = "incrSeq", !.item = e,
                                       !.seq = (lastSeq % SeqMod) + 1])
             /\ ack' = ack
    <3> DEFINE s == [Idle EXCEPT !.op = "incrSeq", !.item = e,
                                 !.seq = (lastSeq % SeqMod) + 1]
    <3>1. s.op = "incrSeq"
      BY DEF Idle
    <3> QED
      BY <2>1, <2>3, <3>1, OnlyLoop
  <2> QED
    BY <1>6, <2>2, <2>3 DEF ProcessTransmit
<1>7. CASE GenerateMessage(l)
  <2>1. loop[l].op # "idle"
    BY <1>7 DEF GenerateMessage
  <2> QED
    BY <1>5, <1>7, <2>1 DEF GenerateMessage
<1>8. CASE \/ NoteIdle(l) \/ TooManyRetries(l) \/ IncrTicks(l) \/ Retransmit(l)
           \/ ProcessAck(l) \/ IgnoreAck(l) \/ DropEntry(l) \/ ProcessCommand(l)
           \/ Transmit(l) \/ ProcessRoute(l) \/ ThrowWithoutClient(l)
  <2>1. loop[l].op # "idle"
    BY <1>8 DEF NoteIdle, TooManyRetries, IncrTicks, PendingMessage, TimedOut,
                Retransmit, ProcessAck, IgnoreAck, DropEntry, Unusable, ProcessCommand,
                Transmit, ProcessRoute, ThrowWithoutClient, NeedsClient, Entry
  <2>2. NoteQueueResult(l) \/ Throw(l)
    BY <1>8 DEF NoteIdle, TooManyRetries, IncrTicks, Retransmit, ProcessAck, IgnoreAck,
                DropEntry, ProcessCommand, Transmit, ProcessRoute, ThrowWithoutClient
  <2> QED
    BY <2>1, <2>2, EndOfTurn
<1> QED
  BY <1>1, <1>2, <1>3, <1>4, <1>6, <1>7, <1>8 DEF LoopStep

\* So does every other step, unless loops overlap.
LEMMA NextInv ==
  ASSUME ~overlapped', TypeInv, LoopInv, [Next]_vars
  PROVE  LoopInv'
<1> USE DEF vars, redisVars, runVars, historyVars
<1>1. CASE Start
  <2>1. PICK l \in Loops : loop[l].op = "idle" /\ NoteQueueResult(l)
    BY <1>1 DEF Start
  <2>2. \A m \in Loops : loop[m].op = "idle"
    BY <1>1 DEF Start
  <2>3. loop' = [loop EXCEPT ![l] = Checking]
    BY <2>1 DEF NoteQueueResult, Become
  <2>4. \A m \in Loops : loop'[m].op = IF m = l THEN "check" ELSE "idle"
    BY <2>2, <2>3, InitialRecords DEF TypeInv, TypeOK
  <2>5. SingleLoop'
    BY <2>4 DEF SingleLoop
  <2> QED
    BY <2>4, <2>5, AllQuiet
<1>2. CASE RedisError
  <2>1. ack' = ack /\ \A m \in Loops : loop'[m] = loop[m] \/ loop'[m].op = "idle"
    BY <1>2, InitialRecords DEF RedisError
  <2> QED
    BY <2>1 DEF LoopInv, SingleLoop, SeenFresh, HandFree, Entry
<1>3. CASE Crash
  BY <1>3, ProcessEndsInv DEF Crash
<1>4. CASE \E l \in Loops : LoopStep(l)
  BY <1>4, LoopStepInv
<1>5. CASE \/ Stop
           \/ (\E r \in Routes : RouteStep(r) \/ \E e \in Items : Answer(r, e))
           \/ (\E e \in Items : Submit(e) \/ GatewayAck(e))
           \/ UNCHANGED vars
  <2>1. loop' = loop /\ ack' = ack
    BY <1>5 DEF Stop, RouteStep, Answer, Submit, GatewayAck
  <2> QED
    BY <2>1 DEF LoopInv, SingleLoop, SeenFresh, HandFree, Entry
<1> QED
  BY <1>1, <1>2, <1>3, <1>4, <1>5 DEF Next

\* The invariant says that at most one report is outstanding.
LEMMA InvImpliesOne ==
  ASSUME LoopInv
  PROVE  OneOutstanding
<1>1. \A l, m \in Loops : InFlight(l) # {} /\ InFlight(m) # {} => l = m
  BY DEF LoopInv, SingleLoop, InFlight, Entry
<1>2. \E x : Outstanding \subseteq {x}
  <2>1. CASE \E l \in Loops : InFlight(l) # {}
    <3>1. PICK l \in Loops : InFlight(l) # {}
      BY <2>1
    <3>2. ack.message = None
      BY <3>1 DEF LoopInv, HandFree, InFlight
    <3>3. \A m \in Loops : InFlight(m) \subseteq {loop[l].item}
      BY <1>1, <3>1 DEF InFlight
    <3> QED
      BY <3>2, <3>3 DEF Outstanding
  <2>2. CASE \A l \in Loops : InFlight(l) = {}
    <3>1. Outstanding \subseteq {ack.message}
      BY <2>2 DEF Outstanding
    <3> QED
      BY <3>1
  <2> QED
    BY <2>1, <2>2
<1>3. PICK x : Outstanding \subseteq {x}
  BY <1>2
<1>4. IsFiniteSet({x}) /\ Cardinality({x}) = 1
  BY FS_Singleton
<1>5. Cardinality(Outstanding) <= Cardinality({x})
  BY <1>3, <1>4, FS_Subset
<1>6. Cardinality(Outstanding) <= 1
  BY <1>4, <1>5
<1> QED
  BY <1>1, <1>6 DEF OneOutstanding

\* No step changes what an execution may meet, nor forgets that loops overlapped.
LEMMA RunStays ==
  ASSUME [Next]_vars
  PROVE  UNCHANGED faults /\ (overlapped => overlapped')
<1>1. CASE Start
  BY <1>1 DEF Start
<1>2. CASE UNCHANGED runVars
  BY <1>2 DEF runVars
<1>3. CASE ~Start
  BY <1>2, <1>3 DEF Next, LoopStep, vars, Stop, RedisError, Crash, ProcessEnds, CheckQueue, GetAckState,
     Brpop, NoteIdle, TooManyRetries, IncrTicks, IncrRetries, Retransmit, ProcessAck,
     IgnoreAck, DropEntry, ProcessCommand, ProcessTransmit, GenerateMessage, Transmit,
     ProcessRoute, ThrowWithoutClient, RouteStep, Answer, Submit, GatewayAck
<1> QED
  BY <1>1, <1>3

\* LoopInv until check loops overlap.
AloneInv == ~overlapped => LoopInv

LEMMA NextAlone ==
  ASSUME TypeInv, AloneInv, [Next]_vars
  PROVE  AloneInv'
<1> SUFFICES ASSUME ~overlapped' PROVE LoopInv'
  BY DEF AloneInv
<1>1. LoopInv
  BY RunStays DEF AloneInv
<1> QED
  BY <1>1, NextInv

\* What holds at first without loops.
LEMMA InitLoop ==
  ASSUME Init
  PROVE  AloneInv /\ LoopInv /\ \A l \in Loops : loop[l].op = "idle"
<1>1. \A l \in Loops : loop[l].op = "idle"
  BY InitialRecords DEF Init
<1> QED
  BY <1>1 DEF AloneInv, LoopInv, SingleLoop, SeenFresh, HandFree, Entry

\* README.md:43 for every number of items and loop slots: until a restart first starts a
\* check loop beside one still under way, a transmit entry is taken only when no message
\* is outstanding, over every stop, restart, crash, lost Redis connection and reset.
THEOREM StopAndWaitSafe == Spec => []OneOutstanding
<1>1. Init => TypeInv /\ AloneInv
  BY InitType, InitLoop
<1>2. TypeInv /\ AloneInv /\ [Next]_vars => (TypeInv /\ AloneInv)'
  BY NextType, NextAlone, ItemsAssumption, BoundsAssumption
<1>3. TypeInv /\ AloneInv => OneOutstanding
  BY InvImpliesOne DEF AloneInv, OneOutstanding
<1> QED
  BY <1>1, <1>2, <1>3, PTL DEF Spec

\* A step of a loop is one of a loop under way.
LEMMA LoopStepBusy ==
  ASSUME NEW l \in Loops, LoopStep(l)
  PROVE  loop[l].op # "idle"
  BY DEF LoopStep, CheckQueue, GetAckState, Brpop, NoteIdle, TooManyRetries, IncrTicks, IncrRetries,
         PendingMessage, TimedOut, Retransmit, ProcessAck, IgnoreAck, DropEntry, Unusable,
         ProcessCommand, ProcessTransmit, GenerateMessage, Transmit, ProcessRoute,
         ThrowWithoutClient, NeedsClient, Entry

\* A router that nothing stops but the end of its process leaves no loop behind.
NoRestart ==
  "stop" \notin faults => ~overlapped /\ (router = "stopped" => \A l \in Loops : loop[l].op = "idle")

LEMMA NextNoRestart ==
  ASSUME TypeInv, NoRestart, [Next]_vars
  PROVE  NoRestart'
<1> SUFFICES ASSUME "stop" \notin faults
             PROVE  ~overlapped' /\ (router' = "stopped" => \A l \in Loops : loop'[l].op = "idle")
  BY RunStays DEF NoRestart
<1> USE DEF vars, redisVars, runVars, historyVars
<1>0. ~overlapped /\ (router = "stopped" => \A l \in Loops : loop[l].op = "idle")
  BY DEF NoRestart
<1>1. CASE Start
  BY <1>0, <1>1 DEF Start
<1>2. CASE RedisError
  BY <1>0, <1>2 DEF RedisError
<1>3. ASSUME ProcessEnds PROVE ~overlapped' /\ \A l \in Loops : loop'[l].op = "idle"
  BY <1>0, <1>3, InitialRecords DEF ProcessEnds
<1>4. ASSUME NEW l \in Loops, LoopStep(l), ~ProcessEnds
      PROVE  ~overlapped' /\ router' # "stopped"
  <2>1. UNCHANGED runVars
    BY <1>4 DEF LoopStep, CheckQueue, GetAckState,
     Brpop, NoteIdle, TooManyRetries, IncrTicks, IncrRetries, Retransmit, ProcessAck,
     IgnoreAck, DropEntry, ProcessCommand, ProcessTransmit, GenerateMessage, Transmit,
     ProcessRoute, ThrowWithoutClient
  <2>2. UNCHANGED router
    BY <1>4 DEF LoopStep, CheckQueue, GetAckState,
     Brpop, NoteIdle, TooManyRetries, IncrTicks, IncrRetries, Retransmit, ProcessAck,
     IgnoreAck, DropEntry, ProcessCommand, ProcessTransmit, GenerateMessage, Transmit,
     ProcessRoute, ThrowWithoutClient
  <2>3. router # "stopped"
    BY <1>0, <1>4, LoopStepBusy
  <2> QED
    BY <1>0, <2>1, <2>2, <2>3
<1>5. CASE \/ (\E r \in Routes : RouteStep(r) \/ \E e \in Items : Answer(r, e))
           \/ (\E e \in Items : Submit(e) \/ GatewayAck(e))
           \/ UNCHANGED vars
  <2>1. UNCHANGED overlapped /\ UNCHANGED router /\ UNCHANGED loop
    BY <1>5 DEF RouteStep, Answer, Submit, GatewayAck
  <2> QED
    BY <1>0, <2>1
<1> QED
  BY <1>1, <1>2, <1>3, <1>4, <1>5 DEF Next, Stop, Crash

\* Only the restart that follows a change of settings makes check loops overlap: without
\* it the promises that end with the first overlap hold for ever, over crashes and errors.
THEOREM OverlapNeedsRestart == Spec => []("stop" \notin faults => ~overlapped)
<1>1. Init => TypeInv /\ NoRestart
  BY InitType, InitLoop DEF Init, NoRestart
<1>2. TypeInv /\ NoRestart /\ [Next]_vars => (TypeInv /\ NoRestart)'
  BY NextType, NextNoRestart, ItemsAssumption, BoundsAssumption
<1>3. NoRestart => ("stop" \notin faults => ~overlapped)
  BY DEF NoRestart
<1> QED
  BY <1>1, <1>2, <1>3, PTL DEF Spec

-----------------------------------------------------------------------------
(* The loop goes on, and a peripheral is handed one command at a time *)

\* Only a loop that polls has keys, and it polls, or got an entry of, no route whose
\* reader is null: without resets a reader stays until the process ends.
RoutesPolled ==
  \A l \in Loops :
    /\ loop[l].op # "brpop" => loop[l].args = {}
    /\ \A r \in Routes : r \in loop[l].args \/ Entry(l, r) => route[r].reader # "none"

AliveInv == "routeReset" \notin faults => QueuesChecked /\ RoutesPolled

\* A loop that takes a new state keeps RoutesPolled if that state does, and if no
\* reader is lost.
LEMMA BecomePolled ==
  ASSUME TypeInv, RoutesPolled, NEW l \in Loops, NEW s, Become(l, s),
         s.op # "brpop" => s.args = {},
         \A r \in Routes : r \in s.args \/ (s.op = "popped" /\ s.from = r) => route[r].reader # "none",
         \A r \in Routes : route[r].reader # "none" => route'[r].reader # "none"
  PROVE  RoutesPolled'
<1>1. loop' = [loop EXCEPT ![l] = s] /\ loop \in [Loops -> LoopState]
  BY DEF Become, TypeInv, TypeOK
<1>2. loop'[l] = s /\ \A m \in Loops : m # l => loop'[m] = loop[m]
  BY <1>1
<1> QED
  BY <1>2 DEF RoutesPolled, Entry

\* The end of a turn polls nothing.
LEMMA EndOfTurnPolled ==
  ASSUME TypeInv, RoutesPolled, NEW l \in Loops, NoteQueueResult(l) \/ Throw(l),
         \A r \in Routes : route[r].reader # "none" => route'[r].reader # "none"
  PROVE  RoutesPolled'
<1>1. \A s \in {Idle, Checking} : s.op \in {"idle", "check"} /\ s.args = {}
  BY DEF Idle, Checking
<1> QED
  BY <1>1, BecomePolled DEF NoteQueueResult, Throw

\* The same for QueuesChecked: the new state is not idle.
LEMMA BecomeChecked ==
  ASSUME TypeInv, NEW l \in Loops, NEW s, Become(l, s), s.op # "idle"
  PROVE  QueuesChecked'
  BY DEF Become, TypeInv, TypeOK, QueuesChecked

\* noteQueueResult leads to the next check.
LEMMA NoteChecked ==
  ASSUME TypeInv, NEW l \in Loops, NoteQueueResult(l)
  PROVE  QueuesChecked'
  BY InitialRecords, BecomeChecked DEF NoteQueueResult

\* Without a process nothing needs to be checked.
LEMMA ProcessEndsAlive ==
  ASSUME ProcessEnds
  PROVE  QueuesChecked' /\ RoutesPolled'
  BY DEF ProcessEnds, Idle, QueuesChecked, RoutesPolled, Entry

\* Each step of a loop is followed by another, while its routes have readers.
LEMMA LoopStepAlive ==
  ASSUME TypeInv, QueuesChecked, RoutesPolled, NEW l \in Loops, LoopStep(l), ItemsAssumption
  PROVE  QueuesChecked' /\ RoutesPolled'
<1> USE DEF redisVars, runVars, historyVars
<1>0. loop[l] \in LoopState /\ route \in [Routes -> RouteState]
  BY DEF TypeInv, TypeOK
<1>1. CASE CheckQueue(l)
  <2>1. CASE router = "stopped" /\ Become(l, Idle) /\ UNCHANGED <<router, route>>
    BY <2>1, EndOfTurnPolled DEF Throw, QueuesChecked
  <2>2. CASE Become(l, [Checking EXCEPT !.op = "mget", !.seen = ack]) /\ UNCHANGED route
    <3> DEFINE s == [Checking EXCEPT !.op = "mget", !.seen = ack]
    <3>1. s.op = "mget" /\ s.args = {}
      BY DEF Checking, Idle
    <3> QED
      BY <2>2, <3>1, BecomePolled, BecomeChecked
  <2>3. CASE ProcessEnds
    BY <2>3, ProcessEndsAlive
  <2> QED
    BY <1>1, <2>1, <2>2, <2>3 DEF CheckQueue
<1>2. CASE GetAckState(l)
  <2> DEFINE s == [loop[l] EXCEPT !.op = "brpop", !.args = SetQueueArgs(loop[l].seen)]
  <2>1. s.op = "brpop" /\ s.args = SetQueueArgs(loop[l].seen)
    BY <1>0 DEF LoopState
  <2>2. Become(l, s) /\ UNCHANGED route
    BY <1>2 DEF GetAckState
  <2>3. \A r \in Routes : r \in s.args => route[r].reader # "none"
    BY <2>1, ItemsAssumption DEF SetQueueArgs, Busy
  <2> QED
    BY <2>1, <2>2, <2>3, BecomePolled, BecomeChecked
<1>3. CASE Brpop(l)
  <2>1. PICK k \in Waiting(l) :
          Become(l, [loop[l] EXCEPT !.op = "popped", !.args = {}, !.from = k,
                       !.item = IF k = "ack" THEN None ELSE Head(queue[k]),
                       !.seq  = IF k = "ack" THEN Head(queue[k]) ELSE 0])
    BY <1>3 DEF Brpop
  <2> DEFINE s == [loop[l] EXCEPT !.op = "popped", !.args = {}, !.from = k,
                     !.item = IF k = "ack" THEN None ELSE Head(queue[k]),
                     !.seq  = IF k = "ack" THEN Head(queue[k]) ELSE 0]
  <2>2. s.op = "popped" /\ s.from = k /\ s.args = {}
    BY <1>0 DEF LoopState
  <2>3. k \in loop[l].args /\ UNCHANGED route
    BY <1>3, <2>1 DEF Brpop, Waiting
  <2>4. \A r \in Routes : s.from = r => route[r].reader # "none"
    BY <2>2, <2>3 DEF RoutesPolled
  <2> QED
    BY <2>1, <2>2, <2>3, <2>4, BecomePolled, BecomeChecked
<1>4. CASE IncrRetries(l)
  <2> DEFINE s == [loop[l] EXCEPT !.op = "incrRetries", !.args = {}]
  <2>1. s.op = "incrRetries" /\ s.args = {}
    BY <1>0 DEF LoopState
  <2>2. Become(l, s) /\ UNCHANGED route
    BY <1>4 DEF IncrRetries
  <2> QED
    BY <2>1, <2>2, BecomePolled, BecomeChecked
<1>5. ASSUME NEW e, NEW n, AssembleMessage(l, e, n), UNCHANGED route
      PROVE  QueuesChecked' /\ RoutesPolled'
  <2> DEFINE s == [Idle EXCEPT !.op = "mset", !.item = e, !.seq = n]
  <2>1. s.op = "mset" /\ s.args = {}
    BY DEF Idle
  <2> QED
    BY <1>5, <2>1, BecomePolled, BecomeChecked DEF AssembleMessage
<1>6. CASE ProcessTransmit(l)
  <2> DEFINE e == loop[l].item
             s == [Idle EXCEPT !.op = "incrSeq", !.item = e, !.seq = (lastSeq % SeqMod) + 1]
  <2>1. s.op = "incrSeq" /\ s.args = {}
    BY DEF Idle
  <2>2. CASE AssembleMessage(l, e, OwnSeq[e])
    BY <1>5, <1>6, <2>2 DEF ProcessTransmit
  <2>3. CASE Become(l, s)
    BY <1>6, <2>1, <2>3, BecomePolled, BecomeChecked DEF ProcessTransmit
  <2> QED
    BY <1>6, <2>2, <2>3 DEF ProcessTransmit
<1>7. CASE GenerateMessage(l)
  BY <1>5, <1>7 DEF GenerateMessage
<1>8. CASE ProcessRoute(l)
  <2>1. PICK r \in Routes :
          /\ Entry(l, r)
          /\ \/ /\ route[r].reader = "ready"
                /\ route' = [route EXCEPT ![r].held = @ \cup {loop[l].item}, ![r].busyState = TRUE]
                /\ NoteQueueResult(l)
             \/ /\ route[r].reader = "opening"
                /\ route' = [route EXCEPT ![r].busyState = FALSE]
                /\ NoteQueueResult(l)
             \/ route[r].reader = "none"
    BY <1>8 DEF ProcessRoute
  <2>2. route[r].reader # "none"
    BY <2>1 DEF RoutesPolled
  <2>3. \A q \in Routes : route'[q].reader = route[q].reader
    BY <1>0, <2>1, <2>2 DEF RouteState
  <2> QED
    BY <2>1, <2>2, <2>3, EndOfTurnPolled, NoteChecked
<1>9. CASE ThrowWithoutClient(l)
  <2>1. router # "running" /\ UNCHANGED <<router, route>> /\ Throw(l)
    BY <1>9 DEF ThrowWithoutClient
  <2> QED
    BY <2>1, EndOfTurnPolled DEF QueuesChecked
<1>10. CASE \/ NoteIdle(l) \/ TooManyRetries(l) \/ IncrTicks(l) \/ Retransmit(l)
            \/ ProcessAck(l) \/ IgnoreAck(l) \/ DropEntry(l) \/ ProcessCommand(l) \/ Transmit(l)
  <2>1. NoteQueueResult(l) /\ UNCHANGED route
    BY <1>10 DEF NoteIdle, TooManyRetries, IncrTicks, Retransmit, ProcessAck, IgnoreAck,
                 DropEntry, ProcessCommand, Transmit
  <2> QED
    BY <2>1, EndOfTurnPolled, NoteChecked
<1> QED
  BY <1>1, <1>2, <1>3, <1>4, <1>6, <1>7, <1>8, <1>9, <1>10 DEF LoopStep

\* So it stays over every other step, but for a reset.
LEMMA NextAlive ==
  ASSUME TypeInv, "routeReset" \notin faults, QueuesChecked, RoutesPolled, [Next]_vars, ItemsAssumption
  PROVE  QueuesChecked' /\ RoutesPolled'
<1> USE DEF vars, redisVars, runVars, historyVars
<1>0. route \in [Routes -> RouteState] /\ loop \in [Loops -> LoopState]
  BY DEF TypeInv, TypeOK
<1>1. CASE Start
  <2>1. PICK l \in Loops : NoteQueueResult(l)
    BY <1>1 DEF Start
  <2> QED
    BY <1>1, <2>1, EndOfTurnPolled, NoteChecked DEF Start
<1>2. CASE Stop
  BY <1>2 DEF Stop, QueuesChecked, RoutesPolled, Entry
<1>3. CASE RedisError
  <2>1. router' = "broken" /\ UNCHANGED route
        /\ \A l \in Loops : loop'[l] = loop[l] \/ loop'[l] = Idle
    BY <1>3 DEF RedisError
  <2>2. Idle.op = "idle" /\ Idle.args = {}
    BY DEF Idle
  <2> QED
    BY <2>1, <2>2 DEF QueuesChecked, RoutesPolled, Entry
<1>4. CASE Crash
  BY <1>4, ProcessEndsAlive DEF Crash
<1>5. ASSUME NEW l \in Loops, LoopStep(l) PROVE QueuesChecked' /\ RoutesPolled'
  BY <1>5, LoopStepAlive
<1>6. ASSUME NEW r \in Routes, RouteStep(r) PROVE QueuesChecked' /\ RoutesPolled'
  <2>1. RouteOpen(r) \/ RouteReady(r) \/ RouteError(r)
    BY <1>6 DEF RouteStep, RouteReset
  <2>2. \A q \in Routes : route[q].reader # "none" => route'[q].reader # "none"
    BY <1>0, <2>1 DEF RouteOpen, RouteReady, RouteError, RouteState
  <2> QED
    BY <1>6, <2>2 DEF RouteStep, QueuesChecked, RoutesPolled, Entry
<1>7. ASSUME NEW r \in Routes, NEW e \in Items, Answer(r, e) PROVE QueuesChecked' /\ RoutesPolled'
  <2>1. \A q \in Routes : route'[q].reader = route[q].reader
    BY <1>0, <1>7 DEF Answer, RouteState
  <2> QED
    BY <1>7, <2>1 DEF Answer, QueuesChecked, RoutesPolled, Entry
<1>8. CASE (\E e \in Items : Submit(e) \/ GatewayAck(e)) \/ UNCHANGED vars
  BY <1>8 DEF Submit, GatewayAck, QueuesChecked, RoutesPolled, Entry
<1> QED
  BY <1>1, <1>2, <1>3, <1>4, <1>5, <1>6, <1>7, <1>8 DEF Next

\* At first nothing is started.
LEMMA InitAlive ==
  ASSUME Init
  PROVE  QueuesChecked /\ RoutesPolled
<1>1. router = "stopped" /\ \A l \in Loops : loop[l].op = "idle" /\ loop[l].args = {}
  BY DEF Init, Idle
<1> QED
  BY <1>1 DEF QueuesChecked, RoutesPolled, Entry

\* Whatever entries come, and however often the router is stopped, loses its client or
\* crashes, a started router has a check loop, unless a peripheral is reset.
THEOREM LoopAliveHolds == Spec => []LoopAlive
<1>1. Init => TypeInv /\ AliveInv
  BY InitType, InitAlive DEF AliveInv
<1>2. TypeInv /\ AliveInv /\ [Next]_vars => (TypeInv /\ AliveInv)'
  BY NextType, NextAlive, RunStays, ItemsAssumption, BoundsAssumption DEF AliveInv
<1>3. AliveInv => LoopAlive
  BY DEF AliveInv, LoopAlive
<1> QED
  BY <1>1, <1>2, <1>3, PTL DEF Spec

\* A route holds one command at most, while it is ready and busy, and then no loop
\* polls it or has an entry of it.
Free(r) == \A l \in Loops : r \notin loop[l].args /\ ~Entry(l, r)

HeldOnce ==
  \A r \in Routes : route[r].held # {} =>
    /\ route[r].reader = "ready" /\ route[r].busyState = TRUE
    /\ \A x, y \in route[r].held : x = y
    /\ Free(r)

HeldInv == "routeReset" \notin faults => HeldOnce

\* A loop may take a new state that polls, and has an entry of, no route that holds a
\* command.
LEMMA BecomeHeld ==
  ASSUME TypeInv, HeldOnce, NEW l \in Loops, NEW s, Become(l, s), UNCHANGED route,
         \A r \in Routes : r \in s.args \/ (s.op = "popped" /\ s.from = r) => route[r].held = {}
  PROVE  HeldOnce'
<1>1. loop' = [loop EXCEPT ![l] = s] /\ loop \in [Loops -> LoopState]
  BY DEF Become, TypeInv, TypeOK
<1>2. loop'[l] = s /\ \A m \in Loops : m # l => loop'[m] = loop[m]
  BY <1>1
<1>3. \A r \in Routes : Free(r) /\ route[r].held # {} => Free(r)'
  BY <1>2 DEF Free, Entry
<1> QED
  BY <1>3 DEF HeldOnce

\* The end of a turn gives no command to a route.
LEMMA EndOfTurnHeld ==
  ASSUME TypeInv, HeldOnce, NEW l \in Loops, NoteQueueResult(l) \/ Throw(l), UNCHANGED route
  PROVE  HeldOnce'
<1>1. \A s \in {Idle, Checking} : s.op \in {"idle", "check"} /\ s.args = {}
  BY DEF Idle, Checking
<1> QED
  BY <1>1, BecomeHeld DEF NoteQueueResult, Throw

\* Without a process no route holds a command.
LEMMA ProcessEndsHeld ==
  ASSUME ProcessEnds
  PROVE  HeldOnce'
  BY DEF ProcessEnds, RouteInit, HeldOnce

\* Each step of a loop leaves a route that works alone.
LEMMA LoopStepHeld ==
  ASSUME TypeInv, LoopInv, RoutesPolled, HeldOnce, NEW l \in Loops, LoopStep(l), ItemsAssumption
  PROVE  HeldOnce'
<1> USE DEF redisVars, runVars, historyVars
<1>0. loop[l] \in LoopState /\ route \in [Routes -> RouteState] /\ loop \in [Loops -> LoopState]
  BY DEF TypeInv, TypeOK
<1>1. CASE CheckQueue(l)
  <2>1. CASE Become(l, Idle) /\ UNCHANGED route
    BY <2>1, EndOfTurnHeld DEF Throw
  <2>2. CASE Become(l, [Checking EXCEPT !.op = "mget", !.seen = ack]) /\ UNCHANGED route
    <3> DEFINE s == [Checking EXCEPT !.op = "mget", !.seen = ack]
    <3>1. s.op = "mget" /\ s.args = {}
      BY DEF Checking, Idle
    <3> QED
      BY <2>2, <3>1, BecomeHeld
  <2>3. CASE ProcessEnds
    BY <2>3, ProcessEndsHeld
  <2> QED
    BY <1>1, <2>1, <2>2, <2>3 DEF CheckQueue
<1>2. CASE GetAckState(l)
  <2> DEFINE s == [loop[l] EXCEPT !.op = "brpop", !.args = SetQueueArgs(loop[l].seen)]
  <2>1. s.op = "brpop" /\ s.args = SetQueueArgs(loop[l].seen)
    BY <1>0 DEF LoopState
  <2>2. Become(l, s) /\ UNCHANGED route
    BY <1>2 DEF GetAckState
  <2>3. \A r \in Routes : r \in s.args => route[r].held = {}
    BY <2>1, ItemsAssumption DEF SetQueueArgs, Busy, HeldOnce
  <2> QED
    BY <2>1, <2>2, <2>3, BecomeHeld
<1>3. CASE Brpop(l)
  <2>1. PICK k \in Waiting(l) :
          Become(l, [loop[l] EXCEPT !.op = "popped", !.args = {}, !.from = k,
                       !.item = IF k = "ack" THEN None ELSE Head(queue[k]),
                       !.seq  = IF k = "ack" THEN Head(queue[k]) ELSE 0])
    BY <1>3 DEF Brpop
  <2> DEFINE s == [loop[l] EXCEPT !.op = "popped", !.args = {}, !.from = k,
                     !.item = IF k = "ack" THEN None ELSE Head(queue[k]),
                     !.seq  = IF k = "ack" THEN Head(queue[k]) ELSE 0]
  <2>2. s.op = "popped" /\ s.from = k /\ s.args = {}
    BY <1>0 DEF LoopState
  <2>3. k \in loop[l].args /\ UNCHANGED route
    BY <1>3, <2>1 DEF Brpop, Waiting
  <2>4. \A r \in Routes : s.from = r => route[r].held = {}
    BY <2>2, <2>3 DEF HeldOnce, Free
  <2> QED
    BY <2>1, <2>2, <2>3, <2>4, BecomeHeld
<1>4. CASE IncrRetries(l)
  <2> DEFINE s == [loop[l] EXCEPT !.op = "incrRetries", !.args = {}]
  <2>1. s.op = "incrRetries" /\ s.args = {}
    BY <1>0 DEF LoopState
  <2>2. Become(l, s) /\ UNCHANGED route
    BY <1>4 DEF IncrRetries
  <2> QED
    BY <2>1, <2>2, BecomeHeld
<1>5. ASSUME NEW e, NEW n, AssembleMessage(l, e, n), UNCHANGED route
      PROVE  HeldOnce'
  <2> DEFINE s == [Idle EXCEPT !.op = "mset", !.item = e, !.seq = n]
  <2>1. s.op = "mset" /\ s.args = {}
    BY DEF Idle
  <2> QED
    BY <1>5, <2>1, BecomeHeld DEF AssembleMessage
<1>6. CASE ProcessTransmit(l)
  <2> DEFINE e == loop[l].item
             s == [Idle EXCEPT !.op = "incrSeq", !.item = e, !.seq = (lastSeq % SeqMod) + 1]
  <2>1. s.op = "incrSeq" /\ s.args = {}
    BY DEF Idle
  <2>2. CASE AssembleMessage(l, e, OwnSeq[e])
    BY <1>5, <1>6, <2>2 DEF ProcessTransmit
  <2>3. CASE Become(l, s)
    BY <1>6, <2>1, <2>3, BecomeHeld DEF ProcessTransmit
  <2> QED
    BY <1>6, <2>2, <2>3 DEF ProcessTransmit
<1>7. CASE GenerateMessage(l)
  BY <1>5, <1>7 DEF GenerateMessage
<1>8. CASE ProcessRoute(l)
  <2>1. PICK r \in Routes :
          /\ Entry(l, r)
          /\ \/ /\ route[r].reader = "ready"
                /\ route' = [route EXCEPT ![r].held = @ \cup {loop[l].item}, ![r].busyState = TRUE]
                /\ NoteQueueResult(l)
             \/ /\ route[r].reader = "opening"
                /\ route' = [route EXCEPT ![r].busyState = FALSE]
                /\ NoteQueueResult(l)
             \/ route[r].reader = "none"
    BY <1>8 DEF ProcessRoute
  <2>2. route[r].reader # "none" /\ route[r].held = {}
    BY <2>1 DEF RoutesPolled, HeldOnce, Free
  <2>3. NoteQueueResult(l) /\ loop[l].op = "popped"
    BY <2>1, <2>2 DEF Entry
  <2>4. \A m \in Loops : loop'[m].op \in {"idle", "check"} /\ loop'[m].args = {}
    <3>1. loop' = [loop EXCEPT ![l] = Checking]
      BY <2>3 DEF NoteQueueResult, Become
    <3>2. Checking.op = "check" /\ Checking.args = {}
      BY DEF Checking, Idle
    <3>3. \A m \in Loops : m # l => loop[m].op = "idle" /\ loop[m].args = {}
      BY <2>3 DEF LoopInv, SingleLoop, RoutesPolled
    <3> QED
      BY <1>0, <3>1, <3>2, <3>3
  <2>5. \A q \in Routes : Free(q)'
    BY <2>4 DEF Free, Entry
  <2>6. \A q \in Routes : q # r => route'[q] = route[q]
    BY <1>0, <2>1, <2>2
  <2>7. \/ route'[r].held = {}
        \/ /\ route'[r].held = {loop[l].item} /\ route'[r].busyState = TRUE
           /\ route'[r].reader = "ready"
    BY <1>0, <2>1, <2>2 DEF RouteState
  <2> QED
    BY <2>5, <2>6, <2>7 DEF HeldOnce
<1>9. CASE \/ NoteIdle(l) \/ TooManyRetries(l) \/ IncrTicks(l) \/ Retransmit(l)
           \/ ProcessAck(l) \/ IgnoreAck(l) \/ DropEntry(l) \/ ProcessCommand(l) \/ Transmit(l)
           \/ ThrowWithoutClient(l)
  <2>1. (NoteQueueResult(l) \/ Throw(l)) /\ UNCHANGED route
    BY <1>9 DEF NoteIdle, TooManyRetries, IncrTicks, Retransmit, ProcessAck, IgnoreAck,
                DropEntry, ProcessCommand, Transmit, ThrowWithoutClient
  <2> QED
    BY <2>1, EndOfTurnHeld
<1> QED
  BY <1>1, <1>2, <1>3, <1>4, <1>6, <1>7, <1>8, <1>9 DEF LoopStep

\* So does every other step, but for a reset.
LEMMA NextHeld ==
  ASSUME TypeInv, LoopInv, RoutesPolled, HeldOnce, "routeReset" \notin faults, [Next]_vars,
         ItemsAssumption
  PROVE  HeldOnce'
<1> USE DEF vars, redisVars, runVars, historyVars
<1>0. route \in [Routes -> RouteState] /\ loop \in [Loops -> LoopState]
  BY DEF TypeInv, TypeOK
<1>u. UNCHANGED loop => \A q \in Routes : Free(q) => Free(q)'
  BY DEF Free, Entry
<1>1. CASE Start
  <2>1. PICK l \in Loops : NoteQueueResult(l)
    BY <1>1 DEF Start
  <2> QED
    BY <1>1, <2>1, EndOfTurnHeld DEF Start
<1>2. CASE RedisError
  <2>1. UNCHANGED route /\ \A l \in Loops : loop'[l] = loop[l] \/ loop'[l] = Idle
    BY <1>2 DEF RedisError
  <2>2. Idle.op = "idle" /\ Idle.args = {}
    BY DEF Idle
  <2> QED
    BY <2>1, <2>2 DEF HeldOnce, Free, Entry
<1>3. CASE Crash
  BY <1>3, ProcessEndsHeld DEF Crash
<1>4. ASSUME NEW l \in Loops, LoopStep(l) PROVE HeldOnce'
  BY <1>4, LoopStepHeld
<1>5. ASSUME NEW r \in Routes, RouteStep(r) PROVE HeldOnce'
  <2>1. (RouteOpen(r) \/ RouteReady(r) \/ RouteError(r)) /\ UNCHANGED loop
    BY <1>5 DEF RouteStep, RouteReset
  <2>2. \A q \in Routes : q # r => route'[q] = route[q]
    BY <1>0, <2>1 DEF RouteOpen, RouteReady, RouteError
  <2>3. /\ route'[r].held = route[r].held
        /\ route[r].held # {} => route'[r].reader = "ready" /\ route'[r].busyState = TRUE
    BY <1>0, <2>1 DEF RouteOpen, RouteReady, RouteError, RouteState, HeldOnce
  <2> QED
    BY <2>1, <2>2, <2>3 DEF HeldOnce, Free, Entry
<1>6. ASSUME NEW r \in Routes, NEW e \in Items, Answer(r, e) PROVE HeldOnce'
  <2>1. /\ UNCHANGED loop /\ e \in route[r].held
        /\ route' = [route EXCEPT ![r].held = @ \ {e}, ![r].busyState = FALSE]
    BY <1>6 DEF Answer
  <2>2. \A q \in Routes : q # r => route'[q] = route[q]
    BY <1>0, <2>1
  <2>3. route[r].held \ {e} = {}
    BY <2>1 DEF HeldOnce
  <2>4. route'[r].held = {}
    BY <1>0, <2>1, <2>3 DEF RouteState
  <2>5. \A q \in Routes : Free(q) => Free(q)'
    BY <2>1, <1>u
  <2> QED
    BY <2>2, <2>4, <2>5 DEF HeldOnce
<1>7. CASE Stop \/ (\E e \in Items : Submit(e) \/ GatewayAck(e)) \/ UNCHANGED vars
  <2>1. UNCHANGED <<loop, route>>
    BY <1>7 DEF Stop, Submit, GatewayAck
  <2>2. \A q \in Routes : Free(q) => Free(q)'
    BY <2>1, <1>u
  <2> QED
    BY <2>1, <2>2 DEF HeldOnce
<1> QED
  BY <1>1, <1>2, <1>3, <1>4, <1>5, <1>6, <1>7 DEF Next

\* Then a route is handed one command at a time.
LEMMA HeldImplies ==
  ASSUME HeldInv
  PROVE  RouteExclusive
<1> SUFFICES ASSUME "routeReset" \notin faults, NEW r \in Routes
             PROVE  /\ Cardinality(route[r].held) <= 1
                    /\ route[r].held # {} => \A l \in Loops : r \notin loop[l].args
  BY DEF RouteExclusive
<1>1. HeldOnce
  BY DEF HeldInv
<1>2. \E x : route[r].held \subseteq {x}
  BY <1>1 DEF HeldOnce
<1>3. PICK x : route[r].held \subseteq {x}
  BY <1>2
<1>4. IsFiniteSet({x}) /\ Cardinality({x}) = 1
  BY FS_Singleton
<1>5. Cardinality(route[r].held) <= Cardinality({x})
  BY <1>3, <1>4, FS_Subset
<1>6. Cardinality(route[r].held) <= 1
  BY <1>4, <1>5
<1> QED
  BY <1>1, <1>6 DEF HeldOnce, Free

\* HeldInv until check loops overlap.
AloneHeld == ~overlapped => HeldInv

LEMMA NextAloneHeld ==
  ASSUME TypeInv, AloneInv, AliveInv, AloneHeld, [Next]_vars, ItemsAssumption
  PROVE  AloneHeld'
<1> SUFFICES ASSUME ~overlapped' PROVE HeldInv'
  BY DEF AloneHeld
<1>1. LoopInv /\ HeldInv /\ UNCHANGED faults
  BY RunStays DEF AloneInv, AloneHeld
<1> QED
  BY <1>1, NextHeld DEF AliveInv, HeldInv

\* While no check loops have overlapped and no peripheral is reset, a peripheral works on
\* one command at a time, and no poll under way can bring it another.
THEOREM RouteExclusiveHolds == Spec => []RouteExclusive
<1> DEFINE IInv == TypeInv /\ AloneInv /\ AliveInv /\ AloneHeld
<1>1. Init => IInv
  <2>1. ASSUME Init PROVE AloneHeld
    BY <2>1 DEF Init, AloneHeld, HeldInv, HeldOnce, RouteInit
  <2> QED
    BY <2>1, InitType, InitLoop, InitAlive DEF AliveInv
<1>2. IInv /\ [Next]_vars => IInv'
  <2> SUFFICES ASSUME IInv, [Next]_vars PROVE IInv'
    OBVIOUS
  <2>1. TypeInv' /\ AloneInv' /\ AloneHeld'
    BY NextType, NextAlone, NextAloneHeld, ItemsAssumption, BoundsAssumption
  <2>2. AliveInv'
    BY RunStays, NextAlive, ItemsAssumption DEF AliveInv
  <2> QED
    BY <2>1, <2>2
<1>3. IInv => RouteExclusive
  BY HeldImplies DEF AloneHeld, RouteExclusive
<1> QED
  BY <1>1, <1>2, <1>3, PTL DEF Spec

-----------------------------------------------------------------------------
(* No work is lost or duplicated *)

\* Where an item is, and that it is there only once: in the lists of Redis, in the
\* hand of a check loop, at a peripheral, or in the ack state.
ListedAt(e, k, i) == k \in Keys \ {"ack"} /\ i \in 1..Len(queue[k]) /\ queue[k][i] = e
Listed(e) == \E k, i : ListedAt(e, k, i)
Handed(e) == \E l \in Loops : e \in InHand(l)
Given(e)  == \E r \in Routes : e \in route[r].held
Stored(e) == ack.message = e

ListedOnce(e) ==
  \A j, k, x, y : ListedAt(e, j, x) /\ ListedAt(e, k, y) => j = k /\ x = y
HandedOnce(e) == \A l, m \in Loops : e \in InHand(l) /\ e \in InHand(m) => l = m
GivenOnce(e)  == \A q, r \in Routes : e \in route[q].held /\ e \in route[r].held => q = r

Kept(e) ==
  /\ ListedOnce(e) /\ HandedOnce(e) /\ GivenOnce(e)
  /\ Listed(e) => ~Handed(e) /\ ~Given(e) /\ ~Stored(e)
  /\ Handed(e) => ~Given(e) /\ ~Stored(e)
  /\ Given(e) => ~Stored(e)
  /\ outcome[e] = "live" <=> Listed(e) \/ Handed(e) \/ Given(e) \/ Stored(e)

\* A message that a loop has seen in the ack state and that is no longer there ended.
Settled(e) == outcome[e] \notin {"new", "live"}
SeenSettled ==
  \A l \in Loops : \A e \in Items : e = loop[l].seen.message /\ e # ack.message => Settled(e)

\* What comes from the command list is a command, what comes from the ack list no item.
IsCommand(e) == Kind[e] \in {"mt", "unroutable"}
EntryKinds ==
  /\ \A i \in 1..Len(queue["command"]) : IsCommand(queue["command"][i])
  /\ \A l \in Loops : /\ Entry(l, "command") => IsCommand(loop[l].item)
                      /\ Entry(l, "ack") => loop[l].item = None

WorkInv == (\A e \in Items : Kept(e)) /\ SeenSettled /\ EntryKinds

\* An item that a step does not touch stays where it is.
SameLists(e) == (Listed(e)' <=> Listed(e)) /\ (ListedOnce(e) => ListedOnce(e)')
SameHands(e) == (Handed(e)' <=> Handed(e)) /\ (HandedOnce(e) => HandedOnce(e)')
SameRoutes(e) == (Given(e)' <=> Given(e)) /\ (GivenOnce(e) => GivenOnce(e)')

\* Lists that do not change, or only the ack list, hold the same items.
LEMMA ListsSame ==
  ASSUME \A k \in Keys \ {"ack"} : queue'[k] = queue[k]
  PROVE  \A e : SameLists(e)
<1>1. \A e, k, i : ListedAt(e, k, i)' <=> ListedAt(e, k, i)
  BY DEF ListedAt
<1> QED
  BY <1>1 DEF SameLists, Listed, ListedOnce

\* So it is with loops and with routes.
LEMMA HandsSame ==
  ASSUME UNCHANGED loop
  PROVE  \A e : SameHands(e)
  BY DEF SameHands, Handed, HandedOnce, InHand

\* The commands of the routes.
LEMMA RoutesSame ==
  ASSUME \A r \in Routes : route'[r].held = route[r].held
  PROVE  \A e : SameRoutes(e)
  BY DEF SameRoutes, Given, GivenOnce

\* An item pushed to a list is in it once, if it was in none; others stay.
LEMMA PushPlaces ==
  ASSUME QueueOK, NEW k \in Keys \ {"ack"}, NEW x \in Items, Push(k, x)
  PROVE  /\ \A e : e # x => SameLists(e)
         /\ Listed(x)'
         /\ ~Listed(x) => ListedOnce(x)'
<1> DEFINE n == Len(queue[k]) + 1
<1>1. queue[k] \in Seq(Items) /\ \A j \in Keys \ {"ack"} : queue[j] \in Seq(Items)
  BY DEF QueueOK
<1>2. queue'[k] = Append(queue[k], x) /\ \A j \in Keys : j # k => queue'[j] = queue[j]
  BY DEF Push, QueueOK
<1>3. /\ Len(queue'[k]) = n /\ queue'[k][n] = x /\ n \in 1..n
      /\ 1..n = 1..Len(queue[k]) \cup {n} /\ n \notin 1..Len(queue[k])
      /\ \A i \in 1..Len(queue[k]) : queue'[k][i] = queue[k][i]
  BY <1>1, <1>2
<1>4. \A e, j, i : ListedAt(e, j, i)' <=> ListedAt(e, j, i) \/ (e = x /\ j = k /\ i = n)
  BY <1>2, <1>3 DEF ListedAt
<1> QED
  BY <1>4 DEF SameLists, Listed, ListedOnce

\* An item popped from a list is in no list any more; others stay.
LEMMA PopPlaces ==
  ASSUME QueueOK, NEW k \in Keys \ {"ack"}, queue[k] # <<>>,
         queue' = [queue EXCEPT ![k] = Tail(@)], NEW x, x = Head(queue[k])
  PROVE  /\ x \in Items /\ Listed(x)
         /\ \A e : e # x => SameLists(e)
         /\ ListedOnce(x) => ~Listed(x)'
<1> DEFINE Old(j, i) == IF j = k THEN i + 1 ELSE i
<1> DEFINE New(j, i) == IF j = k THEN i - 1 ELSE i
<1>1. queue[k] \in Seq(Items) /\ \A j \in Keys \ {"ack"} : queue[j] \in Seq(Items)
  BY DEF QueueOK
<1>2. queue'[k] = Tail(queue[k]) /\ \A j \in Keys : j # k => queue'[j] = queue[j]
  BY DEF QueueOK
<1>3. ASSUME NEW s \in Seq(Items), s # <<>>
      PROVE  /\ Head(s) \in Items /\ Head(s) = s[1] /\ 1 \in 1..Len(s)
             /\ Len(s) \in Nat /\ Len(Tail(s)) = Len(s) - 1
             /\ \A i \in 1..Len(Tail(s)) : Tail(s)[i] = s[i + 1]
  BY <1>3
<1>4. /\ x \in Items /\ x = queue[k][1] /\ 1 \in 1..Len(queue[k])
      /\ Len(queue[k]) \in Nat /\ Len(queue'[k]) = Len(queue[k]) - 1
      /\ \A i \in 1..Len(queue'[k]) : queue'[k][i] = queue[k][i + 1]
  <2>1. queue[k] \in Seq(Items) /\ queue[k] # <<>>
    BY <1>1
  <2>2. /\ Head(queue[k]) \in Items /\ Head(queue[k]) = queue[k][1] /\ 1 \in 1..Len(queue[k])
        /\ Len(queue[k]) \in Nat /\ Len(Tail(queue[k])) = Len(queue[k]) - 1
        /\ \A i \in 1..Len(Tail(queue[k])) : Tail(queue[k])[i] = queue[k][i + 1]
    BY <1>3, <2>1
  <2> QED
    BY <1>2, <2>2
<1>5. ListedAt(x, k, 1)
  BY <1>4 DEF ListedAt
<1>6. ASSUME NEW e, NEW j, NEW i, ListedAt(e, j, i)'
      PROVE  ListedAt(e, j, Old(j, i)) /\ New(j, Old(j, i)) = i /\ (j = k => Old(j, i) # 1)
  <2>1. CASE j = k
    <3>1. i \in Nat /\ i >= 1 /\ i + 1 \in 1..Len(queue[k]) /\ queue[k][i + 1] = e
      BY <1>4, <1>6, <2>1 DEF ListedAt
    <3> QED
      BY <2>1, <3>1 DEF ListedAt
  <2>2. CASE j # k
    BY <1>2, <1>6, <2>2 DEF ListedAt
  <2> QED
    BY <2>1, <2>2
<1>7. \A e, j, i : ListedAt(e, j, i) /\ e # x => ListedAt(e, j, New(j, i))'
  BY <1>2, <1>4 DEF ListedAt
<1> HIDE DEF Old, New
<1>8. \A e : e # x => SameLists(e)
  BY <1>6, <1>7 DEF SameLists, Listed, ListedOnce
<1>9. ListedOnce(x) => ~Listed(x)'
  BY <1>5, <1>6 DEF Listed, ListedOnce
<1> QED
  BY <1>4, <1>5, <1>8, <1>9 DEF Listed

\* A loop whose new state holds nothing lets go of what it held.
LEMMA LetGo ==
  ASSUME TypeInv, NEW l \in Loops, NEW s, Become(l, s), s.op \notin {"popped", "incrSeq"}
  PROVE  \A e : /\ e \notin InHand(l) => SameHands(e)
                /\ HandedOnce(e) => HandedOnce(e)'
                /\ HandedOnce(e) /\ e \in InHand(l) => ~Handed(e)'
<1>1. loop'[l] = s /\ \A m \in Loops : m # l => loop'[m] = loop[m]
  BY DEF Become, TypeInv, TypeOK
<1>2. InHand(l)' = {} /\ \A m \in Loops : m # l => InHand(m)' = InHand(m)
  BY <1>1 DEF InHand
<1> QED
  BY <1>2 DEF SameHands, Handed, HandedOnce

\* A loop that takes an item, or goes on with the one it has, holds it.
LEMMA TakeInHand ==
  ASSUME TypeInv, NEW l \in Loops, NEW s, Become(l, s), s.op \in {"popped", "incrSeq"},
         NEW x \in Items, s.item = x, InHand(l) \subseteq {x}
  PROVE  /\ \A e : e # x => SameHands(e)
         /\ Handed(x)'
         /\ HandedOnce(x) /\ (Handed(x) => x \in InHand(l)) => HandedOnce(x)'
<1>1. loop'[l] = s /\ \A m \in Loops : m # l => loop'[m] = loop[m]
  BY DEF Become, TypeInv, TypeOK
<1>2. InHand(l)' = {x} /\ \A m \in Loops : m # l => InHand(m)' = InHand(m)
  BY <1>1 DEF InHand
<1> QED
  BY <1>2 DEF SameHands, Handed, HandedOnce

\* An item that is touched by no part of a step is kept as it was.
LEMMA KeptFrame ==
  ASSUME NEW e, Kept(e), SameLists(e), SameHands(e), SameRoutes(e),
         Stored(e)' <=> Stored(e), (outcome'[e] = "live") <=> (outcome[e] = "live")
  PROVE  Kept(e)'
  BY DEF Kept, SameLists, SameHands, SameRoutes

\* A loop's view of the ack state stays one of a message that is there or ended.
LEMMA SeenStep ==
  ASSUME SeenSettled,
         \A e \in Items : Settled(e) => Settled(e)',
         \A e \in Items : e = ack.message /\ e # ack'.message => Settled(e)',
         \A l \in Loops : loop'[l].seen.message \in {loop[l].seen.message, ack.message, None},
         ItemsAssumption
  PROVE  SeenSettled'
<1> SUFFICES ASSUME NEW l \in Loops, NEW e \in Items, e = loop'[l].seen.message, e # ack'.message
             PROVE  Settled(e)'
  BY DEF SeenSettled
<1>1. e # None
  BY ItemsAssumption
<1>2. e = loop[l].seen.message \/ e = ack.message
  BY <1>1
<1> QED
  BY <1>2 DEF SeenSettled

\* Entries stay what they are if no other entry is pushed to the command list.
LEMMA KindsStep ==
  ASSUME EntryKinds, queue'["command"] = queue["command"],
         \A l \in Loops : loop'[l] = loop[l] \/ loop'[l].op # "popped"
  PROVE  EntryKinds'
  BY DEF EntryKinds, Entry

\* A loop's new state.
LEMMA NewState ==
  ASSUME TypeInv, NEW l \in Loops, NEW s, Become(l, s)
  PROVE  loop'[l] = s /\ \A m \in Loops : m # l => loop'[m] = loop[m]
  BY DEF Become, TypeInv, TypeOK

\* A step of a loop that holds nothing and takes nothing.
LEMMA QuietWork ==
  ASSUME TypeInv, WorkInv, NEW l \in Loops, InHand(l) = {},
         NEW s, Become(l, s), s.op \notin {"popped", "incrSeq"},
         s.seen.message \in {loop[l].seen.message, ack.message, None},
         UNCHANGED <<queue, route, outcome>>, ack'.message = ack.message, ItemsAssumption
  PROVE  WorkInv'
<1>1. ASSUME NEW e \in Items PROVE Kept(e)'
  <2>1. SameLists(e) /\ SameRoutes(e)
    BY ListsSame, RoutesSame
  <2>2. SameHands(e)
    BY LetGo
  <2> QED
    BY <2>1, <2>2, KeptFrame DEF WorkInv, Stored
<1>2. SeenSettled'
  <2>1. \A m \in Loops : loop'[m].seen.message \in {loop[m].seen.message, ack.message, None}
    BY NewState
  <2> QED
    BY <2>1, SeenStep DEF WorkInv, Settled
<1>3. EntryKinds'
  <2>1. \A m \in Loops : loop'[m] = loop[m] \/ loop'[m].op # "popped"
    BY NewState
  <2> QED
    BY <2>1, KindsStep DEF WorkInv
<1> QED
  BY <1>1, <1>2, <1>3 DEF WorkInv

\* At the end of a turn a loop holds nothing and has seen nothing.
LEMMA TurnEnds ==
  ASSUME TypeInv, NEW l \in Loops, NoteQueueResult(l) \/ Throw(l)
  PROVE  /\ \A e : e \notin InHand(l) => SameHands(e)
         /\ \A e : HandedOnce(e) => HandedOnce(e)'
         /\ \A e : HandedOnce(e) /\ e \in InHand(l) => ~Handed(e)'
         /\ \A m \in Loops : loop'[m].seen.message \in {loop[m].seen.message, ack.message, None}
         /\ \A m \in Loops : loop'[m] = loop[m] \/ loop'[m].op # "popped"
<1>1. PICK s \in {Idle, Checking} : Become(l, s)
  BY DEF NoteQueueResult, Throw
<1>2. s.op \in {"idle", "check"} /\ s.seen.message = None
  BY DEF Idle, Checking, NoAck
<1>3. \A e : /\ e \notin InHand(l) => SameHands(e)
             /\ HandedOnce(e) => HandedOnce(e)'
             /\ HandedOnce(e) /\ e \in InHand(l) => ~Handed(e)'
  BY <1>1, <1>2, LetGo
<1>4. loop'[l] = s /\ \A m \in Loops : m # l => loop'[m] = loop[m]
  BY <1>1, NewState
<1> QED
  BY <1>2, <1>3, <1>4

\* The turn ends, and the items in the loop's hand with it.
LEMMA DropWork ==
  ASSUME TypeInv, WorkInv, NEW l \in Loops, NoteQueueResult(l) \/ Throw(l),
         NEW how \in Outcomes \ {"new", "live"}, Conclude(InHand(l), how),
         UNCHANGED <<queue, ack, route>>, ItemsAssumption
  PROVE  WorkInv'
<1>0. \A e \in Items : outcome'[e] = IF e \in InHand(l) THEN how ELSE outcome[e]
  BY DEF Conclude
<1>1. ASSUME NEW e \in Items PROVE Kept(e)'
  <2>1. SameLists(e) /\ SameRoutes(e) /\ (Stored(e)' <=> Stored(e)) /\ Kept(e)
    BY ListsSame, RoutesSame DEF Stored, WorkInv
  <2>2. CASE e \notin InHand(l)
    BY <1>0, <2>1, <2>2, TurnEnds, KeptFrame
  <2>3. CASE e \in InHand(l)
    <3>1. ~Handed(e)' /\ HandedOnce(e)' /\ Handed(e)
      BY <2>1, <2>3, TurnEnds DEF Kept, Handed
    <3>2. outcome'[e] # "live"
      BY <1>0, <2>3
    <3> QED
      BY <2>1, <3>1, <3>2 DEF Kept, SameLists, SameRoutes
  <2> QED
    BY <2>2, <2>3
<1>2. SeenSettled'
  <2>1. \A e \in Items : Settled(e) => Settled(e)'
    BY <1>0 DEF Settled
  <2> QED
    BY <2>1, TurnEnds, SeenStep DEF WorkInv
<1>3. EntryKinds'
  BY TurnEnds, KindsStep DEF WorkInv
<1> QED
  BY <1>1, <1>2, <1>3 DEF WorkInv

\* The ack state is deleted: the message there and the one the loop has seen ended.
LEMMA DelAckStateWork ==
  ASSUME TypeInv, WorkInv, NEW l \in Loops, InHand(l) = {}, NoteQueueResult(l),
         NEW how \in Outcomes \ {"new", "live"}, DelAckState(l, how),
         loop[l].seen.message # None, UNCHANGED <<queue, route>>, ItemsAssumption
  PROVE  WorkInv'
<1>0. /\ \A e \in Items : outcome'[e] = IF e = loop[l].seen.message THEN how
                                        ELSE IF e = ack.message THEN "lost" ELSE outcome[e]
      /\ ack'.message = None /\ None \notin Items
  BY ItemsAssumption DEF DelAckState, NoAck
<1>1. ASSUME NEW e \in Items PROVE Kept(e)'
  <2>1. SameLists(e) /\ SameRoutes(e) /\ SameHands(e) /\ Kept(e) /\ ~Stored(e)'
    BY <1>0, ListsSame, RoutesSame, TurnEnds DEF Stored, WorkInv
  <2>2. CASE e = ack.message
    <3>1. outcome'[e] # "live" /\ Stored(e)
      BY <1>0, <2>2 DEF Stored
    <3> QED
      BY <2>1, <3>1 DEF Kept, SameLists, SameRoutes, SameHands
  <2>3. CASE e # ack.message
    <3>1. ~Stored(e) /\ ((outcome'[e] = "live") <=> (outcome[e] = "live"))
      BY <1>0, <2>3 DEF Stored, WorkInv, SeenSettled, Settled
    <3> QED
      BY <2>1, <3>1, KeptFrame
  <2> QED
    BY <2>2, <2>3
<1>2. SeenSettled'
  <2>1. \A e \in Items : Settled(e) => Settled(e)'
    BY <1>0 DEF Settled
  <2>2. \A e \in Items : e = ack.message => Settled(e)'
    BY <1>0 DEF Settled
  <2> QED
    BY <2>1, <2>2, TurnEnds, SeenStep DEF WorkInv
<1>3. EntryKinds'
  BY TurnEnds, KindsStep DEF WorkInv
<1> QED
  BY <1>1, <1>2, <1>3 DEF WorkInv

\* A report leaves the hand of a loop for the ack state; what is there ends.
LEMMA AssembleMessageWork ==
  ASSUME TypeInv, WorkInv, NEW l \in Loops, NEW x \in Items, InHand(l) = {x}, NEW n,
         AssembleMessage(l, x, n), UNCHANGED <<queue, route>>, ItemsAssumption
  PROVE  WorkInv'
<1> DEFINE s == [Idle EXCEPT !.op = "mset", !.item = x, !.seq = n]
<1>0. /\ \A e \in Items : outcome'[e] = IF e = ack.message /\ e # x THEN "lost" ELSE outcome[e]
      /\ ack'.message = x
      /\ Become(l, s) /\ s.op = "mset" /\ s.seen.message = None
  BY DEF AssembleMessage, Conclude, Idle, NoAck
<1> HIDE DEF s
<1>1. ASSUME NEW e \in Items PROVE Kept(e)'
  <2>1. SameLists(e) /\ SameRoutes(e) /\ Kept(e)
    BY ListsSame, RoutesSame DEF WorkInv
  <2>2. CASE e = x
    <3>1. ~Handed(e)' /\ HandedOnce(e)' /\ Handed(e)
      BY <1>0, <2>1, <2>2, LetGo DEF Kept, Handed
    <3>2. outcome'[e] = outcome[e] /\ Stored(e)'
      BY <1>0, <2>2 DEF Stored
    <3> QED
      BY <2>1, <3>1, <3>2 DEF Kept, SameLists, SameRoutes
  <2>3. CASE e # x
    <3>1. SameHands(e) /\ ~Stored(e)'
      BY <1>0, <2>3, LetGo DEF Stored
    <3>2. Stored(e) => outcome'[e] = "lost"
      BY <1>0, <2>3 DEF Stored
    <3>3. ~Stored(e) => outcome'[e] = outcome[e]
      BY <1>0, <2>3 DEF Stored
    <3> QED
      BY <2>1, <3>1, <3>2, <3>3 DEF Kept, SameLists, SameRoutes, SameHands
  <2> QED
    BY <2>2, <2>3
<1>2. SeenSettled'
  <2>1. \A e \in Items : Settled(e) => Settled(e)'
    BY <1>0 DEF Settled
  <2>2. \A e \in Items : e = ack.message /\ e # ack'.message => Settled(e)'
    BY <1>0 DEF Settled
  <2>3. \A m \in Loops : loop'[m].seen.message \in {loop[m].seen.message, ack.message, None}
    BY <1>0, NewState
  <2> QED
    BY <2>1, <2>2, <2>3, SeenStep DEF WorkInv
<1>3. EntryKinds'
  <2>1. \A m \in Loops : loop'[m] = loop[m] \/ loop'[m].op # "popped"
    BY <1>0, NewState
  <2> QED
    BY <2>1, KindsStep DEF WorkInv
<1> QED
  BY <1>1, <1>2, <1>3 DEF WorkInv

\* What is pushed to the command list is a command.
LEMMA PushKinds ==
  ASSUME QueueOK, EntryKinds, NEW k \in Keys \ {"ack"}, NEW x \in Items, Push(k, x),
         k = "command" => IsCommand(x)
  PROVE  \A i \in 1..Len(queue'["command"]) : IsCommand(queue'["command"][i])
<1>1. "command" \in Keys \ {"ack"}
  BY DEF Keys, Lists
<1>2. CASE k # "command"
  BY <1>1, <1>2 DEF Push, QueueOK, EntryKinds
<1>3. CASE k = "command"
  <2>1. queue["command"] \in Seq(Items) /\ queue'["command"] = Append(queue["command"], x)
    BY <1>1, <1>3 DEF Push, QueueOK
  <2>2. \A i \in 1..Len(queue'["command"]) :
          \/ i \in 1..Len(queue["command"]) /\ queue'["command"][i] = queue["command"][i]
          \/ queue'["command"][i] = x
    BY <2>1
  <2> QED
    BY <1>3, <2>2 DEF EntryKinds
<1> QED
  BY <1>2, <1>3

\* An item goes from one place to the end of a list, other than the command list.
LEMMA PushWork ==
  ASSUME TypeInv, WorkInv, ItemsAssumption,
         NEW x \in Items, NEW k \in Keys \ {"ack", "command"}, Push(k, x), ~Listed(x),
         outcome[x] = "live", UNCHANGED <<ack, outcome>>, ~Stored(x),
         \A e \in Items : e # x => SameHands(e) /\ SameRoutes(e),
         HandedOnce(x)', GivenOnce(x)', ~Handed(x)', ~Given(x)',
         \A m \in Loops : loop'[m].seen.message \in {loop[m].seen.message, ack.message, None},
         \A m \in Loops : loop'[m] = loop[m] \/ loop'[m].op # "popped"
  PROVE  WorkInv'
<1>0. QueueOK
  BY DEF TypeInv, TypeOK, QueueOK
<1>1. ASSUME NEW e \in Items PROVE Kept(e)'
  <2>1. CASE e = x
    <3>1. Listed(e)' /\ ListedOnce(e)'
      BY <1>0, <2>1, PushPlaces
    <3>2. ~Stored(e)' /\ outcome'[e] = "live"
      BY <2>1 DEF Stored
    <3> QED
      BY <2>1, <3>1, <3>2 DEF Kept
  <2>2. CASE e # x
    <3>1. SameLists(e)
      BY <1>0, <2>2, PushPlaces
    <3> QED
      BY <2>2, <3>1, KeptFrame DEF WorkInv, Stored
  <2> QED
    BY <2>1, <2>2
<1>2. SeenSettled'
  BY SeenStep DEF WorkInv, Settled
<1>3. EntryKinds'
  <2>1. \A i \in 1..Len(queue'["command"]) : IsCommand(queue'["command"][i])
    BY <1>0, PushKinds DEF WorkInv
  <2> QED
    BY <2>1 DEF EntryKinds, Entry, WorkInv
<1> QED
  BY <1>1, <1>2, <1>3 DEF WorkInv

\* The result of a command: pushed to the transmit queue, or the end of the item.
LEMMA PushResultWork ==
  ASSUME TypeInv, WorkInv, ItemsAssumption,
         NEW x \in Items, PushResult(x), ~Listed(x), ~Stored(x), outcome[x] = "live",
         UNCHANGED ack,
         \A e \in Items : e # x => SameHands(e) /\ SameRoutes(e),
         HandedOnce(x)', GivenOnce(x)', ~Handed(x)', ~Given(x)',
         \A m \in Loops : loop'[m].seen.message \in {loop[m].seen.message, ack.message, None},
         \A m \in Loops : loop'[m] = loop[m] \/ loop'[m].op # "popped"
  PROVE  WorkInv'
<1>1. CASE Kind[x] # "web"
  <2>1. "transmit" \in Keys \ {"ack", "command"}
    BY DEF Keys, Lists
  <2> QED
    BY <1>1, <2>1, PushWork DEF PushResult
<1>2. CASE Kind[x] = "web"
  <2>0. UNCHANGED queue /\ \A e \in Items : outcome'[e] = IF e = x THEN "answered" ELSE outcome[e]
    BY <1>2 DEF PushResult, Conclude
  <2>1. ASSUME NEW e \in Items PROVE Kept(e)'
    <3>1. SameLists(e) /\ Kept(e) /\ (Stored(e)' <=> Stored(e))
      BY <2>0, ListsSame DEF Stored, WorkInv
    <3>2. CASE e = x
      <4>1. outcome'[e] # "live"
        BY <2>0, <3>2
      <4> QED
        BY <3>1, <3>2, <4>1 DEF Kept, SameLists
    <3>3. CASE e # x
      BY <2>0, <3>1, <3>3, KeptFrame
    <3> QED
      BY <3>2, <3>3
  <2>2. SeenSettled'
    BY <2>0, SeenStep DEF WorkInv, Settled
  <2>3. EntryKinds'
    BY <2>0, KindsStep DEF WorkInv
  <2> QED
    BY <2>1, <2>2, <2>3 DEF WorkInv
<1> QED
  BY <1>1, <1>2

\* What is in the hand of a loop is live and nowhere else.
LEMMA HandAlone ==
  ASSUME WorkInv, NEW l \in Loops, NEW x \in InHand(l)
  PROVE  /\ x \in Items /\ InHand(l) = {x} /\ x = loop[l].item /\ outcome[x] = "live"
         /\ Handed(x) /\ HandedOnce(x) /\ GivenOnce(x)
         /\ ~Listed(x) /\ ~Given(x) /\ ~Stored(x)
  BY DEF InHand, Handed, WorkInv, Kept

\* An entry of a list of items is in the loop's hand.
LEMMA EntryInHand ==
  ASSUME TypeInv, NEW l \in Loops,
         \/ loop[l].op = "popped" /\ loop[l].from # "ack"
         \/ loop[l].op = "incrSeq"
  PROVE  loop[l].item \in InHand(l)
  BY DEF TypeInv, HandOK, InHand

\* A loop that has no item popped and draws no number holds nothing.
LEMMA EmptyHand ==
  ASSUME WorkInv, NEW l \in Loops, ItemsAssumption,
         loop[l].op \notin {"popped", "incrSeq"} \/ Entry(l, "ack")
  PROVE  InHand(l) = {}
  BY DEF WorkInv, EntryKinds, Entry, InHand

\* brpop moves an entry to the hand of the loop.
LEMMA BrpopWork ==
  ASSUME TypeInv, WorkInv, NEW l \in Loops, Brpop(l), ItemsAssumption
  PROVE  WorkInv'
<1>0. QueueOK /\ loop[l] \in LoopState
  BY DEF TypeInv, TypeOK, QueueOK
<1>1. PICK k \in Waiting(l) :
        /\ queue' = [queue EXCEPT ![k] = Tail(@)]
        /\ Become(l, [loop[l] EXCEPT !.op = "popped", !.args = {}, !.from = k,
                        !.item = IF k = "ack" THEN None ELSE Head(queue[k]),
                        !.seq  = IF k = "ack" THEN Head(queue[k]) ELSE 0])
  BY DEF Brpop
<1>2. k \in Keys /\ queue[k] # <<>> /\ UNCHANGED <<ack, route, outcome>> /\ loop[l].op = "brpop"
  <2>1. k \in Keys /\ queue[k] # <<>>
    BY <1>0 DEF Waiting, LoopState
  <2>2. UNCHANGED <<ack, route, outcome>> /\ loop[l].op = "brpop"
    BY DEF Brpop, historyVars
  <2> QED
    BY <2>1, <2>2
<1> DEFINE s0 == [loop[l] EXCEPT !.op = "popped", !.args = {}, !.from = k,
                    !.item = IF k = "ack" THEN None ELSE Head(queue[k]),
                    !.seq  = IF k = "ack" THEN Head(queue[k]) ELSE 0]
<1>b. /\ s0.op = "popped" /\ s0.from = k /\ s0.seen = loop[l].seen
      /\ s0.item = IF k = "ack" THEN None ELSE Head(queue[k])
  BY <1>0 DEF LoopState
<1>3. PICK s : /\ Become(l, s) /\ s.op = "popped" /\ s.from = k /\ s.seen = loop[l].seen
               /\ s.item = IF k = "ack" THEN None ELSE Head(queue[k])
  <2> HIDE DEF s0
  <2>1. Become(l, s0)
    BY <1>1 DEF s0
  <2> QED
    BY <1>b, <2>1
<1>4. loop'[l] = s /\ \A m \in Loops : m # l => loop'[m] = loop[m]
  BY <1>3, NewState
<1>5. InHand(l) = {}
  BY <1>2, EmptyHand
<1>6. SeenSettled'
  <2>1. \A m \in Loops : loop'[m].seen.message \in {loop[m].seen.message, ack.message, None}
    BY <1>3, <1>4
  <2> QED
    BY <1>2, <2>1, SeenStep DEF WorkInv, Settled
<1>7. CASE k = "ack"
  <2>1. \A j \in Keys \ {"ack"} : queue'[j] = queue[j]
    BY <1>0, <1>1, <1>7 DEF QueueOK
  <2>2. InHand(l)' = {}
    BY <1>3, <1>4, <1>7, ItemsAssumption DEF InHand
  <2>3. \A e : SameHands(e)
    <3>1. \A m \in Loops : InHand(m)' = InHand(m)
      BY <1>4, <1>5, <2>2 DEF InHand
    <3> QED
      BY <3>1 DEF SameHands, Handed, HandedOnce
  <2>4. ASSUME NEW e \in Items PROVE Kept(e)'
    BY <1>2, <2>1, <2>3, ListsSame, RoutesSame, KeptFrame DEF WorkInv, Stored
  <2>5. EntryKinds'
    <3>1. queue'["command"] = queue["command"]
      BY <2>1 DEF Keys, Lists
    <3> QED
      BY <1>3, <1>4, <1>7, <3>1 DEF EntryKinds, Entry, WorkInv
  <2> QED
    BY <1>6, <2>4, <2>5 DEF WorkInv
<1>8. CASE k # "ack"
  <2>1. PICK x : x = Head(queue[k])
    OBVIOUS
  <2>2. /\ x \in Items /\ Listed(x) /\ \A e : e # x => SameLists(e)
        /\ ListedOnce(x) => ~Listed(x)'
    BY <1>0, <1>1, <1>2, <1>8, <2>1, PopPlaces
  <2>3. /\ \A e : e # x => SameHands(e)
        /\ Handed(x)'
        /\ ~Handed(x) => HandedOnce(x)'
    <3>1. s.item = x
      BY <1>3, <1>8, <2>1
    <3> QED
      BY <1>3, <1>5, <2>2, <3>1, TakeInHand DEF WorkInv, Kept
  <2>4. ASSUME NEW e \in Items PROVE Kept(e)'
    <3>1. SameRoutes(e) /\ (Stored(e)' <=> Stored(e)) /\ outcome'[e] = outcome[e] /\ Kept(e)
      BY <1>2, RoutesSame DEF Stored, WorkInv
    <3>2. CASE e = x
      <4>1. ~Listed(e)' /\ Handed(e)' /\ HandedOnce(e)' /\ ~Given(e) /\ ~Stored(e)
        BY <2>2, <2>3, <3>1, <3>2 DEF Kept
      <4>2. ListedOnce(e)'
        BY <4>1 DEF Listed, ListedOnce
      <4>3. outcome[e] = "live"
        BY <2>2, <3>1, <3>2 DEF Kept
      <4> QED
        BY <3>1, <4>1, <4>2, <4>3 DEF Kept, SameRoutes
    <3>3. CASE e # x
      BY <2>2, <2>3, <3>1, <3>3, KeptFrame
    <3> QED
      BY <3>2, <3>3
  <2>5. EntryKinds'
    <3>1. "command" \in Keys \ {"ack"}
      BY DEF Keys, Lists
    <3>2. \A i \in 1..Len(queue'["command"]) : IsCommand(queue'["command"][i])
      <4>1. CASE k # "command"
        BY <1>0, <1>1, <3>1, <4>1 DEF QueueOK, WorkInv, EntryKinds
      <4>2. CASE k = "command"
        <5>1. queue["command"] \in Seq(Items) /\ queue'["command"] = Tail(queue["command"])
              /\ queue["command"] # <<>>
          BY <1>0, <1>1, <1>2, <3>1, <4>2 DEF QueueOK
        <5>2. \A i \in 1..Len(queue'["command"]) :
                i + 1 \in 1..Len(queue["command"]) /\ queue'["command"][i] = queue["command"][i + 1]
          BY <5>1
        <5> QED
          BY <5>2 DEF WorkInv, EntryKinds
      <4> QED
        BY <4>1, <4>2
    <3>3. k = "command" => IsCommand(x)
      <4>1. k = "command" => queue["command"] \in Seq(Items) /\ x = Head(queue["command"])
                             /\ queue["command"] # <<>>
        BY <1>0, <1>2, <2>1, <3>1 DEF QueueOK
      <4>2. k = "command" => 1 \in 1..Len(queue["command"]) /\ x = queue["command"][1]
        BY <4>1
      <4> QED
        BY <4>2 DEF WorkInv, EntryKinds
    <3> QED
      BY <1>3, <1>4, <1>8, <2>1, <3>2, <3>3 DEF EntryKinds, Entry, WorkInv
  <2> QED
    BY <1>6, <2>4, <2>5 DEF WorkInv
<1> QED
  BY <1>7, <1>8

\* A command goes from the hand of a loop to the queue of its route.
LEMMA ProcessCommandWork ==
  ASSUME TypeInv, WorkInv, NEW l \in Loops, ProcessCommand(l), ItemsAssumption
  PROVE  WorkInv'
<1>1. /\ loop[l].op = "popped" /\ loop[l].from = "command" /\ ~Unusable(l)
      /\ Push(Target[loop[l].item], loop[l].item) /\ NoteQueueResult(l)
      /\ UNCHANGED <<ack, route, outcome>>
  BY DEF ProcessCommand, Entry, historyVars
<1>2. PICK x : x = loop[l].item /\ x \in InHand(l)
  BY <1>1, EntryInHand
<1>3. /\ x \in Items /\ InHand(l) = {x} /\ outcome[x] = "live" /\ HandedOnce(x)
      /\ GivenOnce(x) /\ ~Listed(x) /\ ~Given(x) /\ ~Stored(x)
  BY <1>2, HandAlone
<1>4. Target[x] \in Keys \ {"ack", "command"}
  <2>1. Kind[x] = "mt"
    BY <1>1, <1>2 DEF WorkInv, EntryKinds, Entry, IsCommand, Unusable
  <2> QED
    BY <1>3, <2>1, ItemsAssumption DEF Keys, Lists
<1>5. \A e : SameRoutes(e)
  BY <1>1, RoutesSame
<1>6. GivenOnce(x)' /\ ~Given(x)'
  BY <1>3, <1>5 DEF SameRoutes
<1> QED
  BY <1>1, <1>2, <1>3, <1>4, <1>5, <1>6, TurnEnds, PushWork

\* A command goes from the hand of a loop to the peripheral, or its result on.
LEMMA ProcessRouteWork ==
  ASSUME TypeInv, WorkInv, NEW l \in Loops, ProcessRoute(l), ItemsAssumption
  PROVE  WorkInv'
<1>0. route \in [Routes -> RouteState]
  BY DEF TypeInv, TypeOK
<1>1. PICK r \in Routes :
        /\ loop[l].op = "popped" /\ loop[l].from = r
        /\ \/ /\ route' = [route EXCEPT ![r].held = @ \cup {loop[l].item}, ![r].busyState = TRUE]
              /\ NoteQueueResult(l) /\ UNCHANGED <<queue, outcome>>
           \/ /\ route' = [route EXCEPT ![r].busyState = FALSE]
              /\ PushResult(loop[l].item) /\ NoteQueueResult(l)
           \/ /\ route' = [route EXCEPT ![r].busyState = TRUE]
              /\ Conclude({loop[l].item}, "lost") /\ Throw(l) /\ UNCHANGED queue
  BY DEF ProcessRoute, Entry
<1>2. UNCHANGED ack /\ r # "ack"
  BY ItemsAssumption DEF ProcessRoute, Lists
<1>3. PICK x : x = loop[l].item /\ x \in InHand(l)
  BY <1>1, <1>2, EntryInHand
<1>4. /\ x \in Items /\ InHand(l) = {x} /\ outcome[x] = "live" /\ Handed(x) /\ HandedOnce(x)
      /\ GivenOnce(x) /\ ~Listed(x) /\ ~Given(x) /\ ~Stored(x)
  BY <1>3, HandAlone
<1>5. /\ \A e : e # x => SameHands(e)
      /\ HandedOnce(x)' /\ ~Handed(x)'
  BY <1>1, <1>4, TurnEnds
<1>6. CASE /\ route' = [route EXCEPT ![r].held = @ \cup {loop[l].item}, ![r].busyState = TRUE]
           /\ NoteQueueResult(l) /\ UNCHANGED <<queue, outcome>>
  <2>1. /\ route'[r].held = route[r].held \cup {x}
        /\ \A q \in Routes : q # r => route'[q].held = route[q].held
    BY <1>0, <1>3, <1>6 DEF RouteState
  <2>2. ASSUME NEW e \in Items PROVE Kept(e)'
    <3>1. SameLists(e) /\ (Stored(e)' <=> Stored(e)) /\ outcome'[e] = outcome[e] /\ Kept(e)
      BY <1>2, <1>6, ListsSame DEF Stored, WorkInv
    <3>2. CASE e = x
      <4>1. Given(e)' /\ GivenOnce(e)'
        BY <1>4, <2>1, <3>2 DEF Given, GivenOnce
      <4> QED
        BY <1>4, <1>5, <3>1, <3>2, <4>1 DEF Kept, SameLists
    <3>3. CASE e # x
      <4>1. SameRoutes(e)
        BY <2>1, <3>3 DEF SameRoutes, Given, GivenOnce
      <4> QED
        BY <1>5, <3>1, <3>3, <4>1, KeptFrame
    <3> QED
      BY <3>2, <3>3
  <2>3. SeenSettled'
    BY <1>2, <1>6, TurnEnds, SeenStep DEF WorkInv, Settled
  <2>4. EntryKinds'
    BY <1>6, TurnEnds, KindsStep DEF WorkInv
  <2> QED
    BY <2>2, <2>3, <2>4 DEF WorkInv
<1>7. CASE /\ route' = [route EXCEPT ![r].busyState = FALSE]
           /\ PushResult(loop[l].item) /\ NoteQueueResult(l)
  <2>1. \A q \in Routes : route'[q].held = route[q].held
    BY <1>0, <1>7 DEF RouteState
  <2>2. \A e : SameRoutes(e)
    BY <2>1, RoutesSame
  <2>3. GivenOnce(x)' /\ ~Given(x)' /\ PushResult(x)
    BY <1>3, <1>4, <1>7, <2>2 DEF SameRoutes
  <2> QED
    BY <1>2, <1>4, <1>5, <1>7, <2>2, <2>3, TurnEnds, PushResultWork
<1>8. CASE /\ route' = [route EXCEPT ![r].busyState = TRUE]
           /\ Conclude({loop[l].item}, "lost") /\ Throw(l) /\ UNCHANGED queue
  <2>0. \A e \in Items : outcome'[e] = IF e = x THEN "lost" ELSE outcome[e]
    BY <1>3, <1>8 DEF Conclude
  <2>1. \A q \in Routes : route'[q].held = route[q].held
    BY <1>0, <1>8 DEF RouteState
  <2>2. ASSUME NEW e \in Items PROVE Kept(e)'
    <3>1. SameLists(e) /\ SameRoutes(e) /\ (Stored(e)' <=> Stored(e)) /\ Kept(e)
      BY <1>2, <1>8, <2>1, ListsSame, RoutesSame DEF Stored, WorkInv
    <3>2. CASE e = x
      BY <1>4, <1>5, <2>0, <3>1, <3>2 DEF Kept, SameLists, SameRoutes
    <3>3. CASE e # x
      BY <1>5, <2>0, <3>1, <3>3, KeptFrame
    <3> QED
      BY <3>2, <3>3
  <2>3. SeenSettled'
    BY <1>2, <1>8, <2>0, TurnEnds, SeenStep DEF WorkInv, Settled
  <2>4. EntryKinds'
    BY <1>8, TurnEnds, KindsStep DEF WorkInv
  <2> QED
    BY <2>2, <2>3, <2>4 DEF WorkInv
<1> QED
  BY <1>1, <1>6, <1>7, <1>8

\* The end of the process loses what the loops and the peripherals hold.
LEMMA ProcessEndsWork ==
  ASSUME TypeInv, WorkInv, ProcessEnds, ItemsAssumption
  PROVE  WorkInv'
<1>0. /\ \A e \in Items : outcome'[e] = IF Handed(e) \/ Given(e) THEN "lost" ELSE outcome[e]
      /\ UNCHANGED <<queue, ack>>
      /\ \A l \in Loops : loop'[l] = Idle
      /\ \A r \in Routes : route'[r].held = {}
  BY DEF ProcessEnds, Conclude, Handed, Given, RouteInit, redisVars, runVars
<1>1. ASSUME NEW e \in Items PROVE Kept(e)'
  <2>1. SameLists(e) /\ (Stored(e)' <=> Stored(e)) /\ Kept(e)
    BY <1>0, ListsSame DEF Stored, WorkInv
  <2>2. ~Handed(e)' /\ HandedOnce(e)' /\ ~Given(e)' /\ GivenOnce(e)'
    BY <1>0 DEF Handed, HandedOnce, InHand, Given, GivenOnce, Idle
  <2> QED
    BY <1>0, <2>1, <2>2 DEF Kept, SameLists
<1>2. SeenSettled'
  <2>1. \A l \in Loops : loop'[l].seen.message = None
    BY <1>0 DEF Idle, NoAck
  <2> QED
    BY <1>0, <2>1, SeenStep DEF WorkInv, Settled
<1>3. EntryKinds'
  <2>1. \A l \in Loops : loop'[l].op = "idle"
    BY <1>0 DEF Idle
  <2> QED
    BY <1>0, <2>1, KindsStep DEF WorkInv
<1> QED
  BY <1>1, <1>2, <1>3 DEF WorkInv

\* A lost client loses what the loops hold.
LEMMA RedisErrorWork ==
  ASSUME TypeInv, WorkInv, RedisError, ItemsAssumption
  PROVE  WorkInv'
<1>0. PICK kept \in SUBSET Loops :
        /\ loop' = [l \in Loops |-> IF l \in kept THEN loop[l] ELSE Idle]
        /\ Conclude(UNION {InHand(l) : l \in Loops \ kept}, "lost")
  BY DEF RedisError
<1>1. UNCHANGED <<queue, ack, route>>
  BY DEF RedisError, redisVars
<1> DEFINE Dropped(e) == \E l \in Loops \ kept : e \in InHand(l)
<1>2. \A e \in Items : outcome'[e] = IF Dropped(e) THEN "lost" ELSE outcome[e]
  BY <1>0 DEF Conclude
<1>3. /\ \A l \in kept : loop'[l] = loop[l] /\ InHand(l)' = InHand(l)
      /\ \A l \in Loops \ kept : loop'[l] = Idle /\ InHand(l)' = {}
  BY <1>0 DEF InHand, Idle
<1>4. ASSUME NEW e \in Items PROVE Kept(e)'
  <2>1. SameLists(e) /\ SameRoutes(e) /\ (Stored(e)' <=> Stored(e)) /\ Kept(e)
    BY <1>1, ListsSame, RoutesSame DEF Stored, WorkInv
  <2>2. CASE Dropped(e)
    <3>1. PICK l \in Loops \ kept : e \in InHand(l)
      BY <2>2
    <3>2. Handed(e) /\ \A m \in kept : e \notin InHand(m)
      BY <2>1, <3>1 DEF Kept, Handed, HandedOnce
    <3>3. ~Handed(e)' /\ HandedOnce(e)'
      BY <1>3, <3>2 DEF Handed, HandedOnce
    <3> QED
      BY <1>2, <2>1, <2>2, <3>2, <3>3 DEF Kept, SameLists, SameRoutes
  <2>3. CASE ~Dropped(e)
    <3>1. \A l \in Loops : e \in InHand(l)' <=> e \in InHand(l)
      BY <1>3, <2>3
    <3>2. SameHands(e)
      BY <3>1 DEF SameHands, Handed, HandedOnce
    <3> QED
      BY <1>2, <2>1, <2>3, <3>2, KeptFrame
  <2> QED
    BY <2>2, <2>3
<1>5. \A l \in Loops : loop'[l] = loop[l] \/ (loop'[l].op = "idle" /\ loop'[l].seen.message = None)
  BY <1>3 DEF Idle, NoAck
<1>6. SeenSettled'
  BY <1>1, <1>2, <1>5, SeenStep DEF WorkInv, Settled
<1>7. EntryKinds'
  BY <1>1, <1>5, KindsStep DEF WorkInv
<1> QED
  BY <1>4, <1>6, <1>7 DEF WorkInv

\* Each step of a check loop moves or ends the item in its hand, and no other.
LEMMA LoopStepWork ==
  ASSUME TypeInv, WorkInv, NEW l \in Loops, LoopStep(l), ItemsAssumption
  PROVE  WorkInv'
<1> USE DEF redisVars, runVars, historyVars
<1>0. loop[l] \in LoopState
  BY DEF TypeInv, TypeOK
<1>1. CASE CheckQueue(l)
  <2>1. loop[l].op = "check" /\ UNCHANGED <<queue, ack>>
    BY <1>1 DEF CheckQueue
  <2>2. InHand(l) = {}
    BY <2>1, EmptyHand
  <2>3. CASE Become(l, Idle) /\ UNCHANGED <<route, outcome>>
    <3>1. Idle.op = "idle" /\ Idle.seen.message = None
      BY DEF Idle, NoAck
    <3> QED
      BY <2>1, <2>2, <2>3, <3>1, QuietWork
  <2>4. CASE /\ Become(l, [Checking EXCEPT !.op = "mget", !.seen = ack])
             /\ UNCHANGED <<route, outcome>>
    <3> DEFINE s == [Checking EXCEPT !.op = "mget", !.seen = ack]
    <3>1. s.op = "mget" /\ s.seen.message = ack.message
      BY DEF Checking, Idle
    <3> QED
      BY <2>1, <2>2, <2>4, <3>1, QuietWork
  <2> QED
    BY <1>1, <2>3, <2>4, ProcessEndsWork DEF CheckQueue
<1>2. CASE GetAckState(l)
  <2> DEFINE s == [loop[l] EXCEPT !.op = "brpop", !.args = SetQueueArgs(loop[l].seen)]
  <2>1. s.op = "brpop" /\ s.seen = loop[l].seen
    BY <1>0 DEF LoopState
  <2>2. loop[l].op = "mget" /\ Become(l, s) /\ UNCHANGED <<queue, ack, route, outcome>>
    BY <1>2 DEF GetAckState
  <2>3. InHand(l) = {}
    BY <2>2, EmptyHand
  <2> QED
    BY <2>1, <2>2, <2>3, QuietWork
<1>3. CASE NoteIdle(l) \/ IncrTicks(l) \/ Retransmit(l) \/ IgnoreAck(l) \/ Transmit(l)
  <2>1. UNCHANGED <<queue, route, outcome>> /\ ack'.message = ack.message
    BY <1>3 DEF NoteIdle, IncrTicks, Retransmit, IgnoreAck, Transmit, TypeInv, TypeOK, AckState
  <2>2. InHand(l) = {}
    BY <1>3, EmptyHand DEF NoteIdle, IncrTicks, Retransmit, IgnoreAck, Transmit, PendingMessage,
                           TimedOut
  <2>3. Become(l, Checking)
    BY <1>3 DEF NoteIdle, IncrTicks, Retransmit, IgnoreAck, Transmit, NoteQueueResult
  <2>4. Checking.op = "check" /\ Checking.seen.message = None
    BY DEF Checking, Idle, NoAck
  <2> QED
    BY <2>1, <2>2, <2>3, <2>4, QuietWork
<1>4. CASE IncrRetries(l)
  <2> DEFINE s == [loop[l] EXCEPT !.op = "incrRetries", !.args = {}]
  <2>1. s.op = "incrRetries" /\ s.seen = loop[l].seen
    BY <1>0 DEF LoopState
  <2>2. Become(l, s) /\ UNCHANGED <<queue, route, outcome>> /\ ack'.message = ack.message
    BY <1>4 DEF IncrRetries, TypeInv, TypeOK, AckState
  <2>3. InHand(l) = {}
    BY <1>4, EmptyHand DEF IncrRetries, PendingMessage, TimedOut
  <2> QED
    BY <2>1, <2>2, <2>3, QuietWork
<1>5. CASE TooManyRetries(l)
  <2>1. /\ loop[l].op = "brpop" /\ loop[l].seen.message # None /\ DelAckState(l, "failed")
        /\ NoteQueueResult(l) /\ UNCHANGED <<queue, route>>
    BY <1>5 DEF TooManyRetries, PendingMessage, TimedOut
  <2>2. InHand(l) = {}
    BY <2>1, EmptyHand
  <2> QED
    BY <2>1, <2>2, DelAckStateWork DEF Outcomes
<1>6. CASE ProcessAck(l)
  <2>1. /\ Entry(l, "ack") /\ loop[l].seen.message # None /\ DelAckState(l, "acked")
        /\ NoteQueueResult(l) /\ UNCHANGED <<queue, route>>
    BY <1>6 DEF ProcessAck, MatchingAck
  <2>2. InHand(l) = {}
    BY <2>1, EmptyHand
  <2> QED
    BY <2>1, <2>2, DelAckStateWork DEF Outcomes
<1>7. CASE DropEntry(l)
  BY <1>7, DropWork DEF DropEntry, Outcomes
<1>8. CASE ThrowWithoutClient(l)
  BY <1>8, DropWork DEF ThrowWithoutClient, Outcomes
<1>9. CASE ProcessTransmit(l)
  <2>1. /\ loop[l].op = "popped" /\ loop[l].from = "transmit" /\ UNCHANGED <<queue, route>>
    BY <1>9 DEF ProcessTransmit, Entry
  <2>2. PICK x : x = loop[l].item /\ x \in InHand(l)
    BY <2>1, EntryInHand
  <2>3. x \in Items /\ InHand(l) = {x} /\ HandedOnce(x)
    BY <2>2, HandAlone
  <2>4. CASE AssembleMessage(l, loop[l].item, OwnSeq[loop[l].item])
    BY <2>1, <2>2, <2>3, <2>4, AssembleMessageWork
  <2>5. CASE /\ Become(l, [Idle EXCEPT !.op = "incrSeq", !.item = loop[l].item,
                                       !.seq = (lastSeq % SeqMod) + 1])
             /\ UNCHANGED <<ack, outcome>>
    <3> DEFINE s == [Idle EXCEPT !.op = "incrSeq", !.item = loop[l].item,
                                 !.seq = (lastSeq % SeqMod) + 1]
    <3>1. s.op = "incrSeq" /\ s.item = x /\ s.seen.message = None
      BY <2>2 DEF Idle, NoAck
    <3> HIDE DEF s
    <3>2. Become(l, s)
      BY <2>5 DEF s
    <3>3. \A e : SameHands(e)
      <4>1. (\A e : e # x => SameHands(e)) /\ Handed(x)' /\ HandedOnce(x)'
        BY <2>2, <2>3, <3>1, <3>2, TakeInHand
      <4> QED
        BY <2>2, <4>1 DEF SameHands, Handed
    <3>4. ASSUME NEW e \in Items PROVE Kept(e)'
      BY <2>1, <2>5, <3>3, ListsSame, RoutesSame, KeptFrame DEF WorkInv, Stored
    <3>5. loop'[l] = s /\ \A m \in Loops : m # l => loop'[m] = loop[m]
      BY <3>2, NewState
    <3>6. SeenSettled'
      <4>1. \A m \in Loops : loop'[m].seen.message \in {loop[m].seen.message, ack.message, None}
        BY <3>1, <3>5
      <4> QED
        BY <2>5, <4>1, SeenStep DEF WorkInv, Settled
    <3>7. EntryKinds'
      <4>1. \A m \in Loops : loop'[m] = loop[m] \/ loop'[m].op # "popped"
        BY <3>1, <3>5
      <4> QED
        BY <2>1, <4>1, KindsStep DEF WorkInv
    <3> QED
      BY <3>4, <3>6, <3>7 DEF WorkInv
  <2> QED
    BY <1>9, <2>4, <2>5 DEF ProcessTransmit
<1>10. CASE GenerateMessage(l)
  <2>1. loop[l].op = "incrSeq" /\ UNCHANGED <<queue, route>>
    BY <1>10 DEF GenerateMessage
  <2>2. PICK x : x = loop[l].item /\ x \in InHand(l)
    BY <2>1, EntryInHand
  <2>3. x \in Items /\ InHand(l) = {x}
    BY <2>2, HandAlone
  <2> QED
    BY <1>10, <2>1, <2>2, <2>3, AssembleMessageWork DEF GenerateMessage
<1> QED
  BY <1>1, <1>2, <1>3, <1>4, <1>5, <1>6, <1>7, <1>8, <1>9, <1>10, BrpopWork, ProcessCommandWork,
     ProcessRouteWork DEF LoopStep

\* So does the answer of a peripheral,
LEMMA AnswerWork ==
  ASSUME TypeInv, WorkInv, NEW r \in Routes, NEW x \in Items, Answer(r, x), ItemsAssumption
  PROVE  WorkInv'
<1>0. /\ x \in route[r].held /\ PushResult(x) /\ UNCHANGED <<ack, loop>>
      /\ route' = [route EXCEPT ![r].held = @ \ {x}, ![r].busyState = FALSE]
      /\ route \in [Routes -> RouteState]
  BY DEF Answer, TypeInv, TypeOK
<1>1. /\ route'[r].held = route[r].held \ {x}
      /\ \A q \in Routes : q # r => route'[q].held = route[q].held
  BY <1>0 DEF RouteState
<1>2. /\ outcome[x] = "live" /\ ~Listed(x) /\ ~Handed(x) /\ ~Stored(x) /\ HandedOnce(x) /\ GivenOnce(x)
  BY <1>0 DEF WorkInv, Kept, Given
<1>3. \A e : e # x => SameRoutes(e)
  BY <1>1 DEF SameRoutes, Given, GivenOnce
<1>4. ~Given(x)' /\ GivenOnce(x)'
  BY <1>0, <1>1, <1>2 DEF Given, GivenOnce
<1>5. \A e : SameHands(e)
  BY <1>0, HandsSame
<1>6. ~Handed(x)' /\ HandedOnce(x)'
  BY <1>2, <1>5 DEF SameHands
<1> QED
  BY <1>0, <1>2, <1>3, <1>4, <1>5, <1>6, PushResultWork

\* what becomes of a route,
LEMMA RouteStepWork ==
  ASSUME TypeInv, WorkInv, NEW r \in Routes, RouteStep(r), ItemsAssumption
  PROVE  WorkInv'
<1>0. UNCHANGED <<queue, ack, loop>> /\ route \in [Routes -> RouteState]
  BY DEF RouteStep, redisVars, runVars, TypeInv, TypeOK
<1>1. CASE (RouteOpen(r) \/ RouteReady(r) \/ RouteError(r)) /\ UNCHANGED outcome
  <2>1. \A q \in Routes : route'[q].held = route[q].held
    BY <1>0, <1>1 DEF RouteOpen, RouteReady, RouteError, RouteState
  <2>2. ASSUME NEW e \in Items PROVE Kept(e)'
    BY <1>0, <1>1, <2>1, ListsSame, HandsSame, RoutesSame, KeptFrame DEF WorkInv, Stored
  <2>3. SeenSettled'
    BY <1>0, <1>1, SeenStep DEF WorkInv, Settled
  <2>4. EntryKinds'
    BY <1>0, KindsStep DEF WorkInv
  <2> QED
    BY <2>2, <2>3, <2>4 DEF WorkInv
<1>2. CASE RouteReset(r)
  <2>1. PICK keep \in SUBSET route[r].held :
          /\ route' = [route EXCEPT ![r] = [RouteInit EXCEPT !.held = keep]]
          /\ Conclude(route[r].held \ keep, "lost")
    BY <1>2 DEF RouteReset
  <2>2. /\ route'[r].held = keep
        /\ \A q \in Routes : q # r => route'[q].held = route[q].held
    BY <1>0, <2>1 DEF RouteInit
  <2>3. \A e \in Items : outcome'[e] = IF e \in route[r].held \ keep THEN "lost" ELSE outcome[e]
    BY <2>1 DEF Conclude
  <2>4. ASSUME NEW e \in Items PROVE Kept(e)'
    <3>1. SameLists(e) /\ SameHands(e) /\ (Stored(e)' <=> Stored(e)) /\ Kept(e)
      BY <1>0, ListsSame, HandsSame DEF Stored, WorkInv
    <3>2. CASE e \in route[r].held \ keep
      <4>1. Given(e) /\ ~Given(e)' /\ GivenOnce(e)'
        BY <2>2, <3>1, <3>2 DEF Kept, Given, GivenOnce
      <4> QED
        BY <2>3, <3>1, <3>2, <4>1 DEF Kept, SameLists, SameHands
    <3>3. CASE e \notin route[r].held \ keep
      <4>1. SameRoutes(e)
        BY <2>1, <2>2, <3>3 DEF SameRoutes, Given, GivenOnce
      <4> QED
        BY <2>3, <3>1, <3>3, <4>1, KeptFrame
    <3> QED
      BY <3>2, <3>3
  <2>5. SeenSettled'
    BY <1>0, <2>3, SeenStep DEF WorkInv, Settled
  <2>6. EntryKinds'
    BY <1>0, KindsStep DEF WorkInv
  <2> QED
    BY <2>4, <2>5, <2>6 DEF WorkInv
<1> QED
  BY <1>1, <1>2 DEF RouteStep

\* and the arrival of work.
LEMMA SubmitWork ==
  ASSUME TypeInv, WorkInv, NEW x \in Items, Submit(x), ItemsAssumption
  PROVE  WorkInv'
<1>0. /\ outcome[x] = "new" /\ Push(EntryList(x), x) /\ UNCHANGED <<ack, loop, route>>
      /\ \A e \in Items : outcome'[e] = IF e = x THEN "live" ELSE outcome[e]
      /\ QueueOK
  BY DEF Submit, Conclude, TypeInv, TypeOK, QueueOK
<1>1. EntryList(x) \in Keys \ {"ack"} /\ (EntryList(x) = "command" => IsCommand(x))
  <2>1. Kind[x] \in Kinds
    BY ItemsAssumption
  <2>2. CASE Kind[x] \in {"mo", "malformed"}
    BY <2>2 DEF EntryList, Keys, Lists
  <2>3. CASE Kind[x] \in {"mt", "unroutable"}
    BY <2>3 DEF EntryList, Keys, Lists, IsCommand
  <2>4. CASE Kind[x] \in {"schedule", "web", "invalid"}
    <3>1. EntryList(x) = Target[x] /\ Target[x] \in Routes /\ Target[x] \notin Lists
      BY <2>4, ItemsAssumption DEF EntryList
    <3> QED
      BY <3>1 DEF Keys, Lists
  <2> QED
    BY <2>1, <2>2, <2>3, <2>4 DEF Kinds
<1>2. ASSUME NEW e \in Items PROVE Kept(e)'
  <2>1. SameHands(e) /\ SameRoutes(e) /\ (Stored(e)' <=> Stored(e)) /\ Kept(e)
    BY <1>0, HandsSame, RoutesSame DEF Stored, WorkInv
  <2>2. CASE e = x
    <3>1. ~Listed(e) /\ ~Handed(e) /\ ~Given(e) /\ ~Stored(e)
      BY <1>0, <2>1, <2>2 DEF Kept
    <3>2. Listed(e)' /\ ListedOnce(e)'
      BY <1>0, <1>1, <2>2, <3>1, PushPlaces
    <3> QED
      BY <1>0, <2>1, <2>2, <3>1, <3>2 DEF Kept, SameHands, SameRoutes
  <2>3. CASE e # x
    <3>1. SameLists(e)
      BY <1>0, <1>1, <2>3, PushPlaces
    <3> QED
      BY <1>0, <2>1, <2>3, <3>1, KeptFrame
  <2> QED
    BY <2>2, <2>3
<1>3. SeenSettled'
  BY <1>0, SeenStep DEF WorkInv, Settled
<1>4. EntryKinds'
  <2>1. \A i \in 1..Len(queue'["command"]) : IsCommand(queue'["command"][i])
    BY <1>0, <1>1, PushKinds DEF WorkInv
  <2> QED
    BY <1>0, <2>1 DEF EntryKinds, Entry, WorkInv
<1> QED
  BY <1>2, <1>3, <1>4 DEF WorkInv

\* No step loses or duplicates work.
LEMMA NextWork ==
  ASSUME TypeInv, WorkInv, [Next]_vars, ItemsAssumption
  PROVE  WorkInv'
<1> USE DEF vars, redisVars, runVars, historyVars
<1>1. CASE Start
  <2>1. PICK l \in Loops : loop[l].op = "idle" /\ NoteQueueResult(l)
    BY <1>1 DEF Start
  <2>2. Become(l, Checking) /\ InHand(l) = {}
    BY <2>1, EmptyHand DEF NoteQueueResult
  <2>3. Checking.op = "check" /\ Checking.seen.message = None
    BY DEF Checking, Idle, NoAck
  <2>4. UNCHANGED <<queue, ack, route, outcome>>
    BY <1>1 DEF Start
  <2> QED
    BY <2>2, <2>3, <2>4, QuietWork
<1>2. CASE RedisError
  BY <1>2, RedisErrorWork
<1>3. CASE Crash
  BY <1>3, ProcessEndsWork DEF Crash
<1>4. CASE \E l \in Loops : LoopStep(l)
  BY <1>4, LoopStepWork
<1>5. CASE \E r \in Routes : RouteStep(r) \/ \E e \in Items : Answer(r, e)
  BY <1>5, RouteStepWork, AnswerWork
<1>6. CASE \E e \in Items : Submit(e)
  BY <1>6, SubmitWork
<1>7. CASE Stop \/ (\E e \in Items : GatewayAck(e)) \/ UNCHANGED vars
  <2>1. UNCHANGED <<ack, loop, route, outcome>>
    BY <1>7 DEF Stop, GatewayAck
  <2>2. \A k \in Keys \ {"ack"} : queue'[k] = queue[k]
    BY <1>7 DEF Stop, GatewayAck, Push, TypeInv, TypeOK
  <2>3. ASSUME NEW e \in Items PROVE Kept(e)'
    BY <2>1, <2>2, ListsSame, HandsSame, RoutesSame, KeptFrame DEF WorkInv, Stored
  <2>4. SeenSettled'
    BY <2>1, SeenStep DEF WorkInv, Settled
  <2>5. EntryKinds'
    <3>1. queue'["command"] = queue["command"]
      BY <2>2 DEF Keys, Lists
    <3> QED
      BY <2>1, <3>1, KindsStep DEF WorkInv
  <2> QED
    BY <2>3, <2>4, <2>5 DEF WorkInv
<1> QED
  BY <1>1, <1>2, <1>3, <1>4, <1>5, <1>6, <1>7 DEF Next

\* At first there is no work.
LEMMA InitWork ==
  ASSUME Init, ItemsAssumption
  PROVE  WorkInv
<1>1. /\ \A k \in Keys : queue[k] = <<>>
      /\ \A l \in Loops : loop[l].op = "idle" /\ loop[l].seen.message = None
      /\ \A r \in Routes : route[r].held = {}
      /\ ack.message = None
      /\ \A e \in Items : outcome[e] = "new" /\ e # None
  BY ItemsAssumption DEF Init, Idle, NoAck, RouteInit
<1>2. Len(<<>>) = 0 /\ 1..0 = {} /\ "command" \in Keys
  BY DEF Keys, Lists
<1>3. ASSUME NEW e \in Items PROVE Kept(e)
  <2>1. ~Listed(e) /\ ListedOnce(e)
    BY <1>1, <1>2 DEF Listed, ListedOnce, ListedAt
  <2>2. ~Handed(e) /\ HandedOnce(e)
    BY <1>1 DEF Handed, HandedOnce, InHand
  <2>3. ~Given(e) /\ GivenOnce(e) /\ ~Stored(e) /\ outcome[e] # "live"
    BY <1>1 DEF Given, GivenOnce, Stored
  <2> QED
    BY <2>1, <2>2, <2>3 DEF Kept
<1>4. SeenSettled
  BY <1>1 DEF SeenSettled
<1>5. EntryKinds
  BY <1>1, <1>2 DEF EntryKinds, Entry
<1> QED
  BY <1>3, <1>4, <1>5 DEF WorkInv

\* An item that is kept has one place while it is live, and none otherwise.
LEMMA KeptPlaces ==
  ASSUME NEW e \in Items, Kept(e)
  PROVE  Cardinality(Places(e)) = (IF outcome[e] = "live" THEN 1 ELSE 0)
<1> DEFINE L == UNION {{<<k, i>> : i \in {j \in 1..Len(queue[k]) : queue[k][j] = e}} : k \in Keys \ {"ack"}}
           H == {<<"hand", l>> : l \in {m \in Loops : e \in InHand(m)}}
           G == {<<"held", r>> : r \in {q \in Routes : e \in route[q].held}}
           A == {<<"ack", 0>> : x \in {ack.message} \cap {e}}
<1>1. Places(e) = L \cup H \cup G \cup A
  BY DEF Places
<1>2. /\ ~Listed(e) => L = {}
      /\ ListedOnce(e) /\ Listed(e) => \E p : L = {p}
  <2>1. \A p : p \in L <=> \E k, i : ListedAt(e, k, i) /\ p = <<k, i>>
    <3>1. ASSUME NEW p, p \in L PROVE \E k, i : ListedAt(e, k, i) /\ p = <<k, i>>
      <4>1. PICK k \in Keys \ {"ack"} :
              p \in {<<k, i>> : i \in {j \in 1..Len(queue[k]) : queue[k][j] = e}}
        BY <3>1
      <4> QED
        BY <4>1 DEF ListedAt
    <3>2. ASSUME NEW k, NEW i, ListedAt(e, k, i) PROVE <<k, i>> \in L
      <4>1. k \in Keys \ {"ack"} /\ i \in {j \in 1..Len(queue[k]) : queue[k][j] = e}
        BY <3>2 DEF ListedAt
      <4>2. <<k, i>> \in {<<k, j>> : j \in {j \in 1..Len(queue[k]) : queue[k][j] = e}}
        BY <4>1
      <4> QED
        BY <4>1, <4>2
    <3> QED
      BY <3>1, <3>2
  <2> HIDE DEF L
  <2>2. ASSUME ListedOnce(e), Listed(e) PROVE \E p : L = {p}
    <3>1. PICK k, i : ListedAt(e, k, i)
      BY <2>2 DEF Listed
    <3>2. \A p : p \in L <=> p = <<k, i>>
      BY <2>1, <2>2, <3>1 DEF ListedOnce
    <3>3. L = {<<k, i>>}
      BY <3>2
    <3> QED
      BY <3>3
  <2> QED
    BY <2>1, <2>2 DEF Listed
<1>3. /\ ~Handed(e) => H = {}
      /\ HandedOnce(e) /\ Handed(e) => \E p : H = {p}
  <2>1. ASSUME HandedOnce(e), Handed(e) PROVE \E p : H = {p}
    <3>1. PICK l \in Loops : e \in InHand(l)
      BY <2>1 DEF Handed
    <3>2. {m \in Loops : e \in InHand(m)} = {l}
      BY <2>1, <3>1 DEF HandedOnce
    <3>3. H = {<<"hand", l>>}
      BY <3>2
    <3> QED
      BY <3>3
  <2> QED
    BY <2>1 DEF Handed
<1>4. /\ ~Given(e) => G = {}
      /\ GivenOnce(e) /\ Given(e) => \E p : G = {p}
  <2>1. ASSUME GivenOnce(e), Given(e) PROVE \E p : G = {p}
    <3>1. PICK r \in Routes : e \in route[r].held
      BY <2>1 DEF Given
    <3>2. {q \in Routes : e \in route[q].held} = {r}
      BY <2>1, <3>1 DEF GivenOnce
    <3>3. G = {<<"held", r>>}
      BY <3>2
    <3> QED
      BY <3>3
  <2> QED
    BY <2>1 DEF Given
<1>5. /\ ~Stored(e) => A = {}
      /\ Stored(e) => \E p : A = {p}
  <2>1. ASSUME Stored(e) PROVE A = {<<"ack", 0>>}
    BY <2>1 DEF Stored
  <2> QED
    BY <2>1 DEF Stored
<1> HIDE DEF L, H, G, A
<1>6. CASE outcome[e] # "live"
  <2>1. Places(e) = {}
    BY <1>1, <1>2, <1>3, <1>4, <1>5, <1>6 DEF Kept
  <2> QED
    BY <1>6, <2>1, FS_EmptySet
<1>7. CASE outcome[e] = "live"
  <2>1. \E p : Places(e) = {p}
    <3>1. CASE Listed(e)
      <4>1. H = {} /\ G = {} /\ A = {} /\ \E p : L = {p}
        BY <1>2, <1>3, <1>4, <1>5, <3>1 DEF Kept
      <4> QED
        BY <1>1, <4>1
    <3>2. CASE Handed(e)
      <4>1. L = {} /\ G = {} /\ A = {} /\ \E p : H = {p}
        BY <1>2, <1>3, <1>4, <1>5, <3>2 DEF Kept
      <4> QED
        BY <1>1, <4>1
    <3>3. CASE Given(e)
      <4>1. L = {} /\ H = {} /\ A = {} /\ \E p : G = {p}
        BY <1>2, <1>3, <1>4, <1>5, <3>3 DEF Kept
      <4> QED
        BY <1>1, <4>1
    <3>4. CASE Stored(e)
      <4>1. L = {} /\ H = {} /\ G = {} /\ \E p : A = {p}
        BY <1>2, <1>3, <1>4, <1>5, <3>4 DEF Kept
      <4> QED
        BY <1>1, <4>1
    <3> QED
      BY <1>7, <3>1, <3>2, <3>3, <3>4 DEF Kept
  <2> QED
    BY <1>7, <2>1, FS_Singleton
<1> QED
  BY <1>6, <1>7

\* Whatever stops, crashes, lost connections, resets and overlapping loops happen, an
\* accepted item that has not ended is in exactly one list, hand, peripheral or ack
\* state, and every other item in none.
THEOREM ConservationHolds == Spec => []Conservation
<1>1. Init => TypeInv /\ WorkInv
  BY InitType, InitWork, ItemsAssumption
<1>2. TypeInv /\ WorkInv /\ [Next]_vars => (TypeInv /\ WorkInv)'
  BY NextType, NextWork, ItemsAssumption, BoundsAssumption
<1>3. WorkInv => Conservation
  BY KeptPlaces DEF WorkInv, Conservation
<1> QED
  BY <1>1, <1>2, <1>3, PTL DEF Spec

-----------------------------------------------------------------------------
(* Without faults nothing is lost *)

\* Without a fault a loop works only while the router is started on a live client.
Smooth ==
  /\ router \in {"stopped", "running"}
  /\ router = "stopped" => \A l \in Loops : loop[l].op = "idle"
  /\ \A e \in Items : outcome[e] # "lost"

\* A step of a loop loses nothing: the message it deletes is the one it has seen, none is
\* overwritten, the client is there, and so is the reader of a route it polled.
LEMMA LoopStepSmooth ==
  ASSUME TypeInv, LoopInv, RoutesPolled, Smooth, NEW l \in Loops, LoopStep(l), ItemsAssumption
  PROVE  Smooth'
<1> USE DEF redisVars, runVars, historyVars
<1>0. router = "running" /\ loop[l].op # "idle"
  BY LoopStepBusy DEF Smooth
<1>d. ASSUME NEW how \in Outcomes \ {"lost"}, DelAckState(l, how), loop[l].seen = ack
      PROVE  \A e \in Items : outcome'[e] # "lost"
  BY <1>d DEF DelAckState, Smooth
<1>a. ASSUME NEW e, NEW n, AssembleMessage(l, e, n), ack.message = None
      PROVE  \A x \in Items : outcome'[x] # "lost"
  BY <1>a, ItemsAssumption DEF AssembleMessage, Conclude, Smooth
<1>p. ASSUME NEW e, PushResult(e)
      PROVE  \A x \in Items : outcome'[x] # "lost"
  BY <1>p DEF PushResult, Conclude, Smooth
<1>1. CASE TooManyRetries(l)
  <2>1. DelAckState(l, "failed") /\ loop[l].seen = ack
    BY <1>1 DEF TooManyRetries, PendingMessage, TimedOut, LoopInv, SeenFresh
  <2> QED
    BY <1>0, <1>1, <1>d, <2>1 DEF TooManyRetries, Outcomes, Smooth
<1>2. CASE ProcessAck(l)
  <2>1. DelAckState(l, "acked") /\ loop[l].seen = ack
    BY <1>2 DEF ProcessAck, Entry, LoopInv, SeenFresh
  <2> QED
    BY <1>0, <1>2, <1>d, <2>1 DEF ProcessAck, Outcomes, Smooth
<1>3. CASE ProcessTransmit(l)
  <2>1. ack.message = None
    BY <1>3 DEF ProcessTransmit, LoopInv, HandFree
  <2>2. \A x \in Items : outcome'[x] # "lost"
    BY <1>3, <1>a, <2>1 DEF ProcessTransmit, Smooth
  <2> QED
    BY <1>0, <1>3, <2>2 DEF ProcessTransmit, Smooth
<1>4. CASE GenerateMessage(l)
  <2>1. ack.message = None
    BY <1>4 DEF GenerateMessage, LoopInv, HandFree
  <2> QED
    BY <1>0, <1>4, <1>a, <2>1 DEF GenerateMessage, Smooth
<1>5. CASE ProcessRoute(l)
  <2>1. PICK r \in Routes :
          /\ Entry(l, r)
          /\ \/ UNCHANGED outcome
             \/ PushResult(loop[l].item)
             \/ route[r].reader = "none"
    BY <1>5 DEF ProcessRoute
  <2>2. route[r].reader # "none"
    BY <2>1 DEF RoutesPolled
  <2> QED
    BY <1>0, <1>5, <1>p, <2>1, <2>2 DEF ProcessRoute, Smooth
<1>6. CASE DropEntry(l)
  BY <1>0, <1>6 DEF DropEntry, Conclude, Smooth
<1>7. CASE CheckQueue(l)
  BY <1>0, <1>7 DEF CheckQueue, Smooth
<1>8. CASE ThrowWithoutClient(l)
  BY <1>0, <1>8 DEF ThrowWithoutClient
<1>9. CASE \/ GetAckState(l) \/ Brpop(l) \/ NoteIdle(l) \/ IncrTicks(l) \/ IncrRetries(l)
           \/ Retransmit(l) \/ IgnoreAck(l) \/ ProcessCommand(l) \/ Transmit(l)
  <2>1. UNCHANGED <<router, outcome>>
    BY <1>9 DEF GetAckState, Brpop, NoteIdle, IncrTicks, IncrRetries, Retransmit, IgnoreAck,
                ProcessCommand, Transmit
  <2> QED
    BY <1>0, <2>1 DEF Smooth
<1> QED
  BY <1>1, <1>2, <1>3, <1>4, <1>5, <1>6, <1>7, <1>8, <1>9 DEF LoopStep

\* Neither does any other step, without a fault.
LEMMA NextSmooth ==
  ASSUME faults = {}, TypeInv, LoopInv, RoutesPolled, Smooth, [Next]_vars, ItemsAssumption
  PROVE  Smooth'
<1> USE DEF vars, redisVars, runVars, historyVars
<1>1. CASE Start
  BY <1>1 DEF Start, Smooth
<1>2. CASE Stop \/ RedisError \/ Crash
  BY <1>2 DEF Stop, RedisError, Crash
<1>3. CASE \E l \in Loops : LoopStep(l)
  BY <1>3, LoopStepSmooth
<1>4. ASSUME NEW r \in Routes, RouteStep(r) PROVE Smooth'
  BY <1>4 DEF RouteStep, RouteReset, Smooth
<1>5. ASSUME NEW r \in Routes, NEW e \in Items, Answer(r, e) PROVE Smooth'
  BY <1>5 DEF Answer, PushResult, Conclude, Smooth
<1>6. ASSUME NEW e \in Items, Submit(e) \/ GatewayAck(e) PROVE Smooth'
  BY <1>6 DEF Submit, GatewayAck, Conclude, Smooth
<1>7. CASE UNCHANGED vars
  BY <1>7 DEF Smooth
<1> QED
  BY <1>1, <1>2, <1>3, <1>4, <1>5, <1>6, <1>7 DEF Next

\* Without a fault no accepted item is lost, whatever the gateway, the peripherals and the
\* producers of work do, and in whatever order.
THEOREM NothingLostHolds == Spec => []NothingLost
<1> DEFINE IInv == TypeInv /\ AloneInv /\ NoRestart /\ AliveInv /\ (faults = {} => Smooth)
<1>1. Init => IInv
  <2>1. Init => Smooth
    BY InitLoop DEF Init, Smooth
  <2> QED
    BY <2>1, InitType, InitLoop, InitAlive DEF Init, AliveInv, NoRestart
<1>2. IInv /\ [Next]_vars => IInv'
  <2> SUFFICES ASSUME IInv, [Next]_vars PROVE IInv'
    OBVIOUS
  <2>1. TypeInv' /\ AloneInv' /\ NoRestart'
    BY NextType, NextAlone, NextNoRestart, ItemsAssumption, BoundsAssumption
  <2>2. AliveInv'
    BY RunStays, NextAlive, ItemsAssumption DEF AliveInv
  <2>3. faults = {} => LoopInv
    BY DEF AloneInv, NoRestart
  <2>4. (faults = {} => Smooth)'
    BY <2>3, RunStays, NextSmooth, ItemsAssumption DEF AliveInv
  <2> QED
    BY <2>1, <2>2, <2>4
<1>3. IInv => NothingLost
  BY DEF NothingLost, Smooth
<1> QED
  BY <1>1, <1>2, <1>3, PTL DEF Spec

-----------------------------------------------------------------------------
(* The attempts of a report *)

\* A loop that is about to send: the reply of the command it stored or counted with is
\* on its way.
Sending == {"mset", "incrRetries"}

\* What was sent of a report is covered by the counter in Redis, and nothing is sent of
\* a report before it is there.
AttemptInv ==
  /\ \A e \in Items : Len(sent[e]) <= maxRetries + 1
  /\ \A e \in Items : outcome[e] \in {"new", "live"} /\ e # ack.message => sent[e] = <<>>
  /\ \A e \in Items : e = ack.message => ack.retries <= maxRetries /\ Len(sent[e]) <= ack.retries + 1
  /\ \A l \in Loops :
       /\ loop[l].op = "mset" => /\ loop[l].item = ack.message /\ ack.retries = 0
                                 /\ sent[loop[l].item] = <<>>
       /\ loop[l].op = "incrRetries" => /\ loop[l].seen.message = ack.message
                                        /\ ack.retries = loop[l].seen.retries + 1
                                        /\ Len(sent[loop[l].seen.message]) <= ack.retries

\* Without faults the counter is exact, and so is the relay of each attempt.
ExactInv ==
  /\ \A e \in Items : outcome[e] = "failed" => Len(sent[e]) = maxRetries + 1
  /\ (\A l \in Loops : loop[l].op \notin Sending) =>
       \A e \in Items : e = ack.message => Len(sent[e]) = ack.retries + 1
  /\ \A l \in Loops :
       loop[l].op = "incrRetries" => Len(sent[loop[l].seen.message]) = ack.retries
  /\ \A e \in Items : /\ Len(sent[e]) >= 1 => sent[e][1].relay = "primary"
                      /\ Len(sent[e]) >= 3 => sent[e][3].relay = "secondary"

\* A step that sends nothing, stores nothing and counts nothing.
SameAck == UNCHANGED sent /\ ack'.message = ack.message /\ ack'.retries = ack.retries
NoNew == \A e \in Items : /\ outcome'[e] \in {"new", "live"} => outcome[e] \in {"new", "live"}
                          /\ outcome'[e] = "failed" => outcome[e] = "failed"
NoSender == \A l \in Loops : loop'[l].op \in Sending => loop'[l] = loop[l]
SameSenders == \A l \in Loops :
  loop[l].op \in Sending \/ loop'[l].op \in Sending => loop'[l] = loop[l]

\* Such a step keeps the attempts,
LEMMA AttemptFrame ==
  ASSUME AttemptInv, SameAck, NoNew, NoSender
  PROVE  AttemptInv'
<1>1. /\ \A e \in Items : Len(sent'[e]) <= maxRetries + 1
      /\ \A e \in Items : outcome'[e] \in {"new", "live"} /\ e # ack'.message => sent'[e] = <<>>
      /\ \A e \in Items : e = ack'.message =>
           ack'.retries <= maxRetries /\ Len(sent'[e]) <= ack'.retries + 1
  BY DEF AttemptInv, SameAck, NoNew
<1>2. ASSUME NEW l \in Loops, loop'[l].op = "mset"
      PROVE  /\ loop'[l].item = ack'.message /\ ack'.retries = 0
             /\ sent'[loop'[l].item] = <<>>
  BY <1>2 DEF AttemptInv, SameAck, NoSender, Sending
<1>3. ASSUME NEW l \in Loops, loop'[l].op = "incrRetries"
      PROVE  /\ loop'[l].seen.message = ack'.message
             /\ ack'.retries = loop'[l].seen.retries + 1
             /\ Len(sent'[loop'[l].seen.message]) <= ack'.retries
  BY <1>3 DEF AttemptInv, SameAck, NoSender, Sending
<1> QED
  BY <1>1, <1>2, <1>3 DEF AttemptInv

\* and their number.
LEMMA ExactFrame ==
  ASSUME ExactInv, SameAck, NoNew, SameSenders
  PROVE  ExactInv'
<1>1. \A e \in Items : outcome'[e] = "failed" => Len(sent'[e]) = maxRetries + 1
  BY DEF ExactInv, SameAck, NoNew
<1>2. (\A l \in Loops : loop'[l].op \notin Sending) =>
       \A e \in Items : e = ack'.message => Len(sent'[e]) = ack'.retries + 1
  BY DEF ExactInv, SameAck, SameSenders
<1>3. ASSUME NEW l \in Loops, loop'[l].op = "incrRetries"
      PROVE  Len(sent'[loop'[l].seen.message]) = ack'.retries
  BY <1>3 DEF ExactInv, SameAck, SameSenders, Sending
<1>4. \A e \in Items : /\ Len(sent'[e]) >= 1 => sent'[e][1].relay = "primary"
                       /\ Len(sent'[e]) >= 3 => sent'[e][3].relay = "secondary"
  BY DEF ExactInv, SameAck
<1> QED
  BY <1>1, <1>2, <1>3, <1>4 DEF ExactInv

\* Sending once more.
LEMMA TransmitMessageSent ==
  ASSUME TypeInv, NEW x \in Items, NEW n, NEW toggle, TransmitMessage(x, n, toggle)
  PROVE  /\ \A e \in Items : e # x => sent'[e] = sent[e]
         /\ Len(sent[x]) \in Nat /\ Len(sent'[x]) = Len(sent[x]) + 1
         /\ \A i \in 1..Len(sent[x]) : sent'[x][i] = sent[x][i]
         /\ sent'[x][Len(sent[x]) + 1] =
              [seq |-> n, relay |-> IF toggle THEN "secondary" ELSE "primary"]
<1>1. sent[x] \in Seq(Transmission) /\ DOMAIN sent = Items
  BY DEF TypeInv, TypeOK
<1> DEFINE t == [seq |-> n, relay |-> IF toggle THEN "secondary" ELSE "primary"]
<1>2. /\ sent'[x] = Append(sent[x], t)
      /\ \A e \in Items : e # x => sent'[e] = sent[e]
  BY <1>1 DEF TransmitMessage
<1> HIDE DEF t
<1>3. ASSUME NEW s \in Seq(Transmission)
      PROVE  /\ Len(s) \in Nat /\ Len(Append(s, t)) = Len(s) + 1
             /\ \A i \in 1..Len(s) : Append(s, t)[i] = s[i]
             /\ Append(s, t)[Len(s) + 1] = t
  OBVIOUS
<1> QED
  BY <1>1, <1>2, <1>3 DEF t

\* A turn that ends, of a loop that was not sending, leaves those that send.
LEMMA TurnEndsSenders ==
  ASSUME TypeInv, NEW l \in Loops, NoteQueueResult(l) \/ Throw(l)
  PROVE  /\ NoSender
         /\ loop[l].op \notin Sending => SameSenders
<1>1. PICK s \in {Idle, Checking} : Become(l, s)
  BY DEF NoteQueueResult, Throw
<1>2. s.op \in {"idle", "check"}
  BY DEF Idle, Checking
<1>3. loop'[l] = s /\ \A m \in Loops : m # l => loop'[m] = loop[m]
  BY <1>1, NewState
<1> QED
  BY <1>2, <1>3 DEF NoSender, SameSenders, Sending

\* So does a loop that takes another state in which it does not send.
LEMMA BecomeSenders ==
  ASSUME TypeInv, NEW l \in Loops, loop[l].op \notin Sending,
         NEW s, Become(l, s), s.op \notin Sending
  PROVE  NoSender /\ SameSenders
<1>1. loop'[l] = s /\ \A m \in Loops : m # l => loop'[m] = loop[m]
  BY NewState
<1> QED
  BY <1>1 DEF NoSender, SameSenders

\* A report that becomes outstanding was not sent yet.
LEMMA AssembleMessageAttempts ==
  ASSUME TypeInv, WorkInv, LoopInv, AttemptInv, NEW l \in Loops, NEW x \in InHand(l), NEW n,
         AssembleMessage(l, x, n), UNCHANGED sent, BoundsAssumption, ItemsAssumption
  PROVE  AttemptInv' /\ (ExactInv => ExactInv')
<1> DEFINE s == [Idle EXCEPT !.op = "mset", !.item = x, !.seq = n]
<1>0. /\ \A e \in Items : outcome'[e] = IF e = ack.message /\ e # x THEN "lost" ELSE outcome[e]
      /\ ack'.message = x /\ ack'.retries = 0
      /\ Become(l, s) /\ s.op = "mset" /\ s.item = x
  BY DEF AssembleMessage, Conclude, Idle
<1> HIDE DEF s
<1>1. x \in Items /\ outcome[x] = "live" /\ x # ack.message
  BY HandAlone DEF Stored
<1>2. sent[x] = <<>>
  BY <1>1 DEF AttemptInv
<1>3. loop[l].op \in {"popped", "incrSeq"}
  BY DEF InHand
<1>4. loop'[l] = s /\ \A m \in Loops : m # l => loop'[m] = loop[m] /\ loop[m].op = "idle"
  BY <1>0, <1>3, NewState DEF LoopInv, SingleLoop
<1>5. Len(<<>>) = 0 /\ maxRetries \in Nat
  BY BoundsAssumption
<1>6. AttemptInv'
  <2>1. \A e \in Items : Len(sent'[e]) <= maxRetries + 1
    BY DEF AttemptInv
  <2>2. \A e \in Items : outcome'[e] \in {"new", "live"} /\ e # ack'.message => sent'[e] = <<>>
    BY <1>0 DEF AttemptInv
  <2>3. \A e \in Items : e = ack'.message =>
          ack'.retries <= maxRetries /\ Len(sent'[e]) <= ack'.retries + 1
    BY <1>0, <1>2, <1>5
  <2>4. ASSUME NEW m \in Loops, loop'[m].op \in Sending
        PROVE  m = l
    BY <1>4, <2>4 DEF Sending
  <2> QED
    BY <1>0, <1>2, <1>4, <2>1, <2>2, <2>3, <2>4 DEF AttemptInv, Sending
<1>7. ASSUME ExactInv PROVE ExactInv'
  <2>1. loop'[l].op \in Sending
    BY <1>0, <1>4 DEF Sending
  <2>2. \A m \in Loops : loop'[m].op # "incrRetries"
    BY <1>0, <1>4
  <2>3. \A e \in Items : outcome'[e] = "failed" => outcome[e] = "failed"
    BY <1>0
  <2> QED
    BY <1>7, <2>1, <2>2, <2>3 DEF ExactInv
<1> QED
  BY <1>6, <1>7

\* The end of the outstanding message leaves the attempts of the others; given up, it had
\* all of its own.
LEMMA DelAckStateAttempts ==
  ASSUME TypeInv, WorkInv, LoopInv, AttemptInv, NEW l \in Loops,
         loop[l].op \in {"brpop", "popped"}, NEW how \in {"acked", "failed"},
         DelAckState(l, how), NoteQueueResult(l), UNCHANGED sent,
         loop[l].seen.message # None,
         how = "failed" => Exhausted(loop[l].seen.retries), BoundsAssumption, ItemsAssumption
  PROVE  AttemptInv' /\ (ExactInv => ExactInv')
<1>0. /\ ack'.message = None
      /\ \A e \in Items : outcome'[e] = IF e = ack.message THEN how ELSE outcome[e]
      /\ loop[l].seen = ack /\ ack \in AckState /\ ack.message \in Items
      /\ \A e \in Items : e # None
  BY ItemsAssumption DEF DelAckState, NoAck, LoopInv, SeenFresh, TypeInv, TypeOK, AckState
<1>1. NoSender /\ \A m \in Loops : loop[m].op \notin Sending
  BY TurnEndsSenders DEF LoopInv, SingleLoop, Sending
<1>2. \A m \in Loops : loop'[m].op \notin Sending
  BY <1>1 DEF NoSender
<1>3. AttemptInv'
  <2>1. \A e \in Items : Len(sent'[e]) <= maxRetries + 1
    BY DEF AttemptInv
  <2>2. \A e \in Items : outcome'[e] \in {"new", "live"} => sent'[e] = <<>>
    BY <1>0 DEF AttemptInv
  <2> QED
    BY <1>0, <1>2, <2>1, <2>2 DEF AttemptInv, Sending
<1>4. ASSUME ExactInv PROVE ExactInv'
  <2>1. \A e \in Items : outcome'[e] = "failed" => Len(sent'[e]) = maxRetries + 1
    <3>1. CASE how = "acked"
      BY <1>0, <1>4, <3>1 DEF ExactInv
    <3>2. CASE how = "failed"
      <4>1. ack.retries \in Nat /\ maxRetries \in Nat
        BY <1>0, BoundsAssumption DEF AckState
      <4>2. ack.retries >= maxRetries /\ ack.retries <= maxRetries
        BY <1>0, <3>2 DEF Exhausted, AttemptInv
      <4>3. Len(sent[ack.message]) = ack.retries + 1
        BY <1>0, <1>1, <1>4 DEF ExactInv
      <4>4. Len(sent[ack.message]) = maxRetries + 1
        BY <4>1, <4>2, <4>3
      <4> QED
        BY <1>0, <1>4, <4>4 DEF ExactInv
    <3> QED
      BY <3>1, <3>2
  <2> QED
    BY <1>0, <1>2, <1>4, <2>1 DEF ExactInv, Sending
<1> QED
  BY <1>3, <1>4

\* A step that changes no counter and sends nothing.
LEMMA QuietAttempts ==
  ASSUME AttemptInv, SameAck, NoNew, NoSender, SameSenders
  PROVE  AttemptInv' /\ (ExactInv => ExactInv')
  BY AttemptFrame, ExactFrame

\* When the only loop ends its turn, no loop sends.
LEMMA NobodySends ==
  ASSUME TypeInv, LoopInv, NEW l \in Loops, loop[l].op # "idle", NoteQueueResult(l) \/ Throw(l)
  PROVE  \A m \in Loops : loop'[m].op \notin Sending
<1>1. PICK s \in {Idle, Checking} : Become(l, s)
  BY DEF NoteQueueResult, Throw
<1>2. s.op \in {"idle", "check"}
  BY DEF Idle, Checking
<1>3. loop'[l] = s /\ \A m \in Loops : m # l => loop'[m] = loop[m]
  BY <1>1, NewState
<1>4. \A m \in Loops : m # l => loop[m].op = "idle"
  BY DEF LoopInv, SingleLoop
<1> QED
  BY <1>2, <1>3, <1>4 DEF Sending

\* The first transmission, of a report that was stored,
LEMMA TransmitAttempts ==
  ASSUME TypeInv, WorkInv, LoopInv, AttemptInv, NEW l \in Loops, Transmit(l),
         BoundsAssumption, ItemsAssumption
  PROVE  AttemptInv' /\ (ExactInv => ExactInv')
<1> PICK x : x = loop[l].item
  OBVIOUS
<1>0. /\ x \in Items /\ x = ack.message /\ ack.retries = 0 /\ sent[x] = <<>>
      /\ TransmitMessage(x, loop[l].seq, FALSE) /\ NoteQueueResult(l)
      /\ UNCHANGED <<ack, outcome>> /\ loop[l].op = "mset" /\ maxRetries \in Nat
  BY DEF Transmit, AttemptInv, TypeInv, HandOK, BoundsAssumption, redisVars, runVars
<1>1. \A m \in Loops : loop'[m].op \notin Sending
  BY <1>0, NobodySends
<1>2. /\ \A e \in Items : e # x => sent'[e] = sent[e]
      /\ Len(sent'[x]) = 1 /\ sent'[x][1].relay = "primary"
  <2>1. Len(<<>>) = 0
    OBVIOUS
  <2>2. PICK n : n = loop[l].seq
    OBVIOUS
  <2>3. TransmitMessage(x, n, FALSE)
    BY <1>0, <2>2
  <2>4. /\ \A e \in Items : e # x => sent'[e] = sent[e]
        /\ Len(sent'[x]) = Len(sent[x]) + 1
        /\ sent'[x][Len(sent[x]) + 1] = [seq |-> n, relay |-> "primary"]
    BY <1>0, <2>3, TransmitMessageSent
  <2> QED
    BY <1>0, <2>1, <2>4
<1>3. AttemptInv'
  <2>1. ASSUME NEW e \in Items PROVE Len(sent'[e]) <= maxRetries + 1
    <3>1. CASE e = x
      <4>1. Len(sent'[e]) = 1 /\ maxRetries \in Nat
        BY <1>0, <1>2, <3>1
      <4> QED
        BY <4>1
    <3>2. CASE e # x
      BY <1>2, <3>2 DEF AttemptInv
    <3> QED
      BY <3>1, <3>2
  <2>2. \A e \in Items : e # x => (outcome'[e] \in {"new", "live"} => sent'[e] = <<>>)
    BY <1>0, <1>2 DEF AttemptInv
  <2>3. ack'.retries <= maxRetries /\ Len(sent'[x]) <= ack'.retries + 1
    BY <1>0, <1>2
  <2> QED
    BY <1>0, <1>1, <2>1, <2>2, <2>3 DEF AttemptInv, Sending
<1>4. ASSUME ExactInv PROVE ExactInv'
  <2>1. outcome[x] # "failed"
    BY <1>0 DEF WorkInv, Kept, Stored
  <2>2. \A e \in Items : outcome'[e] = "failed" => Len(sent'[e]) = maxRetries + 1
    BY <1>0, <1>2, <1>4, <2>1 DEF ExactInv
  <2>3. \A e \in Items : e = ack'.message => Len(sent'[e]) = ack'.retries + 1
    <3>1. ack'.message = x /\ ack'.retries = 0 /\ Len(sent'[x]) = 1
      BY <1>0, <1>2
    <3> QED
      BY <3>1
  <2>4. \A e \in Items : /\ Len(sent'[e]) >= 1 => sent'[e][1].relay = "primary"
                         /\ Len(sent'[e]) >= 3 => sent'[e][3].relay = "secondary"
    BY <1>2, <1>4 DEF ExactInv
  <2> QED
    BY <1>1, <2>2, <2>3, <2>4 DEF ExactInv, Sending
<1> QED
  BY <1>3, <1>4

\* and the next ones, each counted before.
LEMMA RetransmitAttempts ==
  ASSUME TypeInv, WorkInv, LoopInv, AttemptInv, NEW l \in Loops, Retransmit(l),
         BoundsAssumption, ItemsAssumption
  PROVE  AttemptInv' /\ (ExactInv => ExactInv')
<1> PICK x : x = loop[l].seen.message
  OBVIOUS
<1> PICK r : r = loop[l].seen.retries
  OBVIOUS
<1>0. /\ x \in Items /\ x = ack.message /\ ack.retries = r + 1 /\ Len(sent[x]) <= ack.retries
      /\ TransmitMessage(x, loop[l].seen.seq, ToggleRelay(r)) /\ NoteQueueResult(l)
      /\ UNCHANGED <<ack, outcome>> /\ loop[l].op = "incrRetries"
      /\ maxRetries \in Nat /\ ack.retries <= maxRetries
  BY DEF Retransmit, AttemptInv, TypeInv, HandOK, BoundsAssumption, redisVars, runVars
<1>1. r \in Nat
  BY DEF TypeInv, TypeOK, LoopState, AckState
<1>2. \A m \in Loops : loop'[m].op \notin Sending
  BY <1>0, NobodySends
<1>3. /\ \A e \in Items : e # x => sent'[e] = sent[e]
      /\ Len(sent[x]) \in Nat /\ Len(sent'[x]) = Len(sent[x]) + 1
      /\ \A i \in 1..Len(sent[x]) : sent'[x][i] = sent[x][i]
      /\ sent'[x][Len(sent[x]) + 1].relay = IF ToggleRelay(r) THEN "secondary" ELSE "primary"
  <2>1. PICK n : n = loop[l].seen.seq
    OBVIOUS
  <2>2. PICK toggle : toggle = ToggleRelay(r)
    OBVIOUS
  <2>3. TransmitMessage(x, n, toggle)
    BY <1>0, <2>1, <2>2
  <2>4. /\ \A e \in Items : e # x => sent'[e] = sent[e]
        /\ Len(sent[x]) \in Nat /\ Len(sent'[x]) = Len(sent[x]) + 1
        /\ \A i \in 1..Len(sent[x]) : sent'[x][i] = sent[x][i]
        /\ sent'[x][Len(sent[x]) + 1] =
             [seq |-> n, relay |-> IF toggle THEN "secondary" ELSE "primary"]
    BY <1>0, <2>3, TransmitMessageSent
  <2> QED
    BY <2>2, <2>4
<1>4. ExactInv => Len(sent[x]) = r + 1
  BY <1>0 DEF ExactInv
<1>5. ToggleRelay(1)
  BY DEF ToggleRelay
<1>6. ack.retries \in Nat
  BY <1>0, <1>1
<1>7. Len(sent'[x]) \in Nat /\ Len(sent'[x]) <= ack.retries + 1
  <2>1. Len(sent[x]) \in Nat /\ Len(sent[x]) <= ack.retries /\ Len(sent'[x]) = Len(sent[x]) + 1
    BY <1>0, <1>3
  <2>2. ASSUME NEW a \in Nat, NEW b \in Nat, a <= b
        PROVE  a + 1 \in Nat /\ a + 1 <= b + 1
    BY <2>2
  <2> QED
    BY <1>6, <2>1, <2>2
<1>8. AttemptInv'
  <2>1. ASSUME NEW e \in Items PROVE Len(sent'[e]) <= maxRetries + 1
    <3>1. CASE e = x
      BY <1>0, <1>6, <1>7, <3>1
    <3>2. CASE e # x
      BY <1>3, <3>2 DEF AttemptInv
    <3> QED
      BY <3>1, <3>2
  <2>2. \A e \in Items : e # x => (outcome'[e] \in {"new", "live"} => sent'[e] = <<>>)
    BY <1>0, <1>3 DEF AttemptInv
  <2>3. ack'.retries <= maxRetries /\ Len(sent'[x]) <= ack'.retries + 1
    BY <1>0, <1>7
  <2> QED
    BY <1>0, <1>2, <2>1, <2>2, <2>3 DEF AttemptInv, Sending
<1>9. ASSUME ExactInv PROVE ExactInv'
  <2>1. outcome[x] # "failed"
    BY <1>0 DEF WorkInv, Kept, Stored
  <2>2. \A e \in Items : outcome'[e] = "failed" => Len(sent'[e]) = maxRetries + 1
    BY <1>0, <1>3, <1>9, <2>1 DEF ExactInv
  <2>3. \A e \in Items : e = ack'.message => Len(sent'[e]) = ack'.retries + 1
    BY <1>0, <1>3, <1>4, <1>9
  <2>4. /\ Len(sent'[x]) >= 1 => sent'[x][1].relay = "primary"
        /\ Len(sent'[x]) >= 3 => sent'[x][3].relay = "secondary"
    <3>1. sent'[x][1].relay = "primary"
      <4>1. 1 \in 1..Len(sent[x]) /\ sent[x][1].relay = "primary"
        BY <1>0, <1>1, <1>3, <1>4, <1>9 DEF ExactInv
      <4> QED
        BY <1>3, <4>1
    <3>2. CASE r = 0
      <4>1. Len(sent'[x]) = 2
        <5>1. Len(sent[x]) = 1
          BY <1>4, <1>9, <3>2
        <5> QED
          BY <1>3, <5>1
      <4> QED
        BY <3>1, <4>1
    <3>3. CASE r = 1
      <4>1. Len(sent[x]) = 2 /\ Len(sent[x]) + 1 = 3
        <5>1. Len(sent[x]) = 2
          BY <1>4, <1>9, <3>3
        <5> QED
          BY <5>1
      <4>2. sent'[x][3].relay = "secondary"
        BY <1>3, <1>5, <3>3, <4>1
      <4> QED
        BY <3>1, <4>2
    <3>4. CASE r > 1
      <4>1. 3 \in 1..Len(sent[x]) /\ sent[x][3].relay = "secondary"
        BY <1>0, <1>1, <1>3, <1>4, <1>9, <3>4 DEF ExactInv
      <4> QED
        BY <1>3, <3>1, <4>1
    <3> QED
      BY <1>1, <3>2, <3>3, <3>4
  <2>5. \A e \in Items : e # x => /\ Len(sent'[e]) >= 1 => sent'[e][1].relay = "primary"
                                  /\ Len(sent'[e]) >= 3 => sent'[e][3].relay = "secondary"
    BY <1>3, <1>9 DEF ExactInv
  <2> QED
    BY <1>2, <2>2, <2>3, <2>4, <2>5 DEF ExactInv, Sending
<1> QED
  BY <1>8, <1>9

\* The retry is counted before it is sent.
LEMMA IncrRetriesAttempts ==
  ASSUME TypeInv, LoopInv, AttemptInv, NEW l \in Loops, IncrRetries(l),
         BoundsAssumption, ItemsAssumption
  PROVE  AttemptInv' /\ (ExactInv => ExactInv')
<1> DEFINE s == [loop[l] EXCEPT !.op = "incrRetries", !.args = {}]
<1>0. /\ loop[l].op = "brpop" /\ loop[l].seen = ack /\ ack.message \in Items
      /\ ack \in AckState /\ loop[l] \in LoopState
      /\ ~Exhausted(ack.retries) /\ UNCHANGED <<sent, outcome>>
      /\ ack' = [ack EXCEPT !.retries = @ + 1, !.ticks = 0] /\ Become(l, s)
      /\ maxRetries \in Nat
  BY BoundsAssumption DEF IncrRetries, PendingMessage, TimedOut, LoopInv, SeenFresh, TypeInv, TypeOK,
     AckState, historyVars
<1>1. /\ ack.retries \in Nat /\ ack.retries + 1 <= maxRetries
      /\ ack'.message = ack.message /\ ack'.retries = ack.retries + 1
  BY <1>0 DEF AckState, Exhausted
<1>2. s.op = "incrRetries" /\ s.seen = ack
  BY <1>0 DEF LoopState
<1> HIDE DEF s
<1>3. loop'[l] = s /\ \A m \in Loops : m # l => loop'[m] = loop[m] /\ loop[m].op = "idle"
  BY <1>0, NewState DEF LoopInv, SingleLoop
<1>4. \A m \in Loops : loop[m].op \notin Sending
  BY <1>0, <1>3 DEF Sending
<1>5. Len(sent[ack.message]) <= ack.retries + 1 /\ Len(sent[ack.message]) \in Nat
  BY <1>0 DEF AttemptInv, TypeInv, TypeOK
<1>6. AttemptInv'
  <2>1. \A e \in Items : e = ack'.message => ack'.retries <= maxRetries /\ Len(sent'[e]) <= ack'.retries + 1
    BY <1>0, <1>1, <1>5
  <2>2. /\ loop'[l].seen.message = ack'.message /\ ack'.retries = loop'[l].seen.retries + 1
        /\ Len(sent'[loop'[l].seen.message]) <= ack'.retries
    BY <1>0, <1>1, <1>2, <1>3, <1>5
  <2> QED
    BY <1>0, <1>1, <1>2, <1>3, <2>1, <2>2 DEF AttemptInv
<1>7. ASSUME ExactInv PROVE ExactInv'
  <2>1. Len(sent[ack.message]) = ack.retries + 1
    BY <1>0, <1>4, <1>7 DEF ExactInv
  <2>2. loop'[l].op \in Sending
    BY <1>2, <1>3 DEF Sending
  <2>3. Len(sent'[loop'[l].seen.message]) = ack'.retries
    BY <1>0, <1>1, <1>2, <1>3, <2>1
  <2> QED
    BY <1>0, <1>3, <1>7, <2>2, <2>3 DEF ExactInv
<1> QED
  BY <1>6, <1>7

\* Each step of a loop keeps the attempts.
LEMMA LoopStepAttempts ==
  ASSUME TypeInv, WorkInv, LoopInv, AttemptInv, NEW l \in Loops, LoopStep(l),
         BoundsAssumption, ItemsAssumption
  PROVE  AttemptInv' /\ (ExactInv /\ router = "running" => ExactInv')
<1> USE DEF redisVars, runVars, historyVars
<1>0. loop[l] \in LoopState /\ ack \in AckState
  BY DEF TypeInv, TypeOK
<1>1. CASE CheckQueue(l)
  <2>1. loop[l].op \notin Sending /\ SameAck
    BY <1>1 DEF CheckQueue, SameAck, Sending
  <2>2. CASE Become(l, Idle) /\ UNCHANGED outcome
    <3>1. NoNew /\ NoSender /\ SameSenders
      BY <2>1, <2>2, TurnEndsSenders DEF Throw, NoNew
    <3> QED
      BY <2>1, <3>1, QuietAttempts
  <2>3. CASE Become(l, [Checking EXCEPT !.op = "mget", !.seen = ack]) /\ UNCHANGED outcome
    <3> DEFINE s == [Checking EXCEPT !.op = "mget", !.seen = ack]
    <3>1. s.op \notin Sending
      BY DEF Checking, Idle, Sending
    <3>2. NoNew /\ NoSender /\ SameSenders
      BY <2>1, <2>3, <3>1, BecomeSenders DEF NoNew
    <3> QED
      BY <2>1, <3>2, QuietAttempts
  <2>4. CASE router = "broken" /\ ProcessEnds
    <3>1. NoNew
      BY <2>4 DEF ProcessEnds, Conclude, NoNew
    <3>2. NoSender
      BY <2>4 DEF ProcessEnds, Idle, NoSender, Sending
    <3> QED
      BY <2>1, <2>4, <3>1, <3>2, AttemptFrame
  <2> QED
    BY <1>1, <2>2, <2>3, <2>4 DEF CheckQueue
<1>2. CASE GetAckState(l) \/ Brpop(l)
  <2>1. /\ loop[l].op \in {"mget", "brpop"} /\ SameAck /\ NoNew
    BY <1>2 DEF GetAckState, Brpop, SameAck, NoNew
  <2>2. \E s : Become(l, s) /\ s.op \in {"brpop", "popped"}
    <3>1. CASE GetAckState(l)
      <4> DEFINE s == [loop[l] EXCEPT !.op = "brpop", !.args = SetQueueArgs(loop[l].seen)]
      <4>1. s.op = "brpop" /\ Become(l, s)
        BY <1>0, <3>1 DEF GetAckState, LoopState
      <4> QED
        BY <4>1
    <3>2. CASE Brpop(l)
      <4>1. PICK k \in Waiting(l) :
              Become(l, [loop[l] EXCEPT !.op = "popped", !.args = {}, !.from = k,
                           !.item = IF k = "ack" THEN None ELSE Head(queue[k]),
                           !.seq  = IF k = "ack" THEN Head(queue[k]) ELSE 0])
        BY <3>2 DEF Brpop
      <4> DEFINE s == [loop[l] EXCEPT !.op = "popped", !.args = {}, !.from = k,
                         !.item = IF k = "ack" THEN None ELSE Head(queue[k]),
                         !.seq  = IF k = "ack" THEN Head(queue[k]) ELSE 0]
      <4>2. s.op = "popped" /\ Become(l, s)
        BY <1>0, <4>1 DEF LoopState
      <4> QED
        BY <4>2
    <3> QED
      BY <1>2, <3>1, <3>2
  <2>3. NoSender /\ SameSenders
    BY <2>1, <2>2, BecomeSenders DEF Sending
  <2> QED
    BY <2>1, <2>3, QuietAttempts
<1>3. CASE \/ NoteIdle(l) \/ IncrTicks(l) \/ IgnoreAck(l) \/ DropEntry(l) \/ ProcessCommand(l)
           \/ ProcessRoute(l)
  <2>1. loop[l].op \in {"brpop", "popped"}
    BY <1>3 DEF NoteIdle, IncrTicks, PendingMessage, TimedOut, IgnoreAck, DropEntry, Unusable,
                ProcessCommand, ProcessRoute, Entry
  <2>2. NoteQueueResult(l) \/ Throw(l)
    BY <1>3 DEF NoteIdle, IncrTicks, IgnoreAck, DropEntry, ProcessCommand, ProcessRoute
  <2>3. SameAck
    BY <1>0, <1>3 DEF NoteIdle, IncrTicks, IgnoreAck, DropEntry, ProcessCommand, ProcessRoute,
                      SameAck, AckState
  <2>4. NoNew
    <3>1. CASE NoteIdle(l) \/ IncrTicks(l) \/ IgnoreAck(l) \/ ProcessCommand(l)
      BY <3>1 DEF NoteIdle, IncrTicks, IgnoreAck, ProcessCommand, NoNew
    <3>2. CASE DropEntry(l)
      BY <3>2 DEF DropEntry, Conclude, NoNew
    <3>3. CASE ProcessRoute(l)
      <4>1. UNCHANGED outcome \/ \E S : Conclude(S, "lost") \/ Conclude(S, "answered")
        BY <3>3 DEF ProcessRoute, PushResult
      <4> QED
        BY <4>1 DEF Conclude, NoNew
    <3> QED
      BY <1>3, <3>1, <3>2, <3>3
  <2>5. NoSender /\ SameSenders
    BY <2>1, <2>2, TurnEndsSenders DEF Sending
  <2> QED
    BY <2>3, <2>4, <2>5, QuietAttempts
<1>4. CASE TooManyRetries(l)
  <2>1. /\ loop[l].op = "brpop" /\ loop[l].seen.message # None /\ DelAckState(l, "failed")
        /\ NoteQueueResult(l) /\ UNCHANGED sent /\ Exhausted(loop[l].seen.retries)
    BY <1>4 DEF TooManyRetries, PendingMessage, TimedOut
  <2> QED
    BY <2>1, DelAckStateAttempts
<1>5. CASE ProcessAck(l)
  <2>1. /\ loop[l].op = "popped" /\ loop[l].seen.message # None /\ DelAckState(l, "acked")
        /\ NoteQueueResult(l) /\ UNCHANGED sent
    BY <1>5 DEF ProcessAck, MatchingAck, Entry
  <2> QED
    BY <2>1, DelAckStateAttempts
<1>6. CASE ProcessTransmit(l)
  <2>1. /\ loop[l].op = "popped" /\ loop[l].from = "transmit" /\ UNCHANGED sent
    BY <1>6 DEF ProcessTransmit, Entry
  <2>2. PICK x : x = loop[l].item /\ x \in InHand(l)
    BY <2>1, EntryInHand
  <2>3. CASE AssembleMessage(l, loop[l].item, OwnSeq[loop[l].item])
    BY <2>1, <2>2, <2>3, AssembleMessageAttempts
  <2>4. CASE /\ Become(l, [Idle EXCEPT !.op = "incrSeq", !.item = loop[l].item,
                                       !.seq = (lastSeq % SeqMod) + 1])
             /\ UNCHANGED <<ack, outcome>>
    <3> DEFINE s == [Idle EXCEPT !.op = "incrSeq", !.item = loop[l].item,
                                 !.seq = (lastSeq % SeqMod) + 1]
    <3>1. s.op = "incrSeq"
      BY DEF Idle
    <3>2. NoSender /\ SameSenders
      BY <2>1, <2>4, <3>1, BecomeSenders DEF Sending
    <3>3. SameAck /\ NoNew
      BY <2>1, <2>4 DEF SameAck, NoNew
    <3> QED
      BY <3>2, <3>3, QuietAttempts
  <2> QED
    BY <1>6, <2>3, <2>4 DEF ProcessTransmit
<1>7. CASE GenerateMessage(l)
  <2>1. loop[l].op = "incrSeq" /\ UNCHANGED sent
    BY <1>7 DEF GenerateMessage
  <2>2. PICK x : x = loop[l].item /\ x \in InHand(l)
    BY <2>1, EntryInHand
  <2> QED
    BY <1>7, <2>1, <2>2, AssembleMessageAttempts DEF GenerateMessage
<1>8. CASE ThrowWithoutClient(l)
  <2>1. SameAck /\ NoNew /\ Throw(l) /\ router # "running"
    BY <1>8 DEF ThrowWithoutClient, SameAck, NoNew, Conclude
  <2>2. NoSender
    BY <2>1, TurnEndsSenders
  <2> QED
    BY <2>1, <2>2, AttemptFrame
<1> QED
  BY <1>1, <1>2, <1>3, <1>4, <1>5, <1>6, <1>7, <1>8, TransmitAttempts, RetransmitAttempts,
     IncrRetriesAttempts DEF LoopStep

\* So does every other step.
LEMMA NextAttempts ==
  ASSUME TypeInv, WorkInv, LoopInv, AttemptInv, [Next]_vars, BoundsAssumption, ItemsAssumption
  PROVE  AttemptInv' /\ (ExactInv /\ Smooth /\ faults = {} => ExactInv')
<1> USE DEF vars, redisVars, runVars, historyVars
<1>1. CASE Start
  <2>1. PICK l \in Loops : loop[l].op = "idle" /\ NoteQueueResult(l)
    BY <1>1 DEF Start
  <2>2. NoSender /\ SameSenders
    BY <2>1, TurnEndsSenders DEF Sending
  <2>3. SameAck /\ NoNew
    BY <1>1 DEF Start, SameAck, NoNew
  <2> QED
    BY <2>2, <2>3, QuietAttempts
<1>2. CASE RedisError \/ Crash
  <2>1. faults # {} /\ SameAck
    BY <1>2 DEF RedisError, Crash, ProcessEnds, SameAck
  <2>2. NoNew
    BY <1>2 DEF RedisError, Crash, ProcessEnds, Conclude, NoNew
  <2>3. NoSender
    <3>1. \A l \in Loops : loop'[l] = loop[l] \/ loop'[l] = Idle
      BY <1>2 DEF RedisError, Crash, ProcessEnds
    <3> QED
      BY <3>1 DEF Idle, NoSender, Sending
  <2> QED
    BY <2>1, <2>2, <2>3, AttemptFrame
<1>3. ASSUME NEW l \in Loops, LoopStep(l)
      PROVE  AttemptInv' /\ (ExactInv /\ Smooth /\ faults = {} => ExactInv')
  <2>1. Smooth => router = "running"
    BY <1>3, LoopStepBusy DEF Smooth
  <2> QED
    BY <1>3, <2>1, LoopStepAttempts
<1>4. CASE \/ Stop
           \/ (\E r \in Routes : RouteStep(r) \/ \E e \in Items : Answer(r, e))
           \/ (\E e \in Items : Submit(e) \/ GatewayAck(e)) \/ UNCHANGED vars
  <2>1. SameAck
    BY <1>4 DEF Stop, RouteStep, Answer, Submit, GatewayAck, SameAck
  <2>2. NoSender /\ SameSenders
    BY <1>4 DEF Stop, RouteStep, Answer, Submit, GatewayAck, NoSender, SameSenders
  <2>3. NoNew
    <3>1. ASSUME NEW r \in Routes, RouteStep(r) PROVE NoNew
      BY <3>1 DEF RouteStep, RouteReset, Conclude, NoNew
    <3>2. ASSUME NEW r \in Routes, NEW e \in Items, Answer(r, e) PROVE NoNew
      BY <3>2 DEF Answer, PushResult, Conclude, NoNew
    <3>3. ASSUME NEW e \in Items, Submit(e) PROVE NoNew
      BY <3>3 DEF Submit, Conclude, NoNew
    <3>4. CASE Stop \/ (\E e \in Items : GatewayAck(e)) \/ UNCHANGED vars
      BY <3>4 DEF Stop, GatewayAck, NoNew
    <3> QED
      BY <1>4, <3>1, <3>2, <3>3, <3>4
  <2> QED
    BY <2>1, <2>2, <2>3, QuietAttempts
<1> QED
  BY <1>1, <1>2, <1>3, <1>4 DEF Next

\* AttemptInv until check loops overlap.
AloneAttempts == ~overlapped => AttemptInv

LEMMA NextAloneAttempts ==
  ASSUME TypeInv, WorkInv, AloneInv, AloneAttempts, [Next]_vars, BoundsAssumption, ItemsAssumption
  PROVE  AloneAttempts'
<1> SUFFICES ASSUME ~overlapped' PROVE AttemptInv'
  BY DEF AloneAttempts
<1>1. LoopInv /\ AttemptInv
  BY RunStays DEF AloneInv, AloneAttempts
<1> QED
  BY <1>1, NextAttempts

\* The attempts add up to the property: all of them over both relays before a report is
\* given up.
LEMMA AttemptsImply ==
  ASSUME TypeInv, AloneAttempts, faults = {} => ExactInv, BoundsAssumption
  PROVE  AttemptsKept
<1>1. ~overlapped => \A e \in Items : /\ Len(sent[e]) <= maxRetries + 1
                                      /\ e = ack.message => Len(sent[e]) <= ack.retries + 1
  BY DEF AloneAttempts, AttemptInv
<1>2. ASSUME faults = {}, NEW e \in Items, outcome[e] = "failed"
      PROVE  /\ Len(sent[e]) = maxRetries + 1
             /\ maxRetries >= 2 => \A relay \in {"primary", "secondary"} :
                                     \E i \in 1..Len(sent[e]) : sent[e][i].relay = relay
  <2>1. Len(sent[e]) = maxRetries + 1 /\ maxRetries \in Nat
    BY <1>2, BoundsAssumption DEF ExactInv
  <2>2. ASSUME maxRetries >= 2
        PROVE  /\ 1 \in 1..Len(sent[e]) /\ sent[e][1].relay = "primary"
               /\ 3 \in 1..Len(sent[e]) /\ sent[e][3].relay = "secondary"
    BY <1>2, <2>1, <2>2 DEF ExactInv
  <2> QED
    BY <2>1, <2>2
<1> QED
  BY <1>1, <1>2 DEF AttemptsKept

\* Until check loops overlap a report is sent maxRetries + 1 times at most, over every crash
\* and restart; without a fault it is given up only after that many attempts, over both
\* relays.
THEOREM AttemptsKeptHolds == Spec => []AttemptsKept
<1> DEFINE IInv == /\ TypeInv /\ WorkInv /\ AloneInv /\ NoRestart /\ AloneAttempts /\ AliveInv
                   /\ faults = {} => Smooth /\ ExactInv
<1>1. Init => IInv
  <2> SUFFICES ASSUME Init PROVE IInv
    OBVIOUS
  <2>1. \A e \in Items : sent[e] = <<>> /\ outcome[e] = "new" /\ e # ack.message
    BY ItemsAssumption DEF Init, NoAck
  <2>2. Len(<<>>) = 0 /\ maxRetries \in Nat
    BY BoundsAssumption
  <2>3. AttemptInv /\ ExactInv
    BY <2>1, <2>2, InitLoop, InitialRecords DEF AttemptInv, ExactInv
  <2>4. Smooth
    BY <2>1, InitLoop DEF Init, Smooth
  <2> QED
    BY <2>3, <2>4, InitType, InitWork, InitLoop, InitAlive, ItemsAssumption
    DEF Init, AliveInv, AloneAttempts, NoRestart
<1>2. IInv /\ [Next]_vars => IInv'
  <2> SUFFICES ASSUME IInv, [Next]_vars PROVE IInv'
    OBVIOUS
  <2>1. UNCHANGED faults
    BY RunStays
  <2>2. TypeInv' /\ WorkInv' /\ AloneInv' /\ NoRestart' /\ AloneAttempts'
    BY NextType, NextWork, NextAlone, NextNoRestart, NextAloneAttempts, ItemsAssumption,
       BoundsAssumption
  <2>3. AliveInv'
    BY <2>1, NextAlive, ItemsAssumption DEF AliveInv
  <2>4. faults = {} => LoopInv /\ AttemptInv
    BY DEF AloneInv, NoRestart, AloneAttempts
  <2>5. faults = {} => ExactInv'
    BY <2>4, NextAttempts, ItemsAssumption, BoundsAssumption
  <2>6. faults = {} => Smooth'
    BY <2>4, NextSmooth, ItemsAssumption DEF AliveInv
  <2> QED
    BY <2>1, <2>2, <2>3, <2>5, <2>6
<1>3. IInv => AttemptsKept
  BY AttemptsImply, BoundsAssumption
<1> QED
  BY <1>1, <1>2, <1>3, PTL DEF Spec

-----------------------------------------------------------------------------
(* The transmit side implements StopAndWait *)

\* A loop that has taken a report and not yet stored it, and the report that is
\* outstanding while the loop is the only one.
Flying(state) == state.op = "incrSeq" \/ (state.op = "popped" /\ state.from = "transmit")
TheReport(state, stored) == IF Flying(state) THEN state.item ELSE stored.message

\* The one element of a set.
LEMMA OneOf ==
  ASSUME NEW S, NEW x, S = {x} \ {None}
  PROVE  (IF S = {} THEN None ELSE CHOOSE e \in S : TRUE) = x
<1>1. CASE x = None
  <2>1. S = {}
    BY <1>1
  <2> QED
    BY <1>1, <2>1
<1>2. CASE x # None
  <2>1. S = {x} /\ S # {}
    BY <1>2
  <2>2. (CHOOSE e \in S : TRUE) \in S
    BY <2>1
  <2> QED
    BY <2>1, <2>2
<1> QED
  BY <1>1, <1>2

\* The outstanding report while no loop has one in its hand,
LEMMA StoredReport ==
  ASSUME \A l \in Loops : ~Flying(loop[l])
  PROVE  outstandingReport = ack.message
<1>1. Outstanding = {ack.message} \ {None}
  BY DEF Outstanding, InFlight, Entry, Flying
<1> QED
  BY <1>1, OneOf DEF outstandingReport

\* after a step too,
LEMMA StoredReportNext ==
  ASSUME \A l \in Loops : ~Flying(loop'[l])
  PROVE  outstandingReport' = ack'.message
<1>1. Outstanding' = {ack'.message} \ {None}
  BY DEF Outstanding, InFlight, Entry, Flying
<1> QED
  BY <1>1, OneOf DEF outstandingReport

\* and while one has.
LEMMA FlyingReport ==
  ASSUME NEW l \in Loops, Flying(loop[l]), loop[l].item \in Items, ack.message = None,
         \A m \in Loops : m # l => ~Flying(loop[m]), ItemsAssumption
  PROVE  outstandingReport = loop[l].item
<1>1. Outstanding = {loop[l].item} \ {None}
  BY DEF Outstanding, InFlight, Entry, Flying, ItemsAssumption
<1> QED
  BY <1>1, OneOf DEF outstandingReport

\* After a step too.
LEMMA FlyingReportNext ==
  ASSUME NEW l \in Loops, Flying(loop'[l]), loop'[l].item \in Items, ack'.message = None,
         \A m \in Loops : m # l => ~Flying(loop'[m]), ItemsAssumption
  PROVE  outstandingReport' = loop'[l].item
<1>1. Outstanding' = {loop'[l].item} \ {None}
  BY DEF Outstanding, InFlight, Entry, Flying, ItemsAssumption
<1> QED
  BY <1>1, OneOf DEF outstandingReport

\* A step of the only loop moves the report from its hand to the ack state or lets it go.
LEMMA OnlyReport ==
  ASSUME TypeInv, LoopInv, ItemsAssumption, NEW l \in Loops, loop[l].op # "idle",
         NEW s, Become(l, s), Flying(s) => s.item \in Items /\ ack'.message = None
  PROVE  /\ outstandingReport = TheReport(loop[l], ack)
         /\ outstandingReport' = TheReport(s, ack')
<1>1. loop'[l] = s /\ \A m \in Loops : m # l => loop'[m] = loop[m] /\ loop[m].op = "idle"
  BY NewState DEF LoopInv, SingleLoop
<1>2. \A m \in Loops : m # l => ~Flying(loop[m]) /\ ~Flying(loop'[m])
  BY <1>1 DEF Flying
<1>3. outstandingReport = TheReport(loop[l], ack)
  <2>1. CASE Flying(loop[l])
    <3>1. ack.message = None /\ loop[l].item \in Items
      BY <2>1 DEF Flying, LoopInv, HandFree, Entry, TypeInv, HandOK
    <3> QED
      BY <1>2, <2>1, <3>1, FlyingReport DEF TheReport
  <2>2. CASE ~Flying(loop[l])
    BY <1>2, <2>2, StoredReport DEF TheReport
  <2> QED
    BY <2>1, <2>2
<1>4. outstandingReport' = TheReport(s, ack')
  <2>1. CASE Flying(s)
    BY <1>1, <1>2, <2>1, FlyingReportNext DEF TheReport
  <2>2. CASE ~Flying(s)
    BY <1>1, <1>2, <2>2, StoredReportNext DEF TheReport
  <2> QED
    BY <2>1, <2>2
<1> QED
  BY <1>3, <1>4

\* A step that gives no loop a report and takes none, and leaves the stored one.
LEMMA SameReport ==
  ASSUME ack'.message = ack.message,
         \A l \in Loops : loop'[l] = loop[l] \/ (~Flying(loop[l]) /\ ~Flying(loop'[l]))
  PROVE  outstandingReport' = outstandingReport
<1>1. Outstanding' = Outstanding
  <2>1. \A l \in Loops : InFlight(l)' = InFlight(l)
    BY DEF InFlight, Entry, Flying
  <2> QED
    BY <2>1 DEF Outstanding
<1> QED
  BY <1>1 DEF outstandingReport

\* No report ends as acked or as failed.
NoEnd == \A e \in Items : \A how \in {"acked", "failed"} : outcome'[e] = how <=> outcome[e] = how

\* A step that changes none of the four is none of the promise,
LEMMA Stutters ==
  ASSUME queue'["transmit"] = queue["transmit"], outstandingReport' = outstandingReport, NoEnd
  PROVE  UNCHANGED Promise!vars
BY DEF NoEnd, Promise!vars

\* an entry for the transmit queue waits,
LEMMA Enqueues ==
  ASSUME QueueOK, ItemsAssumption, NEW x \in Items, Push("transmit", x),
         outstandingReport' = outstandingReport, NoEnd
  PROVE  Promise!Next
<1>1. queue'["transmit"] = Append(queue["transmit"], x)
  BY DEF QueueOK, Push, Keys, Lists
<1> QED
  BY <1>1 DEF NoEnd, Promise!Next, Promise!Enqueue

\* the first one that waits is taken when none is outstanding,
LEMMA Takes ==
  ASSUME QueueOK, queue["transmit"] # <<>>, outstandingReport = None,
         outstandingReport' = Head(queue["transmit"]),
         queue'["transmit"] = Tail(queue["transmit"]), NoEnd
  PROVE  Promise!Next
BY DEF NoEnd, Promise!Next, Promise!Take

\* one is lost or dropped on its way to the ack state,
LEMMA Discards ==
  ASSUME queue'["transmit"] = queue["transmit"], outstandingReport # None,
         outstandingReport' = None, NoEnd
  PROVE  Promise!Next
BY DEF NoEnd, Promise!Next, Promise!Settle, Promise!Discarded

\* and the one that is outstanding is acked or given up.
LEMMA Settles ==
  ASSUME queue'["transmit"] = queue["transmit"], NEW x \in Items, outstandingReport = x, x # None,
         outstandingReport' = None, NEW how \in {"acked", "failed"},
         outcome[x] \notin {"acked", "failed"},
         \A e \in Items : outcome'[e] = IF e = x THEN how ELSE outcome[e]
  PROVE  Promise!Next
<1>1. CASE how = "acked"
  <2>1. /\ {e \in Items : outcome'[e] = "acked"} = {e \in Items : outcome[e] = "acked"} \cup {x}
        /\ {e \in Items : outcome'[e] = "failed"} = {e \in Items : outcome[e] = "failed"}
    BY <1>1
  <2> QED
    BY <2>1 DEF Promise!Next, Promise!Settle, Promise!Acked
<1>2. CASE how = "failed"
  <2>1. /\ {e \in Items : outcome'[e] = "failed"} = {e \in Items : outcome[e] = "failed"} \cup {x}
        /\ {e \in Items : outcome'[e] = "acked"} = {e \in Items : outcome[e] = "acked"}
    BY <1>2
  <2> QED
    BY <2>1 DEF Promise!Next, Promise!Settle, Promise!Failed
<1> QED
  BY <1>1, <1>2

-----------------------------------------------------------------------------
\* A step of the queue router is one of the promise, or none.
Promised == Promise!Next \/ UNCHANGED Promise!vars

\* An item that was still at work ends neither acked nor failed.
LEMMA ConcludeNoEnd ==
  ASSUME NEW S, NEW how, how \notin {"acked", "failed"}, Conclude(S, how),
         \A e \in Items : e \in S => outcome[e] \notin {"acked", "failed"}
  PROVE  NoEnd
BY DEF Conclude, NoEnd

\* A push to another list leaves the transmit queue.
LEMMA PushElsewhere ==
  ASSUME QueueOK, NEW k, k # "transmit", NEW x, Push(k, x)
  PROVE  queue'["transmit"] = queue["transmit"]
BY DEF QueueOK, Push, Keys, Lists

\* The end of a turn leaves no report in the loop's hand.
LEMMA TurnEndsReport ==
  ASSUME TypeInv, NEW l \in Loops, NoteQueueResult(l) \/ Throw(l)
  PROVE  /\ ~Flying(loop'[l]) /\ \A m \in Loops : m # l => loop'[m] = loop[m]
         /\ \E s : Become(l, s) /\ ~Flying(s)
<1>1. PICK s \in {Idle, Checking} : Become(l, s)
  BY DEF NoteQueueResult, Throw
<1>2. s.op \in {"idle", "check"}
  BY DEF Idle, Checking
<1> QED
  BY <1>1, <1>2, NewState DEF Flying

\* The end of a process, or of its client, discards the report in a loop's hand.
LEMMA HandsEmptied ==
  ASSUME TypeInv, LoopInv, ItemsAssumption, \A l \in Loops : ~Flying(loop'[l]),
         UNCHANGED <<queue, ack>>, NoEnd
  PROVE  Promised
<1>1. outstandingReport' = ack.message
  BY StoredReportNext
<1>2. CASE \A l \in Loops : ~Flying(loop[l])
  <2>1. outstandingReport = ack.message
    BY <1>2, StoredReport
  <2> QED
    BY <1>1, <2>1, Stutters DEF Promised
<1>3. ASSUME NEW l \in Loops, Flying(loop[l]) PROVE Promised
  <2>1. ack.message = None /\ loop[l].item \in Items /\ \A m \in Loops : m # l => ~Flying(loop[m])
    BY <1>3 DEF Flying, LoopInv, HandFree, SingleLoop, Entry, TypeInv, HandOK
  <2>2. outstandingReport = loop[l].item /\ loop[l].item # None
    BY <1>3, <2>1, FlyingReport DEF ItemsAssumption
  <2> QED
    BY <1>1, <2>1, <2>2, Discards DEF Promised
<1> QED
  BY <1>2, <1>3

\* So it is when the process ends,
LEMMA ProcessEndsPromised ==
  ASSUME TypeInv, LoopInv, WorkInv, ItemsAssumption, ProcessEnds
  PROVE  Promised
<1>1. \A l \in Loops : ~Flying(loop'[l])
  BY DEF ProcessEnds, Idle, Flying
<1>2. PICK S : S = UNION ({InHand(l) : l \in Loops} \cup {route[r].held : r \in Routes})
  OBVIOUS
<1>3. \A e \in Items : e \in S => Handed(e) \/ Given(e)
  BY <1>2 DEF Handed, Given
<1>4. \A e \in Items : e \in S => outcome[e] = "live"
  BY <1>3 DEF WorkInv, Kept
<1>5. NoEnd
  BY <1>2, <1>4, ConcludeNoEnd DEF ProcessEnds
<1> QED
  BY <1>1, <1>5, HandsEmptied DEF ProcessEnds, redisVars, runVars

\* and when its client is lost.
LEMMA RedisErrorPromised ==
  ASSUME TypeInv, LoopInv, WorkInv, ItemsAssumption, RedisError
  PROVE  Promised
<1>1. PICK kept \in SUBSET Loops :
        /\ loop' = [l \in Loops |-> IF l \in kept THEN loop[l] ELSE Idle]
        /\ Conclude(UNION {InHand(l) : l \in Loops \ kept}, "lost")
  BY DEF RedisError
<1>2. PICK S : S = UNION {InHand(l) : l \in Loops \ kept}
  OBVIOUS
<1>3. \A e \in Items : e \in S => outcome[e] = "live"
  BY <1>2 DEF Handed, WorkInv, Kept
<1>4. NoEnd
  BY <1>1, <1>2, <1>3, ConcludeNoEnd
<1>5. UNCHANGED <<queue, ack>>
  BY DEF RedisError, redisVars
<1>6. ~Flying(Idle)
  BY DEF Flying, Idle
<1>7. CASE \A l \in Loops : ~Flying(loop'[l])
  BY <1>4, <1>5, <1>7, HandsEmptied
<1>8. CASE \E l \in Loops : Flying(loop'[l])
  <2>1. PICK l \in Loops : Flying(loop'[l])
    BY <1>8
  <2>2. loop'[l] = loop[l] /\ loop[l].op # "idle"
    BY <1>1, <1>6, <2>1 DEF Flying
  <2>3. \A m \in Loops : m # l => ~Flying(loop[m]) /\ ~Flying(loop'[m])
    BY <1>1, <1>6, <2>2 DEF LoopInv, SingleLoop, Flying
  <2>4. outstandingReport' = outstandingReport
    BY <1>5, <2>2, <2>3, SameReport
  <2> QED
    BY <1>4, <1>5, <2>4, Stutters DEF Promised
<1> QED
  BY <1>7, <1>8

\* The result of a command waits to be reported, or answers its destination.
LEMMA PushResultPromised ==
  ASSUME TypeInv, WorkInv, ItemsAssumption, NEW x \in Items, PushResult(x), outcome[x] = "live",
         outstandingReport' = outstandingReport
  PROVE  Promised
<1>1. QueueOK
  BY DEF TypeInv, TypeOK, QueueOK
<1>2. CASE Kind[x] = "web"
  <2>1. Conclude({x}, "answered") /\ UNCHANGED queue
    BY <1>2 DEF PushResult
  <2>2. NoEnd
    BY <2>1, ConcludeNoEnd
  <2> QED
    BY <2>1, <2>2, Stutters DEF Promised
<1>3. CASE Kind[x] # "web"
  <2>1. Push("transmit", x) /\ NoEnd
    BY <1>3 DEF PushResult, NoEnd
  <2> QED
    BY <1>1, <2>1, Enqueues DEF Promised
<1> QED
  BY <1>2, <1>3

\* brpop takes the first report that waits, when none is outstanding, or another entry.
LEMMA BrpopPromised ==
  ASSUME TypeInv, LoopInv, ItemsAssumption, NEW l \in Loops, Brpop(l)
  PROVE  Promised
<1>1. PICK k \in Waiting(l) :
        /\ queue' = [queue EXCEPT ![k] = Tail(@)]
        /\ Become(l, [loop[l] EXCEPT !.op = "popped", !.args = {}, !.from = k,
                        !.item = IF k = "ack" THEN None ELSE Head(queue[k]),
                        !.seq  = IF k = "ack" THEN Head(queue[k]) ELSE 0])
  BY DEF Brpop
<1>2. PICK s : s = [loop[l] EXCEPT !.op = "popped", !.args = {}, !.from = k,
                      !.item = IF k = "ack" THEN None ELSE Head(queue[k]),
                      !.seq  = IF k = "ack" THEN Head(queue[k]) ELSE 0]
  OBVIOUS
<1>3. /\ loop[l] \in LoopState /\ loop[l].op = "brpop" /\ UNCHANGED <<ack, outcome>>
      /\ k \in loop[l].args /\ queue[k] # <<>> /\ k \in Keys /\ QueueOK
  BY DEF Brpop, Waiting, TypeInv, TypeOK, LoopState, QueueOK, historyVars
<1>4. Become(l, s) /\ s.op = "popped" /\ s.from = k /\ (k # "ack" => s.item = Head(queue[k]))
  BY <1>1, <1>2, <1>3 DEF LoopState
<1>5. NoEnd
  BY <1>3 DEF NoEnd
<1>6. CASE k = "transmit"
  <2>1. ack.message = None /\ ~Flying(loop[l])
    BY <1>3, <1>6 DEF LoopInv, HandFree, Flying
  <2>2. queue["transmit"] \in Seq(Items) /\ queue["transmit"] # <<>>
    BY <1>3, <1>6 DEF QueueOK, Keys, Lists
  <2>3. ASSUME NEW q \in Seq(Items), q # <<>> PROVE Head(q) \in Items
    BY <2>3
  <2>4. s.item \in Items /\ s.item = Head(queue["transmit"]) /\ Flying(s)
    BY <1>4, <1>6, <2>2, <2>3 DEF Flying
  <2>5. outstandingReport = None /\ outstandingReport' = Head(queue["transmit"])
    BY <1>3, <1>4, <2>1, <2>4, OnlyReport DEF TheReport
  <2>6. queue'["transmit"] = Tail(queue["transmit"])
    BY <1>1, <1>3, <1>6 DEF QueueOK
  <2> QED
    BY <1>3, <1>5, <2>2, <2>5, <2>6, Takes DEF Promised
<1>7. CASE k # "transmit"
  <2>1. ~Flying(s) /\ ~Flying(loop[l])
    BY <1>3, <1>4, <1>7 DEF Flying
  <2>2. outstandingReport' = outstandingReport
    BY <1>3, <1>4, <2>1, OnlyReport DEF TheReport
  <2>3. queue'["transmit"] = queue["transmit"]
    BY <1>1, <1>3, <1>7 DEF QueueOK, Keys, Lists
  <2> QED
    BY <1>5, <2>2, <2>3, Stutters DEF Promised
<1> QED
  BY <1>6, <1>7

\* A report on its way to the ack state stays the outstanding one.
LEMMA AssemblePromised ==
  ASSUME TypeInv, LoopInv, ItemsAssumption, NEW l \in Loops, Flying(loop[l]), NEW n,
         AssembleMessage(l, loop[l].item, n), UNCHANGED queue
  PROVE  Promised
<1>1. PICK s : s = [Idle EXCEPT !.op = "mset", !.item = loop[l].item, !.seq = n]
  OBVIOUS
<1>2. s.op = "mset" /\ Become(l, s) /\ ack'.message = loop[l].item
  BY <1>1 DEF AssembleMessage, Idle
<1>3. loop[l].op # "idle" /\ ack.message = None
  BY DEF Flying, LoopInv, HandFree, Entry
<1>4. outstandingReport' = outstandingReport
  BY <1>2, <1>3, OnlyReport DEF TheReport, Flying
<1>5. NoEnd
  BY <1>3 DEF AssembleMessage, Conclude, NoEnd, ItemsAssumption
<1> QED
  BY <1>4, <1>5, Stutters DEF Promised

\* The end of the outstanding message is the end of the report.
LEMMA DelAckStatePromised ==
  ASSUME TypeInv, LoopInv, WorkInv, ItemsAssumption, NEW l \in Loops,
         loop[l].op \in {"brpop", "popped"}, ~Flying(loop[l]), NEW how \in {"acked", "failed"},
         DelAckState(l, how), NoteQueueResult(l), UNCHANGED queue, loop[l].seen.message # None
  PROVE  Promised
<1>1. /\ ack'.message = None /\ loop[l].seen = ack /\ ack.message \in Items
      /\ \A e \in Items : outcome'[e] = IF e = ack.message THEN how ELSE outcome[e]
  BY DEF DelAckState, NoAck, LoopInv, SeenFresh, TypeInv, TypeOK, AckState
<1>2. PICK s : Become(l, s) /\ ~Flying(s)
  BY TurnEndsReport
<1>3. outstandingReport = ack.message /\ outstandingReport' = None
  BY <1>1, <1>2, OnlyReport DEF TheReport
<1>4. outcome[ack.message] = "live"
  BY <1>1 DEF WorkInv, Kept, Stored
<1>5. PICK x \in Items : x = ack.message
  BY <1>1
<1> QED
  BY <1>1, <1>3, <1>4, <1>5, Settles DEF Promised, ItemsAssumption

\* Each step of a loop is a step of the promise.
LEMMA LoopStepPromised ==
  ASSUME TypeInv, LoopInv, WorkInv, ItemsAssumption, NEW l \in Loops, LoopStep(l)
  PROVE  Promised
<1> USE DEF redisVars, runVars, historyVars
<1>0. loop[l] \in LoopState /\ ack \in AckState /\ QueueOK
  BY DEF TypeInv, TypeOK, QueueOK
<1>1. CASE CheckQueue(l)
  <2>1. CASE router = "broken" /\ ProcessEnds
    BY <2>1, ProcessEndsPromised
  <2>2. CASE \E s \in {Idle, [Checking EXCEPT !.op = "mget", !.seen = ack]} :
               Become(l, s) /\ UNCHANGED outcome
    <3>1. PICK s \in {Idle, [Checking EXCEPT !.op = "mget", !.seen = ack]} :
            Become(l, s) /\ UNCHANGED outcome
      BY <2>2
    <3>2. ~Flying(s) /\ ~Flying(loop[l])
      <4>1. s.op \in {"idle", "mget"}
        <5>1. Idle.op = "idle" /\ [Checking EXCEPT !.op = "mget", !.seen = ack].op = "mget"
          BY DEF Idle, Checking
        <5> QED
          BY <3>1, <5>1
      <4>2. loop[l].op = "check"
        BY <1>1 DEF CheckQueue
      <4> QED
        BY <4>1, <4>2 DEF Flying
    <3>3. outstandingReport' = outstandingReport
      BY <1>1, <3>1, <3>2, NewState, SameReport DEF CheckQueue
    <3> QED
      BY <1>1, <3>1, <3>3, Stutters DEF CheckQueue, NoEnd, Promised
  <2> QED
    BY <1>1, <2>1, <2>2 DEF CheckQueue
<1>2. CASE GetAckState(l) \/ IncrRetries(l)
  <2>1. PICK s \in {[loop[l] EXCEPT !.op = "brpop", !.args = SetQueueArgs(loop[l].seen)],
                    [loop[l] EXCEPT !.op = "incrRetries", !.args = {}]} : Become(l, s)
    BY <1>2 DEF GetAckState, IncrRetries
  <2>2. s.op \in {"brpop", "incrRetries"} /\ loop[l].op \in {"mget", "brpop"}
    BY <1>0, <1>2, <2>1 DEF GetAckState, IncrRetries, PendingMessage, TimedOut, LoopState
  <2>3. ack'.message = ack.message /\ UNCHANGED <<queue, outcome>>
    BY <1>0, <1>2 DEF GetAckState, IncrRetries, AckState
  <2>4. outstandingReport' = outstandingReport
    BY <2>1, <2>2, <2>3, NewState, SameReport DEF Flying
  <2> QED
    BY <2>3, <2>4, Stutters DEF NoEnd, Promised
<1>3. CASE NoteIdle(l) \/ IncrTicks(l) \/ Retransmit(l) \/ IgnoreAck(l) \/ Transmit(l)
  <2>1. NoteQueueResult(l) /\ UNCHANGED <<queue, outcome>>
    BY <1>3 DEF NoteIdle, IncrTicks, Retransmit, IgnoreAck, Transmit
  <2>2. ~Flying(loop[l])
    BY <1>3 DEF NoteIdle, IncrTicks, PendingMessage, TimedOut, Retransmit, IgnoreAck, Entry, Transmit,
                Flying
  <2>3. ack'.message = ack.message
    BY <1>0, <1>3 DEF NoteIdle, IncrTicks, Retransmit, IgnoreAck, Transmit, AckState
  <2>4. outstandingReport' = outstandingReport
    BY <2>1, <2>2, <2>3, TurnEndsReport, SameReport
  <2> QED
    BY <2>1, <2>4, Stutters DEF NoEnd, Promised
<1>4. CASE TooManyRetries(l)
  <2>1. /\ loop[l].op = "brpop" /\ loop[l].seen.message # None /\ DelAckState(l, "failed")
        /\ NoteQueueResult(l) /\ UNCHANGED queue
    BY <1>4 DEF TooManyRetries, PendingMessage, TimedOut
  <2>2. ~Flying(loop[l])
    BY <2>1 DEF Flying
  <2> QED
    BY <2>1, <2>2, DelAckStatePromised
<1>5. CASE ProcessAck(l)
  <2>1. /\ loop[l].op = "popped" /\ loop[l].from = "ack" /\ loop[l].seen.message # None
        /\ DelAckState(l, "acked") /\ NoteQueueResult(l) /\ UNCHANGED queue
    BY <1>5 DEF ProcessAck, MatchingAck, Entry
  <2>2. ~Flying(loop[l])
    BY <2>1 DEF Flying
  <2> QED
    BY <2>1, <2>2, DelAckStatePromised
<1>6. CASE DropEntry(l) \/ ThrowWithoutClient(l)
  <2>1. /\ NoteQueueResult(l) \/ Throw(l)
        /\ UNCHANGED <<queue, ack>> /\ loop[l].op # "idle"
    BY <1>6, LoopStepBusy DEF DropEntry, ThrowWithoutClient
  <2>2. PICK how \in {"dropped", "lost"} : Conclude(InHand(l), how)
    BY <1>6 DEF DropEntry, ThrowWithoutClient
  <2>3. NoEnd
    BY <2>2, HandAlone, ConcludeNoEnd
  <2>4. PICK s : Become(l, s) /\ ~Flying(s)
    BY <2>1, TurnEndsReport
  <2>5. outstandingReport = TheReport(loop[l], ack) /\ outstandingReport' = ack.message
    BY <2>1, <2>4, OnlyReport DEF TheReport
  <2>6. CASE Flying(loop[l])
    <3>1. ack.message = None /\ loop[l].item \in Items
      BY <2>6 DEF Flying, LoopInv, HandFree, Entry, TypeInv, HandOK
    <3> QED
      BY <2>1, <2>3, <2>5, <2>6, <3>1, Discards DEF TheReport, Promised, ItemsAssumption
  <2>7. CASE ~Flying(loop[l])
    BY <2>1, <2>3, <2>5, <2>7, Stutters DEF TheReport, Promised
  <2> QED
    BY <2>6, <2>7
<1>7. CASE ProcessCommand(l)
  <2>1. /\ loop[l].op = "popped" /\ loop[l].from = "command" /\ NoteQueueResult(l)
        /\ UNCHANGED <<ack, outcome>> /\ Push(Target[loop[l].item], loop[l].item)
    BY <1>7 DEF ProcessCommand, Entry
  <2>2. loop[l].item \in Items
    BY <2>1 DEF TypeInv, HandOK
  <2>3. Target[loop[l].item] # "transmit"
    BY <2>2 DEF ItemsAssumption, Lists
  <2>4. queue'["transmit"] = queue["transmit"]
    BY <1>0, <2>1, <2>3, PushElsewhere
  <2>5. outstandingReport' = outstandingReport
    BY <2>1, TurnEndsReport, SameReport DEF Flying
  <2> QED
    BY <2>1, <2>4, <2>5, Stutters DEF NoEnd, Promised
<1>8. CASE ProcessTransmit(l)
  <2>1. Flying(loop[l]) /\ UNCHANGED queue /\ loop[l].op # "idle"
    BY <1>8 DEF ProcessTransmit, Entry, Flying
  <2>2. CASE AssembleMessage(l, loop[l].item, OwnSeq[loop[l].item])
    BY <2>1, <2>2, AssemblePromised
  <2>3. CASE /\ Become(l, [Idle EXCEPT !.op = "incrSeq", !.item = loop[l].item,
                                       !.seq = (lastSeq % SeqMod) + 1])
             /\ UNCHANGED <<ack, outcome>>
    <3>1. PICK s : s = [Idle EXCEPT !.op = "incrSeq", !.item = loop[l].item,
                                    !.seq = (lastSeq % SeqMod) + 1]
      OBVIOUS
    <3>2. Become(l, s) /\ Flying(s) /\ s.item = loop[l].item
      BY <2>3, <3>1 DEF Idle, Flying
    <3>3. ack'.message = None /\ loop[l].item \in Items
      BY <2>1, <2>3 DEF Flying, LoopInv, HandFree, Entry, TypeInv, HandOK
    <3>4. outstandingReport' = outstandingReport
      BY <2>1, <3>2, <3>3, OnlyReport DEF TheReport
    <3> QED
      BY <2>1, <2>3, <3>4, Stutters DEF NoEnd, Promised
  <2> QED
    BY <1>8, <2>2, <2>3 DEF ProcessTransmit
<1>9. CASE GenerateMessage(l)
  <2>1. Flying(loop[l]) /\ UNCHANGED queue
    BY <1>9 DEF GenerateMessage, Flying
  <2> QED
    BY <1>9, <2>1, AssemblePromised DEF GenerateMessage
<1>10. CASE ProcessRoute(l)
  <2>1. PICK r \in Routes :
          /\ Entry(l, r)
          /\ \/ UNCHANGED <<queue, outcome>>
             \/ PushResult(loop[l].item)
             \/ Conclude({loop[l].item}, "lost") /\ UNCHANGED queue
    BY <1>10 DEF ProcessRoute
  <2>2. r \notin Lists
    BY DEF ItemsAssumption
  <2>3. /\ ~Flying(loop[l]) /\ loop[l].op = "popped" /\ loop[l].from # "ack"
        /\ UNCHANGED ack /\ (NoteQueueResult(l) \/ Throw(l))
    BY <1>10, <2>1, <2>2 DEF Entry, Flying, Lists, ProcessRoute
  <2>4. PICK x : x = loop[l].item /\ x \in InHand(l)
    BY <2>3, EntryInHand
  <2>5. x \in Items /\ outcome[x] = "live"
    BY <2>4, HandAlone
  <2>6. outstandingReport' = outstandingReport
    BY <2>3, TurnEndsReport, SameReport
  <2>7. CASE UNCHANGED <<queue, outcome>>
    BY <2>6, <2>7, Stutters DEF NoEnd, Promised
  <2>8. CASE PushResult(loop[l].item)
    BY <2>4, <2>5, <2>6, <2>8, PushResultPromised
  <2>9. CASE Conclude({loop[l].item}, "lost") /\ UNCHANGED queue
    <3>1. NoEnd
      BY <2>4, <2>5, <2>9, ConcludeNoEnd
    <3> QED
      BY <2>6, <2>9, <3>1, Stutters DEF Promised
  <2> QED
    BY <2>1, <2>7, <2>8, <2>9
<1> QED
  BY <1>1, <1>2, <1>3, <1>4, <1>5, <1>6, <1>7, <1>8, <1>9, <1>10, BrpopPromised DEF LoopStep

\* So is every other step.
LEMMA NextPromised ==
  ASSUME TypeInv, LoopInv, WorkInv, [Next]_vars, ItemsAssumption
  PROVE  [Promise!Next]_(Promise!vars)
<1> USE DEF vars, redisVars, runVars, historyVars
<1>0. QueueOK
  BY DEF TypeInv, TypeOK, QueueOK
<1>1. CASE Start
  <2>1. PICK l \in Loops : loop[l].op = "idle" /\ NoteQueueResult(l)
    BY <1>1 DEF Start
  <2>2. outstandingReport' = outstandingReport
    BY <1>1, <2>1, TurnEndsReport, SameReport DEF Flying, Start
  <2> QED
    BY <1>1, <2>2, Stutters DEF Start, NoEnd
<1>2. CASE RedisError \/ Crash
  BY <1>2, RedisErrorPromised, ProcessEndsPromised DEF Crash, Promised
<1>3. CASE \E l \in Loops : LoopStep(l)
  BY <1>3, LoopStepPromised DEF Promised
<1>4. ASSUME UNCHANGED <<loop, ack>> PROVE outstandingReport' = outstandingReport
  BY <1>4, SameReport
<1>5. CASE Stop \/ UNCHANGED vars
  BY <1>4, <1>5, Stutters DEF Stop, NoEnd
<1>6. ASSUME NEW r \in Routes, RouteStep(r) PROVE Promised
  <2>1. UNCHANGED <<queue, loop, ack>>
    BY <1>6 DEF RouteStep
  <2>2. NoEnd
    <3>1. CASE UNCHANGED outcome
      BY <3>1 DEF NoEnd
    <3>2. CASE RouteReset(r)
      <4>1. PICK S \in SUBSET route[r].held : Conclude(S, "lost")
        BY <3>2 DEF RouteReset
      <4>2. \A e \in Items : e \in S => outcome[e] = "live"
        BY <4>1 DEF WorkInv, Kept, Given
      <4> QED
        BY <4>1, <4>2, ConcludeNoEnd
    <3> QED
      BY <1>6, <3>1, <3>2 DEF RouteStep
  <2> QED
    BY <1>4, <2>1, <2>2, Stutters DEF Promised
<1>7. ASSUME NEW r \in Routes, NEW x \in Items, Answer(r, x) PROVE Promised
  <2>1. UNCHANGED <<loop, ack>> /\ PushResult(x) /\ x \in route[r].held
    BY <1>7 DEF Answer
  <2>2. outcome[x] = "live"
    BY <2>1 DEF WorkInv, Kept, Given
  <2> QED
    BY <1>4, <2>1, <2>2, PushResultPromised
<1>8. ASSUME NEW x \in Items, Submit(x) PROVE Promised
  <2>1. /\ UNCHANGED <<loop, ack>> /\ Push(EntryList(x), x)
        /\ outcome[x] = "new" /\ Conclude({x}, "live")
    BY <1>8 DEF Submit
  <2>2. NoEnd
    BY <2>1, ConcludeNoEnd
  <2>3. CASE EntryList(x) = "transmit"
    BY <1>0, <1>4, <2>1, <2>2, <2>3, Enqueues DEF Promised
  <2>4. CASE EntryList(x) # "transmit"
    BY <1>0, <1>4, <2>1, <2>2, <2>4, PushElsewhere, Stutters DEF Promised
  <2> QED
    BY <2>3, <2>4
<1>9. ASSUME NEW x \in Items, GatewayAck(x) PROVE Promised
  <2>1. UNCHANGED <<loop, ack, outcome>> /\ \E n : Push("ack", n)
    BY <1>9 DEF GatewayAck
  <2> QED
    BY <1>0, <1>4, <2>1, PushElsewhere, Stutters DEF NoEnd, Promised
<1> QED
  BY <1>1, <1>2, <1>3, <1>5, <1>6, <1>7, <1>8, <1>9 DEF Next, Promised

\* At first nothing waits and nothing is outstanding.
LEMMA InitPromised ==
  ASSUME Init, ItemsAssumption
  PROVE  Promise!Init
<1>1. \A l \in Loops : ~Flying(loop[l])
  BY InitLoop DEF Flying
<1>2. outstandingReport = None
  BY <1>1, StoredReport DEF Init, NoAck
<1>3. queue["transmit"] = <<>> /\ \A e \in Items : outcome[e] \notin {"acked", "failed"}
  BY DEF Init, Keys, Lists
<1> QED
  BY <1>2, <1>3 DEF Promise!Init

\* The queue router implements the promise of its transmit side, by every step up to the
\* one with which check loops overlap for the first time: reports are taken one at a time
\* and in their order, and each one ends once, acked, given up or discarded, before the
\* next is taken, whatever stops, crashes, lost connections and resets happen.
THEOREM StopAndWaitRefined == Spec => StopAndWaitSpec
<1> DEFINE IInv == TypeInv /\ AloneInv /\ WorkInv
<1>1. Init => IInv
  BY InitType, InitLoop, InitWork, ItemsAssumption
<1>2. IInv /\ [Next]_vars => IInv'
  BY NextType, NextAlone, NextWork, ItemsAssumption, BoundsAssumption
<1>3. Init => Promise!Init
  BY InitPromised, ItemsAssumption
<1>4. IInv /\ [Next]_vars => [~overlapped' => Promise!Next]_(Promise!vars)
  <2> SUFFICES ASSUME IInv, [Next]_vars, ~overlapped'
               PROVE  [Promise!Next]_(Promise!vars)
    OBVIOUS
  <2>1. LoopInv
    BY RunStays DEF AloneInv
  <2> QED
    BY <2>1, NextPromised, ItemsAssumption
<1> QED
  BY <1>1, <1>2, <1>3, <1>4, PTL DEF Spec, StopAndWaitSpec

-----------------------------------------------------------------------------
(* An ack settles the report it is for *)

\* The reports that carry no number of their own, and what the numbers must be for an
\* ack to be told from every other: as many as there are reports to number, and none of
\* them the number that another report carries.
Numbered == {e \in Items : OwnSeq[e] = 0}
EnoughNumbers ==
  /\ IsFiniteSet(Numbered) /\ Cardinality(Numbered) <= SeqMod
  /\ \A e \in Items \ Numbered : /\ OwnSeq[e] \notin 1..SeqMod
                                 /\ \A f \in Items : OwnSeq[f] = OwnSeq[e] => f = e

\* The number of a report: its own, the one it was sent with, is stored with, or has in
\* the memory of a loop.
SentAs(e, n) == \E i \in 1..Len(sent[e]) : sent[e][i].seq = n
StoredAs(e, n) == ack.message = e /\ ack.seq = n
KnownAs(state, e, n) ==
  \/ state.op \in {"incrSeq", "mset"} /\ state.item = e /\ state.seq = n
  \/ state.seen.message = e /\ state.seen.seq = n
Claims(e, n) ==
  \/ OwnSeq[e] # 0 /\ OwnSeq[e] = n
  \/ SentAs(e, n) \/ StoredAs(e, n)
  \/ \E l \in Loops : KnownAs(loop[l], e, n)

\* A report to number that has no number yet, or never gets one.
Undrawn(e) ==
  \/ outcome[e] = "new"
  \/ /\ outcome[e] = "live" /\ ack.message # e
     /\ \A l \in Loops : loop[l].op = "incrSeq" => loop[l].item # e
Drawn == {e \in Numbered : ~Undrawn(e)}

\* The gateway received a report under a number.
Received(n) == \E e \in Items : gatewayAcks[e] > 0 /\ SentAs(e, n)
AcksReceived ==
  /\ \A i \in 1..Len(queue["ack"]) : Received(queue["ack"][i])
  /\ \A l \in Loops : Entry(l, "ack") => Received(loop[l].seq)

\* Every number drawn is the number of one report, no two reports have the same, and every
\* ack on its way carries the number of a report that was received.
NumberInv ==
  /\ lastSeq <= Cardinality(Drawn)
  /\ \A e \in Items : \A n : Claims(e, n) => IF OwnSeq[e] = 0 THEN n \in 1..lastSeq ELSE n = OwnSeq[e]
  /\ \A e, f \in Items : \A n : Claims(e, n) /\ Claims(f, n) => e = f
  /\ AcksReceived /\ AckedWasReceived

\* What a step keeps: the numbers of a report, the reports without a number, the acks.
OldClaims == \A e \in Items : \A n : Claims(e, n)' => Claims(e, n)
OldUndrawn == \A e \in Items : Undrawn(e)' => Undrawn(e)
OldAcks == AcksReceived' /\ AckedWasReceived'

\* Such a step keeps the invariant.
LEMMA NumbersFrame ==
  ASSUME NumberInv, EnoughNumbers, UNCHANGED lastSeq, lastSeq \in Nat, OldClaims, OldUndrawn, OldAcks
  PROVE  NumberInv'
<1>1. lastSeq' <= Cardinality(Drawn')
  <2>1. IsFiniteSet(Numbered) /\ Drawn' \subseteq Numbered /\ Drawn \subseteq Drawn'
    BY DEF EnoughNumbers, OldUndrawn, Drawn, Numbered
  <2>2. IsFiniteSet(Drawn') /\ IsFiniteSet(Drawn)
    BY <2>1, FS_Subset
  <2>3. /\ Cardinality(Drawn) \in Nat /\ Cardinality(Drawn') \in Nat
        /\ Cardinality(Drawn) <= Cardinality(Drawn')
    BY <2>1, <2>2, FS_Subset, FS_CardinalityType
  <2>4. lastSeq <= Cardinality(Drawn)
    BY DEF NumberInv
  <2> QED
    BY <2>3, <2>4
<1>2. \A e \in Items : \A n : Claims(e, n)' =>
        IF OwnSeq[e] = 0 THEN n \in 1..lastSeq' ELSE n = OwnSeq[e]
  BY DEF NumberInv, OldClaims
<1>3. \A e, f \in Items : \A n : Claims(e, n)' /\ Claims(f, n)' => e = f
  BY DEF NumberInv, OldClaims
<1> QED
  BY <1>1, <1>2, <1>3 DEF OldAcks, NumberInv

\* Where the reports with a number come from: a stored one stays stored or ends, and so does
\* one that draws its number.
LEMMA UndrawnStep ==
  ASSUME \A e \in Items : /\ outcome'[e] = "new" => outcome[e] = "new"
                          /\ outcome'[e] = "live" => outcome[e] \in {"new", "live"},
         \A e \in Items : ack.message = e => ack'.message = e \/ outcome'[e] \notin {"new", "live"},
         \A l \in Loops : loop[l].op = "incrSeq" =>
           \/ loop'[l] = loop[l] \/ ack'.message = loop[l].item
           \/ outcome'[loop[l].item] \notin {"new", "live"}
  PROVE  OldUndrawn
<1> SUFFICES ASSUME NEW e \in Items, Undrawn(e)' PROVE Undrawn(e)
  BY DEF OldUndrawn
<1>1. CASE outcome'[e] = "new"
  BY <1>1 DEF Undrawn
<1>2. CASE outcome'[e] = "live" /\ outcome[e] = "live"
  <2>1. ack'.message # e /\ ack.message # e
    BY <1>2 DEF Undrawn
  <2>2. ASSUME NEW l \in Loops, loop[l].op = "incrSeq", loop[l].item = e PROVE FALSE
    BY <1>2, <2>1, <2>2 DEF Undrawn
  <2> QED
    BY <1>2, <2>1, <2>2 DEF Undrawn
<1> QED
  BY <1>1, <1>2 DEF Undrawn

\* A step after which no loop knows another number, none is stored and none sent.
LEMMA ClaimsStep ==
  ASSUME UNCHANGED sent,
         \A e \in Items : \A n : StoredAs(e, n)' => Claims(e, n),
         \A l \in Loops : \A e \in Items : \A n : KnownAs(loop'[l], e, n) => Claims(e, n)
  PROVE  OldClaims
<1>1. \A e \in Items : \A n : SentAs(e, n)' => SentAs(e, n)
  BY DEF SentAs
<1> QED
  BY <1>1 DEF OldClaims, Claims

\* A step that sends, acknowledges and pops no ack.
LEMMA AcksStep ==
  ASSUME NumberInv, UNCHANGED <<sent, gatewayAcks>>, queue'["ack"] = queue["ack"],
         \A l \in Loops : loop'[l] = loop[l] \/ loop'[l].op # "popped" \/ loop'[l].from # "ack",
         \A e \in Items : outcome'[e] = "acked" => outcome[e] = "acked" \/ gatewayAcks[e] > 0
  PROVE  OldAcks
<1>1. \A n : Received(n)' <=> Received(n)
  BY DEF Received, SentAs
<1>2. (\A i \in 1..Len(queue["ack"]) : Received(queue["ack"][i]))'
  BY <1>1 DEF NumberInv, AcksReceived
<1>3. (\A l \in Loops : Entry(l, "ack") => Received(loop[l].seq))'
  BY <1>1 DEF NumberInv, AcksReceived, Entry
<1>4. AckedWasReceived'
  BY DEF NumberInv, AckedWasReceived
<1> QED
  BY <1>2, <1>3, <1>4 DEF OldAcks, AcksReceived

\* Sending once more under a number that the report has.
LEMMA SendNumbers ==
  ASSUME TypeInv, NumberInv, NEW x \in Items, NEW m, NEW toggle, Claims(x, m),
         TransmitMessage(x, m, toggle), UNCHANGED <<queue, ack, gatewayAcks, outcome>>,
         \A l \in Loops : \A e \in Items : \A n : KnownAs(loop'[l], e, n) => Claims(e, n),
         \A l \in Loops : loop'[l] = loop[l] \/ loop'[l].op \in {"idle", "check"}
  PROVE  OldClaims /\ OldAcks
<1>1. /\ \A e \in Items : e # x => sent'[e] = sent[e]
      /\ Len(sent[x]) \in Nat /\ Len(sent'[x]) = Len(sent[x]) + 1
      /\ \A i \in 1..Len(sent[x]) : sent'[x][i] = sent[x][i]
      /\ sent'[x][Len(sent[x]) + 1] =
           [seq |-> m, relay |-> IF toggle THEN "secondary" ELSE "primary"]
  BY TransmitMessageSent
<1>2. \A i \in 1..Len(sent[x]) : i \in 1..Len(sent'[x])
  BY <1>1
<1>3. ASSUME NEW i \in 1..Len(sent'[x]) PROVE i \in 1..Len(sent[x]) \/ i = Len(sent[x]) + 1
  BY <1>1
<1>4. sent'[x][Len(sent[x]) + 1].seq = m
  BY <1>1
<1>5. \A e \in Items : \A n : SentAs(e, n) => SentAs(e, n)'
  BY <1>1, <1>2 DEF SentAs
<1>6. \A n : SentAs(x, n)' => SentAs(x, n) \/ n = m
  BY <1>1, <1>3, <1>4 DEF SentAs
<1>7. \A e \in Items : \A n : SentAs(e, n)' => Claims(e, n)
  BY <1>1, <1>6 DEF SentAs, Claims
<1>8. OldClaims
  BY <1>7 DEF OldClaims, Claims, StoredAs
<1>9. \A n : Received(n) => Received(n)'
  BY <1>5 DEF Received
<1>10. (\A i \in 1..Len(queue["ack"]) : Received(queue["ack"][i]))'
  BY <1>9 DEF NumberInv, AcksReceived
<1>11. (\A l \in Loops : Entry(l, "ack") => Received(loop[l].seq))'
  BY <1>9 DEF NumberInv, AcksReceived, Entry
<1>12. AckedWasReceived'
  BY DEF NumberInv, AckedWasReceived
<1> QED
  BY <1>8, <1>10, <1>11, <1>12 DEF OldAcks, AcksReceived

\* At the end of a turn a loop knows no number.
LEMMA TurnEndsNumbers ==
  ASSUME TypeInv, ItemsAssumption, NEW l \in Loops, NoteQueueResult(l) \/ Throw(l)
  PROVE  /\ \A m \in Loops : \A e \in Items : \A n : KnownAs(loop'[m], e, n) => Claims(e, n)
         /\ loop'[l].op \in {"idle", "check"}
         /\ \A m \in Loops : m # l => loop'[m] = loop[m]
<1>1. PICK s \in {Idle, Checking} : Become(l, s)
  BY DEF NoteQueueResult, Throw
<1>2. s.op \in {"idle", "check"} /\ s.seen = NoAck
  BY DEF Idle, Checking
<1>3. \A e \in Items : \A n : ~KnownAs(s, e, n)
  BY <1>2 DEF KnownAs, NoAck, ItemsAssumption
<1>4. loop'[l] = s /\ \A m \in Loops : m # l => loop'[m] = loop[m]
  BY <1>1, NewState
<1> QED
  BY <1>2, <1>3, <1>4 DEF Claims

\* A number is drawn for a report that has none: it is the number of no other.
LEMMA DrawNumber ==
  ASSUME TypeInv, NumberInv, EnoughNumbers, ItemsAssumption, BoundsAssumption,
         NEW x \in Items, OwnSeq[x] = 0, Undrawn(x), ~Undrawn(x)', lastSeq' = lastSeq + 1,
         \A e \in Items : \A n : Claims(e, n)' => Claims(e, n) \/ (e = x /\ n = (lastSeq % SeqMod) + 1),
         OldUndrawn, OldAcks
  PROVE  NumberInv'
<1>1. lastSeq \in Nat /\ SeqMod \in Nat \ {0} /\ lastSeq <= Cardinality(Drawn)
  BY DEF TypeInv, TypeOK, BoundsAssumption, NumberInv
<1>2. /\ IsFiniteSet(Numbered) /\ Cardinality(Numbered) <= SeqMod
      /\ Drawn \subseteq Numbered /\ Drawn' \subseteq Numbered
      /\ x \notin Drawn /\ Drawn \cup {x} \subseteq Drawn'
  BY DEF EnoughNumbers, Drawn, Numbered, OldUndrawn
<1>3. IsFiniteSet(Drawn) /\ IsFiniteSet(Drawn') /\ IsFiniteSet(Drawn \cup {x})
  BY <1>2, FS_Subset, FS_AddElement
<1>4. Cardinality(Drawn \cup {x}) = Cardinality(Drawn) + 1
  BY <1>2, <1>3, FS_AddElement
<1>5. /\ Cardinality(Drawn \cup {x}) <= Cardinality(Drawn')
      /\ Cardinality(Drawn') <= Cardinality(Numbered)
  BY <1>2, <1>3, FS_Subset
<1>6. /\ Cardinality(Drawn) \in Nat /\ Cardinality(Drawn') \in Nat /\ Cardinality(Numbered) \in Nat
  BY <1>2, <1>3, FS_CardinalityType
<1>7. lastSeq' <= Cardinality(Drawn') /\ lastSeq < SeqMod
  BY <1>1, <1>2, <1>4, <1>5, <1>6
<1>8. lastSeq % SeqMod = lastSeq
  BY <1>1, <1>7
<1>9. \A e \in Items : \A n : Claims(e, n)' => Claims(e, n) \/ (e = x /\ n = lastSeq')
  BY <1>8
<1>10. ASSUME NEW e \in Items, NEW n, Claims(e, n)'
       PROVE  IF OwnSeq[e] = 0 THEN n \in 1..lastSeq' ELSE n = OwnSeq[e]
  <2>1. CASE Claims(e, n)
    <3>1. IF OwnSeq[e] = 0 THEN n \in 1..lastSeq ELSE n = OwnSeq[e]
      BY <2>1 DEF NumberInv
    <3> QED
      BY <1>1, <3>1
  <2>2. CASE e = x /\ n = lastSeq'
    BY <1>1, <2>2
  <2> QED
    BY <1>9, <1>10, <2>1, <2>2
<1>11. ASSUME NEW e \in Items, Claims(e, lastSeq') PROVE FALSE
  <2>1. IF OwnSeq[e] = 0 THEN lastSeq' \in 1..lastSeq ELSE lastSeq' = OwnSeq[e]
    BY <1>11 DEF NumberInv
  <2>2. CASE OwnSeq[e] = 0
    BY <1>1, <2>1, <2>2
  <2>3. CASE OwnSeq[e] # 0
    <3>1. lastSeq' \in 1..SeqMod
      BY <1>1, <1>7
    <3> QED
      BY <2>1, <2>3, <3>1 DEF EnoughNumbers, Numbered
  <2> QED
    BY <2>2, <2>3
<1>12. \A e, f \in Items : \A n : Claims(e, n)' /\ Claims(f, n)' => e = f
  BY <1>9, <1>11 DEF NumberInv
<1> QED
  BY <1>7, <1>10, <1>12 DEF OldAcks, NumberInv

-----------------------------------------------------------------------------
\* A step that draws, sends and acknowledges nothing.
LEMMA QuietNumbers ==
  ASSUME TypeInv, NumberInv, EnoughNumbers, OldUndrawn,
         UNCHANGED <<lastSeq, sent, gatewayAcks>>, queue'["ack"] = queue["ack"],
         \A e \in Items : \A n : StoredAs(e, n)' => Claims(e, n),
         \A l \in Loops : \A e \in Items : \A n : KnownAs(loop'[l], e, n) => Claims(e, n),
         \A l \in Loops : loop'[l] = loop[l] \/ loop'[l].op # "popped" \/ loop'[l].from # "ack",
         \A e \in Items : outcome'[e] = "acked" => outcome[e] = "acked" \/ gatewayAcks[e] > 0
  PROVE  NumberInv'
<1>1. lastSeq \in Nat
  BY DEF TypeInv, TypeOK
<1> QED
  BY <1>1, ClaimsStep, AcksStep, NumbersFrame

\* Nothing becomes new or live again.
NoRevival == \A e \in Items : /\ outcome'[e] = "new" => outcome[e] = "new"
                              /\ outcome'[e] = "live" => outcome[e] \in {"new", "live"}
                              /\ outcome'[e] = "acked" => outcome[e] = "acked"

\* An end other than by an ack.
LEMMA ConcludeNoRevival ==
  ASSUME NEW S, NEW how \in {"failed", "dropped", "answered", "lost"}, Conclude(S, how)
  PROVE  NoRevival
BY DEF Conclude, NoRevival

\* The turn of a loop that ends, and with it the work in its hand.
LEMMA TurnEndsKeepsNumbers ==
  ASSUME TypeInv, NumberInv, EnoughNumbers, ItemsAssumption, NEW l \in Loops,
         NoteQueueResult(l) \/ Throw(l), NoRevival,
         loop[l].op = "incrSeq" => outcome'[loop[l].item] \notin {"new", "live"},
         UNCHANGED <<lastSeq, sent, gatewayAcks>>, queue'["ack"] = queue["ack"],
         ack'.message = ack.message, ack'.seq = ack.seq
  PROVE  NumberInv'
<1>1. /\ \A m \in Loops : \A e \in Items : \A n : KnownAs(loop'[m], e, n) => Claims(e, n)
      /\ \A m \in Loops : loop'[m] = loop[m] \/ loop'[m].op # "popped"
      /\ \A m \in Loops : m # l => loop'[m] = loop[m]
  BY TurnEndsNumbers
<1>2. OldUndrawn
  BY <1>1, UndrawnStep DEF NoRevival
<1>3. \A e \in Items : \A n : StoredAs(e, n)' => Claims(e, n)
  BY DEF StoredAs, Claims
<1> QED
  BY <1>1, <1>2, <1>3, QuietNumbers DEF NoRevival

\* A loop that goes on with the ack state it has seen, or reads it.
LEMMA GoesOnNumbers ==
  ASSUME TypeInv, NumberInv, EnoughNumbers, ItemsAssumption, NEW l \in Loops, NEW s, Become(l, s),
         s.op \in {"mget", "brpop", "incrRetries"}, s.seen \in {loop[l].seen, ack},
         loop[l].op # "incrSeq",
         UNCHANGED <<queue, lastSeq, sent, gatewayAcks, outcome>>,
         ack'.message = ack.message, ack'.seq = ack.seq
  PROVE  NumberInv'
<1>1. loop'[l] = s /\ \A m \in Loops : m # l => loop'[m] = loop[m]
  BY NewState
<1>2. \A e \in Items : \A n : KnownAs(s, e, n) => Claims(e, n)
  BY DEF KnownAs, Claims, StoredAs
<1>3. \A m \in Loops : \A e \in Items : \A n : KnownAs(loop'[m], e, n) => Claims(e, n)
  BY <1>1, <1>2 DEF Claims
<1>4. \A m \in Loops : loop'[m] = loop[m] \/ loop'[m].op # "popped"
  BY <1>1
<1>5. OldUndrawn
  BY <1>1, UndrawnStep
<1>6. \A e \in Items : \A n : StoredAs(e, n)' => Claims(e, n)
  BY DEF StoredAs, Claims
<1> QED
  BY <1>3, <1>4, <1>5, <1>6, QuietNumbers

\* A report is stored under a number it has.
LEMMA AssembleMessageNumbers ==
  ASSUME TypeInv, WorkInv, NumberInv, EnoughNumbers, ItemsAssumption, NEW l \in Loops,
         NEW x \in InHand(l), NEW m, Claims(x, m), AssembleMessage(l, x, m),
         UNCHANGED <<queue, lastSeq, sent, gatewayAcks>>
  PROVE  NumberInv'
<1>1. PICK s : s = [Idle EXCEPT !.op = "mset", !.item = x, !.seq = m]
  OBVIOUS
<1>2. s.op = "mset" /\ s.item = x /\ s.seq = m /\ s.seen = NoAck /\ Become(l, s)
  BY <1>1 DEF AssembleMessage, Idle
<1>3. loop'[l] = s /\ \A k \in Loops : k # l => loop'[k] = loop[k]
  BY <1>2, NewState
<1>4. x \in Items /\ x = loop[l].item
  BY DEF InHand
<1>5. \A e \in Items : \A n : KnownAs(s, e, n) => Claims(e, n)
  BY <1>2 DEF KnownAs, NoAck, ItemsAssumption
<1>6. \A k \in Loops : \A e \in Items : \A n : KnownAs(loop'[k], e, n) => Claims(e, n)
  BY <1>3, <1>5 DEF Claims
<1>7. ack'.message = x /\ ack'.seq = m
  BY DEF AssembleMessage
<1>8. \A e \in Items : \A n : StoredAs(e, n)' => Claims(e, n)
  BY <1>7 DEF StoredAs
<1>9. /\ \A e \in Items : outcome'[e] = IF e = ack.message /\ e # x THEN "lost" ELSE outcome[e]
      /\ NoRevival
  BY DEF AssembleMessage, Conclude, NoRevival
<1>10. OldUndrawn
  BY <1>3, <1>4, <1>7, <1>9, UndrawnStep DEF NoRevival
<1>11. \A k \in Loops : loop'[k] = loop[k] \/ loop'[k].op # "popped"
  BY <1>2, <1>3
<1> QED
  BY <1>6, <1>8, <1>9, <1>10, <1>11, QuietNumbers DEF NoRevival

\* The outstanding message ends: acked by the number of an ack that was received for it.
LEMMA DelAckStateNumbers ==
  ASSUME TypeInv, NumberInv, EnoughNumbers, ItemsAssumption, NEW l \in Loops,
         NEW how \in {"acked", "failed"}, DelAckState(l, how), NoteQueueResult(l),
         loop[l].op # "incrSeq", UNCHANGED <<queue, lastSeq, sent, gatewayAcks>>,
         how = "acked" => Received(loop[l].seen.seq)
  PROVE  NumberInv'
<1>1. /\ \A m \in Loops : \A e \in Items : \A n : KnownAs(loop'[m], e, n) => Claims(e, n)
      /\ \A m \in Loops : loop'[m] = loop[m] \/ loop'[m].op # "popped"
      /\ \A m \in Loops : m # l => loop'[m] = loop[m]
  BY TurnEndsNumbers
<1>2. /\ ack'.message = None
      /\ \A e \in Items : outcome'[e] = IF e = loop[l].seen.message THEN how
                                        ELSE IF e = ack.message THEN "lost" ELSE outcome[e]
  BY DEF DelAckState, NoAck
<1>3. \A e \in Items : \A n : StoredAs(e, n)' => Claims(e, n)
  BY <1>2 DEF StoredAs, ItemsAssumption
<1>4. \A e \in Items : /\ outcome'[e] = "new" => outcome[e] = "new"
                       /\ outcome'[e] = "live" => outcome[e] \in {"new", "live"}
                       /\ ack.message = e => outcome'[e] \notin {"new", "live"}
  BY <1>2
<1>5. OldUndrawn
  BY <1>1, <1>4, UndrawnStep
<1>6. ASSUME NEW e \in Items, outcome'[e] = "acked", outcome[e] # "acked" PROVE gatewayAcks[e] > 0
  <2>1. e = loop[l].seen.message /\ how = "acked"
    BY <1>2, <1>6
  <2>2. PICK f \in Items : gatewayAcks[f] > 0 /\ SentAs(f, loop[l].seen.seq)
    BY <2>1 DEF Received
  <2>3. Claims(e, loop[l].seen.seq) /\ Claims(f, loop[l].seen.seq)
    BY <2>1, <2>2 DEF Claims, KnownAs
  <2>4. e = f
    BY <2>3 DEF NumberInv
  <2> QED
    BY <2>2, <2>4
<1> QED
  BY <1>1, <1>3, <1>5, <1>6, QuietNumbers

\* brpop takes the oldest ack, or an entry that has no number yet.
LEMMA BrpopNumbers ==
  ASSUME TypeInv, NumberInv, EnoughNumbers, ItemsAssumption, NEW l \in Loops, Brpop(l)
  PROVE  NumberInv'
<1>1. PICK k \in Waiting(l) :
        /\ queue' = [queue EXCEPT ![k] = Tail(@)]
        /\ Become(l, [loop[l] EXCEPT !.op = "popped", !.args = {}, !.from = k,
                        !.item = IF k = "ack" THEN None ELSE Head(queue[k]),
                        !.seq  = IF k = "ack" THEN Head(queue[k]) ELSE 0])
  BY DEF Brpop
<1>2. PICK s : s = [loop[l] EXCEPT !.op = "popped", !.args = {}, !.from = k,
                      !.item = IF k = "ack" THEN None ELSE Head(queue[k]),
                      !.seq  = IF k = "ack" THEN Head(queue[k]) ELSE 0]
  OBVIOUS
<1>3. /\ loop[l] \in LoopState /\ loop[l].op = "brpop"
      /\ UNCHANGED <<ack, lastSeq, sent, gatewayAcks, outcome>>
      /\ queue[k] # <<>> /\ DOMAIN queue = Keys /\ lastSeq \in Nat
  BY DEF Brpop, Waiting, TypeInv, TypeOK, LoopState, historyVars
<1>4. /\ Become(l, s) /\ s.op = "popped" /\ s.from = k /\ s.seen = loop[l].seen
      /\ k = "ack" => s.seq = Head(queue["ack"])
  BY <1>1, <1>2, <1>3 DEF LoopState
<1>5. loop'[l] = s /\ \A m \in Loops : m # l => loop'[m] = loop[m]
  BY <1>4, NewState
<1>6. \A e \in Items : \A n : KnownAs(s, e, n) => Claims(e, n)
  BY <1>4 DEF KnownAs, Claims
<1>7. \A m \in Loops : \A e \in Items : \A n : KnownAs(loop'[m], e, n) => Claims(e, n)
  BY <1>5, <1>6 DEF Claims
<1>8. \A e \in Items : \A n : StoredAs(e, n)' => Claims(e, n)
  BY <1>3 DEF StoredAs, Claims
<1>9. OldUndrawn
  BY <1>3, <1>5, UndrawnStep
<1>10. CASE k # "ack"
  <2>1. queue'["ack"] = queue["ack"]
    BY <1>1, <1>3, <1>10 DEF Keys, Lists
  <2>2. \A m \in Loops : loop'[m] = loop[m] \/ loop'[m].from # "ack"
    BY <1>4, <1>5, <1>10
  <2> QED
    BY <1>3, <1>7, <1>8, <1>9, <2>1, <2>2, QuietNumbers
<1>11. CASE k = "ack"
  <2>1. queue["ack"] \in Seq(Nat) /\ queue["ack"] # <<>> /\ queue'["ack"] = Tail(queue["ack"])
    BY <1>1, <1>3, <1>11 DEF TypeInv, TypeOK, Keys, Lists
  <2>2. ASSUME NEW q \in Seq(Nat), q # <<>>
        PROVE  /\ 1 \in 1..Len(q) /\ Head(q) = q[1]
               /\ \A i \in 1..Len(Tail(q)) : i + 1 \in 1..Len(q) /\ Tail(q)[i] = q[i + 1]
    BY <2>2
  <2>3. \A n : Received(n)' <=> Received(n)
    BY <1>3 DEF Received, SentAs
  <2>4. Received(s.seq) /\ \A i \in 1..Len(queue'["ack"]) : Received(queue'["ack"][i])
    <3>1. PICK q \in Seq(Nat) : q = queue["ack"] /\ q # <<>>
      BY <2>1
    <3>2. \A i \in 1..Len(q) : Received(q[i])
      BY <3>1 DEF NumberInv, AcksReceived
    <3>3. s.seq = Head(q) /\ queue'["ack"] = Tail(q)
      BY <1>4, <1>11, <2>1, <3>1
    <3> QED
      BY <2>2, <3>1, <3>2, <3>3
  <2>5. AcksReceived'
    BY <1>5, <2>3, <2>4 DEF AcksReceived, Entry, NumberInv
  <2>6. OldClaims
    BY <1>3, <1>7, <1>8, ClaimsStep
  <2>7. OldAcks
    BY <1>3, <2>5 DEF OldAcks, NumberInv, AckedWasReceived
  <2> QED
    BY <1>3, <1>9, <2>6, <2>7, NumbersFrame
<1> QED
  BY <1>10, <1>11

\* A report without a number of its own draws the next.
LEMMA DrawStepNumbers ==
  ASSUME TypeInv, WorkInv, NumberInv, EnoughNumbers, ItemsAssumption, BoundsAssumption,
         NEW l \in Loops, Entry(l, "transmit"), NEW x \in InHand(l), OwnSeq[x] = 0,
         Become(l, [Idle EXCEPT !.op = "incrSeq", !.item = x, !.seq = (lastSeq % SeqMod) + 1]),
         lastSeq' = lastSeq + 1, UNCHANGED <<queue, ack, sent, gatewayAcks, outcome>>
  PROVE  NumberInv'
<1>1. PICK m : m = (lastSeq % SeqMod) + 1
  OBVIOUS
<1>2. PICK s : s = [Idle EXCEPT !.op = "incrSeq", !.item = x, !.seq = m]
  OBVIOUS
<1>3. Become(l, s) /\ s.op = "incrSeq" /\ s.item = x /\ s.seq = m /\ s.seen = NoAck
  BY <1>1, <1>2 DEF Idle
<1>4. loop'[l] = s /\ \A k \in Loops : k # l => loop'[k] = loop[k]
  BY <1>3, NewState
<1>5. /\ x \in Items /\ x = loop[l].item /\ outcome[x] = "live" /\ ack.message # x
      /\ \A k \in Loops : x \in InHand(k) => k = l
  BY HandAlone DEF Stored, HandedOnce
<1>6. loop[l].op = "popped"
  BY DEF Entry
<1>7. Undrawn(x)
  BY <1>5, <1>6 DEF Undrawn, InHand
<1>8. ~Undrawn(x)'
  BY <1>3, <1>4, <1>5 DEF Undrawn
<1>9. OldUndrawn
  BY <1>4, <1>6, UndrawnStep
<1>10. \A e \in Items : \A n : KnownAs(s, e, n) => e = x /\ n = m
  BY <1>3 DEF KnownAs, NoAck, ItemsAssumption
<1>11. \A e \in Items : \A n : /\ SentAs(e, n)' => SentAs(e, n)
                               /\ StoredAs(e, n)' => StoredAs(e, n)
  BY DEF SentAs, StoredAs
<1>12. \A e \in Items : \A n : Claims(e, n)' => Claims(e, n) \/ (e = x /\ n = m)
  <2>1. \A k \in Loops : \A e \in Items : \A n :
          KnownAs(loop'[k], e, n) => KnownAs(loop[k], e, n) \/ (e = x /\ n = m)
    BY <1>4, <1>10
  <2>2. \A e \in Items : \A n : (\E k \in Loops : KnownAs(loop'[k], e, n)) =>
          (\E k \in Loops : KnownAs(loop[k], e, n)) \/ (e = x /\ n = m)
    BY <2>1
  <2> QED
    BY <1>11, <2>2 DEF Claims
<1>13. OldAcks
  <2>1. \A k \in Loops : loop'[k] = loop[k] \/ loop'[k].op # "popped"
    BY <1>3, <1>4
  <2> QED
    BY <2>1, AcksStep
<1> QED
  BY <1>1, <1>5, <1>7, <1>8, <1>9, <1>12, <1>13, DrawNumber

\* The end of a process, or of its client, leaves numbers where they were.
LEMMA EndsNumbers ==
  ASSUME TypeInv, NumberInv, EnoughNumbers, ItemsAssumption, ProcessEnds \/ RedisError
  PROVE  NumberInv'
<1>1. \A l \in Loops : loop'[l] = loop[l] \/ loop'[l] = Idle
  BY DEF ProcessEnds, RedisError
<1>2. UNCHANGED <<queue, ack, lastSeq, sent, gatewayAcks>>
  BY DEF ProcessEnds, RedisError, redisVars, runVars
<1>3. NoRevival /\ \A l \in Loops : loop'[l] = loop[l] \/ \A e \in InHand(l) : outcome'[e] = "lost"
  <2>1. PICK S : /\ Conclude(S, "lost")
                 /\ \A l \in Loops : loop'[l] = loop[l] \/ InHand(l) \subseteq S
    <3>1. CASE ProcessEnds
      BY <3>1 DEF ProcessEnds
    <3>2. CASE RedisError
      <4>1. PICK kept \in SUBSET Loops :
              /\ loop' = [l \in Loops |-> IF l \in kept THEN loop[l] ELSE Idle]
              /\ Conclude(UNION {InHand(l) : l \in Loops \ kept}, "lost")
        BY <3>2 DEF RedisError
      <4> QED
        BY <4>1
    <3> QED
      BY <3>1, <3>2
  <2>2. \A e \in Items : e \in S => outcome'[e] = "lost"
    BY <2>1 DEF Conclude
  <2> QED
    BY <2>1, <2>2, ConcludeNoRevival DEF InHand
<1>4. \A l \in Loops :
        loop[l].op = "incrSeq" => loop'[l] = loop[l] \/ outcome'[loop[l].item] = "lost"
  BY <1>3, EntryInHand
<1>5. OldUndrawn
  BY <1>2, <1>3, <1>4, UndrawnStep DEF NoRevival
<1>6. \A e \in Items : \A n : ~KnownAs(Idle, e, n)
  BY DEF KnownAs, Idle, NoAck, ItemsAssumption
<1>7. \A l \in Loops : \A e \in Items : \A n : KnownAs(loop'[l], e, n) => Claims(e, n)
  BY <1>1, <1>6 DEF Claims
<1>8. \A l \in Loops : loop'[l] = loop[l] \/ loop'[l].op # "popped"
  BY <1>1 DEF Idle
<1>9. \A e \in Items : \A n : StoredAs(e, n)' => Claims(e, n)
  BY <1>2 DEF StoredAs, Claims
<1> QED
  BY <1>2, <1>3, <1>5, <1>7, <1>8, <1>9, QuietNumbers DEF NoRevival

\* Each step of a loop keeps every number the number of one report.
LEMMA LoopStepNumbers ==
  ASSUME TypeInv, WorkInv, NumberInv, EnoughNumbers, ItemsAssumption, BoundsAssumption,
         NEW l \in Loops, LoopStep(l)
  PROVE  NumberInv'
<1> USE DEF redisVars, runVars, historyVars
<1>0. loop[l] \in LoopState /\ ack \in AckState /\ QueueOK
  BY DEF TypeInv, TypeOK, QueueOK
<1>1. CASE CheckQueue(l)
  <2>1. CASE router = "broken" /\ ProcessEnds
    BY <2>1, EndsNumbers
  <2>2. CASE Become(l, Idle) /\ UNCHANGED outcome
    <3>1. loop[l].op # "incrSeq" /\ Throw(l) /\ UNCHANGED <<redisVars, runVars, sent, gatewayAcks>>
      BY <1>1, <2>2 DEF CheckQueue, Throw
    <3> QED
      BY <2>2, <3>1, TurnEndsKeepsNumbers DEF NoRevival
  <2>3. CASE Become(l, [Checking EXCEPT !.op = "mget", !.seen = ack]) /\ UNCHANGED outcome
    <3>1. PICK s : s = [Checking EXCEPT !.op = "mget", !.seen = ack]
      OBVIOUS
    <3>2. s.op = "mget" /\ s.seen = ack
      BY <3>1 DEF Checking, Idle
    <3>3. loop[l].op # "incrSeq" /\ UNCHANGED <<redisVars, runVars, sent, gatewayAcks>>
      BY <1>1 DEF CheckQueue
    <3> QED
      BY <2>3, <3>1, <3>2, <3>3, GoesOnNumbers
  <2> QED
    BY <1>1, <2>1, <2>2, <2>3 DEF CheckQueue
<1>2. CASE GetAckState(l) \/ IncrRetries(l)
  <2>1. PICK s \in {[loop[l] EXCEPT !.op = "brpop", !.args = SetQueueArgs(loop[l].seen)],
                    [loop[l] EXCEPT !.op = "incrRetries", !.args = {}]} : Become(l, s)
    BY <1>2 DEF GetAckState, IncrRetries
  <2>2. s.op \in {"brpop", "incrRetries"} /\ s.seen = loop[l].seen
    BY <1>0, <2>1 DEF LoopState
  <2>3. ack'.message = ack.message /\ ack'.seq = ack.seq
    BY <1>0, <1>2 DEF GetAckState, IncrRetries, AckState
  <2>4. loop[l].op # "incrSeq" /\ UNCHANGED <<queue, lastSeq, sent, gatewayAcks, outcome>>
    BY <1>2 DEF GetAckState, IncrRetries, PendingMessage, TimedOut
  <2> QED
    BY <2>1, <2>2, <2>3, <2>4, GoesOnNumbers
<1>3. CASE NoteIdle(l) \/ IncrTicks(l) \/ IgnoreAck(l)
  <2>1. NoteQueueResult(l) /\ UNCHANGED <<queue, lastSeq, sent, gatewayAcks, outcome>>
    BY <1>3 DEF NoteIdle, IncrTicks, IgnoreAck
  <2>2. loop[l].op # "incrSeq"
    BY <1>3 DEF NoteIdle, IncrTicks, PendingMessage, TimedOut, IgnoreAck, Entry
  <2>3. ack'.message = ack.message /\ ack'.seq = ack.seq
    BY <1>0, <1>3 DEF NoteIdle, IncrTicks, IgnoreAck, AckState
  <2> QED
    BY <2>1, <2>2, <2>3, TurnEndsKeepsNumbers DEF NoRevival
<1>4. CASE DropEntry(l) \/ ThrowWithoutClient(l)
  <2>1. /\ NoteQueueResult(l) \/ Throw(l)
        /\ UNCHANGED <<redisVars, runVars, sent, gatewayAcks>>
    BY <1>4 DEF DropEntry, ThrowWithoutClient
  <2>2. PICK how \in {"dropped", "lost"} : Conclude(InHand(l), how)
    BY <1>4 DEF DropEntry, ThrowWithoutClient
  <2>3. NoRevival
    BY <2>2, ConcludeNoRevival
  <2>4. loop[l].op = "incrSeq" => outcome'[loop[l].item] = how
    BY <2>2, EntryInHand DEF Conclude, InHand
  <2> QED
    BY <2>1, <2>3, <2>4, TurnEndsKeepsNumbers
<1>5. CASE ProcessCommand(l) \/ ProcessRoute(l)
  <2>1. PICK k \in Keys : k # "ack" /\ Entry(l, k)
    BY <1>5 DEF ProcessCommand, ProcessRoute, ItemsAssumption, Keys, Lists
  <2>2. loop[l].op = "popped" /\ loop[l].item \in Items
    BY <2>1 DEF Entry, TypeInv, HandOK
  <2>3. queue'["ack"] = queue["ack"]
    <3>1. UNCHANGED queue \/ \E j : j # "ack" /\ Push(j, loop[l].item)
      <4>1. Target[loop[l].item] # "ack"
        BY <2>2 DEF ItemsAssumption, Lists
      <4> QED
        BY <1>5, <4>1 DEF ProcessCommand, ProcessRoute, PushResult
    <3> QED
      BY <1>0, <3>1 DEF QueueOK, Push, Keys, Lists
  <2>4. NoRevival
    <3>1. \/ UNCHANGED outcome
          \/ \E S : Conclude(S, "lost") \/ Conclude(S, "answered")
      BY <1>5 DEF ProcessCommand, ProcessRoute, PushResult
    <3> QED
      BY <3>1, ConcludeNoRevival DEF NoRevival
  <2>5. UNCHANGED <<ack, lastSeq, sent, gatewayAcks>> /\ (NoteQueueResult(l) \/ Throw(l))
    BY <1>5 DEF ProcessCommand, ProcessRoute
  <2> QED
    BY <2>2, <2>3, <2>4, <2>5, TurnEndsKeepsNumbers
<1>6. CASE TooManyRetries(l)
  <2>1. /\ loop[l].op = "brpop" /\ DelAckState(l, "failed")
        /\ NoteQueueResult(l) /\ UNCHANGED <<queue, lastSeq, sent, gatewayAcks>>
    BY <1>6 DEF TooManyRetries, PendingMessage, TimedOut
  <2> QED
    BY <2>1, DelAckStateNumbers
<1>7. CASE ProcessAck(l)
  <2>1. /\ Entry(l, "ack") /\ loop[l].op = "popped" /\ loop[l].seq = loop[l].seen.seq
        /\ DelAckState(l, "acked") /\ NoteQueueResult(l)
        /\ UNCHANGED <<queue, lastSeq, sent, gatewayAcks>>
    BY <1>7 DEF ProcessAck, MatchingAck, Entry
  <2>2. Received(loop[l].seen.seq)
    BY <2>1 DEF NumberInv, AcksReceived
  <2> QED
    BY <2>1, <2>2, DelAckStateNumbers
<1>8. CASE ProcessTransmit(l)
  <2>1. Entry(l, "transmit") /\ UNCHANGED <<queue, sent, gatewayAcks>>
    BY <1>8 DEF ProcessTransmit
  <2>2. PICK x : x = loop[l].item /\ x \in InHand(l)
    BY <2>1, EntryInHand DEF Entry
  <2>3. CASE /\ OwnSeq[x] # 0 /\ AssembleMessage(l, x, OwnSeq[x]) /\ UNCHANGED lastSeq
    <3>1. Claims(x, OwnSeq[x])
      BY <2>3 DEF Claims
    <3> QED
      BY <2>1, <2>2, <2>3, <3>1, AssembleMessageNumbers
  <2>4. CASE /\ OwnSeq[x] = 0 /\ lastSeq' = lastSeq + 1
             /\ Become(l, [Idle EXCEPT !.op = "incrSeq", !.item = x,
                                       !.seq = (lastSeq % SeqMod) + 1])
             /\ UNCHANGED <<ack, outcome>>
    BY <2>1, <2>2, <2>4, DrawStepNumbers
  <2> QED
    BY <1>8, <2>2, <2>3, <2>4 DEF ProcessTransmit
<1>9. CASE GenerateMessage(l)
  <2>1. loop[l].op = "incrSeq" /\ UNCHANGED <<queue, lastSeq, sent, gatewayAcks>>
    BY <1>9 DEF GenerateMessage
  <2>2. PICK x : x = loop[l].item /\ x \in InHand(l)
    BY <2>1, EntryInHand
  <2>3. Claims(x, loop[l].seq)
    BY <2>1, <2>2 DEF Claims, KnownAs
  <2> QED
    BY <1>9, <2>1, <2>2, <2>3, AssembleMessageNumbers DEF GenerateMessage
<1>10. CASE Transmit(l) \/ Retransmit(l)
  <2>0. PICK x \in Items : \E m, toggle : Claims(x, m) /\ TransmitMessage(x, m, toggle)
    <3>1. CASE Transmit(l)
      <4>1. /\ loop[l].op = "mset" /\ loop[l].item \in Items
            /\ TransmitMessage(loop[l].item, loop[l].seq, FALSE)
        BY <3>1 DEF Transmit, TypeInv, HandOK
      <4>2. Claims(loop[l].item, loop[l].seq)
        BY <4>1 DEF Claims, KnownAs
      <4> QED
        BY <4>1, <4>2
    <3>2. CASE Retransmit(l)
      <4>1. /\ loop[l].seen.message \in Items
            /\ TransmitMessage(loop[l].seen.message, loop[l].seen.seq, ToggleRelay(loop[l].seen.retries))
        BY <3>2 DEF Retransmit, TypeInv, HandOK
      <4>2. Claims(loop[l].seen.message, loop[l].seen.seq)
        BY DEF Claims, KnownAs
      <4> QED
        BY <4>1, <4>2
    <3> QED
      BY <1>10, <3>1, <3>2
  <2>1. PICK m, toggle : Claims(x, m) /\ TransmitMessage(x, m, toggle)
    BY <2>0
  <2>2. /\ UNCHANGED <<redisVars, runVars, gatewayAcks, outcome>> /\ NoteQueueResult(l)
        /\ loop[l].op \in {"mset", "incrRetries"} /\ lastSeq \in Nat
    BY <1>10 DEF Transmit, Retransmit, TypeInv, TypeOK
  <2>3. /\ \A k \in Loops : \A e \in Items : \A n : KnownAs(loop'[k], e, n) => Claims(e, n)
        /\ \A k \in Loops : loop'[k] = loop[k] \/ loop'[k].op \in {"idle", "check"}
        /\ \A k \in Loops : k # l => loop'[k] = loop[k]
    BY <2>2, TurnEndsNumbers
  <2>4. OldClaims /\ OldAcks
    BY <2>1, <2>2, <2>3, SendNumbers
  <2>5. OldUndrawn
    BY <2>2, <2>3, UndrawnStep
  <2> QED
    BY <2>2, <2>4, <2>5, NumbersFrame
<1> QED
  BY <1>1, <1>2, <1>3, <1>4, <1>5, <1>6, <1>7, <1>8, <1>9, <1>10, BrpopNumbers DEF LoopStep

\* The gateway acknowledges what it received.
LEMMA GatewayAckNumbers ==
  ASSUME TypeInv, NumberInv, EnoughNumbers, NEW x \in Items, GatewayAck(x)
  PROVE  NumberInv'
<1>1. PICK j \in 1..Len(sent[x]) : Push("ack", sent[x][j].seq)
  BY DEF GatewayAck
<1>2. PICK m : m = sent[x][j].seq
  OBVIOUS
<1>3. /\ UNCHANGED <<ack, lastSeq, loop, sent, outcome>> /\ SentAs(x, m)
      /\ gatewayAcks \in [Items -> Nat] /\ queue["ack"] \in Seq(Nat) /\ lastSeq \in Nat
      /\ queue'["ack"] = Append(queue["ack"], m)
  BY <1>1, <1>2 DEF GatewayAck, SentAs, TypeInv, TypeOK, Push, Keys, Lists
<1>4. gatewayAcks'[x] > 0 /\ \A e \in Items : gatewayAcks[e] > 0 => gatewayAcks'[e] > 0
  BY <1>3 DEF GatewayAck
<1>5. Received(m)' /\ \A n : Received(n) => Received(n)'
  BY <1>3, <1>4 DEF Received, SentAs
<1>6. \A i \in 1..Len(queue'["ack"]) : queue'["ack"][i] = m \/
        \E k \in 1..Len(queue["ack"]) : queue'["ack"][i] = queue["ack"][k]
  <2>1. ASSUME NEW q \in Seq(Nat), NEW i \in 1..Len(Append(q, m))
        PROVE  Append(q, m)[i] = m \/ \E k \in 1..Len(q) : Append(q, m)[i] = q[k]
    <3>1. CASE i = Len(q) + 1
      BY <2>1, <3>1
    <3>2. CASE i # Len(q) + 1
      BY <2>1, <3>2
    <3> QED
      BY <3>1, <3>2
  <2> QED
    BY <1>3, <2>1
<1>7. AcksReceived'
  <2>1. (\A i \in 1..Len(queue["ack"]) : Received(queue["ack"][i]))'
    BY <1>5, <1>6 DEF NumberInv, AcksReceived
  <2>2. (\A l \in Loops : Entry(l, "ack") => Received(loop[l].seq))'
    BY <1>3, <1>5 DEF NumberInv, AcksReceived, Entry
  <2> QED
    BY <2>1, <2>2 DEF AcksReceived
<1>8. OldAcks
  BY <1>3, <1>4, <1>7 DEF OldAcks, NumberInv, AckedWasReceived
<1>9. OldClaims
  BY <1>3, ClaimsStep DEF Claims, StoredAs
<1>10. OldUndrawn
  BY <1>3, UndrawnStep
<1> QED
  BY <1>3, <1>8, <1>9, <1>10, NumbersFrame

\* So does every other step.
LEMMA NextNumbers ==
  ASSUME TypeInv, WorkInv, NumberInv, EnoughNumbers, [Next]_vars, ItemsAssumption, BoundsAssumption
  PROVE  NumberInv'
<1> USE DEF vars, redisVars, runVars, historyVars
<1>0. QueueOK
  BY DEF TypeInv, TypeOK, QueueOK
<1>1. CASE Start
  <2>1. PICK l \in Loops : loop[l].op = "idle" /\ NoteQueueResult(l)
    BY <1>1 DEF Start
  <2> QED
    BY <1>1, <2>1, TurnEndsKeepsNumbers DEF Start, NoRevival
<1>2. CASE RedisError \/ Crash
  BY <1>2, EndsNumbers DEF Crash
<1>3. CASE \E l \in Loops : LoopStep(l)
  BY <1>3, LoopStepNumbers
<1>4. CASE \E x \in Items : GatewayAck(x)
  BY <1>4, GatewayAckNumbers
<1>5. ASSUME UNCHANGED <<loop, ack, lastSeq, sent, gatewayAcks>>, queue'["ack"] = queue["ack"], NoRevival
      PROVE  NumberInv'
  <2>1. OldUndrawn
    BY <1>5, UndrawnStep DEF NoRevival
  <2>2. /\ \A e \in Items : \A n : StoredAs(e, n)' => Claims(e, n)
        /\ \A l \in Loops : \A e \in Items : \A n : KnownAs(loop'[l], e, n) => Claims(e, n)
    BY <1>5 DEF StoredAs, Claims
  <2> QED
    BY <1>5, <2>1, <2>2, QuietNumbers DEF NoRevival
<1>6. CASE Stop \/ UNCHANGED vars
  BY <1>5, <1>6 DEF Stop, NoRevival
<1>7. ASSUME NEW r \in Routes, RouteStep(r) PROVE NumberInv'
  <2>1. UNCHANGED outcome \/ \E S : Conclude(S, "lost")
    BY <1>7 DEF RouteStep, RouteReset
  <2>2. NoRevival
    BY <2>1, ConcludeNoRevival DEF NoRevival
  <2> QED
    BY <1>5, <1>7, <2>2 DEF RouteStep
<1>8. ASSUME NEW r \in Routes, NEW x \in Items, Answer(r, x) PROVE NumberInv'
  <2>1. NoRevival
    <3>1. UNCHANGED outcome \/ \E S : Conclude(S, "answered")
      BY <1>8 DEF Answer, PushResult
    <3> QED
      BY <3>1, ConcludeNoRevival DEF NoRevival
  <2>2. queue'["ack"] = queue["ack"]
    BY <1>0, <1>8 DEF Answer, PushResult, QueueOK, Push, Keys, Lists
  <2> QED
    BY <1>5, <1>8, <2>1, <2>2 DEF Answer
<1>9. ASSUME NEW x \in Items, Submit(x) PROVE NumberInv'
  <2>1. NoRevival
    BY <1>9 DEF Submit, Conclude, NoRevival
  <2>2. EntryList(x) # "ack"
    BY DEF EntryList, ItemsAssumption, Kinds, Lists
  <2>3. queue'["ack"] = queue["ack"]
    BY <1>0, <1>9, <2>2 DEF Submit, QueueOK, Push, Keys, Lists
  <2> QED
    BY <1>5, <1>9, <2>1, <2>3 DEF Submit
<1> QED
  BY <1>1, <1>2, <1>3, <1>4, <1>6, <1>7, <1>8, <1>9 DEF Next

\* At first no number is drawn.
LEMMA InitNumbers ==
  ASSUME Init, EnoughNumbers, ItemsAssumption
  PROVE  NumberInv
<1>1. Len(<<>>) = 0
  OBVIOUS
<1>2. \A e \in Items : \A n : ~SentAs(e, n) /\ ~StoredAs(e, n)
  BY <1>1 DEF Init, SentAs, StoredAs, NoAck, ItemsAssumption
<1>3. \A l \in Loops : loop[l] = Idle
  BY DEF Init
<1>4. \A l \in Loops : \A e \in Items : \A n : ~KnownAs(loop[l], e, n)
  BY <1>3 DEF KnownAs, Idle, NoAck, ItemsAssumption
<1>5. \A e \in Items : \A n : Claims(e, n) => e \notin Numbered /\ n = OwnSeq[e]
  BY <1>2, <1>4 DEF Claims, Numbered
<1>6. lastSeq <= Cardinality(Drawn)
  <2>1. Drawn = {}
    BY DEF Drawn, Undrawn, Init, Numbered
  <2> QED
    BY <2>1, FS_EmptySet DEF Init
<1>7. \A e \in Items : \A n : Claims(e, n) => IF OwnSeq[e] = 0 THEN n \in 1..lastSeq ELSE n = OwnSeq[e]
  BY <1>5 DEF Numbered
<1>8. \A e, f \in Items : \A n : Claims(e, n) /\ Claims(f, n) => e = f
  BY <1>5 DEF EnoughNumbers
<1>9. AcksReceived /\ AckedWasReceived
  BY <1>1, <1>3 DEF AcksReceived, AckedWasReceived, Init, Entry, Idle, Keys, Lists
<1> QED
  BY <1>6, <1>7, <1>8, <1>9 DEF NumberInv

\* Over every crash, restart, lost connection and overlap of loops, in whatever order acks
\* arrive, a report counts as acked only if the gateway received it, as long as the
\* numbers suffice to tell the reports apart.
THEOREM AckedWasReceivedHolds ==
  ASSUME EnoughNumbers
  PROVE  Spec => []AckedWasReceived
<1> DEFINE IInv == TypeInv /\ WorkInv /\ NumberInv
<1>1. Init => IInv
  BY InitType, InitWork, InitNumbers, ItemsAssumption
<1>2. IInv /\ [Next]_vars => IInv'
  BY NextType, NextWork, NextNumbers, ItemsAssumption, BoundsAssumption
<1>3. IInv => AckedWasReceived
  BY DEF NumberInv
<1> QED
  BY <1>1, <1>2, <1>3, PTL DEF Spec
=============================================================================
