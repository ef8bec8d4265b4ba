----------------------------- MODULE BridgeProofs -----------------------------
(* For every choice of links, any modulus of the numbers and any number of    *)
(* messages under way: the types, what becomes of the acks, and how long the   *)
(* private link stays silent.                                                 *)
EXTENDS Bridge, TLAPS

USE BridgeAssumption

-----------------------------------------------------------------------------
(* Types *)

StateOK ==
  /\ lastSequence \in Numbers \cup {None}
  /\ queued \in BOOLEAN /\ commands \in Nat /\ age \in 0..3
  /\ ignoreAckHint \in Numbers \cup {None}
  /\ asked \in [{"get", "llen", "incr"} -> Nat]
  /\ reports \subseteq Numbers

MessagesOK ==
  /\ sending \subseteq Message /\ out \subseteq Message
  /\ \A m \in sending \cup out : m.kind = "heartbeat" => m.link = "private"
  /\ \A m \in sending \cup out : m.kind = "ack" => m.link = Primary

RoutedOK == routed \subseteq {"report", "heartbeat", "ack"} \X {"ignored", "relayed"}

FlagOK == proxy \in BOOLEAN /\ heart \in BOOLEAN

\* incr gives a number that a message can have.
LEMMA NumberNext == ASSUME lastSequence \in Numbers \cup {None} PROVE NextNumber \in Numbers
  BY DEF NextNumber, Numbers, None

\* The steps that neither send, nor lose, nor answer anything.
Inner ==
  \/ StartProxy \/ StartHeart \/ StopHeart \/ Tick \/ GetReply \/ LlenReply
  \/ Enqueue \/ TakeReport \/ ReportEnds \/ TakeCommand

\* Timers, counters and queues change no message and no hint.
LEMMA InnerStep ==
  ASSUME Inner
  PROVE  UNCHANGED <<faults, sending, out, ignoreAckHint, routed>>
  BY DEF Inner, StartProxy, StartHeart, StopHeart, Tick, GetReply, LlenReply, Enqueue, TakeReport,
         ReportEnds, TakeCommand, bridgeVars

\* Every step keeps the flags.
LEMMA FlagStep == FlagOK /\ [Next]_vars => FlagOK'
<1> SUFFICES ASSUME FlagOK, [Next]_vars PROVE FlagOK'
  OBVIOUS
<1> USE DEF FlagOK, bridgeVars
<1>1. CASE Inner
  BY <1>1 DEF Inner, StartProxy, StartHeart, StopHeart, Tick, GetReply, LlenReply, Enqueue, TakeReport,
              ReportEnds, TakeCommand
<1>2. CASE Stop \/ IncrReply \/ UNCHANGED vars
  BY <1>2 DEF Stop, IncrReply, vars
<1>3. ASSUME NEW n \in Numbers, RouteCommand(n) PROVE FlagOK'
  BY <1>3 DEF RouteCommand
<1>4. ASSUME NEW n \in reports, NEW link \in Links, Relay(n, link) PROVE FlagOK'
  BY <1>4 DEF Relay
<1>5. ASSUME NEW m \in Message, Sent(m) \/ Answered(m) \/ Lost(m) PROVE FlagOK'
  BY <1>5 DEF Sent, Answered, Lost
<1> QED
  BY <1>1, <1>2, <1>3, <1>4, <1>5 DEF Next, Inner

\* Every step keeps the counters and the hint.
LEMMA StateStep == StateOK /\ [Next]_vars => StateOK'
<1> SUFFICES ASSUME StateOK, [Next]_vars PROVE StateOK'
  OBVIOUS
<1> USE DEF StateOK, None
<1>1. CASE StartProxy \/ StopHeart
  BY <1>1 DEF StartProxy, StopHeart, redisVars
<1>10. CASE Enqueue \/ ReportEnds
  BY <1>10 DEF Enqueue, ReportEnds, redisVars, bridgeVars
<1>11. CASE TakeCommand
  BY <1>11 DEF TakeCommand, bridgeVars
<1>9. CASE Stop
  <2>1. UNCHANGED <<lastSequence, queued, commands, age, ignoreAckHint, reports>>
    BY <1>9 DEF Stop, redisVars
  <2>2. asked' \in [{"get", "llen", "incr"} -> Nat]
    <3>1. CASE UNCHANGED asked
      BY <3>1
    <3>2. CASE asked' = [command \in DOMAIN asked |-> 0]
      BY <3>2
    <3> QED
      BY <1>9, <3>1, <3>2 DEF Stop
  <2> QED
    BY <2>1, <2>2
<1>2. CASE StartHeart \/ Tick \/ GetReply \/ LlenReply
  BY <1>2 DEF StartHeart, Tick, GetReply, LlenReply, Ask, Skip, Proceed, redisVars
<1>3. CASE TakeReport
  BY <1>3, NumberNext DEF TakeReport, bridgeVars
<1>4. CASE IncrReply
  BY <1>4, NumberNext DEF IncrReply, NoteHint, Skip
<1>5. ASSUME NEW n \in Numbers, RouteCommand(n) PROVE StateOK'
  BY <1>5 DEF RouteCommand
<1>6. ASSUME NEW n \in reports, NEW link \in Links, Relay(n, link) PROVE StateOK'
  BY <1>6 DEF Relay, redisVars
<1>7. ASSUME NEW m \in Message, Sent(m) \/ Answered(m) \/ Lost(m) PROVE StateOK'
  BY <1>7 DEF Sent, Answered, RouteAck, Lost, redisVars, bridgeVars
<1>8. CASE UNCHANGED vars
  BY <1>8 DEF vars, redisVars, bridgeVars
<1> QED
  BY <1>1, <1>2, <1>3, <1>4, <1>5, <1>6, <1>7, <1>8, <1>9, <1>10, <1>11 DEF Next

\* Every step keeps the messages under way.
LEMMA MessagesStep == StateOK /\ MessagesOK /\ [Next]_vars => MessagesOK'
<1> SUFFICES ASSUME StateOK, MessagesOK, [Next]_vars PROVE MessagesOK'
  OBVIOUS
<1> USE DEF MessagesOK
<1>1. CASE Inner
  BY <1>1, InnerStep
<1>2. CASE Stop
  BY <1>2 DEF Stop
<1>3. CASE IncrReply
  <2>1. [kind |-> "heartbeat", seq |-> NextNumber, link |-> "private"] \in Message
    BY NumberNext DEF StateOK, Message, Links
  <2> QED
    BY <1>3, <2>1 DEF IncrReply, Pass
<1>4. ASSUME NEW n \in Numbers, RouteCommand(n) PROVE MessagesOK'
  <2>1. [kind |-> "ack", seq |-> n, link |-> Primary] \in Message
    BY DEF Message
  <2> QED
    BY <1>4, <2>1 DEF RouteCommand, Pass
<1>5. ASSUME NEW n \in reports, NEW link \in Links, Relay(n, link) PROVE MessagesOK'
  <2>1. [kind |-> "report", seq |-> n, link |-> link] \in Message
    BY DEF StateOK, Message
  <2> QED
    BY <1>5, <2>1 DEF Relay, Pass
<1>6. ASSUME NEW m \in Message, Sent(m) \/ Answered(m) \/ Lost(m) PROVE MessagesOK'
  BY <1>6 DEF Sent, Answered, Lost, bridgeVars
<1>7. CASE UNCHANGED vars
  BY <1>7 DEF vars, bridgeVars
<1> QED
  BY <1>1, <1>2, <1>3, <1>4, <1>5, <1>6, <1>7 DEF Next, Inner

\* Every step keeps the history of the acks.
LEMMA RoutedStep == RoutedOK /\ [Next]_vars => RoutedOK'
<1> SUFFICES ASSUME RoutedOK, [Next]_vars PROVE RoutedOK'
  OBVIOUS
<1>1. ASSUME NEW m \in Message, Answered(m) PROVE RoutedOK'
  BY <1>1 DEF Answered, RouteAck, RoutedOK, Message
<1>2. CASE Inner
  BY <1>2, InnerStep DEF RoutedOK
<1>3. ASSUME NEW m \in Message, Sent(m) \/ Lost(m) PROVE RoutedOK'
  BY <1>3 DEF Sent, Lost, RoutedOK
<1>4. ASSUME NEW n \in Numbers, RouteCommand(n) PROVE RoutedOK'
  BY <1>4 DEF RouteCommand, RoutedOK
<1>5. ASSUME NEW n \in reports, NEW link \in Links, Relay(n, link) PROVE RoutedOK'
  BY <1>5 DEF Relay, RoutedOK
<1>6. CASE Stop \/ IncrReply \/ UNCHANGED vars
  BY <1>6 DEF Stop, IncrReply, vars, RoutedOK
<1> QED
  BY <1>1, <1>2, <1>3, <1>4, <1>5, <1>6 DEF Next, Inner

TypeInv == FlagOK /\ StateOK /\ MessagesOK /\ RoutedOK

\* The types hold always.
LEMMA TypeInvHolds == Spec => []TypeInv
<1>1. Init => TypeInv
  <2> SUFFICES ASSUME Init PROVE TypeInv
    OBVIOUS
  <2>1. FlagOK /\ MessagesOK /\ RoutedOK
    BY DEF Init, FlagOK, MessagesOK, RoutedOK
  <2>2. asked \in [{"get", "llen", "incr"} -> Nat]
    BY DEF Init
  <2>3. StateOK
    BY <2>2 DEF Init, StateOK
  <2> QED
    BY <2>1, <2>3 DEF TypeInv
<1>2. TypeInv /\ [Next]_vars => TypeInv'
  BY FlagStep, StateStep, MessagesStep, RoutedStep DEF TypeInv
<1> QED
  BY <1>1, <1>2, PTL DEF Spec

\* Numbers wrap within their range, and what is under way is well-formed.
THEOREM TypeCorrect == Spec => []TypeOK
<1>1. (FlagOK /\ StateOK /\ MessagesOK /\ RoutedOK) => TypeOK
  BY DEF FlagOK, StateOK, MessagesOK, RoutedOK, TypeOK
<1> QED
  BY <1>1, TypeInvHolds, PTL DEF TypeInv

\* No step changes what an execution may meet.
LEMMA FaultsFixed == [Next]_vars => faults' = faults
<1> SUFFICES ASSUME [Next]_vars PROVE faults' = faults
  OBVIOUS
<1>1. CASE Inner
  BY <1>1, InnerStep
<1>2. ASSUME ~Inner PROVE faults' = faults
  BY <1>2 DEF Next, Inner, Stop, Relay, Sent, Answered, Lost, RouteCommand, IncrReply, vars
<1> QED
  BY <1>1, <1>2

-----------------------------------------------------------------------------
(* The acks of reports *)

\* No report, known to the QueueRouter or still under way, has the number of the hint.
HintApart ==
  /\ ignoreAckHint \notin reports
  /\ \A m \in sending \cup out : m.kind = "report" => m.seq # ignoreAckHint
  /\ <<"report", "ignored">> \notin routed

\* Every step keeps the hint apart from the numbers of reports.
LEMMA HintStep ==
  ASSUME "own" \notin faults, StateOK, MessagesOK, HintApart, [Next]_vars
  PROVE  HintApart'
<1> USE DEF HintApart
<1>1. CASE TakeReport
  <2>1. NextNumber # ignoreAckHint /\ reports' = {NextNumber}
    BY <1>1 DEF TakeReport
  <2> QED
    BY <1>1, <2>1, InnerStep DEF Inner
<1>2. CASE Inner /\ ~TakeReport
  <2>1. reports' \subseteq reports
    BY <1>2 DEF Inner, StartProxy, StartHeart, StopHeart, Tick, GetReply, LlenReply, Enqueue,
                ReportEnds, TakeCommand
  <2> QED
    BY <1>2, <2>1, InnerStep
<1>3. CASE Stop
  BY <1>3 DEF Stop
<1>4. CASE IncrReply
  <2>1. /\ Free(NextNumber) /\ ignoreAckHint' = NextNumber
        /\ sending' = sending \cup
                        {[kind |-> "heartbeat", seq |-> NextNumber, link |-> "private"]}
        /\ UNCHANGED <<out, reports, routed>>
    BY <1>4 DEF IncrReply, NoteHint, Pass
  <2> QED
    BY <2>1 DEF Free
<1>5. ASSUME NEW n \in Numbers, RouteCommand(n) PROVE HintApart'
  BY <1>5 DEF RouteCommand, Pass
<1>6. ASSUME NEW n \in reports, NEW link \in Links, Relay(n, link) PROVE HintApart'
  BY <1>6 DEF Relay, Pass
<1>7. ASSUME NEW m \in Message, Sent(m) \/ Lost(m) PROVE HintApart'
  BY <1>7 DEF Sent, Lost, bridgeVars
<1>8. ASSUME NEW m \in Message, Answered(m) PROVE HintApart'
  <2>1. /\ m \in out /\ out' \subseteq out /\ UNCHANGED <<sending, reports>>
        /\ \/ HasNumber(m) /\ RouteAck(m)
           \/ UNCHANGED <<routed, ignoreAckHint>>
    BY <1>8 DEF Answered
  <2>2. CASE HasNumber(m) /\ RouteAck(m)
    <3>1. ignoreAckHint' = None
      BY <2>2 DEF RouteAck
    <3>2. None \notin reports' /\ \A o \in sending' \cup out' : o.seq # None
      BY <2>1 DEF StateOK, MessagesOK, Message, Numbers, None
    <3>3. <<"report", "ignored">> \notin routed'
      BY <2>1, <2>2 DEF RouteAck
    <3> QED
      BY <3>1, <3>2, <3>3
  <2> QED
    BY <2>1, <2>2
<1>9. CASE UNCHANGED vars
  BY <1>9 DEF vars, bridgeVars
<1> QED
  BY <1>1, <1>2, <1>3, <1>4, <1>5, <1>6, <1>7, <1>8, <1>9 DEF Next, Inner

\* The ack of a report that draws its number from the shared counter is always passed
\* on, over stops, crossing and repeated acks and late replies.
THEOREM ReportAckRelayedHolds == Spec => []ReportAckRelayed
<1> DEFINE Inv == "own" \notin faults => HintApart
<1>1. Init => Inv
  BY DEF Init, HintApart
<1>2. TypeInv /\ Inv /\ [Next]_vars => Inv'
  BY HintStep, FaultsFixed DEF TypeInv
<1>3. Inv => ReportAckRelayed
  BY DEF HintApart, ReportAckRelayed
<1> QED
  BY <1>1, <1>2, <1>3, TypeInvHolds, PTL DEF Spec

-----------------------------------------------------------------------------
(* The acks of heartbeats *)

Beats == {m \in sending \cup out : m.kind = "heartbeat"}

\* Without crossing and repeated acks there is one heartbeat at most, asked for or under way,
\* once, and the hint has its number.
OneBeat ==
  /\ Underway <= 1
  /\ Underway > 0 => Beats = {}
  /\ \A m, other \in Beats : m = other
  /\ \A m \in Beats : m.seq = ignoreAckHint /\ (m \notin sending \/ m \notin out)
  /\ <<"heartbeat", "relayed">> \notin routed

Quiet == faults \cap {"crossing", "again"} = {}

\* The number of heartbeats asked for, before and after a reply.
LEMMA AskedCount ==
  ASSUME StateOK, StateOK'
  PROVE  /\ Underway \in Nat /\ Underway' \in Nat
         /\ \A command \in {"get", "llen", "incr"} : Ask(command) => Underway' = Underway + 1
         /\ \A from \in {"get", "llen", "incr"} :
              asked[from] > 0 => Underway > 0 /\ (Skip(from) => Underway' = Underway - 1)
         /\ Proceed("get", "llen") \/ Proceed("llen", "incr") => Underway' = Underway
         /\ asked' = asked => Underway' = Underway
<1>1. /\ asked["get"] \in Nat /\ asked["llen"] \in Nat /\ asked["incr"] \in Nat
      /\ asked'["get"] \in Nat /\ asked'["llen"] \in Nat /\ asked'["incr"] \in Nat
  BY DEF StateOK
<1>2. Underway \in Nat /\ Underway' \in Nat
  BY <1>1 DEF Underway
<1>3. ASSUME NEW command \in {"get", "llen", "incr"}, Ask(command) PROVE Underway' = Underway + 1
  BY <1>1, <1>3 DEF Ask, Underway, StateOK
<1>4. ASSUME NEW from \in {"get", "llen", "incr"}, asked[from] > 0
      PROVE  Underway > 0 /\ (Skip(from) => Underway' = Underway - 1)
  BY <1>1, <1>4 DEF Skip, Underway, StateOK
<1>5. Proceed("get", "llen") \/ Proceed("llen", "incr") => Underway' = Underway
  BY <1>1 DEF Proceed, Underway, StateOK
<1> QED
  BY <1>2, <1>3, <1>4, <1>5 DEF Underway

\* Every step keeps the one heartbeat and its hint together.
LEMMA BeatStep ==
  ASSUME Quiet, StateOK, StateOK', OneBeat, [Next]_vars
  PROVE  OneBeat'
<1> USE DEF OneBeat, Beats
<1>1. CASE Inner
  <2>1. UNCHANGED <<sending, out, ignoreAckHint, routed>>
    BY <1>1, InnerStep
  <2>2. CASE StartHeart \/ Tick
    <3>1. Underway = 0 /\ Beats = {} /\ (Ask("incr") \/ Ask("get"))
      BY <2>2, AskedCount DEF StartHeart, Tick, Expected, Quiet
    <3> QED
      BY <2>1, <3>1, AskedCount
  <2>3. CASE ~(StartHeart \/ Tick)
    <3>1. /\ Underway' \in Nat /\ Underway \in Nat
          /\ Underway' = Underway \/ (Underway > 0 /\ Underway' = Underway - 1)
      BY <1>1, <2>3, AskedCount DEF Inner, StartProxy, StopHeart, GetReply, LlenReply, Enqueue,
         TakeReport, ReportEnds, TakeCommand, bridgeVars
    <3> QED
      BY <2>1, <3>1
  <2> QED
    BY <2>2, <2>3
<1>2. CASE Stop
  <2>1. sending' \subseteq sending /\ UNCHANGED <<out, ignoreAckHint, routed>>
    BY <1>2 DEF Stop
  <2>2. Underway' = Underway \/ Underway' = 0
    BY <1>2, AskedCount DEF Stop, StateOK, Underway
  <2> QED
    BY <2>1, <2>2, AskedCount
<1>3. CASE IncrReply
  <2> DEFINE new == [kind |-> "heartbeat", seq |-> NextNumber, link |-> "private"]
  <2>1. /\ ignoreAckHint' = NextNumber /\ sending' = sending \cup {new}
        /\ UNCHANGED <<out, routed>>
    BY <1>3 DEF IncrReply, NoteHint, Pass
  <2>2. Underway = 1 /\ Underway' = 0 /\ Beats = {}
    BY <1>3, AskedCount DEF IncrReply
  <2>3. Beats' = {new} /\ new \notin out'
    BY <2>1, <2>2
  <2> QED
    BY <2>1, <2>2, <2>3
<1>4. ASSUME NEW m \in Message, Sent(m) PROVE OneBeat'
  <2>1. /\ m \in sending /\ sending' = sending \ {m} /\ out' \subseteq out \cup {m}
        /\ UNCHANGED <<ignoreAckHint, routed, asked>>
    BY <1>4 DEF Sent
  <2> QED
    BY <2>1, AskedCount
<1>5. ASSUME NEW m \in Message, Lost(m) PROVE OneBeat'
  <2>1. out' \subseteq out /\ UNCHANGED <<sending, ignoreAckHint, routed, asked>>
    BY <1>5 DEF Lost, bridgeVars
  <2> QED
    BY <2>1, AskedCount
<1>6. ASSUME NEW m \in Message, Answered(m) PROVE OneBeat'
  <2>1. m \in out /\ out' = out \ {m} /\ UNCHANGED <<sending, asked>>
    BY <1>6 DEF Answered, Quiet
  <2>2. \A other \in Beats : other = m
    BY <1>6 DEF Answered, InTurn, Quiet
  <2>3. Beats' = {}
    BY <2>1, <2>2
  <2>4. <<"heartbeat", "relayed">> \notin routed'
    <3>1. CASE UNCHANGED routed
      BY <3>1
    <3>2. CASE RouteAck(m)
      BY <2>1, <3>2 DEF RouteAck
    <3> QED
      BY <1>6, <3>1, <3>2 DEF Answered
  <2> QED
    BY <2>1, <2>3, <2>4, AskedCount
<1>7. ASSUME NEW n \in Numbers, RouteCommand(n) PROVE OneBeat'
  <2>1. Beats' = Beats /\ UNCHANGED <<ignoreAckHint, routed, asked, out>>
    BY <1>7 DEF RouteCommand, Pass
  <2>2. \A m \in Beats : m \in sending' <=> m \in sending
    BY <1>7 DEF RouteCommand, Pass
  <2> QED
    BY <2>1, <2>2, AskedCount
<1>8. ASSUME NEW n \in reports, NEW link \in Links, Relay(n, link) PROVE OneBeat'
  <2>1. Beats' = Beats /\ UNCHANGED <<ignoreAckHint, routed, asked, out>>
    BY <1>8 DEF Relay, Pass
  <2>2. \A m \in Beats : m \in sending' <=> m \in sending
    BY <1>8 DEF Relay, Pass
  <2> QED
    BY <2>1, <2>2, AskedCount
<1>9. CASE UNCHANGED vars
  BY <1>9, AskedCount DEF vars, bridgeVars
<1> QED
  BY <1>1, <1>2, <1>3, <1>4, <1>5, <1>6, <1>7, <1>8, <1>9 DEF Next, Inner

\* While acks neither cross nor repeat, the ack of a heartbeat never gets to the QueueRouter,
\* whatever is relayed between the heartbeat and its ack.
THEOREM HeartbeatAckIgnoredHolds == Spec => []HeartbeatAckIgnored
<1> DEFINE Inv == Quiet => OneBeat
<1>1. Init => Inv
  BY DEF Init, OneBeat, Beats, Underway
<1>2. TypeInv /\ TypeInv' /\ Inv /\ [Next]_vars => Inv'
  BY BeatStep, FaultsFixed DEF TypeInv, Quiet
<1>3. Inv => HeartbeatAckIgnored
  BY DEF OneBeat, Quiet, HeartbeatAckIgnored
<1> QED
  BY <1>1, <1>2, <1>3, TypeInvHolds, PTL DEF Spec

\* Each ack goes where it belongs: to the QueueRouter if it is a report's, and if acks
\* neither cross nor repeat nowhere if it is a heartbeat's.
THEOREM AcksSortedHolds == Spec => []AcksSorted
<1>1. ReportAckRelayed /\ HeartbeatAckIgnored => AcksSorted
  BY DEF AcksSorted
<1> QED
  BY <1>1, ReportAckRelayedHolds, HeartbeatAckIgnoredHolds, PTL

-----------------------------------------------------------------------------
(* The silence of the private link *)

\* With nothing queued and no stops the link was used within the last interval whenever
\* no heartbeat is asked for or waits to be sent, and within two when one is asked for.
InUse ==
  /\ ~queued
  /\ heart /\ Underway = 0 /\ (\A m \in sending : m.kind # "heartbeat") => age <= 1
  /\ asked["get"] > 0 => age <= 2

Calm == faults \cap {"busy", "command", "stop", "crossing"} = {}

\* An asked-for heartbeat counts as under way.
LEMMA GetCounts ==
  ASSUME StateOK
  PROVE  /\ asked["get"] \in Nat /\ asked["llen"] \in Nat /\ asked["incr"] \in Nat
         /\ Underway = 0 => asked["get"] = 0
  BY DEF StateOK, Underway

\* Every step keeps the link in use.
LEMMA InUseStep ==
  ASSUME Calm, StateOK, StateOK', MessagesOK, InUse, [Next]_vars
  PROVE  InUse'
<1> USE DEF InUse
<1>1. CASE StartProxy
  BY <1>1, AskedCount DEF StartProxy, redisVars
<1>2. CASE StartHeart
  <2>1. Underway' = Underway + 1 /\ asked'["get"] = asked["get"] /\ UNCHANGED <<queued, age>>
    BY <1>2, AskedCount DEF StartHeart, Ask, StateOK, redisVars
  <2> QED
    BY <2>1, AskedCount
<1>3. CASE Tick
  <2>1. heart /\ Underway = 0 /\ \A m \in sending : m.kind # "heartbeat"
    BY <1>3, AskedCount DEF Tick, Expected, Calm
  <2>2. age <= 1 /\ age \in 0..3
    BY <2>1 DEF StateOK
  <2>3. age' = (IF age < 3 THEN age + 1 ELSE 3) /\ UNCHANGED queued /\ Underway' = Underway + 1
    BY <1>3, AskedCount DEF Tick
  <2>4. age' <= 2
    BY <2>2, <2>3
  <2> QED
    BY <2>1, <2>3, <2>4
<1>4. CASE GetReply
  <2>1. UNCHANGED <<queued, age, heart, sending>> /\ asked["get"] > 0
    BY <1>4 DEF GetReply, redisVars
  <2>2. CASE (Recent \/ age = 1) /\ Skip("get")
    <3>1. age <= 1 /\ age \in 0..3
      BY <2>2 DEF Recent, StateOK
    <3> QED
      BY <2>1, <3>1
  <2>3. CASE ~Recent /\ Proceed("get", "llen")
    <3>1. Underway' = Underway /\ Underway > 0
      BY <2>1, <2>3, AskedCount
    <3> QED
      BY <2>1, <3>1, AskedCount
  <2> QED
    BY <1>4, <2>2, <2>3 DEF GetReply
<1>5. CASE LlenReply
  <2>1. UNCHANGED <<queued, age, heart, sending>> /\ asked["llen"] > 0 /\ Proceed("llen", "incr")
    BY <1>5 DEF LlenReply, redisVars
  <2>2. Underway' = Underway /\ Underway > 0 /\ asked'["get"] = asked["get"]
    BY <2>1, AskedCount DEF Proceed, StateOK
  <2> QED
    BY <2>1, <2>2, AskedCount
<1>6. CASE IncrReply
  <2> DEFINE new == [kind |-> "heartbeat", seq |-> NextNumber, link |-> "private"]
  <2>1. new \in sending' /\ new.kind = "heartbeat" /\ UNCHANGED <<queued, age>>
    BY <1>6 DEF IncrReply, Pass
  <2>2. asked'["get"] = asked["get"]
    BY <1>6 DEF IncrReply, Skip, StateOK
  <2> QED
    BY <2>1, <2>2
<1>7. ASSUME NEW m \in Message, Sent(m) PROVE InUse'
  <2>1. /\ m \in sending /\ sending' = sending \ {m} /\ UNCHANGED <<queued, heart, asked>>
        /\ age' = IF m.link = "private" THEN 0 ELSE age
    BY <1>7 DEF Sent
  <2>2. m.kind = "heartbeat" => age' = 0
    BY <2>1 DEF MessagesOK
  <2>3. Underway' = Underway
    BY <2>1, AskedCount
  <2>4. CASE age' = 0
    BY <2>1, <2>4
  <2>5. CASE age' # 0
    <3>1. age' = age /\ m.kind # "heartbeat"
      BY <2>1, <2>2, <2>5
    <3> QED
      BY <2>1, <2>3, <3>1
  <2> QED
    BY <2>4, <2>5
<1>8. ASSUME NEW m \in Message, Answered(m) \/ Lost(m) PROVE InUse'
  <2>1. UNCHANGED <<queued, age, heart, asked, sending>>
    BY <1>8 DEF Answered, Lost, redisVars, bridgeVars
  <2> QED
    BY <2>1, AskedCount
<1>9. ASSUME NEW n \in reports, NEW link \in Links, Relay(n, link) PROVE InUse'
  <2>1. UNCHANGED <<queued, age, heart, asked>> /\ sending \subseteq sending'
    BY <1>9 DEF Relay, Pass, redisVars
  <2> QED
    BY <2>1, AskedCount
<1>10. CASE ReportEnds \/ TakeCommand \/ UNCHANGED vars
  <2>1. UNCHANGED <<queued, age, heart, asked, sending>>
    BY <1>10 DEF ReportEnds, TakeCommand, vars, redisVars, bridgeVars
  <2> QED
    BY <2>1, AskedCount
<1>11. ~Stop /\ ~StopHeart /\ ~Enqueue /\ ~TakeReport /\ \A n \in Numbers : ~RouteCommand(n)
  BY DEF Calm, Stop, StopHeart, Enqueue, TakeReport, RouteCommand
<1> QED
  BY <1>1, <1>2, <1>3, <1>4, <1>5, <1>6, <1>7, <1>8, <1>9, <1>10, <1>11 DEF Next

\* Two intervals, where HeartbeatHourly asks for one.
SilenceBounded == Calm => (asked["get"] > 0 => age <= 2)

\* While the bridge runs with nothing else to send, the private link has been used within
\* two intervals whenever the timer goes off, be the timer late or not.
THEOREM SilenceBoundedHolds == Spec => []SilenceBounded
<1> DEFINE Inv == Calm => InUse
<1>1. Init => Inv
  BY DEF Init, InUse
<1>2. TypeInv /\ TypeInv' /\ Inv /\ [Next]_vars => Inv'
  BY InUseStep, FaultsFixed DEF TypeInv, Calm
<1>3. Inv => SilenceBounded
  BY DEF InUse, Calm, SilenceBounded
<1> QED
  BY <1>1, <1>2, <1>3, TypeInvHolds, PTL DEF Spec
=============================================================================
