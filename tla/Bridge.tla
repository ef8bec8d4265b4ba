-------------------------------- MODULE Bridge --------------------------------
(***************************************************************************)
(* bin/m2m-bridge: the GatewayProxy (services/gateway-proxy.js) sends      *)
(* reports, heartbeats and acks of commands to the gateway by a private    *)
(* and a public link, each over UDP or HTTPS, and routes what comes back;  *)
(* the HeartbeatGenerator (services/heartbeat-generator.js) keeps the      *)
(* private link in use.  It shares the sequence numbers in Redis with the  *)
(* QueueRouter of the transceiver, and tells the proxy by ignoreAckHint    *)
(* which ack to keep from it.                                              *)
(***************************************************************************)
EXTENDS Naturals, FiniteSets

CONSTANTS
  Https,        \* the links over HTTPS; the others are UDP
  Primary,      \* config.primary: the link of the acks of commands
  SeqMod,       \* sequence numbers run from 1 to SeqMod (1000 in the code)
  maxMessages,  \* bound: messages on their way when another is relayed
  maxAsked,     \* bound: heartbeats under way, and commands that wait
  Scenarios     \* the sets of faults that an execution may meet:
                \* "busy": the transceiver has reports; "own": with numbers of their
                \* own; "command": the gateway sends commands; "stop": the
                \* configuration, the PPP link or Redis is lost; "again": acks come
                \* twice; "crossing": a heartbeat or another ack comes before the
                \* ack of the last heartbeat; "jitter": the timer is late

Links   == {"private", "public"}
Numbers == 1..SeqMod
None    == 0
Message == [kind : {"report", "heartbeat", "ack"}, seq : Numbers, link : Links]

ASSUME BridgeAssumption ==
  /\ Https \subseteq Links /\ Primary \in Links
  /\ SeqMod \in Nat \ {0} /\ maxMessages \in Nat /\ maxAsked \in Nat
  /\ Scenarios \subseteq SUBSET
       {"busy", "own", "command", "stop", "crossing", "again", "jitter"}

VARIABLES
  faults,         \* the faults this execution may meet
  lastSequence,   \* Redis: the last sequence number drawn
  queued,         \* Redis: the transmit queue is not empty
  commands,       \* Redis: length of the command queue
  age,            \* timer intervals since last-private-timestamp, from 3 on all alike
  proxy,          \* GatewayProxy is started: its sockets are open
  ignoreAckHint,  \* None for null
  heart,          \* HeartbeatGenerator is started: its timer runs
  asked,          \* replies its callbacks wait for, by command
  sending,        \* messages that wait for the reply of mset or set
  out,            \* external: messages that the gateway may still answer
  reports,        \* external: the number of the report outstanding in QueueRouter
  routed          \* history: of which kind of message an ack was ignored or relayed

redisVars == <<lastSequence, queued, commands, age>>
bridgeVars == <<proxy, ignoreAckHint, heart, asked, sending>>
vars == <<faults, redisVars, bridgeVars, out, reports, routed>>

TypeOK ==
  /\ lastSequence \in Numbers \cup {None}
  /\ queued \in BOOLEAN /\ commands \in Nat /\ age \in 0..3
  /\ proxy \in BOOLEAN /\ heart \in BOOLEAN
  /\ ignoreAckHint \in Numbers \cup {None}
  /\ asked \in [{"get", "llen", "incr"} -> Nat]
  /\ sending \subseteq Message /\ out \subseteq Message
  /\ \A m \in sending \cup out : m.kind = "heartbeat" => m.link = "private"
  /\ \A m \in sending \cup out : m.kind = "ack" => m.link = Primary
  /\ reports \subseteq Numbers
  /\ routed \subseteq {"report", "heartbeat", "ack"} \X {"ignored", "relayed"}

Init ==
  /\ faults \in Scenarios
  /\ lastSequence = None /\ queued = FALSE /\ commands = 0 /\ age \in 0..3
  /\ proxy = FALSE /\ ignoreAckHint = None /\ heart = FALSE
  /\ asked = [command \in {"get", "llen", "incr"} |-> 0]
  /\ sending = {} /\ out = {} /\ reports = {} /\ routed = {}

-----------------------------------------------------------------------------
(* services/gateway-proxy.js *)

\* incr of the counter in Redis that QueueRouter uses too.
NextNumber == (lastSequence % SeqMod) + 1

\* The counter comes round to a number only when nothing is left of it: between
\* two uses of a number there are 999 others.
Free(n) == n \notin reports /\ \A m \in sending \cup out : m.kind # "ack" => m.seq # n

Room == Cardinality(sending \cup out) < maxMessages

Pass(m) == sending' = sending \cup {m}

StartProxy ==
  /\ ~proxy
  /\ proxy' = TRUE
  /\ UNCHANGED <<faults, redisVars, ignoreAckHint, heart, asked, sending, out, reports, routed>>

\* The configuration is lost, or Redis; only in the second case are the replies
\* to come discarded.  The hint is kept, and so are messages over HTTPS.
Stop ==
  /\ "stop" \in faults /\ proxy
  /\ proxy' = FALSE /\ heart' = FALSE
  /\ \/ UNCHANGED <<asked, sending>>
     \/ /\ asked' = [command \in DOMAIN asked |-> 0]
        /\ sending' = {}
  /\ UNCHANGED <<faults, redisVars, ignoreAckHint, out, reports, routed>>

\* A datagram from the QueueRouter at one of the relay ports, first or again.
Relay(n, link) ==
  /\ proxy /\ Room
  /\ Pass([kind |-> "report", seq |-> n, link |-> link])
  /\ UNCHANGED <<faults, redisVars, proxy, ignoreAckHint, heart, asked, out, reports, routed>>

\* The timestamps are set; the message leaves, but for a datagram on a socket that
\* was closed meanwhile.
Sent(m) ==
  /\ m \in sending
  /\ sending' = sending \ {m}
  /\ age' = IF m.link = "private" THEN 0 ELSE age
  /\ out' = IF proxy \/ m.link \in Https THEN out \cup {m} ELSE out
  /\ UNCHANGED <<faults, lastSequence, queued, commands, proxy, ignoreAckHint, heart, asked,
                 reports, routed>>

\* routeAck of the number of m, whatever the hint was it is gone.
RouteAck(m) ==
  /\ routed' = routed \cup
       {<<m.kind, IF ignoreAckHint = m.seq THEN "ignored" ELSE "relayed">>}
  /\ ignoreAckHint' = None

\* No ack of a heartbeat but that of m is to come.
InTurn(m) ==
  \/ "crossing" \in faults
  \/ \A other \in sending \cup out : other.kind = "heartbeat" => other = m

\* extractSequenceNumber: 0, which is no ack, for an ack.
HasNumber(m) == m.kind # "ack"

\* An ack comes back over UDP, or status 200 over HTTPS, which counts as one.
Answered(m) ==
  /\ m \in out /\ InTurn(m)
  /\ \/ m.link \in Https
     \/ proxy /\ m.kind # "ack"
  /\ IF HasNumber(m) THEN RouteAck(m) ELSE UNCHANGED <<routed, ignoreAckHint>>
  /\ out' = out \ {m} \/ ("again" \in faults /\ m.link \notin Https /\ UNCHANGED out)
  /\ UNCHANGED <<faults, redisVars, proxy, heart, asked, sending, reports>>

\* The message or its ack is lost, or the status is another one.
Lost(m) ==
  /\ m \in out
  /\ out' = out \ {m}
  /\ UNCHANGED <<faults, redisVars, bridgeVars, reports, routed>>

\* routeCommand: an event of the gateway with a number of its own is acked and queued.
RouteCommand(n) ==
  /\ "command" \in faults /\ proxy /\ Room /\ commands < maxAsked
  /\ Pass([kind |-> "ack", seq |-> n, link |-> Primary])
  /\ commands' = commands + 1
  /\ UNCHANGED <<faults, lastSequence, queued, age, proxy, ignoreAckHint, heart, asked, out,
                 reports, routed>>

-----------------------------------------------------------------------------
(* services/heartbeat-generator.js *)

Ask(command) == asked' = [asked EXCEPT ![command] = @ + 1]
Proceed(from, to) == asked' = [asked EXCEPT ![from] = @ - 1, ![to] = @ + 1]
Skip(from) == asked' = [asked EXCEPT ![from] = @ - 1]

Underway == asked["get"] + asked["llen"] + asked["incr"]
Expected == Underway > 0 \/ \E m \in sending \cup out : m.kind = "heartbeat"

\* start: a heartbeat at once.  (That a pppd which gets ready while the gateway alone is
\* stopped starts it too, with the old configuration, is left out.)
StartHeart ==
  /\ ~heart /\ proxy /\ Underway < maxAsked
  /\ "crossing" \in faults \/ ~Expected
  /\ heart' = TRUE
  /\ Ask("incr")
  /\ UNCHANGED <<faults, redisVars, proxy, ignoreAckHint, sending, out, reports, routed>>

\* The PPP link is lost: the timer is cleared, the callbacks under way go on.
StopHeart ==
  /\ "stop" \in faults /\ heart
  /\ heart' = FALSE
  /\ UNCHANGED <<faults, redisVars, proxy, ignoreAckHint, asked, sending, out, reports, routed>>

\* The timer goes off: an interval has passed.  By then an ack has come or never will,
\* unless acks cross.
Tick ==
  /\ heart /\ Underway < maxAsked
  /\ "crossing" \in faults \/ ~Expected
  /\ age' = IF age < 3 THEN age + 1 ELSE 3
  /\ Ask("get")
  /\ UNCHANGED <<faults, lastSequence, queued, commands, proxy, ignoreAckHint, heart, sending, out,
                 reports, routed>>

\* now < lastPrivateTimestamp + interval + 10: true of what was sent since the last
\* time the timer went off, unless the timer is more than those 10 ms late.
Recent == age = 0 \/ (age = 1 /\ "jitter" \notin faults)

GetReply ==
  /\ asked["get"] > 0
  /\ \/ (Recent \/ age = 1) /\ Skip("get")
     \/ ~Recent /\ Proceed("get", "llen")
  /\ UNCHANGED <<faults, redisVars, proxy, ignoreAckHint, heart, sending, out, reports, routed>>

\* Mutant of LlenReply: the test is the wrong way round.
LlenReplyQueued ==
  /\ asked["llen"] > 0
  /\ \/ ~queued /\ Skip("llen")
     \/ queued /\ Proceed("llen", "incr")
  /\ UNCHANGED <<faults, redisVars, proxy, ignoreAckHint, heart, sending, out, reports, routed>>

LlenReply ==
  /\ asked["llen"] > 0
  /\ \/ queued /\ Skip("llen")
     \/ ~queued /\ Proceed("llen", "incr")
  /\ UNCHANGED <<faults, redisVars, proxy, ignoreAckHint, heart, sending, out, reports, routed>>

\* Mutant of NoteHint: the hint is not set.
KeepHint(n) == UNCHANGED ignoreAckHint

NoteHint(n) == ignoreAckHint' = n

\* The reply of incr: the message goes to the proxy with its number as the hint.
IncrReply ==
  /\ asked["incr"] > 0 /\ Free(NextNumber)
  /\ Skip("incr")
  /\ lastSequence' = NextNumber
  /\ Pass([kind |-> "heartbeat", seq |-> NextNumber, link |-> "private"])
  /\ NoteHint(NextNumber)
  /\ UNCHANGED <<faults, queued, commands, age, proxy, heart, out, reports, routed>>

-----------------------------------------------------------------------------
(* The transceiver (QueueRouter) at the other end of Redis and the relays *)

Enqueue ==
  /\ "busy" \in faults /\ ~queued
  /\ queued' = TRUE
  /\ UNCHANGED <<faults, lastSequence, commands, age, bridgeVars, out, reports, routed>>

\* A report is taken.  The number of a hint would be drawn again only if no ack at
\* all had come for 999 messages.  It draws the next number or has
\* one of its own.
TakeReport ==
  /\ queued /\ reports = {}
  /\ queued' \in BOOLEAN
  /\ \/ /\ Free(NextNumber) /\ NextNumber # ignoreAckHint
        /\ lastSequence' = NextNumber /\ reports' = {NextNumber}
     \/ /\ "own" \in faults
        /\ \E n \in Numbers : reports' = {n}
        /\ UNCHANGED lastSequence
  /\ UNCHANGED <<faults, commands, age, bridgeVars, out, routed>>

\* It is acked or given up.
ReportEnds ==
  /\ reports # {}
  /\ reports' = {}
  /\ UNCHANGED <<faults, redisVars, bridgeVars, out, routed>>

TakeCommand ==
  /\ commands > 0
  /\ commands' = commands - 1
  /\ UNCHANGED <<faults, lastSequence, queued, age, bridgeVars, out, reports, routed>>

Next ==
  \/ StartProxy \/ Stop
  \/ \E n \in reports, link \in Links : Relay(n, link)
  \/ \E m \in Message : Sent(m) \/ Answered(m) \/ Lost(m)
  \/ \E n \in Numbers : RouteCommand(n)
  \/ StartHeart \/ StopHeart \/ Tick \/ GetReply \/ LlenReply \/ IncrReply
  \/ Enqueue \/ TakeReport \/ ReportEnds \/ TakeCommand

Spec == Init /\ [][Next]_vars

\* Redis answers, timers go off, the HashWatcher starts both; a message is answered
\* or lost in the end, and the QueueRouter settles its report.
FairSpec ==
  /\ Spec
  /\ WF_vars(StartProxy) /\ WF_vars(StartHeart)
  /\ WF_vars(Tick) /\ WF_vars(GetReply) /\ WF_vars(LlenReply) /\ WF_vars(IncrReply)
  /\ WF_vars(ReportEnds) /\ WF_vars(TakeReport)
  /\ \A m \in Message : WF_vars(Sent(m)) /\ WF_vars(Answered(m) \/ Lost(m))

-----------------------------------------------------------------------------
(* Properties *)

\* No ack of a report is kept from the QueueRouter: the hint never has its number,
\* though hints outlive their heartbeats, over stops, crossing and repeated acks.
\* Reports with numbers of their own are not safe.
ReportAckRelayed == "own" \notin faults => <<"report", "ignored">> \notin routed

\* No ack of a heartbeat gets to the QueueRouter, whatever the proxy sends in
\* between, if acks neither cross nor repeat.
HeartbeatAckIgnored ==
  faults \cap {"crossing", "again"} = {} => <<"heartbeat", "relayed">> \notin routed

\* Each ack goes where it belongs.
AcksSorted == ReportAckRelayed /\ HeartbeatAckIgnored

\* README.md:36: a heartbeat on startup and again every hour.  When the timer goes off,
\* the last one is not older than the interval, if there is nothing else to send and
\* the timer is on time.  The code does not keep this: what was sent when the timer
\* last went off is younger than the interval and 10 ms that considerHeartbeat asks
\* for, so that it skips every other time.
HeartbeatHourly == faults = {} => (asked["get"] > 0 => age <= 1)

\* While the bridge runs and nothing is queued, the private link is used again and
\* again, whatever came before.
LinkKept == <>[](proxy /\ heart /\ ~queued) => []<>(age = 0)
=============================================================================
