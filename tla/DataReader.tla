------------------------------ MODULE DataReader ------------------------------
(***************************************************************************)
(* lib/data-reader.js: it writes a command to an open peripheral and hands *)
(* the first complete frame that comes back, a write error or a timeout to *)
(* the callback of submit.  Frames arrive in pieces; nothing in a frame    *)
(* says which command it answers.  The client is the PeripheralRouter: it  *)
(* submits the next command when the last one has been answered.           *)
(***************************************************************************)
EXTENDS Naturals, Sequences

CONSTANTS
  Commands,     \* the commands; one may be submitted again when it is over
  None,
  maxLine,      \* bound: pieces on the line from the device
  Scenarios     \* the sets of faults that an execution may meet:
                \* "late": answers after the timeout; "cut": frames without an
                \* end; "early": answers before the write is confirmed;
                \* "stop": the reader is stopped; "overlap": the client submits
                \* before the last command is over

Piece == [of : Commands, kind : {"whole", "head", "tail"}]

ASSUME ReaderAssumption ==
  /\ None \notin Commands
  /\ maxLine \in Nat
  /\ Scenarios \subseteq SUBSET {"late", "cut", "early", "stop", "overlap"}

VARIABLES
  faults,       \* the faults this execution may meet
  listening,    \* the reader is started: its data listener is registered
  ready,        \* ready() of the peripheral
  writing,      \* commands whose write callback is still to come
  awaiting,     \* lastCommand and the responseCallback that belongs to it
  timers,       \* commands whose timeout runs
  timeout,      \* the command whose timer self.timeout refers to
  lastData,     \* the commands that the frame read so far is about; {} for null
  heard,        \* external: commands the device has though their write callback is to come
  device,       \* external: the commands the device received and works on
  line,         \* external: pieces of frames on their way from the device
  status,       \* history: what became of each command
  answer        \* history: what the frame handed to it was about

readerVars == <<listening, ready, writing, awaiting, timers, timeout, lastData>>
vars == <<faults, readerVars, heard, device, line, status, answer>>

Statuses == {"new", "submitted", "notReady", "answered", "timeout", "writeError", "dropped"}

TypeOK ==
  /\ listening \in BOOLEAN /\ ready \in BOOLEAN
  /\ writing \subseteq Commands /\ timers \subseteq Commands /\ writing \cap timers = {}
  /\ \A c \in writing \cup timers : status[c] = "submitted"
  /\ awaiting \in Commands \cup {None} /\ timeout \in Commands \cup {None}
  /\ lastData \subseteq Commands
  /\ heard \subseteq writing /\ device \subseteq Commands
  /\ line \in Seq(Piece)
  /\ status \in [Commands -> Statuses]
  /\ answer \in [Commands -> SUBSET Commands]

Init ==
  /\ faults \in Scenarios
  /\ listening = TRUE /\ ready = FALSE
  /\ writing = {} /\ awaiting = None /\ timers = {} /\ timeout = None /\ lastData = {}
  /\ heard = {} /\ device = {} /\ line = <<>>
  /\ status = [c \in Commands |-> "new"]
  /\ answer = [c \in Commands |-> {}]

-----------------------------------------------------------------------------
(* lib/data-reader.js *)

\* The status of c changes; frame is what the callback is handed.
Conclude(c, how, frame) ==
  /\ status' = [status EXCEPT ![c] = how]
  /\ answer' = [answer EXCEPT ![c] = frame]

\* Mutant of ResetTimeout: it forgets the timer but lets it run.
ForgetTimeout == timeout' = None /\ UNCHANGED timers

ResetTimeout == timers' = timers \ {timeout} /\ timeout' = None

\* The device still works on c, or its answer is on the line.
Underway(c) == c \in device \/ \E i \in DOMAIN line : line[i].of = c

\* The peripheral is open: its 'ready' event.
Opened ==
  /\ listening /\ ~ready
  /\ ready' = TRUE
  /\ UNCHANGED <<faults, listening, writing, awaiting, timers, timeout, lastData,
                 heard, device, line, status, answer>>

\* submit by the PeripheralRouter, which waits for the end of the last command
\* unless a callback of an earlier reader clears its busyState ("overlap").  To
\* tell answers apart, c is only submitted again when nothing of its last time is left.
Submit(c) ==
  /\ status[c] # "submitted" /\ ~Underway(c)
  /\ "overlap" \in faults \/ \A d \in Commands : status[d] # "submitted"
  /\ awaiting' = None
  /\ \/ /\ ready
        /\ writing' = writing \cup {c}
        /\ Conclude(c, "submitted", {})
     \/ /\ ~ready
        /\ Conclude(c, "notReady", {})
        /\ UNCHANGED writing
  /\ UNCHANGED <<faults, listening, ready, timers, timeout, lastData, heard, device, line>>

\* Mutant of Written: a command without a timer.
WrittenUntimed(c) ==
  /\ c \in writing
  /\ writing' = writing \ {c}
  /\ awaiting' = c
  /\ device' = IF c \in heard THEN device ELSE device \cup {c}
  /\ heard' = heard \ {c}
  /\ UNCHANGED <<faults, listening, ready, timers, timeout, lastData, line, status, answer>>

\* The write callback.  The device has the command by now.
Written(c) ==
  /\ c \in writing
  /\ writing' = writing \ {c}
  /\ awaiting' = c
  /\ timers' = timers \cup {c}
  /\ timeout' = c
  /\ device' = IF c \in heard THEN device ELSE device \cup {c}
  /\ heard' = heard \ {c}
  /\ UNCHANGED <<faults, listening, ready, lastData, line, status, answer>>

WriteFails(c) ==
  /\ c \in writing /\ c \notin heard
  /\ writing' = writing \ {c}
  /\ Conclude(c, "writeError", {})
  /\ UNCHANGED <<faults, listening, ready, awaiting, timers, timeout, lastData, heard, device, line>>

\* The timer of c.  Without "late" the device has answered before, or never will.
TimeoutFires(c) ==
  /\ c \in timers
  /\ "late" \in faults \/ ~Underway(c)
  /\ timers' = timers \ {c}
  /\ awaiting' = None
  /\ Conclude(c, "timeout", {})
  /\ UNCHANGED <<faults, listening, ready, writing, timeout, lastData, heard, device, line>>

\* Mutant of Respond: the frame is kept and prefixes the next one.
RespondKeeping(frame) ==
  /\ ResetTimeout
  /\ lastData' = frame /\ awaiting' = None
  /\ IF awaiting = None THEN UNCHANGED <<status, answer>>
                        ELSE Conclude(awaiting, "answered", frame)

\* The frame is complete: whatever command is awaited gets it.
Respond(frame) ==
  /\ ResetTimeout
  /\ lastData' = {} /\ awaiting' = None
  /\ IF awaiting = None THEN UNCHANGED <<status, answer>>
                        ELSE Conclude(awaiting, "answered", frame)

Begins(p) == lastData = {} /\ p.kind \in {"whole", "head"}

Data ==
  /\ line # <<>>
  /\ line' = Tail(line)
  /\ LET p == Head(line)
         frame == IF Begins(p) THEN {p.of}
                  ELSE IF lastData = {} THEN {} ELSE lastData \cup {p.of} IN
       \/ /\ listening /\ frame # {} /\ p.kind \in {"whole", "tail"}
          /\ Respond(frame)
       \/ /\ listening /\ (frame = {} \/ p.kind = "head")     \* begin, middle or skip
          /\ lastData' = frame
          /\ UNCHANGED <<awaiting, timers, timeout, status, answer>>
       \/ /\ ~listening
          /\ UNCHANGED <<lastData, awaiting, timers, timeout, status, answer>>
  /\ UNCHANGED <<faults, listening, ready, writing, heard, device>>

\* stop closes the peripheral; a command whose timer is cleared is never answered.
Stop ==
  /\ "stop" \in faults /\ listening
  /\ listening' = FALSE /\ ready' = FALSE
  /\ ResetTimeout
  /\ status' = [c \in Commands |-> IF c \in timers \ timers' THEN "dropped" ELSE status[c]]
  /\ UNCHANGED <<faults, writing, awaiting, lastData, heard, device, line, answer>>

-----------------------------------------------------------------------------
(* The device at the other end of the line. *)

Hear(c) ==
  /\ "early" \in faults /\ c \in writing \ heard
  /\ heard' = heard \cup {c}
  /\ device' = device \cup {c}
  /\ UNCHANGED <<faults, readerVars, line, status, answer>>

Send(pieces) == line' = line \o pieces /\ Len(line) + Len(pieces) <= maxLine

\* It answers in one piece or in two, breaks off, or says nothing.
Reply(c) ==
  /\ c \in device
  /\ device' = device \ {c}
  /\ \/ Send(<<[of |-> c, kind |-> "whole"]>>)
     \/ Send(<<[of |-> c, kind |-> "head"], [of |-> c, kind |-> "tail"]>>)
     \/ "cut" \in faults /\ Send(<<[of |-> c, kind |-> "head"]>>)
     \/ UNCHANGED line
  /\ UNCHANGED <<faults, readerVars, heard, status, answer>>

Next ==
  \/ Opened \/ Data \/ Stop
  \/ \E c \in Commands :
       Submit(c) \/ Written(c) \/ WriteFails(c) \/ TimeoutFires(c) \/ Hear(c) \/ Reply(c)

Spec == Init /\ [][Next]_vars

\* The write callback is called, timers go off, and what is on the line is read.
FairSpec ==
  /\ Spec
  /\ WF_vars(Data)
  /\ \A c \in Commands : /\ WF_vars(Written(c) \/ WriteFails(c))
                        /\ WF_vars(TimeoutFires(c))
                        /\ WF_vars(Reply(c))

-----------------------------------------------------------------------------
(* Properties *)

\* The answer handed to a command is the device's answer to that command.
OwnResponse == \A c \in Commands : status[c] = "answered" => answer[c] = {c}

\* It is for a device that answers in time and finishes its frames, though the
\* answer may come before the write callback or after a stop.
OwnResponseInTime == faults \cap {"late", "cut", "overlap"} = {} => OwnResponse

\* While a command is awaited its timer runs, and it is the timer that its answer
\* will stop: neither an earlier command's timer nor a late frame gets in between.
AwaitingTimed == listening /\ awaiting # None => awaiting \in timers /\ timeout = awaiting

\* The callback of a submit is called at most once, whether by the answer, the
\* timer or the write error, and however late or interleaved they come.
CalledOnce ==
  [][\A c \in Commands :
       status'[c] # status[c] /\ status'[c] \in {"answered", "timeout", "writeError"}
         => status[c] = "submitted"]_vars

\* While the reader runs, the client hears of each command it submits one at a
\* time: the route is not busy for ever, though the device says nothing.
EveryCommandEnds ==
  faults \cap {"stop", "overlap"} = {} =>
    \A c \in Commands : status[c] = "submitted" ~> status[c] # "submitted"
=============================================================================
