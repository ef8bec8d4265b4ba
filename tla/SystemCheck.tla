----------------------------- MODULE SystemCheck -----------------------------
(***************************************************************************)
(* lib/system-checker.js and lib/system-initializer.js: what is installed, *)
(* which serial ports answer as a modem, what the modem says of itself; it *)
(* is stored as the first configuration.  Each check is an event that is   *)
(* counted, and the last one starts the dialogue with the modem, within    *)
(* the handler of whatever ended it.                                       *)
(***************************************************************************)
EXTENDS Naturals, Sequences, FiniteSets

CONSTANTS
  Items,        \* the file and the programs that are looked for
  Ports,
  NoPort,       \* no port, and no purpose of one
  commands,     \* bound: how many commands the modem is asked to answer
  maxLate,      \* bound: events that come late
  CheckerScenarios  \* the sets of faults that an execution may meet:
                \* "late": a port the search has left opens, answers or fails;
                \* "twice": the modem's port fails after it was closed;
                \* "silent": the modem does not answer a command with OK;
                \* "redisError": the settings cannot be stored

ASSUME SystemCheckAssumption ==
  /\ IsFiniteSet(Items) /\ Items \cap {"init", "ports"} = {}
  /\ NoPort \notin Ports \cup {"dataPort", "controlPort"}
  /\ commands \in Nat \ {0} /\ maxLate \in Nat
  /\ CheckerScenarios \subseteq SUBSET {"late", "twice", "silent", "redisError"}

VARIABLES
  checkerFaults,  \* the faults this execution may meet
  setup,        \* the setup file: "broken", "incomplete", "empty" or "given"
  pending,      \* what was asked and is not answered: "init", "ports", items
  checker,      \* the SystemChecker, its closures and what it led to: see Checker
  late          \* how many late events there were

checkerVars == <<checkerFaults, setup, pending, checker, late>>

Keys == {"dataPort", "controlPort"}

\* A port has the variables of its findBest: key, and whether there is a callback,
\* which starts the search for the control port.
Checker ==
  [resultCount : Nat,
   choices  : [Keys -> Ports \cup {NoPort}],
   remaining : Seq(Ports),
   port     : [Ports -> {"unused", "opening", "open", "left", "closed"}],
   key      : [Ports -> Keys \cup {NoPort}],
   callback : [Ports -> BOOLEAN],
   modem    : {"unused", "opening", "talking", "closed"},
   answered : 0..commands,      \* the commands the modem has answered
   stores   : Nat,              \* the hmset under way
   readies  : Nat,              \* history: 'ready' events
   finishes : Nat,              \* history: calls of finishCallback
   threw    : BOOLEAN]          \* an exception in an event handler ended the process

CheckerTypeOK ==
  /\ setup \in {"broken", "incomplete", "empty", "given"}
  /\ pending \subseteq Items \cup {"init", "ports"}
  /\ checker \in Checker
  /\ late \in 0..maxLate

CheckerInit ==
  /\ checkerFaults \in CheckerScenarios
  /\ setup \in {"broken", "incomplete", "empty", "given"}
  /\ pending = {"init"}
  /\ checker = [resultCount |-> 0, choices |-> [k \in Keys |-> NoPort], remaining |-> <<>>,
                port |-> [p \in Ports |-> "unused"], key |-> [p \in Ports |-> NoPort],
                callback |-> [p \in Ports |-> FALSE], modem |-> "unused", answered |-> 0,
                stores |-> 0, readies |-> 0, finishes |-> 0, threw |-> FALSE]
  /\ late = 0

-----------------------------------------------------------------------------
(* An operator takes the checker before a call to the one after it. *)

\* The initializer's handler of 'ready': the settings are stored, if there are any.
Ready(s) ==
  LET t == [s EXCEPT !.readies = @ + 1] IN
  IF setup = "empty" /\ s.choices.controlPort = NoPort /\ s.answered = 0
    THEN [t EXCEPT !.finishes = @ + 1] ELSE [t EXCEPT !.stores = @ + 1]

CollectModemInfo(s) ==
  IF s.choices.dataPort = NoPort THEN Ready(s) ELSE [s EXCEPT !.modem = "opening"]

\* Mutant of ExpectCount: one of the ports is forgotten.
OneLess == Cardinality(Items) + 1

ExpectCount == Cardinality(Items) + 2

\* emit('check')
Check(s) ==
  LET t == [s EXCEPT !.resultCount = @ + 1] IN
  IF t.resultCount = ExpectCount THEN CollectModemInfo(t) ELSE t

Probe(s, key) ==
  LET choice == Head(s.remaining) IN
  [s EXCEPT !.remaining = Tail(@), !.port[choice] = "opening",
            !.key[choice] = key, !.callback[choice] = (key = "dataPort")]

FindControl(s) == IF s.remaining = <<>> THEN Check(s) ELSE Probe(s, "controlPort")

\* Mutant of NoData: without a data port the other one is not looked for.
GiveUp(s) == Check(s)

NoData(s) == FindControl(Check(s))

\* findBest; for the data port there is a callback.
FindBest(s, key) ==
  IF key = "controlPort" THEN FindControl(s)
  ELSE IF s.remaining = <<>> THEN NoData(s) ELSE Probe(s, key)

Closed(state) == CASE state = "opening" -> "left" [] state = "open" -> "closed" [] OTHER -> state

\* done of chooseBestPorts: nothing keeps it from being called again.
Done(s, p) ==
  LET t == [s EXCEPT !.port[p] = Closed(@)] IN
  CASE s.key[p] # NoPort -> FindBest(t, s.key[p])
    [] s.key[p] = NoPort /\ s.callback[p] -> FindControl([t EXCEPT !.callback[p] = FALSE])
    [] OTHER -> t

\* 'data' with an OK: the port is chosen, counted, which may begin the dialogue, and
\* closed, within one handler.
Answers(s, p) ==
  LET chosen == IF s.key[p] = NoPort THEN s ELSE [s EXCEPT !.choices[s.key[p]] = p] IN
  Done([Check(chosen) EXCEPT !.key[p] = NoPort], p)

\* done of collectModemInfo
ModemDone(s) ==
  IF s.modem = "closed" THEN [s EXCEPT !.threw = TRUE] ELSE Ready([s EXCEPT !.modem = "closed"])

-----------------------------------------------------------------------------
(* initNow and what it waits for *)

InitNow ==
  /\ "init" \in pending
  /\ \/ setup \in {"broken", "incomplete"}
        /\ pending' = {} /\ checker' = [checker EXCEPT !.finishes = @ + 1]
     \/ setup \in {"empty", "given"}
        /\ pending' = Items \cup {"ports"} /\ UNCHANGED checker
  /\ UNCHANGED <<checkerFaults, setup, late>>

\* checkFile, checkProgram
ItemChecked(i) ==
  /\ i \in pending /\ pending' = pending \ {i}
  /\ checker' = Check(checker)
  /\ UNCHANGED <<checkerFaults, setup, late>>

\* findSerialPorts, chooseBestPorts
PortsFound ==
  /\ "ports" \in pending /\ pending' = pending \ {"ports"}
  /\ \E ports \in UNION {[1..n -> Ports] : n \in 0..Cardinality(Ports)} :
       /\ \A i, j \in DOMAIN ports : ports[i] = ports[j] => i = j
       /\ checker' = FindBest([checker EXCEPT !.remaining = ports], "dataPort")
  /\ UNCHANGED <<checkerFaults, setup, late>>

\* A port the search waits for opens; or answers, fails or is silent for a second.
Opens(p) ==
  /\ checker.port[p] = "opening"
  /\ checker' = [checker EXCEPT !.port[p] = "open"]
  /\ UNCHANGED <<checkerFaults, setup, pending, late>>

Ends(p) ==
  /\ \/ checker.port[p] = "open" /\ checker' \in {Answers(checker, p), Done(checker, p)}
     \/ checker.port[p] = "opening" /\ checker' = Done(checker, p)
  /\ UNCHANGED <<checkerFaults, setup, pending, late>>

\* One that it has left: it opens though its connection is null, data comes from it,
\* or its open or its close fails.
Late(p) ==
  /\ "late" \in checkerFaults /\ late < maxLate
  /\ late' = late + 1
  /\ \/ checker.port[p] = "left" /\ checker' \in {[checker EXCEPT !.threw = TRUE], Done(checker, p)}
     \/ checker.port[p] = "closed" /\ checker' \in {Answers(checker, p), Done(checker, p)}
  /\ UNCHANGED <<checkerFaults, setup, pending>>

ModemOpens ==
  /\ checker.modem = "opening"
  /\ checker' = [checker EXCEPT !.modem = "talking"]
  /\ UNCHANGED <<checkerFaults, setup, pending, late>>

\* The command, a line and OK: the next one is sent.
ModemAnswers ==
  /\ checker.modem = "talking"
  /\ LET s == [checker EXCEPT !.answered = @ + 1] IN
       checker' = IF s.answered = commands THEN ModemDone(s) ELSE s
  /\ UNCHANGED <<checkerFaults, setup, pending, late>>

\* 'error' or 'retry'
ModemFails ==
  /\ checker.modem \in {"opening", "talking"} \/ ("twice" \in checkerFaults /\ checker.modem = "closed")
  /\ checker' = ModemDone(checker)
  /\ UNCHANGED <<checkerFaults, setup, pending, late>>

\* The reply to hmset: then(done) follows error(finishCallback) too.
Stored ==
  /\ checker.stores > 0
  /\ \/ checker' = [checker EXCEPT !.stores = @ - 1, !.finishes = @ + 1]
     \/ "redisError" \in checkerFaults /\ checker' = [checker EXCEPT !.stores = @ - 1, !.finishes = @ + 2]
  /\ UNCHANGED <<checkerFaults, setup, pending, late>>

CheckerNext ==
  /\ ~checker.threw
  /\ \/ InitNow \/ PortsFound \/ ModemOpens \/ ModemAnswers \/ ModemFails \/ Stored
     \/ \E i \in Items : ItemChecked(i)
     \/ \E p \in Ports : Opens(p) \/ Ends(p) \/ Late(p)

CheckerSpec == CheckerInit /\ [][CheckerNext]_checkerVars

\* Files, programs, ports and Redis answer or their timeout does; the modem's
\* answers have none.
CheckerFairSpec ==
  /\ CheckerSpec
  /\ WF_checkerVars(~checker.threw /\ (InitNow \/ PortsFound \/ Stored \/ ModemOpens))
  /\ WF_checkerVars(~checker.threw /\ "silent" \notin checkerFaults /\ ModemAnswers)
  /\ \A i \in Items : WF_checkerVars(~checker.threw /\ ItemChecked(i))
  /\ \A p \in Ports : WF_checkerVars(~checker.threw /\ Ends(p))

-----------------------------------------------------------------------------
(* Properties *)

\* The check is over once, after all that belongs to it: the dialogue with the modem
\* begins when every item is checked and the search has ended, 'ready' is emitted
\* once and finishCallback called once; whatever the order of the answers, and but
\* for late events and a failing Redis.  Data and control port are different ones, and
\* the search no longer has the modem's port open when the handler that began the
\* dialogue has ended; also with late events.
OnceInOrder ==
  /\ "late" \notin checkerFaults /\ (checker.modem # "unused" \/ checker.readies > 0) =>
       pending = {} /\ \A p \in Ports : checker.port[p] \notin {"opening", "open"}
  /\ checker.readies <= 1
  /\ "redisError" \notin checkerFaults => checker.finishes <= 1
  /\ checkerFaults \cap {"late", "twice"} = {} => ~checker.threw
  /\ LET data == checker.choices.dataPort IN
       /\ data # NoPort => data # checker.choices.controlPort
       /\ checker.modem # "unused" => checker.port[data] = "closed"

\* The initialization ends, with whatever ports there are, unless the modem leaves a
\* command unanswered.
CheckEnds ==
  checkerFaults \cap {"silent", "late", "twice"} = {} => <>(checker.finishes > 0)
=============================================================================
