------------------------ MODULE PeripheralRouterProofs ------------------------
(***************************************************************************)
(* Theorems about PeripheralRouter, for every set of connections, commands *)
(* and routings, and every bound: types, one command at a time, nothing    *)
(* left opening or ticking, settings carried out.                          *)
(* First, what each call of the router makes of its record r; then the     *)
(* types; then one section for each theorem, with the invariant it needs.  *)
(***************************************************************************)
EXTENDS PeripheralRouter, TLAPS

-----------------------------------------------------------------------------
(* What each call makes of the router *)

\* The fields of the router and their types.
RouterType ==
  [peripheral : Conns \cup {None}, reader : Cmds \cup {None},
   link : {"closed", "opening", "open"}, commands : Cmds \cup {None},
   schedule : Cmds \cup {None}, ticking : BOOLEAN, busyState : BOOLEAN,
   writing : Nat, awaiting : Nat, late : Nat, zombies : Nat, leaked : Nat,
   crashed : BOOLEAN]

\* A router between two events: a reader has a connection and a known peripheral, only
\* a known schedule ticks, and commands need an open connection.
RouterOK(q) ==
  /\ q \in RouterType
  /\ q.reader = None <=> q.link = "closed"
  /\ q.reader # None => q.peripheral \in Known
  /\ q.ticking => q.schedule # None
  /\ q.link # "open" => q.writing = 0 /\ q.awaiting = 0

\* One(b) counts b.
LEMMA OneType == ASSUME NEW b \in BOOLEAN PROVE One(b) \in Nat /\ (~b => One(b) = 0)
  BY DEF One

\* resetReader: no reader and no schedule, busy; what was written becomes late, and
\* what still opened or ticked without a ready reader is counted.
LEMMA ResetReaderFields ==
  ASSUME NEW q \in RouterType, q.reader = None <=> q.link = "closed"
  PROVE  LET s == ResetReader(q) IN
         /\ RouterOK(s)
         /\ s.reader = None /\ s.link = "closed" /\ s.schedule = None /\ ~s.ticking /\ s.busyState
         /\ s.writing = 0 /\ s.awaiting = 0
         /\ q.writing = 0 => s.late = q.late
         /\ q.link # "opening" => s.zombies = q.zombies
         /\ (q.ticking => q.link = "open") => s.leaked = q.leaked
         /\ s.peripheral = q.peripheral /\ s.commands = q.commands /\ s.crashed = q.crashed
<1> DEFINE zombie == One(q.reader # None /\ ~Ready(q))
           leak   == One(q.ticking /\ ~Ready(q))
           s      == ResetReader(q)
<1>1. /\ zombie \in Nat /\ leak \in Nat
      /\ q.link # "opening" => zombie = 0
      /\ (q.ticking => q.link = "open") => leak = 0
  BY DEF One, Ready, RouterType
<1>2. s = [q EXCEPT !.reader = None, !.link = "closed", !.schedule = None, !.ticking = FALSE,
            !.busyState = TRUE, !.writing = 0, !.awaiting = 0,
            !.late = q.late + q.writing, !.zombies = q.zombies + zombie, !.leaked = q.leaked + leak]
  BY DEF ResetReader
<1> HIDE DEF zombie, leak, s
<1>3. q \in RouterType
  OBVIOUS
<1>4. /\ s.reader = None /\ s.link = "closed" /\ s.schedule = None /\ s.ticking = FALSE
      /\ s.busyState = TRUE /\ s.writing = 0 /\ s.awaiting = 0
      /\ s.late = q.late + q.writing /\ s.zombies = q.zombies + zombie
      /\ s.leaked = q.leaked + leak
      /\ s.peripheral = q.peripheral /\ s.commands = q.commands /\ s.crashed = q.crashed
  BY <1>2, <1>3, SMTT(30) DEF RouterType
<1>5. s \in RouterType
  <2> DEFINE l == q.late + q.writing
             z == q.zombies + zombie
             k == q.leaked + leak
  <2>1. l \in Nat /\ z \in Nat /\ k \in Nat
    BY <1>1, <1>3 DEF RouterType
  <2>2. s = [q EXCEPT !.reader = None, !.link = "closed", !.schedule = None, !.ticking = FALSE,
               !.busyState = TRUE, !.writing = 0, !.awaiting = 0,
               !.late = l, !.zombies = z, !.leaked = k]
    BY <1>2
  <2> HIDE DEF l, z, k
  <2>3. s = [peripheral |-> q.peripheral, reader |-> None, link |-> "closed",
             commands |-> q.commands, schedule |-> None, ticking |-> FALSE, busyState |-> TRUE,
             writing |-> 0, awaiting |-> 0, late |-> l, zombies |-> z, leaked |-> k,
             crashed |-> q.crashed]
    BY <2>2, <1>3 DEF RouterType
  <2> QED
    BY <2>1, <2>3, <1>3 DEF RouterType
<1> QED
  BY <1>1, <1>3, <1>4, <1>5 DEF s, RouterOK, RouterType

\* noteStatus: a reader opens if there are a peripheral and commands, and no reader yet.
LEMMA NoteStatusFields ==
  ASSUME NEW q, RouterOK(q)
  PROVE  LET s == NoteStatus(q) IN
         /\ RouterOK(s)
         /\ IF q.peripheral \in Known /\ q.commands # None /\ q.reader = None
              THEN s.reader = q.commands /\ s.link = "opening" 
              ELSE s.reader = q.reader /\ s.link = q.link
         /\ s.peripheral = q.peripheral /\ s.commands = q.commands /\ s.crashed = q.crashed
         /\ s.schedule = q.schedule /\ s.ticking = q.ticking /\ s.busyState = q.busyState
         /\ s.writing = q.writing /\ s.awaiting = q.awaiting /\ s.late = q.late
         /\ s.zombies = q.zombies /\ s.leaked = q.leaked
  BY DEF NoteStatus, RouterOK, RouterType

\* makeReady: the schedule ticks, if there is one, and the router is free.
LEMMA MakeReadyFields ==
  ASSUME NEW q, RouterOK(q)
  PROVE  LET s == MakeReady(q) IN
         /\ RouterOK(s)
         /\ s.peripheral = q.peripheral /\ s.commands = q.commands /\ s.schedule = q.schedule
         /\ ~s.busyState
         /\ s.writing = q.writing /\ s.awaiting = q.awaiting /\ s.late = q.late
         /\ s.zombies = q.zombies /\ s.leaked = q.leaked
         /\ s.ticking <=> q.schedule # None
         /\ ~q.ticking => s.crashed = q.crashed
         /\ (q.reader # None \/ q.commands = None) => (s.reader = q.reader /\ s.link = q.link)
<1> DEFINE p == [q EXCEPT !.busyState = FALSE, !.ticking = q.schedule # None]
<1>1. RouterOK([q EXCEPT !.busyState = FALSE, !.crashed = TRUE])
  BY DEF RouterOK, RouterType
<1>2. /\ RouterOK(p)
      /\ p.peripheral = q.peripheral /\ p.commands = q.commands /\ p.schedule = q.schedule
      /\ ~p.busyState /\ p.reader = q.reader /\ p.link = q.link
      /\ p.writing = q.writing /\ p.awaiting = q.awaiting /\ p.late = q.late
      /\ p.zombies = q.zombies /\ p.leaked = q.leaked /\ p.crashed = q.crashed
      /\ p.ticking <=> q.schedule # None
  BY DEF RouterOK, RouterType
<1>3. CASE q.schedule # None /\ q.ticking
  BY <1>1, <1>3 DEF MakeReady, RouterOK, RouterType
<1>4. CASE ~(q.schedule # None /\ q.ticking)
  <2>1. MakeReady(q) = NoteStatus(p)
    BY <1>4 DEF MakeReady
  <2> HIDE DEF p
  <2> QED
    BY <1>2, <1>4, <2>1, NoteStatusFields DEF RouterOK
<1> QED
  BY <1>3, <1>4

\* Routing none: no commands, busy, and a schedule that is there ticks.
LEMMA NoteOffFields ==
  ASSUME NEW q, RouterOK(q)
  PROVE  LET s == NoteOff(q) IN
         /\ RouterOK(s)
         /\ s.peripheral = q.peripheral /\ s.commands = None /\ s.schedule = q.schedule
         /\ s.busyState
         /\ s.writing = q.writing /\ s.awaiting = q.awaiting /\ s.late = q.late
         /\ s.zombies = q.zombies /\ s.leaked = q.leaked
         /\ s.ticking <=> q.schedule # None
         /\ s.crashed = q.crashed /\ s.reader = q.reader /\ s.link = q.link
  BY DEF NoteOff, RouterOK, RouterType

\* noteErrorStatus: busy; otherwise as noteStatus.
LEMMA NoteErrorStatusFields ==
  ASSUME NEW q, RouterOK(q)
  PROVE  LET s == NoteErrorStatus(q) IN
         /\ RouterOK(s)
         /\ IF q.peripheral \in Known /\ q.commands # None /\ q.reader = None
              THEN s.reader = q.commands /\ s.link = "opening"
              ELSE s.reader = q.reader /\ s.link = q.link
         /\ s.peripheral = q.peripheral /\ s.commands = q.commands /\ s.crashed = q.crashed
         /\ s.schedule = q.schedule /\ s.ticking = q.ticking /\ s.busyState
         /\ s.writing = q.writing /\ s.awaiting = q.awaiting /\ s.late = q.late
         /\ s.zombies = q.zombies /\ s.leaked = q.leaked
<1> DEFINE p == [q EXCEPT !.busyState = TRUE]
<1>1. /\ RouterOK(p)
      /\ p.peripheral = q.peripheral /\ p.commands = q.commands /\ p.schedule = q.schedule
      /\ p.busyState /\ p.reader = q.reader /\ p.link = q.link /\ p.ticking = q.ticking
      /\ p.writing = q.writing /\ p.awaiting = q.awaiting /\ p.late = q.late
      /\ p.zombies = q.zombies /\ p.leaked = q.leaked /\ p.crashed = q.crashed
  BY DEF RouterOK, RouterType
<1>2. NoteErrorStatus(q) = NoteStatus(p)
  BY DEF NoteErrorStatus
<1> HIDE DEF p
<1> QED
  BY <1>1, <1>2, NoteStatusFields

\* reset: resetReader, and neither peripheral nor commands.
LEMMA ResetFields ==
  ASSUME NEW q, RouterOK(q)
  PROVE  LET s == Reset(q) IN
         /\ RouterOK(s)
         /\ s.reader = None /\ s.link = "closed" /\ s.schedule = None /\ ~s.ticking /\ s.busyState
         /\ s.writing = 0 /\ s.awaiting = 0
         /\ q.writing = 0 => s.late = q.late
         /\ q.link # "opening" => s.zombies = q.zombies
         /\ (q.ticking => q.link = "open") => s.leaked = q.leaked
         /\ s.peripheral = None /\ s.commands = None /\ s.crashed = q.crashed
<1> DEFINE p == [q EXCEPT !.peripheral = None, !.commands = None]
<1>1. /\ p \in RouterType
      /\ p.reader = None <=> p.link = "closed"
      /\ p.peripheral = None /\ p.commands = None /\ p.crashed = q.crashed
      /\ p.link = q.link /\ p.ticking = q.ticking /\ p.writing = q.writing
      /\ p.late = q.late /\ p.zombies = q.zombies /\ p.leaked = q.leaked
  BY DEF RouterOK, RouterType
<1>2. Reset(q) = ResetReader(p)
  BY DEF Reset
<1> HIDE DEF p
<1> QED
  BY <1>1, <1>2, ResetReaderFields

\* A schedule that was read comes with its commands, and does not tick yet.
LEMMA NewScheduleFields ==
  ASSUME NEW q, RouterOK(q), NEW cmd \in Cmds
  PROVE  LET s == NewSchedule(q, cmd) IN
         /\ RouterOK(s)
         /\ IF q.peripheral \in Known /\ q.reader = None
              THEN s.reader = cmd /\ s.link = "opening"
              ELSE s.reader = q.reader /\ s.link = q.link
         /\ s.peripheral = q.peripheral /\ s.commands = cmd /\ s.crashed = q.crashed
         /\ s.schedule = cmd /\ ~s.ticking /\ s.busyState = q.busyState
         /\ s.writing = q.writing /\ s.awaiting = q.awaiting /\ s.late = q.late
         /\ s.zombies = q.zombies
         /\ ~q.ticking => s.leaked = q.leaked
<1> DEFINE leak == One(q.ticking)
           k == q.leaked + leak
           p == [q EXCEPT !.commands = cmd, !.schedule = cmd, !.ticking = FALSE, !.leaked = k]
<1>1. /\ k \in Nat
      /\ ~q.ticking => k = q.leaked
  BY DEF One, RouterOK, RouterType
<1>2. NewSchedule(q, cmd) = NoteStatus(p)
  BY DEF NewSchedule
<1> HIDE DEF k
<1>3. /\ RouterOK(p)
      /\ p.peripheral = q.peripheral /\ p.commands = cmd /\ p.schedule = cmd
      /\ p.busyState = q.busyState /\ p.reader = q.reader /\ p.link = q.link /\ ~p.ticking
      /\ p.writing = q.writing /\ p.awaiting = q.awaiting /\ p.late = q.late
      /\ p.zombies = q.zombies /\ p.leaked = k /\ p.crashed = q.crashed
  BY <1>1 DEF RouterOK, RouterType
<1> HIDE DEF p
<1> QED
  BY <1>1, <1>2, <1>3, NoteStatusFields, RouterAssumption

\* The reader of a router that is not opening, after a restart.
LEMMA RestartedFields ==
  ASSUME NEW q, RouterOK(q)
  PROVE  LET s == Restarted(q) IN
         /\ RouterOK(s)
         /\ s.link # "open" /\ s.writing = 0 /\ s.awaiting = 0
         /\ q.link = "open" => s.reader = None /\ s.schedule = None /\ ~s.ticking /\ s.busyState
         /\ q.link # "open" => s = q
         /\ q.writing = 0 => s.late = q.late
         /\ s.zombies = q.zombies /\ s.leaked = q.leaked
         /\ s.peripheral = q.peripheral /\ s.commands = q.commands /\ s.crashed = q.crashed
<1>1. CASE Ready(q)
  BY <1>1, ResetReaderFields DEF Restarted, Ready, RouterOK
<1>2. CASE ~Ready(q)
  BY <1>2 DEF Restarted, Ready, RouterOK
<1> QED
  BY <1>1, <1>2

\* The commands alone are no concern of the reader.
LEMMA SetCommandsFields ==
  ASSUME NEW q, RouterOK(q), NEW cmd \in Cmds \cup {None}
  PROVE  LET s == [q EXCEPT !.commands = cmd] IN
         /\ RouterOK(s)
         /\ s.commands = cmd
         /\ s.peripheral = q.peripheral /\ s.reader = q.reader /\ s.link = q.link
         /\ s.schedule = q.schedule /\ s.ticking = q.ticking /\ s.busyState = q.busyState
         /\ s.writing = q.writing /\ s.awaiting = q.awaiting /\ s.late = q.late
         /\ s.zombies = q.zombies /\ s.leaked = q.leaked /\ s.crashed = q.crashed
  BY DEF RouterOK, RouterType

\* The reader that remains when one that is ready has been stopped.
Left(q) == IF q.link = "open" THEN None ELSE q.reader

\* The 'change' listener, for other commands than those the router has.
LEMMA ChangeFields ==
  ASSUME NEW q, RouterOK(q), NEW cmd \in Cmds, cmd # q.commands
  PROVE  LET s == Change(q, cmd) IN
         /\ RouterOK(s)
         /\ s.peripheral = q.peripheral
         /\ s.link # "open" /\ s.writing = 0 /\ s.awaiting = 0
         /\ (q.link = "open" \/ q.busyState) => s.busyState
         /\ (q.link = "open" \/ q.schedule = None) =>
              s.schedule = None /\ ~s.ticking /\ s.crashed = q.crashed
         /\ q.writing = 0 => s.late = q.late
         /\ s.zombies = q.zombies /\ s.leaked = q.leaked
         /\ s.commands = CASE Routing[cmd] = "none"   -> None
                           [] Routing[cmd] = "ad-hoc" -> cmd
                           [] OTHER                   -> q.commands
         /\ s.reader = IF Left(q) = None /\ q.peripheral \in Known /\ s.commands # None
                            /\ Routing[cmd] \in {"ad-hoc", "unknown"}
                         THEN s.commands ELSE Left(q)
<1> DEFINE p == Restarted(q)
<1>1. /\ RouterOK(p)
      /\ p.link # "open" /\ p.writing = 0 /\ p.awaiting = 0
      /\ (q.link = "open" \/ q.busyState) => p.busyState
      /\ (q.link = "open" \/ q.schedule = None) => p.schedule = None /\ ~p.ticking
      /\ q.writing = 0 => p.late = q.late
      /\ p.zombies = q.zombies /\ p.leaked = q.leaked
      /\ p.peripheral = q.peripheral /\ p.commands = q.commands /\ p.crashed = q.crashed
      /\ p.reader = Left(q)
  BY RestartedFields DEF RouterOK, Left
<1>2. Routing[cmd] \in {"none", "ad-hoc", "scheduled", "empty", "unknown"} /\ cmd # None
  BY RouterAssumption
<1> HIDE DEF p
<1>3. CASE Routing[cmd] = "none"
  <2> DEFINE s == NoteOff(p)
  <2>1. Change(q, cmd) = s
    BY <1>3 DEF Change, p
  <2>2. /\ RouterOK(s)
        /\ s.peripheral = p.peripheral /\ s.commands = None /\ s.schedule = p.schedule
        /\ s.busyState
        /\ s.writing = p.writing /\ s.awaiting = p.awaiting /\ s.late = p.late
        /\ s.zombies = p.zombies /\ s.leaked = p.leaked
        /\ s.ticking <=> p.schedule # None
        /\ s.crashed = p.crashed /\ s.reader = p.reader /\ s.link = p.link
    BY <1>1, NoteOffFields
  <2> HIDE DEF s
  <2>3. (q.link = "open" \/ q.schedule = None) => s.schedule = None /\ ~s.ticking /\ s.crashed = q.crashed
    BY <1>1, <2>2
  <2>4. s.reader = Left(q)
    BY <1>1, <2>2
  <2>5. s.link # "open" /\ s.writing = 0 /\ s.awaiting = 0 /\ s.zombies = q.zombies /\ s.leaked = q.leaked
    BY <1>1, <2>2
  <2>6. q.writing = 0 => s.late = q.late
    BY <1>1, <2>2
  <2> QED
    BY <1>1, <1>3, <2>1, <2>2, <2>3, <2>4, <2>5, <2>6
<1>4. CASE Routing[cmd] = "ad-hoc"
  <2> DEFINE m == [p EXCEPT !.commands = cmd]
  <2>1. Change(q, cmd) = NoteStatus(m)
    BY <1>4 DEF Change, p
  <2>2. /\ RouterOK(m) /\ m.commands = cmd
        /\ m.peripheral = p.peripheral /\ m.reader = p.reader /\ m.link = p.link
        /\ m.schedule = p.schedule /\ m.ticking = p.ticking /\ m.busyState = p.busyState
        /\ m.writing = p.writing /\ m.awaiting = p.awaiting /\ m.late = p.late
        /\ m.zombies = p.zombies /\ m.leaked = p.leaked /\ m.crashed = p.crashed
    BY <1>1, SetCommandsFields
  <2> HIDE DEF m
  <2> QED
    BY <1>1, <1>2, <1>4, <2>1, <2>2, NoteStatusFields
<1>5. CASE Routing[cmd] = "unknown"
  <2>1. Change(q, cmd) = NoteErrorStatus(p)
    BY <1>5 DEF Change, p
  <2> QED
    BY <1>1, <1>5, <2>1, NoteErrorStatusFields
<1>6. CASE Routing[cmd] \in {"scheduled", "empty"}
  <2>1. Change(q, cmd) = p
    BY <1>6 DEF Change, p
  <2> QED
    BY <1>1, <1>6, <2>1
<1> QED
  BY <1>2, <1>3, <1>4, <1>5, <1>6

\* checkKeysetWatcher, for a router that runs with the connection last checked.
LEMMA CheckConnectionFields ==
  ASSUME NEW q, RouterOK(q), NEW conn \in Conns \cup {None}, conn # connJSON
  PROVE  LET s == CheckConnection(q, conn) IN
         /\ RouterOK(s)
         /\ s.peripheral = conn
         /\ s.crashed = q.crashed
         /\ s.link # "open" /\ s.writing = 0 /\ s.awaiting = 0
         /\ (q.busyState \/ q.peripheral # None) => s.busyState
         /\ q.writing = 0 => s.late = q.late
         /\ q.link # "opening" => s.zombies = q.zombies
         /\ (q.ticking => q.link = "open") => s.leaked = q.leaked
         /\ q.peripheral # None => s.commands = None /\ s.schedule = None /\ ~s.ticking
         /\ q.peripheral = None => s.commands = q.commands /\ s.schedule = q.schedule
                                   /\ s.ticking = q.ticking
         /\ s.reader = IF conn \in Known /\ s.commands # None THEN s.commands ELSE None
<1> DEFINE stopped == IF q.peripheral = None THEN q ELSE Reset(q)
           made == [stopped EXCEPT !.peripheral = conn]
<1>1. /\ RouterOK(stopped)
      /\ stopped.peripheral = None /\ stopped.reader = None
      /\ stopped.crashed = q.crashed
      /\ stopped.link = "closed" /\ stopped.writing = 0 /\ stopped.awaiting = 0
      /\ (q.busyState \/ q.peripheral # None) => stopped.busyState
      /\ q.writing = 0 => stopped.late = q.late
      /\ q.link # "opening" => stopped.zombies = q.zombies
      /\ (q.ticking => q.link = "open") => stopped.leaked = q.leaked
      /\ q.peripheral # None => stopped.commands = None /\ stopped.schedule = None
                                /\ ~stopped.ticking
      /\ q.peripheral = None => stopped.commands = q.commands /\ stopped.schedule = q.schedule
                                /\ stopped.ticking = q.ticking
  <2>1. CASE q.peripheral = None
    <3>1. None \notin Known
      BY RouterAssumption
    <3> QED
      BY <2>1, <3>1 DEF RouterOK
  <2>2. CASE q.peripheral # None
    BY <2>2, ResetFields
  <2> QED
    BY <2>1, <2>2
<1> HIDE DEF stopped
<1>2. /\ RouterOK(made)
      /\ made.peripheral = conn /\ made.reader = None /\ made.link = "closed"
      /\ made.commands = stopped.commands /\ made.crashed = stopped.crashed
      /\ made.schedule = stopped.schedule /\ made.ticking = stopped.ticking
      /\ made.busyState = stopped.busyState /\ made.writing = 0 /\ made.awaiting = 0
      /\ made.late = stopped.late /\ made.zombies = stopped.zombies
      /\ made.leaked = stopped.leaked
  BY <1>1 DEF RouterOK, RouterType
<1>3. CheckConnection(q, conn) = IF conn = None THEN stopped
                                 ELSE IF conn \in Known THEN NoteStatus(made)
                                 ELSE NoteErrorStatus(made)
  BY DEF CheckConnection, stopped
<1> HIDE DEF made
<1>4. CASE conn = None
  BY <1>1, <1>3, <1>4, RouterAssumption
<1>5. CASE conn \in Known
  <2>1. conn # None
    BY <1>5, RouterAssumption
  <2> QED
    BY <1>1, <1>2, <1>3, <1>5, <2>1, NoteStatusFields
<1>6. CASE conn # None /\ conn \notin Known
  BY <1>1, <1>2, <1>3, <1>6, NoteErrorStatusFields
<1> QED
  BY <1>4, <1>5, <1>6

-----------------------------------------------------------------------------
(* Types *)

FlagOK == live \in BOOLEAN /\ staleClient \in BOOLEAN

DataOK ==
  /\ settings \in Settings /\ lastHash \in Settings \cup {None}
  /\ connJSON \in Conns \cup {None}
  /\ pending \in Seq(Cmds) /\ deferred \in Nat

TypeInv == FlagOK /\ DataOK /\ RouterOK(r)

\* The types and their invariant say the same.
LEMMA TypeParts == TypeOK <=> TypeInv
  BY DEF TypeOK, TypeInv, FlagOK, DataOK, RouterOK, RouterType

\* The parts of settings are what they look like.
LEMMA SettingsTypes ==
  ASSUME NEW h \in Settings
  PROVE  h.conn \in Conns \cup {None} /\ h.cmd \in Cmds /\ h # None
  BY RouterAssumption DEF Settings

\* The router between checkKeysetWatcher and the 'change' listener.
Checked == CheckConnection(r, settings.conn)

\* checkKeysetWatcher keeps the types.
LEMMA CheckedType ==
  ASSUME DataOK, RouterOK(r)
  PROVE  RouterOK(Checked)
<1>1. CASE settings.conn = connJSON
  BY <1>1 DEF Checked, CheckConnection
<1>2. CASE settings.conn # connJSON
  BY <1>2, CheckConnectionFields, SettingsTypes DEF Checked, DataOK
<1> QED
  BY <1>1, <1>2

\* So does the whole reading of new settings, which notes them.
LEMMA ReadTypes ==
  ASSUME DataOK, RouterOK(r), SettingsRead
  PROVE  /\ RouterOK(r') /\ DataOK' /\ UNCHANGED <<settings, deferred, faults, live, staleClient>>
         /\ lastHash' = settings /\ connJSON' = settings.conn
         /\ r' = Change(Checked, settings.cmd)
         /\ pending' = IF (AsksSchedule(Checked, settings.cmd) /\ ~staleClient)
                         THEN Append(pending, settings.cmd) ELSE pending
<1>1. /\ lastHash' = settings /\ connJSON' = settings.conn
      /\ r' = Change(Checked, settings.cmd)
      /\ pending' = IF (AsksSchedule(Checked, settings.cmd) /\ ~staleClient)
                      THEN Append(pending, settings.cmd) ELSE pending
      /\ UNCHANGED <<settings, deferred, faults, live, staleClient>>
  BY DEF SettingsRead, Checked
<1>2. settings.conn \in Conns \cup {None} /\ settings.cmd \in Cmds
  BY SettingsTypes DEF DataOK
<1>3. RouterOK(r')
  <2>1. CASE settings.cmd = Checked.commands
    BY <1>1, <2>1, CheckedType DEF Change
  <2>2. CASE settings.cmd # Checked.commands
    BY <1>1, <1>2, <2>2, CheckedType, ChangeFields
  <2> QED
    BY <2>1, <2>2
<1>4. DataOK'
  BY <1>1, <1>2 DEF DataOK
<1> QED
  BY <1>1, <1>3, <1>4

\* The counts of commands are no concern of the reader.
LEMMA CountFields ==
  ASSUME NEW q, RouterOK(q), q.link = "open",
         NEW w \in Nat, NEW a \in Nat, NEW l \in Nat, NEW b \in BOOLEAN
  PROVE  LET s == [q EXCEPT !.writing = w, !.awaiting = a, !.late = l, !.busyState = b] IN
         /\ RouterOK(s)
         /\ s.writing = w /\ s.awaiting = a /\ s.late = l /\ s.busyState = b
         /\ s.peripheral = q.peripheral /\ s.reader = q.reader /\ s.link = q.link
         /\ s.commands = q.commands /\ s.schedule = q.schedule /\ s.ticking = q.ticking
         /\ s.zombies = q.zombies /\ s.leaked = q.leaked /\ s.crashed = q.crashed
  BY DEF RouterOK, RouterType

\* What a step leaves of the router when it only counts commands.
SameRouter ==
  /\ r'.peripheral = r.peripheral /\ r'.reader = r.reader /\ r'.link = r.link
  /\ r'.commands = r.commands /\ r'.schedule = r.schedule /\ r'.ticking = r.ticking
  /\ r'.zombies = r.zombies /\ r'.leaked = r.leaked /\ r'.crashed = r.crashed
  /\ UNCHANGED <<faults, settings, live, staleClient, lastHash, connJSON, pending, deferred>>

\* A command is submitted to a free router only, and makes it busy.
LEMMA SubmitFields ==
  ASSUME RouterOK(r), Submit
  PROVE  /\ RouterOK(r') /\ SameRouter
         /\ r.link = "open" /\ ~r.busyState /\ r'.busyState
         /\ r'.writing = r.writing + 1 /\ r'.awaiting = r.awaiting /\ r'.late = r.late
<1> DEFINE w == r.writing + 1
<1>1. /\ r.link = "open" /\ ~r.busyState
      /\ r' = [r EXCEPT !.writing = w, !.busyState = TRUE]
      /\ w \in Nat /\ r \in RouterType
      /\ UNCHANGED <<faults, settings, live, staleClient, lastHash, connJSON, pending, deferred>>
  BY DEF Submit, Step, Busy, Ready, RouterOK, RouterType
<1> HIDE DEF w
<1>2. /\ RouterOK(r') /\ SameRouter
      /\ r'.busyState /\ r'.writing = w /\ r'.awaiting = r.awaiting /\ r'.late = r.late
  BY <1>1 DEF RouterOK, RouterType, SameRouter
<1> QED
  BY <1>1, <1>2 DEF w

\* A write callback changes counts only.
LEMMA WrittenFields ==
  ASSUME RouterOK(r), Written
  PROVE  /\ RouterOK(r') /\ SameRouter
         /\ r.link = "open" /\ r.writing > 0 /\ r'.busyState = r.busyState
         /\ r'.writing = r.writing - 1 /\ r'.awaiting = r.awaiting + 1 /\ r'.late = r.late
<1> DEFINE w == r.writing - 1
           a == r.awaiting + 1
<1>1. /\ r.writing > 0
      /\ r' = [r EXCEPT !.writing = w, !.awaiting = a]
      /\ w \in Nat /\ a \in Nat /\ r \in RouterType
      /\ UNCHANGED <<faults, settings, live, staleClient, lastHash, connJSON, pending, deferred>>
  BY DEF Written, Step, RouterOK, RouterType
<1>2. r.link = "open"
  BY <1>1 DEF RouterOK
<1> HIDE DEF w, a
<1>3. /\ RouterOK(r') /\ SameRouter
      /\ r'.busyState = r.busyState /\ r'.writing = w /\ r'.awaiting = a /\ r'.late = r.late
  BY <1>1, <1>2 DEF RouterOK, RouterType, SameRouter
<1> QED
  BY <1>1, <1>2, <1>3 DEF w, a

\* A callback of submit, of the reader or of one that was stopped.
LEMMA AnswerFields ==
  ASSUME RouterOK(r), Answer
  PROVE  /\ RouterOK(r') /\ SameRouter /\ ~r'.busyState
         /\ \/ /\ r.writing + r.awaiting > 0 /\ r.link = "open"
               /\ r'.writing + r'.awaiting = r.writing + r.awaiting - 1
               /\ r'.writing <= r.writing /\ r'.late = r.late
            \/ /\ r.late > 0 /\ r'.late = r.late - 1
               /\ r'.writing = r.writing /\ r'.awaiting = r.awaiting
<1> DEFINE w == r.writing - 1
           a == r.awaiting - 1
           l == r.late - 1
<1>0. r.writing \in Nat /\ r.awaiting \in Nat /\ r.late \in Nat /\ r \in RouterType
  BY DEF RouterOK, RouterType
<1>1. CASE r.awaiting > 0 /\ Step([r EXCEPT !.awaiting = a, !.busyState = FALSE])
  <2>1. a \in Nat /\ r.link = "open"
    BY <1>0, <1>1 DEF RouterOK
  <2> HIDE DEF a
  <2>2. RouterOK(r') /\ SameRouter /\ ~r'.busyState /\ r'.awaiting = a /\ r'.writing = r.writing
        /\ r'.late = r.late
    BY <1>0, <1>1, <2>1 DEF Step, RouterOK, RouterType, SameRouter
  <2> QED
    BY <1>0, <1>1, <2>1, <2>2 DEF a
<1>2. CASE r.writing > 0 /\ Step([r EXCEPT !.writing = w, !.busyState = FALSE])
  <2>1. w \in Nat /\ r.link = "open"
    BY <1>0, <1>2 DEF RouterOK
  <2> HIDE DEF w
  <2>2. RouterOK(r') /\ SameRouter /\ ~r'.busyState /\ r'.writing = w /\ r'.awaiting = r.awaiting
        /\ r'.late = r.late
    BY <1>0, <1>2, <2>1 DEF Step, RouterOK, RouterType, SameRouter
  <2> QED
    BY <1>0, <1>2, <2>1, <2>2 DEF w
<1>3. CASE r.late > 0 /\ Step([r EXCEPT !.late = l, !.busyState = FALSE])
  <2>1. l \in Nat
    BY <1>0, <1>3
  <2> HIDE DEF l
  <2>2. RouterOK(r') /\ SameRouter /\ ~r'.busyState /\ r'.late = l /\ r'.writing = r.writing
        /\ r'.awaiting = r.awaiting
    BY <1>0, <1>3, <2>1 DEF Step, RouterOK, RouterType, SameRouter
  <2> QED
    BY <1>3, <2>2 DEF l
<1> QED
  BY <1>1, <1>2, <1>3 DEF Answer

\* A failing connection makes the router busy and nothing else.
LEMMA LinkErrorFields ==
  ASSUME RouterOK(r), LinkError
  PROVE  /\ RouterOK(r') /\ SameRouter
         /\ r.link = "open" /\ r'.busyState
         /\ r'.writing = r.writing /\ r'.awaiting = r.awaiting /\ r'.late = r.late
<1>1. /\ r.link = "open" /\ r.reader # None /\ r' = NoteErrorStatus(r)
      /\ UNCHANGED <<faults, settings, live, staleClient, lastHash, connJSON, pending, deferred>>
  BY DEF LinkError, Step, Ready
<1> QED
  BY <1>1, NoteErrorStatusFields DEF SameRouter

\* A connection that opens is that of the reader, or of one that was dropped.
LEMMA OpenedFields ==
  ASSUME RouterOK(r), Opened
  PROVE  /\ RouterOK(r')
         /\ \/ r.link = "opening" /\ r'.link = "open" /\ r'.zombies = r.zombies
            \/ r.zombies > 0 /\ r'.link = r.link
         /\ r'.peripheral = r.peripheral /\ r'.reader = r.reader /\ r'.commands = r.commands
         /\ r'.schedule = r.schedule /\ r'.ticking = r.ticking /\ r'.busyState = r.busyState
         /\ r'.writing = r.writing /\ r'.awaiting = r.awaiting /\ r'.late = r.late
         /\ r'.leaked = r.leaked /\ r'.crashed = r.crashed
         /\ deferred' = deferred + 1
         /\ UNCHANGED <<faults, settings, live, staleClient, lastHash, connJSON, pending>>
<1> DEFINE z == r.zombies - 1
<1>1. CASE r.zombies > 0 /\ r' = [r EXCEPT !.zombies = z]
  <2>1. z \in Nat
    BY <1>1 DEF RouterOK, RouterType
  <2> HIDE DEF z
  <2> QED
    BY <1>1, <2>1 DEF Opened, RouterOK, RouterType
<1>2. CASE r.link = "opening" /\ r' = [r EXCEPT !.link = "open"]
  BY <1>2 DEF Opened, RouterOK, RouterType
<1> QED
  BY <1>1, <1>2 DEF Opened

\* The deferred makeReady, with its reader or without.
LEMMA DeferredFields ==
  ASSUME RouterOK(r), DeferredReady
  PROVE  /\ RouterOK(r')
         /\ deferred > 0 /\ deferred' = deferred - 1
         /\ r' = MakeReady(r)
         /\ r'.peripheral = r.peripheral /\ r'.commands = r.commands /\ r'.schedule = r.schedule
         /\ ~r'.busyState
         /\ r'.writing = r.writing /\ r'.awaiting = r.awaiting /\ r'.late = r.late
         /\ r'.zombies = r.zombies /\ r'.leaked = r.leaked
         /\ r'.ticking <=> r.schedule # None
         /\ ~r.ticking => r'.crashed = r.crashed
         /\ r.reader # None => r'.reader = r.reader /\ r'.link = r.link
         /\ UNCHANGED <<faults, settings, live, staleClient, lastHash, connJSON, pending>>
<1>1. /\ r' = MakeReady(r) /\ deferred > 0 /\ deferred' = deferred - 1
      /\ UNCHANGED <<faults, settings, live, staleClient, lastHash, connJSON, pending>>
  BY DEF DeferredReady
<1> DEFINE s == MakeReady(r)
<1>2. /\ RouterOK(s)
      /\ s.peripheral = r.peripheral /\ s.commands = r.commands /\ s.schedule = r.schedule
      /\ ~s.busyState
      /\ s.writing = r.writing /\ s.awaiting = r.awaiting /\ s.late = r.late
      /\ s.zombies = r.zombies /\ s.leaked = r.leaked
      /\ s.ticking <=> r.schedule # None
      /\ ~r.ticking => s.crashed = r.crashed
      /\ r.reader # None => s.reader = r.reader /\ s.link = r.link
  BY MakeReadyFields
<1> HIDE DEF s
<1> QED
  BY <1>1, <1>2 DEF s

\* A lost client: a router with a peripheral is reset, and has a client that has ended.
LEMMA LostFields ==
  ASSUME RouterOK(r), ClientLost
  PROVE  /\ RouterOK(r')
         /\ "blip" \in faults /\ staleClient' /\ lastHash' = None /\ pending' = <<>>
         /\ r'.crashed = r.crashed
         /\ r'.peripheral = None
         /\ r' = r \/ r'.schedule = None
         /\ UNCHANGED <<faults, settings, connJSON, deferred>>
<1>1. CASE r.peripheral = None
  BY <1>1 DEF ClientLost
<1>2. CASE r.peripheral # None
  <2>1. r' = Reset(r)
    BY <1>2 DEF ClientLost
  <2>2. RouterOK(Reset(r)) /\ Reset(r).schedule = None /\ Reset(r).crashed = r.crashed
        /\ Reset(r).peripheral = None
    BY ResetFields
  <2> QED
    BY <1>2, <2>1, <2>2 DEF ClientLost
<1> QED
  BY <1>1, <1>2

\* Every step keeps the types.
LEMMA TypeStep == TypeInv /\ [Next]_vars => TypeInv'
<1> SUFFICES ASSUME TypeInv, [Next]_vars PROVE TypeInv'
  OBVIOUS
<1>1. CASE SettingsRead
  BY <1>1, ReadTypes DEF TypeInv, FlagOK
<1>2. CASE ScheduleReply
  <2>1. Head(pending) \in Cmds /\ Tail(pending) \in Seq(Cmds)
    BY <1>2 DEF ScheduleReply, TypeInv, DataOK
  <2>2. RouterOK(r')
    BY <1>2, <2>1, NewScheduleFields, NoteErrorStatusFields DEF ScheduleReply, TypeInv
  <2> QED
    BY <1>2, <2>1, <2>2 DEF ScheduleReply, TypeInv, FlagOK, DataOK
<1>3. CASE Opened
  BY <1>3, OpenedFields DEF TypeInv, FlagOK, DataOK
<1>4. CASE DeferredReady
  BY <1>4, DeferredFields DEF TypeInv, FlagOK, DataOK
<1>5. CASE Submit \/ Written \/ Answer \/ LinkError
  BY <1>5, SubmitFields, WrittenFields, AnswerFields, LinkErrorFields
     DEF TypeInv, FlagOK, DataOK, SameRouter
<1>6. CASE ClientLost
  <2>1. /\ RouterOK(r') /\ staleClient' /\ lastHash' = None /\ pending' = <<>>
        /\ UNCHANGED <<settings, connJSON, deferred>>
    BY <1>6, LostFields DEF TypeInv
  <2>2. live' \in BOOLEAN /\ staleClient' \in BOOLEAN
    BY <1>6 DEF ClientLost
  <2> QED
    BY <2>1, <2>2 DEF TypeInv, FlagOK, DataOK
<1>7. CASE ClientBack
  BY <1>7 DEF ClientBack, TypeInv, FlagOK, DataOK
<1>8. ASSUME NEW h \in Offered, ChangeSettings(h) PROVE TypeInv'
  BY <1>8 DEF ChangeSettings, TypeInv, FlagOK, DataOK, Offered, Sound
<1>9. CASE UNCHANGED vars
  BY <1>9 DEF vars, TypeInv, FlagOK, DataOK
<1> QED
  BY <1>1, <1>2, <1>3, <1>4, <1>5, <1>6, <1>7, <1>8, <1>9 DEF Next

\* The types hold always.
LEMMA TypeInvHolds == Spec => []TypeInv
<1>1. Init => TypeInv
  <2> SUFFICES ASSUME Init PROVE TypeInv
    OBVIOUS
  <2>1. RouterOK(r)
    BY DEF Init, RouterOK, RouterType
  <2>2. DataOK
    BY DEF Init, DataOK, Offered, Sound
  <2> QED
    BY <2>1, <2>2 DEF Init, TypeInv, FlagOK
<1> QED
  BY <1>1, TypeStep, PTL DEF Spec

\* The router's record keeps its shape: a reader has a connection and a known
\* peripheral, a schedule that ticks is known, commands need an open connection.
THEOREM TypeCorrect == Spec => []TypeOK
  BY TypeInvHolds, TypeParts, PTL

-----------------------------------------------------------------------------
(* Turns: when the next settings are read, nothing of the last is under way. *)

\* No step changes what an execution may meet.
LEMMA FaultsFixed == [Next]_vars => faults' = faults
  BY DEF Next, vars, SettingsRead, ScheduleReply, Opened, DeferredReady, Submit, Written,
         Answer, LinkError, Step, ClientLost, ClientBack, ChangeSettings

\* Until its Redis client is lost, the router runs with the connection last
\* checked, which is that of the settings last seen.
ConnectionInv ==
  ~staleClient => /\ live
                  /\ r.peripheral = connJSON
                  /\ connJSON = IF lastHash = None THEN None ELSE lastHash.conn

Turn ==
  /\ r.zombies = 0
  /\ deferred > 0 => deferred = 1 /\ r.link = "open"
  /\ Len(pending) <= 1
  /\ settings # lastHash => pending = <<>> /\ deferred = 0 /\ r.link # "opening"

\* Without haste, and with its first client.
TurnInv == "hasty" \notin faults /\ ~staleClient => Turn

\* Once the connection keyset was checked, the peripheral is that of the settings.
LEMMA CheckedPeripheral ==
  ASSUME DataOK, RouterOK(r), r.peripheral = connJSON
  PROVE  Checked.peripheral = settings.conn
<1>1. CASE settings.conn = connJSON
  BY <1>1 DEF Checked, CheckConnection
<1>2. CASE settings.conn # connJSON
  BY <1>2, CheckConnectionFields, SettingsTypes DEF Checked, DataOK
<1> QED
  BY <1>1, <1>2

\* Every step keeps the connection that of the settings last seen.
LEMMA ConnectionStep == TypeInv /\ ConnectionInv /\ [Next]_vars => ConnectionInv'
<1> SUFFICES ASSUME TypeInv, ConnectionInv, [Next]_vars, ~staleClient'
             PROVE  ConnectionInv'
  BY DEF ConnectionInv
<1> USE DEF TypeInv
<1>1. CASE SettingsRead
  <2>1. /\ ~staleClient /\ live' = live /\ lastHash' = settings /\ connJSON' = settings.conn
        /\ r' = Change(Checked, settings.cmd) /\ RouterOK(Checked)
    BY <1>1, ReadTypes, CheckedType
  <2>2. settings # None /\ settings.cmd \in Cmds
    BY SettingsTypes DEF DataOK
  <2>3. Checked.peripheral = settings.conn
    BY <2>1, CheckedPeripheral DEF ConnectionInv
  <2>4. r'.peripheral = Checked.peripheral
    <3>1. CASE settings.cmd = Checked.commands
      BY <2>1, <3>1 DEF Change
    <3>2. CASE settings.cmd # Checked.commands
      BY <2>1, <2>2, <3>2, ChangeFields
    <3> QED
      BY <3>1, <3>2
  <2> QED
    BY <2>1, <2>2, <2>3, <2>4 DEF ConnectionInv
<1>2. CASE ScheduleReply
  <2>1. Head(pending) \in Cmds
    BY <1>2 DEF ScheduleReply, DataOK
  <2>2. r'.peripheral = r.peripheral
    BY <1>2, <2>1, NewScheduleFields, NoteErrorStatusFields DEF ScheduleReply
  <2> QED
    BY <1>2, <2>2 DEF ScheduleReply, ConnectionInv
<1>3. CASE Opened \/ DeferredReady
  BY <1>3, OpenedFields, DeferredFields DEF ConnectionInv
<1>4. CASE Submit \/ Written \/ Answer \/ LinkError
  BY <1>4, SubmitFields, WrittenFields, AnswerFields, LinkErrorFields DEF SameRouter, ConnectionInv
<1>5. CASE ClientLost
  BY <1>5, LostFields
<1>6. CASE ClientBack \/ (\E h \in Offered : ChangeSettings(h)) \/ UNCHANGED vars
  BY <1>6 DEF ClientBack, ChangeSettings, vars, ConnectionInv
<1> QED
  BY <1>1, <1>2, <1>3, <1>4, <1>5, <1>6 DEF Next

\* The reading of new settings by a router that is calm.
LEMMA CalmRead ==
  ASSUME TypeInv, ConnectionInv, Turn, ~staleClient, SettingsRead
  PROVE  /\ pending = <<>> /\ deferred = 0 /\ r.link # "opening"
         /\ Checked.zombies = 0
         /\ settings.conn = connJSON => Checked = r
<1>1. pending = <<>> /\ deferred = 0 /\ r.link # "opening"
  BY DEF SettingsRead, Turn
<1>2. settings.conn = connJSON => Checked = r
  BY DEF Checked, CheckConnection
<1>3. settings.conn # connJSON => Checked.zombies = 0
  BY <1>1, CheckConnectionFields, SettingsTypes DEF Checked, TypeInv, DataOK, Turn
<1> QED
  BY <1>1, <1>2, <1>3 DEF Turn

\* Settings stay those last seen while anything of them is under way.
LEMMA TurnStep ==
  ASSUME TypeInv, ConnectionInv, TurnInv, "hasty" \notin faults, ~staleClient', [Next]_vars
  PROVE  Turn'
<1> USE DEF TypeInv
<1>1. CASE SettingsRead
  <2>1. /\ ~staleClient /\ lastHash' = settings /\ settings' = settings /\ deferred' = deferred
        /\ r' = Change(Checked, settings.cmd) /\ RouterOK(Checked)
        /\ pending' \in {pending, Append(pending, settings.cmd)}
    BY <1>1, ReadTypes, CheckedType
  <2>2. pending = <<>> /\ deferred = 0 /\ Checked.zombies = 0
    BY <1>1, <2>1, CalmRead DEF TurnInv
  <2>3. settings.cmd \in Cmds
    BY SettingsTypes DEF DataOK
  <2>4. r'.zombies = 0
    <3>1. CASE settings.cmd = Checked.commands
      BY <2>1, <2>2, <3>1 DEF Change
    <3>2. CASE settings.cmd # Checked.commands
      BY <2>1, <2>2, <2>3, <3>2, ChangeFields
    <3> QED
      BY <3>1, <3>2
  <2>5. Len(pending') <= 1
    <3>1. Len(<<>>) <= 1 /\ Len(Append(<<>>, settings.cmd)) <= 1
      BY <2>3
    <3> QED
      BY <2>1, <2>2, <3>1
  <2> QED
    BY <2>1, <2>2, <2>4, <2>5 DEF Turn
<1>2. ~staleClient /\ Turn
  <2>1. staleClient => staleClient'
    BY DEF Next, vars, SettingsRead, ScheduleReply, Opened, DeferredReady, Submit, Written,
           Answer, LinkError, Step, ClientLost, ClientBack, ChangeSettings
  <2> QED
    BY <2>1 DEF TurnInv
<1>3. CASE ScheduleReply
  <2>1. /\ Head(pending) \in Cmds /\ pending' = Tail(pending) /\ pending # <<>>
        /\ UNCHANGED <<settings, lastHash, deferred>>
    BY <1>3 DEF ScheduleReply, DataOK
  <2>2. pending' = <<>> /\ settings = lastHash
    BY <1>2, <2>1 DEF Turn, DataOK
  <2>3. r' = NoteErrorStatus(r) \/ r' = NewSchedule(r, Head(pending))
    BY <1>3 DEF ScheduleReply
  <2>4. r'.zombies = r.zombies /\ (r.link = "open" => r'.link = "open")
    <3>1. r.link = "open" => r.reader # None
      BY DEF RouterOK
    <3>2. CASE r' = NoteErrorStatus(r)
      BY <3>1, <3>2, NoteErrorStatusFields
    <3>3. CASE r' = NewSchedule(r, Head(pending))
      BY <2>1, <3>1, <3>3, NewScheduleFields
    <3> QED
      BY <2>3, <3>2, <3>3
  <2>5. deferred' > 0 => deferred' = 1 /\ r'.link = "open"
    BY <1>2, <2>1, <2>4 DEF Turn
  <2> QED
    BY <1>2, <2>1, <2>2, <2>4, <2>5 DEF Turn
<1>4. CASE Opened
  BY <1>2, <1>4, OpenedFields DEF Turn, DataOK
<1>5. CASE DeferredReady
  <2>1. deferred > 0
    BY <1>5 DEF DeferredReady
  <2>2. deferred = 1 /\ r.reader # None
    BY <1>2, <2>1 DEF Turn, RouterOK
  <2>3. deferred' = 0 /\ UNCHANGED <<settings, lastHash, pending>>
    BY <1>5, <2>2 DEF DeferredReady
  <2>4. r'.zombies = r.zombies /\ r'.link = r.link
    BY <1>5, <2>2, DeferredFields
  <2> QED
    BY <1>2, <2>3, <2>4 DEF Turn
<1>6. CASE Submit \/ Written \/ Answer \/ LinkError
  BY <1>2, <1>6, SubmitFields, WrittenFields, AnswerFields, LinkErrorFields DEF SameRouter, Turn
<1>7. CASE ClientLost
  BY <1>7, LostFields
<1>8. ASSUME NEW h \in Offered, ChangeSettings(h) PROVE Turn'
  BY <1>2, <1>8 DEF ChangeSettings, Quiet, Turn
<1>9. CASE ClientBack \/ UNCHANGED vars
  BY <1>2, <1>9 DEF ClientBack, vars, Turn
<1> QED
  BY <1>1, <1>3, <1>4, <1>5, <1>6, <1>7, <1>8, <1>9 DEF Next

\* Only a lost client is replaced by another one.
ClientInv == staleClient => "blip" \in faults

\* Every step keeps the client, or is one of a lost client.
LEMMA ClientStep == ClientInv /\ [Next]_vars => ClientInv'
  BY DEF ClientInv, Next, vars, SettingsRead, ScheduleReply, Opened, DeferredReady, Submit,
         Written, Answer, LinkError, Step, ClientLost, ClientBack, ChangeSettings

Inv == TypeInv /\ ConnectionInv /\ ClientInv /\ TurnInv

\* The invariants of this section hold always.
LEMMA InvHolds == Spec => []Inv
<1>1. Init => ConnectionInv /\ ClientInv /\ TurnInv
  BY DEF Init, ConnectionInv, ClientInv, TurnInv, Turn
<1>2. /\ TypeInv /\ ConnectionInv /\ ClientInv /\ TurnInv /\ [Next]_vars
      => ConnectionInv' /\ ClientInv' /\ TurnInv'
  BY ConnectionStep, ClientStep, TurnStep, FaultsFixed DEF TurnInv
<1> QED
  BY <1>1, <1>2, TypeInvHolds, PTL DEF Spec, Inv

-----------------------------------------------------------------------------
(* Commands: one at a time, because the router is busy until it is made      *)
(* ready, and that is over before the first command.                         *)

Untroubled == faults \cap {"hasty", "midwrite", "blip"} = {}

CommandInv ==
  /\ r.late = 0
  /\ r.writing + r.awaiting <= 1
  /\ r.writing + r.awaiting = 1 => r.busyState
  /\ r.link # "open" => r.busyState
  /\ deferred > 0 => r.busyState /\ r.writing + r.awaiting = 0

\* No step makes a second command.
LEMMA CommandStep ==
  ASSUME Inv, Untroubled, CommandInv, [Next]_vars
  PROVE  CommandInv'
<1>0. /\ Turn /\ ~staleClient /\ ConnectionInv
      /\ TypeInv /\ RouterOK(r) /\ deferred \in Nat
      /\ r.writing \in Nat /\ r.awaiting \in Nat
  BY DEF Inv, Untroubled, ClientInv, TurnInv, TypeInv, DataOK, RouterOK, RouterType
<1>1. CASE SettingsRead
  <2>1. /\ deferred' = deferred /\ r' = Change(Checked, settings.cmd) /\ RouterOK(Checked)
        /\ settings.cmd \in Cmds /\ settings.conn \in Conns \cup {None}
    BY <1>0, <1>1, ReadTypes, CheckedType, SettingsTypes DEF TypeInv, DataOK
  <2>2. /\ deferred = 0 /\ r.writing = 0
        /\ settings.conn = connJSON => Checked = r
    BY <1>0, <1>1, CalmRead DEF SettingsRead, Untroubled
  <2>3. /\ Checked.late = 0 /\ Checked.writing = 0 /\ Checked.awaiting \in {0, 1}
        /\ Checked.awaiting = 1 => Checked.busyState
        /\ Checked.link # "open" => Checked.busyState
    <3>1. CASE settings.conn = connJSON
      BY <1>0, <2>2, <3>1 DEF CommandInv
    <3>2. CASE settings.conn # connJSON
      <4>1. r.busyState \/ r.peripheral # None
        BY <1>0, RouterAssumption DEF CommandInv, RouterOK
      <4> QED
        BY <1>0, <2>1, <2>2, <3>2, <4>1, CheckConnectionFields DEF Checked, CommandInv
    <3> QED
      BY <3>1, <3>2
  <2>4. CASE settings.cmd = Checked.commands
    <3>1. r' = Checked
      BY <2>1, <2>4 DEF Change
    <3> QED
      BY <2>1, <2>2, <2>3, <3>1 DEF CommandInv
  <2>5. CASE settings.cmd # Checked.commands
    <3>1. r'.late = 0 /\ r'.writing = 0 /\ r'.awaiting = 0 /\ r'.busyState
      BY <2>1, <2>3, <2>5, ChangeFields
    <3> QED
      BY <2>1, <2>2, <3>1 DEF CommandInv
  <2> QED
    BY <2>4, <2>5
<1>2. CASE ScheduleReply
  <2>1. /\ r' = NoteErrorStatus(r) \/ r' = NewSchedule(r, Head(pending))
        /\ Head(pending) \in Cmds /\ deferred' = deferred
    BY <1>0, <1>2 DEF ScheduleReply, TypeInv, DataOK
  <2>2. /\ r'.late = r.late /\ r'.writing = r.writing /\ r'.awaiting = r.awaiting
        /\ r.busyState => r'.busyState
        /\ r.link = "open" => r'.link = "open"
    <3>1. r.link = "open" => r.reader # None
      BY <1>0 DEF RouterOK
    <3>2. CASE r' = NoteErrorStatus(r)
      BY <1>0, <3>1, <3>2, NoteErrorStatusFields
    <3>3. CASE r' = NewSchedule(r, Head(pending))
      BY <1>0, <2>1, <3>1, <3>3, NewScheduleFields
    <3> QED
      BY <2>1, <3>2, <3>3
  <2> QED
    BY <2>1, <2>2 DEF CommandInv
<1>3. CASE Opened
  <2>1. /\ r.link = "opening" /\ r'.link = "open" /\ r'.busyState = r.busyState
        /\ r'.writing = r.writing /\ r'.awaiting = r.awaiting /\ r'.late = r.late
    BY <1>0, <1>3, OpenedFields DEF Turn
  <2>2. r.busyState /\ r.writing = 0 /\ r.awaiting = 0
    BY <1>0, <2>1 DEF CommandInv, RouterOK
  <2> QED
    BY <2>1, <2>2 DEF CommandInv
<1>4. CASE DeferredReady
  <2>1. deferred = 1 /\ r.link = "open" /\ deferred' = 0
    BY <1>0, <1>4 DEF DeferredReady, Turn
  <2>2. r.reader # None /\ r.writing + r.awaiting = 0
    BY <1>0, <2>1 DEF CommandInv, RouterOK
  <2>3. r'.link = "open"
    BY <1>0, <1>4, <2>1, <2>2, DeferredFields
  <2>4. r'.writing = r.writing /\ r'.awaiting = r.awaiting /\ r'.late = r.late
    BY <1>0, <1>4, DeferredFields
  <2> QED
    BY <2>1, <2>2, <2>3, <2>4 DEF CommandInv
<1>5. CASE Submit
  <2>1. /\ ~r.busyState /\ r'.busyState /\ r'.link = r.link /\ deferred' = deferred
        /\ r'.writing = r.writing + 1 /\ r'.awaiting = r.awaiting /\ r'.late = r.late
    BY <1>0, <1>5, SubmitFields DEF SameRouter
  <2> QED
    BY <1>0, <2>1 DEF CommandInv
<1>6. CASE Written
  <2>1. /\ r'.busyState = r.busyState /\ r'.link = r.link /\ deferred' = deferred
        /\ r'.writing = r.writing - 1 /\ r'.awaiting = r.awaiting + 1 /\ r'.late = r.late
    BY <1>0, <1>6, WrittenFields DEF SameRouter
  <2> QED
    BY <1>0, <2>1 DEF CommandInv
<1>7. CASE Answer
  <2>1. /\ r'.link = r.link /\ deferred' = deferred
        /\ r.writing + r.awaiting > 0 /\ r.link = "open"
        /\ r'.writing + r'.awaiting = r.writing + r.awaiting - 1 /\ r'.late = r.late
    BY <1>0, <1>7, AnswerFields DEF SameRouter, CommandInv
  <2> QED
    BY <1>0, <2>1 DEF CommandInv
<1>8. CASE LinkError
  BY <1>0, <1>8, LinkErrorFields DEF SameRouter, CommandInv
<1>9. CASE ClientLost
  BY <1>9, LostFields, <1>0 DEF Untroubled
<1>10. CASE ClientBack \/ (\E h \in Offered : ChangeSettings(h)) \/ UNCHANGED vars
  BY <1>10 DEF ClientBack, ChangeSettings, vars, CommandInv
<1> QED
  BY <1>1, <1>2, <1>3, <1>4, <1>5, <1>6, <1>7, <1>8, <1>9, <1>10 DEF Next

\* A peripheral never has two commands at a time, and while it has one the queue
\* router is told that it is busy, unless settings are changed in haste or while a
\* command is being written, or Redis is lost.
THEOREM OneCommandHolds == Spec => []OneCommand
<1>1. Init => (Untroubled => CommandInv)
  BY DEF Init, CommandInv
<1>2. Inv /\ (Untroubled => CommandInv) /\ [Next]_vars => (Untroubled => CommandInv)'
  BY CommandStep, FaultsFixed DEF Untroubled
<1>3. (Untroubled => CommandInv) => OneCommand
  BY DEF Untroubled, CommandInv, OneCommand
<1> QED
  BY <1>1, <1>2, <1>3, InvHolds, PTL DEF Spec

-----------------------------------------------------------------------------
(* Schedules: one that ticks has an open connection, so it is stopped before *)
(* another one is asked for; with an ended client none is ever started.      *)

Gentle == faults \cap {"hasty", "odd"} = {}

ScheduleInv ==
  /\ settings \in Sound
  /\ ~r.crashed
  /\ r.peripheral \in Known \cup {None}
  /\ staleClient => r.schedule = None /\ pending = <<>>
  /\ ~staleClient =>
       /\ r.leaked = 0
       /\ r.schedule # None => r.link # "closed"
       /\ r.ticking => r.link = "open" /\ deferred = 0
       /\ pending # <<>> => r.schedule = None /\ r.peripheral # None
                            /\ Routing[Head(pending)] = "scheduled"

\* The reading of new settings lets go of nothing that opens or ticks.
LEMMA ScheduleRead ==
  ASSUME Inv, Gentle, ScheduleInv, SettingsRead
  PROVE  ScheduleInv'
<1>0. /\ TypeInv /\ RouterOK(r) /\ DataOK /\ ConnectionInv /\ (~staleClient => Turn)
      /\ r \in RouterType
  BY DEF Inv, TypeInv, TurnInv, Gentle, RouterOK
<1>1. /\ r' = Change(Checked, settings.cmd) /\ RouterOK(Checked) /\ RouterOK(r')
      /\ settings.cmd \in Cmds /\ settings.conn \in Known \cup {None}
      /\ settings.conn \in Conns \cup {None}
      /\ UNCHANGED <<settings, deferred, staleClient>>
      /\ pending' = IF (AsksSchedule(Checked, settings.cmd) /\ ~staleClient)
                      THEN Append(pending, settings.cmd) ELSE pending
  BY <1>0, ReadTypes, CheckedType, SettingsTypes DEF ScheduleInv, Sound
<1>2. /\ settings.conn = connJSON => Checked = r
      /\ ~staleClient => deferred = 0 /\ pending = <<>> /\ r.link # "opening"
  BY <1>0, CalmRead DEF Checked, CheckConnection
<1>3. r.peripheral = None => r.link = "closed"
  BY <1>0, RouterAssumption DEF RouterOK
<1>4. /\ ~Checked.crashed /\ Checked.peripheral \in Known \cup {None}
      /\ Checked.schedule = None \/ (Checked.link = "open" /\ ~staleClient)
      /\ ~staleClient => Checked.leaked = 0
  <2>1. CASE settings.conn = connJSON
    BY <1>0, <1>2, <2>1 DEF ScheduleInv, RouterOK, RouterType
  <2>2. CASE settings.conn # connJSON
    <3>1. r.schedule = None \/ r.peripheral # None
      BY <1>3 DEF ScheduleInv
    <3> QED
      BY <1>0, <1>1, <2>2, <3>1, CheckConnectionFields DEF Checked, ScheduleInv
  <2> QED
    BY <2>1, <2>2
<1>5. CASE settings.cmd = Checked.commands
  <2>1. r' = Checked /\ pending' = pending
    BY <1>1, <1>5 DEF Change, AsksSchedule
  <2>2. Checked.ticking => Checked.schedule # None
    BY <1>1 DEF RouterOK
  <2> QED
    BY <1>1, <1>2, <1>4, <2>1, <2>2 DEF ScheduleInv
<1>6. CASE settings.cmd # Checked.commands
  <2>1. /\ r'.schedule = None /\ ~r'.ticking /\ r'.crashed = Checked.crashed
        /\ r'.leaked = Checked.leaked /\ r'.peripheral = Checked.peripheral
    BY <1>1, <1>4, <1>6, ChangeFields
  <2>2. CASE pending' = pending
    BY <1>1, <1>2, <1>4, <2>1, <2>2 DEF ScheduleInv
  <2>3. CASE pending' # pending
    <3>1. /\ ~staleClient /\ pending' = Append(<<>>, settings.cmd)
          /\ Routing[settings.cmd] \in {"scheduled", "empty"}
      BY <1>1, <1>2, <2>3 DEF AsksSchedule
    <3>2. Head(pending') = settings.cmd
      BY <1>1, <3>1
    <3>3. Routing[settings.cmd] = "scheduled" /\ settings.conn # None
      BY <3>1 DEF ScheduleInv, Sound
    <3>4. r'.peripheral = settings.conn
      BY <1>0, <2>1, <3>1, CheckedPeripheral DEF ConnectionInv
    <3> QED
      BY <1>1, <1>4, <2>1, <3>1, <3>2, <3>3, <3>4 DEF ScheduleInv
  <2> QED
    BY <2>2, <2>3
<1> QED
  BY <1>5, <1>6

\* Nor does any other step.
LEMMA ScheduleStep ==
  ASSUME Inv, Gentle, ScheduleInv, [Next]_vars
  PROVE  ScheduleInv'
<1>0. /\ TypeInv /\ RouterOK(r) /\ DataOK /\ (~staleClient => Turn) /\ deferred \in Nat
      /\ r.ticking => r.schedule # None
      /\ r.link = "closed" <=> r.reader = None
      /\ r \in RouterType
  BY DEF Inv, TypeInv, TurnInv, Gentle, RouterOK, DataOK
<1>1. CASE SettingsRead
  BY <1>1, ScheduleRead
<1>2. CASE ScheduleReply
  <2>1. /\ pending # <<>> /\ pending' = Tail(pending) /\ Head(pending) \in Cmds
        /\ UNCHANGED <<settings, staleClient, deferred>>
    BY <1>0, <1>2 DEF ScheduleReply, DataOK
  <2>2. ~staleClient /\ pending' = <<>>
    BY <1>0, <2>1 DEF ScheduleInv, Turn, DataOK
  <2>3. r' = NewSchedule(r, Head(pending)) /\ ~r.ticking /\ r.peripheral \in Known
    BY <1>0, <1>2, <2>1, <2>2 DEF ScheduleReply, ScheduleInv
  <2>4. /\ r'.peripheral = r.peripheral /\ r'.crashed = r.crashed
        /\ ~r'.ticking /\ r'.leaked = r.leaked /\ r'.link # "closed"
    BY <1>0, <2>1, <2>3, NewScheduleFields
  <2> QED
    BY <2>1, <2>2, <2>4 DEF ScheduleInv
<1>3. CASE Opened
  <2>1. /\ r'.peripheral = r.peripheral /\ r'.schedule = r.schedule /\ r'.ticking = r.ticking
        /\ r'.leaked = r.leaked /\ r'.crashed = r.crashed
        /\ UNCHANGED <<settings, staleClient, pending>>
    BY <1>0, <1>3, OpenedFields
  <2>2. ~staleClient => r.link = "opening" /\ r'.link = "open"
    BY <1>0, <1>3, OpenedFields DEF Turn
  <2> QED
    BY <2>1, <2>2 DEF ScheduleInv
<1>4. CASE DeferredReady
  <2>1. /\ r'.peripheral = r.peripheral /\ r'.schedule = r.schedule /\ r'.leaked = r.leaked
        /\ UNCHANGED <<settings, staleClient, pending>>
    BY <1>0, <1>4, DeferredFields
  <2>2. ~r.ticking
    BY <1>0, <1>4 DEF DeferredReady, ScheduleInv
  <2>3. r'.crashed = r.crashed
    BY <1>0, <1>4, <2>2, DeferredFields
  <2>4. ~staleClient => r'.link = "open" /\ deferred' = 0
    <3>1. ~staleClient => deferred = 1 /\ r.link = "open" /\ r.reader # None
      BY <1>0, <1>4 DEF DeferredReady, Turn
    <3>2. r.reader # None => r'.link = r.link
      BY <1>0, <1>4, DeferredFields
    <3>3. deferred' = deferred - 1
      BY <1>4 DEF DeferredReady
    <3> QED
      BY <3>1, <3>2, <3>3
  <2> QED
    BY <2>1, <2>3, <2>4 DEF ScheduleInv
<1>5. CASE Submit \/ Written \/ Answer \/ LinkError
  <2>1. SameRouter
    BY <1>0, <1>5, SubmitFields, WrittenFields, AnswerFields, LinkErrorFields
  <2> QED
    BY <2>1 DEF SameRouter, ScheduleInv
<1>6. CASE ClientLost
  <2>1. /\ staleClient' /\ pending' = <<>> /\ r'.crashed = r.crashed /\ r'.peripheral = None
        /\ r' = r \/ r'.schedule = None
        /\ settings' = settings
    BY <1>0, <1>6, LostFields
  <2>2. r' = r => r.schedule = None
    <3>1. r' = r => r.link = "closed"
      BY <1>0, <2>1, RouterAssumption DEF RouterOK
    <3> QED
      BY <3>1 DEF ScheduleInv
  <2> QED
    BY <2>1, <2>2 DEF ScheduleInv
<1>7. ASSUME NEW h \in Offered, ChangeSettings(h) PROVE ScheduleInv'
  BY <1>7 DEF ChangeSettings, Offered, Gentle, ScheduleInv
<1>8. CASE ClientBack \/ UNCHANGED vars
  BY <1>8 DEF ClientBack, vars, ScheduleInv
<1> QED
  BY <1>1, <1>2, <1>3, <1>4, <1>5, <1>6, <1>7, <1>8 DEF Next

\* No reader is let go of while its connection opens, no schedule while it ticks,
\* and none is started that ticks already, if settings that can be carried out
\* change one after the other; the last of these over lost Redis clients too.
THEOREM NothingLeftHolds == Spec => []NothingLeft
<1>1. Init => (Gentle => ScheduleInv)
  BY DEF Init, Offered, Gentle, ScheduleInv
<1>2. Inv /\ (Gentle => ScheduleInv) /\ [Next]_vars => (Gentle => ScheduleInv)'
  BY ScheduleStep, FaultsFixed DEF Gentle
<1>3. Inv /\ (Gentle => ScheduleInv) => NothingLeft
  BY DEF Inv, ClientInv, TurnInv, Turn, Gentle, ScheduleInv, NothingLeft
<1> QED
  BY <1>1, <1>2, <1>3, InvHolds, PTL DEF Spec

-----------------------------------------------------------------------------
(* Settings: what the router has of the settings last seen, and what of them *)
(* waits for a schedule.                                                     *)

Orderly == faults \cap {"hasty", "both", "blip"} = {}

Asks(cmd) == Routing[cmd] \in {"ad-hoc", "scheduled"}

ServeInv ==
  /\ r.reader # None => r.reader = r.commands
  /\ r.commands # None => Asks(r.commands)
  /\ pending = <<>> /\ r.peripheral \in Known /\ r.commands # None => r.reader # None
  /\ pending # <<>> => /\ lastHash # None /\ Head(pending) = lastHash.cmd
                       /\ Routing[lastHash.cmd] \in {"scheduled", "empty"}
                       /\ Routing[lastHash.cmd] = "scheduled" => r.reader = None
  /\ lastHash = None => r.commands = None
  /\ lastHash # None =>
       /\ Routing[lastHash.cmd] = "none" => r.commands = None
       /\ Asks(lastHash.cmd) /\ pending = <<>> => r.commands = lastHash.cmd
       /\ settings # lastHash /\ lastHash.conn = None /\ settings.conn # None =>
            settings.cmd = lastHash.cmd

\* What of ServeInv is said of one router, q, with the settings h.
Obeys(q, h, p) ==
  /\ q.reader # None => q.reader = q.commands
  /\ q.commands # None => Asks(q.commands)
  /\ p = <<>> /\ q.peripheral \in Known /\ q.commands # None => q.reader # None
  /\ p # <<>> => /\ Head(p) = h.cmd
                 /\ Routing[h.cmd] \in {"scheduled", "empty"}
                 /\ Routing[h.cmd] = "scheduled" => q.reader = None
  /\ Routing[h.cmd] = "none" => q.commands = None
  /\ Asks(h.cmd) /\ p = <<>> => q.commands = h.cmd

\* The reading of new settings gives a calm router the reader they ask for.
LEMMA ServeRead ==
  ASSUME Inv, Orderly, ServeInv, SettingsRead
  PROVE  ServeInv'
<1>0. /\ TypeInv /\ RouterOK(r) /\ DataOK /\ ConnectionInv /\ Turn /\ ~staleClient
      /\ r \in RouterType
  BY DEF Inv, TypeInv, TurnInv, ClientInv, Orderly, RouterOK
<1>1. /\ r' = Change(Checked, settings.cmd) /\ RouterOK(Checked) /\ RouterOK(r')
      /\ settings.cmd \in Cmds /\ settings.conn \in Conns \cup {None} /\ settings # None
      /\ lastHash' = settings
      /\ pending' = IF AsksSchedule(Checked, settings.cmd)
                      THEN Append(pending, settings.cmd) ELSE pending
      /\ UNCHANGED settings
  BY <1>0, ReadTypes, CheckedType, SettingsTypes DEF DataOK
<1>2. /\ pending = <<>> /\ r.link # "opening" /\ settings # lastHash
      /\ settings.conn = connJSON => Checked = r
      /\ Checked.peripheral = settings.conn
  BY <1>0, CalmRead, CheckedPeripheral DEF ConnectionInv, SettingsRead
<1>3. /\ Checked.reader # None => Checked.reader = Checked.commands
      /\ Checked.peripheral \in Known /\ Checked.commands # None => Checked.reader # None
      /\ Checked.commands # None => Checked.commands = r.commands
  <2>1. CASE settings.conn = connJSON
    BY <1>2, <2>1 DEF ServeInv
  <2>2. CASE settings.conn # connJSON
    BY <1>0, <1>1, <2>2, CheckConnectionFields DEF Checked, ServeInv
  <2> QED
    BY <2>1, <2>2
\* A reader that opens was made with the commands of the settings last seen.
<1>4. ASSUME Left(Checked) # None
      PROVE  lastHash # None /\ settings.cmd = lastHash.cmd /\ Checked.commands = r.commands
             /\ Checked.commands # None
  <2>1. Checked.reader # None /\ Checked.link # "open"
    BY <1>4 DEF Left
  <2>2. settings.conn # connJSON
    BY <1>0, <1>2, <2>1 DEF RouterOK, RouterType
  <2>3. r.peripheral = None /\ settings.conn \in Known /\ Checked.commands = r.commands
        /\ Checked.commands # None
    BY <1>0, <1>1, <2>1, <2>2, CheckConnectionFields DEF Checked
  <2>4. lastHash # None
    BY <2>3 DEF ServeInv
  <2>5. lastHash.conn = None /\ settings.conn # None
    BY <1>0, <2>3, <2>4, RouterAssumption DEF ConnectionInv
  <2> QED
    BY <1>2, <2>3, <2>4, <2>5 DEF ServeInv
<1>5. Obeys(r', settings, pending')
  <2>1. CASE settings.cmd = Checked.commands
    <3>1. r' = Checked /\ pending' = <<>>
      BY <1>1, <1>2, <2>1 DEF Change, AsksSchedule
    <3>2. Asks(settings.cmd)
      BY <1>1, <1>3, <2>1, RouterAssumption DEF ServeInv
    <3> QED
      BY <1>3, <2>1, <3>1, <3>2 DEF Obeys, Asks
  <2>2. CASE settings.cmd # Checked.commands
    <3> DEFINE cmd == settings.cmd
    <3>1. /\ r'.peripheral = Checked.peripheral
          /\ r'.commands = CASE Routing[cmd] = "none"   -> None
                             [] Routing[cmd] = "ad-hoc" -> cmd
                             [] OTHER                   -> Checked.commands
          /\ r'.reader = IF Left(Checked) = None /\ Checked.peripheral \in Known
                              /\ r'.commands # None /\ Routing[cmd] \in {"ad-hoc", "unknown"}
                           THEN r'.commands ELSE Left(Checked)
      BY <1>1, <2>2, ChangeFields
    <3>2. Left(Checked) # None => ~Asks(cmd) /\ Routing[cmd] # "none"
      BY <1>2, <1>4, <2>2 DEF ServeInv
    <3>3. Left(Checked) \in {None, Checked.commands}
      BY <1>3 DEF Left
    <3>4. /\ cmd # None
          /\ Routing[cmd] \in {"none", "ad-hoc", "scheduled", "empty", "unknown"}
          /\ Checked.commands # None => Asks(Checked.commands)
      BY <1>1, <1>3, RouterAssumption DEF ServeInv
    <3> HIDE DEF cmd
    <3>5. CASE Routing[cmd] \in {"none", "ad-hoc", "unknown"}
      <4>1. pending' = <<>>
        BY <1>1, <1>2, <3>5 DEF AsksSchedule, cmd
      <4>2. CASE Routing[cmd] = "none"
        BY <3>1, <3>2, <4>1, <4>2 DEF Obeys, Asks, cmd
      <4>3. CASE Routing[cmd] = "ad-hoc"
        BY <3>1, <3>2, <3>4, <4>1, <4>3 DEF Obeys, Asks, cmd
      <4>4. CASE Routing[cmd] = "unknown"
        BY <3>1, <3>3, <3>4, <4>1, <4>4 DEF Obeys, Asks, cmd
      <4> QED
        BY <3>5, <4>2, <4>3, <4>4
    <3>6. CASE Routing[cmd] \in {"scheduled", "empty"}
      <4>1. pending' = Append(<<>>, cmd)
        BY <1>1, <1>2, <2>2, <3>6 DEF AsksSchedule, cmd
      <4>2. pending' # <<>> /\ Head(pending') = cmd
        BY <1>1, <4>1 DEF cmd
      <4>3. r'.commands = Checked.commands /\ r'.reader = Left(Checked)
        BY <3>1, <3>6
      <4> QED
        BY <3>2, <3>3, <3>4, <3>6, <4>2, <4>3 DEF Obeys, Asks, cmd
    <3> QED
      BY <3>4, <3>5, <3>6
  <2> QED
    BY <2>1, <2>2
<1> QED
  BY <1>1, <1>5 DEF Obeys, ServeInv

\* Every other step leaves it, or carries out what waits.
LEMMA ServeStep ==
  ASSUME Inv, Orderly, ServeInv, [Next]_vars
  PROVE  ServeInv'
<1>0. /\ TypeInv /\ RouterOK(r) /\ DataOK /\ Turn /\ ~staleClient
      /\ r \in RouterType
  BY DEF Inv, TypeInv, TurnInv, ClientInv, Orderly, RouterOK
<1>1. CASE SettingsRead
  BY <1>1, ServeRead
<1>2. CASE ScheduleReply
  <2>1. /\ pending # <<>> /\ Head(pending) \in Cmds
        /\ UNCHANGED <<settings, lastHash>>
        /\ r' = IF Routing[Head(pending)] = "empty" THEN NoteErrorStatus(r)
                                                   ELSE NewSchedule(r, Head(pending))
    BY <1>0, <1>2 DEF ScheduleReply, DataOK
  <2>2. pending' = <<>> /\ lastHash = settings
    BY <1>0, <1>2 DEF ScheduleReply, Turn, DataOK
  <2>3. /\ lastHash # None /\ Head(pending) = lastHash.cmd
        /\ Routing[lastHash.cmd] \in {"scheduled", "empty"}
        /\ Routing[lastHash.cmd] = "scheduled" => r.reader = None
    BY <2>1 DEF ServeInv
  <2>4. CASE Routing[lastHash.cmd] = "empty"
    <3>1. /\ r'.commands = r.commands /\ r'.peripheral = r.peripheral
          /\ r'.reader = IF r.peripheral \in Known /\ r.commands # None /\ r.reader = None
                           THEN r.commands ELSE r.reader
      BY <1>0, <2>1, <2>3, <2>4, NoteErrorStatusFields
    <3> QED
      BY <2>1, <2>2, <2>3, <2>4, <3>1 DEF ServeInv, Asks
  <2>5. CASE Routing[lastHash.cmd] = "scheduled"
    <3>1. /\ r'.commands = lastHash.cmd /\ r'.peripheral = r.peripheral
          /\ r'.reader = IF r.peripheral \in Known THEN lastHash.cmd ELSE None
      BY <1>0, <2>1, <2>3, <2>5, NewScheduleFields
    <3>2. lastHash.cmd # None
      BY <2>1, <2>3, RouterAssumption
    <3> QED
      BY <2>1, <2>2, <2>3, <2>5, <3>1, <3>2 DEF ServeInv, Asks
  <2> QED
    BY <2>3, <2>4, <2>5
<1>3. CASE Opened
  BY <1>0, <1>3, OpenedFields DEF ServeInv
<1>4. CASE DeferredReady
  <2>1. r.reader # None
    BY <1>0, <1>4 DEF DeferredReady, Turn, RouterOK
  <2>2. /\ r'.peripheral = r.peripheral /\ r'.commands = r.commands
        /\ UNCHANGED <<settings, lastHash, pending>>
    BY <1>0, <1>4, DeferredFields
  <2>3. r'.reader = r.reader
    BY <1>0, <1>4, <2>1, DeferredFields
  <2> QED
    BY <2>2, <2>3 DEF ServeInv
<1>5. CASE Submit \/ Written \/ Answer \/ LinkError
  <2>1. SameRouter
    BY <1>0, <1>5, SubmitFields, WrittenFields, AnswerFields, LinkErrorFields
  <2> QED
    BY <2>1 DEF SameRouter, ServeInv
<1>6. CASE ClientLost
  BY <1>6 DEF ClientLost, Orderly
<1>7. ASSUME NEW h \in Offered, ChangeSettings(h) PROVE ServeInv'
  <2>1. /\ lastHash = settings /\ settings' = h
        /\ settings.conn # None \/ h.conn = None \/ h.cmd = settings.cmd
        /\ UNCHANGED <<lastHash, r, pending>>
    BY <1>7 DEF ChangeSettings, Quiet, Orderly
  <2> QED
    BY <2>1 DEF ServeInv
<1>8. CASE ClientBack \/ UNCHANGED vars
  BY <1>8 DEF ClientBack, vars, ServeInv
<1> QED
  BY <1>1, <1>2, <1>3, <1>4, <1>5, <1>6, <1>7, <1>8 DEF Next

\* The schedule, when all settings can be carried out.
TickInv ==
  /\ lastHash \in Sound \cup {None}
  /\ lastHash = None => r.schedule = None
  /\ lastHash # None /\ pending = <<>> =>
       (r.schedule # None <=> Routing[lastHash.cmd] = "scheduled")
  /\ r.link = "open" /\ deferred = 0 /\ r.schedule # None => r.ticking

\* The reading of new settings stops a schedule or asks for one.
LEMMA TickRead ==
  ASSUME Inv, Orderly, Gentle, ScheduleInv, ServeInv, TickInv, SettingsRead
  PROVE  TickInv'
<1>0. /\ TypeInv /\ RouterOK(r) /\ DataOK /\ ConnectionInv /\ Turn /\ ~staleClient
      /\ r \in RouterType
  BY DEF Inv, TypeInv, TurnInv, ClientInv, Orderly, RouterOK
<1>1. /\ r' = Change(Checked, settings.cmd) /\ RouterOK(Checked) /\ RouterOK(r')
      /\ settings.cmd \in Cmds /\ settings.conn \in Conns \cup {None} /\ settings # None
      /\ lastHash' = settings /\ deferred' = deferred
      /\ pending' = IF AsksSchedule(Checked, settings.cmd)
                      THEN Append(pending, settings.cmd) ELSE pending
  BY <1>0, ReadTypes, CheckedType, SettingsTypes DEF DataOK
<1>2. /\ pending = <<>> /\ r.link # "opening" /\ settings # lastHash /\ settings \in Sound
      /\ settings.conn = connJSON => Checked = r
  BY <1>0, CalmRead DEF ScheduleInv, SettingsRead
<1>3. r.peripheral = None => r.schedule = None
  BY <1>0, RouterAssumption DEF RouterOK, ScheduleInv
<1>4. Checked.schedule = None \/ (Checked = r /\ r.link = "open" /\ settings.conn = connJSON)
  <2>1. CASE settings.conn = connJSON
    BY <1>0, <1>2, <2>1 DEF ScheduleInv, RouterType
  <2>2. CASE settings.conn # connJSON
    BY <1>0, <1>1, <1>3, <2>2, CheckConnectionFields DEF Checked
  <2> QED
    BY <2>1, <2>2
<1>5. CASE settings.cmd = Checked.commands
  <2>1. r' = Checked /\ pending' = <<>>
    BY <1>1, <1>2, <1>5 DEF Change, AsksSchedule
  <2>2. Checked.commands # None
    BY <1>1, <1>5, RouterAssumption
  <2>3. Checked.commands = r.commands /\ (settings.conn # connJSON => r.peripheral = None)
    <3>1. CASE settings.conn = connJSON
      BY <1>2, <3>1
    <3>2. CASE settings.conn # connJSON
      BY <1>0, <1>1, <2>2, <3>2, CheckConnectionFields DEF Checked
    <3> QED
      BY <3>1, <3>2
  <2>4. lastHash # None /\ lastHash \in Sound /\ lastHash.cmd = settings.cmd
    <3>1. lastHash # None
      BY <2>2, <2>3 DEF ServeInv
    <3>2. lastHash \in Sound
      BY <3>1 DEF TickInv
    <3>3. Routing[lastHash.cmd] # "none"
      BY <2>2, <2>3, <3>1 DEF ServeInv
    <3>4. Asks(lastHash.cmd)
      BY <3>2, <3>3 DEF Sound, Asks
    <3> QED
      BY <1>2, <1>5, <2>3, <3>1, <3>2, <3>4 DEF ServeInv
  <2>5. CASE settings.conn = connJSON
    <3>1. Checked = r
      BY <1>2, <2>5
    <3> QED
      BY <1>1, <1>2, <2>1, <2>4, <3>1 DEF TickInv
  <2>6. CASE settings.conn # connJSON
    <3>1. Checked.schedule = None /\ lastHash.conn = None
      BY <1>0, <1>4, <2>3, <2>4, <2>6 DEF ConnectionInv
    <3>2. Routing[lastHash.cmd] # "scheduled"
      BY <2>4, <3>1 DEF Sound
    <3> QED
      BY <1>1, <1>2, <2>1, <2>4, <3>1, <3>2 DEF TickInv
  <2> QED
    BY <2>5, <2>6
<1>6. CASE settings.cmd # Checked.commands
  <2>1. r'.schedule = None
    BY <1>1, <1>4, <1>6, ChangeFields
  <2>2. Routing[settings.cmd] = "scheduled" => pending' # <<>>
    <3>1. Append(<<>>, settings.cmd) # <<>>
      BY <1>1
    <3> QED
      BY <1>1, <1>2, <1>6, <3>1 DEF AsksSchedule
  <2> QED
    BY <1>1, <1>2, <2>1, <2>2 DEF TickInv
<1> QED
  BY <1>5, <1>6

\* Every other step leaves it so, or starts the schedule that was asked for.
LEMMA TickStep ==
  ASSUME Inv, Orderly, Gentle, ScheduleInv, ServeInv, TickInv, [Next]_vars
  PROVE  TickInv'
<1>0. /\ TypeInv /\ RouterOK(r) /\ DataOK /\ Turn /\ ~staleClient /\ deferred \in Nat
      /\ r \in RouterType
  BY DEF Inv, TypeInv, TurnInv, ClientInv, Orderly, RouterOK, DataOK
<1>1. CASE SettingsRead
  BY <1>1, TickRead
<1>2. CASE ScheduleReply
  <2>1. /\ pending # <<>> /\ Head(pending) \in Cmds
        /\ UNCHANGED <<lastHash, deferred>>
    BY <1>0, <1>2 DEF ScheduleReply, DataOK
  <2>2. /\ lastHash # None /\ Head(pending) = lastHash.cmd
        /\ Routing[lastHash.cmd] = "scheduled" /\ r.reader = None
    BY <1>0, <2>1 DEF ServeInv, ScheduleInv
  <2>3. r' = NewSchedule(r, lastHash.cmd)
    BY <1>2, <2>2 DEF ScheduleReply
  <2>4. r'.schedule = lastHash.cmd /\ r'.link # "open"
    BY <1>0, <2>1, <2>2, <2>3, NewScheduleFields DEF RouterOK
  <2>5. lastHash.cmd # None
    BY <2>1, <2>2, RouterAssumption
  <2> QED
    BY <2>1, <2>2, <2>4, <2>5 DEF TickInv
<1>3. CASE Opened
  <2>1. r'.schedule = r.schedule /\ r'.ticking = r.ticking /\ UNCHANGED <<lastHash, pending>>
    BY <1>0, <1>3, OpenedFields
  <2>2. deferred' # 0
    BY <1>0, <1>3 DEF Opened
  <2> QED
    BY <2>1, <2>2 DEF TickInv
<1>4. CASE DeferredReady
  <2>1. /\ r'.schedule = r.schedule /\ (r'.ticking <=> r.schedule # None)
        /\ UNCHANGED <<lastHash, pending>>
    BY <1>0, <1>4, DeferredFields
  <2> QED
    BY <2>1 DEF TickInv
<1>5. CASE Submit \/ Written \/ Answer \/ LinkError
  <2>1. SameRouter
    BY <1>0, <1>5, SubmitFields, WrittenFields, AnswerFields, LinkErrorFields
  <2> QED
    BY <2>1 DEF SameRouter, TickInv
<1>6. CASE ClientLost
  BY <1>6 DEF ClientLost, Orderly
<1>7. CASE ClientBack \/ (\E h \in Offered : ChangeSettings(h)) \/ UNCHANGED vars
  BY <1>7 DEF ClientBack, ChangeSettings, vars, TickInv
<1> QED
  BY <1>1, <1>2, <1>3, <1>4, <1>5, <1>6, <1>7 DEF Next

\* Once settings that change one after the other are carried out, the reader has
\* their configuration and their connection, and a schedule ticks if they ask for
\* one; or there is neither.
THEOREM SettingsCarriedOutHolds == Spec => []SettingsCarriedOut
<1> DEFINE I == /\ Gentle => ScheduleInv
                /\ Orderly => ServeInv
                /\ Orderly /\ Gentle => TickInv
<1>1. Init => I
  BY DEF Init, Offered, Gentle, ScheduleInv, ServeInv, TickInv
<1>2. Inv /\ I /\ [Next]_vars => I'
  BY ScheduleStep, ServeStep, TickStep, FaultsFixed DEF Gentle, Orderly
<1>3. Inv /\ I => SettingsCarriedOut
  <2> SUFFICES ASSUME Inv, I, Orderly, Quiet
               PROVE  /\ Serves(settings) => /\ r.reader = settings.cmd
                                             /\ r.peripheral = settings.conn
                      /\ Off(settings) => r.reader = None
                      /\ "odd" \notin faults =>
                           /\ Serves(settings) =>
                                (r.ticking <=> Routing[settings.cmd] = "scheduled")
                           /\ Off(settings) => ~r.ticking
    BY DEF SettingsCarriedOut, Orderly
  <2>1. /\ TypeInv /\ RouterOK(r) /\ ServeInv /\ lastHash = settings /\ settings # None
        /\ pending = <<>> /\ deferred = 0 /\ r.link # "opening"
        /\ settings.cmd \in Cmds /\ settings.cmd # None
        /\ r.peripheral = settings.conn
        /\ r \in RouterType
    BY SettingsTypes, RouterAssumption
       DEF Inv, TypeInv, DataOK, RouterOK, ConnectionInv, ClientInv, Orderly, Quiet
  <2>2. Serves(settings) => r.reader = settings.cmd
    BY <2>1 DEF Serves, ServeInv, Asks
  <2>3. Off(settings) => r.reader = None
    BY <2>1 DEF Off, ServeInv, RouterOK
  <2>4. ASSUME "odd" \notin faults
        PROVE  /\ Serves(settings) => (r.ticking <=> Routing[settings.cmd] = "scheduled")
               /\ Off(settings) => ~r.ticking
    <3>1. Gentle /\ ScheduleInv /\ TickInv /\ ~staleClient
      BY <2>4 DEF Gentle, Orderly, Inv, ClientInv
    <3>2. r.schedule # None <=> Routing[settings.cmd] = "scheduled"
      BY <2>1, <3>1 DEF TickInv
    <3>3. r.ticking <=> r.schedule # None
      BY <2>1, <3>1 DEF ScheduleInv, TickInv, RouterOK, RouterType
    <3>4. settings \in Sound
      BY <3>1 DEF ScheduleInv
    <3>5. Off(settings) => Routing[settings.cmd] # "scheduled"
      BY <3>4 DEF Off, Sound
    <3> QED
      BY <3>2, <3>3, <3>5
  <2> QED
    BY <2>1, <2>2, <2>3, <2>4
<1> QED
  BY <1>1, <1>2, <1>3, InvHolds, PTL DEF Spec
=============================================================================
