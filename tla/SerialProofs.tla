----------------------------- MODULE SerialProofs -----------------------------
(* What the parts that talk to serial ports guarantee.  The system checker,   *)
(* for every set of items and ports and in every order of the answers: its   *)
(* types, and that the check is over once, after all that belongs to it.     *)
(* The data reader, for every set of commands, however the device, the       *)
(* timers and the client interleave: its types, that the timer of an awaited *)
(* command is the one its answer stops, and so that the callback of a submit *)
(* is called at most once; and that a command gets no other command's answer *)
(* while the device answers in time.                                         *)
EXTENDS DataReader, SystemCheck, SequenceTheorems, FiniteSetTheorems, TLAPS

-----------------------------------------------------------------------------
(* The check is counted *)

\* What is found of ports, and what follows from the count.
SamePorts(s, t) ==
  /\ t.choices = s.choices /\ t.remaining = s.remaining /\ t.port = s.port
  /\ t.key = s.key /\ t.callback = s.callback
SameCount(s, t) ==
  /\ t.resultCount = s.resultCount /\ t.modem = s.modem /\ t.answered = s.answered
  /\ t.stores = s.stores /\ t.readies = s.readies /\ t.finishes = s.finishes /\ t.threw = s.threw

\* The fields of a checker have their types.
LEMMA CheckerFields ==
  ASSUME NEW s \in Checker
  PROVE  /\ s.resultCount \in Nat /\ s.choices \in [Keys -> Ports \cup {NoPort}]
         /\ s.remaining \in Seq(Ports)
         /\ s.port \in [Ports -> {"unused", "opening", "open", "left", "closed"}]
         /\ s.key \in [Ports -> Keys \cup {NoPort}] /\ s.callback \in [Ports -> BOOLEAN]
         /\ s.modem \in {"unused", "opening", "talking", "closed"}
         /\ s.answered \in 0..commands /\ s.stores \in Nat /\ s.readies \in Nat
         /\ s.finishes \in Nat /\ s.threw \in BOOLEAN
  BY DEF Checker

\* The number of results that is waited for.
LEMMA Expected == ExpectCount \in Nat /\ ExpectCount = Cardinality(Items) + 2 /\ Cardinality(Items) \in Nat
  BY SystemCheckAssumption, FS_CardinalityType DEF ExpectCount

\* 'ready' is emitted: the initialization is finished, or the settings are stored first.
HasReady(s, t) ==
  /\ t \in Checker /\ SamePorts(s, t)
  /\ t.resultCount = s.resultCount /\ t.modem = s.modem /\ t.answered = s.answered
  /\ t.threw = s.threw /\ t.readies = s.readies + 1
  /\ t.stores + t.finishes = s.stores + s.finishes + 1

\* 'ready' is emitted once more, and one more store or call of finishCallback follows.
LEMMA ReadyDoes ==
  ASSUME NEW s \in Checker
  PROVE  HasReady(s, Ready(s))
<1>1. PICK f : f = s.finishes + 1
  OBVIOUS
<1>2. PICK n : n = s.stores + 1
  OBVIOUS
<1>3. PICK r : r = s.readies + 1
  OBVIOUS
<1>4. f \in Nat /\ n \in Nat /\ r \in Nat /\ s.stores \in Nat /\ s.finishes \in Nat
  BY <1>1, <1>2, <1>3, CheckerFields
<1>5. PICK q : q = [s EXCEPT !.readies = r]
  OBVIOUS
<1>6. /\ q \in Checker /\ SamePorts(s, q) /\ q.resultCount = s.resultCount /\ q.modem = s.modem
      /\ q.answered = s.answered /\ q.threw = s.threw /\ q.readies = r
      /\ q.stores = s.stores /\ q.finishes = s.finishes
  BY <1>4, <1>5 DEF SamePorts, Checker
<1>7. PICK t : t = Ready(s)
  OBVIOUS
<1>8. t = [q EXCEPT !.finishes = f] \/ t = [q EXCEPT !.stores = n]
  <2>1. t = [q EXCEPT !.finishes = q.finishes + 1] \/ t = [q EXCEPT !.stores = q.stores + 1]
    BY <1>3, <1>5, <1>7 DEF Ready
  <2> QED
    BY <2>1, <1>1, <1>2, <1>6
<1>9. CASE t = [q EXCEPT !.finishes = f]
  <2>1. /\ t \in Checker /\ SamePorts(q, t) /\ t.resultCount = q.resultCount /\ t.modem = q.modem
        /\ t.answered = q.answered /\ t.threw = q.threw /\ t.readies = q.readies
        /\ t.stores = q.stores /\ t.finishes = f
    BY <1>4, <1>6, <1>9 DEF SamePorts, Checker
  <2>2. t.stores + t.finishes = s.stores + s.finishes + 1
    BY <2>1, <1>1, <1>4, <1>6
  <2>3. HasReady(s, t)
    BY <2>1, <2>2, <1>3, <1>6 DEF HasReady, SamePorts
  <2> QED
    BY <2>3, <1>7
<1>10. CASE t = [q EXCEPT !.stores = n]
  <2>1. /\ t \in Checker /\ SamePorts(q, t) /\ t.resultCount = q.resultCount /\ t.modem = q.modem
        /\ t.answered = q.answered /\ t.threw = q.threw /\ t.readies = q.readies
        /\ t.stores = n /\ t.finishes = q.finishes
    BY <1>4, <1>6, <1>10 DEF SamePorts, Checker
  <2>2. t.stores + t.finishes = s.stores + s.finishes + 1
    BY <2>1, <1>2, <1>4, <1>6
  <2>3. HasReady(s, t)
    BY <2>1, <2>2, <1>3, <1>6 DEF HasReady, SamePorts
  <2> QED
    BY <2>3, <1>7
<1> QED
  BY <1>8, <1>9, <1>10

\* A result is counted; the last one starts the dialogue with the modem, if there is one.
HasCounted(s, t) ==
  /\ t \in Checker /\ SamePorts(s, t)
  /\ t.resultCount = s.resultCount + 1 /\ t.answered = s.answered /\ t.threw = s.threw
  /\ s.resultCount + 1 # ExpectCount =>
       /\ t.modem = s.modem /\ t.readies = s.readies
       /\ t.stores = s.stores /\ t.finishes = s.finishes
  /\ s.resultCount + 1 = ExpectCount =>
       IF s.choices["dataPort"] = NoPort
         THEN /\ t.modem = s.modem /\ t.readies = s.readies + 1
              /\ t.stores + t.finishes = s.stores + s.finishes + 1
         ELSE /\ t.modem = "opening" /\ t.readies = s.readies
              /\ t.stores = s.stores /\ t.finishes = s.finishes

\* What a count does, before the last one and with it.
LEMMA CheckDoes ==
  ASSUME NEW s \in Checker
  PROVE  HasCounted(s, Check(s))
<1>1. PICK n \in Nat : n = s.resultCount + 1
  BY CheckerFields
<1>2. PICK r : r = [s EXCEPT !.resultCount = n]
  OBVIOUS
<1>3. /\ r \in Checker /\ SamePorts(s, r) /\ r.resultCount = n
      /\ r.modem = s.modem /\ r.answered = s.answered /\ r.stores = s.stores
      /\ r.readies = s.readies /\ r.finishes = s.finishes /\ r.threw = s.threw
  BY <1>2 DEF Checker, SamePorts
<1>4. PICK t : t = Check(s)
  OBVIOUS
<1>5. t = IF n = ExpectCount THEN CollectModemInfo(r) ELSE r
  BY <1>1, <1>2, <1>3, <1>4 DEF Check
<1>6. CASE n # ExpectCount
  <2>1. HasCounted(s, t)
    BY <1>1, <1>3, <1>5, <1>6 DEF HasCounted
  <2> QED
    BY <2>1, <1>4
<1>7. CASE n = ExpectCount /\ s.choices["dataPort"] = NoPort
  <2>1. t = Ready(r)
    BY <1>3, <1>5, <1>7 DEF CollectModemInfo, SamePorts
  <2>2. HasReady(r, t)
    BY <2>1, <1>3, ReadyDoes
  <2>3. HasCounted(s, t)
    BY <2>2, <1>1, <1>3, <1>7 DEF HasReady, HasCounted, SamePorts
  <2> QED
    BY <2>3, <1>4
<1>8. CASE n = ExpectCount /\ s.choices["dataPort"] # NoPort
  <2>1. t = [r EXCEPT !.modem = "opening"]
    BY <1>3, <1>5, <1>8 DEF CollectModemInfo, SamePorts
  <2>2. /\ t \in Checker /\ SamePorts(r, t) /\ t.modem = "opening" /\ t.resultCount = r.resultCount
        /\ t.answered = r.answered /\ t.stores = r.stores /\ t.readies = r.readies
        /\ t.finishes = r.finishes /\ t.threw = r.threw
    BY <2>1, <1>3 DEF SamePorts, Checker
  <2>3. HasCounted(s, t)
    BY <2>2, <1>1, <1>3, <1>8 DEF HasCounted, SamePorts
  <2> QED
    BY <2>3, <1>4
<1> QED
  BY <1>6, <1>7, <1>8

\* Until the last result is there the modem is let alone; after that it is talked to, or
\* 'ready' was emitted, once.
OnceInv(s) ==
  /\ s.resultCount < ExpectCount =>
       s.modem = "unused" /\ s.readies = 0 /\ s.stores = 0 /\ s.finishes = 0
  /\ s.resultCount >= ExpectCount =>
       \/ s.modem \in {"opening", "talking"} /\ s.readies = 0 /\ s.stores = 0 /\ s.finishes = 0
       \/ /\ s.modem \in {"unused", "closed"} /\ s.readies = 1
          /\ "redisError" \notin checkerFaults => s.stores + s.finishes = 1
  /\ s.modem # "unused" => s.choices["dataPort"] # NoPort
  /\ s.modem # "closed" => s.answered < commands

\* A count passes the expected one once, and only then something begins.
LEMMA CheckOnce ==
  ASSUME NEW s \in Checker, OnceInv(s), NEW t, HasCounted(s, t)
  PROVE  OnceInv(t)
<1>1. /\ s.resultCount \in Nat /\ ExpectCount \in Nat /\ s.stores \in Nat /\ s.finishes \in Nat
      /\ t.choices = s.choices /\ t.resultCount = s.resultCount + 1 /\ t.answered = s.answered
      /\ t.stores \in Nat /\ t.finishes \in Nat /\ t.readies \in Nat
  BY CheckerFields, Expected DEF HasCounted, SamePorts
<1>2. CASE s.resultCount + 1 < ExpectCount
  <2>1. /\ t.modem = "unused" /\ t.readies = 0 /\ t.stores = 0 /\ t.finishes = 0
        /\ s.modem = "unused" /\ t.resultCount < ExpectCount
    BY <1>1, <1>2 DEF OnceInv, HasCounted
  <2> QED
    BY <2>1, <1>1 DEF OnceInv
<1>3. CASE s.resultCount + 1 = ExpectCount
  <2>1. /\ s.modem = "unused" /\ s.readies = 0 /\ s.stores = 0 /\ s.finishes = 0
        /\ s.answered < commands /\ t.resultCount >= ExpectCount
    BY <1>1, <1>3 DEF OnceInv
  <2>2. CASE s.choices["dataPort"] = NoPort
    <3>1. t.modem = "unused" /\ t.readies = 1 /\ t.stores + t.finishes = 1
      BY <1>1, <1>3, <2>1, <2>2 DEF HasCounted
    <3> QED
      BY <3>1, <2>1, <1>1 DEF OnceInv
  <2>3. CASE s.choices["dataPort"] # NoPort
    <3>1. t.modem = "opening" /\ t.readies = 0 /\ t.stores = 0 /\ t.finishes = 0
      BY <1>1, <1>3, <2>1, <2>3 DEF HasCounted
    <3> QED
      BY <3>1, <2>1, <2>3, <1>1 DEF OnceInv
  <2> QED
    BY <2>2, <2>3
<1>4. CASE s.resultCount + 1 > ExpectCount
  <2>1. /\ t.modem = s.modem /\ t.readies = s.readies /\ t.stores = s.stores
        /\ t.finishes = s.finishes /\ s.resultCount >= ExpectCount /\ t.resultCount >= ExpectCount
    BY <1>1, <1>4 DEF HasCounted
  <2> QED
    BY <2>1, <1>1 DEF OnceInv
<1> QED
  BY <1>1, <1>2, <1>3, <1>4

-----------------------------------------------------------------------------
(* The ports are searched *)

\* A port is tried once, for one purpose: the ports left to try were not tried, and the
\* ones chosen are different ones; the data port has been closed again.
PortInv(s) ==
  /\ \A i, j \in DOMAIN s.remaining : s.remaining[i] = s.remaining[j] => i = j
  /\ \A i \in DOMAIN s.remaining : s.port[s.remaining[i]] = "unused"
  /\ s.choices["dataPort"] # NoPort =>
       /\ s.choices["dataPort"] # s.choices["controlPort"]
       /\ s.port[s.choices["dataPort"]] = "closed"
       /\ s.key[s.choices["dataPort"]] # "controlPort"
  /\ s.choices["controlPort"] # NoPort =>
       /\ s.port[s.choices["controlPort"]] # "unused"
       /\ s.key[s.choices["controlPort"]] # "dataPort"

Good(s) == s \in Checker /\ OnceInv(s) /\ PortInv(s)

Busy(s) == {p \in Ports : s.port[p] \in {"opening", "open"}}

\* A result was counted, and no port touched.
Counts(s, t, n) == Busy(t) = Busy(s) /\ t.resultCount = s.resultCount + n /\ t.threw = s.threw

\* Another port is tried.
Tries(s, t, k) ==
  /\ t.resultCount = s.resultCount /\ t.threw = s.threw
  /\ \E p \in Ports : Busy(t) = Busy(s) \cup {p} /\ t.key[p] = k /\ (t.callback[p] <=> k = "dataPort")

\* A count lets the ports alone.
LEMMA CheckGood ==
  ASSUME NEW s, Good(s)
  PROVE  Good(Check(s)) /\ Counts(s, Check(s), 1) /\ SamePorts(s, Check(s))
<1>1. PICK t : t = Check(s)
  OBVIOUS
<1>2. s \in Checker /\ OnceInv(s) /\ PortInv(s)
  BY DEF Good
<1>3. HasCounted(s, t)
  BY <1>1, <1>2, CheckDoes
<1>4. t \in Checker /\ SamePorts(s, t) /\ t.resultCount = s.resultCount + 1 /\ t.threw = s.threw
  BY <1>3 DEF HasCounted
<1>5. PortInv(t)
  BY <1>2, <1>4 DEF PortInv, SamePorts
<1>6. OnceInv(t)
  BY <1>2, <1>3, CheckOnce
<1>7. Busy(t) = Busy(s)
  BY <1>4 DEF Busy, SamePorts
<1> QED
  BY <1>1, <1>4, <1>5, <1>6, <1>7 DEF Good, Counts

\* The head and the tail of the ports left to try.
LEMMA Rest ==
  ASSUME NEW q \in Seq(Ports), q # <<>>,
         \A i, j \in DOMAIN q : q[i] = q[j] => i = j
  PROVE  /\ Head(q) \in Ports /\ 1 \in DOMAIN q /\ q[1] = Head(q) /\ Tail(q) \in Seq(Ports)
         /\ \A i \in DOMAIN Tail(q) : /\ i + 1 \in DOMAIN q /\ Tail(q)[i] = q[i + 1]
                                      /\ Tail(q)[i] # Head(q)
         /\ \A i, j \in DOMAIN Tail(q) : Tail(q)[i] = Tail(q)[j] => i = j
<1>1. /\ Len(q) \in Nat \ {0} /\ DOMAIN q = 1..Len(q) /\ Head(q) = q[1] /\ q[1] \in Ports
      /\ Tail(q) \in Seq(Ports) /\ Len(Tail(q)) = Len(q) - 1 /\ DOMAIN Tail(q) = 1..(Len(q) - 1)
      /\ \A i \in 1..(Len(q) - 1) : Tail(q)[i] = q[i + 1]
  OBVIOUS
<1>2. \A i \in DOMAIN Tail(q) : i \in Nat /\ i + 1 \in DOMAIN q /\ 1 \in DOMAIN q /\ i + 1 # 1
  BY <1>1
<1>3. \A i \in DOMAIN Tail(q) : Tail(q)[i] # Head(q)
  BY <1>1, <1>2
<1>4. \A i, j \in DOMAIN Tail(q) : Tail(q)[i] = Tail(q)[j] => i = j
  BY <1>1, <1>2
<1> QED
  BY <1>1, <1>2, <1>3, <1>4

\* The next port is tried, for one purpose, and is a new one.
LEMMA ProbeGood ==
  ASSUME NEW s, Good(s), s.remaining # <<>>, NEW k \in Keys
  PROVE  Good(Probe(s, k)) /\ Tries(s, Probe(s, k), k)
<1>1. s \in Checker /\ OnceInv(s) /\ PortInv(s)
  BY DEF Good
<1>2. PICK q : q = s.remaining
  OBVIOUS
<1>3. q \in Seq(Ports) /\ q # <<>> /\ \A i, j \in DOMAIN q : q[i] = q[j] => i = j
  BY <1>1, <1>2, CheckerFields DEF PortInv
<1>4. PICK p, r : p = Head(q) /\ r = Tail(q)
  OBVIOUS
<1>5. /\ p \in Ports /\ 1 \in DOMAIN q /\ q[1] = p /\ r \in Seq(Ports)
      /\ \A i \in DOMAIN r : i + 1 \in DOMAIN q /\ r[i] = q[i + 1] /\ r[i] # p
      /\ \A i, j \in DOMAIN r : r[i] = r[j] => i = j
  BY <1>3, <1>4, Rest
<1>6. s.port[p] = "unused" /\ \A i \in DOMAIN r : s.port[r[i]] = "unused"
  BY <1>1, <1>2, <1>5 DEF PortInv
<1>7. PICK b \in BOOLEAN : b = (k = "dataPort")
  OBVIOUS
<1>8. PICK t : t = Probe(s, k)
  OBVIOUS
<1>9. t = [s EXCEPT !.remaining = r, !.port[p] = "opening", !.key[p] = k, !.callback[p] = b]
  <2>1. s.remaining = q
    BY <1>2
  <2>2. t = [s EXCEPT !.remaining = Tail(@), !.port[p] = "opening", !.key[p] = k,
                      !.callback[p] = (k = "dataPort")]
    BY <1>2, <1>4, <1>8 DEF Probe
  <2> QED
    BY <1>2, <1>4, <1>7, <2>2
<1>10. /\ s.port \in [Ports -> {"unused", "opening", "open", "left", "closed"}]
       /\ s.key \in [Ports -> Keys \cup {NoPort}] /\ s.callback \in [Ports -> BOOLEAN]
       /\ s.choices \in [Keys -> Ports \cup {NoPort}]
  BY <1>1, CheckerFields
<1>11. /\ t.remaining = r /\ t.port = [s.port EXCEPT ![p] = "opening"]
       /\ t.key = [s.key EXCEPT ![p] = k] /\ t.callback = [s.callback EXCEPT ![p] = b]
       /\ t.choices = s.choices /\ SameCount(s, t)
  BY <1>1, <1>9 DEF SameCount, Checker
<1>12. t \in Checker
  BY <1>1, <1>5, <1>9, <1>10 DEF Checker
<1>13. OnceInv(t)
  BY <1>1, <1>11 DEF OnceInv, SameCount
<1>14. PortInv(t)
  <2>1. PICK d, c : d = s.choices["dataPort"] /\ c = s.choices["controlPort"]
    OBVIOUS
  <2>2. d \in Ports \cup {NoPort} /\ c \in Ports \cup {NoPort}
    BY <1>10, <2>1 DEF Keys
  <2>3. /\ d # NoPort => d # c /\ s.port[d] = "closed" /\ s.key[d] # "controlPort"
        /\ c # NoPort => s.port[c] # "unused" /\ s.key[c] # "dataPort"
    BY <1>1, <2>1 DEF PortInv
  <2>4. (d # NoPort => d # p) /\ (c # NoPort => c # p)
    BY <1>6, <2>3
  <2>5. /\ d # NoPort => d # c /\ t.port[d] = "closed" /\ t.key[d] # "controlPort"
        /\ c # NoPort => t.port[c] # "unused" /\ t.key[c] # "dataPort"
    BY <1>10, <1>11, <2>2, <2>3, <2>4
  <2>6. \A i \in DOMAIN r : r[i] \in Ports
    BY <1>5
  <2>7. \A i \in DOMAIN r : t.port[r[i]] = "unused"
    BY <1>5, <1>6, <1>10, <1>11, <2>6
  <2>8. /\ \A i, j \in DOMAIN t.remaining : t.remaining[i] = t.remaining[j] => i = j
        /\ \A i \in DOMAIN t.remaining : t.port[t.remaining[i]] = "unused"
    BY <1>5, <1>11, <2>7
  <2>9. t.choices["dataPort"] = d /\ t.choices["controlPort"] = c
    BY <1>11, <2>1
  <2>10. /\ t.choices["dataPort"] # NoPort =>
              /\ t.choices["dataPort"] # t.choices["controlPort"]
              /\ t.port[t.choices["dataPort"]] = "closed"
              /\ t.key[t.choices["dataPort"]] # "controlPort"
         /\ t.choices["controlPort"] # NoPort =>
              /\ t.port[t.choices["controlPort"]] # "unused"
              /\ t.key[t.choices["controlPort"]] # "dataPort"
    BY <2>5, <2>9
  <2> QED
    BY <2>8, <2>10 DEF PortInv
<1>15. Busy(t) = Busy(s) \cup {p} /\ t.key[p] = k /\ (t.callback[p] <=> k = "dataPort")
  <2>1. t.port[p] = "opening" /\ \A o \in Ports : o # p => t.port[o] = s.port[o]
    BY <1>5, <1>10, <1>11
  <2>2. Busy(t) = Busy(s) \cup {p}
    BY <2>1, <1>5 DEF Busy
  <2>3. t.key[p] = k /\ t.callback[p] = b
    BY <1>5, <1>10, <1>11
  <2> QED
    BY <2>2, <2>3, <1>7
<1>16. Tries(s, t, k)
  BY <1>5, <1>11, <1>15 DEF Tries, SameCount
<1> QED
  BY <1>8, <1>12, <1>13, <1>14, <1>16 DEF Good

\* The search for the control port goes on, or its end is counted.
LEMMA FindControlGood ==
  ASSUME NEW s, Good(s)
  PROVE  /\ Good(FindControl(s))
         /\ Counts(s, FindControl(s), 1) \/ Tries(s, FindControl(s), "controlPort")
<1>1. CASE s.remaining = <<>>
  <2>1. FindControl(s) = Check(s)
    BY <1>1 DEF FindControl
  <2> QED
    BY <2>1, CheckGood
<1>2. CASE s.remaining # <<>>
  <2>1. FindControl(s) = Probe(s, "controlPort") /\ "controlPort" \in Keys
    BY <1>2 DEF FindControl, Keys
  <2> QED
    BY <2>1, <1>2, ProbeGood
<1> QED
  BY <1>1, <1>2

\* The search for the data port goes on, or both ends are counted.
LEMMA FindDataGood ==
  ASSUME NEW s, Good(s)
  PROVE  /\ Good(FindBest(s, "dataPort"))
         /\ \/ Counts(s, FindBest(s, "dataPort"), 2)
            \/ Tries(s, FindBest(s, "dataPort"), "dataPort")
<1>1. CASE s.remaining = <<>>
  <2>1. PICK c : c = Check(s)
    OBVIOUS
  <2>2. Good(c) /\ Counts(s, c, 1) /\ c.remaining = <<>>
    BY <1>1, <2>1, CheckGood DEF SamePorts
  <2>3. PICK t : t = Check(c)
    OBVIOUS
  <2>4. Good(t) /\ Counts(c, t, 1)
    BY <2>2, <2>3, CheckGood
  <2>5. FindBest(s, "dataPort") = t
    BY <1>1, <2>1, <2>2, <2>3 DEF FindBest, NoData, FindControl
  <2>6. Counts(s, t, 2)
    <3>1. s.resultCount \in Nat
      BY CheckerFields DEF Good
    <3> QED
      BY <3>1, <2>2, <2>4 DEF Counts
  <2> QED
    BY <2>4, <2>5, <2>6
<1>2. CASE s.remaining # <<>>
  <2>1. FindBest(s, "dataPort") = Probe(s, "dataPort") /\ "dataPort" \in Keys
    BY <1>2 DEF FindBest, Keys
  <2> QED
    BY <2>1, <1>2, ProbeGood
<1> QED
  BY <1>1, <1>2

-----------------------------------------------------------------------------
(* A port is left *)

\* The connection of a port is closed, and nothing else happens.
HasClosed(s, t, p) ==
  /\ t.port = [s.port EXCEPT ![p] = Closed(s.port[p])]
  /\ t.choices = s.choices /\ t.remaining = s.remaining /\ t.key = s.key
  /\ SameCount(s, t)

\* What becomes of a port that is closed.
LEMMA ClosedStates ==
  ASSUME NEW x \in {"unused", "opening", "open", "left", "closed"}
  PROVE  /\ Closed(x) \in {"unused", "opening", "open", "left", "closed"} \ {"opening", "open"}
         /\ Closed(x) = "unused" <=> x = "unused"
         /\ x \in {"open", "closed"} => Closed(x) = "closed"
  BY DEF Closed

\* Closing a port concerns that port only.
LEMMA ClosedPort ==
  ASSUME NEW s \in Checker, NEW p \in Ports, NEW t, t.port = [s.port EXCEPT ![p] = Closed(s.port[p])]
  PROVE  /\ \A q \in Ports : /\ t.port[q] = "unused" <=> s.port[q] = "unused"
                             /\ s.port[q] = "closed" => t.port[q] = "closed"
         /\ s.port[p] \in {"open", "closed"} => t.port[p] = "closed"
         /\ Busy(t) = Busy(s) \ {p}
<1>1. PICK x : x = Closed(s.port[p])
  OBVIOUS
<1>2. /\ s.port \in [Ports -> {"unused", "opening", "open", "left", "closed"}]
      /\ t.port = [s.port EXCEPT ![p] = x]
  BY <1>1, CheckerFields
<1>3. /\ x \notin {"opening", "open"} /\ (x = "unused" <=> s.port[p] = "unused")
      /\ s.port[p] \in {"open", "closed"} => x = "closed"
  BY <1>1, <1>2, ClosedStates
<1>4. t.port[p] = x /\ \A q \in Ports : q # p => t.port[q] = s.port[q]
  BY <1>2
<1>5. Busy(t) = Busy(s) \ {p}
  BY <1>3, <1>4 DEF Busy
<1> QED
  BY <1>3, <1>4, <1>5

\* Closing a port leaves what was found of the ports, and the count.
LEMMA CloseGood ==
  ASSUME NEW s, Good(s), NEW p \in Ports, NEW t, t \in Checker, HasClosed(s, t, p)
  PROVE  Good(t) /\ Busy(t) = Busy(s) \ {p}
<1>1. s \in Checker /\ OnceInv(s) /\ PortInv(s)
  BY DEF Good
<1>2. /\ s.choices \in [Keys -> Ports \cup {NoPort}] /\ s.remaining \in Seq(Ports)
      /\ t.choices = s.choices /\ t.remaining = s.remaining /\ t.key = s.key /\ SameCount(s, t)
  BY <1>1, CheckerFields DEF HasClosed
<1>3. /\ \A q \in Ports : /\ t.port[q] = "unused" <=> s.port[q] = "unused"
                          /\ s.port[q] = "closed" => t.port[q] = "closed"
      /\ Busy(t) = Busy(s) \ {p}
  BY <1>1, ClosedPort DEF HasClosed
<1>4. \A i \in DOMAIN s.remaining : s.remaining[i] \in Ports
  BY <1>2
<1>5. s.choices["dataPort"] \in Ports \cup {NoPort} /\ s.choices["controlPort"] \in Ports \cup {NoPort}
  BY <1>2 DEF Keys
<1>6. PortInv(t)
  BY <1>1, <1>2, <1>3, <1>4, <1>5 DEF PortInv
<1>7. OnceInv(t)
  BY <1>1, <1>2 DEF OnceInv, SameCount
<1> QED
  BY <1>3, <1>6, <1>7 DEF Good

\* A port was closed, and the search goes on or has ended.
Closes(s, t, p) == Busy(t) = Busy(s) \ {p} /\ t.resultCount = s.resultCount /\ t.threw = s.threw
Moves(s, t, p, n, k) ==
  /\ t.threw = s.threw
  /\ \/ Busy(t) = Busy(s) \ {p} /\ t.resultCount = s.resultCount + n
     \/ /\ t.resultCount = s.resultCount + n - (IF k = "dataPort" THEN 2 ELSE 1)
        /\ \E q \in Ports : /\ Busy(t) = (Busy(s) \ {p}) \cup {q} /\ t.key[q] = k
                            /\ t.callback[q] <=> k = "dataPort"

\* A port without a purpose is told from the others.
LEMMA NoKey == NoPort \notin Ports /\ NoPort # "dataPort" /\ NoPort # "controlPort"
  BY SystemCheckAssumption

\* The callback is called once.
LEMMA CallbackGone ==
  ASSUME NEW s, Good(s), NEW p \in Ports, NEW t, t = [s EXCEPT !.callback[p] = FALSE]
  PROVE  Good(t) /\ Busy(t) = Busy(s) /\ t.resultCount = s.resultCount /\ t.threw = s.threw
<1>1. s \in Checker /\ OnceInv(s) /\ PortInv(s) /\ s.callback \in [Ports -> BOOLEAN]
  BY CheckerFields DEF Good
<1>2. PICK f \in [Ports -> BOOLEAN] : f = [s.callback EXCEPT ![p] = FALSE]
  BY <1>1
<1>3. PICK u : u = [s EXCEPT !.callback = f]
  OBVIOUS
<1>4. /\ u \in Checker /\ u.choices = s.choices /\ u.remaining = s.remaining
      /\ u.port = s.port /\ u.key = s.key /\ SameCount(s, u)
  BY <1>1, <1>3 DEF Checker, SameCount
<1>5. PortInv(u)
  BY <1>1, <1>4 DEF PortInv
<1>6. OnceInv(u)
  BY <1>1, <1>4 DEF OnceInv, SameCount
<1>7. Busy(u) = Busy(s)
  BY <1>4 DEF Busy
<1>8. u = t
  BY <1>1, <1>2, <1>3 DEF Checker
<1> QED
  BY <1>4, <1>5, <1>6, <1>7, <1>8 DEF Good, SameCount

\* After a port without an answer the next one is tried, or the search ends.
LEMMA DoneGood ==
  ASSUME NEW s, Good(s), NEW p \in Ports
  PROVE  /\ Good(Done(s, p))
         /\ s.key[p] = "dataPort" => Moves(s, Done(s, p), p, 2, "dataPort")
         /\ s.key[p] = "controlPort" => Moves(s, Done(s, p), p, 1, "controlPort")
         /\ s.key[p] = NoPort /\ s.callback[p] => Moves(s, Done(s, p), p, 1, "controlPort")
         /\ s.key[p] = NoPort /\ ~s.callback[p] => Closes(s, Done(s, p), p)
         /\ Done(s, p).threw = s.threw
<1>1. /\ s \in Checker /\ s.resultCount \in Nat /\ s.key[p] \in Keys \cup {NoPort}
      /\ s.port \in [Ports -> {"unused", "opening", "open", "left", "closed"}]
      /\ s.callback \in [Ports -> BOOLEAN]
  BY CheckerFields DEF Good
<1>2. PICK x : x = Closed(s.port[p])
  OBVIOUS
<1>3. x \in {"unused", "opening", "open", "left", "closed"}
  BY <1>1, <1>2, ClosedStates
<1>4. PICK t : t = [s EXCEPT !.port[p] = x]
  OBVIOUS
<1>5. t \in Checker /\ HasClosed(s, t, p) /\ t.callback = s.callback
  BY <1>1, <1>2, <1>3, <1>4 DEF Checker, HasClosed, SameCount
<1>6. Good(t) /\ Busy(t) = Busy(s) \ {p} /\ t.resultCount = s.resultCount /\ t.threw = s.threw
  BY <1>5, CloseGood DEF HasClosed, SameCount
<1>7. PICK d : d = Done(s, p)
  OBVIOUS
<1>8. d = CASE s.key[p] # NoPort -> FindBest(t, s.key[p])
            [] s.key[p] = NoPort /\ s.callback[p] -> FindControl([t EXCEPT !.callback[p] = FALSE])
            [] OTHER -> t
  BY <1>2, <1>4, <1>7 DEF Done
<1>9. CASE s.key[p] = "dataPort"
  <2>1. d = FindBest(t, "dataPort")
    BY <1>8, <1>9, NoKey
  <2>2. Good(d) /\ (Counts(t, d, 2) \/ Tries(t, d, "dataPort"))
    BY <2>1, <1>6, FindDataGood
  <2>3. Moves(s, d, p, 2, "dataPort")
    BY <2>2, <1>1, <1>6 DEF Counts, Tries, Moves
  <2> QED
    BY <2>2, <2>3, <1>7, <1>9, NoKey DEF Moves
<1>10. CASE s.key[p] = "controlPort"
  <2>1. d = FindControl(t)
    BY <1>8, <1>10, NoKey DEF FindBest
  <2>2. Good(d) /\ (Counts(t, d, 1) \/ Tries(t, d, "controlPort"))
    BY <2>1, <1>6, FindControlGood
  <2>3. Moves(s, d, p, 1, "controlPort")
    BY <2>2, <1>1, <1>6 DEF Counts, Tries, Moves
  <2> QED
    BY <2>2, <2>3, <1>7, <1>10, NoKey DEF Moves
<1>11. CASE s.key[p] = NoPort /\ s.callback[p]
  <2>1. PICK u : u = [t EXCEPT !.callback[p] = FALSE]
    OBVIOUS
  <2>2. Good(u) /\ Busy(u) = Busy(t) /\ u.resultCount = t.resultCount /\ u.threw = t.threw
    BY <2>1, <1>5, <1>6, CallbackGone
  <2>3. d = FindControl(u)
    BY <1>8, <1>11, <2>1
  <2>4. Good(d) /\ (Counts(u, d, 1) \/ Tries(u, d, "controlPort"))
    BY <2>2, <2>3, FindControlGood
  <2>5. Moves(s, d, p, 1, "controlPort")
    BY <2>2, <2>4, <1>1, <1>6 DEF Counts, Tries, Moves
  <2> QED
    BY <2>4, <2>5, <1>7, <1>11, NoKey DEF Moves
<1>12. CASE s.key[p] = NoPort /\ ~s.callback[p]
  <2>1. d = t
    BY <1>8, <1>12
  <2>2. Closes(s, d, p)
    BY <2>1, <1>6 DEF Closes
  <2> QED
    BY <2>1, <2>2, <1>6, <1>7, <1>12, NoKey
<1> QED
  BY <1>1, <1>9, <1>10, <1>11, <1>12 DEF Keys

-----------------------------------------------------------------------------
(* A port answers *)

\* The port, open or closed, is chosen: after it is closed, and before its callback.
LEMMA AnswersGood ==
  ASSUME NEW s, Good(s), NEW p \in Ports, s.port[p] \in {"open", "closed"}
  PROVE  /\ Good(Answers(s, p)) /\ Answers(s, p).threw = s.threw
         /\ s.callback[p] => Moves(s, Answers(s, p), p, 2, "controlPort")
         /\ ~s.callback[p] => /\ Busy(Answers(s, p)) = Busy(s) \ {p}
                              /\ Answers(s, p).resultCount = s.resultCount + 1
<1>1. /\ s \in Checker /\ OnceInv(s) /\ PortInv(s) /\ s.resultCount \in Nat
      /\ s.key \in [Ports -> Keys \cup {NoPort}] /\ s.callback \in [Ports -> BOOLEAN]
      /\ s.choices \in [Keys -> Ports \cup {NoPort}] /\ s.remaining \in Seq(Ports)
      /\ s.port \in [Ports -> {"unused", "opening", "open", "left", "closed"}]
  BY CheckerFields DEF Good
<1>2. PICK k : k = s.key[p]
  OBVIOUS
<1>3. PICK h : h = IF k = NoPort THEN s ELSE [s EXCEPT !.choices[k] = p]
  OBVIOUS
<1>4. PICK c : c = Check(h)
  OBVIOUS
<1>5. PICK n \in [Ports -> Keys \cup {NoPort}] : n = [s.key EXCEPT ![p] = NoPort]
  BY <1>1
<1>6. PICK o \in [Ports -> {"unused", "opening", "open", "left", "closed"}] :
        o = [s.port EXCEPT ![p] = "closed"]
  BY <1>1
<1>7. PICK u : u = [c EXCEPT !.key = n, !.port = o]
  OBVIOUS
\* The choice, and what is counted.
<1>8. /\ h \in Checker /\ h.remaining = s.remaining /\ h.port = s.port /\ h.key = s.key
      /\ h.callback = s.callback /\ SameCount(s, h)
      /\ h.choices = IF k = NoPort THEN s.choices ELSE [s.choices EXCEPT ![k] = p]
  <2>1. CASE k = NoPort
    BY <2>1, <1>1, <1>3 DEF SameCount
  <2>2. CASE k # NoPort
    <3>1. PICK e \in [Keys -> Ports \cup {NoPort}] : e = [s.choices EXCEPT ![k] = p]
      BY <1>1
    <3>2. h = [s EXCEPT !.choices = e]
      BY <2>2, <3>1, <1>1, <1>3 DEF Checker
    <3>3. /\ h \in Checker /\ h.remaining = s.remaining /\ h.port = s.port /\ h.key = s.key
          /\ h.callback = s.callback /\ SameCount(s, h) /\ h.choices = e
      BY <3>2, <1>1 DEF Checker, SameCount
    <3> QED
      BY <2>2, <3>1, <3>3
  <2> QED
    BY <2>1, <2>2
<1>9. OnceInv(h)
  <2>1. h.choices["dataPort"] = s.choices["dataPort"] \/ h.choices["dataPort"] = p
    BY <1>1, <1>8 DEF Keys
  <2> QED
    BY <2>1, <1>1, <1>8, NoKey DEF OnceInv, SameCount
<1>10. HasCounted(h, c)
  BY <1>4, <1>8, CheckDoes
<1>11. /\ c \in Checker /\ OnceInv(c) /\ SamePorts(h, c) /\ c.resultCount = s.resultCount + 1
       /\ c.threw = s.threw
  BY <1>8, <1>9, <1>10, CheckOnce DEF HasCounted, SameCount
\* The port is closed.
<1>12. /\ u \in Checker /\ u.key = n /\ u.port = o /\ u.choices = h.choices
       /\ u.remaining = s.remaining /\ u.callback = s.callback /\ SameCount(c, u)
  BY <1>7, <1>8, <1>11 DEF Checker, SamePorts, SameCount
<1>13. OnceInv(u)
  BY <1>11, <1>12 DEF OnceInv, SameCount, SamePorts
<1>14. /\ \A q \in Ports : q # p => u.port[q] = s.port[q] /\ u.key[q] = s.key[q]
       /\ u.port[p] = "closed" /\ u.key[p] = NoPort /\ u.callback[p] = s.callback[p]
  BY <1>5, <1>6, <1>12
<1>15. PortInv(u)
  <2>1. PICK d, m, e, w : /\ d = s.choices["dataPort"] /\ m = s.choices["controlPort"]
                          /\ e = u.choices["dataPort"] /\ w = u.choices["controlPort"]
    OBVIOUS
  <2>2. d \in Ports \cup {NoPort} /\ m \in Ports \cup {NoPort} /\ k \in Keys \cup {NoPort}
    BY <1>1, <1>2, <2>1 DEF Keys
  <2>3. /\ e = IF k = "dataPort" THEN p ELSE d
        /\ w = IF k = "controlPort" THEN p ELSE m
    BY <1>1, <1>8, <1>12, <2>1, <2>2, NoKey DEF Keys
  <2>4. /\ d # NoPort => d # m /\ s.port[d] = "closed" /\ s.key[d] # "controlPort"
        /\ m # NoPort => s.port[m] # "unused" /\ s.key[m] # "dataPort"
    BY <1>1, <2>1 DEF PortInv
  <2>5. /\ e # NoPort => e # w /\ u.port[e] = "closed" /\ u.key[e] # "controlPort"
        /\ w # NoPort => u.port[w] # "unused" /\ u.key[w] # "dataPort"
    <3>1. k = "dataPort" => m # p
      BY <1>2, <2>4, NoKey
    <3>2. k = "controlPort" => d # p
      BY <1>2, <2>4, NoKey
    <3> QED
      BY <3>1, <3>2, <2>2, <2>3, <2>4, <1>14, NoKey
  <2>6. \A i \in DOMAIN s.remaining : s.remaining[i] \in Ports /\ s.port[s.remaining[i]] = "unused"
    BY <1>1 DEF PortInv
  <2>7. /\ \A i, j \in DOMAIN u.remaining : u.remaining[i] = u.remaining[j] => i = j
        /\ \A i \in DOMAIN u.remaining : u.port[u.remaining[i]] = "unused"
    <3>1. \A i \in DOMAIN s.remaining : s.remaining[i] # p
      BY <2>6
    <3> QED
      BY <3>1, <2>6, <1>1, <1>12, <1>14 DEF PortInv
  <2>8. /\ u.choices["dataPort"] # NoPort =>
             /\ u.choices["dataPort"] # u.choices["controlPort"]
             /\ u.port[u.choices["dataPort"]] = "closed"
             /\ u.key[u.choices["dataPort"]] # "controlPort"
        /\ u.choices["controlPort"] # NoPort =>
             /\ u.port[u.choices["controlPort"]] # "unused"
             /\ u.key[u.choices["controlPort"]] # "dataPort"
    BY <2>1, <2>5
  <2> QED
    BY <2>7, <2>8 DEF PortInv
<1>16. Good(u) /\ Busy(u) = Busy(s) \ {p} /\ u.threw = s.threw /\ u.resultCount = s.resultCount + 1
  <2>1. Busy(u) = Busy(s) \ {p}
    BY <1>14 DEF Busy
  <2> QED
    BY <2>1, <1>11, <1>12, <1>13, <1>15 DEF Good, SameCount
\* The callback.
<1>17. PICK t : t = Answers(s, p)
  OBVIOUS
<1>18. t = IF s.callback[p] THEN FindControl([u EXCEPT !.callback[p] = FALSE]) ELSE u
  <2>1. PICK x : x = [c EXCEPT !.key[p] = NoPort]
    OBVIOUS
  <2>2. t = Done(x, p)
    BY <1>2, <1>3, <1>4, <1>17, <2>1 DEF Answers
  <2>3. c.key = s.key /\ c.port = s.port /\ c.callback = s.callback
    BY <1>8, <1>11 DEF SamePorts
  <2>4. x = [c EXCEPT !.key = n]
    BY <2>1, <2>3, <1>5, <1>11 DEF Checker
  <2>5. x \in Checker /\ x.key = n /\ x.port = s.port /\ x.callback = s.callback
    BY <2>3, <2>4, <1>11 DEF Checker
  <2>6. x.key[p] = NoPort /\ x.callback[p] = s.callback[p]
    BY <2>5, <1>5, <1>1
  <2>7. Closed(x.port[p]) = "closed"
    BY <2>5, ClosedStates, <1>1
  <2>8. [x EXCEPT !.port[p] = Closed(@)] = u
    <3>1. [x EXCEPT !.port[p] = Closed(@)] = [x EXCEPT !.port = o]
      BY <2>5, <2>7, <1>6 DEF Checker
    <3> QED
      BY <3>1, <2>4, <1>7, <1>11 DEF Checker
  <2>9. PICK y : y = [x EXCEPT !.port[p] = Closed(@)]
    OBVIOUS
  <2>10. t = CASE x.key[p] # NoPort -> FindBest(y, x.key[p])
               [] x.key[p] = NoPort /\ x.callback[p] -> FindControl([y EXCEPT !.callback[p] = FALSE])
               [] OTHER -> y
    BY <2>2, <2>9 DEF Done
  <2>11. y = u
    BY <2>8, <2>9
  <2> QED
    BY <2>6, <2>10, <2>11
<1>19. CASE s.callback[p]
  <2>1. PICK v : v = [u EXCEPT !.callback[p] = FALSE]
    OBVIOUS
  <2>2. Good(v) /\ Busy(v) = Busy(u) /\ v.resultCount = u.resultCount /\ v.threw = u.threw
    BY <2>1, <1>16, CallbackGone
  <2>3. t = FindControl(v)
    BY <1>18, <1>19, <2>1
  <2>4. Good(t) /\ (Counts(v, t, 1) \/ Tries(v, t, "controlPort"))
    BY <2>2, <2>3, FindControlGood
  <2>5. Moves(s, t, p, 2, "controlPort")
    BY <2>2, <2>4, <1>1, <1>16 DEF Counts, Tries, Moves
  <2> QED
    BY <2>4, <2>5, <1>17, <1>19 DEF Moves
<1>20. CASE ~s.callback[p]
  BY <1>16, <1>17, <1>18, <1>20
<1> QED
  BY <1>19, <1>20

-----------------------------------------------------------------------------
(* The whole check *)

\* How many of the items are checked.
Checked(q) == Cardinality(Items \ q)

\* What a port is tried for, when as many results of the search are counted.
Searching(s, n) ==
  \/ n = 0 /\ \E p \in Ports : Busy(s) = {p} /\ s.key[p] = "dataPort" /\ s.callback[p]
  \/ n = 1 /\ \E p \in Ports : Busy(s) = {p} /\ s.key[p] = "controlPort" /\ ~s.callback[p]
  \/ n = 2 /\ Busy(s) = {}

\* Nothing was asked yet.
Fresh(s) ==
  /\ s.resultCount = 0 /\ s.modem = "unused" /\ s.answered = 0 /\ s.stores = 0
  /\ s.readies = 0 /\ s.choices = [k \in Keys |-> NoPort]
  /\ s.remaining = <<>> /\ \A p \in Ports : s.port[p] = "unused"

\* The results are counted as they come, and the search adds two, one for each of its
\* steps; only late events disturb that.
Progress(s, q) ==
  /\ q \subseteq Items \cup {"ports"}
  /\ "ports" \in q => s.resultCount = Checked(q) /\ \A p \in Ports : s.port[p] = "unused"
  /\ "ports" \notin q /\ "late" \notin checkerFaults =>
       \E n \in 0..2 : s.resultCount = Checked(q) + n /\ Searching(s, n)
  /\ Good(s)

\* Nothing has begun; the setup file ended it; or the results come in.
CheckInv ==
  \/ pending = {"init"} /\ Fresh(checker) /\ checker.finishes = 0
  \/ pending = {} /\ Fresh(checker) /\ checker.finishes = 1
  \/ Progress(checker, pending)

\* No exception but from a late event or a second failure of the modem's port.
Calm(s) == checkerFaults \cap {"late", "twice"} = {} => ~s.threw

\* All of it, as it is kept from step to step.
Inv == CheckerTypeOK /\ CheckInv /\ Calm(checker)

\* The items that are checked are counted.
LEMMA Counting ==
  ASSUME NEW q
  PROVE  /\ Checked(q) \in Nat /\ Checked(q) <= Cardinality(Items)
         /\ Checked(q) = Cardinality(Items) => Items \cap q = {}
         /\ \A i \in Items \cap q : Checked(q \ {i}) = Checked(q) + 1
<1>1. IsFiniteSet(Items) /\ Items \ q \in SUBSET Items
  BY SystemCheckAssumption
<1>2. /\ IsFiniteSet(Items \ q) /\ Cardinality(Items \ q) \in Nat
      /\ Cardinality(Items \ q) <= Cardinality(Items)
      /\ Cardinality(Items) = Cardinality(Items \ q) => Items = Items \ q
  BY <1>1, FS_Subset, FS_CardinalityType
<1>3. ASSUME NEW i \in Items \cap q
      PROVE  Checked(q \ {i}) = Checked(q) + 1
  <2>1. Items \ (q \ {i}) = (Items \ q) \cup {i} /\ i \notin Items \ q
    OBVIOUS
  <2>2. Cardinality((Items \ q) \cup {i}) = Cardinality(Items \ q) + 1
    BY <1>2, <2>1, FS_AddElement
  <2> QED
    BY <2>1, <2>2 DEF Checked
<1> QED
  BY <1>2, <1>3 DEF Checked

\* The names that are asked for are different ones.
LEMMA Names == "init" \notin Items /\ "ports" \notin Items /\ "init" # "ports"
  BY SystemCheckAssumption

\* What touches neither ports nor count.
LEMMA Aside ==
  ASSUME NEW s, NEW q, Progress(s, q), NEW t \in Checker, SamePorts(s, t),
         t.resultCount = s.resultCount, OnceInv(t)
  PROVE  Progress(t, q)
<1>1. PortInv(t)
  BY DEF Progress, Good, PortInv, SamePorts
<1>2. Busy(t) = Busy(s) /\ \A n : Searching(s, n) => Searching(t, n)
  BY DEF Busy, Searching, SamePorts
<1> QED
  BY <1>1, <1>2 DEF Progress, Good, SamePorts

\* When something follows from the count, the ports were asked for.
LEMMA Counted ==
  ASSUME NEW s, NEW q, Progress(s, q),
         s.modem # "unused" \/ s.readies > 0 \/ s.stores > 0
  PROVE  /\ s.resultCount >= ExpectCount /\ "ports" \notin q
         /\ "late" \notin checkerFaults => q = {} /\ Busy(s) = {}
<1>1. s \in Checker /\ OnceInv(s) /\ s.resultCount \in Nat
  BY CheckerFields DEF Progress, Good
<1>2. /\ ExpectCount \in Nat /\ ExpectCount = Cardinality(Items) + 2 /\ Cardinality(Items) \in Nat
      /\ Checked(q) \in Nat /\ Checked(q) <= Cardinality(Items)
      /\ Checked(q) = Cardinality(Items) => Items \cap q = {}
  BY Expected, Counting
<1>3. s.resultCount >= ExpectCount
  BY <1>1, <1>2 DEF OnceInv
<1>4. "ports" \notin q
  BY <1>1, <1>2, <1>3 DEF Progress
<1>5. ASSUME "late" \notin checkerFaults
      PROVE  q = {} /\ Busy(s) = {}
  <2>1. PICK n \in 0..2 : s.resultCount = Checked(q) + n /\ Searching(s, n)
    BY <1>4, <1>5 DEF Progress
  <2>2. n = 2 /\ Checked(q) = Cardinality(Items)
    BY <2>1, <1>1, <1>2, <1>3
  <2>3. Items \cap q = {} /\ q \subseteq Items \cup {"ports"}
    BY <2>2, <1>2 DEF Progress
  <2> QED
    BY <2>1, <2>2, <2>3, <1>4 DEF Searching
<1> QED
  BY <1>3, <1>4, <1>5

\* What was asked keeps the cases of the invariant apart.
LEMMA Began ==
  ASSUME CheckInv, NEW i, i \in pending, i # "init"
  PROVE  Progress(checker, pending)
  BY DEF CheckInv

\* What is not as it was at the start shows that the check has begun.
LEMMA Going ==
  ASSUME CheckInv, \/ checker.modem # "unused" \/ checker.stores > 0 \/ checker.readies > 0
                   \/ \E p \in Ports : checker.port[p] # "unused"
  PROVE  Progress(checker, pending)
  BY DEF CheckInv, Fresh

\* The setup file ends it, or everything is asked for.
LEMMA InitKeeps ==
  ASSUME Inv, InitNow
  PROVE  /\ checker'.threw = checker.threw /\ checker' \in Checker
         /\ \/ pending' = {} /\ Fresh(checker') /\ checker'.finishes = 1
            \/ Progress(checker', pending')
<1>1. /\ pending = {"init"} /\ Fresh(checker) /\ checker.finishes = 0 /\ checker \in Checker
  BY Names DEF Inv, CheckInv, InitNow, Progress, CheckerTypeOK
<1>2. CASE pending' = {} /\ checker' = [checker EXCEPT !.finishes = @ + 1]
  <2>1. PICK t : t = [checker EXCEPT !.finishes = 1]
    OBVIOUS
  <2>2. t = checker'
    BY <1>1, <1>2, <2>1
  <2>3. /\ t \in Checker /\ SamePorts(checker, t) /\ t.finishes = 1 /\ t.threw = checker.threw
        /\ t.resultCount = checker.resultCount /\ t.modem = checker.modem
        /\ t.answered = checker.answered /\ t.stores = checker.stores /\ t.readies = checker.readies
    BY <1>1, <2>1 DEF Checker, SamePorts
  <2>4. Fresh(t)
    BY <1>1, <2>3 DEF Fresh, SamePorts
  <2> QED
    BY <1>2, <2>2, <2>3, <2>4
<1>3. CASE pending' = Items \cup {"ports"} /\ checker' = checker
  <2>1. Items \ (Items \cup {"ports"}) = {}
    OBVIOUS
  <2>2. Checked(pending') = 0
    BY <1>3, <2>1, FS_EmptySet DEF Checked
  <2>3. OnceInv(checker)
    <3>1. /\ ExpectCount \in Nat \ {0} /\ commands \in Nat \ {0} /\ checker.readies = 0
          /\ checker.stores = 0 /\ checker.modem = "unused" /\ checker.answered = 0
          /\ checker.resultCount = 0 /\ checker.finishes = 0
      BY <1>1, Expected, SystemCheckAssumption DEF Fresh
    <3> QED
      BY <3>1 DEF OnceInv
  <2>4. PortInv(checker)
    <3>1. /\ checker.choices["dataPort"] = NoPort /\ checker.choices["controlPort"] = NoPort
          /\ checker.remaining = <<>> /\ DOMAIN checker.remaining = {}
      BY <1>1 DEF Fresh, Keys
    <3> QED
      BY <3>1 DEF PortInv
  <2>5. Progress(checker, pending')
    BY <1>1, <1>3, <2>2, <2>3, <2>4 DEF Progress, Good, Fresh
  <2> QED
    BY <1>1, <1>3, <2>5
<1> QED
  BY <1>2, <1>3 DEF InitNow

\* An item is counted.
LEMMA ItemKeeps ==
  ASSUME Inv, NEW i \in Items, ItemChecked(i)
  PROVE  Progress(checker', pending') /\ checker'.threw = checker.threw
<1>1. PICK t, q : t = checker' /\ q = pending'
  OBVIOUS
<1>2. i \in pending /\ q = pending \ {i} /\ t = Check(checker) /\ i # "ports" /\ i # "init"
  BY <1>1, Names DEF ItemChecked
<1>3. Progress(checker, pending)
  BY <1>2, Began DEF Inv
<1>4. Good(t) /\ Counts(checker, t, 1) /\ SamePorts(checker, t)
  BY <1>2, <1>3, CheckGood DEF Progress
<1>5. Checked(pending) \in Nat /\ Checked(q) = Checked(pending) + 1
  BY <1>2, Counting
<1>6. \A n : Searching(checker, n) => Searching(t, n)
  BY <1>4 DEF Searching, SamePorts, Counts
<1>7. /\ q \subseteq Items \cup {"ports"}
      /\ "ports" \in q => t.resultCount = Checked(q) /\ \A p \in Ports : t.port[p] = "unused"
  BY <1>2, <1>3, <1>4, <1>5 DEF Progress, Counts, SamePorts
<1>8. ASSUME "ports" \notin q, "late" \notin checkerFaults
      PROVE  \E n \in 0..2 : t.resultCount = Checked(q) + n /\ Searching(t, n)
  <2>1. PICK n \in 0..2 : checker.resultCount = Checked(pending) + n /\ Searching(checker, n)
    BY <1>2, <1>3, <1>8 DEF Progress
  <2>2. t.resultCount = Checked(q) + n
    BY <1>4, <1>5, <2>1 DEF Counts
  <2> QED
    BY <1>6, <2>1, <2>2
<1>9. Progress(t, q)
  BY <1>4, <1>7, <1>8 DEF Progress
<1> QED
  BY <1>1, <1>4, <1>9 DEF Counts

\* The ports are found: the search begins, or ends at once.
LEMMA PortsKeep ==
  ASSUME Inv, PortsFound
  PROVE  Progress(checker', pending') /\ checker'.threw = checker.threw
<1>1. PICK t, q : t = checker' /\ q = pending'
  OBVIOUS
<1>2. PICK ports \in UNION {[1..n -> Ports] : n \in 0..Cardinality(Ports)} :
        /\ \A i, j \in DOMAIN ports : ports[i] = ports[j] => i = j
        /\ t = FindBest([checker EXCEPT !.remaining = ports], "dataPort")
  BY <1>1 DEF PortsFound
<1>3. "ports" \in pending /\ q = pending \ {"ports"} /\ Progress(checker, pending)
  BY <1>1, Began, Names DEF Inv, PortsFound
<1>4. ports \in Seq(Ports)
  <2>1. PICK n \in 0..Cardinality(Ports) : ports \in [1..n -> Ports]
    BY <1>2
  <2>2. n \in Nat
    BY <2>1
  <2> QED
    BY <2>1, <2>2
<1>5. PICK u : u = [checker EXCEPT !.remaining = ports]
  OBVIOUS
<1>6. checker \in Checker /\ OnceInv(checker) /\ PortInv(checker)
  BY <1>3 DEF Progress, Good
<1>7. /\ u \in Checker /\ u.remaining = ports /\ u.choices = checker.choices /\ u.port = checker.port
      /\ u.key = checker.key /\ SameCount(checker, u)
  BY <1>4, <1>5, <1>6 DEF Checker, SameCount
<1>8. Busy(u) = {} /\ \A p \in Ports : u.port[p] = "unused"
  BY <1>3, <1>7 DEF Progress, Busy
<1>9. PortInv(u)
  <2>1. \A i \in DOMAIN ports : ports[i] \in Ports
    BY <1>4
  <2>2. /\ \A i, j \in DOMAIN u.remaining : u.remaining[i] = u.remaining[j] => i = j
        /\ \A i \in DOMAIN u.remaining : u.port[u.remaining[i]] = "unused"
    BY <2>1, <1>2, <1>7, <1>8
  <2> QED
    BY <2>2, <1>6, <1>7 DEF PortInv
<1>10. OnceInv(u)
  BY <1>6, <1>7 DEF OnceInv, SameCount
<1>11. /\ Good(u) /\ u.resultCount = checker.resultCount /\ u.threw = checker.threw
       /\ u.resultCount \in Nat
  BY <1>7, <1>9, <1>10, CheckerFields DEF Good, SameCount
<1>12. Good(t) /\ (Counts(u, t, 2) \/ Tries(u, t, "dataPort"))
  BY <1>2, <1>5, <1>11, FindDataGood
<1>13. Checked(q) = checker.resultCount
  <2>1. Items \ q = Items \ pending
    BY <1>3, Names
  <2> QED
    BY <2>1, <1>3 DEF Checked, Progress
<1>14. \E n \in 0..2 : t.resultCount = Checked(q) + n /\ Searching(t, n)
  <2>1. CASE Counts(u, t, 2)
    <3>1. t.resultCount = Checked(q) + 2 /\ Searching(t, 2)
      BY <2>1, <1>8, <1>11, <1>13 DEF Counts, Searching
    <3> QED
      BY <3>1
  <2>2. CASE Tries(u, t, "dataPort")
    <3>1. t.resultCount = Checked(q) + 0 /\ Searching(t, 0)
      BY <2>2, <1>8, <1>11, <1>13 DEF Tries, Searching
    <3> QED
      BY <3>1
  <2> QED
    BY <1>12, <2>1, <2>2
<1>15. Progress(t, q)
  BY <1>3, <1>12, <1>14 DEF Progress
<1> QED
  BY <1>1, <1>11, <1>12, <1>15 DEF Counts, Tries

\* A port opens.
LEMMA OpensKeeps ==
  ASSUME Inv, NEW p \in Ports, Opens(p)
  PROVE  Progress(checker', pending') /\ checker'.threw = checker.threw
<1>1. PICK t : t = checker'
  OBVIOUS
<1>2. /\ checker.port[p] = "opening" /\ t = [checker EXCEPT !.port[p] = "open"]
      /\ pending' = pending
  BY <1>1 DEF Opens
<1>3. Progress(checker, pending)
  BY <1>2, Going DEF Inv
<1>4. checker \in Checker /\ OnceInv(checker) /\ PortInv(checker)
  BY <1>3 DEF Progress, Good
<1>5. PICK o : o = [checker.port EXCEPT ![p] = "open"]
  OBVIOUS
<1>6. /\ o \in [Ports -> {"unused", "opening", "open", "left", "closed"}] /\ o[p] = "open"
      /\ \A r \in Ports : r # p => o[r] = checker.port[r]
  BY <1>4, <1>5, CheckerFields
<1>7. t = [checker EXCEPT !.port = o]
  BY <1>2, <1>4, <1>5 DEF Checker
<1>8. /\ t \in Checker /\ t.port = o /\ t.choices = checker.choices
      /\ t.remaining = checker.remaining /\ t.key = checker.key /\ t.callback = checker.callback
      /\ SameCount(checker, t)
  BY <1>4, <1>6, <1>7 DEF Checker, SameCount
<1>9. Busy(t) = Busy(checker)
  BY <1>2, <1>6, <1>8 DEF Busy
<1>10. OnceInv(t)
  BY <1>4, <1>8 DEF OnceInv, SameCount
<1>11. PortInv(t)
  <2>1. \A r \in Ports : /\ t.port[r] = "unused" <=> checker.port[r] = "unused"
                         /\ checker.port[r] = "closed" => t.port[r] = "closed"
    BY <1>2, <1>6, <1>8
  <2>2. /\ checker.choices["dataPort"] \in Ports \cup {NoPort}
        /\ checker.choices["controlPort"] \in Ports \cup {NoPort}
        /\ \A i \in DOMAIN checker.remaining : checker.remaining[i] \in Ports
    BY <1>4, CheckerFields DEF Keys
  <2> QED
    BY <2>1, <2>2, <1>4, <1>8 DEF PortInv
<1>12. \A n : Searching(checker, n) => Searching(t, n)
  BY <1>8, <1>9 DEF Searching
<1>13. "ports" \notin pending
  BY <1>2, <1>3 DEF Progress
<1>14. Progress(t, pending)
  BY <1>3, <1>8, <1>10, <1>11, <1>12, <1>13 DEF Progress, Good, SameCount
<1> QED
  BY <1>1, <1>2, <1>8, <1>14 DEF SameCount

\* The port that is tried ends, with an answer or without.
LEMMA EndsKeeps ==
  ASSUME Inv, NEW p \in Ports, Ends(p)
  PROVE  Progress(checker', pending') /\ checker'.threw = checker.threw
<1>1. PICK t : t = checker'
  OBVIOUS
<1>2. /\ pending' = pending /\ checker.port[p] \in {"opening", "open"}
      /\ t = Done(checker, p) \/ (t = Answers(checker, p) /\ checker.port[p] = "open")
  BY <1>1 DEF Ends
<1>3. Progress(checker, pending)
  BY <1>2, Going DEF Inv
<1>4. Good(checker) /\ checker.resultCount \in Nat /\ p \in Busy(checker) /\ "ports" \notin pending
  BY <1>2, <1>3, CheckerFields DEF Progress, Good, Busy
<1>5. Good(t) /\ t.threw = checker.threw
  BY <1>2, <1>4, DoneGood, AnswersGood
<1>6. ASSUME "late" \notin checkerFaults
      PROVE  \E n \in 0..2 : t.resultCount = Checked(pending) + n /\ Searching(t, n)
  <2>1. PICK m \in 0..2 : checker.resultCount = Checked(pending) + m /\ Searching(checker, m)
    BY <1>3, <1>4, <1>6 DEF Progress
  <2>2. Checked(pending) \in Nat
    BY Counting
  <2>3. Busy(checker) = {p} /\ Busy(checker) \ {p} = {}
    BY <2>1, <1>4 DEF Searching
  <2>4. \/ m = 0 /\ checker.key[p] = "dataPort" /\ checker.callback[p]
        \/ m = 1 /\ checker.key[p] = "controlPort" /\ ~checker.callback[p]
    BY <2>1, <2>3, <1>4 DEF Searching
  <2>5. ASSUME NEW k \in Keys, NEW n \in {1, 2}, Moves(checker, t, p, n, k),
               m + n = 2, k = "dataPort" => m = 0
        PROVE  \E l \in 0..2 : t.resultCount = Checked(pending) + l /\ Searching(t, l)
    <3>1. CASE Busy(t) = Busy(checker) \ {p} /\ t.resultCount = checker.resultCount + n
      <4>1. t.resultCount = Checked(pending) + 2 /\ Searching(t, 2)
        BY <2>1, <2>2, <2>3, <2>5, <3>1 DEF Searching
      <4> QED
        BY <4>1
    <3>2. CASE /\ t.resultCount = checker.resultCount + n - (IF k = "dataPort" THEN 2 ELSE 1)
               /\ \E r \in Ports : /\ Busy(t) = (Busy(checker) \ {p}) \cup {r} /\ t.key[r] = k
                                   /\ t.callback[r] <=> k = "dataPort"
      <4>1. PICK r \in Ports : Busy(t) = {r} /\ t.key[r] = k /\ (t.callback[r] <=> k = "dataPort")
        BY <2>3, <3>2
      <4>2. CASE k = "dataPort"
        <5>1. t.resultCount = Checked(pending) + 0 /\ Searching(t, 0)
          BY <2>1, <2>2, <2>5, <3>2, <4>1, <4>2 DEF Searching
        <5> QED
          BY <5>1
      <4>3. CASE k = "controlPort"
        <5>1. t.resultCount = Checked(pending) + 1
          BY <2>1, <2>2, <2>5, <3>2, <4>3
        <5>2. Searching(t, 1)
          BY <4>1, <4>3 DEF Searching
        <5> QED
          BY <5>1, <5>2
      <4> QED
        BY <2>5, <4>2, <4>3 DEF Keys
    <3> QED
      BY <2>5, <3>1, <3>2 DEF Moves
  <2>6. CASE t = Done(checker, p)
    <3>1. CASE m = 0
      <4>1. Moves(checker, t, p, 2, "dataPort")
        BY <1>4, <2>4, <2>6, <3>1, DoneGood
      <4> QED
        BY <4>1, <3>1, <2>5 DEF Keys
    <3>2. CASE m = 1
      <4>1. Moves(checker, t, p, 1, "controlPort")
        BY <1>4, <2>4, <2>6, <3>2, DoneGood
      <4> QED
        BY <4>1, <3>2, <2>5 DEF Keys
    <3> QED
      BY <2>4, <3>1, <3>2
  <2>7. CASE t = Answers(checker, p) /\ checker.port[p] = "open"
    <3>1. CASE m = 0
      <4>1. Moves(checker, t, p, 2, "controlPort")
        BY <1>4, <2>4, <2>7, <3>1, AnswersGood
      <4> QED
        BY <4>1, <3>1, <2>5 DEF Keys
    <3>2. CASE m = 1
      <4>1. Busy(t) = {} /\ t.resultCount = checker.resultCount + 1
        BY <1>4, <2>3, <2>4, <2>7, <3>2, AnswersGood
      <4>2. t.resultCount = Checked(pending) + 2 /\ Searching(t, 2)
        BY <2>1, <2>2, <3>2, <4>1 DEF Searching
      <4> QED
        BY <4>2
    <3> QED
      BY <2>4, <3>1, <3>2
  <2> QED
    BY <1>2, <2>6, <2>7
<1>7. Progress(t, pending)
  BY <1>3, <1>4, <1>5, <1>6 DEF Progress
<1> QED
  BY <1>1, <1>2, <1>5, <1>7

\* An event of a port that the search has left.
LEMMA LateKeeps ==
  ASSUME Inv, NEW p \in Ports, Late(p)
  PROVE  Progress(checker', pending') /\ (checker'.threw => checker.threw \/ "late" \in checkerFaults)
<1>1. PICK t : t = checker'
  OBVIOUS
<1>2. /\ pending' = pending /\ "late" \in checkerFaults /\ checker.port[p] \in {"left", "closed"}
      /\ \/ t = [checker EXCEPT !.threw = TRUE]
         \/ t = Done(checker, p)
         \/ t = Answers(checker, p) /\ checker.port[p] = "closed"
  BY <1>1 DEF Late
<1>3. Progress(checker, pending)
  BY <1>2, Going DEF Inv
<1>4. Good(checker) /\ "ports" \notin pending
  BY <1>2, <1>3 DEF Progress
<1>5. CASE t = [checker EXCEPT !.threw = TRUE]
  <2>1. checker \in Checker /\ OnceInv(checker)
    BY <1>4 DEF Good
  <2>2. PICK b \in BOOLEAN : b = TRUE
    OBVIOUS
  <2>3. t = [checker EXCEPT !.threw = b]
    BY <1>5, <2>2
  <2>4. /\ t \in Checker /\ SamePorts(checker, t) /\ t.resultCount = checker.resultCount
        /\ t.modem = checker.modem /\ t.answered = checker.answered /\ t.stores = checker.stores
        /\ t.readies = checker.readies /\ t.finishes = checker.finishes
    BY <2>1, <2>3 DEF Checker, SamePorts
  <2>5. OnceInv(t)
    BY <2>1, <2>4 DEF OnceInv, SamePorts
  <2> QED
    BY <1>1, <1>2, <1>3, <2>4, <2>5, Aside
<1>6. CASE t # [checker EXCEPT !.threw = TRUE]
  <2>1. Good(t)
    BY <1>2, <1>4, <1>6, DoneGood, AnswersGood
  <2> QED
    BY <1>1, <1>2, <1>3, <1>4, <2>1 DEF Progress
<1> QED
  BY <1>5, <1>6

\* The modem's port opens.
LEMMA ModemOpensKeeps ==
  ASSUME Inv, ModemOpens
  PROVE  Progress(checker', pending') /\ checker'.threw = checker.threw
<1>1. PICK t : t = checker'
  OBVIOUS
<1>2. pending' = pending /\ checker.modem = "opening" /\ t = [checker EXCEPT !.modem = "talking"]
  BY <1>1 DEF ModemOpens
<1>3. Progress(checker, pending) /\ checker \in Checker /\ OnceInv(checker)
  BY <1>2, Going DEF Inv, Progress, Good
<1>4. /\ t \in Checker /\ SamePorts(checker, t) /\ t.resultCount = checker.resultCount
      /\ t.modem = "talking" /\ t.answered = checker.answered /\ t.stores = checker.stores
      /\ t.readies = checker.readies /\ t.finishes = checker.finishes /\ t.threw = checker.threw
  BY <1>2, <1>3 DEF Checker, SamePorts
<1>5. OnceInv(t)
  BY <1>2, <1>3, <1>4 DEF OnceInv, SamePorts
<1> QED
  BY <1>1, <1>2, <1>3, <1>4, <1>5, Aside

\* The dialogue ends: 'ready' is emitted.
LEMMA ModemDoneDoes ==
  ASSUME NEW s \in Checker, s.modem \in {"opening", "talking"}, s.choices["dataPort"] # NoPort,
         s.readies = 0, s.stores = 0, s.finishes = 0, s.resultCount >= ExpectCount
  PROVE  /\ ModemDone(s) \in Checker /\ SamePorts(s, ModemDone(s)) /\ OnceInv(ModemDone(s))
         /\ ModemDone(s).resultCount = s.resultCount /\ ModemDone(s).threw = s.threw
<1>1. PICK u : u = [s EXCEPT !.modem = "closed"]
  OBVIOUS
<1>2. /\ u \in Checker /\ SamePorts(s, u) /\ u.resultCount = s.resultCount
      /\ u.modem = "closed" /\ u.stores = 0 /\ u.readies = 0 /\ u.finishes = 0 /\ u.threw = s.threw
  BY <1>1 DEF Checker, SamePorts
<1>3. PICK t : t = ModemDone(s)
  OBVIOUS
<1>4. t = Ready(u)
  BY <1>1, <1>3 DEF ModemDone
<1>5. HasReady(u, t)
  BY <1>2, <1>4, ReadyDoes
<1>6. /\ t \in Checker /\ SamePorts(s, t) /\ t.resultCount = s.resultCount /\ t.threw = s.threw
      /\ t.modem = "closed" /\ t.readies = 1 /\ t.stores + t.finishes = 1
  BY <1>2, <1>5 DEF HasReady, SamePorts
<1>7. OnceInv(t)
  <2>1. t.resultCount \in Nat /\ ExpectCount \in Nat
    BY <1>6, CheckerFields, Expected
  <2>2. ~(t.resultCount < ExpectCount) /\ t.choices["dataPort"] # NoPort
    BY <1>6, <2>1 DEF SamePorts
  <2> QED
    BY <1>6, <2>2 DEF OnceInv
<1> QED
  BY <1>3, <1>6, <1>7

\* What the dialogue with the modem is, while it goes on.
LEMMA Talking ==
  ASSUME Progress(checker, pending), checker.modem \in {"opening", "talking"}
  PROVE  /\ checker.choices["dataPort"] # NoPort /\ checker.resultCount >= ExpectCount
         /\ checker.readies = 0 /\ checker.stores = 0 /\ checker.finishes = 0
         /\ checker.answered < commands
<1>1. checker.resultCount >= ExpectCount /\ OnceInv(checker)
  BY Counted DEF Progress, Good
<1> QED
  BY <1>1 DEF OnceInv

\* A command is answered.
LEMMA ModemAnswersKeeps ==
  ASSUME Inv, ModemAnswers
  PROVE  Progress(checker', pending') /\ checker'.threw = checker.threw
<1>1. PICK t : t = checker'
  OBVIOUS
<1>2. PICK n : n = checker.answered + 1
  OBVIOUS
<1>3. PICK s : s = [checker EXCEPT !.answered = n]
  OBVIOUS
<1>4. /\ pending' = pending /\ checker.modem = "talking"
      /\ t = IF s.answered = commands THEN ModemDone(s) ELSE s
  BY <1>1, <1>2, <1>3 DEF ModemAnswers
<1>5. Progress(checker, pending) /\ checker \in Checker /\ OnceInv(checker)
  BY <1>4, Going DEF Inv, Progress, Good
<1>6. /\ checker.choices["dataPort"] # NoPort /\ checker.resultCount >= ExpectCount
      /\ checker.readies = 0 /\ checker.stores = 0 /\ checker.finishes = 0
      /\ checker.answered < commands
  BY <1>4, <1>5, Talking
<1>7. n \in 0..commands
  BY <1>2, <1>5, <1>6, CheckerFields, SystemCheckAssumption
<1>8. /\ s \in Checker /\ SamePorts(checker, s) /\ s.resultCount = checker.resultCount
      /\ s.modem = "talking" /\ s.answered = n /\ s.stores = 0
      /\ s.readies = 0 /\ s.finishes = 0 /\ s.threw = checker.threw
  BY <1>3, <1>4, <1>5, <1>6, <1>7 DEF Checker, SamePorts
<1>9. s.choices["dataPort"] # NoPort /\ s.resultCount >= ExpectCount
  BY <1>6, <1>8 DEF SamePorts
<1>10. /\ t \in Checker /\ SamePorts(s, t) /\ OnceInv(t) /\ t.resultCount = s.resultCount
       /\ t.threw = s.threw
  <2>1. CASE s.answered = commands
    BY <2>1, <1>4, <1>8, <1>9, ModemDoneDoes
  <2>2. CASE s.answered # commands
    <3>1. n < commands
      BY <1>7, <1>8, <2>2, SystemCheckAssumption
    <3>2. OnceInv(s)
      BY <1>8, <1>9, <3>1, Expected, CheckerFields DEF OnceInv
    <3> QED
      BY <1>4, <1>8, <2>2, <3>2 DEF SamePorts
  <2> QED
    BY <2>1, <2>2
<1>11. SamePorts(checker, t) /\ t.resultCount = checker.resultCount /\ t.threw = checker.threw
  BY <1>8, <1>10 DEF SamePorts
<1> QED
  BY <1>1, <1>4, <1>5, <1>10, <1>11, Aside

\* The modem's port fails; the second time there is nothing left to close.
LEMMA ModemFailsKeeps ==
  ASSUME Inv, ModemFails
  PROVE  Progress(checker', pending') /\ (checker'.threw => checker.threw \/ "twice" \in checkerFaults)
<1>1. PICK t : t = checker'
  OBVIOUS
<1>2. /\ pending' = pending /\ t = ModemDone(checker)
      /\ checker.modem \in {"opening", "talking"} \/ ("twice" \in checkerFaults /\ checker.modem = "closed")
  BY <1>1 DEF ModemFails
<1>3. Progress(checker, pending) /\ checker \in Checker /\ OnceInv(checker)
  BY <1>2, Going DEF Inv, Progress, Good
<1>4. CASE checker.modem \in {"opening", "talking"}
  <2>1. /\ checker.choices["dataPort"] # NoPort /\ checker.resultCount >= ExpectCount
        /\ checker.readies = 0 /\ checker.stores = 0 /\ checker.finishes = 0
    BY <1>3, <1>4, Talking
  <2>2. /\ t \in Checker /\ SamePorts(checker, t) /\ OnceInv(t)
        /\ t.resultCount = checker.resultCount /\ t.threw = checker.threw
    BY <1>2, <1>3, <1>4, <2>1, ModemDoneDoes
  <2> QED
    BY <1>1, <1>2, <1>3, <2>2, Aside
<1>5. CASE "twice" \in checkerFaults /\ checker.modem = "closed"
  <2>1. PICK b \in BOOLEAN : b = TRUE
    OBVIOUS
  <2>2. t = [checker EXCEPT !.threw = b]
    BY <1>2, <1>5, <2>1 DEF ModemDone
  <2>3. /\ t \in Checker /\ SamePorts(checker, t) /\ t.resultCount = checker.resultCount
        /\ t.modem = checker.modem /\ t.answered = checker.answered /\ t.stores = checker.stores
        /\ t.readies = checker.readies /\ t.finishes = checker.finishes
    BY <1>3, <2>2 DEF Checker, SamePorts
  <2>4. OnceInv(t)
    BY <1>3, <2>3 DEF OnceInv, SamePorts
  <2> QED
    BY <1>1, <1>2, <1>3, <1>5, <2>3, <2>4, Aside
<1> QED
  BY <1>2, <1>4, <1>5

\* The settings are stored.
LEMMA StoredKeeps ==
  ASSUME Inv, Stored
  PROVE  Progress(checker', pending') /\ checker'.threw = checker.threw
<1>1. PICK t : t = checker'
  OBVIOUS
<1>2. PICK n, f, g : n = checker.stores - 1 /\ f = checker.finishes + 1 /\ g = checker.finishes + 2
  OBVIOUS
<1>3. /\ pending' = pending /\ checker.stores > 0
      /\ \/ t = [checker EXCEPT !.stores = n, !.finishes = f]
         \/ "redisError" \in checkerFaults /\ t = [checker EXCEPT !.stores = n, !.finishes = g]
  BY <1>1, <1>2 DEF Stored
<1>4. Progress(checker, pending) /\ checker \in Checker /\ OnceInv(checker)
  BY <1>3, Going DEF Inv, Progress, Good
<1>5. /\ n \in Nat /\ f \in Nat /\ g \in Nat /\ n + f = checker.stores + checker.finishes
      /\ checker.stores \in Nat /\ checker.stores # 0
  <2>1. checker.stores \in Nat /\ checker.finishes \in Nat
    BY <1>4, CheckerFields
  <2> QED
    BY <2>1, <1>2, <1>3
<1>6. PICK h \in {f, g} : /\ t = [checker EXCEPT !.stores = n, !.finishes = h]
                          /\ h = f \/ "redisError" \in checkerFaults
  BY <1>3
<1>7. /\ t \in Checker /\ SamePorts(checker, t) /\ t.resultCount = checker.resultCount
      /\ t.modem = checker.modem /\ t.answered = checker.answered /\ t.stores = n
      /\ t.readies = checker.readies /\ t.finishes = h /\ t.threw = checker.threw
  BY <1>4, <1>5, <1>6 DEF Checker, SamePorts
<1>8. checker.resultCount >= ExpectCount /\ checker.resultCount \in Nat /\ ExpectCount \in Nat
  BY <1>3, <1>4, Counted, CheckerFields, Expected
<1>9. /\ checker.modem \in {"unused", "closed"} /\ checker.readies = 1
      /\ "redisError" \notin checkerFaults => checker.stores + checker.finishes = 1
  BY <1>4, <1>5, <1>8 DEF OnceInv
<1>10. OnceInv(t)
  <2>1. ~(t.resultCount < ExpectCount)
    BY <1>7, <1>8
  <2>2. "redisError" \notin checkerFaults => t.stores + t.finishes = 1
    BY <1>5, <1>6, <1>7, <1>9
  <2>3. /\ t.modem # "unused" => t.choices["dataPort"] # NoPort
        /\ t.modem # "closed" => t.answered < commands
    BY <1>4, <1>7 DEF OnceInv, SamePorts
  <2> QED
    BY <1>7, <1>9, <2>1, <2>2, <2>3 DEF OnceInv
<1> QED
  BY <1>1, <1>3, <1>4, <1>7, <1>10, Aside

-----------------------------------------------------------------------------
(* The theorems *)

\* The invariant holds at the start, whatever the setup file holds.
LEMMA CheckStarts == CheckerInit => Inv
<1> SUFFICES ASSUME CheckerInit PROVE Inv
  OBVIOUS
<1>1. NoPort \in Ports \cup {NoPort} /\ 0 \in 0..commands /\ <<>> \in Seq(Ports)
  BY SystemCheckAssumption
<1>2. checker \in Checker
  BY <1>1 DEF CheckerInit, Checker
<1>3. Fresh(checker) /\ checker.finishes = 0 /\ ~checker.threw
  BY DEF CheckerInit, Fresh
<1>4. late \in 0..maxLate
  BY SystemCheckAssumption DEF CheckerInit
<1> QED
  BY <1>2, <1>3, <1>4 DEF CheckerInit, Inv, CheckerTypeOK, CheckInv, Calm

\* Every step keeps it.
LEMMA CheckInductive ==
  ASSUME Inv, [CheckerNext]_checkerVars
  PROVE  Inv'
<1>1. CASE UNCHANGED checkerVars
  BY <1>1 DEF checkerVars, Inv, CheckerTypeOK, CheckInv, Calm, Fresh, Progress, Good, OnceInv, PortInv, Checked,
     Searching, Busy
<1>2. CASE CheckerNext
  <2>1. ~checker.threw /\ checkerFaults' = checkerFaults /\ setup' = setup
    BY <1>2 DEF CheckerNext, InitNow, PortsFound, ModemOpens, ModemAnswers, ModemFails, Stored, ItemChecked,
       Opens, Ends, Late
  <2>2. late' \in 0..maxLate
    BY <1>2, SystemCheckAssumption
       DEF Inv, CheckerTypeOK, CheckerNext, InitNow, PortsFound, ModemOpens, ModemAnswers, ModemFails, Stored,
           ItemChecked, Opens, Ends, Late
  <2>3. /\ checker'.threw => checker.threw \/ "late" \in checkerFaults \/ "twice" \in checkerFaults
        /\ checker' \in Checker
        /\ \/ pending' = {} /\ Fresh(checker') /\ checker'.finishes = 1
           \/ Progress(checker', pending')
    <3>1. Progress(checker', pending') => checker' \in Checker
      BY DEF Progress, Good
    <3> QED
      BY <1>2, <3>1, InitKeeps, ItemKeeps, PortsKeep, OpensKeeps, EndsKeeps, LateKeeps,
         ModemOpensKeeps, ModemAnswersKeeps, ModemFailsKeeps, StoredKeeps DEF CheckerNext
  <2>4. CheckInv'
    BY <2>1, <2>3
       DEF CheckInv, Progress, Fresh, Good, OnceInv, PortInv, Checked, Searching, Busy
  <2>5. CheckerTypeOK'
    <3>1. pending' \subseteq Items \cup {"init", "ports"}
      BY <2>3 DEF Progress
    <3> QED
      BY <2>1, <2>2, <2>3, <3>1 DEF Inv, CheckerTypeOK
  <2>6. Calm(checker)'
    BY <2>1, <2>3 DEF Calm
  <2> QED
    BY <2>4, <2>5, <2>6 DEF Inv
<1> QED
  BY <1>1, <1>2

\* What is to hold follows from it.
LEMMA OnceFromInv == Inv => OnceInOrder
<1> SUFFICES ASSUME Inv PROVE OnceInOrder
  OBVIOUS
<1>1. ASSUME "late" \notin checkerFaults, checker.modem # "unused" \/ checker.readies > 0
      PROVE  pending = {} /\ \A p \in Ports : checker.port[p] \notin {"opening", "open"}
  <2>1. Progress(checker, pending)
    BY <1>1, Going DEF Inv
  <2>2. pending = {} /\ Busy(checker) = {}
    BY <1>1, <2>1, Counted
  <2> QED
    BY <2>2 DEF Busy
<1>2. \/ Fresh(checker) /\ checker.finishes \in {0, 1}
      \/ checker \in Checker /\ OnceInv(checker) /\ PortInv(checker)
  BY DEF Inv, CheckInv, Progress, Good
<1>3. checker.readies <= 1 /\ ("redisError" \notin checkerFaults => checker.finishes <= 1)
  <2>1. CASE Fresh(checker) /\ checker.finishes \in {0, 1}
    BY <2>1 DEF Fresh
  <2>2. CASE checker \in Checker /\ OnceInv(checker)
    <3>1. /\ checker.resultCount \in Nat /\ ExpectCount \in Nat /\ checker.stores \in Nat
          /\ checker.finishes \in Nat
      BY <2>2, CheckerFields, Expected
    <3> QED
      BY <2>2, <3>1 DEF OnceInv
  <2> QED
    BY <1>2, <2>1, <2>2
<1>4. /\ checker.choices["dataPort"] # NoPort => checker.choices["dataPort"] # checker.choices["controlPort"]
      /\ checker.modem # "unused" => checker.port[checker.choices["dataPort"]] = "closed"
  <2>1. CASE Fresh(checker)
    BY <2>1 DEF Fresh, Keys
  <2>2. CASE OnceInv(checker) /\ PortInv(checker)
    BY <2>2 DEF OnceInv, PortInv
  <2> QED
    BY <1>2, <2>1, <2>2
<1> QED
  BY <1>1, <1>3, <1>4 DEF OnceInOrder, Inv, Calm

\* The initializer's state keeps its type.
THEOREM CheckerTypeCorrect == CheckerSpec => []CheckerTypeOK
<1>1. Inv => CheckerTypeOK
  BY DEF Inv
<1> QED
  BY CheckStarts, CheckInductive, <1>1, PTL DEF CheckerSpec

\* The check is over once, after all that belongs to it.
THEOREM OnceInOrderHolds == CheckerSpec => []OnceInOrder
  BY CheckStarts, CheckInductive, OnceFromInv, PTL DEF CheckerSpec

USE ReaderAssumption

-----------------------------------------------------------------------------
(* Types: what the reader and the device hold, and the state of a command. *)

HoldsOK ==
  /\ writing \subseteq Commands /\ timers \subseteq Commands
  /\ awaiting \in Commands \cup {None} /\ timeout \in Commands \cup {None}
  /\ lastData \subseteq Commands
  /\ heard \subseteq writing /\ device \subseteq Commands
  /\ line \in Seq(Piece)

FlagOK == listening \in BOOLEAN /\ ready \in BOOLEAN /\ (ready => listening)

\* A command is in one place at a time, and submitted while it is in one.
PlaceOK ==
  /\ status \in [Commands -> Statuses]
  /\ answer \in [Commands -> SUBSET Commands]
  /\ writing \cap timers = {}
  /\ \A c \in writing \cup timers : status[c] = "submitted"

TypeInv == FlagOK /\ HoldsOK /\ PlaceOK /\ AwaitingTimed

\* What the device sends are pieces of frames.
LEMMA SendType ==
  ASSUME HoldsOK, NEW p \in Seq(Piece), Send(p)
  PROVE  line' \in Seq(Piece)
  BY DEF HoldsOK, Send

\* What a data event makes of the frame read so far.
Frame(p) ==
  IF Begins(p) THEN {p.of} ELSE IF lastData = {} THEN {} ELSE lastData \cup {p.of}

\* What the data listener does with a piece, case by case.
LEMMA DataCases ==
  ASSUME HoldsOK, Data
  PROVE  \E frame \in SUBSET Commands :
           /\ line' \in Seq(Piece)
           /\ UNCHANGED <<listening, ready, writing, heard, device>>
           /\ \/ listening /\ Respond(frame)
              \/ /\ lastData' = frame \/ lastData' = lastData
                 /\ UNCHANGED <<awaiting, timers, timeout, status, answer>>
<1> DEFINE p == Head(line)
<1>1. line \in Seq(Piece) /\ line # <<>>
  BY DEF HoldsOK, Data
<1>2. p \in Piece /\ Tail(line) \in Seq(Piece)
  BY <1>1, HeadTailProperties
<1>3. p.of \in Commands
  BY <1>2 DEF Piece
<1>4. Frame(p) \in SUBSET Commands
  BY <1>3 DEF Frame, HoldsOK
<1>5. /\ line' \in Seq(Piece)
      /\ UNCHANGED <<listening, ready, writing, heard, device>>
  BY <1>2 DEF Data
<1>6. \/ listening /\ Respond(Frame(p))
      \/ /\ lastData' = Frame(p) \/ lastData' = lastData
         /\ UNCHANGED <<awaiting, timers, timeout, status, answer>>
  BY DEF Data, Frame
<1> QED
  BY <1>4, <1>5, <1>6

\* Every step keeps the flags.
LEMMA FlagStep == FlagOK /\ [Next]_vars => FlagOK'
<1> SUFFICES ASSUME FlagOK, [Next]_vars PROVE FlagOK'
  OBVIOUS
<1>1. CASE Opened
  BY <1>1 DEF Opened, FlagOK
<1>2. CASE Stop
  BY <1>2 DEF Stop, FlagOK
<1>3. CASE Data
  BY <1>3 DEF Data, FlagOK
<1>4. ASSUME NEW c \in Commands,
             Submit(c) \/ Written(c) \/ WriteFails(c) \/ TimeoutFires(c) \/ Hear(c) \/ Reply(c)
      PROVE  UNCHANGED <<listening, ready>>
  BY <1>4 DEF Submit, Written, WriteFails, TimeoutFires, Hear, Reply, readerVars
<1>5. CASE UNCHANGED vars
  BY <1>5 DEF vars, readerVars, FlagOK
<1> QED
  BY <1>1, <1>2, <1>3, <1>4, <1>5 DEF Next, FlagOK

\* Every step keeps the types of commands and of the line.
LEMMA HoldsStep == HoldsOK /\ [Next]_vars => HoldsOK'
<1> SUFFICES ASSUME HoldsOK, [Next]_vars PROVE HoldsOK'
  OBVIOUS
<1>1. CASE Opened
  BY <1>1 DEF Opened, HoldsOK
<1>2. CASE Data
  <2>1. PICK frame \in SUBSET Commands :
           /\ line' \in Seq(Piece)
           /\ UNCHANGED <<listening, ready, writing, heard, device>>
           /\ \/ listening /\ Respond(frame)
              \/ /\ lastData' = frame \/ lastData' = lastData
                 /\ UNCHANGED <<awaiting, timers, timeout, status, answer>>
    BY <1>2, DataCases
  <2> QED
    BY <2>1 DEF HoldsOK, Respond, ResetTimeout
<1>3. CASE Stop
  BY <1>3 DEF Stop, ResetTimeout, HoldsOK
<1>4. ASSUME NEW c \in Commands,
             Submit(c) \/ Written(c) \/ WriteFails(c) \/ TimeoutFires(c) \/ Hear(c)
      PROVE  HoldsOK'
  BY <1>4 DEF HoldsOK, Submit, Written, WriteFails, TimeoutFires, Hear, readerVars
<1>5. ASSUME NEW c \in Commands, Reply(c) PROVE HoldsOK'
  <2> DEFINE piece(k) == [of |-> c, kind |-> k]
  <2>1. piece("whole") \in Piece /\ piece("head") \in Piece /\ piece("tail") \in Piece
    BY DEF Piece
  <2>2. /\ <<piece("whole")>> \in Seq(Piece)
        /\ <<piece("head"), piece("tail")>> \in Seq(Piece)
        /\ <<piece("head")>> \in Seq(Piece)
    BY <2>1
  <2>3. line' \in Seq(Piece)
    BY <1>5, <2>2, SendType DEF Reply, HoldsOK
  <2> QED
    BY <1>5, <2>3 DEF Reply, HoldsOK, readerVars
<1>6. CASE UNCHANGED vars
  BY <1>6 DEF vars, readerVars, HoldsOK
<1> QED
  BY <1>1, <1>2, <1>3, <1>4, <1>5, <1>6 DEF Next

-----------------------------------------------------------------------------
(* The life of a command: what is left to call its callback. *)

\* A command that ends has a status and an answer.
LEMMA ConcludeType ==
  ASSUME PlaceOK, NEW c \in Commands, NEW how \in Statuses, NEW frame \in SUBSET Commands,
         Conclude(c, how, frame)
  PROVE  /\ status' \in [Commands -> Statuses]
         /\ answer' \in [Commands -> SUBSET Commands]
         /\ status'[c] = how
         /\ \A d \in Commands \ {c} : status'[d] = status[d]
  BY DEF PlaceOK, Conclude

\* Every step keeps each submitted command in its place, and the awaited one timed.
LEMMA LifeStep == FlagOK /\ HoldsOK /\ PlaceOK /\ AwaitingTimed /\ [Next]_vars
                  => PlaceOK' /\ AwaitingTimed'
<1> SUFFICES ASSUME FlagOK, HoldsOK, PlaceOK, AwaitingTimed, [Next]_vars
             PROVE  PlaceOK' /\ AwaitingTimed'
  OBVIOUS
<1>1. CASE Opened
  BY <1>1 DEF Opened, PlaceOK, AwaitingTimed
<1>2. CASE Data
  <2>1. PICK frame \in SUBSET Commands :
           /\ line' \in Seq(Piece)
           /\ UNCHANGED <<listening, ready, writing, heard, device>>
           /\ \/ listening /\ Respond(frame)
              \/ /\ lastData' = frame \/ lastData' = lastData
                 /\ UNCHANGED <<awaiting, timers, timeout, status, answer>>
    BY <1>2, DataCases
  <2>2. CASE listening /\ Respond(frame) /\ awaiting = None
    BY <2>1, <2>2 DEF Respond, ResetTimeout, PlaceOK, AwaitingTimed
  <2>3. CASE listening /\ Respond(frame) /\ awaiting # None
    <3>1. /\ awaiting \in Commands /\ awaiting \in timers
          /\ timers' = timers \ {awaiting} /\ awaiting' = None
          /\ Conclude(awaiting, "answered", frame)
      BY <2>3 DEF Respond, ResetTimeout, AwaitingTimed, HoldsOK
    <3>2. /\ status' \in [Commands -> Statuses] /\ answer' \in [Commands -> SUBSET Commands]
          /\ \A d \in Commands \ {awaiting} : status'[d] = status[d]
      BY <3>1, ConcludeType DEF Statuses
    <3> QED
      BY <2>1, <3>1, <3>2 DEF PlaceOK, AwaitingTimed, HoldsOK
  <2>4. CASE UNCHANGED <<awaiting, timers, timeout, status, answer>>
    BY <2>1, <2>4 DEF PlaceOK, AwaitingTimed
  <2> QED
    BY <2>1, <2>2, <2>3, <2>4
<1>3. CASE Stop
  <2>1. /\ timers' \subseteq timers /\ listening' = FALSE
        /\ UNCHANGED <<writing, answer>>
        /\ status' = [c \in Commands |-> IF c \in timers \ timers' THEN "dropped" ELSE status[c]]
    BY <1>3 DEF Stop, ResetTimeout
  <2>2. status' \in [Commands -> Statuses]
    BY <2>1 DEF PlaceOK, Statuses
  <2> QED
    BY <2>1, <2>2 DEF PlaceOK, AwaitingTimed, HoldsOK
<1>4. ASSUME NEW c \in Commands, Submit(c) PROVE PlaceOK' /\ AwaitingTimed'
  <2>1. \E how \in {"submitted", "notReady"} :
          /\ Conclude(c, how, {})
          /\ writing' = IF how = "submitted" THEN writing \cup {c} ELSE writing
    BY <1>4 DEF Submit
  <2>2. /\ status[c] # "submitted" /\ awaiting' = None
        /\ UNCHANGED <<listening, timers, timeout>>
    BY <1>4 DEF Submit
  <2>3. /\ status' \in [Commands -> Statuses] /\ answer' \in [Commands -> SUBSET Commands]
        /\ \A d \in Commands \ {c} : status'[d] = status[d]
        /\ writing' = (IF status'[c] = "submitted" THEN writing \cup {c} ELSE writing)
    BY <2>1, ConcludeType DEF Statuses
  <2>4. c \notin writing \cup timers
    BY <2>2 DEF PlaceOK
  <2> QED
    BY <2>2, <2>3, <2>4 DEF PlaceOK, AwaitingTimed, HoldsOK
<1>5. ASSUME NEW c \in Commands, Written(c) PROVE PlaceOK' /\ AwaitingTimed'
  BY <1>5 DEF Written, PlaceOK, AwaitingTimed, HoldsOK
<1>6. ASSUME NEW c \in Commands, WriteFails(c) PROVE PlaceOK' /\ AwaitingTimed'
  <2>1. /\ Conclude(c, "writeError", {}) /\ writing' = writing \ {c} /\ c \in writing
        /\ UNCHANGED <<listening, awaiting, timers, timeout>>
    BY <1>6 DEF WriteFails
  <2>2. /\ status' \in [Commands -> Statuses] /\ answer' \in [Commands -> SUBSET Commands]
        /\ \A d \in Commands \ {c} : status'[d] = status[d]
    BY <2>1, ConcludeType DEF Statuses
  <2> QED
    BY <2>1, <2>2 DEF PlaceOK, AwaitingTimed, HoldsOK
<1>7. ASSUME NEW c \in Commands, TimeoutFires(c) PROVE PlaceOK' /\ AwaitingTimed'
  <2>1. /\ Conclude(c, "timeout", {}) /\ timers' = timers \ {c} /\ awaiting' = None
        /\ c \in timers /\ UNCHANGED writing
    BY <1>7 DEF TimeoutFires
  <2>2. /\ status' \in [Commands -> Statuses] /\ answer' \in [Commands -> SUBSET Commands]
        /\ \A d \in Commands \ {c} : status'[d] = status[d]
    BY <2>1, ConcludeType DEF Statuses
  <2> QED
    BY <2>1, <2>2 DEF PlaceOK, AwaitingTimed, HoldsOK
<1>8. ASSUME NEW c \in Commands, Hear(c) \/ Reply(c) PROVE PlaceOK' /\ AwaitingTimed'
  BY <1>8 DEF Hear, Reply, readerVars, PlaceOK, AwaitingTimed
<1>9. CASE UNCHANGED vars
  BY <1>9 DEF vars, readerVars, PlaceOK, AwaitingTimed
<1> QED
  BY <1>1, <1>2, <1>3, <1>4, <1>5, <1>6, <1>7, <1>8, <1>9 DEF Next

\* The types and the timer of the awaited command hold always.
LEMMA Invariance == Spec => []TypeInv
<1>1. Init => TypeInv
  <2>1. Init => FlagOK
    BY DEF Init, FlagOK
  <2>2. Init => HoldsOK
    BY EmptySeq DEF Init, HoldsOK
  <2>3. Init => PlaceOK /\ AwaitingTimed
    BY DEF Init, PlaceOK, AwaitingTimed, Statuses
  <2> QED
    BY <2>1, <2>2, <2>3 DEF TypeInv
<1>2. TypeInv /\ [Next]_vars => TypeInv'
  BY FlagStep, HoldsStep, LifeStep DEF TypeInv
<1> QED
  BY <1>1, <1>2, PTL DEF Spec

-----------------------------------------------------------------------------
(* Theorems *)

\* The state of the reader is well-formed: a command waits for its write or for
\* its timer, never for both, and only while its callback has not been called.
THEOREM TypeCorrect == Spec => []TypeOK
<1>1. TypeInv => TypeOK
  <2>1. TypeInv => (FlagOK /\ HoldsOK /\ PlaceOK)
    BY DEF TypeInv
  <2>2. (FlagOK /\ HoldsOK /\ PlaceOK) => TypeOK
    BY DEF FlagOK, HoldsOK, PlaceOK, TypeOK
  <2> QED
    BY <2>1, <2>2
<1> QED
  BY <1>1, Invariance, PTL

\* While a command is awaited, its timer is the one that its answer will stop.
THEOREM AwaitingTimedHolds == Spec => []AwaitingTimed
<1>1. TypeInv => AwaitingTimed
  BY DEF TypeInv
<1> QED
  BY <1>1, Invariance, PTL

\* The callback of a submit is called at most once, by an answer, a write error
\* or the timer, even when the client overlaps its commands or stops the reader.
THEOREM CalledOnceHolds == Spec => CalledOnce
<1>1. TypeInv /\ [Next]_vars =>
        [\A c \in Commands :
           (status'[c] # status[c] /\ status'[c] \in {"answered", "timeout", "writeError"})
             => status[c] = "submitted"]_vars
  <2> SUFFICES ASSUME TypeInv, Next, NEW c \in Commands,
                      status'[c] # status[c],
                      status'[c] \in {"answered", "timeout", "writeError"}
               PROVE  status[c] = "submitted"
    BY DEF vars
  <2> USE DEF TypeInv
  <2>1. CASE Data
    <3>1. PICK frame \in SUBSET Commands :
             \/ listening /\ Respond(frame)
             \/ UNCHANGED status
      BY <2>1, DataCases
    <3>2. CASE listening /\ Respond(frame)
      <4>1. awaiting # None /\ Conclude(awaiting, "answered", frame)
        BY <3>2 DEF Respond
      <4>2. awaiting \in timers
        BY <3>2, <4>1 DEF AwaitingTimed
      <4>3. c = awaiting
        BY <4>1 DEF Conclude, PlaceOK
      <4> QED
        BY <4>2, <4>3 DEF PlaceOK
    <3> QED
      BY <3>1, <3>2
  <2>2. CASE Opened
    BY <2>2 DEF Opened
  <2>3. CASE Stop
    <3>1. status' = [d \in Commands |-> IF d \in timers \ timers' THEN "dropped" ELSE status[d]]
      BY <2>3 DEF Stop
    <3> QED
      BY <3>1
  <2>4. ASSUME NEW d \in Commands, Submit(d) PROVE FALSE
    BY <2>4 DEF Submit, Conclude, PlaceOK
  <2>5. ASSUME NEW d \in Commands, WriteFails(d) PROVE status[c] = "submitted"
    BY <2>5 DEF WriteFails, Conclude, PlaceOK
  <2>6. ASSUME NEW d \in Commands, TimeoutFires(d) PROVE status[c] = "submitted"
    BY <2>6 DEF TimeoutFires, Conclude, PlaceOK
  <2>7. ASSUME NEW d \in Commands, Written(d) \/ Hear(d) \/ Reply(d) PROVE FALSE
    BY <2>7 DEF Written, Hear, Reply
  <2> QED
    BY <2>1, <2>2, <2>3, <2>4, <2>5, <2>6, <2>7 DEF Next
<1> QED
  BY <1>1, Invariance, PTL DEF Spec, CalledOnce

-----------------------------------------------------------------------------
(* Whose answer it is *)

\* The pieces that a reply consists of.
Whole(c) == [of |-> c, kind |-> "whole"]
Start(c) == [of |-> c, kind |-> "head"]
End(c)   == [of |-> c, kind |-> "tail"]

\* No fault by which an answer of an earlier command could come.
InTime == faults \cap {"late", "cut", "overlap"} = {}

\* One command is submitted at a time; the device does not have a command before it is
\* written or heard; what it works on, or what is on the line, is the submitted command;
\* and there is one reply on the line at most, or the end of the one that was begun.
OneSubmitted == \A c, d \in Commands : status[c] = "submitted" /\ status[d] = "submitted" => c = d
NotBefore == \A c \in writing \ heard : ~Underway(c)
OnlySubmitted == \A c \in Commands : Underway(c) => status[c] = "submitted"
ReplyOf(c) ==
  /\ c \notin device
  /\ \/ line \in {<<Whole(c)>>, <<Start(c), End(c)>>} /\ lastData = {}
     \/ line = <<End(c)>> /\ lastData = {c}
OneReply == (line = <<>> /\ lastData = {}) \/ \E c \in Commands : ReplyOf(c)

Tidy == OneSubmitted /\ NotBefore /\ OnlySubmitted /\ OneReply
OwnInv == InTime => (listening => Tidy) /\ OwnResponse

\* The sequences of one and of two pieces.
LEMMA Pieces ==
  ASSUME NEW p, NEW q
  PROVE  /\ <<p>> # <<>> /\ Head(<<p>>) = p /\ Tail(<<p>>) = <<>> /\ DOMAIN <<p>> = {1} /\ <<p>>[1] = p
         /\ <<p, q>> # <<>> /\ Head(<<p, q>>) = p /\ Tail(<<p, q>>) = <<q>>
         /\ DOMAIN <<p, q>> = {1, 2} /\ <<p, q>>[1] = p /\ <<p, q>>[2] = q
         /\ <<>> \o <<p>> = <<p>> /\ <<>> \o <<p, q>> = <<p, q>> /\ DOMAIN <<>> = {}
  OBVIOUS

\* A command is underway while the device has it or its reply is on the line.
LEMMA ReplyUnderway ==
  ASSUME NEW c \in Commands, ReplyOf(c)
  PROVE  /\ Underway(c)
         /\ \A d \in Commands : Underway(d) <=> d \in device \/ d = c
         /\ line # <<>>
<1>1. \A i \in DOMAIN line : line[i].of = c
  BY Pieces DEF ReplyOf, Whole, Start, End
<1>2. 1 \in DOMAIN line /\ line # <<>>
  BY Pieces DEF ReplyOf
<1> QED
  BY <1>1, <1>2 DEF Underway

\* With nothing on the line only the device counts.
LEMMA NothingUnderway ==
  ASSUME line = <<>>
  PROVE  \A d \in Commands : Underway(d) <=> d \in device
  BY Pieces DEF Underway

\* While the line, the device and the commands being written do not change, and the status of
\* what is underway neither.
LEMMA TidyFrame ==
  ASSUME Tidy, UNCHANGED <<line, lastData, device>>,
         \A c \in Commands : status'[c] = "submitted" => status[c] = "submitted",
         \A c \in Commands : Underway(c) => status'[c] = "submitted",
         writing' \ heard' \subseteq writing \ heard
  PROVE  Tidy'
<1>1. \A c : Underway(c)' <=> Underway(c)
  BY DEF Underway
<1>2. OneReply'
  <2>1. \A c \in Commands : ReplyOf(c) => ReplyOf(c)'
    BY DEF ReplyOf
  <2> QED
    BY <2>1 DEF Tidy, OneReply
<1> QED
  BY <1>1, <1>2 DEF Tidy, OneSubmitted, NotBefore, OnlySubmitted

\* The data listener gets the reply of the submitted command: it begins it, or hands all of
\* it to the command that is awaited.
LEMMA DataTidy ==
  ASSUME TypeInv, Tidy, listening, Data
  PROVE  /\ Tidy'
         /\ \A c \in Commands : status'[c] = "answered" =>
              (status[c] = "answered" /\ answer'[c] = answer[c]) \/ answer'[c] = {c}
<1>0. line # <<>> /\ line' = Tail(line) /\ UNCHANGED <<listening, writing, heard, device>>
  BY DEF Data
<1>1. PICK c \in Commands : ReplyOf(c)
  BY <1>0 DEF Tidy, OneReply
<1>2. /\ \A d \in Commands : Underway(d) <=> d \in device \/ d = c
      /\ status[c] = "submitted" /\ c \notin device
  BY <1>1, ReplyUnderway DEF Tidy, OnlySubmitted, ReplyOf
<1>3. PICK p : p = Head(line)
  OBVIOUS
<1>4. PICK frame : frame = IF Begins(p) THEN {p.of} ELSE IF lastData = {} THEN {} ELSE lastData \cup {p.of}
  OBVIOUS
<1>5. \/ frame # {} /\ p.kind \in {"whole", "tail"} /\ Respond(frame)
      \/ /\ frame = {} \/ p.kind = "head"
         /\ lastData' = frame /\ UNCHANGED <<awaiting, timers, timeout, status, answer>>
  BY <1>3, <1>4 DEF Data
<1>6. \A d \in Commands : d \in device => d = c
  BY <1>2 DEF Tidy, OnlySubmitted, OneSubmitted
<1>7. CASE line = <<Start(c), End(c)>> /\ lastData = {}
  <2>1. p = Start(c) /\ line' = <<End(c)>> /\ frame = {c}
    BY <1>0, <1>3, <1>4, <1>7, Pieces DEF Start, Begins
  <2>2. lastData' = {c} /\ UNCHANGED <<status, answer>>
    BY <1>5, <2>1 DEF Start
  <2>3. ReplyOf(c)'
    BY <1>0, <1>2, <2>1, <2>2 DEF ReplyOf
  <2>4. \A i \in DOMAIN line' : line'[i].of = c
    BY <2>1, Pieces DEF End
  <2>5. \A d \in Commands : Underway(d)' => Underway(d)
    BY <1>0, <1>2, <2>4 DEF Underway
  <2>6. Tidy'
    BY <1>0, <2>2, <2>3, <2>5 DEF Tidy, OneSubmitted, NotBefore, OnlySubmitted, OneReply, TypeInv, HoldsOK
  <2> QED
    BY <2>2, <2>6
<1>8. CASE \/ line = <<Whole(c)>> /\ lastData = {}
           \/ line = <<End(c)>> /\ lastData = {c}
  <2>1. line' = <<>> /\ frame = {c} /\ p.kind \in {"whole", "tail"}
    <3>1. CASE line = <<Whole(c)>> /\ lastData = {}
      <4>1. p = Whole(c) /\ line' = <<>>
        BY <1>0, <1>3, <3>1, Pieces
      <4> QED
        BY <1>4, <3>1, <4>1 DEF Whole, Begins
    <3>2. CASE line = <<End(c)>> /\ lastData = {c}
      <4>1. p = End(c) /\ line' = <<>>
        BY <1>0, <1>3, <3>2, Pieces
      <4> QED
        BY <1>4, <3>2, <4>1 DEF End, Begins
    <3> QED
      BY <1>8, <3>1, <3>2
  <2>2. Respond({c})
    BY <1>5, <2>1
  <2>3. lastData' = {}
    BY <2>2 DEF Respond
  <2>4. \A d \in Commands : Underway(d)' <=> d \in device
    BY <1>0, <2>1, Pieces DEF Underway
  <2>5. OneReply'
    BY <2>1, <2>3 DEF OneReply
  <2>6. \A d \in Commands : d \notin device
    BY <1>2, <1>6
  <2>7. CASE awaiting = None
    <3>1. UNCHANGED <<status, answer>>
      BY <2>2, <2>7 DEF Respond
    <3> QED
      BY <1>0, <2>4, <2>5, <2>6, <3>1 DEF Tidy, OneSubmitted, NotBefore, OnlySubmitted, TypeInv, HoldsOK
  <2>8. CASE awaiting # None
    <3>1. awaiting = c
      BY <1>2, <2>8 DEF TypeInv, AwaitingTimed, PlaceOK, HoldsOK, Tidy, OneSubmitted
    <3>2. /\ status' = [status EXCEPT ![c] = "answered"] /\ answer' = [answer EXCEPT ![c] = {c}]
          /\ status \in [Commands -> Statuses] /\ answer \in [Commands -> SUBSET Commands]
      BY <2>2, <2>8, <3>1 DEF Respond, Conclude, TypeInv, PlaceOK
    <3>3. OneSubmitted'
      BY <3>2 DEF Tidy, OneSubmitted
    <3>4. NotBefore' /\ OnlySubmitted'
      BY <1>0, <2>4, <2>6 DEF NotBefore, OnlySubmitted, TypeInv, HoldsOK
    <3> QED
      BY <2>5, <3>2, <3>3, <3>4 DEF Tidy
  <2> QED
    BY <2>7, <2>8
<1> QED
  BY <1>1, <1>7, <1>8 DEF ReplyOf

\* The device gets a command, or finds that it has it: nothing else is underway.
LEMMA DeviceTidy ==
  ASSUME TypeInv, Tidy, NEW c \in writing, UNCHANGED <<line, lastData, status>>,
         device' = IF c \in heard THEN device ELSE device \cup {c},
         writing' \ heard' = (writing \ heard) \ {c}
  PROVE  Tidy'
<1>0. c \in Commands /\ status[c] = "submitted"
  BY DEF TypeInv, HoldsOK, PlaceOK
<1>1. CASE c \in heard
  BY <1>1, TidyFrame DEF Tidy, OnlySubmitted
<1>2. CASE c \notin heard
  <2>1. ~Underway(c)
    BY <1>2 DEF Tidy, NotBefore
  <2>2. \A d \in Commands : ~Underway(d)
    BY <1>0, <2>1 DEF Tidy, OnlySubmitted, OneSubmitted
  <2>3. line = <<>> /\ lastData = {}
    BY <2>2, ReplyUnderway DEF Tidy, OneReply
  <2>4. \A d \in Commands : Underway(d)' <=> d \in device'
    BY <2>3, Pieces DEF Underway
  <2>5. \A d \in Commands : Underway(d)' => d = c
    BY <1>2, <2>2, <2>4 DEF Underway
  <2>6. NotBefore' /\ OnlySubmitted' /\ OneSubmitted' /\ OneReply'
    BY <1>0, <2>3, <2>5 DEF NotBefore, OnlySubmitted, OneSubmitted, OneReply, Tidy, TypeInv, HoldsOK
  <2> QED
    BY <2>6 DEF Tidy
<1> QED
  BY <1>1, <1>2

\* The reply of the device to the submitted command is the only one on the line.
LEMMA ReplyTidy ==
  ASSUME TypeInv, Tidy, InTime, NEW c \in Commands, Reply(c)
  PROVE  Tidy'
<1>1. /\ c \in device /\ device' = device \ {c}
      /\ UNCHANGED <<writing, heard, lastData, status>>
  BY DEF Reply, readerVars
<1>2. Underway(c) /\ status[c] = "submitted"
  BY <1>1 DEF Underway, Tidy, OnlySubmitted
<1>3. \A d \in Commands : Underway(d) => d = c
  BY <1>2 DEF Tidy, OnlySubmitted, OneSubmitted
<1>4. line = <<>> /\ lastData = {}
  BY <1>1, <1>3, ReplyUnderway DEF Tidy, OneReply, ReplyOf
<1>5. line' \in {<<>>, <<Whole(c)>>, <<Start(c), End(c)>>}
  <2>1. "cut" \notin faults
    BY DEF InTime
  <2> QED
    BY <1>4, <2>1, Pieces DEF Reply, Send, Whole, Start, End
<1>6. \A i \in DOMAIN line' : line'[i].of = c
  BY <1>5, Pieces DEF Whole, Start, End
<1>7. \A d \in Commands : Underway(d)' => d = c
  BY <1>1, <1>3, <1>6 DEF Underway
<1>8. c \notin writing \ heard
  BY <1>2 DEF Tidy, NotBefore
<1>9. OneReply'
  <2>1. CASE line' = <<>>
    BY <1>1, <1>4, <2>1 DEF OneReply
  <2>2. CASE line' # <<>>
    <3>1. ReplyOf(c)'
      BY <1>1, <1>4, <1>5, <2>2 DEF ReplyOf
    <3> QED
      BY <3>1 DEF OneReply
  <2> QED
    BY <2>1, <2>2
<1>10. OneSubmitted' /\ NotBefore' /\ OnlySubmitted'
  BY <1>1, <1>2, <1>7, <1>8 DEF Tidy, OneSubmitted, NotBefore, OnlySubmitted, TypeInv, HoldsOK
<1> QED
  BY <1>9, <1>10 DEF Tidy

\* A command is submitted when no other is, and nothing of an earlier one is left.
LEMMA SubmitTidy ==
  ASSUME TypeInv, Tidy, InTime, NEW c \in Commands, Submit(c)
  PROVE  Tidy'
<1>1. /\ ~Underway(c) /\ \A d \in Commands : status[d] # "submitted"
      /\ UNCHANGED <<line, lastData, device, heard>>
      /\ \A d \in Commands : status'[d] = "submitted" => d = c
      /\ writing' \subseteq writing \cup {c}
  BY DEF Submit, InTime, Conclude, TypeInv, PlaceOK
<1>2. \A d \in Commands : ~Underway(d) /\ d \notin writing
  BY <1>1 DEF Tidy, OnlySubmitted, TypeInv, PlaceOK
<1>3. line = <<>> /\ lastData = {}
  BY <1>2, ReplyUnderway DEF Tidy, OneReply
<1>4. \A d \in Commands : ~Underway(d)'
  BY <1>1, <1>2 DEF Underway
<1>5. OneSubmitted' /\ NotBefore' /\ OnlySubmitted' /\ OneReply'
  BY <1>1, <1>3, <1>4 DEF OneSubmitted, NotBefore, OnlySubmitted, OneReply, TypeInv, HoldsOK
<1> QED
  BY <1>5 DEF Tidy

\* No step changes what an execution may meet.
LEMMA FaultsStay == [Next]_vars => UNCHANGED faults
  BY DEF Next, vars, Opened, Data, Stop, Submit, Written, WriteFails, TimeoutFires, Hear, Reply

\* Every step keeps the order while the reader listens, and gives no command an answer that is
\* not its own.
LEMMA OwnStep == TypeInv /\ OwnInv /\ [Next]_vars => OwnInv'
<1> SUFFICES ASSUME TypeInv, OwnInv, [Next]_vars, InTime
             PROVE  (listening' => Tidy') /\ OwnResponse'
  BY FaultsStay DEF OwnInv, InTime
<1>0. (listening => Tidy) /\ OwnResponse
  BY DEF OwnInv
<1>1. CASE Data
  <2>1. CASE listening
    BY <1>0, <1>1, <2>1, DataTidy DEF OwnResponse
  <2>2. CASE ~listening
    BY <1>0, <1>1, <2>2 DEF Data, OwnResponse
  <2> QED
    BY <2>1, <2>2
<1>2. CASE Stop
  <2>1. /\ listening' = FALSE /\ UNCHANGED answer
        /\ status' = [d \in Commands |-> IF d \in timers \ timers' THEN "dropped" ELSE status[d]]
    BY <1>2 DEF Stop
  <2> QED
    BY <1>0, <2>1 DEF OwnResponse
<1>3. ASSUME NEW c \in Commands, Submit(c) \/ WriteFails(c) \/ TimeoutFires(c)
      PROVE  (listening' => Tidy') /\ OwnResponse'
  <2>1. UNCHANGED listening
    BY <1>3 DEF Submit, WriteFails, TimeoutFires
  <2>2. OwnResponse'
    <3>1. PICK how \in {"submitted", "notReady", "writeError", "timeout"} : Conclude(c, how, {})
      BY <1>3 DEF Submit, WriteFails, TimeoutFires
    <3> QED
      BY <1>0, <3>1 DEF Conclude, OwnResponse, TypeInv, PlaceOK
  <2>3. CASE Submit(c)
    BY <1>0, <2>1, <2>2, <2>3, SubmitTidy
  <2>4. ASSUME WriteFails(c) \/ TimeoutFires(c), listening PROVE Tidy'
    <3>1. /\ UNCHANGED <<line, lastData, device, heard>> /\ writing' \subseteq writing
          /\ \A d \in Commands \ {c} : status'[d] = status[d]
          /\ status'[c] # "submitted"
      BY <2>4 DEF WriteFails, TimeoutFires, Conclude, TypeInv, PlaceOK
    <3>2. ~Underway(c)
      BY <1>0, <2>4 DEF WriteFails, TimeoutFires, InTime, Tidy, NotBefore
    <3>3. \A d \in Commands : Underway(d) => status'[d] = "submitted"
      BY <1>0, <2>4, <3>1, <3>2 DEF Tidy, OnlySubmitted
    <3> QED
      BY <1>0, <2>4, <3>1, <3>3, TidyFrame
  <2> QED
    BY <1>3, <2>1, <2>2, <2>3, <2>4
<1>4. ASSUME NEW c \in Commands, Written(c) \/ Hear(c)
      PROVE  (listening' => Tidy') /\ OwnResponse'
  <2>1. /\ c \in writing /\ UNCHANGED <<listening, line, lastData, status, answer>>
        /\ device' = IF c \in heard THEN device ELSE device \cup {c}
        /\ writing' \ heard' = (writing \ heard) \ {c}
    BY <1>4 DEF Written, Hear, readerVars
  <2>2. listening => Tidy'
    BY <1>0, <2>1, DeviceTidy
  <2> QED
    BY <1>0, <2>1, <2>2 DEF OwnResponse
<1>5. ASSUME NEW c \in Commands, Reply(c)
      PROVE  (listening' => Tidy') /\ OwnResponse'
  <2>1. UNCHANGED <<listening, status, answer>>
    BY <1>5 DEF Reply, readerVars
  <2> QED
    BY <1>0, <1>5, <2>1, ReplyTidy DEF OwnResponse
<1>6. CASE Opened \/ UNCHANGED vars
  <2>1. UNCHANGED <<listening, writing, heard, line, lastData, device, status, answer>>
    BY <1>6 DEF Opened, vars, readerVars
  <2>2. listening => Tidy'
    BY <1>0, <2>1, TidyFrame DEF Tidy, OnlySubmitted
  <2> QED
    BY <1>0, <2>1, <2>2 DEF OwnResponse
<1> QED
  BY <1>1, <1>2, <1>3, <1>4, <1>5, <1>6 DEF Next

\* With a client that waits for the end of each command, and a device that answers in time
\* and finishes its frames, the answer handed to a command is the answer to that command,
\* though it may come before the write callback or after a stop.
THEOREM OwnResponseInTimeHolds == Spec => []OwnResponseInTime
<1>1. Init => OwnInv
  BY DEF Init, OwnInv, Tidy, OneSubmitted, NotBefore, OnlySubmitted, OneReply, OwnResponse, Underway
<1>2. TypeInv /\ OwnInv /\ [Next]_vars => OwnInv'
  BY OwnStep
<1>3. OwnInv => OwnResponseInTime
  BY DEF OwnInv, InTime, OwnResponseInTime
<1> QED
  BY <1>1, <1>2, <1>3, Invariance, PTL DEF Spec
=============================================================================
