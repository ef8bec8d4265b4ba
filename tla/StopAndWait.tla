----------------------------- MODULE StopAndWait -----------------------------
(***************************************************************************)
(* What the transmit side of the queue router promises, without Redis,     *)
(* callbacks, retries or relays: reports wait in a queue, one at a time is *)
(* outstanding, it ends acked, failed or discarded, and only then is the   *)
(* next one taken, in the order they were queued.                          *)
(***************************************************************************)
EXTENDS Sequences

CONSTANTS Reports, None

VARIABLES waiting, outstanding, acked, failed

vars == <<waiting, outstanding, acked, failed>>

TypeOK ==
  /\ waiting \in Seq(Reports)
  /\ outstanding \in Reports \cup {None}
  /\ acked \subseteq Reports
  /\ failed \subseteq Reports

Init ==
  /\ waiting = <<>>
  /\ outstanding = None
  /\ acked = {}
  /\ failed = {}

Enqueue ==
  /\ \E e \in Reports : waiting' = Append(waiting, e)
  /\ UNCHANGED <<outstanding, acked, failed>>

Take ==
  /\ outstanding = None
  /\ waiting # <<>>
  /\ outstanding' = Head(waiting)
  /\ waiting' = Tail(waiting)
  /\ UNCHANGED <<acked, failed>>

Acked ==
  /\ outstanding # None
  /\ acked' = acked \cup {outstanding}
  /\ outstanding' = None
  /\ UNCHANGED <<waiting, failed>>

Failed ==
  /\ outstanding # None
  /\ failed' = failed \cup {outstanding}
  /\ outstanding' = None
  /\ UNCHANGED <<waiting, acked>>

\* The report was unreadable, or was lost on its way to becoming a message.
Discarded ==
  /\ outstanding # None
  /\ outstanding' = None
  /\ UNCHANGED <<waiting, acked, failed>>

Settle == Acked \/ Failed \/ Discarded

Next == Enqueue \/ Take \/ Settle

Spec == Init /\ [][Next]_vars
=============================================================================
