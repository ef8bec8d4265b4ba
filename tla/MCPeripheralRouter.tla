-------------------------- MODULE MCPeripheralRouter --------------------------
(* Two connections of a known type, one of another; a configuration with        *)
(* ad-hoc routing, two with schedules so that one follows the other, and one of *)
(* each other kind.                                                             *)
EXTENDS PeripheralRouter, TLC

CONSTANTS telnet, serial, odd, adhoc, off, sched1, sched2, empty, bad

AllRoutes ==
  adhoc :> "ad-hoc" @@ off :> "none" @@ sched1 :> "scheduled" @@
  sched2 :> "scheduled" @@ empty :> "empty" @@ bad :> "unknown"

AllCmds == DOMAIN AllRoutes
=============================================================================
