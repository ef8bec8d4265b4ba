---------------------------- MODULE MCSupervisor ----------------------------
(* One or two settings of each keyset. *)
EXTENDS Supervisor

CONSTANTS g1, g2, c1, c2

MCGateways  == {g1, g2}
MCCellulars == {c1, c2}
=============================================================================
