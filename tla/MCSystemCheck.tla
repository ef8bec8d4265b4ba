--------------------------- MODULE MCSystemCheck ---------------------------
(* Two programs, three ports and two commands. *)
EXTENDS SystemCheck

CONSTANTS pppd, ntpd, p1, p2, p3

MCItems == {pppd, ntpd}
MCPorts == {p1, p2, p3}
=============================================================================
