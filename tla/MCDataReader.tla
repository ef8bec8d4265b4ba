----------------------------- MODULE MCDataReader -----------------------------
(* Two commands are enough to mistake one's answer for the other's; the state *)
(* is finite because a command is reused when nothing of its last time is left. *)
EXTENDS DataReader

CONSTANTS c1, c2
=============================================================================
