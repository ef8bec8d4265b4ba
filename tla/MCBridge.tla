------------------------------- MODULE MCBridge -------------------------------
(* The private link over UDP and the public one over HTTPS, as by default, with *)
(* the acks of commands by the public one.                                      *)
EXTENDS Bridge

Default == {"public"}
=============================================================================
