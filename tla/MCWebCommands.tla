---------------------------- MODULE MCWebCommands ----------------------------
(* Two browsers at one peripheral, and three commands, two of them from one. *)
EXTENDS WebCommands, TLC

CONSTANTS s1, s2, c1, c2, c3, r1

TwoSockets    == {s1, s2}
ThreeCommands == {c1, c2, c3}
OneRoute      == {r1}
Senders       == c1 :> s1 @@ c2 :> s1 @@ c3 :> s2
=============================================================================
