------------------------------- MODULE MCRoutes -------------------------------
(* Three requests, two of them for the same peripheral. *)
EXTENDS Routes, TLC

CONSTANTS q1, q2, q3, door, pump

Ids == q1 :> door @@ q2 :> door @@ q3 :> pump
=============================================================================
