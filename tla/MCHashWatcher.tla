---------------------------- MODULE MCHashWatcher ----------------------------
(* Two keysets, one known from the start and one added later, over hashes that *)
(* hold the keys of none, of the first (in two versions) or of both.           *)
EXTENDS HashWatcher, TLC

CONSTANTS gateway, heartbeat, c1, c2, nothing, one, other, both

AllTargets == {gateway, heartbeat}
AllHashes  == {nothing, one, other, both}
Settings ==
  gateway   :> (nothing :> None @@ one :> c1   @@ other :> c2   @@ both :> c1) @@
  heartbeat :> (nothing :> None @@ one :> None @@ other :> None @@ both :> c2)
=============================================================================
