---------------------------- MODULE MCRemoteShell ----------------------------
(* Two browsers and two commands. *)
EXTENDS RemoteShell

CONSTANTS b1, b2, c1, c2

MCBrowsers == {b1, b2}
MCCommands == {c1, c2}
=============================================================================
