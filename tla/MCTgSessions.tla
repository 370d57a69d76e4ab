---------------------------- MODULE MCTgSessions ----------------------------
(* The instances of TgSessions for TLC: the constants are in the .cfg files. *)
EXTENDS TgSessions
=============================================================================
