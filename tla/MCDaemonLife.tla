---------------------------- MODULE MCDaemonLife ----------------------------
(* A small instance of DaemonLife: two tokens, one process of the commands. *)
EXTENDS DaemonLife
=============================================================================
