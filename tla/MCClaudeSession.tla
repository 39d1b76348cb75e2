-------------------------- MODULE MCClaudeSession --------------------------
(* A small instance of ClaudeSession: a window of two steps, three rounds. *)
EXTENDS ClaudeSession

AllReasons == TurnReasons
=============================================================================
