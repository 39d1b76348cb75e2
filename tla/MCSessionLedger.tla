-------------------------- MODULE MCSessionLedger --------------------------
(* Small instances of SessionLedger for TLC. *)
EXTENDS SessionLedger, TLC

CONSTANTS o1, o2, o3, s1

Ask(g, isCommand) == [session |-> s1, generation |-> g, isCommand |-> isCommand]

\* Two commands of one generation, and an operation of either generation.
TwoCommands ==
  {o1 :> Ask(1, TRUE) @@ o2 :> Ask(1, TRUE) @@ o3 :> Ask(g, c) : g \in {1, 2}, c \in BOOLEAN}
=============================================================================
