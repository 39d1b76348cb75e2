---------------------------- MODULE MCCLIRounds ----------------------------
(* Small instances of CLIRounds for TLC. *)
EXTENDS CLIRounds, TLC

CONSTANTS r1, r2, r3, c1, c2

Ask(c, f) == [conversation |-> c, fence |-> f]

\* A round of each of two conversations.
OneEach == {r1 :> Ask(c1, 1) @@ r2 :> Ask(c2, 1)}

\* An older and a newer round of one conversation.
OldAndNew == {r1 :> Ask(c1, 1) @@ r2 :> Ask(c1, 2)}

\* ... and the newer one asked again.
OldAndNewAgain == {r1 :> Ask(c1, 1) @@ r2 :> Ask(c1, 2) @@ r3 :> Ask(c1, 2)}
=============================================================================
