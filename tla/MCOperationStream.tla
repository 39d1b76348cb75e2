------------------------- MODULE MCOperationStream -------------------------
(* Small instances of OperationStream for TLC. *)
EXTENDS OperationStream, TLC

CONSTANTS o1, o2, o3, s1

Ask(kind) == [kind |-> kind, session |-> s1]

\* A command next to any operation, for one slot.
Pairs == {o1 :> Ask("command") @@ o2 :> Ask(kind) : kind \in {"file", "cli"}}

\* A command and a file operation of one session.
OneSession == {o1 :> Ask("command") @@ o2 :> Ask("file")}
=============================================================================
