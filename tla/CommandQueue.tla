---------------------------- MODULE CommandQueue ----------------------------
(***************************************************************************)
(* What the bridge to the mod promises of the commands sent over it: each  *)
(* is carried out at most once, in the order in which they were queued,    *)
(* and none is passed over.  ModBridge implements it.                      *)
(***************************************************************************)
EXTENDS Sequences

CONSTANT Commands

VARIABLES queued, ran   \* commands not yet carried out, and those that were

vars == <<queued, ran>>

Init == queued = <<>> /\ ran = <<>>

Queue(c) == queued' = Append(queued, c) /\ UNCHANGED ran

Run == queued # <<>> /\ ran' = Append(ran, Head(queued)) /\ queued' = Tail(queued)

Next == Run \/ \E c \in Commands : Queue(c)

Spec == Init /\ [][Next]_vars
=============================================================================
