--------------------------- MODULE MCCodexThread ---------------------------
(* Instances of CodexThread for TLC. *)
EXTENDS CodexThread, TLC
CONSTANTS c1, c2, u1, d1

\* A conversation's thread, created by a user row, a one-shot request, and a
\* request that has nothing to answer.
Conversation == {[oneShot |-> FALSE, trailing |-> "user"]}
Every == Conversation \cup {[oneShot |-> TRUE, trailing |-> "user"],
                            [oneShot |-> FALSE, trailing |-> "nothing"]}

\* Tool calls differ in nothing but their identity.
Alike == Permutations(Calls)
=============================================================================
