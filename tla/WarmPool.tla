------------------------------ MODULE WarmPool ------------------------------
(***************************************************************************)
(* What the manager promises of a harness's warm sessions, with no locks,  *)
(* counters, tables or wake-ups: a set of sessions that are warm, a set of *)
(* callers that hold a slot for one they are about to start, and a limit   *)
(* on both together.  CLIRounds implements it, counting with two integers  *)
(* under a mutex what is counted here from the sets themselves.            *)
(***************************************************************************)
EXTENDS Integers, FiniteSets

CONSTANTS Callers, Sessions, Limit

VARIABLES warm, held, shut

poolVars == <<warm, held, shut>>

PoolInit == warm = {} /\ held = {} /\ shut = FALSE

\* A caller takes a free slot.
Reserve(r) ==
  /\ Cardinality(warm) + Cardinality(held) < Limit
  /\ held' = held \cup {r}
  /\ UNCHANGED <<warm, shut>>

\* It starts the session the slot was for, unless the pool was shut meanwhile.
Start(r, s) ==
  /\ r \in held /\ s \notin warm /\ ~shut
  /\ warm' = warm \cup {s} /\ held' = held \ {r}
  /\ UNCHANGED shut

\* It starts none after all.
GiveUp(r) ==
  /\ r \in held
  /\ held' = held \ {r}
  /\ UNCHANGED <<warm, shut>>

\* A session ends and its slot is free ...
Drop(s) ==
  /\ s \in warm
  /\ warm' = warm \ {s}
  /\ UNCHANGED <<held, shut>>

\* ... or goes to the caller about to replace it, with no moment at which
\* another could take it.
Swap(r, s) ==
  /\ s \in warm /\ r \notin held
  /\ warm' = warm \ {s} /\ held' = held \cup {r}
  /\ UNCHANGED shut

\* Every session ends, for good.
Shut ==
  /\ ~shut
  /\ shut' = TRUE /\ warm' = {}
  /\ UNCHANGED held

PoolNext ==
  \/ \E r \in Callers : Reserve(r) \/ GiveUp(r) \/ \E s \in Sessions : Start(r, s) \/ Swap(r, s)
  \/ \E s \in Sessions : Drop(s)
  \/ Shut

PoolSpec == PoolInit /\ [][PoolNext]_poolVars
=============================================================================
