--------------------------- MODULE SessionLedger ---------------------------
(***************************************************************************)
(* The session ledger of internal/sessions/ledger.go under the operations  *)
(* of internal/client/dispatch.go that use it: an empty marker file for    *)
(* every (session, generation) served, whose age decides when the sweep    *)
(* deletes it with the shell state it stands for, and a mutex per session. *)
(*                                                                         *)
(* An operation holds its session's mutex from MarkServed until it has     *)
(* run.  Files outlive the process; mutexes and whoever held them do not.  *)
(* The shell state itself is written by the shell text the platform sends, *)
(* which restores it when a command starts and captures it when the        *)
(* command ends.                                                           *)
(***************************************************************************)
EXTENDS Integers, FiniteSets

CONSTANTS
  Ops,            \* the operations; each is sent once
  Sessions, Generations,
  Requests,       \* the functions Ops -> [session, generation, isCommand] to explore
  TTL,            \* sessionStateTTL, in clock ticks
  MaxTime,        \* bound on the clock
  MaxRestarts,    \* bound on restarts of the daemon
  Sweeper, Free, Never   \* the sweep, a mutex nobody holds, no time

Keys == [session : Sessions, generation : Generations]

ASSUME LedgerAssumption ==
  /\ TTL \in Nat /\ MaxTime \in Nat /\ MaxRestarts \in Nat
  /\ Requests \subseteq
       [Ops -> [session : Sessions, generation : Generations, isCommand : BOOLEAN]]
  /\ Sweeper \notin Ops /\ Free \notin Ops \cup {Sweeper}
  /\ Never \notin Nat

VARIABLES
  request,    \* what each operation asks
  op,         \* where each operation is, and whether it answers is_fresh_shell
  known,      \* the sessions that have a mutex in this process
  holder,     \* who holds the mutex of a session
  marker,     \* the mtime of each marker file, or Never
  state,      \* the keys that have a shell state directory
  sweep,      \* the sweep goroutine
  now, restarts,
  captured,   \* history: keys whose state was captured since they were last forgotten
  spoiled     \* history: keys of which ledger and state may disagree

files == <<marker, state>>
locks == <<known, holder>>
history == <<captured, spoiled>>
clock == <<now, restarts>>
vars == <<request, op, locks, files, sweep, clock, history>>

-----------------------------------------------------------------------------
\* Holding the mutex of its session.
Critical == {"stat", "write", "touch", "start", "command"}

\* A mutex that somebody refers to stays in the map: a second one for the same
\* session would let two commands run at once.
TypeOK ==
  /\ request \in [Ops -> [session : Sessions, generation : Generations, isCommand : BOOLEAN]]
  /\ op \in [Ops -> [pc : {"idle", "lock", "done", "lost"} \cup Critical, isFresh : BOOLEAN]]
  /\ known \subseteq Sessions
  /\ holder \in [Sessions -> Ops \cup {Sweeper, Free}]
  /\ marker \in [Keys -> Nat \cup {Never}]
  /\ state \subseteq Keys
  /\ sweep \in [pc : {"idle", "look", "try", "state", "marker"}, left : SUBSET Keys,
                key : Keys \cup {Never}, isLocked : BOOLEAN, cutoff : Int]
  /\ now \in Nat /\ restarts \in Nat
  /\ captured \subseteq Keys /\ spoiled \subseteq Keys
  /\ \A o \in Ops : op[o].pc \in {"lock"} \cup Critical => request[o].session \in known

NoSweep == [pc |-> "idle", left |-> {}, key |-> Never, isLocked |-> FALSE, cutoff |-> -1]

\* A daemon that finds the ledger and the state of an earlier one, or nothing.
Init ==
  /\ request \in Requests
  /\ op = [o \in Ops |-> [pc |-> "idle", isFresh |-> FALSE]]
  /\ known = {}
  /\ holder = [s \in Sessions |-> Free]
  /\ marker = [k \in Keys |-> Never]
  /\ state = {}
  /\ sweep = NoSweep
  /\ now = 0 /\ restarts = 0
  /\ captured = {} /\ spoiled = {}

session(o) == request[o].session
key(o) == [session |-> request[o].session, generation |-> request[o].generation]
Goto(o, from, to) == op[o].pc = from /\ op' = [op EXCEPT ![o].pc = to]
Answer(o, from, to, isFresh) ==
  op[o].pc = from /\ op' = [op EXCEPT ![o] = [pc |-> to, isFresh |-> isFresh]]

-----------------------------------------------------------------------------
(***************************************************************************)
(* An operation: Ledger.Lock, MarkServed, the operation, and the unlock    *)
(***************************************************************************)
\* The mutex is created under the guard of the map and taken outside it.
GetMutex(o) ==
  /\ Goto(o, "idle", "lock")
  /\ known' = known \cup {session(o)}
  /\ UNCHANGED <<request, holder, files, sweep, clock, history>>

IsFree(s, o) == holder[s] = Free

\* The sweep is deleting a key of this session without its mutex.
Undermines(s) == sweep.pc \in {"state", "marker"} /\ ~sweep.isLocked /\ sweep.key.session = s

Acquire(o) ==
  /\ Goto(o, "lock", "stat")
  /\ IsFree(session(o), o)
  /\ holder' = [holder EXCEPT ![session(o)] = o]
  /\ spoiled' = IF Undermines(session(o)) THEN spoiled \cup {sweep.key} ELSE spoiled
  /\ UNCHANGED <<request, known, files, sweep, clock, captured>>

Stat(o) ==
  /\ Goto(o, "stat", IF marker[key(o)] = Never THEN "write" ELSE "touch")
  /\ UNCHANGED <<request, locks, files, sweep, clock, history>>

Write(o) ==
  /\ Answer(o, "write", "start", TRUE)
  /\ marker' = [marker EXCEPT ![key(o)] = now]
  /\ UNCHANGED <<request, locks, state, sweep, clock, history>>

\* The directory or the marker cannot be written: markSessionServed calls the
\* shell fresh.
MarkingFails(o) ==
  /\ \E pc \in {"stat", "write", "touch"} : Answer(o, pc, "start", TRUE)
  /\ spoiled' = spoiled \cup {key(o)}
  /\ UNCHANGED <<request, locks, files, sweep, clock, captured>>

\* A marker that is gone by now cannot be touched either.
Touch(o) ==
  LET k == key(o) IN
  /\ \/ /\ marker[k] # Never
        /\ Answer(o, "touch", "start", FALSE)
        /\ marker' = [marker EXCEPT ![k] = now]
     \/ /\ marker[k] = Never
        /\ Answer(o, "touch", "start", TRUE)
        /\ UNCHANGED marker
  /\ UNCHANGED <<request, locks, state, sweep, clock, history>>

\* A command starts by restoring the state; the file operations end here.
Start(o) ==
  /\ request[o].isCommand
  /\ Goto(o, "start", "command")
  /\ UNCHANGED <<request, locks, files, sweep, clock, history>>

\* The operation ends, a command having captured its state, or not when it is
\* killed at its deadline; the deferred unlock follows.
Finish(o) ==
  /\ Goto(o, IF request[o].isCommand THEN "command" ELSE "start", "done")
  /\ \/ UNCHANGED <<state, captured>>
     \/ /\ request[o].isCommand
        /\ state' = state \cup {key(o)}
        /\ captured' = captured \cup {key(o)}
  /\ holder' = [holder EXCEPT ![session(o)] = Free]
  /\ UNCHANGED <<request, known, marker, sweep, clock, spoiled>>

Step(o) ==
  \/ GetMutex(o) \/ Acquire(o) \/ Stat(o) \/ Write(o) \/ MarkingFails(o) \/ Touch(o)
  \/ Start(o) \/ Finish(o)

-----------------------------------------------------------------------------
(***************************************************************************)
(* Ledger.Sweep                                                            *)
(***************************************************************************)
SweepStarts ==
  /\ sweep.pc = "idle" /\ sweep.cutoff < now - TTL
  /\ sweep' = [NoSweep EXCEPT !.pc = "look", !.left = {k \in Keys : marker[k] # Never},
                              !.cutoff = now - TTL]
  /\ UNCHANGED <<request, op, locks, files, clock, history>>

\* entry.Info(): one that is gone or young is passed over.
SweepLooks ==
  /\ sweep.pc = "look"
  /\ \/ /\ sweep.left = {}
        /\ sweep' = [sweep EXCEPT !.pc = "idle"]
     \/ \E k \in sweep.left :
          IF marker[k] # Never /\ marker[k] < sweep.cutoff
          THEN sweep' = [sweep EXCEPT !.pc = "try", !.left = @ \ {k}, !.key = k]
          ELSE sweep' = [sweep EXCEPT !.left = @ \ {k}]
  /\ UNCHANGED <<request, op, locks, files, clock, history>>

\* The sweep does not mind a mutex that is held.
MutantMaySweep(s) == TRUE

MaySweep(s) == s \in known => holder[s] = Free

\* tryLockSession: a session without a mutex is swept without one.
SweepTries ==
  LET s == sweep.key.session IN
  /\ sweep.pc = "try"
  /\ \/ /\ MaySweep(s)
        /\ sweep' = [sweep EXCEPT !.pc = "state", !.isLocked = s \in known]
        /\ holder' = IF s \in known THEN [holder EXCEPT ![s] = Sweeper] ELSE holder
     \/ /\ ~MaySweep(s)
        /\ sweep' = [sweep EXCEPT !.pc = "look"]
        /\ UNCHANGED holder
  /\ UNCHANGED <<request, op, known, files, clock, history>>

\* The state of a marker is left behind.
MutantSwept(k) == state

Swept(k) == state \ {k}

\* Sweep ignores what RemoveAll and Remove return.
SweepsState ==
  /\ sweep.pc = "state"
  /\ sweep' = [sweep EXCEPT !.pc = "marker"]
  /\ \/ /\ state' = Swept(sweep.key)
        /\ UNCHANGED spoiled
     \/ /\ spoiled' = spoiled \cup {sweep.key}
        /\ UNCHANGED state
  /\ UNCHANGED <<request, op, locks, marker, clock, captured>>

\* A key removed whole and with the mutex held starts anew.
SweepsMarker ==
  LET k == sweep.key IN
  /\ sweep.pc = "marker"
  /\ sweep' = [sweep EXCEPT !.pc = "look", !.key = Never, !.isLocked = FALSE]
  /\ \/ /\ marker' = [marker EXCEPT ![k] = Never]
        /\ spoiled' = IF sweep.isLocked /\ k \notin state THEN spoiled \ {k} ELSE spoiled
     \/ /\ spoiled' = spoiled \cup {k}
        /\ UNCHANGED marker
  /\ holder' = IF sweep.isLocked THEN [holder EXCEPT ![k.session] = Free] ELSE holder
  /\ captured' = captured \ {k}
  /\ UNCHANGED <<request, op, known, state, clock>>

Sweep == SweepStarts \/ SweepLooks \/ SweepTries \/ SweepsState \/ SweepsMarker

-----------------------------------------------------------------------------
(***************************************************************************)
(* The environment                                                         *)
(***************************************************************************)
\* The daemon dies with its commands and starts again.  Between the two steps
\* of a removal it leaves a marker without its state.
Restart ==
  /\ restarts < MaxRestarts
  /\ restarts' = restarts + 1
  /\ op' = [o \in Ops |-> IF op[o].pc \in {"idle", "done"} THEN op[o]
                          ELSE [op[o] EXCEPT !.pc = "lost"]]
  /\ known' = {} /\ holder' = [s \in Sessions |-> Free]
  /\ sweep' = NoSweep
  /\ spoiled' = IF sweep.pc = "marker" THEN spoiled \cup {sweep.key} ELSE spoiled
  /\ UNCHANGED <<request, files, now, captured>>

TimePasses ==
  /\ now < MaxTime
  /\ now' = now + 1
  /\ UNCHANGED <<request, op, locks, files, sweep, restarts, history>>

Next == (\E o \in Ops : Step(o)) \/ Sweep \/ Restart \/ TimePasses

Spec == Init /\ [][Next]_vars

-----------------------------------------------------------------------------
(***************************************************************************)
(* Safety.  The ledger and the shell state may come to disagree on a key   *)
(* in four ways, which "spoiled" records: its marker could not be written, *)
(* its state or its marker could not be removed, the daemon died between   *)
(* the two, or the sweep removed them without a mutex under the first      *)
(* operation of a new process.  The two properties say there is no fifth.  *)
(***************************************************************************)
Answered(o) == op[o].pc \in {"start", "command"}

\* An operation that is told its shell is fresh finds no state of an earlier
\* one to restore, however it interleaves with the sweep.
FreshMeansNoState ==
  \A o \in Ops :
    (Answered(o) /\ op[o].isFresh /\ key(o) \notin spoiled) => key(o) \notin state

\* One that is told its shell resumes finds what was last captured: the sweep
\* never took it, before the answer or after.
ResumedFindsState ==
  \A o \in Ops :
    (Answered(o) /\ ~op[o].isFresh /\ key(o) \in captured \ spoiled) => key(o) \in state

-----------------------------------------------------------------------------
(***************************************************************************)
(* What a comment says and the code does not keep                          *)
(***************************************************************************)
\* ledger.go:124: "a sweep never stalls behind -- or tears state out from under
\* -- a command that is actually running".
NeverTornOut ==
  [][\A k \in state \ state' :
       \A o \in Ops : session(o) = k.session => op[o].pc # "command"]_vars
=============================================================================
