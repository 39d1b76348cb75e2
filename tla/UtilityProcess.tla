--------------------------- MODULE UtilityProcess ---------------------------
(***************************************************************************)
(* The one Claude Code process the calls of no conversation share:         *)
(* internal/claudepty/oneshot.go, Shutdown in process.go and completions   *)
(* in bridge.go, behind the admission of one-shots (cliround/manager.go)   *)
(* and before the mod that runs the completions (register.ts).             *)
(*                                                                         *)
(* The process is retired by a new pin, by its idle timer or by its death, *)
(* while calls may still hold it; whoever lets go of it last closes it.    *)
(* utilityMutex is held while a process starts and across no other step,   *)
(* so every other critical section is one step.                            *)
(***************************************************************************)
EXTENDS Naturals, FiniteSets

CONSTANTS
  Callers,      \* goroutines in OneShot
  MaxOneShot,   \* the one-shots admitted at once
  Parts,        \* the commands a prompt is split into, the last one included
  Pins,         \* the versions Claude Code is pinned to, one after another
  MaxStarts     \* bound on the one-shot processes started

ASSUME UtilityAssumption ==
  /\ MaxOneShot \in Nat \ {0} /\ Parts \in Nat \ {0} /\ Pins \in Nat \ {0}
  /\ MaxStarts \in Nat \ {0}
  /\ IsFiniteSet(Callers) /\ 0 \notin Callers

VARIABLES
  utilities,   \* every one-shot process started
  driver,      \* claudepty.Driver: the shared process, its mutex, and the pinned version
  callers,     \* the calls of OneShot
  admitted,    \* those that hold a one-shot slot
  mod          \* per process and id: the parts it collected, completions under way

vars == <<utilities, driver, callers, admitted, mod>>

-----------------------------------------------------------------------------
Ids == 1..MaxStarts
Requests == 1..Cardinality(Callers)  \* complete-<n>, numbered by each process

\* Not yet started; running; or closed, by the holder of none or by Shutdown.
Fates == {"none", "up", "dead", "closed", "shut"}

TypeOK ==
  /\ utilities \in [Ids -> [fate : Fates, holds : Nat, isRetired : BOOLEAN, version : 1..Pins,
                            isArmed : BOOLEAN, dropping : BOOLEAN, sequence : 0..Cardinality(Callers),
                            sender : Callers \cup {0}]]
  /\ driver \in [utility : 0..MaxStarts, lock : Callers \cup {0}, pinned : 1..Pins, isShut : BOOLEAN]
  /\ callers \in [Callers -> [pc : {"out", "for", "starting", "stale", "send", "sending", "await",
                                    "release", "leave", "done"},
                              utility : 0..MaxStarts, stale : 0..MaxStarts, id : 0..Cardinality(Callers),
                              sent : 0..Parts, reply : {"none", "own", "other"}]]
  /\ admitted \subseteq Callers
  /\ mod \in [Ids -> [Requests -> [parts : [Callers -> 0..Parts], running : BOOLEAN, awaited : Callers \cup {0}]]]

NoParts == [c \in Callers |-> 0]

Init ==
  /\ utilities = [u \in Ids |-> [fate |-> "none", holds |-> 0, isRetired |-> FALSE, version |-> 1,
                                 isArmed |-> FALSE, dropping |-> FALSE, sequence |-> 0, sender |-> 0]]
  /\ driver = [utility |-> 0, lock |-> 0, pinned |-> 1, isShut |-> FALSE]
  /\ callers = [c \in Callers |-> [pc |-> "out", utility |-> 0, stale |-> 0, id |-> 0, sent |-> 0,
                                   reply |-> "none"]]
  /\ admitted = {}
  /\ mod = [u \in Ids |-> [i \in Requests |-> [parts |-> NoParts, running |-> FALSE, awaited |-> 0]]]

-----------------------------------------------------------------------------
(***************************************************************************)
(* Admission (cliround.Manager)                                            *)
(***************************************************************************)
Goes(c, pc) == callers' = [callers EXCEPT ![c].pc = pc]

Admit(c) ==
  /\ callers[c].pc = "out" /\ Cardinality(admitted) < MaxOneShot
  /\ admitted' = admitted \cup {c}
  /\ Goes(c, "for")
  /\ UNCHANGED <<utilities, driver, mod>>

\* No slot came free in time, or the caller gave up.
Busy(c) ==
  /\ callers[c].pc = "out"
  /\ Goes(c, "done")
  /\ UNCHANGED <<utilities, driver, admitted, mod>>

Leaves(c) ==
  /\ callers[c].pc = "leave"
  /\ admitted' = admitted \ {c}
  /\ Goes(c, "done")
  /\ UNCHANGED <<utilities, driver, mod>>

-----------------------------------------------------------------------------
(***************************************************************************)
(* utilityFor, releaseUtility, dropUtility, Shutdown                       *)
(***************************************************************************)
\* Only a process that runs and is not yet closed ends by being closed.
Closed(u, fate) == [u EXCEPT !.fate = IF @ = "up" THEN fate ELSE @, !.isArmed = FALSE]

Unlocked == driver.lock = 0
Usable(u) ==
  utilities[u].fate = "up" /\ utilities[u].version = driver.pinned /\ utilities[u].isArmed

UtilityForShared(c) ==
  /\ callers[c].pc = "for" /\ Unlocked
  /\ driver.utility # 0 /\ Usable(driver.utility)
  /\ utilities' = [utilities EXCEPT ![driver.utility].holds = @ + 1]
  /\ callers' = [callers EXCEPT ![c].pc = "send", ![c].utility = driver.utility]
  /\ UNCHANGED <<driver, admitted, mod>>

\* A process that is dead or of another version than the pin is retired; so is
\* one whose timer has just fired, and Reset then arms it once more.
Retired(u) ==
  [u EXCEPT !.isRetired = TRUE, !.isArmed = @ \/ (u.fate = "up" /\ u.version = driver.pinned)]

UtilityForNew(c) ==
  /\ callers[c].pc = "for" /\ Unlocked
  /\ LET u == driver.utility IN
     /\ u # 0 => ~Usable(u)
     /\ driver' = [driver EXCEPT !.utility = 0, !.lock = c]
     /\ IF u = 0 THEN UNCHANGED utilities
        ELSE utilities' = [utilities EXCEPT ![u] = Retired(@)]
     /\ callers' = [callers EXCEPT ![c].pc = "starting",
                      ![c].stale = IF u # 0 /\ utilities[u].holds = 0 THEN u ELSE 0]
  /\ UNCHANGED <<admitted, mod>>

\* The build cannot be installed: no process is looked for.
EnsureFails(c) ==
  /\ callers[c].pc = "for"
  /\ Goes(c, "leave")
  /\ UNCHANGED <<utilities, driver, admitted, mod>>

\* The mutex is released before the stale process is closed.
Starts(c) ==
  /\ callers[c].pc = "starting"
  /\ \E u \in Ids :
       /\ \A v \in Ids : utilities[v].fate = "none" <=> v >= u
       /\ utilities' = [utilities EXCEPT ![u] = [@ EXCEPT !.fate = "up", !.holds = 1,
                          !.version = driver.pinned, !.isArmed = TRUE]]
       /\ driver' = [driver EXCEPT !.utility = u, !.lock = 0]
       /\ callers' = [callers EXCEPT ![c].pc = "stale", ![c].utility = u]
  /\ UNCHANGED <<admitted, mod>>

StartFails(c) ==
  /\ callers[c].pc = "starting"
  /\ driver' = [driver EXCEPT !.lock = 0]
  /\ Goes(c, "stale")
  /\ UNCHANGED <<utilities, admitted, mod>>

ClosesStale(c) ==
  /\ callers[c].pc = "stale"
  /\ LET u == callers[c].stale IN
     IF u = 0 THEN UNCHANGED utilities
     ELSE utilities' = [utilities EXCEPT ![u] = Closed(@, "closed")]
  /\ callers' = [callers EXCEPT ![c].stale = 0,
                   ![c].pc = IF callers[c].utility = 0 THEN "leave" ELSE "send"]
  /\ UNCHANGED <<driver, admitted, mod>>

MutantRelease(c) ==
  /\ callers[c].pc = "release" /\ Unlocked
  /\ LET u == callers[c].utility IN
     utilities' = [utilities EXCEPT ![u].holds = @ - 1]
  /\ callers' = [callers EXCEPT ![c].pc = "leave", ![c].utility = 0]
  /\ UNCHANGED <<driver, admitted, mod>>

\* The last holder of a retired process closes it.
Release(c) ==
  /\ callers[c].pc = "release" /\ Unlocked
  /\ LET u == callers[c].utility
         left == [utilities[u] EXCEPT !.holds = @ - 1] IN
     utilities' = [utilities EXCEPT ![u] =
                     IF left.isRetired /\ left.holds = 0 THEN Closed(left, "closed") ELSE left]
  /\ callers' = [callers EXCEPT ![c].pc = "leave", ![c].utility = 0]
  /\ UNCHANGED <<driver, admitted, mod>>

TimerFires(u) ==
  /\ utilities[u].isArmed
  /\ utilities' = [utilities EXCEPT ![u].isArmed = FALSE, ![u].dropping = TRUE]
  /\ UNCHANGED <<driver, callers, admitted, mod>>

MutantDropUtility(u) ==
  /\ utilities[u].dropping /\ Unlocked
  /\ driver' = [driver EXCEPT !.utility = IF @ = u THEN 0 ELSE @]
  /\ utilities' = [utilities EXCEPT ![u] =
                     Closed([@ EXCEPT !.isRetired = TRUE, !.dropping = FALSE], "closed")]
  /\ UNCHANGED <<callers, admitted, mod>>

DropUtility(u) ==
  /\ utilities[u].dropping /\ Unlocked
  /\ driver' = [driver EXCEPT !.utility = IF @ = u THEN 0 ELSE @]
  /\ LET dropped == [utilities[u] EXCEPT !.isRetired = TRUE, !.dropping = FALSE] IN
     utilities' = [utilities EXCEPT ![u] = IF dropped.holds = 0 THEN Closed(dropped, "closed") ELSE dropped]
  /\ UNCHANGED <<callers, admitted, mod>>

\* The daemon stops: the shared process ends under whoever holds it.
Shutdown ==
  /\ ~driver.isShut /\ Unlocked
  /\ driver' = [driver EXCEPT !.utility = 0, !.isShut = TRUE]
  /\ IF driver.utility = 0 THEN UNCHANGED utilities
     ELSE utilities' = [utilities EXCEPT ![driver.utility] = Closed(@, "shut")]
  /\ UNCHANGED <<callers, admitted, mod>>

PinChanges ==
  /\ driver.pinned < Pins
  /\ driver' = [driver EXCEPT !.pinned = @ + 1]
  /\ UNCHANGED <<utilities, callers, admitted, mod>>

Dies(u) ==
  /\ utilities[u].fate = "up"
  /\ utilities' = [utilities EXCEPT ![u].fate = "dead"]
  /\ UNCHANGED <<driver, callers, admitted, mod>>

-----------------------------------------------------------------------------
(***************************************************************************)
(* One completion                                                          *)
(***************************************************************************)
\* partsMutex is taken; the completion gets an id of its own and is expected.
MutantTakesParts(c) ==
  /\ callers[c].pc = "send"
  /\ LET u == callers[c].utility IN
     /\ utilities[u].sender = 0
     /\ utilities' = [utilities EXCEPT ![u].sender = c, ![u].sequence = 1]
     /\ callers' = [callers EXCEPT ![c].pc = "sending", ![c].id = 1]
     /\ mod' = [mod EXCEPT ![u][1].awaited = c]
  /\ UNCHANGED <<driver, admitted>>

TakesParts(c) ==
  /\ callers[c].pc = "send"
  /\ LET u == callers[c].utility
         n == utilities[u].sequence + 1 IN
     /\ utilities[u].sender = 0
     /\ utilities' = [utilities EXCEPT ![u].sender = c, ![u].sequence = n]
     /\ callers' = [callers EXCEPT ![c].pc = "sending", ![c].id = n]
     /\ mod' = [mod EXCEPT ![u][n].awaited = c]
  /\ UNCHANGED <<driver, admitted>>

\* Every part but the last is acknowledged before the next; the last one is
\* the command to complete, and partsMutex is free as soon as it is queued.
SendsPart(c) ==
  /\ callers[c].pc = "sending"
  /\ LET u == callers[c].utility
         i == callers[c].id
         isLast == callers[c].sent = Parts - 1 IN
     /\ utilities[u].fate = "up"
     /\ mod' = [mod EXCEPT ![u][i].parts[c] = @ + 1, ![u][i].running = isLast]
     /\ callers' = [callers EXCEPT ![c].sent = @ + 1, ![c].pc = IF isLast THEN "await" ELSE @]
     /\ utilities' = IF isLast THEN [utilities EXCEPT ![u].sender = 0] ELSE utilities
  /\ UNCHANGED <<driver, admitted>>

\* The deadline, or the exit of the process: the parts that were sent stay
\* with the mod, under an id that is not used again.
SendFails(c) ==
  /\ callers[c].pc = "sending"
  /\ LET u == callers[c].utility IN
     /\ utilities' = [utilities EXCEPT ![u].sender = 0]
     /\ mod' = [mod EXCEPT ![u][callers[c].id].awaited = 0]
  /\ Goes(c, "release")
  /\ UNCHANGED <<driver, admitted>>

\* model.complete ends and its result is posted once; the post may be lost.
Completes(u, i) ==
  /\ mod[u][i].running /\ utilities[u].fate = "up"
  /\ mod' = [mod EXCEPT ![u][i].running = FALSE, ![u][i].parts = NoParts]
  /\ \/ UNCHANGED callers
     \/ LET c == mod[u][i].awaited IN
        /\ c # 0 /\ callers[c].reply = "none"
        /\ callers' = [callers EXCEPT ![c].reply =
             IF mod[u][i].parts = [NoParts EXCEPT ![c] = Parts] THEN "own" ELSE "other"]
  /\ UNCHANGED <<utilities, driver, admitted>>

\* The reply, the exit of the process or the deadline.
Returns(c) ==
  /\ callers[c].pc = "await"
  /\ mod' = [mod EXCEPT ![callers[c].utility][callers[c].id].awaited = 0]
  /\ Goes(c, "release")
  /\ UNCHANGED <<utilities, driver, admitted>>

-----------------------------------------------------------------------------
Next ==
  \/ \E c \in Callers :
       \/ Admit(c) \/ Busy(c) \/ Leaves(c)
       \/ UtilityForShared(c) \/ UtilityForNew(c) \/ EnsureFails(c) \/ Starts(c) \/ StartFails(c)
       \/ ClosesStale(c) \/ Release(c)
       \/ TakesParts(c) \/ SendsPart(c) \/ SendFails(c) \/ Returns(c)
  \/ \E u \in Ids : TimerFires(u) \/ DropUtility(u) \/ Dies(u) \/ \E i \in Requests : Completes(u, i)
  \/ Shutdown \/ PinChanges

Spec == Init /\ [][Next]_vars

-----------------------------------------------------------------------------
(***************************************************************************)
(* Properties                                                              *)
(***************************************************************************)
Using(c, u) == callers[c].utility = u /\ callers[c].pc \in {"send", "sending", "await", "release"}

\* Neither a new pin nor the idle timer nor another call's release closes a
\* process under a call that holds it; only Shutdown does.
NeverClosedUnderACall ==
  \A u \in Ids : utilities[u].fate = "closed" => \A c \in Callers : ~Using(c, u)

\* A process that runs is the shared one, or has a holder or a caller left
\* that will close it: none is left running for the life of the daemon.
NoneLeftRunning ==
  \A u \in Ids : utilities[u].fate = "up" =>
    \/ driver.utility = u
    \/ utilities[u].isRetired /\ (utilities[u].holds > 0 \/ \E c \in Callers : callers[c].stale = u)

\* The reply a call gets is for its own prompt, and for all of it, whatever
\* calls that gave up left behind in the shared process.
AnswersOwnPrompt == \A c \in Callers : callers[c].reply # "other"
=============================================================================
