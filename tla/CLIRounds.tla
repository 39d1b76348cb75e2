----------------------------- MODULE CLIRounds -----------------------------
(***************************************************************************)
(* The session manager of internal/cliround/manager.go for one harness:    *)
(* one warm CLI session ("runner") per conversation, at most MaxWarm of    *)
(* them, one round at a time in each.                                      *)
(*                                                                         *)
(* Every goroutine inside Manager.Round is a member of Rounds with a       *)
(* program counter; one action is one critical section of m.mutex or of an *)
(* entry's lock.  Steps that touch only what the holder of an entry's lock *)
(* owns are folded into the critical section next to them.                 *)
(*                                                                         *)
(* Usage is followed as indivisible units: what a CLI runs up between      *)
(* rounds or flushes when it is closed.  A round's own usage travels       *)
(* inside its result and is not modelled.                                  *)
(*                                                                         *)
(* An operator whose name starts with "Mutant" is a wrong version of the   *)
(* definition below it, there to show that a property notices; no action   *)
(* uses it.                                                                *)
(***************************************************************************)
EXTENDS Integers, FiniteSets

CONSTANTS
  Rounds,         \* the calls of Manager.Round; each runs once
  Conversations,
  Entries,        \* entry objects that may be allocated (bounds re-creation)
  Units,          \* pieces of usage that may be spent outside a round
  Requests,       \* the functions Rounds -> [conversation, fence] to explore
  MaxWarm,        \* Limits.MaxWarm
  IdleLimit,      \* Limits.IdleLimit, in clock ticks
  TombstoneTTL,   \* tombstoneTTL, in clock ticks
  MaxTime,        \* bound on the clock
  Impatient,      \* the rounds whose caller may leave (bounds CallerGone)
  Sweeper, Free, None   \* the sweep goroutine, a lock nobody holds, nil

ASSUME LimitsAssumption ==
  /\ MaxWarm \in Nat \ {0}
  /\ IdleLimit \in Nat /\ TombstoneTTL \in Nat /\ MaxTime \in Nat

ASSUME RoundsAssumption ==
  /\ IsFiniteSet(Rounds) /\ IsFiniteSet(Entries)
  /\ Impatient \subseteq Rounds
  /\ Requests \subseteq [Rounds -> [conversation : Conversations, fence : Int]]

ASSUME NamesAssumption ==
  /\ Sweeper \notin Rounds
  /\ Free \notin Rounds \cup {Sweeper}
  /\ None \notin Rounds \cup Entries

VARIABLES
  closed,     \* Manager.closed
  table,      \* table.entries: the entry of each conversation, or None
  live,       \* table.live
  reserved,   \* table.reserved
  woken,      \* rounds whose copy of table.slotFreed has been closed
  entry,      \* the entries, and the usage inside each one's runner
  request,    \* what each round asks
  round,      \* the locals of each round
  cause,      \* context.Cause of each round's context
  sweep,      \* the sweep goroutine
  dying,      \* entries whose runner Close took and has still to close
  now,        \* the clock
  spent, billed   \* history: usage run up, usage in a result Platform counts

pool == <<live, reserved, woken>>
usage == <<spent, billed>>
outside == <<request, now>>
vars == <<closed, table, pool, entry, round, cause, sweep, dying, outside, usage>>

-----------------------------------------------------------------------------
RunnerStates == {"idle", "waiting", "running", "dirty"}
Outcomes == {"tool_calls", "answer", "length", "refused"}

\* With the lock of its entry, and from beginRound on.
Running == {"plan", "replace", "closeOld", "steps", "extend", "reserve", "evict",
            "closeVictim", "waitSlot", "start", "fail", "finish", "deliver", "settle",
            "end"}
Owning == {"check", "begin"} \cup Running

Places == {"enter", "acquire", "done"} \cup Owning
Answers == {"none", "superseded", "shutdown", "gone", "busy", "failed", "delivered"}
Holders == Rounds \cup {Sweeper, Free}

EntryRecord ==
  [lock : Holders,                            \* who holds entry.lock
   runner : RunnerStates \cup {"none"},       \* entry.runner.State(), or no runner
   lastUsed : Nat, highestFence : Int, dirty : BOOLEAN, removed : BOOLEAN,
   cancelRound : Rounds \cup {None},          \* the round it would cancel
   carried : SUBSET Units,                    \* carriedUsage
   gathered : SUBSET Units]                   \* in the runner

RoundRecord ==
  [pc : Places,
   entry : Entries \cup {None},
   warm : BOOLEAN,                            \* state.runner # nil
   holdsSlot : BOOLEAN,                       \* one unit of reserved is its own
   isRebuiltOnce : BOOLEAN,
   victim : Entries \cup {None},              \* the entry it evicts, lock taken
   outcome : Outcomes \cup {"none"},
   usage : SUBSET Units,                      \* carry added to the result
   answer : Answers]

SweepRecord ==
  [pc : {"idle", "choose", "judge", "drop", "dropped", "remove"},
   targets : SUBSET Entries, entry : Entries \cup {None}, now : Nat]

TypeOK ==
  /\ closed \in BOOLEAN
  /\ table \in [Conversations -> Entries \cup {None}]
  /\ live \in Nat /\ reserved \in Nat /\ woken \subseteq Rounds
  /\ entry \in [Entries -> EntryRecord]
  /\ request \in [Rounds -> [conversation : Conversations, fence : Int]]
  /\ round \in [Rounds -> RoundRecord]
  /\ cause \in [Rounds -> {"none", "gone", "superseded", "shutdown"}]
  /\ sweep \in SweepRecord
  /\ dying \subseteq Entries
  /\ now \in Nat
  /\ spent \subseteq Units /\ billed \subseteq Units

FreshEntry ==
  [lock |-> Free, runner |-> "none", lastUsed |-> 0, highestFence |-> 0,
   dirty |-> FALSE, removed |-> FALSE, cancelRound |-> None, carried |-> {},
   gathered |-> {}]

FreshRound ==
  [pc |-> "enter", entry |-> None, warm |-> FALSE, holdsSlot |-> FALSE,
   isRebuiltOnce |-> FALSE, victim |-> None, outcome |-> "none", usage |-> {},
   answer |-> "none"]

Init ==
  /\ closed = FALSE
  /\ table = [c \in Conversations |-> None]
  /\ live = 0 /\ reserved = 0 /\ woken = {}
  /\ entry = [e \in Entries |-> FreshEntry]
  /\ request \in Requests
  /\ round = [r \in Rounds |-> FreshRound]
  /\ cause = [r \in Rounds |-> "none"]
  /\ sweep = [pc |-> "idle", targets |-> {}, entry |-> None, now |-> 0]
  /\ dying = {} /\ now = 0 /\ spent = {} /\ billed = {}

-----------------------------------------------------------------------------
(***************************************************************************)
(* Helpers                                                                 *)
(***************************************************************************)
conversation(r) == request[r].conversation
fence(r) == request[r].fence

Tabled == {e \in Entries : \E c \in Conversations : table[c] = e}
Warm == {e \in Entries : entry[e].runner # "none"}
SlotHolders == {r \in Rounds : round[r].holdsSlot}

At(r, at) == round[r].pc = at
Goto(r, from, to) == At(r, from) /\ round' = [round EXCEPT ![r].pc = to]
Return(r, from, to, what) ==
  At(r, from) /\ round' = [round EXCEPT ![r].pc = to, ![r].answer = what]
Release(e) == entry' = [entry EXCEPT ![e].lock = Free]

\* A context is cancelled once: the first cause stays.
Cancelled(rs, why) ==
  [r \in Rounds |-> IF r \in rs /\ cause[r] = "none" THEN why ELSE cause[r]]

\* freeSlotLocked: everyone waiting in reserveSlot holds the closed channel.
FreeSlot == woken' = woken \cup {r \in Rounds : At(r, "waitSlot")}

\* The victim's lock is not taken.
MutantEvictable(own, states) == {e \in Tabled \ {own} : entry[e].runner \in states}

Evictable(own, states) ==
  {e \in Tabled \ {own} : entry[e].runner \in states /\ entry[e].lock = Free}

\* pickVictimLocked: least recently used first, waiting sessions only when no
\* idle or dirty one can be locked.
Victims(own) ==
  LET idle == Evictable(own, {"idle", "dirty"})
      candidates == IF idle # {} THEN idle ELSE Evictable(own, {"waiting"})
  IN  {e \in candidates : \A f \in candidates : entry[e].lastUsed <= entry[f].lastUsed}

\* Off by one.
MutantHasRoom == live + reserved <= MaxWarm

HasRoom == live + reserved < MaxWarm

CountDetached(e) == live' = IF e \in Warm THEN live - 1 ELSE live

\* detachRunner up to the unlock, for a caller that frees the slot.  The
\* runner is closed in a step of its own.
DetachAndFree(e) ==
  /\ entry' = [entry EXCEPT ![e].runner = "none", ![e].dirty = FALSE]
  /\ CountDetached(e)
  /\ IF e \in Warm THEN FreeSlot ELSE UNCHANGED woken
  /\ UNCHANGED reserved

\* What the runner had gathered is not taken.
MutantGatheredBy(e) == {}

GatheredBy(e) == entry[e].gathered

\* The entry after detachRunner has taken the usage of the runner, flushed by
\* closing it or not, and carried it over.
Carrying(e, flushed) ==
  [entry[e] EXCEPT !.carried = @ \cup GatheredBy(e) \cup flushed, !.gathered = {}]

\* What State() answers once a step has ended with this outcome.
StateAfter(what) ==
  CASE what = "tool_calls" -> "waiting"
    [] what = "answer" -> "idle"
    [] OTHER -> "dirty"

\* The runner, if Close has not taken it, goes to a state.
SetState(e, what) ==
  entry' = [entry EXCEPT ![e].runner = IF @ = "none" THEN @ ELSE what]

-----------------------------------------------------------------------------
(***************************************************************************)
(* Round: entering, the fence and the entry's lock                         *)
(***************************************************************************)
\* Entries nobody has used yet.
Unused == {e \in Entries \ Tabled : ~entry[e].removed}

EntryFor(c) == IF table[c] # None THEN {table[c]} ELSE Unused

EnterClosed(r) ==
  /\ closed
  /\ Return(r, "enter", "done", "shutdown")
  /\ UNCHANGED <<closed, table, pool, entry, cause, sweep, dying, outside, usage>>

\* A lower fence than one already seen is superseded at once; otherwise the
\* fence is raised and the round still running is cancelled.
Enter(r) ==
  /\ ~closed
  /\ \E e \in EntryFor(conversation(r)) :
       LET used == IF e \in Unused THEN [entry EXCEPT ![e].lastUsed = now] ELSE entry
       IN
       /\ table' = [table EXCEPT ![conversation(r)] = e]
       /\ \/ /\ fence(r) < entry[e].highestFence
             /\ Return(r, "enter", "done", "superseded")
             /\ entry' = used
             /\ UNCHANGED cause
          \/ /\ fence(r) >= entry[e].highestFence
             /\ At(r, "enter")
             /\ round' = [round EXCEPT ![r].pc = "acquire", ![r].entry = e]
             /\ entry' = [used EXCEPT ![e].highestFence = fence(r)]
             /\ cause' = Cancelled({entry[e].cancelRound}, "superseded")
  /\ UNCHANGED <<closed, pool, sweep, dying, outside, usage>>

Acquire(r) ==
  LET e == round[r].entry IN
  /\ Goto(r, "acquire", "check")
  /\ entry[e].lock = Free
  /\ entry' = [entry EXCEPT ![e].lock = r]
  /\ UNCHANGED <<closed, table, pool, cause, sweep, dying, outside, usage>>

AcquireGivesUp(r) ==
  /\ cause[r] = "gone"
  /\ Return(r, "acquire", "done", "gone")
  /\ UNCHANGED <<closed, table, pool, entry, cause, sweep, dying, outside, usage>>

\* The fence is only looked at on entering, not again with the lock.
MutantIsSuperseded(r) == FALSE

IsSuperseded(r) == fence(r) < entry[round[r].entry].highestFence

\* The round runs on an entry the sweep has taken out of the table.
MutantIsRemoved(r) == FALSE

IsRemoved(r) == entry[round[r].entry].removed

\* With the lock: superseded rounds leave, a removed entry sends the round
\* back to enter, everyone else goes on to beginRound.
Check(r) ==
  /\ At(r, "check")
  /\ \/ /\ IsSuperseded(r)
        /\ Return(r, "check", "done", "superseded")
        /\ Release(round[r].entry)
     \/ /\ ~IsSuperseded(r) /\ IsRemoved(r)
        /\ Goto(r, "check", "enter")
        /\ Release(round[r].entry)
     \/ /\ ~IsSuperseded(r) /\ ~IsRemoved(r)
        /\ Goto(r, "check", "begin")
        /\ UNCHANGED entry
  /\ UNCHANGED <<closed, table, pool, cause, sweep, dying, outside, usage>>

-----------------------------------------------------------------------------
(***************************************************************************)
(* runRound: beginRound and planRound                                      *)
(***************************************************************************)
BeginRound(r) ==
  /\ Goto(r, "begin", "plan")
  /\ entry' = [entry EXCEPT ![round[r].entry].cancelRound = r]
  /\ UNCHANGED <<closed, table, pool, cause, sweep, dying, outside, usage>>

\* Without a runner, rebuild.  With one, TakeCarried and addCarry come first;
\* then it is kept when neither flag says dirty and Reconcile answers "none",
\* and otherwise (a dirty session, or any reason of Reconcile's) replaced.
PlanRound(r) ==
  LET e == round[r].entry IN
  /\ At(r, "plan")
  /\ \/ e \notin Warm /\ Goto(r, "plan", "steps") /\ UNCHANGED entry
     \/ /\ e \in Warm
        /\ entry' = [entry EXCEPT ![e] = Carrying(e, {})]
        /\ \/ /\ entry[e].runner # "dirty" /\ ~entry[e].dirty
              /\ round' = [round EXCEPT ![r].pc = "steps", ![r].warm = TRUE]
           \/ Goto(r, "plan", "replace")
  /\ UNCHANGED <<closed, table, pool, cause, sweep, dying, outside, usage>>

\* replaceRunner, from the plan or from the retry in runSteps: the slot stays
\* reserved for this round.
Replace(r) ==
  LET e == round[r].entry
      has == e \in Warm
  IN
  /\ At(r, "replace")
  /\ entry' = [entry EXCEPT ![e].runner = "none", ![e].dirty = FALSE]
  /\ CountDetached(e)
  /\ reserved' = IF has THEN reserved + 1 ELSE reserved
  /\ round' = [round EXCEPT ![r].pc = IF has THEN "closeOld" ELSE "steps",
                            ![r].warm = FALSE, ![r].holdsSlot = has]
  /\ UNCHANGED <<closed, table, woken, cause, sweep, dying, outside, usage>>

CloseOld(r) ==
  LET e == round[r].entry IN
  /\ Goto(r, "closeOld", "steps")
  /\ \E flushed \in SUBSET (Units \ spent) :
       /\ spent' = spent \cup flushed
       /\ entry' = [entry EXCEPT ![e] = Carrying(e, flushed)]
  /\ UNCHANGED <<closed, table, pool, cause, sweep, dying, outside, billed>>

-----------------------------------------------------------------------------
(***************************************************************************)
(* runSteps: extend, or reserve a slot and rebuild                         *)
(***************************************************************************)
\* budgetsFor: the deadline has passed.  A context cancelled for another cause
\* keeps its deadline, which may pass as well.
OutOfBudget(r) ==
  /\ cause[r] # "none"
  /\ Return(r, "steps", "fail", "gone")
  /\ UNCHANGED <<closed, table, pool, entry, cause, sweep, dying, outside, usage>>

ExtendStarts(r) ==
  /\ round[r].warm
  /\ Goto(r, "steps", "extend")
  /\ SetState(round[r].entry, "running")
  /\ UNCHANGED <<closed, table, pool, cause, sweep, dying, outside, usage>>

ExtendEnds(r) ==
  /\ At(r, "extend")
  /\ \E what \in Outcomes :
       /\ round' = [round EXCEPT ![r].pc = "finish", ![r].outcome = what]
       /\ SetState(round[r].entry, StateAfter(what))
  /\ UNCHANGED <<closed, table, pool, cause, sweep, dying, outside, usage>>

\* ErrContextFull and ErrSessionDirty are retried with a rebuild, once; any
\* other error ends the round.  The runner is left dirty.
ExtendFails(r) ==
  /\ \/ Return(r, "extend", "fail", "failed")
     \/ /\ At(r, "extend") /\ ~round[r].isRebuiltOnce
        /\ round' = [round EXCEPT ![r].pc = "replace", ![r].isRebuiltOnce = TRUE]
  /\ SetState(round[r].entry, "dirty")
  /\ UNCHANGED <<closed, table, pool, cause, sweep, dying, outside, usage>>

\* A slot already held leads straight to the factory.
Rebuild(r) ==
  /\ ~round[r].warm
  /\ Goto(r, "steps", IF round[r].holdsSlot THEN "start" ELSE "reserve")
  /\ UNCHANGED <<closed, table, pool, entry, cause, sweep, dying, outside, usage>>

\* The three ways through one turn of reserveSlot's loop.
ReserveFree(r) ==
  /\ At(r, "reserve")
  /\ HasRoom
  /\ reserved' = reserved + 1
  /\ round' = [round EXCEPT ![r].pc = "start", ![r].holdsSlot = TRUE]
  /\ UNCHANGED <<closed, table, live, woken, entry, cause, sweep, dying, outside, usage>>

ReserveEvicts(r) ==
  /\ At(r, "reserve")
  /\ ~HasRoom
  /\ \E e \in Victims(round[r].entry) :
       /\ entry' = [entry EXCEPT ![e].lock = r]
       /\ round' = [round EXCEPT ![r].pc = "evict", ![r].victim = e]
  /\ UNCHANGED <<closed, table, pool, cause, sweep, dying, outside, usage>>

ReserveWaits(r) ==
  /\ Goto(r, "reserve", "waitSlot")
  /\ ~HasRoom /\ Victims(round[r].entry) = {}
  /\ woken' = woken \ {r}
  /\ UNCHANGED <<closed, table, live, reserved, entry, cause, sweep, dying, outside, usage>>

\* dropRunner(victim), then its close and the release of its lock.
Evict(r) ==
  /\ Goto(r, "evict", "closeVictim")
  /\ DetachAndFree(round[r].victim)
  /\ UNCHANGED <<closed, table, cause, sweep, dying, outside, usage>>

CloseVictim(r) ==
  LET e == round[r].victim IN
  /\ At(r, "closeVictim")
  /\ round' = [round EXCEPT ![r].pc = "reserve", ![r].victim = None]
  /\ \E flushed \in SUBSET (Units \ spent) :
       /\ spent' = spent \cup flushed
       /\ entry' = [entry EXCEPT ![e] = [Carrying(e, flushed) EXCEPT !.lock = Free]]
  /\ UNCHANGED <<closed, table, pool, cause, sweep, dying, outside, billed>>

Woken(r) ==
  /\ r \in woken
  /\ Goto(r, "waitSlot", "reserve")
  /\ UNCHANGED <<closed, table, pool, entry, cause, sweep, dying, outside, usage>>

\* A wait without a timer.
MutantSlotTimeout(r) == FALSE

\* The 30 s timer fires.
SlotTimeout(r) ==
  /\ Return(r, "waitSlot", "fail", "busy")
  /\ UNCHANGED <<closed, table, pool, entry, cause, sweep, dying, outside, usage>>

SlotCancelled(r) ==
  /\ cause[r] # "none"
  /\ Return(r, "waitSlot", "fail", cause[r])
  /\ UNCHANGED <<closed, table, pool, entry, cause, sweep, dying, outside, usage>>

\* A start that ends after Close is kept.
MutantMayInstall == TRUE

MayInstall == ~closed

\* The factory came back with a runner, which is installed ...
FactoryStarts(r) ==
  /\ At(r, "start")
  /\ MayInstall
  /\ reserved' = reserved - 1
  /\ live' = live + 1
  /\ \E what \in Outcomes :
       /\ round' = [round EXCEPT ![r].pc = "finish", ![r].outcome = what,
                                 ![r].warm = TRUE, ![r].holdsSlot = FALSE]
       /\ entry' = [entry EXCEPT ![round[r].entry].runner = StateAfter(what)]
  /\ UNCHANGED <<closed, table, woken, cause, sweep, dying, outside, usage>>

\* ... or failed: with ErrContextFull it is tried once more, from the top and
\* without a slot.  A runner started for a manager closed meanwhile is closed
\* at once.
FactoryFails(r) ==
  /\ At(r, "start")
  /\ reserved' = reserved - 1
  /\ FreeSlot
  /\ \/ \E why \in {"failed"} \cup (IF MayInstall THEN {} ELSE {"shutdown"}) :
          round' = [round EXCEPT ![r].pc = "fail", ![r].holdsSlot = FALSE,
                                 ![r].answer = why]
     \/ /\ ~round[r].isRebuiltOnce
        /\ round' = [round EXCEPT ![r].pc = "replace", ![r].holdsSlot = FALSE,
                                  ![r].isRebuiltOnce = TRUE]
  /\ UNCHANGED <<closed, table, live, entry, cause, sweep, dying, outside, usage>>

-----------------------------------------------------------------------------
(***************************************************************************)
(* The end of runRound                                                     *)
(***************************************************************************)
\* failRound: a round that still has a runner leaves its session dirty.
FailRound(r) ==
  /\ Return(r, "fail", "end",
            IF cause[r] = "superseded" THEN "superseded" ELSE round[r].answer)
  /\ entry' = [entry EXCEPT ![round[r].entry].dirty = @ \/ round[r].warm]
  /\ UNCHANGED <<closed, table, pool, cause, sweep, dying, outside, usage>>

\* finishRound: the carried usage is added to the result, and kept.
FinishRound(r) ==
  LET e == round[r].entry IN
  /\ At(r, "finish")
  /\ entry' = [entry EXCEPT ![e].dirty = round[r].outcome \notin {"tool_calls", "answer"}]
  /\ round' = [round EXCEPT ![r].pc = "deliver", ![r].usage = entry[e].carried]
  /\ UNCHANGED <<closed, table, pool, cause, sweep, dying, outside, usage>>

\* Platform throws a refused result away, usage and all.
Deliver(r) ==
  /\ Return(r, "deliver", "settle", "delivered")
  /\ billed' = IF round[r].outcome = "refused" THEN billed ELSE billed \cup round[r].usage
  /\ UNCHANGED <<closed, table, pool, entry, cause, sweep, dying, outside, spent>>

DeliverFails(r) ==
  /\ Return(r, "deliver", "end", "failed")
  /\ entry' = [entry EXCEPT ![round[r].entry].dirty = TRUE]
  /\ UNCHANGED <<closed, table, pool, cause, sweep, dying, outside, usage>>

\* The carry is kept although the result that has it was delivered.
MutantSettledCarry(r) == entry[round[r].entry].carried

SettledCarry(r) ==
  IF round[r].outcome = "refused" THEN entry[round[r].entry].carried ELSE {}

SettleCarry(r) ==
  /\ Goto(r, "settle", "end")
  /\ entry' = [entry EXCEPT ![round[r].entry].carried = SettledCarry(r)]
  /\ UNCHANGED <<closed, table, pool, cause, sweep, dying, outside, usage>>

\* A slot kept for a rebuild that never came stays reserved.
MutantReleaseHeldSlot(r) == UNCHANGED <<reserved, woken>>

ReleaseHeldSlot(r) ==
  IF round[r].holdsSlot THEN reserved' = reserved - 1 /\ FreeSlot
                        ELSE UNCHANGED <<reserved, woken>>

\* The deferred calls: releaseHeldSlot, endRound and the release of the lock.
\* Of a goroutine that has returned only the entry and the answer are kept.
EndRound(r) ==
  LET e == round[r].entry IN
  /\ At(r, "end")
  /\ ReleaseHeldSlot(r)
  /\ entry' = [entry EXCEPT ![e].cancelRound = None, ![e].lastUsed = now,
                            ![e].lock = Free]
  /\ round' = [round EXCEPT ![r] = [FreshRound EXCEPT !.pc = "done", !.entry = e,
                                                      !.answer = round[r].answer]]
  /\ cause' = [cause EXCEPT ![r] = "none"]
  /\ UNCHANGED <<closed, table, live, sweep, dying, outside, usage>>

-----------------------------------------------------------------------------
(***************************************************************************)
(* Sweep and Close                                                         *)
(***************************************************************************)
SweepGoto(from, to) == sweep.pc = from /\ sweep' = [sweep EXCEPT !.pc = to]

\* A tick of the sweep's ticker: the snapshot of the table and the time the
\* sweep judges by.
SweepStarts ==
  /\ sweep.pc = "idle" /\ sweep.now < now
  /\ sweep' = [pc |-> "choose", targets |-> Tabled, entry |-> None, now |-> now]
  /\ UNCHANGED <<closed, table, pool, entry, round, cause, dying, outside, usage>>

\* The sweep judges a session whoever holds its lock.
MutantMayTake(e) == TRUE

MayTake(e) == entry[e].lock = Free

\* tryAcquire on the next target.
SweepChooses ==
  /\ sweep.pc = "choose"
  /\ \/ /\ sweep.targets = {}
        /\ sweep' = [sweep EXCEPT !.pc = "idle"]
        /\ UNCHANGED entry
     \/ \E e \in sweep.targets :
          IF MayTake(e)
          THEN /\ sweep' = [sweep EXCEPT !.pc = "judge", !.targets = @ \ {e}, !.entry = e]
               /\ entry' = [entry EXCEPT ![e].lock = Sweeper]
          ELSE /\ sweep' = [sweep EXCEPT !.targets = @ \ {e}]
               /\ UNCHANGED entry
  /\ UNCHANGED <<closed, table, pool, round, cause, dying, outside, usage>>

SweepJudges ==
  LET e == sweep.entry
      idleFor == sweep.now - entry[e].lastUsed
      isIdle == e \in Warm /\ idleFor > IdleLimit
      isForgotten == e \notin Warm /\ idleFor > TombstoneTTL
  IN
  /\ sweep.pc = "judge"
  /\ \/ isIdle /\ SweepGoto("judge", "drop") /\ UNCHANGED entry
     \/ isForgotten /\ SweepGoto("judge", "remove") /\ UNCHANGED entry
     \/ ~isIdle /\ ~isForgotten /\ SweepGoto("judge", "choose") /\ Release(e)
  /\ UNCHANGED <<closed, table, pool, round, cause, dying, outside, usage>>

\* dropRunner, and then its close, the new lastUsed and the release.
SweepDrops ==
  /\ SweepGoto("drop", "dropped")
  /\ DetachAndFree(sweep.entry)
  /\ UNCHANGED <<closed, table, round, cause, dying, outside, usage>>

SweepDropped ==
  LET e == sweep.entry IN
  /\ SweepGoto("dropped", "choose")
  /\ \E flushed \in SUBSET (Units \ spent) :
       /\ spent' = spent \cup flushed
       /\ entry' = [entry EXCEPT ![e] = [Carrying(e, flushed) EXCEPT
                                           !.lastUsed = sweep.now, !.lock = Free]]
  /\ UNCHANGED <<closed, table, pool, round, cause, dying, outside, billed>>

\* The conversation is forgotten, its fence and its carried usage with it.
SweepRemoves ==
  LET e == sweep.entry IN
  /\ SweepGoto("remove", "choose")
  /\ entry' = [entry EXCEPT ![e].removed = TRUE, ![e].lock = Free]
  /\ table' = [c \in Conversations |-> IF table[c] = e THEN None ELSE table[c]]
  /\ UNCHANGED <<closed, pool, round, cause, dying, outside, usage>>

Sweep == \/ SweepStarts \/ SweepChooses \/ SweepJudges
         \/ SweepDrops \/ SweepDropped \/ SweepRemoves

\* Close takes every runner at once and cancels the rounds begun.  The daemon
\* calls it when its last stream has ended, so each round's caller is gone.
Close ==
  /\ ~closed
  /\ \A r \in Rounds : At(r, "done") \/ cause[r] # "none"
  /\ closed' = TRUE
  /\ cause' = Cancelled({entry[e].cancelRound : e \in Tabled}, "shutdown")
  /\ dying' = Warm
  /\ live' = 0
  /\ entry' = [e \in Entries |->
                 IF e \in Warm THEN [entry[e] EXCEPT !.runner = "none", !.gathered = {}]
                 ELSE entry[e]]
  /\ UNCHANGED <<table, reserved, woken, round, sweep, outside, usage>>

\* ... and closes them after the unlock, throwing away what they flush.
CloseRunner(e) ==
  /\ e \in dying
  /\ dying' = dying \ {e}
  /\ UNCHANGED <<closed, table, pool, entry, round, cause, sweep, outside, usage>>

-----------------------------------------------------------------------------
(***************************************************************************)
(* The environment: callers, CLIs and the clock                            *)
(***************************************************************************)
\* A caller's deadline passes or its stream ends.
CallerGone(r) ==
  /\ r \in Impatient /\ ~At(r, "done") /\ cause[r] = "none"
  /\ cause' = [cause EXCEPT ![r] = "gone"]
  /\ UNCHANGED <<closed, table, pool, entry, round, sweep, dying, outside, usage>>

\* A warm session is disturbed: the CLI exits, or acts out of turn.
Disturb(e) ==
  /\ entry[e].runner \in {"idle", "waiting", "running"}
  /\ SetState(e, "dirty")
  /\ UNCHANGED <<closed, table, pool, round, cause, sweep, dying, outside, usage>>

\* A warm session runs up usage no round reports.
Gather(e) ==
  /\ e \in Warm
  /\ \E u \in Units \ spent :
       /\ spent' = spent \cup {u}
       /\ entry' = [entry EXCEPT ![e].gathered = @ \cup {u}]
  /\ UNCHANGED <<closed, table, pool, round, cause, sweep, dying, outside, billed>>

TimePasses ==
  /\ now < MaxTime
  /\ now' = now + 1
  /\ UNCHANGED <<closed, table, pool, entry, round, cause, sweep, dying, request, usage>>

-----------------------------------------------------------------------------
\* What a round's goroutine does but for waiting on the entry's lock.
Step(r) ==
  \/ EnterClosed(r) \/ Enter(r) \/ AcquireGivesUp(r) \/ Check(r)
  \/ BeginRound(r) \/ PlanRound(r) \/ Replace(r) \/ CloseOld(r)
  \/ OutOfBudget(r) \/ ExtendStarts(r) \/ ExtendEnds(r) \/ ExtendFails(r) \/ Rebuild(r)
  \/ ReserveFree(r) \/ ReserveEvicts(r) \/ ReserveWaits(r) \/ Evict(r) \/ CloseVictim(r)
  \/ Woken(r) \/ SlotTimeout(r) \/ SlotCancelled(r) \/ FactoryStarts(r) \/ FactoryFails(r)
  \/ FailRound(r) \/ FinishRound(r) \/ Deliver(r) \/ DeliverFails(r) \/ SettleCarry(r)
  \/ EndRound(r)

Next ==
  \/ \E r \in Rounds : Step(r) \/ Acquire(r) \/ CallerGone(r)
  \/ \E e \in Entries : CloseRunner(e) \/ Disturb(e) \/ Gather(e)
  \/ Sweep \/ Close \/ TimePasses

Spec == Init /\ [][Next]_vars

(***************************************************************************)
(* Every step of a round ends: locks are held for finitely many of them,   *)
(* a CLI step has a timer and reserveSlot another.  A goroutine blocked on *)
(* an entry's lock is handed it in its turn, so waiting is strongly fair.  *)
(* Nothing makes callers leave, time pass, the sweep start or Close come.  *)
(***************************************************************************)
Fairness ==
  /\ \A r \in Rounds : WF_vars(Step(r)) /\ SF_vars(Acquire(r))
  /\ WF_vars(Sweep /\ sweep.pc # "idle")
  /\ \A e \in Entries : WF_vars(CloseRunner(e))

FairSpec == Spec /\ Fairness

-----------------------------------------------------------------------------
(***************************************************************************)
(* Safety                                                                  *)
(***************************************************************************)
\* Warm sessions and the slots kept for sessions being started never exceed
\* the harness's limit, through evictions, retries and failed starts.
WithinLimit == live + reserved <= MaxWarm

\* The counters tell the truth whenever no round is under way: one live
\* session per entry with a runner, and no slot left reserved by a round that
\* was superseded, failed, retried or ran into Close.
NoSlotLeaked ==
  (\A r \in Rounds : round[r].pc \notin Owning) =>
    reserved = 0 /\ live = Cardinality(Warm)

\* Two rounds of one conversation are never in their critical part together,
\* although the sweep may replace the entry whose lock keeps them apart.
OneRoundPerConversation ==
  \A r, s \in Rounds :
    (r # s /\ conversation(r) = conversation(s)) =>
      ~(round[r].pc \in Running /\ round[s].pc \in Running)

\* No eviction and no sweep takes the session a round is running on: only
\* Close does.  An eviction picks entries of other rounds, the sweep every one
\* in turn; both go by the lock (pickVictimLocked, Sweep).
SessionStaysWithRound ==
  \A r \in Rounds :
    (round[r].pc \in {"extend", "finish", "deliver", "settle"} /\ ~closed) =>
      round[r].entry \in Warm

\* Within the life of an entry no round runs, let alone delivers, after the
\* result of a round with a higher fence.
DeliveredInFenceOrder ==
  \A r, s \in Rounds :
    (round[s].answer = "delivered" /\ round[r].pc \in Running
       /\ round[r].entry = round[s].entry) => fence(s) <= fence(r)

\* A unit of usage is never part of two results Platform counts.
NeverBilledTwice ==
  \A r \in Rounds : At(r, "deliver") => round[r].usage \cap billed = {}

\* manager.go:590-591: the carry of a conversation the sweep has removed.
Forgotten == UNION {entry[e].carried : e \in {f \in Entries : entry[f].removed}}

\* Until Close, usage that was spent is billed, or kept for a later result of
\* its conversation by the runner or the entry it was carried to, or was
\* forgotten with a conversation the sweep removed. No other step loses any:
\* what a runner had gathered or flushed reaches an entry in the table, and an
\* entry is not removed while a runner of it still has some.
UsageKept ==
  ~closed =>
    spent = billed \cup Forgotten
                   \cup UNION {entry[e].carried \cup entry[e].gathered : e \in Tabled}

\* After Close no session is warm, not even one whose start was under way.
NothingWarmAfterClose == closed => Warm = {} /\ live = 0

-----------------------------------------------------------------------------
(***************************************************************************)
(* The manager implements the abstract pool: its sessions are the entries  *)
(* with a runner, and a slot is held by the round that has to give it back *)
(***************************************************************************)
Pool == INSTANCE WarmPool WITH
  Callers <- Rounds, Sessions <- Entries, Limit <- MaxWarm,
  warm <- Warm, held <- SlotHolders, shut <- closed

\* Every step of the manager is a step of the pool or leaves it alone: a slot
\* is taken only when sessions and slots together leave room, a session that
\* is replaced hands its slot over in the same step, and a start that ends
\* after Close adds nothing.
ImplementsWarmPool == Pool!PoolSpec

-----------------------------------------------------------------------------
(***************************************************************************)
(* What the comments say and the code does not keep                        *)
(***************************************************************************)
\* manager.go:148: "a fence at least as high aborts a round still running for
\* that conversation".
HigherFenceAborts ==
  \A r \in Rounds : (round[r].pc \in Running /\ IsSuperseded(r)) => cause[r] # "none"

\* manager.go:533: reserveSlot evicts an idle session "else" a waiting one, and
\* answers ErrBusy "with none to evict".
BusyOnlyWhenNothingToEvict ==
  [][\A r \in Rounds :
       (round[r].answer # "busy" /\ round'[r].answer = "busy")
         => Victims(round[r].entry) = {}]_vars

-----------------------------------------------------------------------------
(***************************************************************************)
(* Liveness                                                                *)
(***************************************************************************)
\* Every round that has entered returns: no two rounds wait for each other's
\* entries, and no wait for a slot is unbounded.
EveryRoundReturns == \A r \in Rounds : At(r, "acquire") ~> At(r, "done")

=============================================================================
