-------------------------- MODULE CLIRounds_proofs --------------------------
(***************************************************************************)
(* Proofs about the session manager for every number of rounds,            *)
(* conversations, entries and slots.                                       *)
(***************************************************************************)
EXTENDS CLIRounds, FiniteSetTheorems, TLAPS

-----------------------------------------------------------------------------
(***************************************************************************)
(* The first layer: every variable has its type, and whoever works on an   *)
(* entry has one.  The counters are integers here; that they never become  *)
(* negative is part of the second layer.                                   *)
(***************************************************************************)
RoundType == round \in [Rounds -> RoundRecord]
EntryType == entry \in [Entries -> EntryRecord]
Causes == {"none", "gone", "superseded", "shutdown"}

OtherTypes ==
  /\ closed \in BOOLEAN
  /\ table \in [Conversations -> Entries \cup {None}]
  /\ live \in Int /\ reserved \in Int /\ woken \subseteq Rounds
  /\ request \in [Rounds -> [conversation : Conversations, fence : Int]]
  /\ cause \in [Rounds -> Causes]
  /\ sweep \in SweepRecord
  /\ dying \subseteq Entries
  /\ now \in Nat
  /\ spent \subseteq Units /\ billed \subseteq Units

Evicting == {"evict", "closeVictim"}
Sweeping == {"judge", "drop", "dropped", "remove"}

Known ==
  /\ \A r \in Rounds : round[r].pc \in {"acquire"} \cup Owning => round[r].entry \in Entries
  /\ \A r \in Rounds : round[r].pc \in Evicting => round[r].victim \in Entries
  /\ sweep.pc \in Sweeping => sweep.entry \in Entries

WellTyped == RoundType /\ EntryType /\ OtherTypes /\ Known

\* A new record for one entry keeps the entries typed.
LEMMA EntryReplaced ==
  ASSUME EntryType, NEW e \in Entries, NEW new \in EntryRecord,
         entry' = [entry EXCEPT ![e] = new]
  PROVE  EntryType'
  BY DEF EntryType

\* The carry of an entry is of its type.
LEMMA CarryingType ==
  ASSUME EntryType, NEW e \in Entries, NEW flushed \in SUBSET Units
  PROVE  Carrying(e, flushed) \in EntryRecord
  BY DEF EntryType, EntryRecord, Carrying, GatheredBy

\* Everything a lock is set to is a holder.
LEMMA LockSet ==
  ASSUME EntryType, NEW e \in Entries, NEW h \in Holders,
         entry' = [entry EXCEPT ![e].lock = h]
  PROVE  EntryType'
  BY DEF EntryType, EntryRecord

\* A new state of a runner keeps the entries typed.
LEMMA StateSet ==
  ASSUME EntryType, NEW e \in Entries, NEW what \in RunnerStates, SetState(e, what)
  PROVE  EntryType'
  BY DEF EntryType, EntryRecord, SetState

\* Goto a place keeps the rounds typed.
LEMMA WentType ==
  ASSUME RoundType, NEW r \in Rounds, NEW from, NEW to \in Places, Goto(r, from, to)
  PROVE  RoundType'
  BY DEF RoundType, RoundRecord, Goto

\* Return with an answer keeps the rounds typed.
LEMMA ReturnedType ==
  ASSUME RoundType, NEW r \in Rounds, NEW from, NEW to \in Places, NEW what \in Answers,
         Return(r, from, to, what)
  PROVE  RoundType'
<1>1. [round[r] EXCEPT !.pc = to, !.answer = what] \in RoundRecord
  BY DEF RoundType, RoundRecord
<1> QED BY <1>1 DEF RoundType, Return

\* Every step of a round keeps the rounds' locals typed.
LEMMA RoundTypeStep ==
  ASSUME WellTyped, NEW r \in Rounds, Step(r) \/ Acquire(r)
  PROVE  RoundType'
<1> USE DEF WellTyped
<1>p. /\ {"enter", "done", "acquire", "check", "begin", "plan", "replace", "closeOld", "steps",
          "extend", "reserve", "evict", "closeVictim", "waitSlot", "start", "fail", "finish",
          "deliver", "settle", "end"} \subseteq Places
      /\ Causes \subseteq Answers
      /\ {"superseded", "shutdown", "gone", "busy", "failed", "delivered"} \subseteq Answers
  BY DEF Places, Owning, Running, Causes, Answers
<1>1. CASE \/ EnterClosed(r) \/ AcquireGivesUp(r) \/ OutOfBudget(r) \/ SlotTimeout(r)
           \/ Deliver(r) \/ DeliverFails(r)
  BY <1>1, <1>p, ReturnedType
     DEF EnterClosed, AcquireGivesUp, OutOfBudget, SlotTimeout, Deliver, DeliverFails
<1>2. CASE SlotCancelled(r)
  BY <1>2, <1>p, ReturnedType DEF SlotCancelled, OtherTypes
<1>3. CASE FailRound(r)
  <2>1. round[r].answer \in Answers
    BY DEF RoundType, RoundRecord
  <2> QED BY <1>3, <1>p, <2>1, ReturnedType DEF FailRound
<1>4. CASE \/ Acquire(r) \/ BeginRound(r) \/ CloseOld(r) \/ ExtendStarts(r) \/ Rebuild(r)
           \/ ReserveWaits(r) \/ Evict(r) \/ Woken(r) \/ SettleCarry(r)
  BY <1>4, <1>p, WentType
     DEF Acquire, BeginRound, CloseOld, ExtendStarts, Rebuild, ReserveWaits, Evict, Woken,
         SettleCarry
<1>5. CASE Enter(r)
  <2>1. PICK e \in EntryFor(conversation(r)) :
          \/ Return(r, "enter", "done", "superseded")
          \/ round' = [round EXCEPT ![r].pc = "acquire", ![r].entry = e]
    BY <1>5 DEF Enter
  <2>2. e \in Entries
    BY DEF EntryFor, Unused, OtherTypes, conversation
  <2>3. [round[r] EXCEPT !.pc = "acquire", !.entry = e] \in RoundRecord
    BY <1>p, <2>2 DEF RoundType, RoundRecord
  <2> QED BY <1>p, <2>1, <2>3, ReturnedType DEF RoundType
<1>6. CASE Check(r)
  BY <1>6, <1>p, WentType, ReturnedType DEF Check
<1>7. CASE PlanRound(r)
  BY <1>7, <1>p, WentType DEF PlanRound, RoundType, RoundRecord
<1>8. CASE Replace(r) \/ ReserveFree(r) \/ CloseVictim(r)
  BY <1>8, <1>p DEF Replace, ReserveFree, CloseVictim, RoundType, RoundRecord
<1>9. CASE ExtendEnds(r) \/ FactoryStarts(r)
  <2>1. \A what \in Outcomes :
          /\ [round[r] EXCEPT !.pc = "finish", !.outcome = what] \in RoundRecord
          /\ [round[r] EXCEPT !.pc = "finish", !.outcome = what, !.warm = TRUE,
                              !.holdsSlot = FALSE] \in RoundRecord
    BY <1>p DEF RoundType, RoundRecord
  <2>2. CASE ExtendEnds(r)
    BY <2>1, <2>2 DEF ExtendEnds, RoundType
  <2>3. CASE FactoryStarts(r)
    <3>1. PICK what \in Outcomes :
            round' = [round EXCEPT ![r].pc = "finish", ![r].outcome = what, ![r].warm = TRUE,
                                   ![r].holdsSlot = FALSE]
      BY <2>3 DEF FactoryStarts
    <3>2. round' = [round EXCEPT ![r] = [round[r] EXCEPT !.pc = "finish", !.outcome = what,
                                            !.warm = TRUE, !.holdsSlot = FALSE]]
      BY <3>1 DEF RoundType, RoundRecord
    <3> QED BY <2>1, <3>2 DEF RoundType
  <2> QED BY <1>9, <2>2, <2>3
<1>10. CASE ExtendFails(r)
  BY <1>10, <1>p, ReturnedType DEF ExtendFails, RoundType, RoundRecord
<1>11. CASE ReserveEvicts(r)
  <2>1. PICK e \in Victims(round[r].entry) :
          round' = [round EXCEPT ![r].pc = "evict", ![r].victim = e]
    BY <1>11 DEF ReserveEvicts
  <2>2. e \in Entries
    BY DEF Victims, Evictable, Tabled
  <2>3. [round[r] EXCEPT !.pc = "evict", !.victim = e] \in RoundRecord
    BY <1>p, <2>2 DEF RoundType, RoundRecord
  <2> QED BY <2>1, <2>3 DEF RoundType
<1>12. CASE FactoryFails(r)
  BY <1>12, <1>p DEF FactoryFails, RoundType, RoundRecord
<1>13. CASE FinishRound(r)
  <2>1. At(r, "finish") /\ round[r].entry \in Entries
    BY <1>13 DEF FinishRound, Known, At, Owning, Running
  <2>2. entry[round[r].entry].carried \subseteq Units
    BY <2>1 DEF EntryType, EntryRecord
  <2>3. [round[r] EXCEPT !.pc = "deliver", !.usage = entry[round[r].entry].carried]
          \in RoundRecord
    BY <1>p, <2>2 DEF RoundType, RoundRecord
  <2> QED BY <1>13, <2>3 DEF FinishRound, RoundType
<1>14. CASE EndRound(r)
  BY <1>14, <1>p DEF EndRound, FreshRound, RoundType, RoundRecord
<1> QED
  BY <1>1, <1>2, <1>3, <1>4, <1>5, <1>6, <1>7, <1>8, <1>9, <1>10, <1>11, <1>12, <1>13, <1>14
     DEF Step

\* ... and the entries.
LEMMA EntryTypeStep ==
  ASSUME WellTyped, NEW r \in Rounds, Step(r) \/ Acquire(r)
  PROVE  EntryType'
<1> USE DEF WellTyped
<1> DEFINE e == round[r].entry
           v == round[r].victim
<1>e. round[r].pc \in {"acquire"} \cup Owning => e \in Entries
  BY DEF Known
<1>h. r \in Holders /\ Free \in Holders
  BY DEF Holders
<1>1. CASE UNCHANGED entry
  BY <1>1 DEF EntryType
<1>2. CASE \/ EnterClosed(r) \/ AcquireGivesUp(r) \/ OutOfBudget(r) \/ Rebuild(r)
           \/ ReserveFree(r) \/ ReserveWaits(r) \/ Woken(r) \/ SlotTimeout(r)
           \/ SlotCancelled(r) \/ FactoryFails(r) \/ Deliver(r)
  BY <1>1, <1>2
     DEF EnterClosed, AcquireGivesUp, OutOfBudget, Rebuild, ReserveFree, ReserveWaits, Woken,
         SlotTimeout, SlotCancelled, FactoryFails, Deliver
<1>3. CASE Enter(r)
  <2> DEFINE used(f) == IF f \in Unused THEN [entry EXCEPT ![f].lastUsed = now] ELSE entry
  <2>1. PICK f \in EntryFor(conversation(r)) :
          entry' = used(f) \/ entry' = [used(f) EXCEPT ![f].highestFence = fence(r)]
    BY <1>3 DEF Enter
  <2>2. f \in Entries /\ fence(r) \in Int /\ now \in Nat
    BY DEF EntryFor, Unused, OtherTypes, conversation, fence
  <2>3. used(f) \in [Entries -> EntryRecord]
    BY <2>2 DEF EntryType, EntryRecord
  <2> HIDE DEF used
  <2>4. used(f)[f] \in EntryRecord
    BY <2>2, <2>3
  <2>5. [used(f)[f] EXCEPT !.highestFence = fence(r)] \in EntryRecord
    BY <2>2, <2>4 DEF EntryRecord
  <2> QED BY <2>1, <2>2, <2>3, <2>5 DEF EntryType
<1>4. CASE Acquire(r)
  BY <1>4, <1>e, <1>h, LockSet DEF Acquire, Goto, At
<1>5. CASE Check(r)
  <2>1. e \in Entries
    BY <1>5, <1>e DEF Check, At, Owning
  <2> QED BY <1>1, <1>5, <2>1, <1>h, LockSet DEF Check, Release
<1>6. CASE BeginRound(r)
  <2>1. e \in Entries
    BY <1>6, <1>e DEF BeginRound, Goto, At, Owning
  <2> QED BY <1>6, <2>1 DEF BeginRound, EntryType, EntryRecord
<1>7. CASE PlanRound(r)
  <2>1. e \in Entries
    BY <1>7, <1>e DEF PlanRound, At, Owning, Running
  <2>2. Carrying(e, {}) \in EntryRecord
    BY <2>1, CarryingType
  <2> QED BY <1>1, <1>7, <2>1, <2>2, EntryReplaced DEF PlanRound
<1>8. CASE Replace(r)
  <2>1. e \in Entries
    BY <1>8, <1>e DEF Replace, At, Owning, Running
  <2>0. entry[e] \in EntryRecord
    BY <2>1 DEF EntryType
  <2>2. [entry[e] EXCEPT !.runner = "none", !.dirty = FALSE] \in EntryRecord
    BY <2>0 DEF EntryRecord
  <2> QED BY <1>8, <2>1, <2>2 DEF Replace, EntryType
<1>9. CASE CloseOld(r)
  <2>1. e \in Entries
    BY <1>9, <1>e DEF CloseOld, Goto, At, Owning, Running
  <2>2. PICK flushed \in SUBSET Units : entry' = [entry EXCEPT ![e] = Carrying(e, flushed)]
    BY <1>9 DEF CloseOld
  <2>3. Carrying(e, flushed) \in EntryRecord
    BY <2>1, CarryingType
  <2> QED BY <2>1, <2>2, <2>3, EntryReplaced
<1>10. CASE ExtendStarts(r)
  <2>1. e \in Entries
    BY <1>10, <1>e DEF ExtendStarts, Goto, At, Owning, Running
  <2> QED BY <1>10, <2>1, StateSet DEF ExtendStarts, RunnerStates
<1>11. CASE ExtendEnds(r)
  <2>1. e \in Entries
    BY <1>11, <1>e DEF ExtendEnds, At, Owning, Running
  <2>2. \A what : StateAfter(what) \in RunnerStates
    BY DEF StateAfter, RunnerStates
  <2> QED BY <1>11, <2>1, <2>2, StateSet DEF ExtendEnds
<1>12. CASE ExtendFails(r)
  <2>1. e \in Entries
    BY <1>12, <1>e DEF ExtendFails, Return, At, Owning, Running
  <2> QED BY <1>12, <2>1, StateSet DEF ExtendFails, RunnerStates
<1>13. CASE ReserveEvicts(r)
  <2>1. PICK f \in Victims(e) : entry' = [entry EXCEPT ![f].lock = r]
    BY <1>13 DEF ReserveEvicts
  <2>2. f \in Entries
    BY DEF Victims, Evictable, Tabled
  <2> QED BY <2>1, <2>2, <1>h, LockSet
<1>14. CASE Evict(r)
  <2>1. v \in Entries
    BY <1>14 DEF Evict, Goto, At, Known, Evicting
  <2> QED BY <1>14, <2>1 DEF Evict, DetachAndFree, EntryType, EntryRecord
<1>15. CASE CloseVictim(r)
  <2>1. v \in Entries
    BY <1>15 DEF CloseVictim, At, Known, Evicting
  <2>2. PICK flushed \in SUBSET Units :
          entry' = [entry EXCEPT ![v] = [Carrying(v, flushed) EXCEPT !.lock = Free]]
    BY <1>15 DEF CloseVictim
  <2>3. Carrying(v, flushed) \in EntryRecord
    BY <2>1, CarryingType
  <2>4. [Carrying(v, flushed) EXCEPT !.lock = Free] \in EntryRecord
    BY <2>3, <1>h DEF EntryRecord
  <2> QED BY <2>1, <2>2, <2>4, EntryReplaced
<1>16. CASE FactoryStarts(r)
  <2>1. e \in Entries
    BY <1>16, <1>e DEF FactoryStarts, At, Owning, Running
  <2>2. \A what : StateAfter(what) \in RunnerStates
    BY DEF StateAfter, RunnerStates
  <2> QED BY <1>16, <2>1, <2>2 DEF FactoryStarts, EntryType, EntryRecord
<1>17. CASE FailRound(r) \/ DeliverFails(r) \/ FinishRound(r)
  <2>1. e \in Entries
    BY <1>17, <1>e DEF FailRound, DeliverFails, FinishRound, Return, At, Owning, Running
  <2>2. \A b \in BOOLEAN : [entry[e] EXCEPT !.dirty = b] \in EntryRecord
    BY <2>1 DEF EntryType, EntryRecord
  <2>3. \E b \in BOOLEAN : entry' = [entry EXCEPT ![e].dirty = b]
    BY <1>17 DEF FailRound, DeliverFails, FinishRound
  <2> QED BY <2>1, <2>2, <2>3 DEF EntryType
<1>18. CASE SettleCarry(r)
  <2>1. e \in Entries
    BY <1>18, <1>e DEF SettleCarry, Goto, At, Owning, Running
  <2> QED BY <1>18, <2>1 DEF SettleCarry, SettledCarry, EntryType, EntryRecord
<1>19. CASE EndRound(r)
  <2>1. e \in Entries
    BY <1>19, <1>e DEF EndRound, At, Owning, Running
  <2>2. entry[e] \in EntryRecord
    BY <2>1 DEF EntryType
  <2>3. [entry[e] EXCEPT !.cancelRound = None, !.lastUsed = now, !.lock = Free] \in EntryRecord
    BY <2>1, <2>2, <1>h DEF EntryRecord, OtherTypes
  <2> QED BY <1>19, <2>1, <2>3 DEF EndRound, EntryType
<1> QED
  BY <1>2, <1>3, <1>4, <1>5, <1>6, <1>7, <1>8, <1>9, <1>10, <1>11, <1>12, <1>13, <1>14, <1>15,
     <1>16, <1>17, <1>18, <1>19 DEF Step

\* The steps of everyone else keep both typed.
LEMMA OutsideTypeStep ==
  ASSUME WellTyped,
         \/ \E r \in Rounds : CallerGone(r)
         \/ \E e \in Entries : CloseRunner(e) \/ Disturb(e) \/ Gather(e)
         \/ Sweep \/ Close \/ TimePasses
  PROVE  RoundType' /\ EntryType'
<1> USE DEF WellTyped
<1> DEFINE t == sweep.entry
<1>t. /\ sweep.pc \in Sweeping => t \in Entries
      /\ sweep.now \in Nat
      /\ Free \in Holders /\ Sweeper \in Holders
  BY DEF Known, OtherTypes, SweepRecord, Holders
<1>1. CASE UNCHANGED <<round, entry>>
  BY <1>1 DEF RoundType, EntryType
<1>2. CASE \/ \E r \in Rounds : CallerGone(r)
           \/ \E e \in Entries : CloseRunner(e)
           \/ SweepStarts \/ TimePasses
  BY <1>1, <1>2 DEF CallerGone, CloseRunner, SweepStarts, TimePasses
<1>3. ASSUME NEW e \in Entries, Disturb(e) PROVE RoundType' /\ EntryType'
  BY <1>3, StateSet DEF Disturb, RunnerStates, RoundType
<1>4. ASSUME NEW e \in Entries, Gather(e) PROVE RoundType' /\ EntryType'
  BY <1>4 DEF Gather, RoundType, EntryType, EntryRecord
<1>5. CASE SweepChooses
  <2>1. UNCHANGED round
    BY <1>5 DEF SweepChooses
  <2>2. \A e \in sweep.targets : e \in Entries
    BY DEF OtherTypes, SweepRecord
  <2> QED BY <1>1, <1>5, <1>t, <2>1, <2>2, LockSet DEF SweepChooses, RoundType
<1>6. CASE SweepJudges
  <2>1. UNCHANGED round
    BY <1>6 DEF SweepJudges
  <2>2. t \in Entries
    BY <1>6, <1>t DEF SweepJudges, Sweeping
  <2> QED BY <1>1, <1>6, <1>t, <2>1, <2>2, LockSet DEF SweepJudges, Release, RoundType
<1>7. CASE SweepDrops
  <2>1. t \in Entries
    BY <1>7, <1>t DEF SweepDrops, SweepGoto, Sweeping
  <2>0. entry[t] \in EntryRecord
    BY <2>1 DEF EntryType
  <2>2. [entry[t] EXCEPT !.runner = "none", !.dirty = FALSE] \in EntryRecord
    BY <2>0 DEF EntryRecord
  <2> QED BY <1>7, <2>1, <2>2 DEF SweepDrops, DetachAndFree, RoundType, EntryType
<1>8. CASE SweepDropped
  <2>1. t \in Entries
    BY <1>8, <1>t DEF SweepDropped, SweepGoto, Sweeping
  <2>2. PICK flushed \in SUBSET Units :
          entry' = [entry EXCEPT ![t] = [Carrying(t, flushed) EXCEPT
                                           !.lastUsed = sweep.now, !.lock = Free]]
    BY <1>8 DEF SweepDropped
  <2>3. Carrying(t, flushed) \in EntryRecord
    BY <2>1, CarryingType
  <2>4. [Carrying(t, flushed) EXCEPT !.lastUsed = sweep.now, !.lock = Free] \in EntryRecord
    BY <2>3, <1>t DEF EntryRecord
  <2>5. UNCHANGED round
    BY <1>8 DEF SweepDropped
  <2> QED BY <2>1, <2>2, <2>4, <2>5, EntryReplaced DEF RoundType
<1>9. CASE SweepRemoves
  <2>1. t \in Entries
    BY <1>9, <1>t DEF SweepRemoves, SweepGoto, Sweeping
  <2>3. entry[t] \in EntryRecord
    BY <2>1 DEF EntryType
  <2>4. Free \in Holders
    BY DEF Holders
  <2>2. [entry[t] EXCEPT !.removed = TRUE, !.lock = Free] \in EntryRecord
    BY <2>3, <2>4 DEF EntryRecord
  <2> QED BY <1>9, <2>1, <2>2 DEF SweepRemoves, RoundType, EntryType
<1>10. CASE Close
  <2>1. \A e \in Entries : [entry[e] EXCEPT !.runner = "none", !.gathered = {}] \in EntryRecord
    BY DEF EntryType, EntryRecord
  <2> QED BY <1>10, <2>1 DEF Close, RoundType, EntryType
<1> QED
  BY <1>2, <1>3, <1>4, <1>5, <1>6, <1>7, <1>8, <1>9, <1>10 DEF Sweep

\* The counters, the table, the causes, the sweep, the clock and the history.
LEMMA OtherTypesStep ==
  ASSUME WellTyped, [Next]_vars
  PROVE  OtherTypes'
<1> USE DEF WellTyped
<1>0. CASE UNCHANGED vars
  BY <1>0 DEF vars, pool, outside, usage, OtherTypes
<1>f. ASSUME FreeSlot PROVE woken' \subseteq Rounds
  BY <1>f DEF FreeSlot, OtherTypes
<1>d. ASSUME NEW e, DetachAndFree(e)
      PROVE  live' \in Int /\ reserved' \in Int /\ woken' \subseteq Rounds
  BY <1>d, <1>f DEF DetachAndFree, CountDetached, OtherTypes
<1>c. ASSUME NEW rs, NEW why \in Causes PROVE Cancelled(rs, why) \in [Rounds -> Causes]
  BY DEF Cancelled, OtherTypes
<1>1. ASSUME NEW r \in Rounds,
             \/ AcquireGivesUp(r) \/ Acquire(r) \/ Check(r) \/ BeginRound(r) \/ PlanRound(r)
             \/ OutOfBudget(r) \/ ExtendStarts(r) \/ ExtendEnds(r) \/ ExtendFails(r)
             \/ Rebuild(r) \/ ReserveEvicts(r) \/ Woken(r) \/ SlotTimeout(r)
             \/ SlotCancelled(r) \/ FailRound(r) \/ FinishRound(r) \/ DeliverFails(r)
             \/ SettleCarry(r) \/ EnterClosed(r)
      PROVE  UNCHANGED <<closed, table, pool, request, cause, sweep, dying, now, usage>>
  BY <1>1 DEF AcquireGivesUp, Acquire, Check, BeginRound, PlanRound, OutOfBudget, ExtendStarts,
       ExtendEnds, ExtendFails, Rebuild, ReserveEvicts, Woken, SlotTimeout, SlotCancelled,
       FailRound, FinishRound, DeliverFails, SettleCarry, EnterClosed, outside
<1>2. ASSUME NEW r \in Rounds, Step(r) \/ Acquire(r) PROVE OtherTypes'
  <2>1. CASE UNCHANGED <<closed, table, pool, request, cause, sweep, dying, now, usage>>
    BY <2>1 DEF OtherTypes, pool, usage
  <2>2. CASE Enter(r)
    <3>1. \A e \in EntryFor(conversation(r)) : e \in Entries
      BY DEF EntryFor, Unused, OtherTypes, conversation
    <3>2. table' \in [Conversations -> Entries \cup {None}]
      BY <2>2, <3>1 DEF Enter, OtherTypes
    <3>3. cause' \in [Rounds -> Causes]
      BY <2>2, <1>c DEF Enter, OtherTypes, Causes
    <3> QED BY <2>2, <3>2, <3>3 DEF Enter, OtherTypes, pool, outside, usage
  <2>3. CASE Replace(r)
    BY <2>3 DEF Replace, CountDetached, OtherTypes, outside, usage
  <2>4. CASE CloseOld(r) \/ CloseVictim(r)
    BY <2>4 DEF CloseOld, CloseVictim, OtherTypes, pool, outside
  <2>5. CASE ReserveFree(r)
    BY <2>5 DEF ReserveFree, OtherTypes, outside, usage
  <2>11. CASE FactoryStarts(r)
    <3>1. live' = live + 1 /\ reserved' = reserved - 1
      BY <2>11 DEF FactoryStarts
    <3>2. UNCHANGED <<closed, table, woken, cause, sweep, dying, outside, usage>>
      BY <2>11 DEF FactoryStarts
    <3> QED BY <3>1, <3>2 DEF OtherTypes, outside, usage
  <2>10. CASE ReserveWaits(r)
    BY <2>10 DEF ReserveWaits, OtherTypes, outside, usage
  <2>6. CASE Evict(r)
    BY <2>6, <1>d DEF Evict, OtherTypes, outside, usage
  <2>7. CASE FactoryFails(r)
    BY <2>7, <1>f DEF FactoryFails, OtherTypes, outside, usage
  <2>8. CASE Deliver(r)
    <3>1. round[r].usage \subseteq Units
      BY DEF RoundType, RoundRecord
    <3> QED BY <2>8, <3>1 DEF Deliver, OtherTypes, pool, outside
  <2>9. CASE EndRound(r)
    <3>1. reserved' \in Int /\ woken' \subseteq Rounds
      BY <2>9, <1>f DEF EndRound, ReleaseHeldSlot, OtherTypes
    <3> QED BY <2>9, <3>1 DEF EndRound, OtherTypes, Causes, outside, usage
  <2> QED
    BY <1>1, <1>2, <2>1, <2>2, <2>3, <2>4, <2>5, <2>6, <2>7, <2>8, <2>9, <2>10, <2>11
     DEF Step
<1>3. ASSUME NEW r \in Rounds, CallerGone(r) PROVE OtherTypes'
  BY <1>3 DEF CallerGone, OtherTypes, Causes, pool, outside, usage
<1>4. ASSUME NEW e \in Entries, CloseRunner(e) \/ Disturb(e) \/ Gather(e) PROVE OtherTypes'
  BY <1>4 DEF CloseRunner, Disturb, Gather, OtherTypes, pool, outside, usage
<1>5. CASE SweepStarts
  <2>1. Tabled \subseteq Entries
    BY DEF Tabled
  <2> QED BY <1>5, <2>1 DEF SweepStarts, OtherTypes, SweepRecord, pool, outside, usage
<1>6. CASE SweepChooses
  <2>2. sweep \in SweepRecord
    BY DEF OtherTypes
  <2>3. [sweep EXCEPT !.pc = "idle"] \in SweepRecord
    BY <2>2 DEF SweepRecord
  <2>4. \A e \in sweep.targets :
          /\ [sweep EXCEPT !.targets = @ \ {e}] \in SweepRecord
          /\ [sweep EXCEPT !.pc = "judge", !.targets = @ \ {e}, !.entry = e] \in SweepRecord
    BY <2>2 DEF SweepRecord
  <2>1. sweep' \in SweepRecord
    BY <1>6, <2>3, <2>4 DEF SweepChooses
  <2> QED BY <1>6, <2>1 DEF SweepChooses, OtherTypes, pool, outside, usage
<1>7. CASE SweepJudges
  <2>1. sweep' \in SweepRecord
    BY <1>7 DEF SweepJudges, SweepGoto, OtherTypes, SweepRecord
  <2> QED BY <1>7, <2>1 DEF SweepJudges, OtherTypes, pool, outside, usage
<1>8. CASE SweepDrops
  <2>1. sweep' \in SweepRecord
    BY <1>8 DEF SweepDrops, SweepGoto, OtherTypes, SweepRecord
  <2> QED BY <1>8, <2>1, <1>d DEF SweepDrops, OtherTypes, outside, usage
<1>9. CASE SweepDropped
  <2>1. sweep' \in SweepRecord
    BY <1>9 DEF SweepDropped, SweepGoto, OtherTypes, SweepRecord
  <2> QED BY <1>9, <2>1 DEF SweepDropped, OtherTypes, pool, outside
<1>10. CASE SweepRemoves
  <2>1. sweep' \in SweepRecord
    BY <1>10 DEF SweepRemoves, SweepGoto, OtherTypes, SweepRecord
  <2> QED BY <1>10, <2>1 DEF SweepRemoves, OtherTypes, pool, outside, usage
<1>11. CASE Close
  <2>1. Warm \subseteq Entries
    BY DEF Warm
  <2>2. cause' \in [Rounds -> Causes]
    BY <1>11, <1>c DEF Close, Causes
  <2>3. /\ closed' = TRUE /\ live' = 0 /\ dying' = Warm
        /\ UNCHANGED <<table, reserved, woken, sweep, outside, usage>>
    BY <1>11 DEF Close
  <2> QED BY <2>1, <2>2, <2>3 DEF OtherTypes, outside, usage
<1>12. CASE TimePasses
  BY <1>12 DEF TimePasses, OtherTypes, pool, usage
<1> QED
  BY <1>0, <1>2, <1>3, <1>4, <1>5, <1>6, <1>7, <1>8, <1>9, <1>10, <1>11, <1>12
     DEF Next, Sweep

\* Whoever works on an entry has one.
LEMMA KnownStep ==
  ASSUME WellTyped, [Next]_vars
  PROVE  Known'
<1> USE DEF WellTyped
<1>0. CASE UNCHANGED vars
  BY <1>0 DEF vars, Known
<1>1. ASSUME NEW r \in Rounds, Step(r) \/ Acquire(r) PROVE Known'
  <2>u. UNCHANGED sweep => (sweep'.pc \in Sweeping => sweep'.entry \in Entries)
    BY DEF Known
  <2> USE DEF Known, RoundType, RoundRecord, Owning, Running, Evicting
  <2>1. CASE EnterClosed(r) \/ AcquireGivesUp(r) \/ OutOfBudget(r) \/ Rebuild(r)
    BY <1>1, <2>1, <2>u DEF EnterClosed, AcquireGivesUp, OutOfBudget, Rebuild, Goto, Return, At
  <2>2. CASE Enter(r)
    <3>1. \A e \in EntryFor(conversation(r)) : e \in Entries
      BY DEF EntryFor, Unused, OtherTypes, conversation
    <3> QED BY <2>2, <2>u, <3>1 DEF Enter, Return, At
  <2>3. CASE Acquire(r) \/ Check(r) \/ BeginRound(r)
    BY <2>3, <2>u DEF Acquire, Check, BeginRound, Goto, Return, At
  <2>4. CASE PlanRound(r) \/ Replace(r) \/ CloseOld(r)
    BY <2>4, <2>u DEF PlanRound, Replace, CloseOld, Goto, At
  <2>5. CASE ExtendStarts(r) \/ ExtendEnds(r) \/ ExtendFails(r)
    BY <2>5, <2>u DEF ExtendStarts, ExtendEnds, ExtendFails, Goto, Return, At
  <2>6. CASE ReserveFree(r) \/ ReserveWaits(r) \/ Evict(r) \/ CloseVictim(r)
    BY <2>6, <2>u DEF ReserveFree, ReserveWaits, Evict, CloseVictim, Goto, At
  <2>7. CASE ReserveEvicts(r)
    <3>1. \A e \in Victims(round[r].entry) : e \in Entries
      BY DEF Victims, Evictable, Tabled
    <3> QED BY <2>7, <2>u, <3>1 DEF ReserveEvicts, At
  <2>8. CASE Woken(r) \/ SlotTimeout(r) \/ SlotCancelled(r)
    BY <2>8, <2>u DEF Woken, SlotTimeout, SlotCancelled, Goto, Return, At
  <2>9. CASE FactoryStarts(r)
    BY <2>9, <2>u DEF FactoryStarts, At
  <2>12. CASE FactoryFails(r)
    BY <2>12, <2>u DEF FactoryFails, At
  <2>10. CASE FailRound(r) \/ FinishRound(r) \/ Deliver(r)
    BY <2>10, <2>u DEF FailRound, FinishRound, Deliver, Goto, Return, At
  <2>11. CASE DeliverFails(r) \/ SettleCarry(r)
    BY <2>11, <2>u DEF DeliverFails, SettleCarry, Goto, Return, At
  <2>13. CASE EndRound(r)
    BY <2>13, <2>u DEF EndRound, FreshRound, At
  <2> QED
    BY <1>1, <2>1, <2>2, <2>3, <2>4, <2>5, <2>6, <2>7, <2>8, <2>9, <2>10, <2>11, <2>12,
       <2>13 DEF Step
<1>2. CASE \/ \E r \in Rounds : CallerGone(r)
           \/ \E e \in Entries : CloseRunner(e) \/ Disturb(e) \/ Gather(e)
           \/ Close \/ TimePasses
  <2>1. UNCHANGED <<round, sweep>>
    BY <1>2 DEF CallerGone, CloseRunner, Disturb, Gather, Close, TimePasses
  <2> QED BY <2>1 DEF Known
<1>3. CASE Sweep
  <2>1. UNCHANGED round
    BY <1>3 DEF Sweep, SweepStarts, SweepChooses, SweepJudges, SweepDrops, SweepDropped,
         SweepRemoves
  <2>2. sweep'.pc \in Sweeping => sweep'.entry \in Entries
    <3> USE DEF Known, OtherTypes, SweepRecord, Sweeping
    <3>1. CASE SweepStarts
      BY <3>1 DEF SweepStarts
    <3>3. CASE SweepChooses
      BY <3>3 DEF SweepChooses
    <3>2. CASE SweepJudges \/ SweepDrops \/ SweepDropped \/ SweepRemoves
      BY <3>2 DEF SweepJudges, SweepDrops, SweepDropped, SweepRemoves, SweepGoto
    <3> QED BY <1>3, <3>1, <3>2, <3>3 DEF Sweep
  <2> QED BY <2>1, <2>2 DEF Known
<1> QED
  BY <1>0, <1>1, <1>2, <1>3 DEF Next

\* The first layer holds at the start ...
LEMMA InitTyped == Init => WellTyped
<1> SUFFICES ASSUME Init PROVE WellTyped
  OBVIOUS
<1>1. RoundType
  BY DEF Init, RoundType, RoundRecord, FreshRound, Places, Answers
<1>2. EntryType
  BY DEF Init, EntryType, EntryRecord, FreshEntry, Holders
<1>3. OtherTypes
  <2>1. request \in [Rounds -> [conversation : Conversations, fence : Int]]
    BY RoundsAssumption DEF Init
  <2>2. cause \in [Rounds -> Causes] /\ table \in [Conversations -> Entries \cup {None}]
    BY DEF Init, Causes
  <2>3. sweep \in SweepRecord
    BY DEF Init, SweepRecord
  <2>4. live = 0 /\ reserved = 0 /\ woken = {} /\ dying = {} /\ now = 0 /\ spent = {} /\ billed = {}
    BY DEF Init
  <2>5. closed \in BOOLEAN
    BY DEF Init
  <2> QED BY <2>1, <2>2, <2>3, <2>4, <2>5 DEF OtherTypes
<1>4. Known
  BY DEF Init, Known, FreshRound, Owning, Running, Evicting, Sweeping
<1> QED BY <1>1, <1>2, <1>3, <1>4 DEF WellTyped

\* ... and every step keeps it.
LEMMA StepTyped == WellTyped /\ [Next]_vars => WellTyped'
<1> SUFFICES ASSUME WellTyped, [Next]_vars PROVE WellTyped'
  OBVIOUS
<1>1. CASE UNCHANGED vars
  BY <1>1 DEF vars, pool, outside, usage, WellTyped, RoundType, EntryType, OtherTypes, Known
<1>2. CASE Next
  <2>1. RoundType' /\ EntryType'
    BY <1>2, RoundTypeStep, EntryTypeStep, OutsideTypeStep DEF Next
  <2> QED BY <2>1, OtherTypesStep, KnownStep DEF WellTyped
<1> QED BY <1>1, <1>2

-----------------------------------------------------------------------------
(***************************************************************************)
(* The second layer: whoever works on an entry holds its lock.             *)
(***************************************************************************)
Locked ==
  /\ \A r \in Rounds : round[r].pc \in Owning => entry[round[r].entry].lock = r
  /\ \A r \in Rounds : round[r].pc \in Evicting => entry[round[r].victim].lock = r
  /\ \A r \in Rounds : round[r].pc \in Evicting => round[r].victim # round[r].entry
  /\ sweep.pc \in Sweeping => entry[sweep.entry].lock = Sweeper

\* A round never touches the sweep's locals, nor closes the manager.
LEMMA RoundLeaves ==
  ASSUME NEW r \in Rounds, Step(r) \/ Acquire(r)
  PROVE  UNCHANGED <<sweep, closed>>
<1>1. CASE EnterClosed(r) \/ Enter(r) \/ AcquireGivesUp(r) \/ Check(r) \/ BeginRound(r)
  BY <1>1 DEF EnterClosed, Enter, AcquireGivesUp, Check, BeginRound
<1>2. CASE \/ PlanRound(r) \/ Replace(r) \/ CloseOld(r) \/ OutOfBudget(r) \/ ExtendStarts(r)
           \/ ExtendEnds(r) \/ ExtendFails(r) \/ Rebuild(r)
  BY <1>2 DEF PlanRound, Replace, CloseOld, OutOfBudget, ExtendStarts, ExtendEnds,
              ExtendFails, Rebuild
<1>3. CASE \/ ReserveFree(r) \/ ReserveEvicts(r) \/ ReserveWaits(r) \/ Evict(r)
           \/ CloseVictim(r) \/ Woken(r) \/ SlotTimeout(r) \/ SlotCancelled(r)
  BY <1>3 DEF ReserveFree, ReserveEvicts, ReserveWaits, Evict, CloseVictim, Woken,
              SlotTimeout, SlotCancelled
<1>4. CASE \/ FactoryStarts(r) \/ FactoryFails(r) \/ FailRound(r) \/ FinishRound(r)
           \/ Deliver(r) \/ DeliverFails(r) \/ SettleCarry(r) \/ EndRound(r) \/ Acquire(r)
  BY <1>4 DEF FactoryStarts, FactoryFails, FailRound, FinishRound, Deliver, DeliverFails,
              SettleCarry, EndRound, Acquire
<1> QED BY <1>1, <1>2, <1>3, <1>4 DEF Step

\* A round takes only locks nobody holds, and works on what it has locked.
LEMMA LockedStep ==
  ASSUME WellTyped, Locked, NEW r \in Rounds, Step(r) \/ Acquire(r)
  PROVE  Locked'
<1> USE NamesAssumption
        DEF WellTyped, RoundType, RoundRecord, EntryType, EntryRecord, Known, Locked, Owning,
            Running, Evicting
<1> DEFINE e == round[r].entry
<1>s. UNCHANGED <<sweep, closed>>
  BY RoundLeaves
<1>1a. CASE EnterClosed(r)
  BY <1>1a, <1>s DEF EnterClosed, Goto, Return, At
<1>1b. CASE AcquireGivesUp(r)
  BY <1>1b, <1>s DEF AcquireGivesUp, Goto, Return, At
<1>1c. CASE OutOfBudget(r)
  BY <1>1c, <1>s DEF OutOfBudget, Goto, Return, At
<1>1d. CASE Rebuild(r)
  BY <1>1d, <1>s DEF Rebuild, Goto, Return, At
<1>2. CASE Enter(r)
  <2>1. PICK f \in EntryFor(conversation(r)) :
          /\ \/ Return(r, "enter", "done", "superseded")
             \/ /\ At(r, "enter")
                /\ round' = [round EXCEPT ![r].pc = "acquire", ![r].entry = f]
          /\ \A g \in Entries : entry'[g].lock = entry[g].lock
    <3>1. PICK f \in EntryFor(conversation(r)) :
            LET used == IF f \in Unused THEN [entry EXCEPT ![f].lastUsed = now] ELSE entry
            IN  \/ /\ Return(r, "enter", "done", "superseded")
                   /\ entry' = used
                \/ /\ At(r, "enter")
                   /\ round' = [round EXCEPT ![r].pc = "acquire", ![r].entry = f]
                   /\ entry' = [used EXCEPT ![f].highestFence = fence(r)]
      BY <1>2 DEF Enter
    <3>2. \A g \in Entries : entry'[g].lock = entry[g].lock
      BY <3>1
    <3> QED BY <3>1, <3>2
  <2>2. CASE Return(r, "enter", "done", "superseded")
    BY <1>s, <2>1, <2>2 DEF Return, At
  <2>3. CASE At(r, "enter") /\ round' = [round EXCEPT ![r].pc = "acquire", ![r].entry = f]
    BY <1>s, <2>1, <2>3 DEF At
  <2> QED BY <2>1, <2>2, <2>3
<1>3. CASE Acquire(r)
  BY <1>3, <1>s DEF Acquire, Goto, At
<1>4. CASE Check(r)
  <2>1. CASE Return(r, "check", "done", "superseded") /\ Release(e)
    BY <1>s, <2>1 DEF Release, Return, At
  <2>2. CASE Goto(r, "check", "enter") /\ Release(e)
    BY <1>s, <2>2 DEF Release, Goto, At
  <2>3. CASE Goto(r, "check", "begin") /\ UNCHANGED entry
    BY <1>s, <2>3 DEF Goto, At
  <2> QED BY <1>4, <2>1, <2>2, <2>3 DEF Check
<1>5. CASE BeginRound(r)
  BY <1>5, <1>s DEF BeginRound, Goto, At
<1>6. CASE PlanRound(r)
  <2>1. \A f \in Entries : entry'[f].lock = entry[f].lock
    <3>1. CASE entry' = [entry EXCEPT ![e] = Carrying(e, {})]
      BY <3>1 DEF Carrying
    <3> QED BY <1>6, <3>1 DEF PlanRound
  <2>2. CASE Goto(r, "plan", "steps")
    BY <1>s, <2>1, <2>2 DEF Goto, At
  <2>3. CASE round' = [round EXCEPT ![r].pc = "steps", ![r].warm = TRUE] /\ At(r, "plan")
    BY <1>s, <2>1, <2>3 DEF At
  <2>4. CASE Goto(r, "plan", "replace")
    BY <1>s, <2>1, <2>4 DEF Goto, At
  <2> QED BY <1>6, <2>2, <2>3, <2>4 DEF PlanRound
<1>7. CASE Replace(r)
  <2>1. \A f \in Entries : entry'[f].lock = entry[f].lock
    BY <1>7 DEF Replace
  <2>2. /\ round[r].pc = "replace" /\ round'[r].pc \in {"closeOld", "steps"}
        /\ round'[r].entry = e
        /\ \A s \in Rounds \ {r} : round'[s] = round[s]
    BY <1>7 DEF Replace, At
  <2> QED BY <1>s, <2>1, <2>2
<1>8. CASE CloseOld(r)
  BY <1>8, <1>s DEF CloseOld, Carrying, Goto, At
<1>9a. CASE ExtendStarts(r)
  BY <1>9a, <1>s DEF ExtendStarts, SetState, Goto, Return, At
<1>9b. CASE ExtendEnds(r)
  BY <1>9b, <1>s DEF ExtendEnds, SetState, Goto, Return, At
<1>9c. CASE ExtendFails(r)
  <2>1. \A f \in Entries : entry'[f].lock = entry[f].lock
    BY <1>9c DEF ExtendFails, SetState
  <2>2. CASE Return(r, "extend", "fail", "failed")
    BY <1>s, <2>1, <2>2 DEF Return, At
  <2>3. CASE /\ At(r, "extend")
             /\ round' = [round EXCEPT ![r].pc = "replace", ![r].isRebuiltOnce = TRUE]
    BY <1>s, <2>1, <2>3 DEF At
  <2> QED BY <1>9c, <2>2, <2>3 DEF ExtendFails
<1>10a. CASE ReserveFree(r)
  BY <1>10a, <1>s DEF ReserveFree, Goto, At
<1>10b. CASE ReserveWaits(r)
  BY <1>10b, <1>s DEF ReserveWaits, Goto, At
<1>11. CASE ReserveEvicts(r)
  <2>1. PICK f \in Victims(e) :
          /\ entry' = [entry EXCEPT ![f].lock = r]
          /\ round' = [round EXCEPT ![r].pc = "evict", ![r].victim = f]
    BY <1>11 DEF ReserveEvicts
  <2>2. f \in Entries /\ f # e /\ entry[f].lock = Free
    BY DEF Victims, Evictable, Tabled
  <2>3. At(r, "reserve")
    BY <1>11 DEF ReserveEvicts
  <2> QED BY <1>s, <2>1, <2>2, <2>3 DEF At
<1>12. CASE Evict(r)
  BY <1>12, <1>s DEF Evict, DetachAndFree, Goto, At
<1>13. CASE CloseVictim(r)
  BY <1>13, <1>s DEF CloseVictim, Carrying, At
<1>14a. CASE Woken(r)
  BY <1>14a, <1>s DEF Woken, Goto, Return, At
<1>14b. CASE SlotTimeout(r)
  BY <1>14b, <1>s DEF SlotTimeout, Goto, Return, At
<1>14c. CASE SlotCancelled(r)
  BY <1>14c, <1>s DEF SlotCancelled, Goto, Return, At
<1>15. CASE FactoryStarts(r)
  BY <1>15, <1>s DEF FactoryStarts, At
<1>16. CASE FactoryFails(r)
  <2>1. UNCHANGED entry /\ At(r, "start")
    BY <1>16 DEF FactoryFails
  <2>2. ASSUME NEW why,
               round' = [round EXCEPT ![r].pc = "fail", ![r].holdsSlot = FALSE, ![r].answer = why]
        PROVE  Locked'
    BY <1>s, <2>1, <2>2 DEF At
  <2>3. CASE round' = [round EXCEPT ![r].pc = "replace", ![r].holdsSlot = FALSE,
                                    ![r].isRebuiltOnce = TRUE]
    BY <1>s, <2>1, <2>3 DEF At
  <2> QED BY <1>16, <2>2, <2>3 DEF FactoryFails
<1>17a. CASE FailRound(r)
  BY <1>17a, <1>s DEF FailRound, Return, At
<1>17b. CASE FinishRound(r)
  BY <1>17b, <1>s DEF FinishRound, Return, At
<1>17c. CASE Deliver(r)
  BY <1>17c, <1>s DEF Deliver, Return, At
<1>18a. CASE DeliverFails(r)
  BY <1>18a, <1>s DEF DeliverFails, Goto, Return, At
<1>18b. CASE SettleCarry(r)
  BY <1>18b, <1>s DEF SettleCarry, Goto, Return, At
<1>19. CASE EndRound(r)
  <2>1. \A f \in Entries : entry'[f].lock = entry[f].lock \/ entry[f].lock = r
    BY <1>19 DEF EndRound, At
  <2>2. /\ round[r].pc = "end" /\ round'[r].pc = "done"
        /\ \A s \in Rounds \ {r} : round'[s] = round[s]
    BY <1>19 DEF EndRound, FreshRound, At
  <2>3. \A s \in Rounds \ {r} : round[s].pc \in Owning => entry'[round[s].entry].lock = s
    BY <2>1
  <2>4. \A s \in Rounds \ {r} : round[s].pc \in Evicting => entry'[round[s].victim].lock = s
    BY <2>1
  <2>5. sweep.pc \in Sweeping => entry'[sweep.entry].lock = Sweeper
    BY <2>1
  <2> QED BY <1>s, <2>2, <2>3, <2>4, <2>5
<1> QED
  BY <1>1a, <1>1b, <1>1c, <1>1d, <1>2, <1>3, <1>4, <1>5, <1>6, <1>7, <1>8, <1>9a, <1>9b,
     <1>9c, <1>10a, <1>10b, <1>11, <1>12, <1>13, <1>14a, <1>14b, <1>14c, <1>15, <1>16,
     <1>17a, <1>17b, <1>17c, <1>18a, <1>18b, <1>19 DEF Step

\* The sweep takes only a lock nobody holds and gives back only its own.
LEMMA LockedOutside ==
  ASSUME WellTyped, Locked,
         \/ \E r \in Rounds : CallerGone(r)
         \/ \E e \in Entries : CloseRunner(e) \/ Disturb(e) \/ Gather(e)
         \/ Sweep \/ Close \/ TimePasses
  PROVE  Locked'
<1> USE NamesAssumption
        DEF WellTyped, EntryType, EntryRecord, Known, Locked, Sweeping
<1>0. sweep \in SweepRecord
  BY DEF OtherTypes
<1>1. CASE UNCHANGED <<round, entry, sweep>>
  BY <1>1
<1>2. CASE \/ \E r \in Rounds : CallerGone(r)
           \/ \E e \in Entries : CloseRunner(e)
           \/ TimePasses
  BY <1>1, <1>2 DEF CallerGone, CloseRunner, TimePasses
<1>3. CASE \E e \in Entries : Disturb(e) \/ Gather(e)
  BY <1>3 DEF Disturb, Gather, SetState, Owning, Running, Evicting
<1>4. CASE Close
  <2>1. \A f \in Entries : entry'[f].lock = entry[f].lock
    BY <1>4 DEF Close
  <2>2. UNCHANGED <<round, sweep>>
    BY <1>4 DEF Close
  <2> QED BY <2>1, <2>2 DEF Owning, Running, Evicting
<1>5. CASE SweepStarts
  BY <1>5 DEF SweepStarts
<1>6. CASE SweepChooses
  <2>1. CASE UNCHANGED entry /\ sweep'.pc \notin Sweeping
    BY <1>6, <2>1 DEF SweepChooses
  <2>2. ASSUME NEW f \in sweep.targets, entry[f].lock = Free, sweep'.entry = f,
               entry' = [entry EXCEPT ![f].lock = Sweeper]
        PROVE  Locked'
    <3>1. f \in Entries
      BY <1>0 DEF SweepRecord
    <3>2. \A g \in Entries : entry[g].lock # Free => entry'[g].lock = entry[g].lock
      BY <2>2, <3>1
    <3>3. UNCHANGED round
      BY <1>6 DEF SweepChooses
    <3> QED BY <2>2, <3>1, <3>2, <3>3 DEF Owning, Running, Evicting
  <2> QED BY <1>6, <1>0, <2>1, <2>2 DEF SweepChooses, MayTake, SweepRecord
<1>7. CASE SweepJudges
  BY <1>7, <1>0 DEF SweepJudges, SweepGoto, Release, SweepRecord
<1>8. CASE SweepDrops
  BY <1>8, <1>0 DEF SweepDrops, SweepGoto, DetachAndFree, SweepRecord
<1>9. CASE SweepDropped
  BY <1>9, <1>0 DEF SweepDropped, SweepGoto, Carrying, SweepRecord
<1>10. CASE SweepRemoves
  BY <1>10, <1>0 DEF SweepRemoves, SweepGoto, SweepRecord
<1> QED
  BY <1>2, <1>3, <1>4, <1>5, <1>6, <1>7, <1>8, <1>9, <1>10 DEF Sweep

\* Every step keeps the second layer.
LEMMA LockedNext == WellTyped /\ Locked /\ [Next]_vars => Locked'
<1> SUFFICES ASSUME WellTyped, Locked, [Next]_vars PROVE Locked'
  OBVIOUS
<1>1. CASE UNCHANGED vars
  BY <1>1 DEF vars, Locked
<1> QED BY <1>1, LockedStep, LockedOutside DEF Next

-----------------------------------------------------------------------------
(***************************************************************************)
(* The third layer: at which steps a round holds a slot, and whether its   *)
(* entry has a session there.                                              *)
(***************************************************************************)
Rebuilding == {"closeOld", "reserve", "waitSlot", "start"} \cup Evicting
Served == {"extend", "finish", "deliver", "settle"}

\* Without a session: the round is about to rebuild, and the entry has none.
Without(r) == round[r].pc \in Rebuilding \/ (round[r].pc = "steps" /\ ~round[r].warm)

\* With one: the one the round keeps or has started.
With(r) == round[r].pc \in Served \/ (round[r].pc = "steps" /\ round[r].warm)

Staged ==
  /\ \A r \in Rounds : round[r].holdsSlot =>
       round[r].pc \in {"closeOld", "steps", "start", "fail", "end"} /\ ~round[r].warm
  /\ \A r \in Rounds : round[r].warm =>
       round[r].pc \in {"steps", "replace", "fail", "end"} \cup Served
  /\ \A r \in Rounds : round[r].pc = "start" => round[r].holdsSlot
  /\ \A r \in Rounds : Without(r) => entry[round[r].entry].runner = "none"
  /\ \A r \in Rounds : With(r) /\ ~closed => entry[round[r].entry].runner # "none"
  /\ sweep.pc = "remove" => entry[sweep.entry].runner = "none"
  /\ closed => \A e \in Entries : entry[e].runner = "none"

\* A round keeps its own stage and, thanks to the locks, everyone else's.
LEMMA StagedStep ==
  ASSUME WellTyped, Locked, Staged, NEW r \in Rounds, Step(r) \/ Acquire(r)
  PROVE  Staged'
<1> USE NamesAssumption
        DEF WellTyped, RoundType, RoundRecord, EntryType, EntryRecord, Known, Locked, Owning,
            Running, Evicting, Sweeping, Staged, Without, With, Rebuilding, Served
<1> DEFINE e == round[r].entry
<1>s. UNCHANGED <<sweep, closed>>
  BY RoundLeaves
<1>1. CASE EnterClosed(r)
  BY <1>1, <1>s DEF EnterClosed, Return, At
<1>2. CASE Enter(r)
  <2>1. PICK f \in EntryFor(conversation(r)) :
          /\ \/ Return(r, "enter", "done", "superseded")
             \/ /\ At(r, "enter")
                /\ round' = [round EXCEPT ![r].pc = "acquire", ![r].entry = f]
          /\ \A g \in Entries : entry'[g].runner = entry[g].runner
    <3>1. PICK f \in EntryFor(conversation(r)) :
            LET used == IF f \in Unused THEN [entry EXCEPT ![f].lastUsed = now] ELSE entry
            IN  \/ /\ Return(r, "enter", "done", "superseded")
                   /\ entry' = used
                \/ /\ At(r, "enter")
                   /\ round' = [round EXCEPT ![r].pc = "acquire", ![r].entry = f]
                   /\ entry' = [used EXCEPT ![f].highestFence = fence(r)]
      BY <1>2 DEF Enter
    <3>2. \A g \in Entries : entry'[g].runner = entry[g].runner
      BY <3>1
    <3> QED BY <3>1, <3>2
  <2>2. CASE Return(r, "enter", "done", "superseded")
    BY <1>s, <2>1, <2>2 DEF Return, At
  <2>3. CASE At(r, "enter") /\ round' = [round EXCEPT ![r].pc = "acquire", ![r].entry = f]
    BY <1>s, <2>1, <2>3 DEF At
  <2> QED BY <2>1, <2>2, <2>3
<1>3. CASE AcquireGivesUp(r)
  BY <1>3, <1>s DEF AcquireGivesUp, Return, At
<1>4. CASE Check(r)
  <2>1. CASE Return(r, "check", "done", "superseded") /\ Release(e)
    BY <1>s, <2>1 DEF Release, Return, At
  <2>2. CASE Goto(r, "check", "enter") /\ Release(e)
    BY <1>s, <2>2 DEF Release, Goto, At
  <2>3. CASE Goto(r, "check", "begin") /\ UNCHANGED entry
    BY <1>s, <2>3 DEF Goto, At
  <2> QED BY <1>4, <2>1, <2>2, <2>3 DEF Check
<1>5. CASE BeginRound(r)
  BY <1>5, <1>s DEF BeginRound, Goto, At
<1>6. CASE PlanRound(r)
  <2>1. \A f \in Entries : entry'[f].runner = entry[f].runner
    <3>1. CASE entry' = [entry EXCEPT ![e] = Carrying(e, {})]
      BY <3>1 DEF Carrying
    <3> QED BY <1>6, <3>1 DEF PlanRound
  <2>2. CASE Goto(r, "plan", "steps") /\ e \notin Warm
    BY <1>s, <2>1, <2>2 DEF Goto, At, Warm
  <2>3. CASE Goto(r, "plan", "replace")
    BY <1>s, <2>1, <2>3 DEF Goto, At
  <2>4. CASE /\ e \in Warm /\ At(r, "plan")
             /\ round' = [round EXCEPT ![r].pc = "steps", ![r].warm = TRUE]
    BY <1>s, <2>1, <2>4 DEF At, Warm
  <2> QED BY <1>6, <2>2, <2>3, <2>4 DEF PlanRound
<1>7. CASE Replace(r)
  <2>1. \A f \in Entries : entry'[f].runner = IF f = e THEN "none" ELSE entry[f].runner
    BY <1>7 DEF Replace, At
  <2>2. /\ round[r].pc = "replace" /\ ~round'[r].warm /\ round'[r].entry = e
        /\ round'[r].pc = "closeOld" \/ round'[r].pc = "steps"
        /\ round'[r].holdsSlot => round'[r].pc = "closeOld"
        /\ \A s \in Rounds \ {r} : round'[s] = round[s]
    BY <1>7 DEF Replace, At
  <2> QED BY <1>s, <2>1, <2>2
<1>8. CASE CloseOld(r)
  BY <1>8, <1>s DEF CloseOld, Carrying, Goto, At
<1>9. CASE OutOfBudget(r)
  BY <1>9, <1>s DEF OutOfBudget, Return, At
<1>10. CASE ExtendStarts(r)
  BY <1>10, <1>s DEF ExtendStarts, SetState, Goto, At
<1>11. CASE ExtendEnds(r)
  BY <1>11, <1>s DEF ExtendEnds, SetState, StateAfter, At
<1>12. CASE ExtendFails(r)
  <2>1. \A f \in Entries : (entry'[f].runner = "none") <=> (entry[f].runner = "none")
    BY <1>12 DEF ExtendFails, SetState
  <2>2. CASE Return(r, "extend", "fail", "failed")
    BY <1>s, <2>1, <2>2 DEF Return, At
  <2>3. CASE /\ At(r, "extend")
             /\ round' = [round EXCEPT ![r].pc = "replace", ![r].isRebuiltOnce = TRUE]
    BY <1>s, <2>1, <2>3 DEF At
  <2> QED BY <1>12, <2>2, <2>3 DEF ExtendFails
<1>13. CASE Rebuild(r)
  BY <1>13, <1>s DEF Rebuild, Goto, At
<1>14. CASE ReserveFree(r)
  BY <1>14, <1>s DEF ReserveFree, At
<1>15. CASE ReserveEvicts(r)
  BY <1>15, <1>s DEF ReserveEvicts, At
<1>16. CASE ReserveWaits(r)
  BY <1>16, <1>s DEF ReserveWaits, Goto, At
<1>17. CASE Evict(r)
  <2>1. \A f \in Entries :
          entry'[f].runner = IF f = round[r].victim THEN "none" ELSE entry[f].runner
    BY <1>17 DEF Evict, DetachAndFree, Goto, At
  <2>2. /\ round[r].pc = "evict" /\ round' = [round EXCEPT ![r].pc = "closeVictim"]
    BY <1>17 DEF Evict, Goto, At
  <2> QED BY <1>s, <2>1, <2>2
<1>18. CASE CloseVictim(r)
  BY <1>18, <1>s DEF CloseVictim, Carrying, At
<1>19. CASE Woken(r)
  BY <1>19, <1>s DEF Woken, Goto, At
<1>20. CASE SlotTimeout(r)
  BY <1>20, <1>s DEF SlotTimeout, Return, At
<1>21. CASE SlotCancelled(r)
  BY <1>21, <1>s DEF SlotCancelled, Return, At
<1>22. CASE FactoryStarts(r)
  <2>1. \A f \in Entries : f # e => entry'[f].runner = entry[f].runner
    BY <1>22 DEF FactoryStarts
  <2>2. entry'[e].runner # "none"
    BY <1>22 DEF FactoryStarts, StateAfter, At
  <2>3. /\ round[r].pc = "start" /\ round'[r].pc = "finish" /\ round'[r].entry = e
        /\ round'[r].warm /\ ~round'[r].holdsSlot
        /\ \A s \in Rounds \ {r} : round'[s] = round[s]
    BY <1>22 DEF FactoryStarts, At
  <2>4. ~closed
    BY <1>22 DEF FactoryStarts, MayInstall
  <2>5. \A s \in Rounds \ {r} : Without(s)' => entry'[round'[s].entry].runner = "none"
    BY <2>1, <2>3
  <2>6. \A s \in Rounds : With(s)' /\ ~closed => entry'[round'[s].entry].runner # "none"
    BY <2>1, <2>2, <2>3
  <2>7. sweep.pc = "remove" => entry'[sweep.entry].runner = "none"
    BY <2>1, <2>3
  <2> QED BY <1>s, <2>3, <2>4, <2>5, <2>6, <2>7
<1>23. CASE FactoryFails(r)
  BY <1>23, <1>s DEF FactoryFails, At
<1>24. CASE FailRound(r)
  BY <1>24, <1>s DEF FailRound, Return, At
<1>25. CASE FinishRound(r)
  BY <1>25, <1>s DEF FinishRound, At
<1>26. CASE Deliver(r)
  BY <1>26, <1>s DEF Deliver, Return, At
<1>27. CASE DeliverFails(r)
  BY <1>27, <1>s DEF DeliverFails, Return, At
<1>28. CASE SettleCarry(r)
  BY <1>28, <1>s DEF SettleCarry, Goto, At
<1>29. CASE EndRound(r)
  <2>1. \A f \in Entries : entry'[f].runner = entry[f].runner
    BY <1>29 DEF EndRound
  <2>2. /\ round[r].pc = "end" /\ round'[r].pc = "done"
        /\ ~round'[r].warm /\ ~round'[r].holdsSlot
        /\ \A s \in Rounds \ {r} : round'[s] = round[s]
    BY <1>29 DEF EndRound, FreshRound, At
  <2> QED BY <1>s, <2>1, <2>2
<1>30. CASE Acquire(r)
  BY <1>30, <1>s DEF Acquire, Goto, At
<1> QED
  BY <1>1, <1>2, <1>3, <1>4, <1>5, <1>6, <1>7, <1>8, <1>9, <1>10, <1>11, <1>12, <1>13, <1>14,
     <1>15, <1>16, <1>17, <1>18, <1>19, <1>20, <1>21, <1>22, <1>23, <1>24, <1>25, <1>26, <1>27,
     <1>28, <1>29, <1>30 DEF Step

\* The sweep drops no session of a round's; Close drops all of them.
LEMMA StagedOutside ==
  ASSUME WellTyped, Locked, Staged,
         \/ \E r \in Rounds : CallerGone(r)
         \/ \E e \in Entries : CloseRunner(e) \/ Disturb(e) \/ Gather(e)
         \/ Sweep \/ Close \/ TimePasses
  PROVE  Staged'
<1> USE NamesAssumption
        DEF WellTyped, EntryType, EntryRecord, Known, Locked, Sweeping, Staged
<1>0. sweep \in SweepRecord
  BY DEF OtherTypes
<1>1. CASE UNCHANGED <<round, entry, sweep, closed>>
  BY <1>1 DEF Without, With
<1>2. CASE \/ \E r \in Rounds : CallerGone(r)
           \/ \E e \in Entries : CloseRunner(e)
           \/ TimePasses
  BY <1>1, <1>2 DEF CallerGone, CloseRunner, TimePasses
<1>3. CASE \E e \in Entries : Disturb(e) \/ Gather(e)
  <2>1. \A f \in Entries : (entry'[f].runner = "none") <=> (entry[f].runner = "none")
    BY <1>3 DEF Disturb, Gather, SetState
  <2>2. UNCHANGED <<round, sweep, closed>>
    BY <1>3 DEF Disturb, Gather
  <2> QED BY <2>1, <2>2 DEF Without, With, Owning, Running, Rebuilding, Served, Evicting
<1>4. CASE Close
  <2>1. \A f \in Entries : entry'[f].runner = "none"
    <3>1. ASSUME NEW f \in Entries, entry[f].runner # "none" PROVE entry'[f].runner = "none"
      <4>1. entry'[f] = [entry[f] EXCEPT !.runner = "none", !.gathered = {}]
        BY <1>4, <3>1 DEF Close, Warm
      <4> QED BY <4>1
    <3>2. ASSUME NEW f \in Entries, entry[f].runner = "none" PROVE entry'[f].runner = "none"
      BY <1>4, <3>2 DEF Close, Warm
    <3> QED BY <3>1, <3>2
  <2>2. UNCHANGED <<round, sweep>> /\ closed'
    BY <1>4 DEF Close
  <2> QED BY <2>1, <2>2 DEF Without, With, Owning, Running, Rebuilding, Served, Evicting
<1>5. CASE SweepStarts
  BY <1>5 DEF SweepStarts, Without, With
<1>6. CASE SweepChooses \/ SweepJudges \/ SweepDropped \/ SweepRemoves
  <2>1. \A f \in Entries : entry'[f].runner = entry[f].runner
    <3>1. CASE SweepChooses
      <4>1. ASSUME NEW f, entry' = [entry EXCEPT ![f].lock = Sweeper]
            PROVE  \A g \in Entries : entry'[g].runner = entry[g].runner
        BY <4>1
      <4> QED BY <3>1, <4>1 DEF SweepChooses
    <3>2. CASE SweepJudges
      BY <3>2 DEF SweepJudges, Release
    <3>3. CASE SweepDropped
      BY <3>3 DEF SweepDropped, Carrying
    <3>4. CASE SweepRemoves
      BY <3>4 DEF SweepRemoves
    <3> QED BY <1>6, <3>1, <3>2, <3>3, <3>4
  <2>2. UNCHANGED <<round, closed>>
    BY <1>6 DEF SweepChooses, SweepJudges, SweepDropped, SweepRemoves
  <2>3. sweep'.pc = "remove" => entry[sweep'.entry].runner = "none" /\ sweep'.entry \in Entries
    <3>1. CASE SweepChooses
      <4>1. sweep'.pc \in {"idle", "choose", "judge"}
        BY <1>0, <3>1 DEF SweepChooses, SweepRecord
      <4> QED BY <4>1
    <3>2. CASE SweepJudges
      BY <1>0, <3>2 DEF SweepJudges, SweepGoto, Warm, SweepRecord
    <3>3. CASE SweepDropped \/ SweepRemoves
      BY <1>0, <3>3 DEF SweepDropped, SweepRemoves, SweepGoto, SweepRecord
    <3> QED BY <1>6, <3>1, <3>2, <3>3
  <2> QED BY <2>1, <2>2, <2>3
          DEF Without, With, Owning, Running, Rebuilding, Served, Evicting
<1>7. CASE SweepDrops
  <2>1. sweep.entry \in Entries /\ entry[sweep.entry].lock = Sweeper /\ sweep'.pc = "dropped"
    BY <1>7, <1>0 DEF SweepDrops, SweepGoto, SweepRecord
  <2>2. \A f \in Entries : entry'[f].runner =
                             IF f = sweep.entry THEN "none" ELSE entry[f].runner
    BY <1>7, <2>1 DEF SweepDrops, DetachAndFree
  <2>3. UNCHANGED <<round, closed>>
    BY <1>7 DEF SweepDrops
  <2> QED BY <2>1, <2>2, <2>3
          DEF Without, With, Owning, Running, Rebuilding, Served, Evicting
<1> QED
  BY <1>2, <1>3, <1>4, <1>5, <1>6, <1>7 DEF Sweep

\* Every step keeps the third layer.
LEMMA StagedNext == WellTyped /\ Locked /\ Staged /\ [Next]_vars => Staged'
<1> SUFFICES ASSUME WellTyped, Locked, Staged, [Next]_vars PROVE Staged'
  OBVIOUS
<1>1. CASE UNCHANGED vars
  BY <1>1 DEF vars, Staged, Without, With
<1> QED BY <1>1, StagedStep, StagedOutside DEF Next

-----------------------------------------------------------------------------
(***************************************************************************)
(* The counters.  Every step changes the warm entries, the slot holders    *)
(* and the two counters together, in one of seven ways.                    *)
(***************************************************************************)
Counted ==
  /\ live = Cardinality(Warm)
  /\ reserved = Cardinality(SlotHolders)
  /\ live + reserved <= MaxWarm

Quiet ==
  UNCHANGED <<Warm, SlotHolders, live, reserved, closed>>
Reserved(r) ==
  /\ r \notin SlotHolders /\ live + reserved < MaxWarm
  /\ SlotHolders' = SlotHolders \cup {r} /\ reserved' = reserved + 1
  /\ UNCHANGED <<Warm, live, closed>>
Installed(r, e) ==
  /\ r \in SlotHolders /\ e \notin Warm /\ ~closed
  /\ Warm' = Warm \cup {e} /\ live' = live + 1
  /\ SlotHolders' = SlotHolders \ {r} /\ reserved' = reserved - 1
  /\ UNCHANGED closed
GivenUp(r) ==
  /\ r \in SlotHolders
  /\ SlotHolders' = SlotHolders \ {r} /\ reserved' = reserved - 1
  /\ UNCHANGED <<Warm, live, closed>>
Dropped(e) ==
  /\ e \in Warm
  /\ Warm' = Warm \ {e} /\ live' = live - 1
  /\ UNCHANGED <<SlotHolders, reserved, closed>>
Swapped(r, e) ==
  /\ e \in Warm /\ r \notin SlotHolders
  /\ Warm' = Warm \ {e} /\ live' = live - 1
  /\ SlotHolders' = SlotHolders \cup {r} /\ reserved' = reserved + 1
  /\ UNCHANGED closed
ShutDown ==
  /\ ~closed /\ closed'
  /\ Warm' = {} /\ live' = 0
  /\ UNCHANGED <<SlotHolders, reserved>>

PoolChange ==
  \/ Quiet \/ ShutDown
  \/ \E r \in Rounds : Reserved(r) \/ GivenUp(r)
                       \/ \E e \in Entries : Installed(r, e) \/ Swapped(r, e)
  \/ \E e \in Entries : Dropped(e)

\* The sets move as one entry's runner and one round's holdsSlot do.
LEMMA WarmMoves ==
  /\ (\A f \in Entries : (entry'[f].runner = "none") <=> (entry[f].runner = "none"))
       => Warm' = Warm
  /\ \A e \in Entries :
       (\A f \in Entries \ {e} : entry'[f].runner = entry[f].runner) =>
         /\ entry'[e].runner = "none" => Warm' = Warm \ {e}
         /\ entry'[e].runner # "none" => Warm' = Warm \cup {e}
  BY DEF Warm

\* The same of the rounds that hold a slot.
LEMMA HoldersMove ==
  /\ (\A s \in Rounds : round'[s].holdsSlot = round[s].holdsSlot)
       => SlotHolders' = SlotHolders
  /\ \A r \in Rounds :
       (\A s \in Rounds \ {r} : round'[s] = round[s]) =>
         /\ ~round'[r].holdsSlot => SlotHolders' = SlotHolders \ {r}
         /\ round'[r].holdsSlot => SlotHolders' = SlotHolders \cup {r}
  BY DEF SlotHolders

\* One step of a round.
LEMMA PoolStep ==
  ASSUME WellTyped, Locked, Staged, NEW r \in Rounds, Step(r) \/ Acquire(r)
  PROVE  PoolChange
<1> USE DEF WellTyped, RoundType, RoundRecord, EntryType, EntryRecord
<1> DEFINE e == round[r].entry
<1>s. UNCHANGED closed
  BY RoundLeaves
<1>q. ASSUME \A f \in Entries : (entry'[f].runner = "none") <=> (entry[f].runner = "none"),
             \A s \in Rounds : round'[s].holdsSlot = round[s].holdsSlot,
             UNCHANGED <<live, reserved>>
      PROVE  PoolChange
  BY <1>s, <1>q, WarmMoves, HoldersMove DEF PoolChange, Quiet
<1>3. CASE EnterClosed(r)
  <2>1. \A f \in Entries : (entry'[f].runner = "none") <=> (entry[f].runner = "none")
    BY <1>3 DEF EnterClosed
  <2>2. \A s \in Rounds : round'[s].holdsSlot = round[s].holdsSlot
    BY <1>3 DEF EnterClosed, Return
  <2>3. UNCHANGED <<live, reserved>>
    BY <1>3 DEF EnterClosed, pool
  <2> QED BY <2>1, <2>2, <2>3, <1>q
<1>4. CASE AcquireGivesUp(r)
  <2>1. \A f \in Entries : (entry'[f].runner = "none") <=> (entry[f].runner = "none")
    BY <1>4 DEF AcquireGivesUp
  <2>2. \A s \in Rounds : round'[s].holdsSlot = round[s].holdsSlot
    BY <1>4 DEF AcquireGivesUp, Return
  <2>3. UNCHANGED <<live, reserved>>
    BY <1>4 DEF AcquireGivesUp, pool
  <2> QED BY <2>1, <2>2, <2>3, <1>q
<1>5. CASE OutOfBudget(r)
  <2>1. \A f \in Entries : (entry'[f].runner = "none") <=> (entry[f].runner = "none")
    BY <1>5 DEF OutOfBudget
  <2>2. \A s \in Rounds : round'[s].holdsSlot = round[s].holdsSlot
    BY <1>5 DEF OutOfBudget, Return
  <2>3. UNCHANGED <<live, reserved>>
    BY <1>5 DEF OutOfBudget, pool
  <2> QED BY <2>1, <2>2, <2>3, <1>q
<1>6. CASE Rebuild(r)
  <2>1. \A f \in Entries : (entry'[f].runner = "none") <=> (entry[f].runner = "none")
    BY <1>6 DEF Rebuild
  <2>2. \A s \in Rounds : round'[s].holdsSlot = round[s].holdsSlot
    BY <1>6 DEF Rebuild, Goto
  <2>3. UNCHANGED <<live, reserved>>
    BY <1>6 DEF Rebuild, pool
  <2> QED BY <2>1, <2>2, <2>3, <1>q
<1>7. CASE ReserveWaits(r)
  <2>1. \A f \in Entries : (entry'[f].runner = "none") <=> (entry[f].runner = "none")
    BY <1>7 DEF ReserveWaits
  <2>2. \A s \in Rounds : round'[s].holdsSlot = round[s].holdsSlot
    BY <1>7 DEF ReserveWaits, Goto
  <2>3. UNCHANGED <<live, reserved>>
    BY <1>7 DEF ReserveWaits, pool
  <2> QED BY <2>1, <2>2, <2>3, <1>q
<1>8. CASE Woken(r)
  <2>1. \A f \in Entries : (entry'[f].runner = "none") <=> (entry[f].runner = "none")
    BY <1>8 DEF Woken
  <2>2. \A s \in Rounds : round'[s].holdsSlot = round[s].holdsSlot
    BY <1>8 DEF Woken, Goto
  <2>3. UNCHANGED <<live, reserved>>
    BY <1>8 DEF Woken, pool
  <2> QED BY <2>1, <2>2, <2>3, <1>q
<1>9. CASE SlotTimeout(r)
  <2>1. \A f \in Entries : (entry'[f].runner = "none") <=> (entry[f].runner = "none")
    BY <1>9 DEF SlotTimeout
  <2>2. \A s \in Rounds : round'[s].holdsSlot = round[s].holdsSlot
    BY <1>9 DEF SlotTimeout, Return
  <2>3. UNCHANGED <<live, reserved>>
    BY <1>9 DEF SlotTimeout, pool
  <2> QED BY <2>1, <2>2, <2>3, <1>q
<1>10. CASE SlotCancelled(r)
  <2>1. \A f \in Entries : (entry'[f].runner = "none") <=> (entry[f].runner = "none")
    BY <1>10 DEF SlotCancelled
  <2>2. \A s \in Rounds : round'[s].holdsSlot = round[s].holdsSlot
    BY <1>10 DEF SlotCancelled, Return
  <2>3. UNCHANGED <<live, reserved>>
    BY <1>10 DEF SlotCancelled, pool
  <2> QED BY <2>1, <2>2, <2>3, <1>q
<1>11. CASE Deliver(r)
  <2>1. \A f \in Entries : (entry'[f].runner = "none") <=> (entry[f].runner = "none")
    BY <1>11 DEF Deliver
  <2>2. \A s \in Rounds : round'[s].holdsSlot = round[s].holdsSlot
    BY <1>11 DEF Deliver, Return
  <2>3. UNCHANGED <<live, reserved>>
    BY <1>11 DEF Deliver, pool
  <2> QED BY <2>1, <2>2, <2>3, <1>q
<1>12. CASE BeginRound(r)
  <2>1. \A f \in Entries : (entry'[f].runner = "none") <=> (entry[f].runner = "none")
    BY <1>12 DEF BeginRound
  <2>2. \A s \in Rounds : round'[s].holdsSlot = round[s].holdsSlot
    BY <1>12 DEF BeginRound, Goto
  <2>3. UNCHANGED <<live, reserved>>
    BY <1>12 DEF BeginRound, pool
  <2> QED BY <2>1, <2>2, <2>3, <1>q
<1>13. CASE CloseOld(r)
  <2>1. \A f \in Entries : (entry'[f].runner = "none") <=> (entry[f].runner = "none")
    BY <1>13 DEF CloseOld, Carrying
  <2>2. \A s \in Rounds : round'[s].holdsSlot = round[s].holdsSlot
    BY <1>13 DEF CloseOld, Goto
  <2>3. UNCHANGED <<live, reserved>>
    BY <1>13 DEF CloseOld, pool
  <2> QED BY <2>1, <2>2, <2>3, <1>q
<1>14. CASE CloseVictim(r)
  <2>1. \A f \in Entries : (entry'[f].runner = "none") <=> (entry[f].runner = "none")
    BY <1>14 DEF CloseVictim, Carrying
  <2>2. \A s \in Rounds : round'[s].holdsSlot = round[s].holdsSlot
    BY <1>14 DEF CloseVictim, Goto
  <2>3. UNCHANGED <<live, reserved>>
    BY <1>14 DEF CloseVictim, pool
  <2> QED BY <2>1, <2>2, <2>3, <1>q
<1>15. CASE ExtendStarts(r)
  <2>1. \A f \in Entries : (entry'[f].runner = "none") <=> (entry[f].runner = "none")
    BY <1>15 DEF ExtendStarts, SetState, StateAfter
  <2>2. \A s \in Rounds : round'[s].holdsSlot = round[s].holdsSlot
    BY <1>15 DEF ExtendStarts, Goto
  <2>3. UNCHANGED <<live, reserved>>
    BY <1>15 DEF ExtendStarts, pool
  <2> QED BY <2>1, <2>2, <2>3, <1>q
<1>16. CASE ExtendEnds(r)
  <2>1. \A f \in Entries : (entry'[f].runner = "none") <=> (entry[f].runner = "none")
    BY <1>16 DEF ExtendEnds, SetState, StateAfter
  <2>2. \A s \in Rounds : round'[s].holdsSlot = round[s].holdsSlot
    BY <1>16 DEF ExtendEnds, Goto
  <2>3. UNCHANGED <<live, reserved>>
    BY <1>16 DEF ExtendEnds, pool
  <2> QED BY <2>1, <2>2, <2>3, <1>q
<1>17. CASE FailRound(r)
  <2>1. \A f \in Entries : (entry'[f].runner = "none") <=> (entry[f].runner = "none")
    BY <1>17 DEF FailRound
  <2>2. \A s \in Rounds : round'[s].holdsSlot = round[s].holdsSlot
    BY <1>17 DEF FailRound, Return
  <2>3. UNCHANGED <<live, reserved>>
    BY <1>17 DEF FailRound, pool
  <2> QED BY <2>1, <2>2, <2>3, <1>q
<1>18. CASE FinishRound(r)
  <2>1. \A f \in Entries : (entry'[f].runner = "none") <=> (entry[f].runner = "none")
    BY <1>18 DEF FinishRound
  <2>2. \A s \in Rounds : round'[s].holdsSlot = round[s].holdsSlot
    BY <1>18 DEF FinishRound, Goto
  <2>3. UNCHANGED <<live, reserved>>
    BY <1>18 DEF FinishRound, pool
  <2> QED BY <2>1, <2>2, <2>3, <1>q
<1>19. CASE DeliverFails(r)
  <2>1. \A f \in Entries : (entry'[f].runner = "none") <=> (entry[f].runner = "none")
    BY <1>19 DEF DeliverFails
  <2>2. \A s \in Rounds : round'[s].holdsSlot = round[s].holdsSlot
    BY <1>19 DEF DeliverFails, Return
  <2>3. UNCHANGED <<live, reserved>>
    BY <1>19 DEF DeliverFails, pool
  <2> QED BY <2>1, <2>2, <2>3, <1>q
<1>20. CASE SettleCarry(r)
  <2>1. \A f \in Entries : (entry'[f].runner = "none") <=> (entry[f].runner = "none")
    BY <1>20 DEF SettleCarry
  <2>2. \A s \in Rounds : round'[s].holdsSlot = round[s].holdsSlot
    BY <1>20 DEF SettleCarry, Goto
  <2>3. UNCHANGED <<live, reserved>>
    BY <1>20 DEF SettleCarry, pool
  <2> QED BY <2>1, <2>2, <2>3, <1>q
<1>21. CASE Acquire(r)
  <2>1. \A f \in Entries : (entry'[f].runner = "none") <=> (entry[f].runner = "none")
    BY <1>21 DEF Acquire
  <2>2. \A s \in Rounds : round'[s].holdsSlot = round[s].holdsSlot
    BY <1>21 DEF Acquire, Goto
  <2>3. UNCHANGED <<live, reserved>>
    BY <1>21 DEF Acquire, pool
  <2> QED BY <2>1, <2>2, <2>3, <1>q
<1>22. CASE Enter(r)
  <2>1. PICK f \in EntryFor(conversation(r)) :
          LET used == IF f \in Unused THEN [entry EXCEPT ![f].lastUsed = now] ELSE entry
          IN  \/ /\ Return(r, "enter", "done", "superseded")
                 /\ entry' = used
              \/ /\ round' = [round EXCEPT ![r].pc = "acquire", ![r].entry = f]
                 /\ entry' = [used EXCEPT ![f].highestFence = fence(r)]
    BY <1>22 DEF Enter
  <2>2. \A g \in Entries : entry'[g].runner = entry[g].runner
    BY <2>1
  <2>3. \A s \in Rounds : round'[s].holdsSlot = round[s].holdsSlot
    BY <2>1 DEF Return
  <2>4. UNCHANGED <<live, reserved>>
    BY <1>22 DEF Enter, pool
  <2> QED BY <2>2, <2>3, <2>4, <1>q
<1>23. CASE Check(r)
  <2>1. \A f \in Entries : entry'[f].runner = entry[f].runner
    BY <1>23 DEF Check, Release
  <2>2. \A s \in Rounds : round'[s].holdsSlot = round[s].holdsSlot
    BY <1>23 DEF Check, Goto, Return
  <2>3. UNCHANGED <<live, reserved>>
    BY <1>23 DEF Check, pool
  <2> QED BY <2>1, <2>2, <2>3, <1>q
<1>24. CASE PlanRound(r)
  <2>1. \A f \in Entries : entry'[f].runner = entry[f].runner
    <3>1. CASE entry' = [entry EXCEPT ![e] = Carrying(e, {})]
      BY <3>1 DEF Carrying
    <3> QED BY <1>24, <3>1 DEF PlanRound
  <2>2. \A s \in Rounds : round'[s].holdsSlot = round[s].holdsSlot
    BY <1>24 DEF PlanRound, Goto
  <2>3. UNCHANGED <<live, reserved>>
    BY <1>24 DEF PlanRound, pool
  <2> QED BY <2>1, <2>2, <2>3, <1>q
<1>25. CASE Replace(r)
  <2>1. /\ round[r].pc = "replace" /\ e \in Entries /\ r \notin SlotHolders
    BY <1>25 DEF Replace, At, Known, Owning, Running, Staged, SlotHolders
  <2>2. entry'[e].runner = "none" /\ \A f \in Entries \ {e} : entry'[f].runner = entry[f].runner
    BY <1>25, <2>1 DEF Replace
  <2>3. round'[r].holdsSlot = (e \in Warm) /\ \A s \in Rounds \ {r} : round'[s] = round[s]
    BY <1>25 DEF Replace
  <2>4. Warm' = Warm \ {e}
    BY <2>1, <2>2, WarmMoves
  <2>5. CASE e \in Warm
    <3>1. SlotHolders' = SlotHolders \cup {r}
      BY <2>3, <2>5, HoldersMove
    <3>2. live' = live - 1 /\ reserved' = reserved + 1
      BY <1>25, <2>5 DEF Replace, CountDetached
    <3> QED BY <1>s, <2>1, <2>4, <2>5, <3>1, <3>2 DEF PoolChange, Swapped
  <2>6. CASE e \notin Warm
    <3>0. ~round'[r].holdsSlot
      BY <2>3, <2>6
    <3>1. SlotHolders' = SlotHolders \ {r}
      BY <2>3, <3>0, HoldersMove
    <3>3. SlotHolders' = SlotHolders
      BY <2>1, <3>1
    <3>2. UNCHANGED <<live, reserved>>
      BY <1>25, <2>6 DEF Replace, CountDetached
    <3> QED BY <1>s, <2>4, <2>6, <3>3, <3>2 DEF PoolChange, Quiet
  <2> QED BY <2>5, <2>6
<1>26. CASE ExtendFails(r)
  <2>1. \A f \in Entries : (entry'[f].runner = "none") <=> (entry[f].runner = "none")
    BY <1>26 DEF ExtendFails, SetState
  <2>2. \A s \in Rounds : round'[s].holdsSlot = round[s].holdsSlot
    BY <1>26 DEF ExtendFails, Return
  <2>3. UNCHANGED <<live, reserved>>
    BY <1>26 DEF ExtendFails, pool
  <2> QED BY <2>1, <2>2, <2>3, <1>q
<1>27. CASE ReserveFree(r)
  <2>1. round[r].pc = "reserve" /\ r \notin SlotHolders
    BY <1>27 DEF ReserveFree, At, Staged, SlotHolders
  <2>2. round'[r].holdsSlot /\ \A s \in Rounds \ {r} : round'[s] = round[s]
    BY <1>27 DEF ReserveFree
  <2>3. SlotHolders' = SlotHolders \cup {r}
    BY <2>2, HoldersMove
  <2>4. Warm' = Warm
    BY <1>27 DEF ReserveFree, Warm
  <2> QED BY <1>27, <1>s, <2>1, <2>3, <2>4 DEF ReserveFree, HasRoom, PoolChange, Reserved
<1>28. CASE ReserveEvicts(r)
  <2>1. \A f \in Entries : entry'[f].runner = entry[f].runner
    BY <1>28 DEF ReserveEvicts
  <2>2. \A s \in Rounds : round'[s].holdsSlot = round[s].holdsSlot
    BY <1>28 DEF ReserveEvicts
  <2>3. UNCHANGED <<live, reserved>>
    BY <1>28 DEF ReserveEvicts, pool
  <2> QED BY <2>1, <2>2, <2>3, <1>q
<1>29. CASE Evict(r)
  <2> DEFINE v == round[r].victim
  <2>1. v \in Entries
    BY <1>29 DEF Evict, Goto, At, Known, Evicting
  <2>2. entry'[v].runner = "none" /\ \A f \in Entries \ {v} : entry'[f].runner = entry[f].runner
    BY <1>29, <2>1 DEF Evict, DetachAndFree
  <2>3. Warm' = Warm \ {v}
    BY <2>1, <2>2, WarmMoves
  <2>4. \A s \in Rounds : round'[s].holdsSlot = round[s].holdsSlot
    BY <1>29 DEF Evict, Goto
  <2>5. SlotHolders' = SlotHolders
    BY <2>4, HoldersMove
  <2>6. reserved' = reserved /\ live' = IF v \in Warm THEN live - 1 ELSE live
    BY <1>29 DEF Evict, DetachAndFree, CountDetached
  <2> QED BY <1>s, <2>1, <2>3, <2>5, <2>6 DEF PoolChange, Quiet, Dropped
<1>30. CASE FactoryStarts(r)
  <2>1. round[r].pc = "start" /\ e \in Entries /\ r \in SlotHolders /\ e \notin Warm /\ ~closed
    BY <1>30 DEF FactoryStarts, MayInstall, At, Known, Owning, Running, Staged, Without,
                 Rebuilding, SlotHolders, Warm
  <2>2. entry'[e].runner # "none" /\ \A f \in Entries \ {e} : entry'[f].runner = entry[f].runner
    BY <1>30, <2>1 DEF FactoryStarts, StateAfter
  <2>3. Warm' = Warm \cup {e}
    BY <2>1, <2>2, WarmMoves
  <2>4. ~round'[r].holdsSlot /\ \A s \in Rounds \ {r} : round'[s] = round[s]
    BY <1>30 DEF FactoryStarts
  <2>5. SlotHolders' = SlotHolders \ {r}
    BY <2>4, HoldersMove
  <2>6. live' = live + 1 /\ reserved' = reserved - 1
    BY <1>30 DEF FactoryStarts
  <2> QED BY <1>s, <2>1, <2>3, <2>5, <2>6 DEF PoolChange, Installed
<1>31. CASE FactoryFails(r)
  <2>1. round[r].pc = "start" /\ r \in SlotHolders
    BY <1>31 DEF FactoryFails, At, Staged, SlotHolders
  <2>2. ~round'[r].holdsSlot /\ \A s \in Rounds \ {r} : round'[s] = round[s]
    BY <1>31 DEF FactoryFails
  <2>3. SlotHolders' = SlotHolders \ {r}
    BY <2>2, HoldersMove
  <2>4. reserved' = reserved - 1 /\ live' = live /\ Warm' = Warm
    BY <1>31 DEF FactoryFails, Warm
  <2> QED BY <1>s, <2>1, <2>3, <2>4 DEF PoolChange, GivenUp
<1>32. CASE EndRound(r)
  <2>1. Warm' = Warm
    BY <1>32 DEF EndRound, Warm
  <2>2. ~round'[r].holdsSlot /\ \A s \in Rounds \ {r} : round'[s] = round[s]
    BY <1>32 DEF EndRound, FreshRound
  <2>3. SlotHolders' = SlotHolders \ {r}
    BY <2>2, HoldersMove
  <2>4. live' = live /\ reserved' = IF r \in SlotHolders THEN reserved - 1 ELSE reserved
    BY <1>32 DEF EndRound, ReleaseHeldSlot, SlotHolders
  <2> QED BY <1>s, <2>1, <2>3, <2>4 DEF PoolChange, Quiet, GivenUp
<1> QED
  BY <1>3, <1>4, <1>5, <1>6, <1>7, <1>8, <1>9, <1>10, <1>11, <1>12, <1>13, <1>14, <1>15, <1>16,
     <1>17, <1>18, <1>19, <1>20, <1>21, <1>22, <1>23, <1>24, <1>25, <1>26, <1>27, <1>28, <1>29,
     <1>30, <1>31, <1>32 DEF Step

\* One step of anyone else.
LEMMA PoolOutside ==
  ASSUME WellTyped, Locked, Staged,
         \/ \E r \in Rounds : CallerGone(r)
         \/ \E e \in Entries : CloseRunner(e) \/ Disturb(e) \/ Gather(e)
         \/ Sweep \/ Close \/ TimePasses
  PROVE  PoolChange
<1> USE DEF WellTyped, EntryType, EntryRecord
<1>0. sweep \in SweepRecord
  BY DEF OtherTypes
<1>q. ASSUME \A f \in Entries : (entry'[f].runner = "none") <=> (entry[f].runner = "none"),
             UNCHANGED <<round, live, reserved, closed>>
      PROVE  PoolChange
  BY <1>q, WarmMoves, HoldersMove DEF PoolChange, Quiet
<1>1. CASE \/ \E r \in Rounds : CallerGone(r)
           \/ \E e \in Entries : CloseRunner(e)
           \/ SweepStarts \/ TimePasses
  BY <1>1, <1>q DEF CallerGone, CloseRunner, SweepStarts, TimePasses, pool
<1>2. CASE \E e \in Entries : Disturb(e) \/ Gather(e)
  <2>1. \A f \in Entries : (entry'[f].runner = "none") <=> (entry[f].runner = "none")
    BY <1>2 DEF Disturb, Gather, SetState
  <2> QED BY <1>2, <1>q, <2>1 DEF Disturb, Gather, pool
<1>3. CASE SweepChooses \/ SweepJudges \/ SweepDropped \/ SweepRemoves
  <2>1. \A f \in Entries : entry'[f].runner = entry[f].runner
    <3>1. CASE SweepChooses
      <4>1. ASSUME NEW f, entry' = [entry EXCEPT ![f].lock = Sweeper]
            PROVE  \A g \in Entries : entry'[g].runner = entry[g].runner
        BY <4>1
      <4> QED BY <3>1, <4>1 DEF SweepChooses
    <3>2. CASE SweepJudges
      BY <3>2 DEF SweepJudges, Release
    <3>3. CASE SweepDropped
      BY <3>3 DEF SweepDropped, Carrying
    <3>4. CASE SweepRemoves
      BY <3>4 DEF SweepRemoves
    <3> QED BY <1>3, <3>1, <3>2, <3>3, <3>4
  <2>2. UNCHANGED <<round, live, reserved, closed>>
    BY <1>3 DEF SweepChooses, SweepJudges, SweepDropped, SweepRemoves, pool
  <2> QED BY <1>q, <2>1, <2>2
<1>4. CASE SweepDrops
  <2> DEFINE v == sweep.entry
  <2>1. v \in Entries
    BY <1>4 DEF SweepDrops, SweepGoto, Known, Sweeping
  <2>2. entry'[v].runner = "none" /\ \A f \in Entries \ {v} : entry'[f].runner = entry[f].runner
    BY <1>4, <2>1 DEF SweepDrops, DetachAndFree
  <2>3. Warm' = Warm \ {v}
    BY <2>1, <2>2, WarmMoves
  <2>4. UNCHANGED <<SlotHolders, closed>>
    BY <1>4 DEF SweepDrops, SlotHolders
  <2>5. reserved' = reserved /\ live' = IF v \in Warm THEN live - 1 ELSE live
    BY <1>4 DEF SweepDrops, DetachAndFree, CountDetached
  <2> QED BY <2>1, <2>3, <2>4, <2>5 DEF PoolChange, Quiet, Dropped
<1>5. CASE Close
  <2>1. \A f \in Entries : entry'[f].runner = "none"
    BY <1>5 DEF Close, Warm
  <2>2. Warm' = {} /\ UNCHANGED SlotHolders
    BY <1>5, <2>1 DEF Close, Warm, SlotHolders
  <2> QED BY <1>5, <2>2 DEF Close, PoolChange, ShutDown
<1> QED
  BY <1>1, <1>2, <1>3, <1>4, <1>5 DEF Sweep

\* Every step is one of the seven ways.
LEMMA PoolNext == WellTyped /\ Locked /\ Staged /\ [Next]_vars => PoolChange
<1> SUFFICES ASSUME WellTyped, Locked, Staged, [Next]_vars PROVE PoolChange
  OBVIOUS
<1>1. CASE UNCHANGED vars
  BY <1>1 DEF vars, pool, PoolChange, Quiet, Warm, SlotHolders
<1> QED BY <1>1, PoolStep, PoolOutside DEF Next

\* Both sets are finite, so that their sizes are numbers.
LEMMA PoolFinite ==
  /\ IsFiniteSet(Warm) /\ Cardinality(Warm) \in Nat
  /\ IsFiniteSet(SlotHolders) /\ Cardinality(SlotHolders) \in Nat
<1>1. Warm \subseteq Entries /\ SlotHolders \subseteq Rounds
  BY DEF Warm, SlotHolders
<1> QED BY <1>1, RoundsAssumption, FS_Subset, FS_CardinalityType

\* One element more or less is one more or less in size.
LEMMA PoolSizes ==
  /\ \A r : r \notin SlotHolders => Cardinality(SlotHolders \cup {r}) = Cardinality(SlotHolders) + 1
  /\ \A r : r \in SlotHolders => Cardinality(SlotHolders \ {r}) = Cardinality(SlotHolders) - 1
  /\ \A e : e \notin Warm => Cardinality(Warm \cup {e}) = Cardinality(Warm) + 1
  /\ \A e : e \in Warm => Cardinality(Warm \ {e}) = Cardinality(Warm) - 1
  BY PoolFinite, FS_AddElement, FS_RemoveElement

\* Each of the seven ways keeps the counters true and within the limit.
LEMMA CountedNext == Counted /\ PoolChange => Counted'
<1> SUFFICES ASSUME Counted, PoolChange PROVE Counted'
  OBVIOUS
<1> USE LimitsAssumption, PoolFinite, PoolSizes DEF Counted
<1>1. CASE Quiet
  BY <1>1 DEF Quiet
<1>2. CASE ShutDown
  BY <1>2, FS_EmptySet DEF ShutDown
<1>3. ASSUME NEW r \in Rounds, Reserved(r) PROVE Counted'
  BY <1>3 DEF Reserved
<1>4. ASSUME NEW r \in Rounds, GivenUp(r) PROVE Counted'
  BY <1>4 DEF GivenUp
<1>5. ASSUME NEW r \in Rounds, NEW e \in Entries, Installed(r, e) PROVE Counted'
  BY <1>5 DEF Installed
<1>6. ASSUME NEW r \in Rounds, NEW e \in Entries, Swapped(r, e) PROVE Counted'
  BY <1>6 DEF Swapped
<1>7. ASSUME NEW e \in Entries, Dropped(e) PROVE Counted'
  BY <1>7 DEF Dropped
<1> QED BY <1>1, <1>2, <1>3, <1>4, <1>5, <1>6, <1>7 DEF PoolChange

-----------------------------------------------------------------------------
(***************************************************************************)
(* The inductive invariant and what follows from it.  The counters can     *)
(* only be followed with the stages (who gives a slot back, and whether an *)
(* entry has a session when one is installed), the stages only with the    *)
(* locks (nobody else touches the entry a round works on).                 *)
(***************************************************************************)
IInv == WellTyped /\ Locked /\ Staged /\ Counted

\* The invariant holds at the start ...
LEMMA InitInv == Init => IInv
<1> SUFFICES ASSUME Init PROVE IInv
  OBVIOUS
<1>1. Locked
  BY DEF Init, FreshRound, Locked, Owning, Running, Evicting, Sweeping
<1>2. Staged
  BY DEF Init, FreshRound, FreshEntry, Staged, Without, With, Rebuilding, Evicting, Served
<1>3. Counted
  <2>1. Warm = {} /\ SlotHolders = {}
    BY DEF Init, FreshEntry, FreshRound, Warm, SlotHolders
  <2> QED BY <2>1, FS_EmptySet, LimitsAssumption DEF Init, Counted
<1> QED BY <1>1, <1>2, <1>3, InitTyped DEF IInv

\* ... every step keeps it ...
LEMMA NextInv == IInv /\ [Next]_vars => IInv'
  BY StepTyped, LockedNext, StagedNext, PoolNext, CountedNext DEF IInv

\* ... it implies the properties ...
LEMMA InvImplies ==
  IInv => TypeOK /\ WithinLimit /\ NoSlotLeaked /\ SessionStaysWithRound /\ NothingWarmAfterClose
<1> SUFFICES ASSUME IInv
             PROVE  TypeOK /\ WithinLimit /\ NoSlotLeaked /\ SessionStaysWithRound
                    /\ NothingWarmAfterClose
  OBVIOUS
<1>0. WellTyped /\ Staged /\ Counted
  BY DEF IInv
<1>1. TypeOK
  <2>1. live \in Nat /\ reserved \in Nat
    BY <1>0, PoolFinite DEF Counted
  <2> QED BY <1>0, <2>1 DEF WellTyped, RoundType, EntryType, OtherTypes, Causes, TypeOK
<1>2. WithinLimit
  BY <1>0 DEF Counted, WithinLimit
<1>3. NoSlotLeaked
  <2>1. SUFFICES ASSUME \A r \in Rounds : round[r].pc \notin Owning
                 PROVE  reserved = 0 /\ live = Cardinality(Warm)
    BY DEF NoSlotLeaked
  <2>2. SlotHolders = {}
    BY <1>0, <2>1 DEF Staged, SlotHolders, Owning, Running
  <2> QED BY <1>0, <2>2, FS_EmptySet DEF Counted
<1>4. SessionStaysWithRound
  BY <1>0 DEF Staged, With, Served, WellTyped, Known, Owning, Running, SessionStaysWithRound, Warm
<1>5. NothingWarmAfterClose
  <2>1. closed => Warm = {}
    BY <1>0 DEF Staged, Warm
  <2> QED BY <1>0, <2>1, FS_EmptySet DEF Counted, NothingWarmAfterClose
<1> QED BY <1>1, <1>2, <1>3, <1>4, <1>5

\* ... and so it holds in every state of every behaviour.
LEMMA Invariance == Spec => []IInv
  BY InitInv, NextInv, PTL DEF Spec

\* TypeOK: every variable, and every field of every entry and round, keeps its
\* type; in particular the two counters of the table never become negative.
THEOREM TypeCorrect == Spec => []TypeOK
  BY Invariance, InvImplies, PTL

\* WithinLimit: table.live + table.reserved never exceed Limits.MaxWarm.
THEOREM LimitHolds == Spec => []WithinLimit
  BY Invariance, InvImplies, PTL

\* NoSlotLeaked: with no round under way no slot is reserved, and table.live
\* is the number of entries with a runner.
THEOREM SlotsComeBack == Spec => []NoSlotLeaked
  BY Invariance, InvImplies, PTL

\* SessionStaysWithRound: only Close takes the runner of a round that is
\* running on it; evictions and the sweep never do.
THEOREM SessionsStay == Spec => []SessionStaysWithRound
  BY Invariance, InvImplies, PTL

\* NothingWarmAfterClose: Close leaves no runner in any entry, and no start
\* that was under way adds one afterwards.
THEOREM CloseIsFinal == Spec => []NothingWarmAfterClose
  BY Invariance, InvImplies, PTL

-----------------------------------------------------------------------------
(***************************************************************************)
(* The manager implements the abstract pool.                               *)
(***************************************************************************)
LEMMA PoolStarts == Init => Pool!PoolInit
  BY DEF Init, FreshEntry, FreshRound, Warm, SlotHolders, Pool!PoolInit

\* The instance has a Cardinality of its own, with the same definition.
LEMMA SameCardinality == \A S : Pool!Cardinality(S) = Cardinality(S)
  BY DEF Pool!Cardinality, Cardinality

\* The counters stand for the sizes of the two sets, so that each of the seven
\* ways of a step is one of the pool's, or none.
LEMMA PoolMoves == Counted /\ PoolChange => [Pool!PoolNext]_Pool!poolVars
<1> SUFFICES ASSUME Counted, PoolChange PROVE [Pool!PoolNext]_Pool!poolVars
  OBVIOUS
<1>1. CASE Quiet
  BY <1>1 DEF Quiet, Pool!poolVars
<1>2. CASE ShutDown
  BY <1>2 DEF ShutDown, Pool!PoolNext, Pool!Shut
<1>3. ASSUME NEW r \in Rounds, Reserved(r) PROVE Pool!PoolNext
  <2>1. Pool!Cardinality(Warm) + Pool!Cardinality(SlotHolders) < MaxWarm
    BY <1>3, SameCardinality DEF Reserved, Counted
  <2>2. Pool!Reserve(r)
    BY <1>3, <2>1, Zenon DEF Reserved, Pool!Reserve
  <2> QED BY <2>2, Zenon DEF Pool!PoolNext
<1>4. ASSUME NEW r \in Rounds, GivenUp(r) PROVE Pool!PoolNext
  BY <1>4 DEF GivenUp, Pool!PoolNext, Pool!GiveUp
<1>5. ASSUME NEW r \in Rounds, NEW e \in Entries, Installed(r, e) PROVE Pool!PoolNext
  BY <1>5 DEF Installed, Pool!PoolNext, Pool!Start
<1>6. ASSUME NEW r \in Rounds, NEW e \in Entries, Swapped(r, e) PROVE Pool!PoolNext
  BY <1>6 DEF Swapped, Pool!PoolNext, Pool!Swap
<1>7. ASSUME NEW e \in Entries, Dropped(e) PROVE Pool!PoolNext
  BY <1>7 DEF Dropped, Pool!PoolNext, Pool!Drop
<1> QED BY <1>1, <1>2, <1>3, <1>4, <1>5, <1>6, <1>7 DEF PoolChange

\* ImplementsWarmPool: seen as the set of entries with a runner and the set of
\* rounds with a slot, the manager is the pool of WarmPool, for every number
\* of rounds, conversations and entries and every limit.
THEOREM PoolImplemented == Spec => ImplementsWarmPool
<1>1. IInv /\ [Next]_vars => [Pool!PoolNext]_Pool!poolVars
  BY PoolNext, PoolMoves DEF IInv
<1> QED
  BY <1>1, Invariance, PoolStarts, PTL DEF Spec, ImplementsWarmPool, Pool!PoolSpec

-----------------------------------------------------------------------------
(***************************************************************************)
(* More layers: which entry is in the table, what it carries, which fences *)
(* have passed, and where the usage is.  They stand on the first two.      *)
(***************************************************************************)
Begun == {"begin"} \cup Running
Entered == {"acquire"} \cup Owning

\* An entry is in the table once, until it is removed; a round that has one
\* finds it there, or removed, and goes on only with one that is not.
Housed ==
  /\ \A c \in Conversations : table[c] # None => ~entry[table[c]].removed
  /\ \A c, d \in Conversations : (table[c] # None /\ table[c] = table[d]) => c = d
  /\ \A r \in Rounds : round[r].pc \in Entered =>
       (entry[round[r].entry].removed \/ table[conversation(r)] = round[r].entry)
  /\ \A r \in Rounds : round[r].pc \in Begun => ~entry[round[r].entry].removed

\* An entry knows the highest fence that came to it, and whoever begins was
\* not below it.
Fenced ==
  /\ \A r \in Rounds : (round[r].pc \in Entered \/ round[r].answer = "delivered") =>
       (round[r].entry \in Entries /\ fence(r) <= entry[round[r].entry].highestFence)
  /\ \A r \in Rounds : round[r].answer = "delivered" => round[r].pc \in {"settle", "end", "done"}
  /\ \A r, s \in Rounds :
       (round[r].pc \in Begun /\ round[s].answer = "delivered" /\ round[r].entry = round[s].entry)
         => fence(s) <= fence(r)

\* A unit that was spent is in one place; what is billed is in no entry, but
\* for the carry of a round that has delivered and not settled.
Accounted ==
  /\ billed \subseteq spent
  /\ \A e \in Entries : entry[e].carried \subseteq spent /\ entry[e].gathered \subseteq spent
  /\ \A e \in Entries : \A u \in entry[e].gathered : u \notin billed /\ u \notin entry[e].carried
  /\ \A e, f \in Entries : e # f =>
       \A u \in entry[e].carried \cup entry[e].gathered :
         u \notin entry[f].carried /\ u \notin entry[f].gathered
  /\ \A r \in Rounds : round[r].pc \in {"deliver", "settle"} => round[r].usage = entry[round[r].entry].carried
  /\ \A r \in Rounds : (round[r].pc = "settle" /\ round[r].outcome # "refused") => round[r].usage \subseteq billed
  /\ \A e \in Entries : \A u \in entry[e].carried : u \in billed =>
       \E r \in Rounds : round[r].pc = "settle" /\ round[r].outcome # "refused" /\ round[r].entry = e

\* The ways in which a step touches these.
Unmoved == \* but for what is carried and gathered
  \A f \in Entries : entry'[f].removed = entry[f].removed /\ entry'[f].highestFence = entry[f].highestFence

KeptIn(f) == entry'[f].carried = entry[f].carried /\ entry'[f].gathered = entry[f].gathered

EntriesKept == Unmoved /\ \A f \in Entries : KeptIn(f)

Others(r) == \A s \in Rounds : s # r => round'[s] = round[s]

Onward(r) ==
  /\ Others(r)
  /\ round'[r].entry = round[r].entry
  /\ round[r].pc # "done" /\ round'[r].pc \notin {"deliver", "settle"}
  /\ round'[r].pc \in Entered => round[r].pc \in Entered
  /\ round'[r].pc \in Begun =>
       (round[r].pc \in Begun \/ (round[r].pc = "check" /\ ~IsSuperseded(r) /\ ~IsRemoved(r)))
  /\ round[r].pc # "settle"
  /\ round[r].pc = "end" => round'[r].pc = "done"
  /\ round'[r].answer = "delivered" => round[r].answer = "delivered"

Ordinary(r) == Onward(r) /\ EntriesKept /\ UNCHANGED <<table, spent, billed>>

\* Somebody works on the entry, with its lock.
Worked(f) ==
  \/ \E r \in Rounds : round[r].pc \in Begun /\ round[r].entry = f
  \/ \E r \in Rounds : round[r].pc \in Evicting /\ round[r].victim = f
  \/ sweep.pc \in Sweeping /\ sweep.entry = f

CarriesOver(e) ==
  /\ Worked(e)
  /\ Unmoved /\ \A f \in Entries : f # e => KeptIn(f)
  /\ \E flushed \in SUBSET (Units \ spent) :
       /\ spent' = spent \cup flushed
       /\ entry'[e].carried = entry[e].carried \cup entry[e].gathered \cup flushed
       /\ entry'[e].gathered = {}
  /\ \A s \in Rounds : round[s].pc \in {"deliver", "settle"} => round[s].entry # e
  /\ UNCHANGED <<table, billed>>

Collected(r) == Onward(r) /\ \E e \in Entries : CarriesOver(e)

Finished(r) ==
  /\ Others(r) /\ EntriesKept /\ UNCHANGED <<table, spent, billed>>
  /\ round[r].pc = "finish" /\ round'[r].pc = "deliver"
  /\ round'[r].entry = round[r].entry /\ round'[r].answer = round[r].answer
  /\ round'[r].usage = entry[round[r].entry].carried

Delivered(r) ==
  /\ Others(r) /\ EntriesKept /\ UNCHANGED <<table, spent>>
  /\ round[r].pc = "deliver" /\ round'[r].pc = "settle" /\ round'[r].answer = "delivered"
  /\ round'[r].entry = round[r].entry /\ round'[r].usage = round[r].usage /\ round'[r].outcome = round[r].outcome
  /\ billed' = IF round[r].outcome = "refused" THEN billed ELSE billed \cup round[r].usage

Settled(r) ==
  /\ Others(r) /\ Unmoved /\ UNCHANGED <<table, spent, billed>>
  /\ round[r].pc = "settle" /\ round'[r].pc = "end"
  /\ round'[r].entry = round[r].entry /\ round'[r].answer = round[r].answer
  /\ \A f \in Entries : f # round[r].entry => KeptIn(f)
  /\ entry'[round[r].entry].carried = SettledCarry(r)
  /\ entry'[round[r].entry].gathered = entry[round[r].entry].gathered

CameIn(r) ==
  /\ Others(r) /\ UNCHANGED <<spent, billed>>
  /\ round[r].pc = "enter"
  /\ \A f \in Entries : KeptIn(f) /\ entry'[f].removed = entry[f].removed
  /\ \E e \in Entries :
       /\ e \in EntryFor(conversation(r)) /\ table' = [table EXCEPT ![conversation(r)] = e]
       /\ \A f \in Entries : f # e => entry'[f].highestFence = entry[f].highestFence
       /\ \/ /\ round'[r].pc = "done" /\ round'[r].answer = "superseded"
             /\ entry'[e].highestFence = entry[e].highestFence
          \/ /\ round'[r].pc = "acquire" /\ round'[r].entry = e /\ round'[r].answer = round[r].answer
             /\ fence(r) >= entry[e].highestFence /\ entry'[e].highestFence = fence(r)

Aside == EntriesKept /\ UNCHANGED <<round, table, spent, billed>>

Gathered(e) ==
  /\ Unmoved /\ UNCHANGED <<round, table, billed>> /\ \A f \in Entries : f # e => KeptIn(f)
  /\ \E u \in Units \ spent :
       /\ spent' = spent \cup {u}
       /\ entry'[e].carried = entry[e].carried /\ entry'[e].gathered = entry[e].gathered \cup {u}

Removed(e) ==
  /\ UNCHANGED <<round, spent, billed>> /\ \A f \in Entries : KeptIn(f)
  /\ \A f \in Entries : entry'[f].highestFence = entry[f].highestFence
  /\ \A f \in Entries : entry'[f].removed = (entry[f].removed \/ f = e)
  /\ table' = [c \in Conversations |-> IF table[c] = e THEN None ELSE table[c]]
  /\ \A r \in Rounds : round[r].pc \in Owning => round[r].entry # e

Shutting ==
  /\ Unmoved /\ UNCHANGED <<round, table, spent, billed>> /\ closed'
  /\ \A f \in Entries :
       entry'[f].carried = entry[f].carried /\ entry'[f].gathered \in {entry[f].gathered, {}}

RoundWay(r) ==
  Ordinary(r) \/ Collected(r) \/ Finished(r) \/ Delivered(r) \/ Settled(r) \/ CameIn(r)

OutsideWay ==
  \/ Aside \/ Shutting
  \/ \E e \in Entries : Gathered(e) \/ Removed(e) \/ (CarriesOver(e) /\ UNCHANGED round)

\* Nothing changes what a round asks, and a closed manager stays closed.
LEMMA RequestsStay ==
  ASSUME [Next]_vars
  PROVE  UNCHANGED request /\ (closed => closed')
<1> USE DEF outside
<1>1. ASSUME NEW r \in Rounds, Step(r) \/ Acquire(r) PROVE UNCHANGED request
  <2>1. CASE EnterClosed(r) \/ Enter(r) \/ AcquireGivesUp(r) \/ Check(r) \/ BeginRound(r) \/ Acquire(r)
    BY <2>1 DEF EnterClosed, Enter, AcquireGivesUp, Check, BeginRound, Acquire
  <2>2. CASE \/ PlanRound(r) \/ Replace(r) \/ CloseOld(r) \/ OutOfBudget(r) \/ ExtendStarts(r)
             \/ ExtendEnds(r) \/ ExtendFails(r) \/ Rebuild(r)
    BY <2>2 DEF PlanRound, Replace, CloseOld, OutOfBudget, ExtendStarts, ExtendEnds, ExtendFails, Rebuild
  <2>3. CASE \/ ReserveFree(r) \/ ReserveEvicts(r) \/ ReserveWaits(r) \/ Evict(r)
             \/ CloseVictim(r) \/ Woken(r) \/ SlotTimeout(r) \/ SlotCancelled(r)
    BY <2>3 DEF ReserveFree, ReserveEvicts, ReserveWaits, Evict, CloseVictim, Woken, SlotTimeout, SlotCancelled
  <2>4. CASE FactoryStarts(r) \/ FactoryFails(r) \/ FailRound(r) \/ FinishRound(r)
    BY <2>4 DEF FactoryStarts, FactoryFails, FailRound, FinishRound
  <2>5. CASE Deliver(r) \/ DeliverFails(r) \/ SettleCarry(r) \/ EndRound(r)
    BY <2>5 DEF Deliver, DeliverFails, SettleCarry, EndRound
  <2> QED BY <1>1, <2>1, <2>2, <2>3, <2>4, <2>5 DEF Step
<1>2. CASE \/ \E r \in Rounds : CallerGone(r)
           \/ \E e \in Entries : CloseRunner(e) \/ Disturb(e) \/ Gather(e)
  BY <1>2 DEF CallerGone, CloseRunner, Disturb, Gather
<1>3. CASE TimePasses \/ UNCHANGED vars
  BY <1>3 DEF TimePasses, vars
<1>4. CASE Close
  <2>1. UNCHANGED outside /\ closed' = TRUE
    BY <1>4 DEF Close
  <2> QED BY <2>1
<1>5. CASE Sweep
  <2>1. SweepStarts => UNCHANGED <<outside, closed>>
    BY DEF SweepStarts
  <2>2. SweepChooses => UNCHANGED <<outside, closed>>
    BY DEF SweepChooses
  <2>3. SweepJudges => UNCHANGED <<outside, closed>>
    BY DEF SweepJudges
  <2>4. SweepDrops => UNCHANGED <<outside, closed>>
    BY DEF SweepDrops
  <2>5. SweepDropped => UNCHANGED <<outside, closed>>
    BY DEF SweepDropped
  <2>6. SweepRemoves => UNCHANGED <<outside, closed>>
    BY DEF SweepRemoves
  <2> QED BY <1>5, <2>1, <2>2, <2>3, <2>4, <2>5, <2>6 DEF Sweep
<1> QED BY <1>1, <1>2, <1>3, <1>4, <1>5, RoundLeaves DEF Next

\* A new time of last use changes nothing else of the entries.
Touched(f) == IF f \in Unused THEN [entry EXCEPT ![f].lastUsed = now] ELSE entry

LEMMA EntryTouched ==
  ASSUME EntryType, OtherTypes, NEW f \in Entries, NEW used, used = Touched(f)
  PROVE  /\ used \in [Entries -> EntryRecord]
         /\ \A g \in Entries : /\ used[g].removed = entry[g].removed
                               /\ used[g].highestFence = entry[g].highestFence
                               /\ used[g].carried = entry[g].carried
                               /\ used[g].gathered = entry[g].gathered
<1>1. CASE f \in Unused
  <2>1. now \in Nat
    BY DEF OtherTypes
  <2>2. PICK n \in Nat : n = now
    BY <2>1
  <2>3. used = [entry EXCEPT ![f].lastUsed = n]
    BY <1>1, <2>2 DEF Touched
  <2>4. [entry[f] EXCEPT !.lastUsed = n] \in EntryRecord
    BY DEF EntryType, EntryRecord
  <2>5. used \in [Entries -> EntryRecord]
    BY <2>3, <2>4 DEF EntryType
  <2>6. \A g \in Entries : /\ used[g].removed = entry[g].removed
                           /\ used[g].highestFence = entry[g].highestFence
                           /\ used[g].carried = entry[g].carried
                           /\ used[g].gathered = entry[g].gathered
    BY <2>3 DEF EntryType, EntryRecord
  <2> QED BY <2>5, <2>6
<1>2. CASE f \notin Unused
  BY <1>2 DEF EntryType, Touched
<1> QED BY <1>1, <1>2

\* A round that enters finds or makes its entry.
LEMMA EnterWay ==
  ASSUME WellTyped, NEW r \in Rounds, Enter(r)
  PROVE  RoundWay(r)
<1>0. RoundType /\ EntryType /\ OtherTypes
  BY DEF WellTyped
<1>1. PICK f \in EntryFor(conversation(r)) :
        /\ table' = [table EXCEPT ![conversation(r)] = f]
        /\ \/ /\ fence(r) < entry[f].highestFence
              /\ Return(r, "enter", "done", "superseded")
              /\ entry' = Touched(f)
           \/ /\ fence(r) >= entry[f].highestFence
              /\ At(r, "enter")
              /\ round' = [round EXCEPT ![r].pc = "acquire", ![r].entry = f]
              /\ entry' = [Touched(f) EXCEPT ![f].highestFence = fence(r)]
  BY DEF Enter, Touched
<1>2. f \in Entries
  BY <1>0 DEF EntryFor, Unused, OtherTypes, conversation
<1>3. PICK used : used = Touched(f)
  OBVIOUS
<1>4. /\ used \in [Entries -> EntryRecord]
      /\ \A g \in Entries : /\ used[g].removed = entry[g].removed
                            /\ used[g].highestFence = entry[g].highestFence
                            /\ used[g].carried = entry[g].carried
                            /\ used[g].gathered = entry[g].gathered
  BY <1>0, <1>2, <1>3, EntryTouched
<1>5. UNCHANGED usage
  BY DEF Enter
<1>6. CASE Return(r, "enter", "done", "superseded") /\ entry' = used
  <2>1. /\ Others(r) /\ round[r].pc = "enter"
        /\ round'[r].pc = "done" /\ round'[r].answer = "superseded"
    BY <1>0, <1>6 DEF Return, At, Others, RoundType, RoundRecord
  <2> QED BY <1>1, <1>2, <1>4, <1>5, <1>6, <2>1 DEF RoundWay, CameIn, KeptIn, usage
<1>7. CASE /\ fence(r) >= entry[f].highestFence /\ At(r, "enter")
           /\ round' = [round EXCEPT ![r].pc = "acquire", ![r].entry = f]
           /\ entry' = [used EXCEPT ![f].highestFence = fence(r)]
  <2>1. /\ Others(r) /\ round[r].pc = "enter" /\ round'[r].pc = "acquire" /\ round'[r].entry = f
        /\ round'[r].answer = round[r].answer
    BY <1>0, <1>7 DEF Others, At, RoundType, RoundRecord
  <2>2. /\ \A g \in Entries : KeptIn(g) /\ entry'[g].removed = entry[g].removed
        /\ \A g \in Entries : g # f => entry'[g].highestFence = entry[g].highestFence
        /\ entry'[f].highestFence = fence(r)
    BY <1>2, <1>4, <1>7 DEF KeptIn, EntryRecord
  <2> QED BY <1>1, <1>2, <1>5, <1>7, <2>1, <2>2 DEF RoundWay, CameIn, usage
<1> QED BY <1>1, <1>3, <1>6, <1>7

\* The step of a round.
LEMMA RoundWays ==
  ASSUME WellTyped, Locked, NEW r \in Rounds, Step(r) \/ Acquire(r)
  PROVE  RoundWay(r)
<1> USE DEF WellTyped, RoundType, RoundRecord, EntryType, EntryRecord
<1> DEFINE e == round[r].entry
<1>e. round[r].pc \in Entered => e \in Entries
  BY DEF Known, Entered
<1>k. UNCHANGED entry => EntriesKept
  BY DEF EntriesKept, Unmoved, KeptIn
<1>g. ASSUME NEW from, NEW to \in Places, Goto(r, from, to)
      PROVE  /\ Others(r) /\ round[r].pc = from /\ round'[r].pc = to
             /\ round'[r].entry = e /\ round'[r].answer = round[r].answer
  BY <1>g DEF Goto, At, Others
<1>r. ASSUME NEW from, NEW to \in Places, NEW what \in Answers, Return(r, from, to, what)
      PROVE  /\ Others(r) /\ round[r].pc = from /\ round'[r].pc = to
             /\ round'[r].entry = e /\ round'[r].answer = what
  BY <1>r DEF Return, At, Others
<1>p. /\ {"enter", "done", "acquire", "check", "begin", "plan", "replace", "closeOld", "steps",
          "extend", "reserve", "evict", "closeVictim", "waitSlot", "start", "fail", "finish",
          "deliver", "settle", "end"} \subseteq Places
      /\ {"superseded", "shutdown", "gone", "busy", "failed", "delivered"} \subseteq Answers
  BY DEF Places, Owning, Running, Answers
<1> USE DEF Entered, Begun, Owning, Running
<1>o. ASSUME Onward(r), EntriesKept, UNCHANGED <<table, usage>> PROVE RoundWay(r)
  BY <1>o DEF RoundWay, Ordinary, usage
<1>1. CASE EnterClosed(r) \/ AcquireGivesUp(r) \/ OutOfBudget(r) \/ SlotTimeout(r)
  <2>1. UNCHANGED <<entry, table, usage>>
    BY <1>1 DEF EnterClosed, AcquireGivesUp, OutOfBudget, SlotTimeout
  <2>2. \/ Return(r, "enter", "done", "shutdown") \/ Return(r, "acquire", "done", "gone")
        \/ Return(r, "steps", "fail", "gone") \/ Return(r, "waitSlot", "fail", "busy")
    BY <1>1 DEF EnterClosed, AcquireGivesUp, OutOfBudget, SlotTimeout
  <2>3. Onward(r)
    BY <1>p, <1>r, <2>2 DEF Onward
  <2> QED BY <1>k, <1>o, <2>1, <2>3
<1>2. CASE SlotCancelled(r)
  <2>1. cause[r] \in Causes \ {"none"} /\ Return(r, "waitSlot", "fail", cause[r]) /\ UNCHANGED <<entry, table, usage>>
    BY <1>2 DEF SlotCancelled, OtherTypes
  <2>2. Onward(r)
    BY <1>p, <1>r, <2>1 DEF Onward, Causes
  <2> QED BY <1>k, <1>o, <2>1, <2>2
<1>3. CASE Rebuild(r) \/ ReserveWaits(r) \/ Woken(r)
  <2>1. UNCHANGED <<entry, table, usage>>
    BY <1>3 DEF Rebuild, ReserveWaits, Woken
  <2>2. \/ Goto(r, "steps", "start") \/ Goto(r, "steps", "reserve") \/ Goto(r, "reserve", "waitSlot")
        \/ Goto(r, "waitSlot", "reserve")
    BY <1>3 DEF Rebuild, ReserveWaits, Woken
  <2>3. Onward(r)
    BY <1>p, <1>g, <2>2 DEF Onward
  <2> QED BY <1>k, <1>o, <2>1, <2>3
<1>4. CASE Acquire(r)
  <2>1. Goto(r, "acquire", "check") /\ entry' = [entry EXCEPT ![e].lock = r] /\ UNCHANGED <<table, usage>>
    BY <1>4 DEF Acquire
  <2>2. EntriesKept
    BY <2>1 DEF EntriesKept, Unmoved, KeptIn
  <2>3. Onward(r)
    BY <1>p, <1>g, <2>1 DEF Onward
  <2> QED BY <1>o, <2>1, <2>2, <2>3
<1>5. CASE Check(r)
  <2>1. entry' = [entry EXCEPT ![e].lock = Free] \/ UNCHANGED entry
    BY <1>5 DEF Check, Release
  <2>2. EntriesKept
    BY <2>1 DEF EntriesKept, Unmoved, KeptIn
  <2>3. \/ Return(r, "check", "done", "superseded") \/ Goto(r, "check", "enter")
        \/ Goto(r, "check", "begin") /\ ~IsSuperseded(r) /\ ~IsRemoved(r)
    BY <1>5 DEF Check
  <2>4. Onward(r)
    BY <1>p, <1>g, <1>r, <2>3 DEF Onward
  <2> QED BY <1>5, <1>o, <2>2, <2>4 DEF Check
<1>6. CASE BeginRound(r)
  <2>1. Goto(r, "begin", "plan") /\ entry' = [entry EXCEPT ![e].cancelRound = r] /\ UNCHANGED <<table, usage>>
    BY <1>6 DEF BeginRound
  <2>2. EntriesKept
    BY <2>1 DEF EntriesKept, Unmoved, KeptIn
  <2>3. Onward(r)
    BY <1>p, <1>g, <2>1 DEF Onward
  <2> QED BY <1>o, <2>1, <2>2, <2>3
<1>7. CASE Enter(r)
  BY <1>7, EnterWay
<1>8. CASE PlanRound(r)
  <2>1. e \in Entries /\ round[r].pc = "plan" /\ UNCHANGED <<table, usage>>
    BY <1>8, <1>e DEF PlanRound, At
  <2>2. CASE e \notin Warm
    <3>1. Goto(r, "plan", "steps") /\ UNCHANGED entry
      BY <1>8, <2>2 DEF PlanRound
    <3>2. Onward(r)
      BY <1>p, <1>g, <3>1 DEF Onward
    <3> QED BY <1>k, <1>o, <2>1, <3>1, <3>2
  <2>3. CASE e \in Warm
    <3>1. entry' = [entry EXCEPT ![e] = Carrying(e, {})]
      BY <1>8, <2>3 DEF PlanRound
    <3>2. \/ round' = [round EXCEPT ![r].pc = "steps", ![r].warm = TRUE]
          \/ Goto(r, "plan", "replace")
      BY <1>8, <2>3 DEF PlanRound
    <3>3. Onward(r)
      <4>1. CASE round' = [round EXCEPT ![r].pc = "steps", ![r].warm = TRUE]
        BY <2>1, <4>1 DEF Onward, Others
      <4>2. CASE Goto(r, "plan", "replace")
        BY <1>p, <1>g, <4>2 DEF Onward
      <4> QED BY <3>2, <4>1, <4>2
    <3>4. \A s \in Rounds : round[s].pc \in {"deliver", "settle"} => round[s].entry # e
      BY <2>1 DEF Locked
    <3>5. /\ Unmoved /\ \A f \in Entries : f # e => KeptIn(f)
          /\ entry'[e].carried = entry[e].carried \cup entry[e].gathered \cup {}
          /\ entry'[e].gathered = {}
      BY <2>1, <3>1 DEF Carrying, GatheredBy, Unmoved, KeptIn
    <3>6. CarriesOver(e)
      BY <2>1, <3>4, <3>5 DEF CarriesOver, Worked, usage
    <3> QED BY <2>1, <3>3, <3>6 DEF RoundWay, Collected
  <2> QED BY <2>2, <2>3
<1>9. CASE CloseOld(r)
  <2>1. Goto(r, "closeOld", "steps") /\ UNCHANGED <<table, billed>>
    BY <1>9 DEF CloseOld
  <2>2. e \in Entries /\ round[r].pc = "closeOld" /\ Onward(r)
    BY <1>e, <1>p, <1>g, <2>1 DEF Onward
  <2>3. PICK flushed \in SUBSET (Units \ spent) :
          spent' = spent \cup flushed /\ entry' = [entry EXCEPT ![e] = Carrying(e, flushed)]
    BY <1>9 DEF CloseOld
  <2>4. \A s \in Rounds : round[s].pc \in {"deliver", "settle"} => round[s].entry # e
    BY <2>2 DEF Locked
  <2>5. /\ Unmoved /\ \A f \in Entries : f # e => KeptIn(f)
        /\ entry'[e].carried = entry[e].carried \cup entry[e].gathered \cup flushed
        /\ entry'[e].gathered = {}
    BY <2>2, <2>3 DEF Carrying, GatheredBy, Unmoved, KeptIn
  <2>6. CarriesOver(e)
    BY <2>1, <2>2, <2>3, <2>4, <2>5 DEF CarriesOver, Worked
  <2> QED BY <2>2, <2>6 DEF RoundWay, Collected
<1>10. CASE CloseVictim(r)
  <2> DEFINE v == round[r].victim
  <2>1. round[r].pc = "closeVictim" /\ v \in Entries /\ UNCHANGED <<table, billed>>
    BY <1>10 DEF CloseVictim, At, Known, Evicting
  <2>2. Onward(r)
    BY <1>10, <2>1 DEF CloseVictim, Onward, Others
  <2>3. PICK flushed \in SUBSET (Units \ spent) :
          spent' = spent \cup flushed /\ entry' = [entry EXCEPT ![v] = [Carrying(v, flushed) EXCEPT !.lock = Free]]
    BY <1>10 DEF CloseVictim
  <2>4. \A s \in Rounds : round[s].pc \in {"deliver", "settle"} => round[s].entry # v
    BY <2>1 DEF Locked, Evicting
  <2>5. /\ Unmoved /\ \A f \in Entries : f # v => KeptIn(f)
        /\ entry'[v].carried = entry[v].carried \cup entry[v].gathered \cup flushed
        /\ entry'[v].gathered = {}
    BY <2>1, <2>3 DEF Carrying, GatheredBy, Unmoved, KeptIn
  <2>6. CarriesOver(v)
    BY <2>1, <2>3, <2>4, <2>5 DEF CarriesOver, Worked, Evicting
  <2> QED BY <2>1, <2>2, <2>6 DEF RoundWay, Collected
<1>11. CASE Replace(r) \/ Evict(r)
  <2>1. UNCHANGED <<table, usage>>
    BY <1>11 DEF Replace, Evict
  <2>2. \E f : entry' = [entry EXCEPT ![f].runner = "none", ![f].dirty = FALSE]
    BY <1>11 DEF Replace, Evict, DetachAndFree
  <2>3. EntriesKept
    BY <2>2 DEF EntriesKept, Unmoved, KeptIn
  <2>4. CASE Replace(r)
    <3>1. /\ Others(r) /\ round[r].pc = "replace" /\ round'[r].pc \in {"closeOld", "steps"}
          /\ round'[r].entry = e /\ round'[r].answer = round[r].answer
      BY <2>4 DEF Replace, At, Others
    <3> QED BY <1>o, <2>1, <2>3, <3>1 DEF Onward
  <2>5. CASE Evict(r)
    <3>1. Onward(r)
      BY <1>p, <1>g, <2>5 DEF Evict, Onward
    <3> QED BY <1>o, <2>1, <2>3, <3>1
  <2> QED BY <1>11, <2>4, <2>5
<1>12. CASE ExtendStarts(r) \/ ExtendEnds(r) \/ ExtendFails(r) \/ FactoryStarts(r)
  <2>1. UNCHANGED <<table, usage>>
    BY <1>12 DEF ExtendStarts, ExtendEnds, ExtendFails, FactoryStarts
  <2>2. \E what : entry' = [entry EXCEPT ![e].runner = what]
    BY <1>12 DEF ExtendStarts, ExtendEnds, ExtendFails, FactoryStarts, SetState
  <2>3. EntriesKept
    BY <2>2 DEF EntriesKept, Unmoved, KeptIn
  <2>4. /\ Others(r) /\ round[r].pc \in {"steps", "extend", "start"} /\ round'[r].entry = e
        /\ round'[r].pc \in {"extend", "finish", "fail", "replace"}
        /\ round'[r].answer \in {round[r].answer, "failed"}
    <3>1. CASE ExtendStarts(r)
      BY <1>p, <1>g, <3>1 DEF ExtendStarts
    <3>2. CASE ExtendEnds(r)
      BY <3>2 DEF ExtendEnds, At, Others
    <3>3. CASE ExtendFails(r)
      BY <3>3 DEF ExtendFails, At, Others, Return
    <3>4. CASE FactoryStarts(r)
      BY <3>4 DEF FactoryStarts, At, Others
    <3> QED BY <1>12, <3>1, <3>2, <3>3, <3>4
  <2> QED BY <1>o, <2>1, <2>3, <2>4 DEF Onward
<1>13. CASE ReserveFree(r)
  BY <1>13, <1>k, <1>o DEF ReserveFree, At, Onward, Others
<1>14. CASE ReserveEvicts(r)
  <2>1. PICK f : /\ entry' = [entry EXCEPT ![f].lock = r]
                 /\ round' = [round EXCEPT ![r].pc = "evict", ![r].victim = f]
    BY <1>14 DEF ReserveEvicts
  <2>2. EntriesKept
    BY <2>1 DEF EntriesKept, Unmoved, KeptIn
  <2>3. round[r].pc = "reserve" /\ UNCHANGED <<table, usage>>
    BY <1>14 DEF ReserveEvicts, At
  <2>4. Onward(r)
    BY <2>1, <2>3 DEF Onward, Others
  <2> QED BY <1>o, <2>2, <2>3, <2>4
<1>15. CASE FactoryFails(r)
  <2>1. round[r].pc = "start" /\ UNCHANGED <<entry, table, usage>>
    BY <1>15 DEF FactoryFails, At
  <2>2. /\ Others(r) /\ round'[r].entry = e /\ round'[r].pc \in {"fail", "replace"}
        /\ round'[r].answer \in {round[r].answer, "failed", "shutdown"}
    BY <1>15 DEF FactoryFails, Others
  <2> QED BY <1>k, <1>o, <2>1, <2>2 DEF Onward
<1>16. CASE FailRound(r) \/ DeliverFails(r)
  <2>1. UNCHANGED <<table, usage>> /\ \E b : entry' = [entry EXCEPT ![e].dirty = b]
    BY <1>16 DEF FailRound, DeliverFails
  <2>2. EntriesKept
    BY <2>1 DEF EntriesKept, Unmoved, KeptIn
  <2>3. /\ Others(r) /\ round[r].pc \in {"fail", "deliver"} /\ round'[r].pc = "end" /\ round'[r].entry = e
        /\ round'[r].answer \in {round[r].answer, "failed", "superseded"}
    BY <1>16 DEF FailRound, DeliverFails, Return, At, Others
  <2> QED BY <1>o, <2>1, <2>2, <2>3 DEF Onward
<1>17. CASE FinishRound(r)
  <2>1. UNCHANGED <<table, usage>> /\ \E b : entry' = [entry EXCEPT ![e].dirty = b]
    BY <1>17 DEF FinishRound
  <2>2. EntriesKept
    BY <2>1 DEF EntriesKept, Unmoved, KeptIn
  <2>3. /\ Others(r) /\ round[r].pc = "finish" /\ round'[r].pc = "deliver" /\ round'[r].entry = e
        /\ round'[r].answer = round[r].answer /\ round'[r].usage = entry[e].carried
    BY <1>17 DEF FinishRound, At, Others
  <2> QED BY <2>1, <2>2, <2>3 DEF RoundWay, Finished, usage
<1>18. CASE Deliver(r)
  <2>1. /\ Others(r) /\ round[r].pc = "deliver" /\ round'[r].pc = "settle" /\ round'[r].entry = e
        /\ round'[r].answer = "delivered" /\ round'[r].usage = round[r].usage /\ round'[r].outcome = round[r].outcome
    BY <1>18 DEF Deliver, Return, At, Others
  <2> QED BY <1>18, <1>k, <2>1 DEF Deliver, RoundWay, Delivered
<1>19. CASE SettleCarry(r)
  <2>1. Goto(r, "settle", "end") /\ entry' = [entry EXCEPT ![e].carried = SettledCarry(r)] /\ UNCHANGED <<table, usage>>
    BY <1>19 DEF SettleCarry
  <2>2. /\ Others(r) /\ round[r].pc = "settle" /\ round'[r].pc = "end" /\ round'[r].entry = e
        /\ round'[r].answer = round[r].answer
    BY <1>p, <1>g, <2>1
  <2>3. e \in Entries
    BY <1>e, <2>2
  <2>4. /\ Unmoved /\ \A f \in Entries : f # e => KeptIn(f)
        /\ entry'[e].carried = SettledCarry(r) /\ entry'[e].gathered = entry[e].gathered
    BY <2>1, <2>3 DEF Unmoved, KeptIn
  <2> QED BY <2>1, <2>2, <2>4 DEF RoundWay, Settled, usage
<1>20. CASE EndRound(r)
  <2>1. /\ UNCHANGED <<table, usage>>
        /\ entry' = [entry EXCEPT ![e].cancelRound = None, ![e].lastUsed = now, ![e].lock = Free]
    BY <1>20 DEF EndRound
  <2>2. EntriesKept
    BY <2>1 DEF EntriesKept, Unmoved, KeptIn
  <2>3. /\ Others(r) /\ round[r].pc = "end" /\ round'[r].pc = "done" /\ round'[r].entry = e
        /\ round'[r].answer = round[r].answer
    BY <1>20 DEF EndRound, FreshRound, At, Others
  <2> QED BY <1>o, <2>1, <2>2, <2>3 DEF Onward
<1> QED BY <1>1, <1>2, <1>3, <1>4, <1>5, <1>6, <1>7, <1>8, <1>9, <1>10, <1>11, <1>12, <1>13, <1>14, <1>15,
           <1>16, <1>17, <1>18, <1>19, <1>20 DEF Step

\* The step of anyone else.
LEMMA OutsideWays ==
  ASSUME WellTyped, Locked,
         \/ \E r \in Rounds : CallerGone(r)
         \/ \E e \in Entries : CloseRunner(e) \/ Disturb(e) \/ Gather(e)
         \/ Sweep \/ Close \/ TimePasses \/ UNCHANGED vars
  PROVE  OutsideWay
<1> USE DEF WellTyped, EntryType, EntryRecord
<1> DEFINE t == sweep.entry
<1>k. UNCHANGED entry => EntriesKept
  BY DEF EntriesKept, Unmoved, KeptIn
<1>t. sweep.pc \in Sweeping => t \in Entries /\ entry[t].lock = Sweeper
  BY DEF Known, Locked
<1>o. ASSUME sweep.pc \in Sweeping, NEW r \in Rounds, round[r].pc \in Owning PROVE round[r].entry # t
  BY <1>o, <1>t, NamesAssumption DEF Locked
<1>1. CASE \/ \E r \in Rounds : CallerGone(r)
           \/ \E e \in Entries : CloseRunner(e)
  BY <1>1, <1>k DEF CallerGone, CloseRunner, OutsideWay, Aside, usage
<1>2. CASE SweepStarts \/ TimePasses
  BY <1>2, <1>k DEF SweepStarts, TimePasses, OutsideWay, Aside, usage
<1>3. CASE UNCHANGED vars
  BY <1>3, <1>k DEF vars, OutsideWay, Aside, usage
<1>4. ASSUME NEW e \in Entries, Disturb(e) PROVE OutsideWay
  <2>1. UNCHANGED <<round, table, usage>> /\ \E what : entry' = [entry EXCEPT ![e].runner = what]
    BY <1>4 DEF Disturb, SetState
  <2>2. EntriesKept
    BY <2>1 DEF EntriesKept, Unmoved, KeptIn
  <2> QED BY <2>1, <2>2 DEF OutsideWay, Aside, usage
<1>5. ASSUME NEW e \in Entries, Gather(e) PROVE OutsideWay
  <2>1. PICK u \in Units \ spent : spent' = spent \cup {u} /\ entry' = [entry EXCEPT ![e].gathered = @ \cup {u}]
    BY <1>5 DEF Gather
  <2>2. /\ Unmoved /\ \A f \in Entries : f # e => KeptIn(f)
        /\ entry'[e].carried = entry[e].carried /\ entry'[e].gathered = entry[e].gathered \cup {u}
    BY <2>1 DEF Unmoved, KeptIn
  <2>3. UNCHANGED <<round, table, billed>>
    BY <1>5 DEF Gather
  <2> QED BY <2>1, <2>2, <2>3 DEF OutsideWay, Gathered
<1>6. CASE SweepChooses \/ SweepJudges
  <2>1. UNCHANGED <<round, table, usage>>
    BY <1>6 DEF SweepChooses, SweepJudges
  <2>2. UNCHANGED entry \/ \E f, h : entry' = [entry EXCEPT ![f].lock = h]
    BY <1>6 DEF SweepChooses, SweepJudges, Release
  <2>3. EntriesKept
    BY <1>k, <2>2 DEF EntriesKept, Unmoved, KeptIn
  <2> QED BY <2>1, <2>3 DEF OutsideWay, Aside, usage
<1>7. CASE SweepDrops
  <2>1. UNCHANGED <<round, table, usage>> /\ entry' = [entry EXCEPT ![t].runner = "none", ![t].dirty = FALSE]
    BY <1>7 DEF SweepDrops, DetachAndFree
  <2>2. EntriesKept
    BY <2>1 DEF EntriesKept, Unmoved, KeptIn
  <2> QED BY <2>1, <2>2 DEF OutsideWay, Aside, usage
<1>8. CASE SweepDropped
  <2>1. sweep.pc \in Sweeping /\ UNCHANGED <<round, table, billed>>
    BY <1>8 DEF SweepDropped, SweepGoto, Sweeping
  <2>2. PICK flushed \in SUBSET (Units \ spent) :
          /\ spent' = spent \cup flushed
          /\ entry' = [entry EXCEPT ![t] = [Carrying(t, flushed) EXCEPT !.lastUsed = sweep.now, !.lock = Free]]
    BY <1>8 DEF SweepDropped
  <2>3. t \in Entries
    BY <1>t, <2>1
  <2>4. \A s \in Rounds : round[s].pc \in {"deliver", "settle"} => round[s].entry # t
    BY <1>o, <2>1 DEF Owning, Running
  <2>5. /\ Unmoved /\ \A f \in Entries : f # t => KeptIn(f)
        /\ entry'[t].carried = entry[t].carried \cup entry[t].gathered \cup flushed
        /\ entry'[t].gathered = {}
    BY <2>2, <2>3 DEF Carrying, GatheredBy, Unmoved, KeptIn
  <2>6. CarriesOver(t)
    BY <2>1, <2>2, <2>4, <2>5 DEF CarriesOver, Worked
  <2> QED BY <2>1, <2>3, <2>6 DEF OutsideWay
<1>9. CASE SweepRemoves
  <2>1. /\ sweep.pc \in Sweeping /\ UNCHANGED <<round, usage>>
        /\ entry' = [entry EXCEPT ![t].removed = TRUE, ![t].lock = Free]
        /\ table' = [c \in Conversations |-> IF table[c] = t THEN None ELSE table[c]]
    BY <1>9 DEF SweepRemoves, SweepGoto, Sweeping
  <2>2. t \in Entries
    BY <1>t, <2>1
  <2>3. \A f \in Entries : KeptIn(f) /\ entry'[f].highestFence = entry[f].highestFence
    BY <2>1 DEF KeptIn
  <2>4. \A f \in Entries : f # t => entry'[f].removed = entry[f].removed
    BY <2>1
  <2>5. entry'[t].removed = TRUE
    BY <2>1, <2>2
  <2>6. \A f \in Entries : entry'[f].removed = (entry[f].removed \/ f = t)
    <3>1. \A f \in Entries : entry[f].removed \in BOOLEAN
      OBVIOUS
    <3> QED BY <2>4, <2>5, <3>1, Zenon
  <2>7. Removed(t)
    BY <1>o, <2>1, <2>3, <2>6 DEF Removed, usage
  <2> QED BY <2>2, <2>7 DEF OutsideWay
<1>10. CASE Close
  <2>1. /\ UNCHANGED <<round, table, usage>> /\ closed' = TRUE
        /\ entry' = [e \in Entries |-> IF e \in Warm THEN [entry[e] EXCEPT !.runner = "none", !.gathered = {}]
                                       ELSE entry[e]]
    BY <1>10 DEF Close
  <2>2. /\ Unmoved
        /\ \A f \in Entries :
             entry'[f].carried = entry[f].carried /\ entry'[f].gathered \in {entry[f].gathered, {}}
    BY <2>1 DEF Unmoved
  <2> QED BY <2>1, <2>2 DEF OutsideWay, Shutting, usage
<1> QED BY <1>1, <1>2, <1>3, <1>4, <1>5, <1>6, <1>7, <1>8, <1>9, <1>10 DEF Sweep

\* Every step goes one of these ways.
LEMMA Ways ==
  ASSUME WellTyped, Locked, [Next]_vars
  PROVE  OutsideWay \/ \E r \in Rounds : RoundWay(r)
<1>1. ASSUME NEW r \in Rounds, Step(r) \/ Acquire(r) PROVE RoundWay(r)
  BY <1>1, RoundWays
<1>2. \/ \E r \in Rounds : Step(r) \/ Acquire(r)
      \/ \E r \in Rounds : CallerGone(r)
      \/ \E e \in Entries : CloseRunner(e) \/ Disturb(e) \/ Gather(e)
      \/ Sweep \/ Close \/ TimePasses \/ UNCHANGED vars
  BY DEF Next
<1> QED BY <1>1, <1>2, OutsideWays

-----------------------------------------------------------------------------
(***************************************************************************)
(* Who has which entry                                                     *)
(***************************************************************************)
\* Steps that leave the table and what is removed alone.
LEMMA HousedStays ==
  ASSUME WellTyped, Housed, UNCHANGED <<table, request>>, Unmoved,
         \A r \in Rounds : (round'[r].pc \in Entered => round[r].pc \in Entered) /\ round'[r].entry = round[r].entry
                           /\ (round'[r].pc \in Begun => round[r].pc \in Begun \/ ~IsRemoved(r))
  PROVE  Housed'
<1>1. \A c \in Conversations : table[c] \in Entries \cup {None}
  BY DEF WellTyped, OtherTypes
<1>2. \A r \in Rounds : round[r].pc \in Entered => round[r].entry \in Entries
  BY DEF WellTyped, Known, Entered
<1>3. Begun \subseteq Entered
  BY DEF Begun, Entered, Owning
<1>4. \A r \in Rounds : conversation(r)' = conversation(r)
  BY DEF conversation
<1>5. \A c \in Conversations : table'[c] # None => ~entry'[table'[c]].removed
  BY <1>1 DEF Housed, Unmoved
<1>6. \A c, d \in Conversations : (table'[c] # None /\ table'[c] = table'[d]) => c = d
  BY DEF Housed
<1>7. \A r \in Rounds : round'[r].pc \in Entered =>
        (entry'[round'[r].entry].removed \/ table'[conversation(r)] = round'[r].entry)
  BY <1>2, <1>4 DEF Housed, Unmoved
<1>8. \A r \in Rounds : round'[r].pc \in Begun => ~entry'[round'[r].entry].removed
  BY <1>2, <1>3 DEF Housed, Unmoved, IsRemoved
<1> QED BY <1>4, <1>5, <1>6, <1>7, <1>8 DEF Housed

\* A round finds the entry of its conversation, or makes a new one.
LEMMA HousedCameIn ==
  ASSUME WellTyped, Housed, UNCHANGED request, NEW r \in Rounds, CameIn(r)
  PROVE  Housed'
<1>1. PICK e \in Entries :
        /\ e \in EntryFor(conversation(r)) /\ table' = [table EXCEPT ![conversation(r)] = e]
        /\ round'[r].pc = "done" \/ (round'[r].pc = "acquire" /\ round'[r].entry = e)
  BY DEF CameIn
<1>2. /\ \A f \in Entries : entry'[f].removed = entry[f].removed
      /\ \A s \in Rounds : s # r => round'[s] = round[s]
  BY DEF CameIn, Others
<1>3. /\ \A c \in Conversations : table[c] \in Entries \cup {None}
      /\ \A s \in Rounds : conversation(s) \in Conversations /\ conversation(s)' = conversation(s)
      /\ \A s \in Rounds : round[s].pc \in Entered => round[s].entry \in Entries
  BY DEF WellTyped, OtherTypes, conversation, Known, Entered
<1>4. /\ table'[conversation(r)] = e /\ \A c \in Conversations : c # conversation(r) => table'[c] = table[c]
  BY <1>1, <1>3 DEF WellTyped, OtherTypes
<1>5. ~entry[e].removed /\ e # None
  BY <1>1, <1>3, NamesAssumption DEF EntryFor, Unused, Housed
<1>6. table[conversation(r)] \in {None, e} /\ \A c \in Conversations : table[c] = e => c = conversation(r)
  BY <1>1, <1>3, <1>5 DEF EntryFor, Unused, Tabled, Housed
<1>7. \A c \in Conversations : table'[c] # None => ~entry'[table'[c]].removed
  BY <1>2, <1>3, <1>4, <1>5 DEF Housed
<1>8. \A c, d \in Conversations : (table'[c] # None /\ table'[c] = table'[d]) => c = d
  BY <1>4, <1>6 DEF Housed
<1>9. \A s \in Rounds : round'[s].pc \in Entered =>
        (entry'[round'[s].entry].removed \/ table'[conversation(s)] = round'[s].entry)
  <2>1. SUFFICES ASSUME NEW s \in Rounds, round'[s].pc \in Entered, ~entry'[round'[s].entry].removed
                 PROVE  table'[conversation(s)] = round'[s].entry
    OBVIOUS
  <2>2. CASE s = r
    BY <1>1, <1>4, <2>1, <2>2 DEF Entered, Owning, Running
  <2>3. CASE s # r
    <3>1. round[s].entry \in Entries /\ ~entry[round[s].entry].removed /\ table[conversation(s)] = round[s].entry
      BY <1>2, <1>3, <2>1, <2>3 DEF Housed
    <3>2. round[s].entry # None
      BY <3>1, NamesAssumption
    <3> QED BY <1>2, <1>3, <1>4, <1>6, <2>3, <3>1, <3>2
  <2> QED BY <2>2, <2>3
<1>10. \A s \in Rounds : round'[s].pc \in Begun => ~entry'[round'[s].entry].removed
  BY <1>1, <1>2, <1>3 DEF Housed, Begun, Entered, Owning, Running
<1> QED BY <1>3, <1>7, <1>8, <1>9, <1>10 DEF Housed

\* The sweep removes an entry nobody has begun with.
LEMMA HousedRemoved ==
  ASSUME WellTyped, Housed, UNCHANGED request, NEW e \in Entries, Removed(e)
  PROVE  Housed'
<1>1. /\ UNCHANGED round
      /\ \A f \in Entries : entry'[f].removed <=> (entry[f].removed \/ f = e)
      /\ table' = [c \in Conversations |-> IF table[c] = e THEN None ELSE table[c]]
      /\ \A r \in Rounds : round[r].pc \in Owning => round[r].entry # e
  BY DEF Removed
<1>2. /\ \A c \in Conversations : table[c] \in Entries \cup {None}
      /\ \A s \in Rounds : conversation(s) \in Conversations /\ conversation(s)' = conversation(s)
      /\ \A s \in Rounds : round[s].pc \in Entered => round[s].entry \in Entries
  BY DEF WellTyped, OtherTypes, conversation, Known, Entered
<1>3. \A c \in Conversations : table'[c] = IF table[c] = e THEN None ELSE table[c]
  BY <1>1
<1>4. \A c \in Conversations : table'[c] # None => ~entry'[table'[c]].removed
  BY <1>1, <1>2, <1>3 DEF Housed
<1>5. \A c, d \in Conversations : (table'[c] # None /\ table'[c] = table'[d]) => c = d
  BY <1>3 DEF Housed
<1>6. \A s \in Rounds : round'[s].pc \in Entered =>
        (entry'[round'[s].entry].removed \/ table'[conversation(s)] = round'[s].entry)
  BY <1>1, <1>2, <1>3 DEF Housed
<1>7. \A s \in Rounds : round'[s].pc \in Begun => ~entry'[round'[s].entry].removed
  BY <1>1, <1>2 DEF Housed, Begun, Entered, Owning
<1> QED BY <1>2, <1>4, <1>5, <1>6, <1>7 DEF Housed

LEMMA HousedNext == WellTyped /\ Locked /\ Housed /\ [Next]_vars => Housed'
<1> SUFFICES ASSUME WellTyped, Locked, Housed, [Next]_vars PROVE Housed'
  OBVIOUS
<1>1. UNCHANGED request
  BY RequestsStay
<1>2. ASSUME NEW r \in Rounds, RoundWay(r) PROVE Housed'
  <2>1. CASE CameIn(r)
    BY <1>1, <2>1, HousedCameIn
  <2>2. CASE Onward(r) /\ Unmoved /\ UNCHANGED table
    BY <1>1, <2>2, HousedStays DEF Onward, Others
  <2>3. CASE Ordinary(r) \/ Collected(r)
    BY <2>2, <2>3 DEF Ordinary, Collected, EntriesKept, CarriesOver
  <2>4. CASE Finished(r) \/ Delivered(r) \/ Settled(r)
    <3>1. UNCHANGED table /\ Unmoved /\ Others(r) /\ round'[r].entry = round[r].entry
          /\ round[r].pc \in {"finish", "deliver", "settle"}
      BY <2>4 DEF Finished, Delivered, Settled, EntriesKept
    <3>2. round[r].pc \in Begun /\ round[r].pc \in Entered
      BY <3>1 DEF Begun, Entered, Owning, Running
    <3> QED BY <1>1, <3>1, <3>2, HousedStays DEF Others
  <2> QED BY <1>2, <2>1, <2>3, <2>4 DEF RoundWay
<1>3. CASE OutsideWay
  <2>1. ASSUME NEW e \in Entries, Removed(e) PROVE Housed'
    BY <1>1, <2>1, HousedRemoved
  <2>2. CASE UNCHANGED <<round, table>> /\ Unmoved
    BY <1>1, <2>2, HousedStays
  <2>3. ASSUME Aside \/ Shutting \/ \E e \in Entries : Gathered(e) \/ (CarriesOver(e) /\ UNCHANGED round)
        PROVE  UNCHANGED <<round, table>> /\ Unmoved
    BY <2>3 DEF Aside, Shutting, Gathered, CarriesOver, EntriesKept
  <2> QED BY <1>3, <2>1, <2>2, <2>3 DEF OutsideWay
<1> QED BY <1>2, <1>3, Ways

-----------------------------------------------------------------------------
(***************************************************************************)
(* Who has something to carry.  What the sweep and the evictions work on   *)
(* is in the table, a session too; what a runner had gathered is with it   *)
(* or with whoever is closing it; and an entry nobody uses has nothing.    *)
(***************************************************************************)
Closing(f) ==
  \/ \E r \in Rounds : round[r].pc = "closeOld" /\ round[r].entry = f
  \/ \E r \in Rounds : round[r].pc = "closeVictim" /\ round[r].victim = f
  \/ sweep.pc = "dropped" /\ sweep.entry = f

Filed ==
  /\ \A f \in Entries : entry[f].runner # "none" => f \in Tabled
  /\ \A r \in Rounds : round[r].pc \in Evicting => round[r].victim \in Tabled
  /\ sweep.targets \subseteq Tabled
  /\ sweep.pc \in Sweeping => sweep.entry \in Tabled \ sweep.targets
  /\ \A f \in Entries : entry[f].gathered # {} => entry[f].runner # "none" \/ Closing(f)

Emptied == \A f \in Unused : entry[f].carried = {}

\* A step of a round that closes no runner.
Calm(r) ==
  /\ Others(r) /\ round[r].pc \notin {"closeOld", "closeVictim"}
  /\ round'[r].pc \in Evicting =>
       (round[r].pc \in Evicting /\ round'[r].victim = round[r].victim) \/ round'[r].victim \in Tabled
  /\ \A f \in Entries :
       /\ entry'[f].gathered \in {entry[f].gathered, {}}
       /\ entry[f].runner # "none" => entry'[f].runner # "none"
       /\ entry'[f].runner # "none" =>
            (entry[f].runner # "none" \/ (round[r].pc = "start" /\ f = round[r].entry))

\* A round on an entry that is not removed has it in the table.
LEMMA BegunTabled ==
  ASSUME WellTyped, Housed, NEW r \in Rounds, round[r].pc \in Begun
  PROVE  round[r].entry \in Tabled
<1>1. round[r].entry \in Entries /\ round[r].pc \in Entered
  BY DEF WellTyped, Known, Begun, Entered, Owning
<1>2. table[conversation(r)] = round[r].entry /\ conversation(r) \in Conversations
  BY <1>1 DEF Housed, WellTyped, OtherTypes, conversation
<1> QED BY <1>1, <1>2 DEF Tabled

\* What a round, an eviction or the sweep works on is in the table.
LEMMA WorkedTabled ==
  ASSUME WellTyped, Housed, Filed, NEW f \in Entries, Worked(f)
  PROVE  f \in Tabled
  BY BegunTabled DEF Worked, Filed

\* No round takes an entry out of the table.
LEMMA TabledGrows ==
  ASSUME WellTyped, Housed, NEW r \in Rounds, RoundWay(r)
  PROVE  Tabled \subseteq Tabled'
<1>1. CASE UNCHANGED table
  BY <1>1 DEF Tabled
<1>2. CASE CameIn(r)
  <2>1. PICK e \in Entries : e \in EntryFor(conversation(r)) /\ table' = [table EXCEPT ![conversation(r)] = e]
    BY <1>2 DEF CameIn
  <2>2. table \in [Conversations -> Entries \cup {None}] /\ conversation(r) \in Conversations
    BY DEF WellTyped, OtherTypes, conversation
  <2>3. table[conversation(r)] \in {None, e}
    BY <2>1 DEF EntryFor
  <2>4. ASSUME NEW c \in Conversations, table[c] # None PROVE table'[c] = table[c]
    BY <2>1, <2>2, <2>3, <2>4
  <2> QED BY <2>4, NamesAssumption DEF Tabled
<1> QED BY <1>1, <1>2 DEF RoundWay, Ordinary, Collected, CarriesOver, Finished, Delivered, Settled

LEMMA FiledCalm ==
  ASSUME WellTyped, Housed, Filed, NEW r \in Rounds, Calm(r), RoundWay(r), UNCHANGED sweep
  PROVE  Filed'
<1>1. Tabled \subseteq Tabled'
  BY TabledGrows
<1>2. round[r].pc = "start" => round[r].entry \in Tabled
  BY BegunTabled DEF Begun, Running
<1>3. \A f \in Entries : entry'[f].runner # "none" => f \in Tabled'
  BY <1>1, <1>2 DEF Filed, Calm
<1>4. \A s \in Rounds : round'[s].pc \in Evicting => round'[s].victim \in Tabled'
  BY <1>1 DEF Filed, Calm, Others
<1>5. \A f \in Entries : Closing(f) => Closing(f)'
  BY DEF Calm, Others, Closing
<1>6. \A f \in Entries : entry'[f].gathered # {} => entry'[f].runner # "none" \/ Closing(f)'
  BY <1>5 DEF Filed, Calm
<1> QED BY <1>1, <1>3, <1>4, <1>6 DEF Filed

\* Each step of a round is calm, or closes a runner.
LEMMA RoundsCalm ==
  ASSUME WellTyped, Filed, NEW r \in Rounds, Step(r) \/ Acquire(r),
         ~Replace(r), ~CloseOld(r), ~Evict(r), ~CloseVictim(r)
  PROVE  Calm(r)
<1> USE DEF WellTyped, RoundType, RoundRecord, EntryType, EntryRecord
<1> DEFINE e == round[r].entry
           Still == \A f \in Entries : /\ entry'[f].gathered \in {entry[f].gathered, {}}
                                       /\ (entry'[f].runner = "none") <=> (entry[f].runner = "none")
<1>k. UNCHANGED entry => Still
  OBVIOUS
<1>g. ASSUME NEW from, NEW to \in Places, Goto(r, from, to)
      PROVE  Others(r) /\ round[r].pc = from /\ round'[r].pc = to
  BY <1>g DEF Goto, At, Others
<1>r. ASSUME NEW from, NEW to \in Places, NEW what, Return(r, from, to, what)
      PROVE  Others(r) /\ round[r].pc = from /\ round'[r].pc = to
  BY <1>r DEF Return, At, Others
<1>p. {"enter", "done", "check", "begin", "plan", "replace", "steps", "extend", "reserve", "waitSlot",
       "start", "fail", "finish", "deliver", "settle", "end"} \subseteq Places
  BY DEF Places, Owning, Running
<1>c. ASSUME Still, Others(r), round[r].pc \notin {"closeOld", "closeVictim"}, round'[r].pc \notin Evicting
      PROVE  Calm(r)
  BY <1>c DEF Calm
<1> HIDE DEF Still
<1>1. CASE EnterClosed(r) \/ AcquireGivesUp(r) \/ OutOfBudget(r) \/ SlotTimeout(r) \/ SlotCancelled(r)
  <2>1. UNCHANGED entry
    BY <1>1 DEF EnterClosed, AcquireGivesUp, OutOfBudget, SlotTimeout, SlotCancelled
  <2>2. \E from \in {"enter", "acquire", "steps", "waitSlot"}, to \in {"done", "fail"} : \E what : Return(r, from, to, what)
    BY <1>1 DEF EnterClosed, AcquireGivesUp, OutOfBudget, SlotTimeout, SlotCancelled
  <2> QED BY <1>c, <1>k, <1>p, <1>r, <2>1, <2>2 DEF Evicting
<1>2. CASE Rebuild(r) \/ ReserveWaits(r) \/ Woken(r)
  <2>1. UNCHANGED entry
    BY <1>2 DEF Rebuild, ReserveWaits, Woken
  <2>2. \/ Goto(r, "steps", "start") \/ Goto(r, "steps", "reserve") \/ Goto(r, "reserve", "waitSlot")
        \/ Goto(r, "waitSlot", "reserve")
    BY <1>2 DEF Rebuild, ReserveWaits, Woken
  <2> QED BY <1>c, <1>g, <1>k, <1>p, <2>1, <2>2 DEF Evicting
<1>3. CASE ReserveFree(r) \/ FactoryFails(r) \/ Deliver(r)
  <2>1. UNCHANGED entry
    BY <1>3 DEF ReserveFree, FactoryFails, Deliver
  <2>2. Others(r) /\ round[r].pc \in {"reserve", "start", "deliver"} /\ round'[r].pc \in {"start", "fail", "replace", "settle"}
    <3>1. CASE ReserveFree(r)
      BY <3>1 DEF ReserveFree, At, Others
    <3>2. CASE FactoryFails(r)
      BY <3>2 DEF FactoryFails, At, Others
    <3>3. CASE Deliver(r)
      BY <3>3 DEF Deliver, Return, At, Others
    <3> QED BY <1>3, <3>1, <3>2, <3>3
  <2> QED BY <1>c, <1>k, <2>1, <2>2 DEF Evicting
<1>4. CASE Enter(r)
  <2>1. PICK f \in EntryFor(conversation(r)) :
          \/ Return(r, "enter", "done", "superseded") /\ entry' = Touched(f)
          \/ /\ At(r, "enter") /\ round' = [round EXCEPT ![r].pc = "acquire", ![r].entry = f]
             /\ entry' = [Touched(f) EXCEPT ![f].highestFence = fence(r)]
    BY <1>4 DEF Enter, Touched
  <2>2. Still
    BY <2>1 DEF Touched, Still
  <2>3. Others(r) /\ round[r].pc = "enter" /\ round'[r].pc \in {"done", "acquire"}
    <3>1. CASE Return(r, "enter", "done", "superseded")
      BY <1>p, <1>r, <3>1
    <3>2. CASE At(r, "enter") /\ round' = [round EXCEPT ![r].pc = "acquire", ![r].entry = f]
      BY <3>2 DEF At, Others
    <3> QED BY <2>1, <3>1, <3>2
  <2> QED BY <1>c, <2>2, <2>3 DEF Evicting
<1>5. CASE Acquire(r) \/ BeginRound(r) \/ Check(r)
  <2>1. Still
    <3>1. CASE UNCHANGED entry
      BY <1>k, <3>1
    <3>2. ASSUME NEW h, entry' = [entry EXCEPT ![e].lock = h] PROVE Still
      BY <3>2 DEF Still
    <3>3. CASE entry' = [entry EXCEPT ![e].cancelRound = r]
      BY <3>3 DEF Still
    <3> QED BY <1>5, <3>1, <3>2, <3>3 DEF Acquire, BeginRound, Check, Release
  <2>2. \/ Goto(r, "acquire", "check") \/ Goto(r, "begin", "plan") \/ Goto(r, "check", "enter")
        \/ Goto(r, "check", "begin") \/ Return(r, "check", "done", "superseded")
    BY <1>5 DEF Acquire, BeginRound, Check
  <2> QED BY <1>c, <1>g, <1>p, <1>r, <2>1, <2>2 DEF Evicting
<1>6. CASE PlanRound(r)
  <2>1. UNCHANGED entry \/ entry' = [entry EXCEPT ![e] = Carrying(e, {})]
    BY <1>6 DEF PlanRound
  <2>2. Still
    <3>1. CASE entry' = [entry EXCEPT ![e] = Carrying(e, {})]
      BY <3>1 DEF Carrying, Still
    <3> QED BY <1>k, <2>1, <3>1
  <2>3. Others(r) /\ round[r].pc = "plan" /\ round'[r].pc \in {"steps", "replace"}
    <3>1. CASE At(r, "plan") /\ round' = [round EXCEPT ![r].pc = "steps", ![r].warm = TRUE]
      BY <3>1 DEF At, Others
    <3>2. CASE Goto(r, "plan", "steps") \/ Goto(r, "plan", "replace")
      BY <1>g, <1>p, <3>2
    <3> QED BY <1>6, <3>1, <3>2 DEF PlanRound
  <2> QED BY <1>c, <2>2, <2>3 DEF Evicting
<1>7. CASE ExtendStarts(r) \/ ExtendEnds(r) \/ ExtendFails(r)
  <2>1. PICK what \in RunnerStates : SetState(e, what)
    BY <1>7 DEF ExtendStarts, ExtendEnds, ExtendFails, StateAfter, RunnerStates
  <2>2. Still
    BY <2>1 DEF SetState, RunnerStates, Still
  <2>3. Others(r) /\ round[r].pc \in {"steps", "extend"} /\ round'[r].pc \in {"extend", "finish", "fail", "replace"}
    <3>1. CASE ExtendStarts(r)
      BY <1>g, <1>p, <3>1 DEF ExtendStarts
    <3>2. CASE ExtendEnds(r)
      BY <3>2 DEF ExtendEnds, At, Others
    <3>3. CASE ExtendFails(r)
      BY <3>3 DEF ExtendFails, Return, At, Others
    <3> QED BY <1>7, <3>1, <3>2, <3>3
  <2> QED BY <1>c, <2>2, <2>3 DEF Evicting
<1>8. CASE ReserveEvicts(r)
  <2>1. PICK f \in Victims(e) :
          entry' = [entry EXCEPT ![f].lock = r] /\ round' = [round EXCEPT ![r].pc = "evict", ![r].victim = f]
    BY <1>8 DEF ReserveEvicts
  <2>2. f \in Tabled
    BY <2>1 DEF Victims, Evictable
  <2>3. round[r].pc = "reserve"
    BY <1>8 DEF ReserveEvicts, At
  <2> QED BY <2>1, <2>2, <2>3 DEF Calm, Others
<1>9. CASE FactoryStarts(r)
  <2>1. PICK what \in Outcomes : entry' = [entry EXCEPT ![e].runner = StateAfter(what)]
    BY <1>9 DEF FactoryStarts
  <2>2. StateAfter(what) # "none"
    BY DEF StateAfter
  <2>3. Others(r) /\ round[r].pc = "start" /\ round'[r].pc = "finish"
    BY <1>9 DEF FactoryStarts, At, Others
  <2> QED BY <2>1, <2>2, <2>3 DEF Calm, Evicting
<1>10. CASE FailRound(r) \/ FinishRound(r) \/ DeliverFails(r) \/ SettleCarry(r) \/ EndRound(r)
  <2>1. Still
    <3>1. CASE \E b : entry' = [entry EXCEPT ![e].dirty = b]
      BY <3>1 DEF Still
    <3>2. CASE entry' = [entry EXCEPT ![e].carried = SettledCarry(r)]
      BY <3>2 DEF Still
    <3>3. CASE entry' = [entry EXCEPT ![e].cancelRound = None, ![e].lastUsed = now, ![e].lock = Free]
      BY <3>3 DEF Still
    <3> QED BY <1>10, <3>1, <3>2, <3>3 DEF FailRound, FinishRound, DeliverFails, SettleCarry, EndRound
  <2>2. /\ Others(r) /\ round[r].pc \in {"fail", "finish", "deliver", "settle", "end"}
        /\ round'[r].pc \in {"end", "deliver", "done"}
    <3>1. CASE FailRound(r) \/ DeliverFails(r)
      BY <1>p, <1>r, <3>1 DEF FailRound, DeliverFails
    <3>2. CASE FinishRound(r)
      BY <3>2 DEF FinishRound, At, Others
    <3>3. CASE SettleCarry(r)
      BY <1>g, <1>p, <3>3 DEF SettleCarry
    <3>4. CASE EndRound(r)
      BY <3>4 DEF EndRound, FreshRound, At, Others
    <3> QED BY <1>10, <3>1, <3>2, <3>3, <3>4
  <2> QED BY <1>c, <2>1, <2>2 DEF Evicting
<1> QED BY <1>1, <1>2, <1>3, <1>4, <1>5, <1>6, <1>7, <1>8, <1>9, <1>10 DEF Step

\* The four steps that close a runner, in two critical sections each.
LEMMA FiledClosing ==
  ASSUME WellTyped, Housed, Filed, NEW r \in Rounds, Replace(r) \/ CloseOld(r) \/ Evict(r) \/ CloseVictim(r)
  PROVE  Filed'
<1> USE DEF WellTyped, RoundType, RoundRecord, EntryType, EntryRecord
<1> DEFINE e == round[r].entry
           v == round[r].victim
<1>1. Replace(r) \/ CloseOld(r) => e \in Entries
  BY DEF Known, Owning, Running, Replace, CloseOld, Goto, At
<1>2. Evict(r) \/ CloseVictim(r) => v \in Entries
  BY DEF Known, Evicting, Evict, CloseVictim, Goto, At
<1>3. UNCHANGED <<table, sweep>>
  BY DEF Replace, CloseOld, Evict, CloseVictim
<1>4. UNCHANGED Tabled
  BY <1>3 DEF Tabled
<1>5. CASE Replace(r)
  <2>1. /\ Others(r) /\ round[r].pc = "replace"
        /\ round'[r].pc = IF entry[e].runner # "none" THEN "closeOld" ELSE "steps"
        /\ round'[r].entry = e
    BY <1>1, <1>5 DEF Replace, At, Warm, Others
  <2>2. \A f \in Entries : entry'[f].gathered = entry[f].gathered
                           /\ entry'[f].runner = IF f = e THEN "none" ELSE entry[f].runner
    BY <1>5 DEF Replace
  <2>3. \A f \in Entries : Closing(f) => Closing(f)'
    BY <1>3, <2>1 DEF Closing, Others
  <2>4. \A f \in Entries : f = e /\ entry[f].runner # "none" => Closing(f)'
    BY <2>1 DEF Closing
  <2>5. \A f \in Entries : entry'[f].gathered # {} => entry'[f].runner # "none" \/ Closing(f)'
    BY <2>2, <2>3, <2>4 DEF Filed
  <2>6. \A s \in Rounds : round'[s].pc \in Evicting => round'[s].victim \in Tabled'
    BY <1>4, <2>1 DEF Filed, Others, Evicting
  <2> QED BY <1>3, <1>4, <2>2, <2>5, <2>6 DEF Filed
<1>6. CASE Evict(r)
  <2>1. Others(r) /\ round[r].pc = "evict" /\ round'[r].pc = "closeVictim" /\ round'[r].victim = v
    BY <1>6 DEF Evict, Goto, At, Others, Places, Owning, Running
  <2>2. \A f \in Entries : entry'[f].gathered = entry[f].gathered
                           /\ entry'[f].runner = IF f = v THEN "none" ELSE entry[f].runner
    BY <1>6 DEF Evict, DetachAndFree
  <2>3. \A f \in Entries : Closing(f) => Closing(f)'
    BY <1>3, <2>1 DEF Closing, Others
  <2>4. \A f \in Entries : f = v => Closing(f)'
    BY <2>1 DEF Closing
  <2>5. \A f \in Entries : entry'[f].gathered # {} => entry'[f].runner # "none" \/ Closing(f)'
    BY <2>2, <2>3, <2>4 DEF Filed
  <2>6. \A s \in Rounds : round'[s].pc \in Evicting => round'[s].victim \in Tabled'
    BY <1>4, <2>1 DEF Filed, Others, Evicting
  <2> QED BY <1>3, <1>4, <2>2, <2>5, <2>6 DEF Filed
<1>7. CASE CloseOld(r)
  <2>1. Others(r) /\ round[r].pc = "closeOld" /\ round'[r].pc = "steps"
    BY <1>7 DEF CloseOld, Goto, At, Others, Places, Owning, Running
  <2>2. /\ \A f \in Entries : entry'[f].runner = entry[f].runner
        /\ \A f \in Entries : entry'[f].gathered = IF f = e THEN {} ELSE entry[f].gathered
    <3>1. e \in Entries
      BY <1>1, <1>7 DEF CloseOld
    <3>2. \A f \in Entries : f # e => entry'[f] = entry[f]
      BY <1>1, <1>7 DEF CloseOld
    <3>3. entry'[e].runner = entry[e].runner /\ entry'[e].gathered = {}
      <4>1. PICK flushed : entry' = [entry EXCEPT ![e] = Carrying(e, flushed)]
        BY <1>1, <1>7 DEF CloseOld
      <4>2. entry'[e] = Carrying(e, flushed)
        BY <3>1, <4>1
      <4>3. entry[e] \in EntryRecord
        BY <3>1
      <4> QED BY <4>2, <4>3 DEF Carrying
    <3> QED BY <3>1, <3>2, <3>3
  <2>3. \A f \in Entries : f # e /\ Closing(f) => Closing(f)'
    BY <1>3, <2>1 DEF Closing, Others
  <2>4. \A f \in Entries : entry'[f].gathered # {} => entry'[f].runner # "none" \/ Closing(f)'
    BY <2>2, <2>3 DEF Filed
  <2>5. \A s \in Rounds : round'[s].pc \in Evicting => round'[s].victim \in Tabled'
    BY <1>4, <2>1 DEF Filed, Others, Evicting
  <2> QED BY <1>3, <1>4, <2>2, <2>4, <2>5 DEF Filed
<1>8. CASE CloseVictim(r)
  <2>1. Others(r) /\ round[r].pc = "closeVictim" /\ round'[r].pc = "reserve"
    BY <1>8 DEF CloseVictim, At, Others
  <2>2. /\ \A f \in Entries : entry'[f].runner = entry[f].runner
        /\ \A f \in Entries : entry'[f].gathered = IF f = v THEN {} ELSE entry[f].gathered
    <3>1. v \in Entries
      BY <1>2, <1>8 DEF CloseVictim
    <3>2. \A f \in Entries : f # v => entry'[f] = entry[f]
      BY <1>2, <1>8 DEF CloseVictim
    <3>3. entry'[v].runner = entry[v].runner /\ entry'[v].gathered = {}
      <4>1. PICK flushed : entry' = [entry EXCEPT ![v] = [Carrying(v, flushed) EXCEPT !.lock = Free]]
        BY <1>2, <1>8 DEF CloseVictim
      <4>2. entry'[v] = [Carrying(v, flushed) EXCEPT !.lock = Free]
        BY <3>1, <4>1
      <4>3. entry[v] \in EntryRecord
        BY <3>1
      <4> QED BY <4>2, <4>3 DEF Carrying
    <3> QED BY <3>1, <3>2, <3>3
  <2>3. \A f \in Entries : f # v /\ Closing(f) => Closing(f)'
    BY <1>3, <2>1 DEF Closing, Others
  <2>4. \A f \in Entries : entry'[f].gathered # {} => entry'[f].runner # "none" \/ Closing(f)'
    BY <2>2, <2>3 DEF Filed
  <2>5. \A s \in Rounds : round'[s].pc \in Evicting => round'[s].victim \in Tabled'
    BY <1>4, <2>1 DEF Filed, Others, Evicting
  <2> QED BY <1>3, <1>4, <2>2, <2>4, <2>5 DEF Filed
<1> QED BY <1>5, <1>6, <1>7, <1>8

\* The sweep goes through what was in the table when it began, and takes an
\* entry out only when nothing of it is left to carry.
LEMMA FiledOutside ==
  ASSUME WellTyped, Locked, Staged, Filed,
         \/ \E r \in Rounds : CallerGone(r)
         \/ \E e \in Entries : CloseRunner(e) \/ Disturb(e) \/ Gather(e)
         \/ Sweep \/ Close \/ TimePasses \/ UNCHANGED vars
  PROVE  Filed'
<1> USE DEF WellTyped, EntryType, EntryRecord
<1> DEFINE t == sweep.entry
<1>0. sweep \in SweepRecord
  BY DEF OtherTypes
<1>t. sweep.pc \in Sweeping => t \in Entries /\ entry[t].lock = Sweeper
  BY DEF Known, Locked
<1>1. ASSUME UNCHANGED <<round, table, sweep>>,
             \A f \in Entries : /\ entry'[f].gathered \in {entry[f].gathered, {}} \/ entry[f].runner # "none"
                                /\ (entry'[f].runner = "none") <=> (entry[f].runner = "none")
      PROVE  Filed'
  <2>1. Tabled' = Tabled /\ \A f \in Entries : Closing(f)' = Closing(f)
    BY <1>1 DEF Tabled, Closing
  <2> QED BY <1>1, <2>1 DEF Filed
<1>2. CASE \/ \E r \in Rounds : CallerGone(r)
           \/ \E e \in Entries : CloseRunner(e)
           \/ TimePasses \/ UNCHANGED vars
  BY <1>1, <1>2 DEF CallerGone, CloseRunner, TimePasses, vars
<1>3. ASSUME NEW e \in Entries, Disturb(e) PROVE Filed'
  <2>1. UNCHANGED <<round, table, sweep>> /\ entry[e].runner # "none" /\ entry' = [entry EXCEPT ![e].runner = "dirty"]
    BY <1>3 DEF Disturb, SetState
  <2> QED BY <1>1, <2>1
<1>4. ASSUME NEW e \in Entries, Gather(e) PROVE Filed'
  <2>1. UNCHANGED <<round, table, sweep>> /\ entry[e].runner # "none"
        /\ \E u : entry' = [entry EXCEPT ![e].gathered = @ \cup {u}]
    BY <1>4 DEF Gather, Warm
  <2> QED BY <1>1, <2>1
<1>5. CASE Close
  <2>1. UNCHANGED <<round, table, sweep>>
    BY <1>5 DEF Close
  <2>2. \A f \in Entries : entry'[f].runner = "none"
                           /\ entry'[f].gathered = IF entry[f].runner # "none" THEN {} ELSE entry[f].gathered
    BY <1>5 DEF Close, Warm
  <2>3. Tabled' = Tabled /\ \A f \in Entries : Closing(f)' = Closing(f)
    BY <2>1 DEF Tabled, Closing
  <2> QED BY <2>1, <2>2, <2>3 DEF Filed
<1>6. CASE SweepStarts
  <2>1. UNCHANGED <<round, table, entry>> /\ sweep'.pc = "choose" /\ sweep'.targets = Tabled /\ sweep.pc = "idle"
    BY <1>6 DEF SweepStarts
  <2>2. Tabled' = Tabled /\ \A f \in Entries : Closing(f)' = Closing(f)
    BY <2>1 DEF Tabled, Closing
  <2> QED BY <2>1, <2>2 DEF Filed, Sweeping
<1>7. CASE SweepChooses \/ SweepJudges
  <2>1. UNCHANGED <<round, table>> /\ sweep.pc \in {"choose", "judge"}
    BY <1>7 DEF SweepChooses, SweepJudges, SweepGoto
  <2>2. \A f \in Entries : entry'[f].runner = entry[f].runner /\ entry'[f].gathered = entry[f].gathered
    <3>1. UNCHANGED entry \/ \E f, h : entry' = [entry EXCEPT ![f].lock = h]
      BY <1>7 DEF SweepChooses, SweepJudges, Release
    <3> QED BY <3>1
  <2>3. /\ sweep'.pc \in {"idle", "choose", "judge", "drop", "remove"} /\ sweep'.targets \subseteq sweep.targets
        /\ sweep'.pc \in Sweeping =>
             \/ sweep.pc \in Sweeping /\ sweep'.entry = t
             \/ sweep'.entry \in sweep.targets \ sweep'.targets
    <3>1. CASE SweepChooses
      <4>1. CASE sweep' = [sweep EXCEPT !.pc = "idle"]
        BY <1>0, <4>1 DEF SweepRecord, Sweeping
      <4>2. ASSUME NEW f \in sweep.targets,
                   \/ sweep' = [sweep EXCEPT !.pc = "judge", !.targets = @ \ {f}, !.entry = f]
                   \/ sweep.pc = "choose" /\ sweep' = [sweep EXCEPT !.targets = @ \ {f}]
            PROVE  /\ sweep'.pc \in {"choose", "judge"} /\ sweep'.targets = sweep.targets \ {f}
                   /\ sweep'.pc = "judge" => sweep'.entry = f
        BY <1>0, <4>2 DEF SweepRecord
      <4> QED BY <3>1, <4>1, <4>2 DEF SweepChooses, Sweeping
    <3>2. CASE SweepJudges
      BY <1>0, <3>2 DEF SweepJudges, SweepGoto, SweepRecord, Sweeping
    <3> QED BY <1>7, <3>1, <3>2
  <2>4. Tabled' = Tabled /\ \A f \in Entries : Closing(f)' = Closing(f)
    BY <2>1, <2>3 DEF Tabled, Closing
  <2> QED BY <2>1, <2>2, <2>3, <2>4 DEF Filed
<1>8. CASE SweepDrops
  <2>1. /\ UNCHANGED <<round, table>> /\ sweep.pc = "drop"
        /\ sweep'.pc = "dropped" /\ sweep'.entry = t /\ sweep'.targets = sweep.targets
    BY <1>0, <1>8 DEF SweepDrops, SweepGoto, SweepRecord
  <2>2. \A f \in Entries : entry'[f].gathered = entry[f].gathered
                           /\ entry'[f].runner = IF f = t THEN "none" ELSE entry[f].runner
    BY <1>8 DEF SweepDrops, DetachAndFree
  <2>3. Tabled' = Tabled /\ Closing(t)' /\ \A f \in Entries : Closing(f) => Closing(f)'
    BY <2>1 DEF Tabled, Closing
  <2> QED BY <2>1, <2>2, <2>3 DEF Filed, Sweeping
<1>9. CASE SweepDropped
  <2>1. /\ UNCHANGED <<round, table>> /\ sweep.pc = "dropped" /\ sweep'.pc = "choose" /\ sweep'.targets = sweep.targets
    BY <1>0, <1>9 DEF SweepDropped, SweepGoto, SweepRecord
  <2>2. t \in Entries
    BY <1>t, <2>1 DEF Sweeping
  <2>3. /\ \A f \in Entries : entry'[f].runner = entry[f].runner
        /\ \A f \in Entries : entry'[f].gathered = IF f = t THEN {} ELSE entry[f].gathered
    BY <1>9, <2>2 DEF SweepDropped, Carrying
  <2>4. Tabled' = Tabled /\ \A f \in Entries : f # t /\ Closing(f) => Closing(f)'
    BY <2>1 DEF Tabled, Closing
  <2> QED BY <2>1, <2>3, <2>4 DEF Filed, Sweeping
<1>10. CASE SweepRemoves
  <2>1. /\ UNCHANGED round /\ sweep.pc = "remove" /\ sweep'.pc = "choose" /\ sweep'.targets = sweep.targets
        /\ table' = [c \in Conversations |-> IF table[c] = t THEN None ELSE table[c]]
    BY <1>0, <1>10 DEF SweepRemoves, SweepGoto, SweepRecord
  <2>2. t \in Entries /\ entry[t].lock = Sweeper /\ entry[t].runner = "none" /\ t \notin sweep.targets
    BY <1>t, <2>1 DEF Sweeping, Staged, Filed
  <2>3. \A f \in Entries : entry'[f].runner = entry[f].runner /\ entry'[f].gathered = entry[f].gathered
    BY <1>10 DEF SweepRemoves
  <2>4. \A f \in Entries : f # t /\ f \in Tabled => f \in Tabled'
    <3>1. SUFFICES ASSUME NEW f \in Entries, f # t, NEW c \in Conversations, table[c] = f PROVE f \in Tabled'
      BY DEF Tabled
    <3>2. table'[c] = f
      BY <2>1, <3>1
    <3> QED BY <3>1, <3>2 DEF Tabled
  <2>5. \A r \in Rounds : /\ round[r].pc \in Evicting => round[r].victim # t
                          /\ round[r].pc = "closeOld" => round[r].entry # t
    BY <2>2, NamesAssumption DEF Locked, Owning, Running
  <2>6. ~Closing(t)
    BY <2>1, <2>5 DEF Closing, Evicting
  <2>7. \A f \in Entries : Closing(f) => Closing(f)'
    BY <2>1 DEF Closing
  <2>8. /\ \A f \in Entries : entry'[f].runner # "none" => f \in Tabled'
        /\ \A r \in Rounds : round'[r].pc \in Evicting => round'[r].victim \in Tabled'
    BY <2>1, <2>2, <2>3, <2>4, <2>5 DEF Filed, Tabled
  <2>9. sweep'.targets \subseteq Tabled' /\ sweep'.pc \notin Sweeping
    BY <2>1, <2>2, <2>4 DEF Filed, Tabled, Sweeping
  <2>10. \A f \in Entries : entry'[f].gathered # {} => entry'[f].runner # "none" \/ Closing(f)'
    BY <2>2, <2>3, <2>6, <2>7 DEF Filed
  <2> QED BY <2>8, <2>9, <2>10 DEF Filed
<1> QED BY <1>2, <1>3, <1>4, <1>5, <1>6, <1>7, <1>8, <1>9, <1>10 DEF Sweep

LEMMA FiledNext == WellTyped /\ Locked /\ Staged /\ Housed /\ Filed /\ [Next]_vars => Filed'
<1> SUFFICES ASSUME WellTyped, Locked, Staged, Housed, Filed, [Next]_vars PROVE Filed'
  OBVIOUS
<1>1. ASSUME NEW r \in Rounds, Step(r) \/ Acquire(r) PROVE Filed'
  <2>1. CASE Replace(r) \/ CloseOld(r) \/ Evict(r) \/ CloseVictim(r)
    BY <2>1, FiledClosing
  <2>2. CASE ~Replace(r) /\ ~CloseOld(r) /\ ~Evict(r) /\ ~CloseVictim(r)
    BY <1>1, <2>2, RoundsCalm, RoundWays, RoundLeaves, FiledCalm
  <2> QED BY <2>1, <2>2
<1>2. \/ \E r \in Rounds : Step(r) \/ Acquire(r)
      \/ \E r \in Rounds : CallerGone(r)
      \/ \E e \in Entries : CloseRunner(e) \/ Disturb(e) \/ Gather(e)
      \/ Sweep \/ Close \/ TimePasses \/ UNCHANGED vars
  BY DEF Next
<1> QED BY <1>1, <1>2, FiledOutside

\* An entry nobody has used, or that is used by nobody yet, carries nothing.
LEMMA EmptiedNext == WellTyped /\ Locked /\ Housed /\ Filed /\ Emptied /\ [Next]_vars => Emptied'
<1> SUFFICES ASSUME WellTyped, Locked, Housed, Filed, Emptied, [Next]_vars,
                    NEW f \in Entries, f \notin Tabled', ~entry'[f].removed
             PROVE  entry'[f].carried = {}
  BY DEF Emptied, Unused
<1>1. ASSUME f \notin Tabled, ~entry[f].removed, entry'[f].carried \subseteq entry[f].carried
      PROVE  entry'[f].carried = {}
  BY <1>1 DEF Emptied, Unused
<1>2. ASSUME NEW e \in Entries, CarriesOver(e) PROVE entry'[f].carried = {}
  <2>1. Tabled' = Tabled /\ Worked(e) /\ Unmoved /\ \A g \in Entries : g # e => KeptIn(g)
    BY <1>2 DEF CarriesOver, Tabled
  <2>2. f # e
    BY <2>1, WorkedTabled
  <2> QED BY <1>1, <2>1, <2>2 DEF Unmoved, KeptIn
<1>3. ASSUME NEW r \in Rounds, RoundWay(r) PROVE entry'[f].carried = {}
  <2>1. f \notin Tabled
    BY <1>3, TabledGrows
  <2>2. CASE Collected(r)
    BY <1>2, <2>2 DEF Collected
  <2>3. CASE Ordinary(r) \/ Finished(r) \/ Delivered(r) \/ CameIn(r)
    BY <1>1, <2>1, <2>3 DEF Ordinary, Finished, Delivered, CameIn, EntriesKept, Unmoved, KeptIn
  <2>4. CASE Settled(r)
    <3>1. f # round[r].entry => entry'[f].carried = entry[f].carried
      BY <2>4 DEF Settled, KeptIn
    <3>2. f = round[r].entry => entry'[f].carried \subseteq entry[f].carried
      BY <2>4 DEF Settled, SettledCarry
    <3> QED BY <1>1, <2>1, <2>4, <3>1, <3>2 DEF Settled, Unmoved
  <2> QED BY <1>3, <2>2, <2>3, <2>4 DEF RoundWay
<1>4. CASE OutsideWay
  <2>1. CASE Aside \/ Shutting \/ \E e \in Entries : Gathered(e)
    <3>1. Unmoved /\ UNCHANGED table /\ entry'[f].carried = entry[f].carried
      BY <2>1 DEF Aside, Shutting, Gathered, EntriesKept, KeptIn
    <3> QED BY <1>1, <3>1 DEF Unmoved, Tabled
  <2>2. ASSUME NEW e \in Entries, Removed(e) PROVE entry'[f].carried = {}
    <3>1. f # e /\ ~entry[f].removed /\ entry'[f].carried = entry[f].carried
      BY <2>2 DEF Removed, KeptIn
    <3>2. ASSUME NEW c \in Conversations, table[c] = f PROVE FALSE
      <4>1. table'[c] = f
        BY <2>2, <3>1, <3>2 DEF Removed
      <4> QED BY <4>1 DEF Tabled
    <3> QED BY <1>1, <3>1, <3>2 DEF Tabled
  <2> QED BY <1>2, <1>4, <2>1, <2>2 DEF OutsideWay
<1> QED BY <1>3, <1>4, Ways

-----------------------------------------------------------------------------
(***************************************************************************)
(* Which fences have passed                                                *)
(***************************************************************************)
\* The step of one round that does not enter, deliver or settle, or of nobody.
LEMMA FencedStays ==
  ASSUME WellTyped, Fenced, UNCHANGED request,
         \A e \in Entries : entry'[e].highestFence = entry[e].highestFence,
         \A r \in Rounds :
           /\ round'[r].entry = round[r].entry
           /\ round'[r].pc \in Entered => round[r].pc \in Entered
           /\ round'[r].pc \in Begun =>
                (round[r].pc \in Begun \/ (round[r].pc \in Entered /\ ~IsSuperseded(r)))
           /\ round'[r].answer = "delivered" =>
                (round[r].answer = "delivered" /\ round'[r].pc \in {"settle", "end", "done"})
  PROVE  Fenced'
<1>1. \A r \in Rounds : fence(r) \in Int /\ fence(r)' = fence(r)
  BY DEF WellTyped, OtherTypes, fence
<1>2. \A e \in Entries : entry[e].highestFence \in Int
  BY DEF WellTyped, EntryType, EntryRecord
<1>3. \A r \in Rounds : (round'[r].pc \in Entered \/ round'[r].answer = "delivered") =>
        (round'[r].entry \in Entries /\ fence(r) <= entry'[round'[r].entry].highestFence)
  BY DEF Fenced
<1>4. \A r \in Rounds : round'[r].answer = "delivered" => round'[r].pc \in {"settle", "end", "done"}
  OBVIOUS
<1>5. ASSUME NEW r \in Rounds, NEW s \in Rounds, round'[r].pc \in Begun, round'[s].answer = "delivered",
             round'[r].entry = round'[s].entry
      PROVE  fence(s) <= fence(r)
  <2>1. CASE round[r].pc \in Begun
    BY <1>5, <2>1 DEF Fenced
  <2>2. CASE round[r].pc \in Entered /\ ~IsSuperseded(r)
    <3>1. round[r].entry \in Entries /\ fence(s) <= entry[round[r].entry].highestFence
      BY <1>5, <2>2 DEF Fenced
    <3>2. ~(fence(r) < entry[round[r].entry].highestFence)
      BY <2>2 DEF IsSuperseded
    <3> QED BY <1>1, <1>2, <3>1, <3>2
  <2> QED BY <1>5, <2>1, <2>2
<1> QED BY <1>1, <1>3, <1>4, <1>5 DEF Fenced

\* A round that comes in raises the fence to its own, or is turned away.
LEMMA FencedCameIn ==
  ASSUME WellTyped, Fenced, UNCHANGED request, NEW r \in Rounds, CameIn(r)
  PROVE  Fenced'
<1>1. \A s \in Rounds : fence(s) \in Int /\ fence(s)' = fence(s)
  BY DEF WellTyped, OtherTypes, fence
<1>2. \A e \in Entries : entry[e].highestFence \in Int
  BY DEF WellTyped, EntryType, EntryRecord
<1>3. \A s \in Rounds : s # r => round'[s] = round[s]
  BY DEF CameIn, Others
<1>4. round[r].pc = "enter" /\ round[r].answer # "delivered"
  BY DEF CameIn, Fenced
<1>5. PICK e \in Entries :
        /\ \A f \in Entries : f # e => entry'[f].highestFence = entry[f].highestFence
        /\ \/ /\ round'[r].pc = "done" /\ round'[r].answer = "superseded"
              /\ entry'[e].highestFence = entry[e].highestFence
           \/ /\ round'[r].pc = "acquire" /\ round'[r].entry = e /\ round'[r].answer = round[r].answer
              /\ fence(r) >= entry[e].highestFence /\ entry'[e].highestFence = fence(r)
  BY DEF CameIn
<1>6. \A f \in Entries : entry'[f].highestFence \in Int /\ entry'[f].highestFence >= entry[f].highestFence
  BY <1>1, <1>2, <1>5
<1>7. round'[r].answer # "delivered" /\ round'[r].pc \notin Begun
  BY <1>4, <1>5 DEF Begun, Running
<1>8. \A s \in Rounds : (round'[s].pc \in Entered \/ round'[s].answer = "delivered") =>
        (round'[s].entry \in Entries /\ fence(s) <= entry'[round'[s].entry].highestFence)
  <2>1. SUFFICES ASSUME NEW s \in Rounds, round'[s].pc \in Entered \/ round'[s].answer = "delivered"
                 PROVE  round'[s].entry \in Entries /\ fence(s) <= entry'[round'[s].entry].highestFence
    OBVIOUS
  <2>2. CASE s = r
    <3>1. round'[r].pc # "done"
      BY <1>7, <2>1, <2>2 DEF Entered, Owning, Running
    <3> QED BY <1>1, <1>5, <2>2, <3>1
  <2>3. CASE s # r
    <3>1. /\ round'[s] = round[s] /\ round[s].entry \in Entries
          /\ fence(s) <= entry[round[s].entry].highestFence
      BY <1>3, <2>1, <2>3 DEF Fenced
    <3> QED BY <1>1, <1>2, <1>6, <3>1
  <2> QED BY <2>2, <2>3
<1>9. \A s \in Rounds : round'[s].answer = "delivered" => round'[s].pc \in {"settle", "end", "done"}
  BY <1>3, <1>7 DEF Fenced
<1>10. \A s, t \in Rounds :
         (round'[s].pc \in Begun /\ round'[t].answer = "delivered" /\ round'[s].entry = round'[t].entry)
           => fence(t) <= fence(s)
  BY <1>3, <1>7 DEF Fenced
<1> QED BY <1>1, <1>8, <1>9, <1>10 DEF Fenced

\* Whoever delivers is alone with the entry, so nobody there has begun.
LEMMA FencedDelivered ==
  ASSUME WellTyped, Locked, Fenced, UNCHANGED request, NEW r \in Rounds, Delivered(r)
  PROVE  Fenced'
<1>1. \A s \in Rounds : fence(s) \in Int /\ fence(s)' = fence(s)
  BY DEF WellTyped, OtherTypes, fence
<1>2. /\ \A s \in Rounds : s # r => round'[s] = round[s]
      /\ \A e \in Entries : entry'[e].highestFence = entry[e].highestFence
      /\ round[r].pc = "deliver" /\ round'[r].pc = "settle" /\ round'[r].entry = round[r].entry
  BY DEF Delivered, Others, EntriesKept, Unmoved
<1>3. round[r].pc \in Entered
  BY <1>2 DEF Entered, Owning, Running
<1>4. \A s \in Rounds : (round'[s].pc \in Entered \/ round'[s].answer = "delivered") =>
        (round'[s].entry \in Entries /\ fence(s) <= entry'[round'[s].entry].highestFence)
  BY <1>2, <1>3 DEF Fenced
<1>5. \A s \in Rounds : round'[s].answer = "delivered" => round'[s].pc \in {"settle", "end", "done"}
  BY <1>2 DEF Fenced
<1>6. ASSUME NEW s \in Rounds, NEW t \in Rounds, round'[s].pc \in Begun, round'[t].answer = "delivered",
             round'[s].entry = round'[t].entry
      PROVE  fence(t) <= fence(s)
  <2>1. round[s].pc \in Begun /\ round[s].entry = round[t].entry
    BY <1>2, <1>6 DEF Begun, Running
  <2>2. CASE t = r
    <3>1. round[s].pc \in Owning /\ round[r].pc \in Owning
      BY <1>2, <2>1 DEF Begun, Owning, Running
    <3>2. s = r
      BY <2>1, <2>2, <3>1 DEF Locked
    <3> QED BY <1>1, <2>2, <3>2
  <2>3. CASE t # r
    BY <1>2, <1>6, <2>1, <2>3 DEF Fenced
  <2> QED BY <2>2, <2>3
<1> QED BY <1>1, <1>4, <1>5, <1>6 DEF Fenced

LEMMA FencedNext == WellTyped /\ Locked /\ Fenced /\ [Next]_vars => Fenced'
<1> SUFFICES ASSUME WellTyped, Locked, Fenced, [Next]_vars PROVE Fenced'
  OBVIOUS
<1>1. UNCHANGED request
  BY RequestsStay
<1>2. ASSUME NEW r \in Rounds, RoundWay(r) PROVE Fenced'
  <2>1. CASE CameIn(r)
    BY <1>1, <2>1, FencedCameIn
  <2>2. CASE Delivered(r)
    BY <1>1, <2>2, FencedDelivered
  <2>3. CASE Ordinary(r) \/ Collected(r)
    <3>1. Onward(r) /\ \A e \in Entries : entry'[e].highestFence = entry[e].highestFence
      BY <2>3 DEF Ordinary, Collected, EntriesKept, CarriesOver, Unmoved
    <3>2. \A s \in Rounds :
            /\ round'[s].entry = round[s].entry
            /\ round'[s].pc \in Entered => round[s].pc \in Entered
      BY <3>1 DEF Onward, Others
    <3>3. \A s \in Rounds : round'[s].pc \in Begun =>
            (round[s].pc \in Begun \/ (round[s].pc \in Entered /\ ~IsSuperseded(s)))
      BY <3>1 DEF Onward, Others, Entered, Owning
    <3>4. \A s \in Rounds : round'[s].answer = "delivered" =>
            (round[s].answer = "delivered" /\ round'[s].pc \in {"settle", "end", "done"})
      BY <3>1 DEF Onward, Others, Fenced
    <3> QED BY <1>1, <3>1, <3>2, <3>3, <3>4, FencedStays
  <2>4. CASE Finished(r) \/ Settled(r)
    <3>1. /\ Others(r) /\ \A e \in Entries : entry'[e].highestFence = entry[e].highestFence
          /\ round'[r].entry = round[r].entry /\ round'[r].answer = round[r].answer
          /\ \/ round[r].pc = "finish" /\ round'[r].pc = "deliver"
             \/ round[r].pc = "settle" /\ round'[r].pc = "end"
      BY <2>4 DEF Finished, Settled, EntriesKept, Unmoved
    <3>2. round[r].pc \in Begun /\ round[r].pc \in Entered
      BY <3>1 DEF Begun, Entered, Owning, Running
    <3>3. \A s \in Rounds :
            /\ round'[s].entry = round[s].entry
            /\ round'[s].pc \in Entered => round[s].pc \in Entered
            /\ round'[s].pc \in Begun => round[s].pc \in Begun
      BY <3>1, <3>2 DEF Others
    <3>4. \A s \in Rounds : round'[s].answer = "delivered" =>
            (round[s].answer = "delivered" /\ round'[s].pc \in {"settle", "end", "done"})
      BY <3>1 DEF Others, Fenced
    <3> QED BY <1>1, <3>1, <3>3, <3>4, FencedStays
  <2> QED BY <1>2, <2>1, <2>2, <2>3, <2>4 DEF RoundWay
<1>3. CASE OutsideWay
  <2>1. UNCHANGED round /\ \A e \in Entries : entry'[e].highestFence = entry[e].highestFence
    BY <1>3 DEF OutsideWay, Aside, Shutting, Gathered, Removed, CarriesOver, EntriesKept, Unmoved
  <2>2. \A s \in Rounds : round[s].answer = "delivered" => round[s].pc \in {"settle", "end", "done"}
    BY DEF Fenced
  <2> QED BY <1>1, <2>1, <2>2, FencedStays
<1> QED BY <1>2, <1>3, Ways

-----------------------------------------------------------------------------
(***************************************************************************)
(* Where the usage is                                                      *)
(***************************************************************************)
\* What is spent is billed or in an entry, until Close throws some of it away.
Whole ==
  closed \/ \A u \in spent : u \in billed \/ \E e \in Entries : u \in entry[e].carried \cup entry[e].gathered

\* Two rounds that deliver or settle are not on one entry.
LEMMA AloneAtTheEnd ==
  ASSUME Locked, NEW r \in Rounds, NEW s \in Rounds, round[r].pc \in {"deliver", "settle"},
         round[s].pc \in {"deliver", "settle"}, round[r].entry = round[s].entry
  PROVE  r = s
  BY DEF Locked, Owning, Running

\* Steps that leave the usage where it is.
LEMMA AccountedStays ==
  ASSUME Accounted, Whole, closed => closed', \A e \in Entries : KeptIn(e), UNCHANGED <<spent, billed>>,
         \A r \in Rounds : round'[r].pc \in {"deliver", "settle"} =>
           \/ round'[r] = round[r]
           \/ round'[r].pc = "deliver" /\ round'[r].usage = entry[round'[r].entry].carried /\ round'[r].entry \in Entries,
         \A r \in Rounds : round[r].pc = "settle" => round'[r] = round[r],
         \A r \in Rounds : round[r].pc \in {"deliver", "settle"} => round[r].entry \in Entries
  PROVE  Accounted' /\ Whole'
<1>1. /\ billed' \subseteq spent'
      /\ \A e \in Entries : entry'[e].carried \subseteq spent' /\ entry'[e].gathered \subseteq spent'
      /\ \A e \in Entries : \A u \in entry'[e].gathered : u \notin billed' /\ u \notin entry'[e].carried
      /\ \A e, f \in Entries : e # f =>
           \A u \in entry'[e].carried \cup entry'[e].gathered :
             u \notin entry'[f].carried /\ u \notin entry'[f].gathered
  BY DEF Accounted, KeptIn
<1>2. /\ \A r \in Rounds : round'[r].pc \in {"deliver", "settle"} => round'[r].usage = entry'[round'[r].entry].carried
      /\ \A r \in Rounds : (round'[r].pc = "settle" /\ round'[r].outcome # "refused") => round'[r].usage \subseteq billed'
  BY DEF Accounted, KeptIn
<1>3. \A e \in Entries : \A u \in entry'[e].carried : u \in billed' =>
        \E r \in Rounds : round'[r].pc = "settle" /\ round'[r].outcome # "refused" /\ round'[r].entry = e
  BY DEF Accounted, KeptIn
<1>4. Whole'
  BY DEF Whole, KeptIn
<1> QED BY <1>1, <1>2, <1>3, <1>4 DEF Accounted

\* What a runner gathered, and what it flushed, moves to the carry.
LEMMA AccountedCarries ==
  ASSUME Accounted, Whole, closed => closed', NEW e \in Entries, CarriesOver(e),
         \A r \in Rounds : round'[r].pc \in {"deliver", "settle"} => round'[r] = round[r],
         \A r \in Rounds : round[r].pc = "settle" => round'[r] = round[r],
         \A r \in Rounds : round[r].pc \in {"deliver", "settle"} => round[r].entry \in Entries
  PROVE  Accounted' /\ Whole'
<1>1. PICK flushed \in SUBSET (Units \ spent) :
        /\ spent' = spent \cup flushed
        /\ entry'[e].carried = entry[e].carried \cup entry[e].gathered \cup flushed
        /\ entry'[e].gathered = {}
  BY DEF CarriesOver
<1>2. /\ \A f \in Entries : f # e => entry'[f].carried = entry[f].carried /\ entry'[f].gathered = entry[f].gathered
      /\ billed' = billed
      /\ \A s \in Rounds : round[s].pc \in {"deliver", "settle"} => round[s].entry # e
  BY DEF CarriesOver, KeptIn
<1>3. /\ billed' \subseteq spent'
      /\ \A f \in Entries : entry'[f].carried \subseteq spent' /\ entry'[f].gathered \subseteq spent'
      /\ \A f \in Entries : \A u \in entry'[f].gathered : u \notin billed' /\ u \notin entry'[f].carried
  BY <1>1, <1>2 DEF Accounted
<1>4. ASSUME NEW f \in Entries, NEW g \in Entries, f # g, NEW u \in entry'[f].carried \cup entry'[f].gathered
      PROVE  u \notin entry'[g].carried /\ u \notin entry'[g].gathered
  <2>1. CASE f = e
    BY <1>1, <1>2, <1>4, <2>1 DEF Accounted
  <2>2. CASE f # e
    BY <1>1, <1>2, <1>4, <2>2 DEF Accounted
  <2> QED BY <2>1, <2>2
<1>5. /\ \A r \in Rounds : round'[r].pc \in {"deliver", "settle"} => round'[r].usage = entry'[round'[r].entry].carried
      /\ \A r \in Rounds : (round'[r].pc = "settle" /\ round'[r].outcome # "refused") => round'[r].usage \subseteq billed'
  BY <1>2 DEF Accounted
<1>6. ASSUME NEW f \in Entries, NEW u \in entry'[f].carried, u \in billed'
      PROVE  \E r \in Rounds : round'[r].pc = "settle" /\ round'[r].outcome # "refused" /\ round'[r].entry = f
  <2>1. u \in entry[f].carried /\ u \in billed
    BY <1>1, <1>2, <1>6 DEF Accounted
  <2>2. PICK r \in Rounds : round[r].pc = "settle" /\ round[r].outcome # "refused" /\ round[r].entry = f
    BY <2>1 DEF Accounted
  <2> QED BY <2>2
<1>7. Whole'
  <2>1. SUFFICES ASSUME ~closed', NEW u \in spent', u \notin billed'
                 PROVE  \E f \in Entries : u \in entry'[f].carried \cup entry'[f].gathered
    BY DEF Whole
  <2>2. CASE u \in flushed
    BY <1>1, <2>2
  <2>3. CASE u \notin flushed
    <3>1. PICK f \in Entries : u \in entry[f].carried \cup entry[f].gathered
      BY <1>1, <1>2, <2>1, <2>3 DEF Whole
    <3> QED BY <1>1, <1>2, <3>1
  <2> QED BY <2>2, <2>3
<1> QED BY <1>3, <1>4, <1>5, <1>6, <1>7 DEF Accounted

\* Platform counts the usage of a result once it has it.
LEMMA AccountedDelivered ==
  ASSUME Accounted, Whole, Locked, closed => closed', NEW r \in Rounds, Delivered(r),
         \A s \in Rounds : round[s].pc \in {"deliver", "settle"} => round[s].entry \in Entries
  PROVE  Accounted' /\ Whole'
<1>1. /\ \A s \in Rounds : s # r => round'[s] = round[s]
      /\ \A f \in Entries : entry'[f].carried = entry[f].carried /\ entry'[f].gathered = entry[f].gathered
      /\ spent' = spent
      /\ round[r].pc = "deliver" /\ round'[r].pc = "settle" /\ round'[r].entry = round[r].entry
      /\ round'[r].usage = round[r].usage /\ round'[r].outcome = round[r].outcome
      /\ round[r].usage = entry[round[r].entry].carried
  BY DEF Delivered, Others, EntriesKept, KeptIn, Accounted
<1>2. /\ billed \subseteq billed' /\ billed' \subseteq billed \cup round[r].usage
      /\ round[r].outcome = "refused" => billed' = billed
      /\ round[r].outcome # "refused" => round[r].usage \subseteq billed'
  BY DEF Delivered
<1>3. /\ billed' \subseteq spent'
      /\ \A f \in Entries : entry'[f].carried \subseteq spent' /\ entry'[f].gathered \subseteq spent'
      /\ \A f, g \in Entries : f # g =>
           \A u \in entry'[f].carried \cup entry'[f].gathered :
             u \notin entry'[g].carried /\ u \notin entry'[g].gathered
  BY <1>1, <1>2 DEF Accounted
<1>4. \A f \in Entries : \A u \in entry'[f].gathered : u \notin billed' /\ u \notin entry'[f].carried
  <2>1. SUFFICES ASSUME NEW f \in Entries, NEW u \in entry[f].gathered
                 PROVE  u \notin billed' /\ u \notin entry[f].carried
    BY <1>1
  <2>2. u \notin billed /\ u \notin entry[f].carried /\ u \notin round[r].usage
    BY <1>1 DEF Accounted
  <2> QED BY <1>2, <2>2
<1>5. /\ \A s \in Rounds : round'[s].pc \in {"deliver", "settle"} => round'[s].usage = entry'[round'[s].entry].carried
      /\ \A s \in Rounds : (round'[s].pc = "settle" /\ round'[s].outcome # "refused") => round'[s].usage \subseteq billed'
  <2>1. SUFFICES ASSUME NEW s \in Rounds
                 PROVE  /\ round'[s].pc \in {"deliver", "settle"} => round'[s].usage = entry'[round'[s].entry].carried
                        /\ (round'[s].pc = "settle" /\ round'[s].outcome # "refused") => round'[s].usage \subseteq billed'
    OBVIOUS
  <2>2. CASE s = r
    <3>1. round'[r].usage = entry'[round'[r].entry].carried
      BY <1>1
    <3>2. round'[r].outcome # "refused" => round'[r].usage \subseteq billed'
      BY <1>1, <1>2
    <3> QED BY <2>2, <3>1, <3>2
  <2>3. CASE s # r
    BY <1>1, <1>2, <2>3 DEF Accounted
  <2> QED BY <2>2, <2>3
<1>6. ASSUME NEW f \in Entries, NEW u \in entry'[f].carried, u \in billed'
      PROVE  \E s \in Rounds : round'[s].pc = "settle" /\ round'[s].outcome # "refused" /\ round'[s].entry = f
  <2>1. CASE u \in billed
    <3>1. PICK s \in Rounds : round[s].pc = "settle" /\ round[s].outcome # "refused" /\ round[s].entry = f
      BY <1>1, <1>6, <2>1 DEF Accounted
    <3> QED BY <1>1, <3>1
  <2>2. CASE u \notin billed
    <3>1. u \in entry[round[r].entry].carried /\ round[r].outcome # "refused"
      BY <1>1, <1>2, <1>6, <2>2
    <3>2. round[r].entry = f
      BY <1>1, <1>6, <3>1 DEF Accounted
    <3> QED BY <1>1, <3>1, <3>2
  <2> QED BY <2>1, <2>2
<1>7. Whole'
  BY <1>1, <1>2 DEF Whole
<1> QED BY <1>3, <1>4, <1>5, <1>6, <1>7 DEF Accounted

\* The carry of the delivered result is cleared, that of a refused one kept.
LEMMA AccountedSettled ==
  ASSUME Accounted, Whole, Locked, closed => closed', NEW r \in Rounds, Settled(r),
         \A s \in Rounds : round[s].pc \in {"deliver", "settle"} => round[s].entry \in Entries
  PROVE  Accounted' /\ Whole'
<1> DEFINE e == round[r].entry
<1>1. /\ \A s \in Rounds : s # r => round'[s] = round[s]
      /\ \A f \in Entries : f # e => entry'[f].carried = entry[f].carried /\ entry'[f].gathered = entry[f].gathered
      /\ entry'[e].gathered = entry[e].gathered
      /\ spent' = spent /\ billed' = billed
      /\ round[r].pc = "settle" /\ round'[r].pc = "end" /\ e \in Entries
      /\ round[r].usage = entry[e].carried
  BY DEF Settled, Others, KeptIn, Accounted
<1>2. /\ entry'[e].carried \in {entry[e].carried, {}}
      /\ round[r].outcome = "refused" => entry'[e].carried = entry[e].carried
      /\ round[r].outcome # "refused" => (entry'[e].carried = {} /\ entry[e].carried \subseteq billed)
  BY <1>1 DEF Settled, SettledCarry, Accounted
<1>3. \A s \in Rounds : (s # r /\ round[s].pc \in {"deliver", "settle"}) => round[s].entry # e
  BY <1>1, AloneAtTheEnd
<1>4. /\ \A f \in Entries : entry'[f].carried \subseteq entry[f].carried /\ entry'[f].gathered = entry[f].gathered
      /\ \A f \in Entries : f # e => entry'[f].carried = entry[f].carried
  BY <1>1, <1>2
<1>5. /\ billed' \subseteq spent'
      /\ \A f \in Entries : entry'[f].carried \subseteq spent' /\ entry'[f].gathered \subseteq spent'
      /\ \A f \in Entries : \A u \in entry'[f].gathered : u \notin billed' /\ u \notin entry'[f].carried
      /\ \A f, g \in Entries : f # g =>
           \A u \in entry'[f].carried \cup entry'[f].gathered :
             u \notin entry'[g].carried /\ u \notin entry'[g].gathered
  BY <1>1, <1>4 DEF Accounted
<1>6. /\ \A s \in Rounds : round'[s].pc \in {"deliver", "settle"} => round'[s].usage = entry'[round'[s].entry].carried
      /\ \A s \in Rounds : (round'[s].pc = "settle" /\ round'[s].outcome # "refused") => round'[s].usage \subseteq billed'
  BY <1>1, <1>3, <1>4 DEF Accounted
<1>7. ASSUME NEW f \in Entries, NEW u \in entry'[f].carried, u \in billed'
      PROVE  \E s \in Rounds : round'[s].pc = "settle" /\ round'[s].outcome # "refused" /\ round'[s].entry = f
  <2>1. PICK s \in Rounds : round[s].pc = "settle" /\ round[s].outcome # "refused" /\ round[s].entry = f
    BY <1>1, <1>4, <1>7 DEF Accounted
  <2>2. s # r
    BY <1>2, <1>7, <2>1
  <2> QED BY <1>1, <2>1, <2>2
<1>8. Whole'
  <2>1. SUFFICES ASSUME ~closed', NEW u \in spent', u \notin billed'
                 PROVE  \E f \in Entries : u \in entry'[f].carried \cup entry'[f].gathered
    BY DEF Whole
  <2>2. PICK f \in Entries : u \in entry[f].carried \cup entry[f].gathered
    BY <1>1, <2>1 DEF Whole
  <2>3. f = e => (entry'[f].carried = entry[f].carried \/ u \in entry[f].gathered)
    BY <1>1, <1>2, <2>1, <2>2
  <2> QED BY <1>1, <1>4, <2>2, <2>3
<1> QED BY <1>5, <1>6, <1>7, <1>8 DEF Accounted

\* A runner gathers usage nobody has yet, or loses it to Close.
LEMMA AccountedOutside ==
  ASSUME Accounted, Whole, closed => closed', Shutting \/ \E e \in Entries : Gathered(e),
         \A s \in Rounds : round[s].pc \in {"deliver", "settle"} => round[s].entry \in Entries
  PROVE  Accounted' /\ Whole'
<1>1. CASE Shutting
  <2>1. /\ UNCHANGED <<round, spent, billed>> /\ closed'
        /\ \A f \in Entries : entry'[f].carried = entry[f].carried /\ entry'[f].gathered \subseteq entry[f].gathered
    BY <1>1 DEF Shutting
  <2>2. Accounted'
    BY <2>1 DEF Accounted
  <2> QED BY <2>1, <2>2 DEF Whole
<1>2. ASSUME NEW e \in Entries, Gathered(e) PROVE Accounted' /\ Whole'
  <2>1. PICK u \in Units \ spent :
          /\ spent' = spent \cup {u}
          /\ entry'[e].carried = entry[e].carried /\ entry'[e].gathered = entry[e].gathered \cup {u}
    BY <1>2 DEF Gathered
  <2>2. /\ UNCHANGED <<round, billed>>
        /\ \A f \in Entries : f # e => entry'[f].carried = entry[f].carried /\ entry'[f].gathered = entry[f].gathered
    BY <1>2 DEF Gathered, KeptIn
  <2>3. \A f \in Entries : entry'[f].carried = entry[f].carried
    BY <2>1, <2>2
  <2>4. /\ billed' \subseteq spent'
        /\ \A f \in Entries : entry'[f].carried \subseteq spent' /\ entry'[f].gathered \subseteq spent'
        /\ \A f \in Entries : \A v \in entry'[f].gathered : v \notin billed' /\ v \notin entry'[f].carried
    BY <2>1, <2>2 DEF Accounted
  <2>5. ASSUME NEW f \in Entries, NEW g \in Entries, f # g, NEW v \in entry'[f].carried \cup entry'[f].gathered
        PROVE  v \notin entry'[g].carried /\ v \notin entry'[g].gathered
    BY <2>1, <2>2, <2>3, <2>5 DEF Accounted
  <2>6. /\ \A s \in Rounds : round'[s].pc \in {"deliver", "settle"} => round'[s].usage = entry'[round'[s].entry].carried
        /\ \A s \in Rounds : (round'[s].pc = "settle" /\ round'[s].outcome # "refused") => round'[s].usage \subseteq billed'
        /\ \A f \in Entries : \A v \in entry'[f].carried : v \in billed' =>
             \E s \in Rounds : round'[s].pc = "settle" /\ round'[s].outcome # "refused" /\ round'[s].entry = f
    BY <2>2, <2>3 DEF Accounted
  <2>7. Whole'
    BY <2>1, <2>2 DEF Whole
  <2> QED BY <2>4, <2>5, <2>6, <2>7 DEF Accounted
<1> QED BY <1>1, <1>2

LEMMA AccountedNext ==
  WellTyped /\ Locked /\ Accounted /\ Whole /\ [Next]_vars => Accounted' /\ Whole'
<1> SUFFICES ASSUME WellTyped, Locked, Accounted, Whole, [Next]_vars PROVE Accounted' /\ Whole'
  OBVIOUS
<1>1. closed => closed'
  BY RequestsStay
<1>2. \A s \in Rounds : round[s].pc \in {"finish", "deliver", "settle"} => round[s].entry \in Entries
  BY DEF WellTyped, Known, Owning, Running
<1>3. ASSUME NEW r \in Rounds, RoundWay(r) PROVE Accounted' /\ Whole'
  <2>1. CASE Collected(r)
    <3>1. PICK e \in Entries : CarriesOver(e)
      BY <2>1 DEF Collected
    <3>2. /\ \A s \in Rounds : round'[s].pc \in {"deliver", "settle"} => round'[s] = round[s]
          /\ \A s \in Rounds : round[s].pc = "settle" => round'[s] = round[s]
      BY <2>1 DEF Collected, Onward, Others
    <3> QED BY <1>1, <1>2, <3>1, <3>2, AccountedCarries
  <2>2. CASE Ordinary(r) \/ CameIn(r)
    <3>1. (\A e \in Entries : KeptIn(e)) /\ UNCHANGED <<spent, billed>>
      BY <2>2 DEF Ordinary, EntriesKept, CameIn
    <3>2. /\ \A s \in Rounds : round'[s].pc \in {"deliver", "settle"} => round'[s] = round[s]
          /\ \A s \in Rounds : round[s].pc = "settle" => round'[s] = round[s]
      BY <2>2 DEF Ordinary, CameIn, Onward, Others
    <3> QED BY <1>1, <1>2, <3>1, <3>2, AccountedStays
  <2>3. CASE Finished(r)
    <3>1. /\ Others(r) /\ (\A e \in Entries : KeptIn(e)) /\ UNCHANGED <<spent, billed>>
          /\ round[r].pc = "finish" /\ round'[r].pc = "deliver" /\ round'[r].entry = round[r].entry
          /\ round'[r].usage = entry[round[r].entry].carried
      BY <2>3 DEF Finished, EntriesKept
    <3>2. \A s \in Rounds : round[s].pc = "settle" => round'[s] = round[s]
      BY <3>1 DEF Others
    <3>3. \A s \in Rounds : round'[s].pc \in {"deliver", "settle"} =>
            \/ round'[s] = round[s]
            \/ /\ round'[s].pc = "deliver" /\ round'[s].usage = entry[round'[s].entry].carried
               /\ round'[s].entry \in Entries
      BY <1>2, <3>1 DEF Others
    <3> QED BY <1>1, <1>2, <3>1, <3>2, <3>3, AccountedStays
  <2>4. CASE Delivered(r)
    BY <1>1, <1>2, <2>4, AccountedDelivered
  <2>5. CASE Settled(r)
    BY <1>1, <1>2, <2>5, AccountedSettled
  <2> QED BY <1>3, <2>1, <2>2, <2>3, <2>4, <2>5 DEF RoundWay
<1>4. CASE OutsideWay
  <2>1. ASSUME Aside \/ \E e \in Entries : Removed(e) PROVE Accounted' /\ Whole'
    <3>1. UNCHANGED round /\ (\A e \in Entries : KeptIn(e)) /\ UNCHANGED <<spent, billed>>
      BY <2>1 DEF Aside, Removed, EntriesKept
    <3> QED BY <1>1, <1>2, <3>1, AccountedStays
  <2>2. ASSUME NEW e \in Entries, CarriesOver(e), UNCHANGED round PROVE Accounted' /\ Whole'
    BY <1>1, <1>2, <2>2, AccountedCarries
  <2>3. CASE Shutting \/ \E e \in Entries : Gathered(e)
    BY <1>1, <1>2, <2>3, AccountedOutside
  <2> QED BY <1>4, <2>1, <2>2, <2>3 DEF OutsideWay
<1> QED BY <1>3, <1>4, Ways

-----------------------------------------------------------------------------
(***************************************************************************)
(* The inductive invariant with these layers, and what follows.  Each      *)
(* stands on the locks: that two rounds of a conversation have one entry   *)
(* says something only because an entry has one lock.                      *)
(***************************************************************************)
UsageInv == IInv /\ Housed /\ Filed /\ Emptied /\ Fenced /\ Accounted /\ Whole

LEMMA InitUsageInv == Init => UsageInv
<1> SUFFICES ASSUME Init PROVE UsageInv
  OBVIOUS
<1>1. /\ \A c \in Conversations : table[c] = None
      /\ \A r \in Rounds : round[r].pc = "enter" /\ round[r].answer = "none"
      /\ \A e \in Entries : entry[e].carried = {} /\ entry[e].gathered = {} /\ entry[e].runner = "none"
      /\ sweep.pc = "idle" /\ sweep.targets = {}
      /\ spent = {} /\ billed = {}
  BY DEF Init, FreshRound, FreshEntry
<1>2. Housed
  BY <1>1 DEF Housed, Begun, Entered, Owning, Running
<1>3. Fenced
  BY <1>1 DEF Fenced, Begun, Entered, Owning, Running
<1>4. Accounted /\ Whole
  BY <1>1 DEF Accounted, Whole
<1>5. Filed /\ Emptied
  BY <1>1 DEF Filed, Emptied, Unused, Evicting, Sweeping
<1> QED BY <1>2, <1>3, <1>4, <1>5, InitInv DEF UsageInv

LEMMA NextUsageInv == UsageInv /\ [Next]_vars => UsageInv'
<1> SUFFICES ASSUME UsageInv, [Next]_vars PROVE UsageInv'
  OBVIOUS
<1>1. WellTyped /\ Locked /\ Staged
  BY DEF UsageInv, IInv
<1> QED BY <1>1, NextInv, HousedNext, FiledNext, EmptiedNext, FencedNext, AccountedNext DEF UsageInv

LEMMA UsageInvImplies ==
  UsageInv => OneRoundPerConversation /\ DeliveredInFenceOrder /\ NeverBilledTwice /\ UsageKept
<1> SUFFICES ASSUME UsageInv
             PROVE  OneRoundPerConversation /\ DeliveredInFenceOrder /\ NeverBilledTwice /\ UsageKept
  OBVIOUS
<1>0. WellTyped /\ Locked /\ Housed /\ Filed /\ Emptied /\ Fenced /\ Accounted /\ Whole
  BY DEF UsageInv, IInv
<1>p. Running \subseteq Begun /\ Running \subseteq Entered /\ Running \subseteq Owning
  BY DEF Begun, Entered, Owning
<1>1. OneRoundPerConversation
  <2>1. SUFFICES ASSUME NEW r \in Rounds, NEW s \in Rounds, conversation(r) = conversation(s),
                        round[r].pc \in Running, round[s].pc \in Running
                 PROVE  r = s
    BY DEF OneRoundPerConversation
  <2>2. table[conversation(r)] = round[r].entry /\ table[conversation(s)] = round[s].entry
    BY <1>0, <1>p, <2>1 DEF Housed
  <2>3. entry[round[r].entry].lock = r /\ entry[round[s].entry].lock = s
    BY <1>0, <1>p, <2>1 DEF Locked
  <2> QED BY <2>1, <2>2, <2>3
<1>2. DeliveredInFenceOrder
  BY <1>0, <1>p DEF Fenced, DeliveredInFenceOrder
<1>3. NeverBilledTwice
  <2>1. SUFFICES ASSUME NEW r \in Rounds, round[r].pc = "deliver", NEW u \in round[r].usage, u \in billed
                 PROVE  FALSE
    BY DEF NeverBilledTwice, At
  <2>2. round[r].entry \in Entries
    BY <1>0, <2>1 DEF WellTyped, Known, Owning, Running
  <2>3. u \in entry[round[r].entry].carried
    BY <1>0, <2>1 DEF Accounted
  <2>4. PICK s \in Rounds : round[s].pc = "settle" /\ round[s].entry = round[r].entry
    BY <1>0, <2>1, <2>2, <2>3 DEF Accounted
  <2>5. r = s
    BY <1>0, <2>1, <2>4, AloneAtTheEnd
  <2> QED BY <2>1, <2>4, <2>5
<1>4. UsageKept
  <2>1. SUFFICES ASSUME ~closed
                 PROVE  spent = billed \cup Forgotten
                                       \cup UNION {entry[e].carried \cup entry[e].gathered : e \in Tabled}
    BY DEF UsageKept
  <2>2. ASSUME NEW e \in Entries, entry[e].gathered # {} PROVE e \in Tabled
    <3>1. entry[e].runner # "none" \/ Worked(e)
      BY <1>0, <2>2 DEF Filed, Closing, Worked, Begun, Running, Evicting, Sweeping
    <3> QED BY <1>0, <3>1, WorkedTabled DEF Filed
  <2>3. ASSUME NEW e \in Entries, entry[e].carried # {} PROVE e \in Tabled \/ entry[e].removed
    BY <1>0, <2>3 DEF Emptied, Unused
  <2>4. ASSUME NEW u \in spent, u \notin billed
        PROVE  u \in Forgotten \cup UNION {entry[e].carried \cup entry[e].gathered : e \in Tabled}
    <3>1. PICK e \in Entries : u \in entry[e].carried \cup entry[e].gathered
      BY <1>0, <2>1, <2>4 DEF Whole
    <3>2. CASE e \in Tabled
      BY <3>1, <3>2
    <3>3. CASE e \notin Tabled
      <4>1. u \in entry[e].carried /\ entry[e].removed
        BY <2>2, <2>3, <3>1, <3>3
      <4> QED BY <4>1 DEF Forgotten
    <3> QED BY <3>2, <3>3
  <2>5. \A u \in Forgotten \cup UNION {entry[e].carried \cup entry[e].gathered : e \in Tabled} : u \in spent
    BY <1>0 DEF Accounted, Forgotten, Tabled
  <2>6. billed \subseteq spent
    BY <1>0 DEF Accounted
  <2> QED BY <2>4, <2>5, <2>6
<1> QED BY <1>1, <1>2, <1>3, <1>4

LEMMA UsageInvariance == Spec => []UsageInv
  BY InitUsageInv, NextUsageInv, PTL DEF Spec

\* OneRoundPerConversation: two calls of Round for one conversation are never
\* past beginRound together, although the sweep may remove the entry whose lock
\* keeps them apart and the next call make another.
THEOREM OneRoundAtATime == Spec => []OneRoundPerConversation
  BY UsageInvariance, UsageInvImplies, PTL

\* DeliveredInFenceOrder: after the result of a round was delivered, no round
\* with a lower fence runs on that entry.
THEOREM FencesHold == Spec => []DeliveredInFenceOrder
  BY UsageInvariance, UsageInvImplies, PTL

\* NeverBilledTwice: the usage a result carries was in no result that Platform
\* counted before, through failed deliveries, refusals, evictions and sweeps.
THEOREM BilledOnce == Spec => []NeverBilledTwice
  BY UsageInvariance, UsageInvImplies, PTL

\* UsageKept: until Close usage is lost in one way only, with the carry of a
\* conversation the sweep removes: all other usage is billed, or an entry in the
\* table or its runner has it.
THEOREM NothingLost == Spec => []UsageKept
  BY UsageInvariance, UsageInvImplies, PTL

=============================================================================
