---------------------------- MODULE Disk_proofs ----------------------------
(***************************************************************************)
(* Proofs about what is kept on the daemon's disk and outlives it: the     *)
(* markers of the session ledger (SessionLedger) for every number of       *)
(* operations, sessions and restarts, and the tokens, the login and the    *)
(* binary of the daemon itself (DaemonLife) for every number of tokens,    *)
(* logins, commands, updates, boots and crashes.  The two parts share no   *)
(* state and no lemma.                                                     *)
(***************************************************************************)
EXTENDS SessionLedger, DaemonLife, TLAPS

-----------------------------------------------------------------------------
(***************************************************************************)
(* The session ledger: the inductive invariant                             *)
(***************************************************************************)
OpRecord == [pc : {"idle", "lock", "done", "lost"} \cup Critical, isFresh : BOOLEAN]
SweepRecord == [pc : {"idle", "look", "try", "state", "marker"}, left : SUBSET Keys,
                key : Keys \cup {Never}, isLocked : BOOLEAN, cutoff : Int]

\* Who holds what: a session's mutex belongs to the one operation that is past
\* it, or to the sweep.
Excluded ==
  /\ \A o \in Ops : op[o].pc \in Critical => holder[session(o)] = o
  /\ sweep.pc \in {"try", "state", "marker"} => sweep.key \in Keys
  /\ sweep.isLocked => sweep.pc \in {"state", "marker"} /\ holder[sweep.key.session] = Sweeper

\* A sweep without the mutex is spoiling the key of whoever has it.
Undermined ==
  \A o \in Ops : op[o].pc \in Critical /\ Undermines(session(o)) => sweep.key \in spoiled

\* What a marker says of its key: there is no state without one, and one that
\* is there stays while the operation that saw it goes on.
Marked ==
  /\ \A k \in state \ spoiled : marker[k] # Never
  /\ \A o \in Ops : op[o].pc = "write" => marker[key(o)] = Never
  /\ \A o \in Ops : op[o].pc \in {"touch", "start", "command"} /\ key(o) \notin spoiled => marker[key(o)] # Never
  /\ sweep.pc = "marker" /\ sweep.key \notin spoiled => sweep.key \notin state

\* What was captured is there until the sweep, which is about to forget it, has
\* removed it.
Kept ==
  \A k \in captured \ spoiled : k \in state \/ (sweep.pc = "marker" /\ sweep.key = k)

IInv == TypeOK /\ Excluded /\ Undermined /\ Marked /\ FreshMeansNoState /\ Kept

-----------------------------------------------------------------------------
(***************************************************************************)
(* Lemmas                                                                  *)
(***************************************************************************)
\* The key of an operation.
LEMMA KeyOf ==
  ASSUME TypeOK, NEW o \in Ops
  PROVE  key(o) \in Keys /\ session(o) \in Sessions /\ key(o).session = session(o)
BY DEF TypeOK, Keys, key, session

\* Two operations are never past the mutex of one session, nor one and the
\* sweep that holds it.
LEMMA OneHolder ==
  ASSUME TypeOK, Excluded, NEW o \in Ops, op[o].pc \in Critical
  PROVE  /\ \A p \in Ops : op[p].pc \in Critical /\ session(p) = session(o) => p = o
         /\ \A p \in Ops : op[p].pc \in Critical /\ key(p) = key(o) => p = o
         /\ sweep.isLocked => sweep.key.session # session(o)
BY LedgerAssumption DEF Excluded, key, session

\* One operation takes a step: it alone moves, and the sweep does not.
LEMMA OpMoves ==
  ASSUME TypeOK, NEW o \in Ops, Step(o)
  PROVE  /\ op' \in [Ops -> OpRecord] /\ \A p \in Ops : p # o => op'[p] = op[p]
         /\ UNCHANGED <<request, sweep, clock>>
         /\ \/ GetMutex(o) /\ op[o].pc = "idle" /\ op'[o].pc = "lock"
            \/ Acquire(o) /\ op[o].pc = "lock" /\ op'[o].pc = "stat"
            \/ Stat(o) /\ op[o].pc = "stat" /\ op'[o].pc = IF marker[key(o)] = Never THEN "write" ELSE "touch"
            \/ Write(o) /\ op[o].pc = "write" /\ op'[o].pc = "start"
            \/ MarkingFails(o) /\ op[o].pc \in {"stat", "write", "touch"} /\ op'[o].pc = "start"
            \/ Touch(o) /\ op[o].pc = "touch" /\ op'[o].pc = "start"
            \/ Start(o) /\ op[o].pc = "start" /\ op'[o].pc = "command" /\ op'[o].isFresh = op[o].isFresh
            \/ Finish(o) /\ op[o].pc \in {"start", "command"} /\ op'[o].pc = "done"
<1>1. ASSUME NEW from, NEW to \in {"idle", "lock", "done", "lost"} \cup Critical, Goto(o, from, to)
      PROVE  /\ op' \in [Ops -> OpRecord] /\ \A p \in Ops : p # o => op'[p] = op[p]
             /\ op[o].pc = from /\ op'[o].pc = to /\ op'[o].isFresh = op[o].isFresh
  <2>1. PICK r : r = [op[o] EXCEPT !.pc = to]
    OBVIOUS
  <2>2. r \in OpRecord /\ r.pc = to /\ r.isFresh = op[o].isFresh
    BY <2>1 DEF TypeOK, OpRecord
  <2>3. op' = [op EXCEPT ![o] = r]
    BY <1>1, <2>1 DEF Goto
  <2> QED BY <1>1, <2>2, <2>3 DEF Goto, TypeOK, OpRecord
<1>2. ASSUME NEW from, NEW fresh \in BOOLEAN, Answer(o, from, "start", fresh)
      PROVE  /\ op' \in [Ops -> OpRecord] /\ \A p \in Ops : p # o => op'[p] = op[p]
             /\ op[o].pc = from /\ op'[o].pc = "start"
  <2>1. PICK r : r = [pc |-> "start", isFresh |-> fresh]
    OBVIOUS
  <2>2. r \in OpRecord /\ r.pc = "start"
    BY <2>1 DEF OpRecord, Critical
  <2>3. op' = [op EXCEPT ![o] = r]
    BY <1>2, <2>1 DEF Answer
  <2> QED BY <1>2, <2>2, <2>3 DEF Answer, TypeOK, OpRecord
<1>3. CASE GetMutex(o)
  BY <1>1, <1>3 DEF GetMutex
<1>4. CASE Acquire(o)
  BY <1>1, <1>4 DEF Acquire, Critical
<1>5. CASE Stat(o)
  BY <1>1, <1>5 DEF Stat, Critical
<1>6. CASE Write(o)
  BY <1>2, <1>6 DEF Write
<1>7. CASE MarkingFails(o)
  BY <1>2, <1>7 DEF MarkingFails
<1>8. CASE Touch(o)
  BY <1>2, <1>8 DEF Touch
<1>9. CASE Start(o)
  BY <1>1, <1>9 DEF Start, Critical
<1>10. CASE Finish(o)
  <2>1. Goto(o, "command", "done") \/ Goto(o, "start", "done")
    BY <1>10 DEF Finish
  <2> QED BY <1>1, <1>10, <2>1 DEF Finish
<1> QED BY <1>3, <1>4, <1>5, <1>6, <1>7, <1>8, <1>9, <1>10 DEF Step

\* The sweep takes a step.
LEMMA SweepMoves ==
  ASSUME TypeOK, Excluded, Sweep
  PROVE  /\ sweep' \in SweepRecord /\ UNCHANGED <<request, op, known, clock>>
         /\ \/ SweepStarts /\ sweep.pc = "idle" /\ sweep'.pc = "look" /\ (~sweep'.isLocked)
            \/ SweepLooks /\ sweep.pc = "look" /\ sweep'.pc \in {"idle", "look"} /\ sweep'.isLocked = sweep.isLocked
            \/ /\ SweepLooks /\ sweep.pc = "look" /\ sweep'.pc = "try" /\ sweep'.isLocked = sweep.isLocked
               /\ sweep'.key \in Keys
            \/ /\ SweepTries /\ sweep.pc = "try" /\ sweep'.pc = "state" /\ sweep'.key = sweep.key
               /\ MaySweep(sweep.key.session)
               /\ sweep'.isLocked <=> sweep.key.session \in known
            \/ SweepTries /\ sweep.pc = "try" /\ sweep'.pc = "look" /\ sweep'.isLocked = sweep.isLocked
            \/ /\ SweepsState /\ sweep.pc = "state" /\ sweep'.pc = "marker" /\ sweep'.key = sweep.key
               /\ sweep'.isLocked = sweep.isLocked
            \/ SweepsMarker /\ sweep.pc = "marker" /\ sweep'.pc = "look" /\ (~sweep'.isLocked)
<1>1. sweep \in SweepRecord
  BY DEF TypeOK, SweepRecord
<1>2. CASE SweepStarts
  <2>1. PICK r : r = [NoSweep EXCEPT !.pc = "look", !.left = {k \in Keys : marker[k] # Never}, !.cutoff = now - TTL]
    OBVIOUS
  <2>2. r \in SweepRecord /\ r.pc = "look" /\ ~r.isLocked
    <3>1. now - TTL \in Int
      BY LedgerAssumption DEF TypeOK
    <3> QED BY <2>1, <3>1 DEF SweepRecord, NoSweep
  <2> QED BY <1>2, <2>1, <2>2 DEF SweepStarts, locks
<1>3. CASE SweepLooks
  <2>1. CASE sweep' = [sweep EXCEPT !.pc = "idle"]
    BY <1>1, <1>3, <2>1 DEF SweepLooks, SweepRecord, locks
  <2>2. ASSUME NEW k \in sweep.left, sweep' = [sweep EXCEPT !.pc = "try", !.left = @ \ {k}, !.key = k]
        PROVE  sweep' \in SweepRecord /\ sweep'.pc = "try" /\ sweep'.isLocked = sweep.isLocked /\ sweep'.key \in Keys
    BY <1>1, <2>2 DEF SweepRecord
  <2>3. ASSUME NEW k \in sweep.left, sweep' = [sweep EXCEPT !.left = @ \ {k}], sweep.pc = "look"
        PROVE  sweep' \in SweepRecord /\ sweep'.pc = "look" /\ sweep'.isLocked = sweep.isLocked
    BY <1>1, <2>3 DEF SweepRecord
  <2> QED BY <1>3, <2>1, <2>2, <2>3 DEF SweepLooks, locks
<1>4. CASE SweepTries
  <2>1. PICK s : s = sweep.key.session
    OBVIOUS
  <2>2. CASE MaySweep(s) /\ sweep' = [sweep EXCEPT !.pc = "state", !.isLocked = s \in known]
    <3>1. PICK b \in BOOLEAN : b <=> (s \in known)
      <4>1. CASE s \in known
        BY <4>1, Zenon
      <4>2. CASE s \notin known
        BY <4>2, Zenon
      <4> QED BY <4>1, <4>2
    <3>2. sweep' = [sweep EXCEPT !.pc = "state", !.isLocked = b]
      <4>1. b = (s \in known)
        BY <3>1, Zenon
      <4> QED BY <2>2, <4>1
    <3>3. /\ sweep' \in SweepRecord /\ sweep'.pc = "state" /\ sweep'.key = sweep.key
          /\ sweep'.isLocked = b
      BY <1>1, <3>2 DEF SweepRecord
    <3>4. sweep'.isLocked <=> s \in known
      BY <3>1, <3>3, Zenon
    <3> QED BY <1>4, <2>1, <2>2, <3>3, <3>4 DEF SweepTries
  <2>3. CASE sweep' = [sweep EXCEPT !.pc = "look"]
    BY <1>1, <1>4, <2>3 DEF SweepTries, SweepRecord
  <2> QED BY <1>4, <2>1, <2>2, <2>3 DEF SweepTries
<1>5. CASE SweepsState
  BY <1>1, <1>5 DEF SweepsState, SweepRecord, locks
<1>6. CASE SweepsMarker
  <2>1. sweep' = [sweep EXCEPT !.pc = "look", !.key = Never, !.isLocked = FALSE]
    BY <1>6 DEF SweepsMarker
  <2>2. sweep' \in SweepRecord /\ sweep'.pc = "look" /\ ~sweep'.isLocked
    BY <1>1, <2>1 DEF SweepRecord
  <2> QED BY <1>6, <2>2 DEF SweepsMarker
<1> QED BY <1>2, <1>3, <1>4, <1>5, <1>6 DEF Sweep

\* The daemon dies: nobody is past a mutex any more.
LEMMA AllLost ==
  ASSUME TypeOK, Restart
  PROVE  /\ op' \in [Ops -> OpRecord]
         /\ \A o \in Ops : op'[o].pc \in {"idle", "done", "lost"}
         /\ sweep' \in SweepRecord /\ sweep'.pc = "idle" /\ (~sweep'.isLocked)
<1>1. ASSUME NEW o \in Ops
      PROVE  op'[o] \in OpRecord /\ op'[o].pc \in {"idle", "done", "lost"}
  <2>1. [op[o] EXCEPT !.pc = "lost"] \in OpRecord /\ [op[o] EXCEPT !.pc = "lost"].pc = "lost" /\ op[o] \in OpRecord
    BY DEF TypeOK, OpRecord
  <2>2. op'[o] = IF op[o].pc \in {"idle", "done"} THEN op[o] ELSE [op[o] EXCEPT !.pc = "lost"]
    BY DEF Restart
  <2> QED BY <2>1, <2>2
<1>2. op' = [o \in Ops |-> op'[o]]
  BY DEF Restart
<1>3. sweep' \in SweepRecord /\ sweep'.pc = "idle" /\ ~sweep'.isLocked
  BY DEF Restart, NoSweep, SweepRecord
<1> QED BY <1>1, <1>2, <1>3

\* The start.
LEMMA InitIInv == Init => IInv
<1> SUFFICES ASSUME Init PROVE IInv
  OBVIOUS
<1>1. op \in [Ops -> OpRecord] /\ \A o \in Ops : op[o].pc = "idle"
  BY DEF Init, OpRecord
<1>2. sweep \in SweepRecord /\ sweep.pc = "idle" /\ ~sweep.isLocked
  BY DEF Init, NoSweep, SweepRecord
<1>3. TypeOK
  BY <1>1, <1>2, LedgerAssumption DEF Init, TypeOK, OpRecord, SweepRecord, Critical
<1>4. Excluded /\ Undermined /\ FreshMeansNoState
  BY <1>1, <1>2 DEF Excluded, Undermined, FreshMeansNoState, Answered, Critical
<1>5. Marked /\ Kept
  BY <1>1, <1>2 DEF Init, Marked, Kept
<1> QED BY <1>3, <1>4, <1>5 DEF IInv

-----------------------------------------------------------------------------
(***************************************************************************)
(* Types and mutual exclusion                                              *)
(***************************************************************************)
\* The sweep, an operation, a restart or the clock: what each leaves typed.
LEMMA TypeStep == ASSUME TypeOK, Excluded, [Next]_vars PROVE TypeOK'
<1> USE LedgerAssumption
<1> DEFINE Referred == \A o \in Ops : op[o].pc \in {"lock"} \cup Critical => request[o].session \in known
<1>1. op \in [Ops -> OpRecord] /\ sweep \in SweepRecord /\ Referred
  BY DEF TypeOK, OpRecord, SweepRecord
<1>2. ASSUME op' \in [Ops -> OpRecord], sweep' \in SweepRecord, request' = request, known' \subseteq Sessions,
             holder' \in [Sessions -> Ops \cup {Sweeper, Free}], marker' \in [Keys -> Nat \cup {Never}],
             state' \subseteq Keys, now' \in Nat, restarts' \in Nat, captured' \subseteq Keys, spoiled' \subseteq Keys,
             Referred'
      PROVE  TypeOK'
  BY <1>2 DEF TypeOK, OpRecord, SweepRecord
<1>3. ASSUME NEW o \in Ops, Step(o)
      PROVE  TypeOK'
  <2> USE DEF clock
  <2>1. op' \in [Ops -> OpRecord] /\ (\A p \in Ops : p # o => op'[p] = op[p]) /\ UNCHANGED <<request, sweep, clock>>
    BY <1>3, OpMoves
  <2>2. key(o) \in Keys /\ session(o) \in Sessions
    BY KeyOf
  <2>3. op'[o].pc \in {"lock"} \cup Critical /\ op[o].pc # "idle" => op[o].pc \in {"lock"} \cup Critical
    BY <1>3, OpMoves DEF Critical
  <2>4. known' = IF op[o].pc = "idle" THEN known \cup {session(o)} ELSE known
    BY <1>3, OpMoves DEF GetMutex, Acquire, Stat, Write, MarkingFails, Touch, Start, Finish, locks
  <2>5. Referred'
    BY <1>1, <2>1, <2>3, <2>4 DEF session
  <2>6. spoiled' \subseteq Keys /\ state' \subseteq Keys /\ captured' \subseteq Keys
    <3>1. CASE Acquire(o)
      BY <3>1 DEF Acquire, files, Undermines, Excluded, TypeOK
    <3>2. CASE MarkingFails(o)
      BY <2>2, <3>2 DEF MarkingFails, files, TypeOK
    <3>3. CASE Finish(o)
      BY <2>2, <3>3 DEF Finish, TypeOK
    <3>4. CASE GetMutex(o) \/ Stat(o) \/ Write(o) \/ Touch(o) \/ Start(o)
      BY <3>4 DEF GetMutex, Stat, Write, Touch, Start, files, history, TypeOK
    <3> QED BY <1>3, <3>1, <3>2, <3>3, <3>4 DEF Step
  <2>7. holder' \in [Sessions -> Ops \cup {Sweeper, Free}]
    <3>1. holder' = holder \/ (\E h \in Ops \cup {Sweeper, Free} : holder' = [holder EXCEPT ![session(o)] = h])
      BY <1>3 DEF Step, GetMutex, Acquire, Stat, Write, MarkingFails, Touch, Start, Finish, locks
    <3> QED BY <2>2, <3>1 DEF TypeOK
  <2>8. marker' \in [Keys -> Nat \cup {Never}]
    <3>1. marker' = marker \/ marker' = [marker EXCEPT ![key(o)] = now]
      BY <1>3 DEF Step, GetMutex, Acquire, Stat, Write, MarkingFails, Touch, Start, Finish, files
    <3> QED BY <2>2, <3>1 DEF TypeOK
  <2> QED BY <1>1, <1>2, <2>1, <2>4, <2>2, <2>5, <2>6, <2>7, <2>8 DEF TypeOK
<1>4. CASE Sweep
  <2>1. sweep' \in SweepRecord /\ UNCHANGED <<request, op, known, clock>>
    BY <1>4, SweepMoves
  <2>2. Referred'
    BY <1>1, <2>1
  <2>3. CASE SweepStarts \/ SweepLooks
    BY <1>1, <1>2, <2>1, <2>2, <2>3 DEF SweepStarts, SweepLooks, locks, files, clock, history, TypeOK
  <2>4. CASE SweepTries
    <3>1. sweep.key.session \in Sessions
      BY <2>4 DEF SweepTries, Excluded, Keys
    <3>2. holder' = holder \/ holder' = [holder EXCEPT ![sweep.key.session] = Sweeper]
      BY <2>4 DEF SweepTries
    <3>3. holder' \in [Sessions -> Ops \cup {Sweeper, Free}]
      BY <3>1, <3>2 DEF TypeOK
    <3> QED BY <1>1, <1>2, <2>1, <2>2, <2>4, <3>3 DEF SweepTries, files, clock, history, TypeOK
  <2>5. CASE SweepsState
    <3>1. sweep.key \in Keys
      BY <2>5 DEF SweepsState, Excluded
    <3>2. state' \subseteq Keys /\ spoiled' \subseteq Keys
      BY <2>5, <3>1 DEF SweepsState, Swept, TypeOK
    <3> QED BY <1>1, <1>2, <2>1, <2>2, <2>5, <3>2 DEF SweepsState, locks, clock, TypeOK
  <2>6. CASE SweepsMarker
    <3>1. sweep.key \in Keys /\ sweep.key.session \in Sessions
      BY <2>6 DEF SweepsMarker, Excluded, Keys
    <3>2. holder' \in [Sessions -> Ops \cup {Sweeper, Free}]
      BY <2>6, <3>1 DEF SweepsMarker, TypeOK
    <3>3. spoiled' \subseteq Keys /\ captured' \subseteq Keys
      BY <2>6, <3>1 DEF SweepsMarker, TypeOK
    <3>4. marker' \in [Keys -> Nat \cup {Never}]
      BY <2>6, <3>1 DEF SweepsMarker, TypeOK
    <3> QED BY <1>1, <1>2, <2>1, <2>2, <2>6, <3>2, <3>3, <3>4 DEF SweepsMarker, clock, TypeOK
  <2> QED BY <1>4, <2>3, <2>4, <2>5, <2>6 DEF Sweep
<1>5. CASE Restart
  <2>1. op' \in [Ops -> OpRecord] /\ (\A o \in Ops : op'[o].pc \in {"idle", "done", "lost"}) /\ sweep' \in SweepRecord
    BY <1>5, AllLost
  <2>2. Referred'
    BY <2>1 DEF Critical
  <2>3. spoiled' \subseteq Keys
    BY <1>5 DEF Restart, Excluded, TypeOK
  <2>4. holder' \in [Sessions -> Ops \cup {Sweeper, Free}] /\ known' \subseteq Sessions
    BY <1>5 DEF Restart
  <2> QED BY <1>1, <1>2, <1>5, <2>1, <2>2, <2>3, <2>4 DEF Restart, files, TypeOK
<1>6. CASE TimePasses \/ UNCHANGED vars
  <2>1. now' \in Nat
    BY <1>6 DEF TimePasses, vars, clock, TypeOK
  <2>2. Referred'
    BY <1>1, <1>6 DEF TimePasses, vars, locks
  <2> QED BY <1>1, <1>2, <1>6, <2>1, <2>2 DEF TimePasses, vars, locks, files, clock, history, TypeOK
<1> QED BY <1>3, <1>4, <1>5, <1>6 DEF Next

\* Two operations never run in one session, nor one under the sweep.
LEMMA ExcludedStep == ASSUME TypeOK, Excluded, [Next]_vars PROVE Excluded'
<1> USE LedgerAssumption
<1>1. ASSUME NEW o \in Ops, Step(o)
      PROVE  Excluded'
  <2>1. (\A p \in Ops : p # o => op'[p] = op[p]) /\ UNCHANGED <<request, sweep>>
    BY <1>1, OpMoves
  <2>2. \A p \in Ops : session(p) \in Sessions
    BY KeyOf
  <2>3. CASE holder' = holder /\ (op'[o].pc \in Critical => op[o].pc \in Critical)
    BY <2>1, <2>3 DEF Excluded, session
  <2>4. CASE Acquire(o)
    <3>1. holder[session(o)] = Free /\ holder' = [holder EXCEPT ![session(o)] = o]
      BY <2>4 DEF Acquire, IsFree
    <3>2. \A p \in Ops : p # o /\ op[p].pc \in Critical => session(p) # session(o)
      BY <3>1 DEF Excluded
    <3>3. sweep.isLocked => sweep.key.session # session(o)
      BY <3>1 DEF Excluded
    <3>4. \A p \in Ops : op'[p].pc \in Critical => holder'[session(p)] = p
      BY <2>1, <2>2, <3>1, <3>2 DEF Excluded, TypeOK
    <3>5. sweep.isLocked => sweep.key.session \in Sessions
      BY DEF Excluded, Keys
    <3>6. sweep'.isLocked => holder'[sweep'.key.session] = Sweeper
      BY <2>1, <3>1, <3>3, <3>5 DEF Excluded, TypeOK
    <3> QED BY <2>1, <3>4, <3>6 DEF Excluded, session
  <2>5. CASE Finish(o)
    <3>1. op[o].pc \in Critical /\ op'[o].pc = "done"
      BY <2>5 DEF Finish, Goto, Critical, TypeOK
    <3>2. holder' = [holder EXCEPT ![session(o)] = Free]
      BY <2>5 DEF Finish
    <3>3. \A p \in Ops : p # o /\ op[p].pc \in Critical => session(p) # session(o)
      BY <3>1, OneHolder
    <3>4. \A p \in Ops : op'[p].pc \in Critical => holder'[session(p)] = p
      BY <2>1, <2>2, <3>1, <3>2, <3>3 DEF Excluded, TypeOK, Critical
    <3>5. sweep.isLocked => sweep.key.session # session(o) /\ sweep.key.session \in Sessions
      BY <3>1, OneHolder DEF Excluded, Keys
    <3>6. sweep'.isLocked => holder'[sweep'.key.session] = Sweeper
      BY <2>1, <3>2, <3>5 DEF Excluded, TypeOK
    <3> QED BY <2>1, <3>4, <3>6 DEF Excluded, session
  <2>6. CASE ~Acquire(o) /\ ~Finish(o)
    <3>1. op'[o].pc \in Critical => op[o].pc \in Critical
      BY <1>1, <2>6, OpMoves DEF Critical
    <3>2. holder' = holder
      BY <1>1, <2>6 DEF Step, GetMutex, Stat, Write, MarkingFails, Touch, Start, locks
    <3> QED BY <2>3, <3>1, <3>2
  <2> QED BY <2>4, <2>5, <2>6
<1>2. CASE Sweep
  <2>1. UNCHANGED <<request, op>>
    BY <1>2, SweepMoves
  <2>2. CASE SweepStarts \/ SweepLooks \/ SweepsState
    <3>1. holder' = holder
      BY <2>2 DEF SweepStarts, SweepLooks, SweepsState, locks
    <3>2. /\ sweep'.pc \in {"try", "state", "marker"} => sweep'.key \in Keys
          /\ sweep'.isLocked => /\ sweep.isLocked /\ sweep.pc = "state" /\ sweep'.pc = "marker"
                                /\ sweep'.key = sweep.key
      BY <1>2, <2>2, SweepMoves DEF Excluded, SweepStarts, SweepLooks, SweepsState
    <3> QED BY <2>1, <3>1, <3>2 DEF Excluded, session
  <2>3. CASE SweepTries
    <3>1. CASE sweep'.pc = "look"
      <4>1. sweep.pc = "try" /\ sweep'.isLocked = sweep.isLocked
        BY <1>2, <2>3, <3>1, SweepMoves DEF SweepTries
      <4>2. holder' = holder
        BY <2>3, <3>1 DEF SweepTries, TypeOK
      <4>3. ~sweep'.isLocked
        BY <4>1 DEF Excluded
      <4> QED BY <2>1, <3>1, <4>2, <4>3 DEF Excluded, session
    <3>2. CASE sweep'.pc = "state"
      <4>1. PICK s : s = sweep.key.session
        OBVIOUS
      <4>2. /\ sweep.key \in Keys /\ s \in Sessions /\ sweep'.key = sweep.key
            /\ sweep'.isLocked <=> s \in known
            /\ s \in known => holder[s] = Free
        BY <1>2, <2>3, <3>2, <4>1, SweepMoves DEF SweepTries, MaySweep, Excluded, Keys
      <4>3. holder' = IF s \in known THEN [holder EXCEPT ![s] = Sweeper] ELSE holder
        BY <2>3, <3>2, <4>1 DEF SweepTries, TypeOK
      <4>4. \A p \in Ops : op[p].pc \in Critical /\ s \in known => session(p) # s
        BY <4>2 DEF Excluded
      <4>5. \A p \in Ops : op'[p].pc \in Critical => holder'[session(p)] = p
        BY <2>1, <4>2, <4>3, <4>4, KeyOf DEF Excluded, TypeOK
      <4>6. sweep'.isLocked => holder'[sweep'.key.session] = Sweeper
        BY <4>1, <4>2, <4>3 DEF TypeOK
      <4> QED BY <2>1, <3>2, <4>2, <4>5, <4>6 DEF Excluded, session
    <3> QED BY <1>2, <2>3, <3>1, <3>2, SweepMoves DEF SweepTries
  <2>4. CASE SweepsMarker
    <3>1. sweep'.pc = "look" /\ ~sweep'.isLocked
      BY <1>2, <2>4, SweepMoves DEF SweepsMarker
    <3>2. holder' = IF sweep.isLocked THEN [holder EXCEPT ![sweep.key.session] = Free] ELSE holder
      BY <2>4 DEF SweepsMarker
    <3>3. \A p \in Ops : op[p].pc \in Critical /\ sweep.isLocked => session(p) # sweep.key.session
      BY OneHolder
    <3>4. \A p \in Ops : op'[p].pc \in Critical => holder'[session(p)] = p
      BY <2>1, <3>2, <3>3, KeyOf DEF Excluded, TypeOK
    <3> QED BY <2>1, <3>1, <3>4 DEF Excluded, session
  <2> QED BY <1>2, <2>2, <2>3, <2>4 DEF Sweep
<1>3. CASE Restart
  <2>1. \A o \in Ops : op'[o].pc \notin Critical
    BY <1>3, AllLost DEF Critical
  <2>2. sweep'.pc = "idle" /\ ~sweep'.isLocked
    BY <1>3, AllLost
  <2> QED BY <2>1, <2>2 DEF Excluded
<1>4. CASE TimePasses \/ UNCHANGED vars
  BY <1>4 DEF TimePasses, vars, locks, Excluded, session
<1> QED BY <1>1, <1>2, <1>3, <1>4 DEF Next

-----------------------------------------------------------------------------
(***************************************************************************)
(* Ledger and state                                                        *)
(***************************************************************************)
\* A sweep that does not hold the mutex has spoiled its key by the time anybody
\* has it.
LEMMA UnderminedStep ==
  ASSUME TypeOK, Excluded, Undermined, [Next]_vars
  PROVE  Undermined'
<1>1. ASSUME NEW o \in Ops, Step(o)
      PROVE  Undermined'
  <2>1. (\A p \in Ops : p # o => op'[p] = op[p]) /\ UNCHANGED <<request, sweep>>
    BY <1>1, OpMoves
  <2>2. spoiled \subseteq spoiled'
    BY <1>1 DEF Step, GetMutex, Acquire, Stat, Write, MarkingFails, Touch, Start, Finish, history
  <2>3. CASE Acquire(o)
    <3>1. Undermines(session(o)) => sweep.key \in spoiled'
      BY <2>3 DEF Acquire
    <3> QED BY <2>1, <2>2, <3>1 DEF Undermined, Undermines, session
  <2>4. CASE ~Acquire(o)
    <3>1. op'[o].pc \in Critical => op[o].pc \in Critical
      BY <1>1, <2>4, OpMoves DEF Critical
    <3> QED BY <2>1, <2>2, <3>1 DEF Undermined, Undermines, session
  <2> QED BY <2>3, <2>4
<1>2. CASE Sweep
  <2>1. UNCHANGED <<request, op>>
    BY <1>2, SweepMoves
  <2>2. CASE sweep'.pc \notin {"state", "marker"}
    BY <2>2 DEF Undermined, Undermines
  <2>3. CASE SweepTries /\ sweep'.pc = "state"
    <3>1. sweep'.key = sweep.key /\ (sweep'.isLocked <=> sweep.key.session \in known)
      BY <1>2, <2>3, SweepMoves DEF SweepTries
    <3>2. \A o \in Ops : op[o].pc \in Critical => session(o) \in known
      BY DEF TypeOK, session
    <3> QED BY <2>1, <3>1, <3>2 DEF Undermined, Undermines, session
  <2>4. CASE SweepsState
    <3>1. sweep.pc = "state" /\ sweep'.key = sweep.key /\ sweep'.isLocked = sweep.isLocked
      BY <1>2, <2>4, SweepMoves DEF SweepsState
    <3>2. spoiled \subseteq spoiled'
      BY <2>4 DEF SweepsState
    <3> QED BY <2>1, <3>1, <3>2 DEF Undermined, Undermines, session
  <2> QED BY <1>2, <2>2, <2>3, <2>4, SweepMoves
<1>3. CASE Restart
  BY <1>3, AllLost DEF Undermined, Critical
<1>4. CASE TimePasses \/ UNCHANGED vars
  BY <1>4 DEF TimePasses, vars, history, Undermined, Undermines, session
<1> QED BY <1>1, <1>2, <1>3, <1>4 DEF Next

\* What the sweep deletes is nobody's, or spoiled.
LEMMA SweptAlone ==
  ASSUME TypeOK, Excluded, Undermined, sweep.pc \in {"state", "marker"},
         NEW o \in Ops, op[o].pc \in Critical, sweep.key = key(o)
  PROVE  sweep.key \in spoiled /\ ~sweep.isLocked
<1>1. ~sweep.isLocked
  BY OneHolder, KeyOf
<1> QED BY <1>1, KeyOf DEF Undermined, Undermines

\* What each step of an operation does to the files and the two histories.
LEMMA OpFiles ==
  ASSUME TypeOK, NEW o \in Ops, Step(o)
  PROVE  /\ spoiled \subseteq spoiled' /\ captured \subseteq captured' /\ state \subseteq state'
         /\ (op[o].pc \in {"start", "command"} /\ op'[o].pc = "done") \/ (state' = state /\ captured' = captured)
         /\ state' \subseteq state \cup {key(o)} /\ captured' \subseteq captured \cup {key(o)}
         /\ key(o) \in captured' => key(o) \in state' \/ key(o) \in captured
         /\ marker' = marker \/ (/\ op[o].pc \in {"write", "touch"} /\ marker' = [marker EXCEPT ![key(o)] = now])
<1>1. CASE Finish(o)
  <2>1. op[o].pc \in {"start", "command"} /\ op'[o].pc = "done"
    BY <1>1 DEF Finish, Goto, TypeOK
  <2> QED BY <1>1, <2>1 DEF Finish
<1>2. CASE Acquire(o) \/ MarkingFails(o)
  BY <1>2 DEF Acquire, MarkingFails, files
<1>3. CASE GetMutex(o) \/ Stat(o) \/ Start(o)
  BY <1>3 DEF GetMutex, Stat, Start, files, history
<1>4. CASE Write(o) \/ Touch(o)
  BY <1>4 DEF Write, Touch, Answer, history
<1> QED BY <1>1, <1>2, <1>3, <1>4 DEF Step

\* A marker that is there stays while the operation that saw it goes on.
LEMMA MarkedStep ==
  ASSUME TypeOK, Excluded, Undermined, Marked, [Next]_vars
  PROVE  Marked'
<1> USE LedgerAssumption
<1> DEFINE Sees(o) == op[o].pc \in {"touch", "start", "command"}
<1>1. now # Never
  BY DEF TypeOK
<1>2. ASSUME NEW o \in Ops, Step(o)
      PROVE  Marked'
  <2>1. (\A p \in Ops : p # o => op'[p] = op[p]) /\ UNCHANGED <<request, sweep>>
    BY <1>2, OpMoves
  <2>2. /\ spoiled \subseteq spoiled' /\ state' \subseteq state \cup {key(o)}
        /\ op[o].pc \in {"start", "command"} \/ state' = state
        /\ marker' = marker \/ (/\ op[o].pc \in {"write", "touch"} /\ marker' = [marker EXCEPT ![key(o)] = now])
    BY <1>2, OpFiles
  <2>3. key(o) \in Keys /\ \A p \in Ops : key(p) \in Keys /\ key(p)' = key(p)
    BY <2>1, KeyOf DEF key
  <2>4. \A k \in Keys : (marker[k] # Never => marker'[k] # Never) /\ (k # key(o) => marker'[k] = marker[k])
    BY <1>1, <2>2, <2>3 DEF TypeOK
  <2>5. Sees(o)' /\ key(o) \notin spoiled' => marker'[key(o)] # Never
    <3>1. CASE Sees(o)
      BY <2>2, <2>3, <2>4, <3>1 DEF Marked
    <3>2. CASE Stat(o)
      <4>1. op'[o].pc = (IF marker[key(o)] = Never THEN "write" ELSE "touch") /\ marker' = marker
        BY <3>2 DEF Stat, Goto, files, TypeOK
      <4> QED BY <4>1
    <3>3. CASE Write(o) \/ Touch(o)
      <4>1. CASE marker' = [marker EXCEPT ![key(o)] = now]
        BY <1>1, <2>3, <4>1 DEF TypeOK
      <4>2. CASE Touch(o)
        BY <3>1, <4>2 DEF Touch, Answer
      <4> QED BY <3>3, <4>1, <4>2 DEF Write
    <3>4. CASE MarkingFails(o)
      BY <3>4 DEF MarkingFails
    <3> QED BY <1>2, <3>1, <3>2, <3>3, <3>4, OpMoves
  <2>6. \A k \in state' \ spoiled' : marker'[k] # Never
    <3>1. CASE op[o].pc \in {"start", "command"}
      <4>1. key(o) \notin spoiled => marker[key(o)] # Never
        BY <3>1 DEF Marked
      <4> QED BY <2>2, <2>3, <2>4, <4>1 DEF Marked, TypeOK
    <3>2. CASE state' = state
      BY <2>2, <2>4, <3>2 DEF Marked, TypeOK
    <3> QED BY <2>2, <3>1, <3>2
  <2>7. ASSUME NEW p \in Ops, op'[p].pc = "write"
        PROVE  marker'[key(p)] = Never
    <3>1. CASE p = o
      <4>1. Stat(o) /\ marker[key(o)] = Never
        BY <1>2, <2>7, <3>1, OpMoves
      <4> QED BY <3>1, <4>1 DEF Stat, files
    <3>2. CASE p # o
      <4>1. op[p].pc = "write" /\ op[p].pc \in Critical
        BY <2>1, <2>7, <3>2 DEF Critical
      <4>2. op[o].pc \in {"write", "touch"} => key(p) # key(o)
        BY <3>2, <4>1, OneHolder DEF Critical
      <4>3. marker'[key(p)] = marker[key(p)]
        BY <2>2, <2>3, <2>4, <4>2
      <4> QED BY <4>1, <4>3 DEF Marked
    <3> QED BY <3>1, <3>2
  <2>8. ASSUME NEW p \in Ops, Sees(p)', key(p) \notin spoiled'
        PROVE  marker'[key(p)] # Never
    <3>1. CASE p = o
      BY <2>5, <2>8, <3>1
    <3>2. CASE p # o
      BY <2>1, <2>2, <2>3, <2>4, <2>8, <3>2 DEF Marked
    <3> QED BY <3>1, <3>2
  <2>9. sweep'.pc = "marker" /\ sweep'.key \notin spoiled' => sweep'.key \notin state'
    <3>1. CASE op[o].pc \in {"start", "command"}
      <4>1. sweep.pc = "marker" /\ sweep.key = key(o) => sweep.key \in spoiled
        BY <3>1, SweptAlone DEF Critical
      <4> QED BY <2>1, <2>2, <4>1 DEF Marked
    <3>2. CASE state' = state
      BY <2>1, <2>2, <3>2 DEF Marked
    <3> QED BY <2>2, <3>1, <3>2
  <2> QED BY <2>3, <2>6, <2>7, <2>8, <2>9 DEF Marked
<1>3. CASE Sweep
  <2>1. UNCHANGED <<request, op>> /\ \A p \in Ops : key(p) \in Keys /\ key(p)' = key(p)
    BY <1>3, SweepMoves, KeyOf DEF key
  <2>2. CASE SweepStarts \/ SweepLooks \/ SweepTries
    <3>1. UNCHANGED <<marker, state, spoiled>> /\ sweep'.pc # "marker"
      BY <1>3, <2>2, SweepMoves DEF SweepStarts, SweepLooks, SweepTries, files, history
    <3> QED BY <2>1, <3>1 DEF Marked
  <2>3. CASE SweepsState
    <3>1. /\ sweep'.key = sweep.key /\ marker' = marker /\ state' \subseteq state /\ spoiled \subseteq spoiled'
          /\ sweep.key \notin spoiled' => sweep.key \notin state'
      BY <1>3, <2>3, SweepMoves DEF SweepsState, Swept
    <3> QED BY <2>1, <3>1 DEF Marked
  <2>4. CASE SweepsMarker
    <3>1. PICK k \in Keys : k = sweep.key
      BY <2>4 DEF SweepsMarker, Excluded
    <3>2. sweep.pc = "marker" /\ sweep'.pc = "look" /\ state' = state
      BY <1>3, <2>4, SweepMoves DEF SweepsMarker
    <3>3. \A p \in Ops : op[p].pc \in Critical /\ key(p) = k => k \in spoiled /\ ~sweep.isLocked
      BY <3>1, <3>2, SweptAlone
    <3>4. CASE marker' = [marker EXCEPT ![k] = Never] /\
               spoiled' = IF sweep.isLocked /\ k \notin state THEN spoiled \ {k} ELSE spoiled
      <4>1. \A q \in Keys : marker'[q] = IF q = k THEN Never ELSE marker[q]
        BY <3>4 DEF TypeOK
      <4>2. k \in spoiled' \/ k \notin state
        BY <3>1, <3>2, <3>4 DEF Marked
      <4>3. \A q \in state' \ spoiled' : marker'[q] # Never
        BY <3>2, <3>4, <4>1, <4>2 DEF Marked, TypeOK
      <4>4. \A p \in Ops : op'[p].pc = "write" => marker'[key(p)] = Never
        BY <2>1, <4>1 DEF Marked
      <4>5. \A p \in Ops : Sees(p)' /\ key(p) \notin spoiled' => marker'[key(p)] # Never
        <5>1. \A p \in Ops : Sees(p) /\ key(p) = k => k \in spoiled'
          BY <3>3, <3>4 DEF Critical
        <5> QED BY <2>1, <3>4, <4>1, <5>1 DEF Marked
      <4> QED BY <2>1, <3>2, <4>3, <4>4, <4>5 DEF Marked
    <3>5. CASE marker' = marker /\ spoiled' = spoiled \cup {k}
      BY <2>1, <3>2, <3>5 DEF Marked
    <3> QED BY <2>4, <3>1, <3>4, <3>5 DEF SweepsMarker
  <2> QED BY <1>3, <2>2, <2>3, <2>4 DEF Sweep
<1>4. CASE Restart
  <2>1. (\A o \in Ops : op'[o].pc \notin Critical) /\ sweep'.pc = "idle"
    BY <1>4, AllLost DEF Critical
  <2>2. marker' = marker /\ state' = state /\ spoiled \subseteq spoiled'
    BY <1>4 DEF Restart, files
  <2> QED BY <2>1, <2>2 DEF Marked, Critical
<1>5. CASE TimePasses \/ UNCHANGED vars
  BY <1>5 DEF TimePasses, vars, files, history, Marked, key
<1> QED BY <1>2, <1>3, <1>4, <1>5 DEF Next

\* An operation that is told its shell is fresh has no state, and gets none
\* from another one.
LEMMA FreshStep ==
  ASSUME TypeOK, Excluded, Undermined, Marked, FreshMeansNoState, [Next]_vars
  PROVE  FreshMeansNoState'
<1>1. ASSUME NEW o \in Ops, Step(o)
      PROVE  FreshMeansNoState'
  <2>1. (\A p \in Ops : p # o => op'[p] = op[p]) /\ UNCHANGED <<request, sweep>>
    BY <1>1, OpMoves
  <2>2. /\ spoiled \subseteq spoiled' /\ state' \subseteq state \cup {key(o)}
        /\ (op[o].pc \in {"start", "command"} /\ op'[o].pc = "done") \/ state' = state
    BY <1>1, OpFiles
  <2>3. \A p \in Ops : key(p)' = key(p)
    BY <2>1 DEF key
  <2>4. ASSUME Answered(o)', op'[o].isFresh, key(o) \notin spoiled'
        PROVE  key(o) \notin state'
    <3>1. state' = state /\ key(o) \notin spoiled
      BY <2>2, <2>4 DEF Answered
    <3>2. CASE Start(o)
      BY <1>1, <2>4, <3>1, <3>2, OpMoves DEF Start, Goto, FreshMeansNoState, Answered, TypeOK
    <3>3. CASE Write(o)
      <4>1. marker[key(o)] = Never
        BY <3>3 DEF Write, Answer, Marked
      <4> QED BY <3>1, <4>1 DEF Marked
    <3>4. CASE MarkingFails(o)
      BY <2>4, <3>4 DEF MarkingFails
    <3>5. CASE Touch(o)
      <4>1. CASE marker[key(o)] # Never
        <5>1. op' = [op EXCEPT ![o] = [pc |-> "start", isFresh |-> FALSE]]
          BY <3>5, <4>1 DEF Touch, Answer
        <5> QED BY <2>4, <5>1 DEF TypeOK
      <4>2. CASE marker[key(o)] = Never
        BY <3>1, <3>5, <4>2 DEF Touch, Answer, Marked
      <4> QED BY <4>1, <4>2
    <3> QED BY <1>1, <2>4, <3>2, <3>3, <3>4, <3>5, OpMoves DEF Answered
  <2>5. ASSUME NEW p \in Ops, p # o, Answered(p)', op'[p].isFresh, key(p) \notin spoiled'
        PROVE  key(p) \notin state'
    <3>1. Answered(p) /\ op[p].isFresh /\ key(p) \notin spoiled /\ op[p].pc \in Critical
      BY <2>1, <2>2, <2>5 DEF Answered, Critical
    <3>2. key(p) \notin state
      BY <3>1 DEF FreshMeansNoState
    <3>3. op[o].pc \in {"start", "command"} => key(o) # key(p)
      BY <2>5, <3>1, OneHolder DEF Critical
    <3> QED BY <2>2, <3>2, <3>3
  <2> QED BY <2>3, <2>4, <2>5 DEF FreshMeansNoState
<1>2. CASE Sweep
  <2>1. UNCHANGED <<request, op>> /\ \A p \in Ops : key(p)' = key(p) /\ Answered(p)' = Answered(p)
    BY <1>2, SweepMoves DEF key, Answered
  <2>2. state' \subseteq state
    BY <1>2 DEF Sweep, SweepStarts, SweepLooks, SweepTries, SweepsState, SweepsMarker, Swept, files
  <2>3. ASSUME NEW p \in Ops, Answered(p), key(p) \notin spoiled'
        PROVE  key(p) \notin spoiled
    <3>1. CASE SweepsMarker
      <4>1. sweep.key = key(p) => ~sweep.isLocked
        BY <2>3, <3>1, SweptAlone DEF SweepsMarker, Answered, Critical
      <4> QED BY <2>3, <3>1, <4>1 DEF SweepsMarker
    <3>2. CASE ~SweepsMarker
      BY <1>2, <2>3, <3>2 DEF Sweep, SweepStarts, SweepLooks, SweepTries, SweepsState, history
    <3> QED BY <3>1, <3>2
  <2> QED BY <2>1, <2>2, <2>3 DEF FreshMeansNoState
<1>3. CASE Restart
  BY <1>3, AllLost DEF FreshMeansNoState, Answered
<1>4. CASE TimePasses \/ UNCHANGED vars
  BY <1>4 DEF TimePasses, vars, files, history, FreshMeansNoState, Answered, key
<1> QED BY <1>1, <1>2, <1>3, <1>4 DEF Next

\* What was captured is not lost.
LEMMA KeptStep ==
  ASSUME TypeOK, Excluded, Kept, [Next]_vars
  PROVE  Kept'
<1>1. ASSUME NEW o \in Ops, Step(o)
      PROVE  Kept'
  <2>1. /\ spoiled \subseteq spoiled' /\ state \subseteq state' /\ captured' \subseteq captured \cup {key(o)}
        /\ key(o) \in captured' => key(o) \in state' \/ key(o) \in captured
    BY <1>1, OpFiles
  <2>2. sweep' = sweep
    BY <1>1, OpMoves
  <2> QED BY <2>1, <2>2 DEF Kept
<1>2. CASE SweepStarts \/ SweepLooks \/ SweepTries
  <2>1. UNCHANGED <<state, captured, spoiled>> /\ sweep.pc # "marker"
    BY <1>2 DEF SweepStarts, SweepLooks, SweepTries, files, history
  <2> QED BY <2>1 DEF Kept
<1>3. CASE SweepsState
  <2>1. sweep.pc = "state" /\ sweep'.pc = "marker" /\ sweep'.key = sweep.key
    BY <1>3, SweepMoves DEF Sweep, SweepsState
  <2>2. spoiled \subseteq spoiled' /\ captured' = captured /\ state \ {sweep.key} \subseteq state'
    BY <1>3 DEF SweepsState, Swept
  <2> QED BY <2>1, <2>2 DEF Kept
<1>4. CASE SweepsMarker
  <2>1. captured' = captured \ {sweep.key} /\ state' = state /\ spoiled \ {sweep.key} \subseteq spoiled'
    BY <1>4 DEF SweepsMarker
  <2> QED BY <2>1 DEF Kept
<1>5. CASE Restart
  BY <1>5 DEF Restart, files, Kept
<1>6. CASE TimePasses \/ UNCHANGED vars
  BY <1>6 DEF TimePasses, vars, files, history, Kept
<1> QED BY <1>1, <1>2, <1>3, <1>4, <1>5, <1>6 DEF Next, Sweep

-----------------------------------------------------------------------------
(***************************************************************************)
(* The theorems                                                            *)
(***************************************************************************)
\* The invariant is inductive, and holds all along.
LEMMA Invariance == Spec => []IInv
<1>1. IInv /\ [Next]_vars => IInv'
  BY TypeStep, ExcludedStep, UnderminedStep, MarkedStep, FreshStep, KeptStep DEF IInv
<1> QED BY InitIInv, <1>1, PTL DEF Spec

\* The variables of the ledger, its files and its operations keep their types.
THEOREM TypeCorrect == Spec => []TypeOK
<1>1. IInv => TypeOK
  BY DEF IInv
<1> QED BY <1>1, Invariance, PTL

\* An operation that is told its shell is fresh finds no state of an earlier one.
THEOREM FreshIsFresh == Spec => []FreshMeansNoState
<1>1. IInv => FreshMeansNoState
  BY DEF IInv
<1> QED BY <1>1, Invariance, PTL

\* One that is told its shell resumes finds what was last captured.
THEOREM ResumedResumes == Spec => []ResumedFindsState
<1>1. ASSUME IInv, NEW o \in Ops, Answered(o), key(o) \in captured \ spoiled
      PROVE  key(o) \in state
  <2>1. op[o].pc \in Critical
    BY <1>1 DEF Answered, Critical
  <2>2. ~(sweep.pc = "marker" /\ sweep.key = key(o))
    BY <1>1, <2>1, SweptAlone DEF IInv
  <2> QED BY <1>1, <2>2 DEF IInv, Kept
<1>2. IInv => ResumedFindsState
  BY <1>1 DEF ResumedFindsState
<1> QED BY <1>2, Invariance, PTL

-----------------------------------------------------------------------------
(***************************************************************************)
(* The life of the daemon: the inductive invariant                         *)
(***************************************************************************)
RejectedRecord == [boot : 0..MaxBoots, token : Tokens \cup {NoToken}]
BoxRecord == [boot : 1..MaxBoots, crashes : 0..MaxCrashes]
DaemonRecord ==
  [pc : {"down", "pre", "load"} \cup Enrolling \cup Serving, login : 0..MaxEnrolments,
   refused : Tokens \cup {NoToken}, token : Tokens \cup {NoToken}, failed : BOOLEAN]
CommandRecord == [pc : {"out", "poll", "save", "revoke", "delete", "done"}, login : 0..MaxEnrolments]
UpdateRecord ==
  [pc : {"out", "fetch", "open", "write", "rename", "restart", "done"}, file : {"none", "partial", "installed"}]
BinaryRecord == [installed : {"whole", "torn"}, partial : {"none", "whole", "torn"}]

\* The types, in groups that one step seldom all changes.
PlatformTypes ==
  /\ tokens \in [Tokens -> {"fresh", "used"}] /\ logins \in [Numbers -> {"none", "live", "revoked"}]
  /\ tokenFile \in Tokens \cup {NoToken} /\ credentials \in 0..MaxEnrolments
DaemonTypes == rejected \in RejectedRecord /\ box \in BoxRecord /\ daemon \in DaemonRecord
CommandTypes == commands \in [Commands -> CommandRecord]
UpdateTypes == updates \in [Updates -> UpdateRecord] /\ binary \in BinaryRecord

\* Presenting a token, the daemon knows what it was refused in this boot.
Remembers ==
  /\ rejected.boot # 0 => rejected.token \in Tokens
  /\ daemon.pc \in {"post", "record"} => daemon.token \in Tokens
  /\ daemon.pc \in Enrolling /\ daemon.refused = NoToken => rejected.boot # box.boot

\* Between fetching the pointer and having renamed the partial binary.
Busy(u) == updates[u].pc \in {"fetch", "open", "write", "rename"}

\* One update at a time: it has the partial binary for itself, and no open file
\* ever is the installed one.
OneWriter ==
  /\ \A u, v \in Updates : Busy(u) /\ Busy(v) => u = v
  /\ \A u \in Updates : updates[u].file = IF updates[u].pc = "write" THEN "partial" ELSE "none"
  /\ \A u \in Updates : updates[u].pc = "rename" => binary.partial = "whole"
  /\ InstalledIsWhole

LifeIInv ==
  /\ PlatformTypes /\ DaemonTypes /\ CommandTypes /\ UpdateTypes
  /\ Remembers /\ ConnectsAsSaved
  /\ ~Overlap => OneWriter

-----------------------------------------------------------------------------
(***************************************************************************)
(* Types                                                                   *)
(***************************************************************************)
\* The numbers that count something start at nothing.
LEMMA Zeroes == 0 \in 0..MaxEnrolments /\ 0 \in 0..MaxBoots /\ 0 \in 0..MaxCrashes /\ 1 \in 1..MaxBoots
BY LifeAssumption

\* A daemon that is not running.
LEMMA DownTyped == Down \in DaemonRecord /\ Down.pc = "down" /\ Down.refused = NoToken /\ Down.token = NoToken
BY Zeroes DEF Down, DaemonRecord

\* The daemon goes from one place to another.
LEMMA DaemonAt ==
  ASSUME daemon \in DaemonRecord, NEW pc \in {"down", "pre", "load"} \cup Enrolling \cup Serving, Goes(pc)
  PROVE  /\ daemon' \in DaemonRecord /\ daemon'.pc = pc /\ daemon'.login = daemon.login
         /\ daemon'.refused = daemon.refused /\ daemon'.token = daemon.token
         /\ UNCHANGED <<box, commands, updates, binary>>
BY DEF Goes, Daemon, DaemonRecord, updating

\* The daemon begins to enrol, and knows what this boot was refused.
LEMMA DaemonEnrols ==
  ASSUME DaemonTypes, rejected.boot # 0 => rejected.token \in Tokens, Enrols
  PROVE  /\ daemon' \in DaemonRecord /\ daemon'.pc = "look"
         /\ rejected' \in RejectedRecord /\ (rejected'.boot # 0 => rejected'.token \in Tokens)
         /\ daemon'.refused = NoToken => rejected'.boot # box.boot
         /\ UNCHANGED <<box, commands, updates, binary>>
<1>1. rejected.boot \in Nat /\ box.boot \in Nat \ {0}
  BY LifeAssumption DEF DaemonTypes, RejectedRecord, BoxRecord
<1>2. PICK t : t = IF rejected.boot = box.boot THEN rejected.token ELSE NoToken
  OBVIOUS
<1>3. daemon' = [daemon EXCEPT !.pc = "look", !.login = 0, !.refused = t]
  BY <1>2 DEF Enrols, Daemon
<1>4. t \in Tokens \cup {NoToken}
  BY <1>2 DEF DaemonTypes, RejectedRecord
<1>5. daemon' \in DaemonRecord /\ daemon'.pc = "look" /\ daemon'.refused = t
  BY <1>3, <1>4, Zeroes DEF DaemonTypes, DaemonRecord, Enrolling
<1>6. CASE rejected.boot = box.boot
  <2>1. rejected' = rejected /\ t \in Tokens
    BY <1>1, <1>2, <1>6 DEF Enrols
  <2> QED BY <1>5, <2>1, LifeAssumption DEF DaemonTypes, Enrols, Daemon, updating
<1>7. CASE rejected.boot # box.boot
  <2>1. rejected' = [boot |-> 0, token |-> NoToken]
    BY <1>7 DEF Enrols
  <2>2. rejected' \in RejectedRecord /\ rejected'.boot = 0
    BY <2>1, Zeroes DEF RejectedRecord
  <2> QED BY <1>1, <1>5, <2>2 DEF Enrols, Daemon, updating
<1> QED BY <1>6, <1>7

\* What every step of the daemon's loop leaves: a daemon of its type, and one
\* that remembers what it was refused.
LEMMA RunStep ==
  ASSUME PlatformTypes, DaemonTypes, Remembers, Run \/ Stops \/ DaemonCrashes
  PROVE  DaemonTypes' /\ Remembers'
<1> USE LifeAssumption
<1>1. daemon \in DaemonRecord /\ rejected \in RejectedRecord /\ box \in BoxRecord
  BY DEF DaemonTypes
<1>2. ASSUME daemon' \in DaemonRecord, daemon'.pc \notin Enrolling, UNCHANGED <<rejected, box>>
      PROVE  DaemonTypes' /\ Remembers'
  BY <1>1, <1>2 DEF DaemonTypes, Remembers, Enrolling
<1>3. ASSUME daemon' \in DaemonRecord, daemon'.pc \in Enrolling, daemon.pc \in Enrolling, UNCHANGED <<rejected, box>>,
             daemon'.refused = daemon.refused, daemon'.pc \in {"post", "record"} => daemon'.token \in Tokens
      PROVE  DaemonTypes' /\ Remembers'
  BY <1>1, <1>3 DEF DaemonTypes, Remembers
<1>4. CASE UnitStarts
  <2>1. [Down EXCEPT !.pc = "pre"] \in DaemonRecord /\ [Down EXCEPT !.pc = "pre"].pc = "pre"
    BY DownTyped DEF DaemonRecord
  <2> QED BY <1>2, <1>4, <2>1 DEF UnitStarts, saved, Enrolling
<1>5. CASE ExecStart
  BY <1>1, <1>2, <1>5, DaemonAt DEF ExecStart, saved, Enrolling
<1>6. CASE Enrols
  <2>1. /\ daemon' \in DaemonRecord /\ daemon'.pc = "look"
        /\ rejected' \in RejectedRecord /\ (rejected'.boot # 0 => rejected'.token \in Tokens)
        /\ daemon'.refused = NoToken => rejected'.boot # box.boot
        /\ box' = box
    BY <1>6, DaemonEnrols DEF Remembers
  <2> QED BY <1>1, <2>1 DEF DaemonTypes, Remembers
<1>7. CASE Daemon(Down) /\ UNCHANGED rejected
  BY <1>2, <1>7, DownTyped DEF Daemon, Enrolling
<1>8. CASE Loads
  <2>1. CASE Daemon([daemon EXCEPT !.pc = "refresh", !.login = credentials]) /\ UNCHANGED rejected
    <3>1. [daemon EXCEPT !.pc = "refresh", !.login = credentials] \in DaemonRecord
          /\ [daemon EXCEPT !.pc = "refresh", !.login = credentials].pc = "refresh"
      BY <1>1 DEF PlatformTypes, DaemonRecord, Serving
    <3> QED BY <1>2, <2>1, <3>1 DEF Daemon, Enrolling
  <2> QED BY <1>6, <1>7, <1>8, <2>1 DEF Loads
<1>9. CASE Presents
  <2>1. CASE Goes("idle")
    <3>1. daemon' \in DaemonRecord /\ daemon'.pc = "idle" /\ daemon'.refused = daemon.refused /\ box' = box
      BY <1>1, <2>1, DaemonAt DEF Enrolling
    <3> QED BY <1>3, <1>9, <3>1 DEF Presents, saved, Enrolling
  <2>2. CASE tokenFile # NoToken /\ Daemon([daemon EXCEPT !.pc = "post", !.token = tokenFile])
    <3>1. /\ daemon' \in DaemonRecord /\ daemon'.pc = "post" /\ daemon'.refused = daemon.refused
          /\ daemon'.token = tokenFile /\ box' = box
      BY <1>1, <2>2 DEF Daemon, DaemonRecord, PlatformTypes, Enrolling
    <3>2. tokenFile \in Tokens
      BY <2>2 DEF PlatformTypes
    <3> QED BY <1>3, <1>9, <3>1, <3>2 DEF Presents, saved, Enrolling
  <2> QED BY <1>9, <2>1, <2>2 DEF Presents
<1>10. CASE Accepted
  <2>1. PICK n \in Numbers :
          \/ Daemon([daemon EXCEPT !.pc = "save", !.login = n, !.token = NoToken])
          \/ Daemon([daemon EXCEPT !.pc = "retry", !.token = NoToken])
    BY <1>10 DEF Accepted
  <2>2. n \in 0..MaxEnrolments
    BY DEF Numbers
  <2>3. daemon' \in DaemonRecord /\ daemon'.pc \in {"save", "retry"} /\ daemon'.refused = daemon.refused /\ box' = box
    <3>1. CASE Daemon([daemon EXCEPT !.pc = "save", !.login = n, !.token = NoToken])
      BY <1>1, <2>2, <3>1 DEF Daemon, DaemonRecord, Enrolling
    <3>2. CASE Daemon([daemon EXCEPT !.pc = "retry", !.token = NoToken])
      BY <1>1, <3>2 DEF Daemon, DaemonRecord, Enrolling
    <3> QED BY <2>1, <3>1, <3>2
  <2> QED BY <1>3, <1>10, <2>3 DEF Accepted, saved, Enrolling
<1>11. CASE Refused
  <2>1. daemon' \in DaemonRecord /\ daemon'.pc = "record" /\ daemon'.refused = daemon.refused
        /\ daemon'.token = daemon.token /\ box' = box
    BY <1>1, <1>11, DaemonAt DEF Refused, Enrolling
  <2> QED BY <1>3, <1>11, <2>1 DEF Refused, saved, Enrolling, Remembers
<1>12. CASE NoAnswer
  <2>1. daemon' \in DaemonRecord /\ daemon'.pc = "retry" /\ daemon'.refused = daemon.refused /\ box' = box
    BY <1>1, <1>12 DEF NoAnswer, Daemon, DaemonRecord, Enrolling
  <2> QED BY <1>3, <1>12, <2>1 DEF NoAnswer, saved, Enrolling
<1>13. CASE RecordsRefusal
  <2>1. daemon.token \in Tokens
    BY <1>13 DEF RecordsRefusal, Remembers
  <2>2. daemon' \in DaemonRecord /\ daemon'.pc = "look" /\ daemon'.refused = daemon.token /\ box' = box
    BY <1>1, <1>13, <2>1 DEF RecordsRefusal, Daemon, DaemonRecord, Enrolling
  <2>3. [boot |-> box.boot, token |-> daemon.token] \in RejectedRecord
    BY <1>1, <2>1 DEF RejectedRecord, BoxRecord
  <2>4. rejected' \in RejectedRecord /\ (rejected'.boot # 0 => rejected'.token \in Tokens)
    <3>1. CASE rejected' = rejected
      BY <1>1, <3>1 DEF Remembers
    <3>2. CASE rejected' = [boot |-> box.boot, token |-> daemon.token]
      BY <2>1, <2>3, <3>2
    <3> QED BY <1>13, <3>1, <3>2 DEF RecordsRefusal
  <2> QED BY <1>1, <2>1, <2>2, <2>4 DEF DaemonTypes, Remembers
<1>14. CASE Saves
  <2>1. daemon' \in DaemonRecord /\ daemon'.pc = "refresh" /\ box' = box
    BY <1>1, <1>14 DEF Saves, Daemon, DaemonRecord, Serving
  <2> QED BY <1>2, <1>14, <2>1 DEF Saves, Enrolling
<1>15. CASE SaveFails
  <2>1. [Down EXCEPT !.failed = TRUE] \in DaemonRecord /\ [Down EXCEPT !.failed = TRUE].pc = "down"
    BY DownTyped DEF DaemonRecord
  <2> QED BY <1>2, <1>15, <2>1 DEF SaveFails, Daemon, saved, Enrolling
<1>16. CASE LoginRejected
  BY <1>6, <1>7, <1>16 DEF LoginRejected
<1>17. CASE \E pc \in Serving : Goes(pc) /\ UNCHANGED rejected
  <2>1. PICK pc \in Serving : Goes(pc) /\ UNCHANGED rejected
    BY <1>17
  <2>2. daemon' \in DaemonRecord /\ daemon'.pc = pc /\ box' = box
    BY <1>1, <2>1, DaemonAt
  <2> QED BY <1>2, <2>1, <2>2 DEF Serving, Enrolling
<1>18. CASE Connects \/ ConnectFails \/ Reconnects
  BY <1>17, <1>18 DEF Connects, ConnectFails, Reconnects, Serving, saved
<1>19. CASE Stops
  BY <1>7, <1>19 DEF Stops, saved
<1>20. CASE DaemonCrashes
  <2>1. box' \in BoxRecord /\ rejected' = rejected /\ daemon' = Down
    BY <1>1, <1>20 DEF DaemonCrashes, BoxRecord, saved
  <2> QED BY <1>1, <2>1, DownTyped DEF DaemonTypes, Remembers, Enrolling
<1> QED BY <1>4, <1>5, <1>8, <1>9, <1>10, <1>11, <1>12, <1>13, <1>14, <1>15, <1>16, <1>18, <1>19, <1>20 DEF Run

\* The other steps that touch the daemon stop it.
LEMMA DaemonStep ==
  ASSUME PlatformTypes, DaemonTypes, Remembers, [LifeNext]_lifeVars
  PROVE  DaemonTypes' /\ Remembers'
<1> USE LifeAssumption
<1>1. CASE Run \/ Stops \/ DaemonCrashes
  BY <1>1, RunStep
<1>2. ASSUME box' \in BoxRecord, rejected' = rejected, daemon' = Down
      PROVE  DaemonTypes' /\ Remembers'
  BY <1>2, DownTyped DEF DaemonTypes, Remembers, Enrolling
<1>3. ASSUME box' \in BoxRecord, box'.boot = box.boot, rejected' = rejected, daemon' = daemon
      PROVE  DaemonTypes' /\ Remembers'
  BY <1>3 DEF DaemonTypes, Remembers
<1>4. ASSUME NEW u \in Updates, Update(u)
      PROVE  DaemonTypes' /\ Remembers'
  <2>1. UNCHANGED <<box, rejected>> /\ daemon' \in {daemon, Down}
    BY <1>4 DEF Update, UpdateStarts, Differs, EndsEarly, Opens, Writes, WriteFails, RenamesBinary, Restarts, saved
  <2> QED BY <1>2, <1>3, <2>1 DEF DaemonTypes
<1>5. ASSUME NEW m \in Commands,
             \/ LoginStarts(m) \/ LoginGranted(m) \/ LoginFails(m) \/ LoginSaves(m)
             \/ LogoutStarts(m) \/ Revokes(m) \/ Deletes(m)
      PROVE  DaemonTypes' /\ Remembers'
  <2>1. UNCHANGED <<box, rejected, daemon>>
    BY <1>5 DEF LoginStarts, LoginGranted, LoginFails, LoginSaves, LogoutStarts, Revokes, Deletes, Command
  <2> QED BY <1>3, <2>1 DEF DaemonTypes
<1>6. CASE CommandDies
  <2>1. box' \in BoxRecord /\ box'.boot = box.boot
    BY <1>6 DEF CommandDies, DaemonTypes, BoxRecord
  <2> QED BY <1>3, <1>6, <2>1 DEF CommandDies, saved
<1>7. CASE Reboots
  <2>1. box' \in BoxRecord
    BY <1>7 DEF Reboots, DaemonTypes, BoxRecord
  <2> QED BY <1>2, <1>7, <2>1 DEF Reboots, saved
<1>8. CASE PortalDeletes \/ TokenFileChanges \/ UNCHANGED lifeVars
  BY <1>3, <1>8 DEF PortalDeletes, TokenFileChanges, lifeVars, saved, DaemonTypes
<1> QED BY <1>1, <1>4, <1>5, <1>6, <1>7, <1>8 DEF LifeNext

\* The platform and what is on disk.
LEMMA PlatformStep ==
  ASSUME PlatformTypes, DaemonTypes, CommandTypes, [LifeNext]_lifeVars
  PROVE  PlatformTypes'
<1> USE LifeAssumption
<1>1. CASE UNCHANGED <<platform, tokenFile, credentials>>
  BY <1>1 DEF PlatformTypes, platform
<1>2. ASSUME NEW u \in Updates, Update(u)
      PROVE  PlatformTypes'
  BY <1>1, <1>2 DEF Update, UpdateStarts, Differs, EndsEarly, Opens, Writes, WriteFails, RenamesBinary, Restarts, saved
<1>3. CASE \/ UnitStarts \/ ExecStart \/ Loads \/ Presents \/ Refused \/ NoAnswer \/ RecordsRefusal \/ SaveFails
           \/ Connects \/ LoginRejected \/ ConnectFails \/ Reconnects \/ Stops \/ DaemonCrashes \/ CommandDies \/ Reboots
           \/ UNCHANGED lifeVars
  BY <1>1, <1>3 DEF UnitStarts, ExecStart, Loads, Presents, Refused, NoAnswer, RecordsRefusal, SaveFails, Connects,
                    LoginRejected, ConnectFails, Reconnects, Stops, DaemonCrashes, CommandDies, Reboots, lifeVars, saved,
                    platform
<1>4. CASE Accepted
  <2>1. UNCHANGED <<tokenFile, credentials>>
    BY <1>4 DEF Accepted, saved
  <2>2. tokens' \in [Tokens -> {"fresh", "used"}]
    BY <1>4 DEF Accepted, PlatformTypes
  <2>3. logins' \in [Numbers -> {"none", "live", "revoked"}]
    BY <1>4 DEF Accepted, Grants, PlatformTypes
  <2> QED BY <2>1, <2>2, <2>3 DEF PlatformTypes
<1>5. CASE Saves
  <2>1. daemon.login \in 0..MaxEnrolments
    BY DEF DaemonTypes, DaemonRecord
  <2> QED BY <1>5, <2>1 DEF Saves, PlatformTypes, platform
<1>6. ASSUME NEW m \in Commands, LoginStarts(m) \/ LoginGranted(m) \/ LoginFails(m)
      PROVE  PlatformTypes'
  BY <1>6 DEF LoginStarts, LoginGranted, LoginFails, Command, Grants, PlatformTypes
<1>7. ASSUME NEW m \in Commands, LoginSaves(m) \/ LogoutStarts(m) \/ Deletes(m)
      PROVE  PlatformTypes'
  <2>1. commands[m].login \in 0..MaxEnrolments
    BY DEF CommandTypes, CommandRecord
  <2> QED BY <1>7, <2>1, Zeroes DEF LoginSaves, LogoutStarts, Deletes, Command, PlatformTypes
<1>8. ASSUME NEW m \in Commands, Revokes(m)
      PROVE  PlatformTypes'
  BY <1>8 DEF Revokes, Command, PlatformTypes
<1>9. CASE PortalDeletes \/ TokenFileChanges
  BY <1>9 DEF PortalDeletes, TokenFileChanges, PlatformTypes, saved, platform
<1> QED BY <1>2, <1>3, <1>4, <1>5, <1>6, <1>7, <1>8, <1>9 DEF LifeNext, Run

-----------------------------------------------------------------------------
(***************************************************************************)
(* The commands, and the login a daemon uses                               *)
(***************************************************************************)
\* What a command does, it does as a command that is no longer out; what it
\* leaves alone includes the daemon.
LEMMA CommandMoves ==
  ASSUME PlatformTypes, CommandTypes, NEW m \in Commands,
         \/ LoginStarts(m) \/ LoginGranted(m) \/ LoginFails(m) \/ LoginSaves(m)
         \/ LogoutStarts(m) \/ Revokes(m) \/ Deletes(m)
  PROVE  /\ \E r \in CommandRecord : r.pc # "out" /\ commands' = [commands EXCEPT ![m] = r]
         /\ UNCHANGED <<daemon, updates, binary>>
<1> USE LifeAssumption, Zeroes
<1>1. Ended \in CommandRecord /\ Ended.pc # "out"
  BY DEF Ended, CommandRecord
<1>2. UNCHANGED <<daemon, updates, binary>>
  BY DEF LoginStarts, LoginGranted, LoginFails, LoginSaves, LogoutStarts, Revokes, Deletes, Command, updating
<1>3. CASE LoginStarts(m) \/ Revokes(m)
  <2>1. PICK pc \in {"poll", "delete"} : commands' = [commands EXCEPT ![m] = [commands[m] EXCEPT !.pc = pc]]
    BY <1>3 DEF LoginStarts, Revokes, Command
  <2>2. [commands[m] EXCEPT !.pc = pc] \in CommandRecord /\ [commands[m] EXCEPT !.pc = pc].pc = pc
    BY DEF CommandTypes, CommandRecord
  <2> QED BY <1>2, <2>1, <2>2
<1>4. CASE LoginFails(m) \/ LoginSaves(m) \/ Deletes(m)
  BY <1>1, <1>2, <1>4 DEF LoginFails, LoginSaves, Deletes, Command
<1>5. CASE LoginGranted(m)
  <2>1. PICK n \in Numbers : commands' = [commands EXCEPT ![m] = [pc |-> "save", login |-> n]]
    BY <1>5 DEF LoginGranted, Command
  <2>2. [pc |-> "save", login |-> n] \in CommandRecord
    BY DEF CommandRecord, Numbers
  <2> QED BY <1>2, <2>1, <2>2
<1>6. CASE LogoutStarts(m)
  <2>1. [pc |-> "revoke", login |-> credentials] \in CommandRecord
    BY DEF CommandRecord, PlatformTypes
  <2>2. CASE commands' = [commands EXCEPT ![m] = [pc |-> "revoke", login |-> credentials]]
    BY <1>2, <2>1, <2>2
  <2>3. CASE commands' = [commands EXCEPT ![m] = Ended]
    BY <1>1, <1>2, <2>3
  <2> QED BY <1>6, <2>2, <2>3 DEF LogoutStarts, Command
<1> QED BY <1>3, <1>4, <1>5, <1>6

\* The commands keep their type; whatever they do, or an end that comes to
\* them, leaves the login of the daemon what it was saved as or no longer says
\* that no command has run.
LEMMA CommandStep ==
  ASSUME PlatformTypes, DaemonTypes, CommandTypes, ConnectsAsSaved, [LifeNext]_lifeVars
  PROVE  CommandTypes' /\ ConnectsAsSaved'
<1> USE LifeAssumption
<1>1. daemon \in DaemonRecord /\ Ended \in CommandRecord /\ Ended.pc # "out"
  BY Zeroes DEF DaemonTypes, Ended, CommandRecord
<1>2. ASSUME UNCHANGED <<commands, credentials>>, daemon'.pc \in Serving => daemon'.login = credentials \/
               (daemon.pc \in Serving /\ daemon'.login = daemon.login)
      PROVE  CommandTypes' /\ ConnectsAsSaved'
  BY <1>2 DEF CommandTypes, ConnectsAsSaved
<1>3. ASSUME NEW m \in Commands, NEW r \in CommandRecord, r.pc # "out", commands' = [commands EXCEPT ![m] = r]
      PROVE  CommandTypes' /\ ConnectsAsSaved'
  <2>1. commands'[m].pc # "out" /\ CommandTypes'
    BY <1>3 DEF CommandTypes
  <2> QED BY <2>1 DEF ConnectsAsSaved
<1>4. ASSUME NEW m \in Commands,
             \/ LoginStarts(m) \/ LoginGranted(m) \/ LoginFails(m) \/ LoginSaves(m)
             \/ LogoutStarts(m) \/ Revokes(m) \/ Deletes(m)
      PROVE  CommandTypes' /\ ConnectsAsSaved'
  BY <1>3, <1>4, CommandMoves
<1>5. CASE CommandDies
  <2>1. CASE \E m \in Commands : commands' = [commands EXCEPT ![m] = Ended]
    BY <1>1, <1>3, <2>1
  <2>2. CASE commands' = commands
    BY <1>2, <1>5, <2>2 DEF CommandDies, saved
  <2> QED BY <1>5, <2>1, <2>2 DEF CommandDies
<1>6. CASE Reboots
  <2>1. CommandTypes'
    BY <1>1, <1>6 DEF Reboots, CommandTypes
  <2>2. daemon'.pc = "down"
    BY <1>6, DownTyped DEF Reboots
  <2> QED BY <2>1, <2>2 DEF ConnectsAsSaved, Serving
<1>7. ASSUME NEW u \in Updates, Update(u)
      PROVE  CommandTypes' /\ ConnectsAsSaved'
  <2>1. UNCHANGED <<commands, credentials>> /\ daemon' \in {daemon, Down}
    BY <1>7 DEF Update, UpdateStarts, Differs, EndsEarly, Opens, Writes, WriteFails, RenamesBinary, Restarts, saved
  <2> QED BY <1>2, <2>1, DownTyped DEF Serving
<1>8. CASE PortalDeletes \/ TokenFileChanges \/ UNCHANGED lifeVars
  BY <1>2, <1>8 DEF PortalDeletes, TokenFileChanges, lifeVars, saved
<1>9. CASE UnitStarts
  <2>1. daemon'.pc = "pre"
    BY <1>9, DownTyped DEF UnitStarts, DaemonRecord
  <2> QED BY <1>2, <1>9, <2>1 DEF UnitStarts, saved, Serving
<1>10. CASE Loads
  <2>1. UNCHANGED <<commands, credentials>>
    BY <1>10 DEF Loads, Daemon, Enrols
  <2>2. CASE Daemon([daemon EXCEPT !.pc = "refresh", !.login = credentials])
    BY <1>1, <1>2, <2>1, <2>2 DEF Daemon, DaemonRecord
  <2>3. CASE Daemon(Down)
    BY <1>2, <2>1, <2>3, DownTyped DEF Daemon, Serving
  <2>4. CASE Enrols
    BY <1>1, <1>2, <2>1, <2>4 DEF Enrols, Daemon, DaemonRecord, Serving
  <2> QED BY <1>10, <2>2, <2>3, <2>4 DEF Loads
<1>11. CASE LoginRejected
  <2>1. UNCHANGED <<commands, credentials>>
    BY <1>11 DEF LoginRejected, Daemon, Enrols
  <2>2. CASE Daemon(Down)
    BY <1>2, <2>1, <2>2, DownTyped DEF Daemon, Serving
  <2>3. CASE Enrols
    BY <1>1, <1>2, <2>1, <2>3 DEF Enrols, Daemon, DaemonRecord, Serving
  <2> QED BY <1>11, <2>2, <2>3 DEF LoginRejected
<1>12. CASE Presents \/ Accepted \/ Refused \/ NoAnswer \/ RecordsRefusal \/ ExecStart
  <2>1. UNCHANGED <<commands, credentials>>
    BY <1>12 DEF Presents, Accepted, Refused, NoAnswer, RecordsRefusal, ExecStart, Goes, Daemon, saved
  <2>2. daemon'.pc \in {"idle", "post", "save", "retry", "record", "look", "load"}
    BY <1>1, <1>12 DEF Presents, Accepted, Refused, NoAnswer, RecordsRefusal, ExecStart, Goes, Daemon, DaemonRecord
  <2> QED BY <1>2, <2>1, <2>2 DEF Serving
<1>13. CASE Saves
  <2>1. daemon'.login = daemon.login /\ credentials' = daemon.login /\ commands' = commands
    BY <1>1, <1>13 DEF Saves, Daemon, DaemonRecord
  <2> QED BY <2>1 DEF CommandTypes, ConnectsAsSaved
<1>14. CASE SaveFails \/ Stops \/ DaemonCrashes
  <2>1. UNCHANGED <<commands, credentials>>
    BY <1>14 DEF SaveFails, Stops, DaemonCrashes, Daemon, saved
  <2>2. daemon'.pc = "down"
    BY <1>14, DownTyped DEF SaveFails, Stops, DaemonCrashes, Daemon, DaemonRecord
  <2> QED BY <1>2, <2>1, <2>2 DEF Serving
<1>15. CASE Connects \/ ConnectFails \/ Reconnects
  <2>1. UNCHANGED <<commands, credentials>> /\ daemon.pc \in Serving
    BY <1>15 DEF Connects, ConnectFails, Reconnects, Goes, Daemon, saved, Serving
  <2>2. daemon'.login = daemon.login
    BY <1>1, <1>15 DEF Connects, ConnectFails, Reconnects, Goes, Daemon, DaemonRecord
  <2> QED BY <1>2, <2>1, <2>2
<1> QED BY <1>4, <1>5, <1>6, <1>7, <1>8, <1>9, <1>10, <1>11, <1>12, <1>13, <1>14, <1>15 DEF LifeNext, Run

-----------------------------------------------------------------------------
(***************************************************************************)
(* The binary                                                              *)
(***************************************************************************)
\* Following a renamed or removed file leaves everybody where it is.
LEMMA FollowTyped ==
  ASSUME UpdateTypes, NEW from \in {"partial"}, NEW to \in {"none", "installed"}
  PROVE  /\ Follow(from, to) \in [Updates -> UpdateRecord]
         /\ \A v \in Updates : /\ Follow(from, to)[v].pc = updates[v].pc
                               /\ updates[v].file = "none" => Follow(from, to)[v].file = "none"
<1>1. ASSUME NEW v \in Updates
      PROVE  /\ Follow(from, to)[v] \in UpdateRecord /\ Follow(from, to)[v].pc = updates[v].pc
             /\ updates[v].file = "none" => Follow(from, to)[v].file = "none"
  <2>1. PICK f : f = IF updates[v].file = from THEN to ELSE IF updates[v].file = to THEN "none" ELSE updates[v].file
    OBVIOUS
  <2>2. f \in {"none", "partial", "installed"} /\ (updates[v].file = "none" => f = "none")
    BY <2>1 DEF UpdateTypes, UpdateRecord
  <2>3. Follow(from, to)[v] = [updates[v] EXCEPT !.file = f]
    BY <2>1 DEF Follow
  <2> QED BY <2>2, <2>3 DEF UpdateTypes, UpdateRecord
<1>2. Follow(from, to) = [v \in Updates |-> Follow(from, to)[v]]
  BY DEF Follow
<1> QED BY <1>1, <1>2

\* One update takes a step: it goes on from where it is, and, if nobody else is
\* writing, what it has open and what the others have stays apart.
LEMMA UpdateMoves ==
  ASSUME UpdateTypes, NEW u \in Updates, Update(u)
  PROVE  /\ UpdateTypes'
         /\ \A v \in Updates : v # u => /\ updates'[v].pc = updates[v].pc
                                        /\ updates[v].file = "none" => updates'[v].file = "none"
         /\ updates'[u].pc = "write" => updates'[u].file = "partial"
         /\ (updates'[u].pc # "write" /\ (updates[u].pc # "write" => updates[u].file = "none"))
              => updates'[u].file = "none"
<1>1. updates \in [Updates -> UpdateRecord] /\ binary \in BinaryRecord
  BY DEF UpdateTypes
<1>2. ASSUME NEW pc \in {"out", "fetch", "open", "rename", "restart", "done"}, updates[u].pc # "write",
             updates' = [updates EXCEPT ![u].pc = pc], binary' = binary
      PROVE  /\ UpdateTypes' /\ \A v \in Updates : v # u => updates'[v] = updates[v]
             /\ updates'[u].pc = pc /\ updates'[u].file = updates[u].file
  <2>1. PICK r : r = [updates[u] EXCEPT !.pc = pc]
    OBVIOUS
  <2>2. r \in UpdateRecord /\ r.pc = pc /\ r.file = updates[u].file
    BY <1>1, <2>1 DEF UpdateRecord
  <2>3. updates' = [updates EXCEPT ![u] = r]
    BY <1>2, <2>1
  <2> QED BY <1>1, <1>2, <2>2, <2>3 DEF UpdateTypes
<1>3. CASE UpdateStarts(u)
  BY <1>2, <1>3 DEF UpdateStarts
<1>4. CASE EndsEarly(u)
  BY <1>2, <1>4 DEF EndsEarly
<1>5. CASE Restarts(u)
  BY <1>2, <1>5 DEF Restarts
<1>6. CASE Differs(u)
  <2>1. PICK g : g = Follow("partial", "none")
    OBVIOUS
  <2>2. /\ g \in [Updates -> UpdateRecord]
        /\ \A v \in Updates : g[v].pc = updates[v].pc /\ (updates[v].file = "none" => g[v].file = "none")
    BY <2>1, FollowTyped
  <2>3. PICK r : r = [g[u] EXCEPT !.pc = "open"]
    OBVIOUS
  <2>4. r \in UpdateRecord /\ r.pc = "open" /\ r.file = g[u].file
    BY <2>2, <2>3 DEF UpdateRecord
  <2>5. updates' = [g EXCEPT ![u] = r] /\ updates[u].pc = "fetch"
    BY <1>6, <2>1, <2>3 DEF Differs
  <2>6. binary' \in BinaryRecord
    BY <1>1, <1>6 DEF Differs, BinaryRecord
  <2> QED BY <2>2, <2>4, <2>5, <2>6 DEF UpdateTypes
<1>7. CASE Opens(u)
  <2>1. [pc |-> "write", file |-> "partial"] \in UpdateRecord
    BY DEF UpdateRecord
  <2>2. binary' \in BinaryRecord
    BY <1>1, <1>7 DEF Opens, BinaryRecord
  <2> QED BY <1>1, <1>7, <2>1, <2>2 DEF Opens, UpdateTypes
<1>8. CASE Writes(u)
  <2>1. [pc |-> "rename", file |-> "none"] \in UpdateRecord
    BY DEF UpdateRecord
  <2>2. binary' \in BinaryRecord
    BY <1>1, <1>8 DEF Writes, BinaryRecord
  <2> QED BY <1>1, <1>8, <2>1, <2>2 DEF Writes, UpdateTypes
<1>9. CASE WriteFails(u)
  <2>1. PICK g : g = Follow("partial", "none")
    OBVIOUS
  <2>2. /\ g \in [Updates -> UpdateRecord]
        /\ \A v \in Updates : g[v].pc = updates[v].pc /\ (updates[v].file = "none" => g[v].file = "none")
    BY <2>1, FollowTyped
  <2>3. [pc |-> "done", file |-> "none"] \in UpdateRecord
    BY DEF UpdateRecord
  <2>4. updates' = [g EXCEPT ![u] = [pc |-> "done", file |-> "none"]]
    BY <1>9, <2>1 DEF WriteFails
  <2>5. binary' \in BinaryRecord
    BY <1>1, <1>9 DEF WriteFails, BinaryRecord
  <2> QED BY <2>2, <2>3, <2>4, <2>5 DEF UpdateTypes
<1>10. CASE RenamesBinary(u)
  <2>1. PICK g : g = Follow("partial", "installed")
    OBVIOUS
  <2>2. /\ g \in [Updates -> UpdateRecord]
        /\ \A v \in Updates : g[v].pc = updates[v].pc /\ (updates[v].file = "none" => g[v].file = "none")
    BY <2>1, FollowTyped
  <2>3. PICK pc \in {"done", "restart"} : updates' = [g EXCEPT ![u].pc = pc]
    BY <1>10, <2>1 DEF RenamesBinary
  <2>4. PICK r : r = [g[u] EXCEPT !.pc = pc]
    OBVIOUS
  <2>5. r \in UpdateRecord /\ r.pc = pc /\ r.file = g[u].file
    BY <2>2, <2>4 DEF UpdateRecord
  <2>6. updates' = [g EXCEPT ![u] = r] /\ updates[u].pc = "rename"
    BY <1>10, <2>3, <2>4 DEF RenamesBinary
  <2>7. binary' \in BinaryRecord
    BY <1>1, <1>10 DEF RenamesBinary, BinaryRecord
  <2> QED BY <2>2, <2>5, <2>6, <2>7 DEF UpdateTypes
<1> QED BY <1>3, <1>4, <1>5, <1>6, <1>7, <1>8, <1>9, <1>10 DEF Update

\* Updates are ended or not, and the files stay.
LEMMA OneWriterKept ==
  ASSUME OneWriter, binary' = binary,
         \A v \in Updates : updates'[v] = updates[v] \/ (updates'[v].pc \in {"out", "done"} /\ updates'[v].file = "none")
  PROVE  OneWriter'
<1>1. \A v \in Updates : updates'[v].pc \in {"fetch", "open", "write", "rename"} => updates'[v] = updates[v]
  OBVIOUS
<1>2. \A v \in Updates : updates'[v].file = IF updates'[v].pc = "write" THEN "partial" ELSE "none"
  BY DEF OneWriter
<1> QED BY <1>1, <1>2 DEF OneWriter, Busy, InstalledIsWhole

\* One update takes a step while no other one is busy.
LEMMA OneWriterMoves ==
  ASSUME UpdateTypes, OneWriter, ~Overlap, NEW u \in Updates, Update(u)
  PROVE  OneWriter'
<1>1. /\ \A v \in Updates : v # u => /\ updates'[v].pc = updates[v].pc
                                     /\ updates[v].file = "none" => updates'[v].file = "none"
      /\ updates'[u].pc = "write" => updates'[u].file = "partial"
      /\ (updates'[u].pc # "write" /\ (updates[u].pc # "write" => updates[u].file = "none"))
           => updates'[u].file = "none"
  BY UpdateMoves
<1>2. updates[u].pc # "write" => updates[u].file = "none"
  BY DEF OneWriter
<1>3. Restarts(u) \/ \A v \in Updates : v # u => ~Busy(v)
  <2>1. CASE Busy(u)
    BY <2>1 DEF OneWriter
  <2>2. CASE UpdateStarts(u)
    BY <2>2 DEF UpdateStarts, Busy
  <2>3. CASE Differs(u) \/ EndsEarly(u) \/ Opens(u) \/ Writes(u) \/ WriteFails(u) \/ RenamesBinary(u)
    BY <2>1, <2>3 DEF Differs, EndsEarly, Opens, Writes, WriteFails, RenamesBinary, Busy
  <2> QED BY <2>2, <2>3 DEF Update
<1>4. CASE Restarts(u)
  <2>1. updates'[u].pc = "done" /\ updates'[u].file = "none" /\ binary' = binary
        /\ \A v \in Updates : v # u => updates'[v] = updates[v]
    BY <1>1, <1>2, <1>4 DEF Restarts, UpdateTypes, UpdateRecord
  <2> QED BY <2>1, OneWriterKept
<1>5. CASE \A v \in Updates : v # u => ~Busy(v)
  <2>1. \A v \in Updates : v # u => (~Busy(v))' /\ updates'[v].file = "none"
    BY <1>1, <1>5 DEF Busy, OneWriter
  <2>2. updates'[u].file = IF updates'[u].pc = "write" THEN "partial" ELSE "none"
    BY <1>1, <1>2
  <2>3. (updates'[u].pc = "rename" => binary'.partial = "whole") /\ binary'.installed = "whole"
    <3>1. binary.installed = "whole" /\ (updates[u].pc = "write" => updates[u].file = "partial")
          /\ (updates[u].pc = "rename" => binary.partial = "whole")
      BY DEF OneWriter, InstalledIsWhole
    <3>2. CASE UpdateStarts(u) \/ EndsEarly(u) \/ Restarts(u)
      <4>1. binary' = binary /\ updates'[u].pc # "rename"
        BY <3>2 DEF UpdateStarts, EndsEarly, Restarts, UpdateTypes, UpdateRecord
      <4> QED BY <3>1, <4>1
    <3>3. CASE Differs(u) \/ Opens(u) \/ WriteFails(u)
      <4>1. updates'[u].pc # "rename"
        BY <3>3, FollowTyped DEF Differs, Opens, WriteFails, UpdateTypes, UpdateRecord
      <4>2. binary'.installed = binary.installed
        BY <3>3 DEF Differs, Opens, WriteFails, UpdateTypes, BinaryRecord
      <4> QED BY <3>1, <4>1, <4>2
    <3>4. CASE Writes(u)
      BY <3>1, <3>4 DEF Writes, UpdateTypes, BinaryRecord
    <3>5. CASE RenamesBinary(u)
      <4>1. binary'.installed = "whole"
        BY <3>1, <3>5 DEF RenamesBinary
      <4>2. updates'[u].pc # "rename"
        BY <3>5, FollowTyped DEF RenamesBinary, UpdateRecord
      <4> QED BY <4>1, <4>2
    <3> QED BY <3>2, <3>3, <3>4, <3>5 DEF Update
  <2>4. \A v \in Updates : v # u => updates'[v].pc # "write"
    BY <2>1 DEF Busy
  <2>5. \A v \in Updates : updates'[v].file = IF updates'[v].pc = "write" THEN "partial" ELSE "none"
    BY <2>1, <2>2, <2>4
  <2>6. \A v \in Updates : updates'[v].pc = "rename" => v = u
    BY <2>1 DEF Busy
  <2>7. \A v, w \in Updates : Busy(v)' /\ Busy(w)' => v = w
    BY <2>1
  <2> QED BY <2>3, <2>5, <2>6, <2>7 DEF OneWriter, InstalledIsWhole
<1> QED BY <1>3, <1>4, <1>5

\* The updates keep their types, and one of them at a time writes.
LEMMA UpdateStep ==
  ASSUME UpdateTypes, ~Overlap => OneWriter, [LifeNext]_lifeVars
  PROVE  UpdateTypes' /\ (~Overlap => OneWriter')
<1>1. ASSUME NEW u \in Updates, Update(u)
      PROVE  UpdateTypes' /\ (~Overlap => OneWriter')
  BY <1>1, UpdateMoves, OneWriterMoves
<1>2. ASSUME NEW pc \in {"out", "done"}
      PROVE  [pc |-> pc, file |-> "none"] \in UpdateRecord
  BY DEF UpdateRecord
<1>3. ASSUME updates' \in [Updates -> UpdateRecord], binary' = binary,
             \A v \in Updates : updates'[v] = updates[v]
                                  \/ (updates'[v].pc \in {"out", "done"} /\ updates'[v].file = "none")
      PROVE  UpdateTypes' /\ (~Overlap => OneWriter')
  BY <1>3, OneWriterKept DEF UpdateTypes
<1>4. CASE UNCHANGED <<updates, binary>>
  BY <1>3, <1>4 DEF UpdateTypes
<1>5. CASE UnitStarts
  <2>1. [pc |-> "out", file |-> "none"] \in UpdateRecord
    BY <1>2
  <2> QED BY <1>3, <1>5, <2>1 DEF UnitStarts, UpdateTypes, Updates
<1>6. CASE CommandDies
  <2>1. ASSUME NEW u \in Updates, updates' = [updates EXCEPT ![u] = [pc |-> "done", file |-> "none"]]
        PROVE  UpdateTypes' /\ (~Overlap => OneWriter')
    <3>1. [pc |-> "done", file |-> "none"] \in UpdateRecord
      BY <1>2
    <3> QED BY <1>3, <1>6, <2>1, <3>1 DEF CommandDies, UpdateTypes
  <2> QED BY <1>4, <1>6, <2>1 DEF CommandDies
<1>7. CASE Reboots
  <2>1. [pc |-> "done", file |-> "none"] \in UpdateRecord
    BY <1>2
  <2>2. \A v \in Updates : updates'[v] = IF updates[v].pc = "out" THEN updates[v] ELSE [pc |-> "done", file |-> "none"]
    BY <1>7 DEF Reboots
  <2>3. updates' \in [Updates -> UpdateRecord]
    BY <1>7, <2>1 DEF Reboots, UpdateTypes
  <2> QED BY <1>3, <1>7, <2>2, <2>3 DEF Reboots
<1>8. ASSUME NEW m \in Commands,
             \/ LoginStarts(m) \/ LoginGranted(m) \/ LoginFails(m) \/ LoginSaves(m)
             \/ LogoutStarts(m) \/ Revokes(m) \/ Deletes(m)
      PROVE  UpdateTypes' /\ (~Overlap => OneWriter')
  BY <1>4, <1>8 DEF LoginStarts, LoginGranted, LoginFails, LoginSaves, LogoutStarts, Revokes, Deletes, Command, updating
<1>9. CASE \/ ExecStart \/ Presents \/ Accepted \/ Refused \/ NoAnswer \/ RecordsRefusal \/ Saves \/ SaveFails
           \/ Connects \/ ConnectFails \/ Reconnects \/ Stops \/ DaemonCrashes
  BY <1>4, <1>9 DEF ExecStart, Presents, Accepted, Refused, NoAnswer, RecordsRefusal, Saves, SaveFails, Connects,
                    ConnectFails, Reconnects, Stops, DaemonCrashes, Goes, Daemon, updating
<1>10. CASE Loads \/ LoginRejected
  BY <1>4, <1>10 DEF Loads, LoginRejected, Enrols, Daemon, updating
<1>11. CASE PortalDeletes \/ TokenFileChanges \/ UNCHANGED lifeVars
  BY <1>4, <1>11 DEF PortalDeletes, TokenFileChanges, lifeVars, updating
<1> QED BY <1>1, <1>5, <1>6, <1>7, <1>8, <1>9, <1>10, <1>11 DEF LifeNext, Run

-----------------------------------------------------------------------------
(***************************************************************************)
(* The theorems                                                            *)
(***************************************************************************)
\* The start.
LEMMA LifeInitIInv == LifeInit => LifeIInv
<1> SUFFICES ASSUME LifeInit PROVE LifeIInv
  OBVIOUS
<1> USE LifeAssumption, Zeroes
<1>1. PlatformTypes
  BY DEF LifeInit, PlatformTypes
<1>2. DaemonTypes /\ daemon.pc = "down"
  <2>1. [boot |-> 0, token |-> NoToken] \in RejectedRecord
    BY DEF RejectedRecord
  <2>2. [boot |-> 1, crashes |-> 0] \in BoxRecord
    BY DEF BoxRecord
  <2> QED BY <2>1, <2>2, DownTyped DEF LifeInit, DaemonTypes
<1>3. CommandTypes
  BY DEF LifeInit, CommandTypes, CommandRecord
<1>4. UpdateTypes /\ OneWriter
  BY DEF LifeInit, UpdateTypes, UpdateRecord, BinaryRecord, OneWriter, Busy, InstalledIsWhole
<1>5. Remembers /\ ConnectsAsSaved
  BY <1>2 DEF LifeInit, Remembers, ConnectsAsSaved, Enrolling, Serving
<1> QED BY <1>1, <1>2, <1>3, <1>4, <1>5 DEF LifeIInv

\* The invariant is inductive, and holds all along.
LEMMA LifeInvariance == LifeSpec => []LifeIInv
<1>1. LifeIInv /\ [LifeNext]_lifeVars => LifeIInv'
  BY PlatformStep, DaemonStep, CommandStep, UpdateStep DEF LifeIInv
<1> QED BY LifeInitIInv, <1>1, PTL DEF LifeSpec

\* The variables keep their types.
THEOREM LifeTypeCorrect == LifeSpec => []LifeTypeOK
<1>1. LifeIInv => LifeTypeOK
  BY DEF LifeIInv, PlatformTypes, DaemonTypes, CommandTypes, UpdateTypes, RejectedRecord, BoxRecord, DaemonRecord,
         CommandRecord, UpdateRecord, BinaryRecord, LifeTypeOK
<1> QED BY <1>1, LifeInvariance, PTL

\* A daemon connects with the login that is on disk.
THEOREM SavedBeforeUse == LifeSpec => []ConnectsAsSaved
<1>1. LifeIInv => ConnectsAsSaved
  BY DEF LifeIInv
<1> QED BY <1>1, LifeInvariance, PTL

\* While no update typed by hand overlaps the unit's, the installed binary is
\* whole whenever either is killed.
THEOREM WholeBinary == LifeSpec => [](~Overlap => InstalledIsWhole)
<1>1. LifeIInv => (~Overlap => InstalledIsWhole)
  BY DEF LifeIInv, OneWriter
<1> QED BY <1>1, LifeInvariance, PTL

\* The token whose refusal was recorded last, if that was in this boot, is not
\* presented again.  The code has one record: of two tokens refused in turn it
\* forgets the first, and a refusal it cannot record it does not know of after a
\* restart (tokenlogin.go:51-63).
THEOREM RefusedOnce == LifeSpec => NotPresentedAgain
<1>1. ASSUME LifeIInv, [LifeNext]_lifeVars, daemon.pc # "post", daemon'.pc = "post",
             daemon.refused \in {NoToken, rejected.token}
      PROVE  rejected # [boot |-> box.boot, token |-> daemon'.token]
  <2>1. Presents
    <3>1. daemon \in DaemonRecord
      BY <1>1 DEF LifeIInv, DaemonTypes
    <3>2. CASE \E u \in Updates : Update(u)
      BY <1>1, <3>2, DownTyped DEF Update, UpdateStarts, Differs, EndsEarly, Opens, Writes, WriteFails, RenamesBinary,
                                   Restarts
    <3>3. CASE \E m \in Commands : \/ LoginStarts(m) \/ LoginGranted(m) \/ LoginFails(m) \/ LoginSaves(m)
                                   \/ LogoutStarts(m) \/ Revokes(m) \/ Deletes(m)
      BY <1>1, <3>3 DEF LoginStarts, LoginGranted, LoginFails, LoginSaves, LogoutStarts, Revokes, Deletes, Command
    <3>4. CASE CommandDies \/ Reboots \/ PortalDeletes \/ TokenFileChanges \/ DaemonCrashes \/ Stops \/ UNCHANGED lifeVars
      BY <1>1, <3>4, DownTyped DEF CommandDies, Reboots, PortalDeletes, TokenFileChanges, DaemonCrashes, Stops, Daemon,
                                   lifeVars
    <3>5. CASE UnitStarts
      BY <1>1, <3>5, DownTyped DEF UnitStarts, DaemonRecord
    <3>6. CASE Loads \/ LoginRejected
      BY <1>1, <3>1, <3>6, DownTyped DEF Loads, LoginRejected, Enrols, Daemon, DaemonRecord
    <3>7. CASE ExecStart \/ Accepted \/ Refused \/ NoAnswer \/ RecordsRefusal \/ Saves \/ Connects \/ ConnectFails
               \/ Reconnects
      BY <1>1, <3>1, <3>7 DEF ExecStart, Accepted, Refused, NoAnswer, RecordsRefusal, Saves, Connects, ConnectFails,
                              Reconnects, Goes, Daemon, DaemonRecord
    <3>8. CASE SaveFails
      BY <1>1, <3>8, DownTyped DEF SaveFails, Daemon, DaemonRecord
    <3> QED BY <1>1, <3>2, <3>3, <3>4, <3>5, <3>6, <3>7, <3>8 DEF LifeNext, Run
  <2>2. daemon.pc \in Enrolling
    BY <2>1 DEF Presents, Enrolling
  <2>3. daemon'.token = tokenFile /\ tokenFile \notin {NoToken, daemon.refused}
    BY <1>1, <2>1 DEF Presents, Goes, Daemon, LifeIInv, DaemonTypes, DaemonRecord
  <2>4. CASE daemon.refused = NoToken
    BY <1>1, <2>2, <2>4 DEF LifeIInv, Remembers
  <2>5. CASE daemon.refused = rejected.token
    BY <2>3, <2>5
  <2> QED BY <1>1, <2>4, <2>5
<1>2. LifeIInv /\ [LifeNext]_lifeVars => [daemon.pc # "post" /\ daemon'.pc = "post" /\ daemon.refused \in {NoToken, rejected.token}
                                => rejected # [boot |-> box.boot, token |-> daemon'.token]]_lifeVars
  BY <1>1
<1> QED BY <1>2, LifeInvariance, PTL DEF LifeSpec, NotPresentedAgain
=============================================================================
