--------------------------- MODULE Prompts_proofs ---------------------------
(***************************************************************************)
(* Proofs about what a CLI is prompted with: the process that one-shot     *)
(* calls share (UtilityProcess), for every number of calls, versions and   *)
(* processes, and the conversation a warm session goes on with             *)
(* (Conversation), for every history.                                      *)
(***************************************************************************)
EXTENDS UtilityProcess, Conversation, FiniteSetTheorems, SequenceTheorems, WellFoundedInduction, TLAPS

-----------------------------------------------------------------------------
(***************************************************************************)
(* The calls that share a process: the inductive invariant                 *)
(***************************************************************************)
Places == {"out", "for", "starting", "stale", "send", "sending", "await", "release", "leave", "done"}
UtilityRecord == [fate : Fates, holds : Nat, isRetired : BOOLEAN, version : Nat, isArmed : BOOLEAN,
                  dropping : BOOLEAN, sequence : Nat, sender : Callers \cup {0}]
CallerRecord == [pc : Places, utility : 0..MaxStarts, stale : 0..MaxStarts, id : Nat, sent : Nat,
                 reply : {"none", "own", "other"}]

DriverRecord == [utility : 0..MaxStarts, lock : Callers \cup {0}, pinned : Nat, isShut : BOOLEAN]

\* Who is in a call with process u, from when it was found or started until it is released.
Holders(u) == {c \in Callers : callers[c].utility = u}

Typed ==
  /\ utilities \in [Ids -> UtilityRecord]
  /\ callers \in [Callers -> CallerRecord]
  /\ driver \in DriverRecord

InCall == {"send", "sending", "await", "release"}
Outside == {"out", "for", "starting", "leave", "done"}

\* Where a call holds a process, where it has one to close, and where it has utilityMutex.
Placed ==
  /\ \A c \in Callers :
       /\ callers[c].pc \in InCall => callers[c].utility # 0
       /\ callers[c].pc \in Outside => callers[c].utility = 0
       /\ callers[c].stale # 0 => callers[c].pc \in {"starting", "stale"}
       /\ callers[c].pc = "starting" => driver.lock = c
  /\ driver.lock # 0 => driver.utility = 0

Counted == \A u \in Ids : utilities[u].holds = Cardinality(Holders(u))

\* Nobody knows a process that was not started.
Unborn ==
  \A u \in Ids : utilities[u].fate = "none" =>
    driver.utility # u /\ Holders(u) = {} /\ \A c \in Callers : callers[c].stale # u

\* A process that a call is about to close is free, and cannot be found any more.
Abandoned ==
  \A u \in Ids : (\E c \in Callers : callers[c].stale = u) => driver.utility # u /\ Holders(u) = {}

NoneHeld == \A u \in Ids : utilities[u].fate = "closed" => Holders(u) = {}

Pool == Counted /\ Unborn /\ Abandoned /\ NoneHeld /\ NoneLeftRunning

IInv == Typed /\ Placed /\ Pool

-----------------------------------------------------------------------------
(***************************************************************************)
(* Holders                                                                 *)
(***************************************************************************)
\* The calls that hold a process can be counted.
LEMMA FiniteHolders ==
  ASSUME NEW u
  PROVE  IsFiniteSet(Holders(u)) /\ Cardinality(Holders(u)) \in Nat
BY UtilityAssumption, FS_Subset, FS_CardinalityType DEF Holders

\* A call that lets go of its process, or that gets one.
LEMMA HoldersStep ==
  ASSUME Typed, NEW c \in Callers, NEW u \in 0..MaxStarts,
         \A d \in Callers : callers'[d].utility = IF d = c THEN u ELSE callers[d].utility
  PROVE  /\ \A v : v # u /\ v # callers[c].utility => Holders(v)' = Holders(v)
         /\ u # callers[c].utility => Holders(u)' = Holders(u) \cup {c} /\ c \notin Holders(u)
         /\ \A v : v # u /\ v = callers[c].utility => Holders(v)' = Holders(v) \ {c} /\ c \in Holders(v)
         /\ u = callers[c].utility => Holders(u)' = Holders(u)
<1> DEFINE old == callers[c].utility
<1>1. \A v : Holders(v)' = {d \in Callers : (IF d = c THEN u ELSE callers[d].utility) = v}
  BY DEF Holders
<1>2. ASSUME NEW v, v # u, v # old
      PROVE  Holders(v)' = Holders(v)
  BY <1>1, <1>2 DEF Holders
<1>3. ASSUME u # old
      PROVE  /\ Holders(u)' = Holders(u) \cup {c} /\ c \notin Holders(u)
             /\ \A v : v = old => Holders(v)' = Holders(v) \ {c} /\ c \in Holders(v)
  BY <1>1, <1>3 DEF Holders
<1>4. ASSUME u = old
      PROVE  Holders(u)' = Holders(u)
  BY <1>1, <1>4 DEF Holders
<1> QED BY <1>2, <1>3, <1>4

\* Nobody gets or leaves a process.
LEMMA HoldersKept ==
  ASSUME \A d \in Callers : callers'[d].utility = callers[d].utility
  PROVE  \A v : Holders(v)' = Holders(v)
BY DEF Holders

\* A step after which every process is held, found and waited for as before,
\* and at most some of them have ended.
LEMMA PoolKept ==
  ASSUME Typed, Pool, driver'.utility = driver.utility,
         \A d \in Callers : callers'[d].utility = callers[d].utility /\ callers'[d].stale = callers[d].stale,
         \A u \in Ids :
           /\ \/ utilities'[u].fate = utilities[u].fate
              \/ utilities[u].fate = "up" /\ utilities'[u].fate \in {"dead", "shut"}
           /\ utilities'[u].holds = utilities[u].holds /\ utilities'[u].isRetired = utilities[u].isRetired
  PROVE  Pool'
<1>1. \A v : Holders(v)' = Holders(v)
  BY HoldersKept
<1>2. Counted' /\ Unborn' /\ Abandoned' /\ NoneHeld'
  BY <1>1 DEF Pool, Counted, Unborn, Abandoned, NoneHeld
<1>3. NoneLeftRunning'
  BY DEF Pool, NoneLeftRunning, Typed, UtilityRecord
<1> QED BY <1>2, <1>3 DEF Pool

-----------------------------------------------------------------------------
(***************************************************************************)
(* The start                                                               *)
(***************************************************************************)
\* At the start nothing runs and nobody holds anything.
LEMMA InitIInv == Init => IInv
<1> SUFFICES ASSUME Init PROVE IInv
  OBVIOUS
<1>1. Typed
  <2>1. utilities \in [Ids -> UtilityRecord]
    BY DEF Init, UtilityRecord, Fates
  <2>2. callers \in [Callers -> CallerRecord]
    BY UtilityAssumption DEF Init, CallerRecord, Places
  <2>3. driver \in DriverRecord
    BY UtilityAssumption DEF Init, DriverRecord
  <2> QED BY <2>1, <2>2, <2>3 DEF Typed
<1>2. Placed
  BY DEF Init, Placed, InCall
<1>3. \A u \in Ids : Holders(u) = {}
  BY DEF Init, Holders, Ids
<1>4. Pool
  <2>1. Counted
    BY <1>3, FS_EmptySet DEF Init, Counted
  <2>2. Unborn /\ Abandoned /\ NoneHeld /\ NoneLeftRunning
    BY <1>3 DEF Init, Unborn, Abandoned, NoneHeld, NoneLeftRunning, Ids
  <2> QED BY <2>1, <2>2 DEF Pool
<1> QED BY <1>1, <1>2, <1>4 DEF IInv

\* A process that is closed, or that changes hands, is a process.
LEMMA ClosedType ==
  ASSUME NEW u \in UtilityRecord, NEW fate \in Fates
  PROVE  Closed(u, fate) \in UtilityRecord
BY DEF Closed, UtilityRecord, Fates

\* A process that is started is a process.
LEMMA StartedType ==
  ASSUME NEW u \in UtilityRecord, NEW version \in Nat
  PROVE  [u EXCEPT !.fate = "up", !.holds = 1, !.version = version, !.isArmed = TRUE] \in UtilityRecord
<1>1. [u EXCEPT !.fate = "up", !.holds = 1] \in UtilityRecord
  BY DEF UtilityRecord, Fates
<1>2. ASSUME NEW r \in UtilityRecord
      PROVE  [r EXCEPT !.version = version, !.isArmed = TRUE] \in UtilityRecord
  BY DEF UtilityRecord
<1>3. [u EXCEPT !.fate = "up", !.holds = 1, !.version = version, !.isArmed = TRUE]
        = [[u EXCEPT !.fate = "up", !.holds = 1] EXCEPT !.version = version, !.isArmed = TRUE]
  OBVIOUS
<1> QED BY <1>1, <1>2, <1>3, Zenon

\* A call that sends a prompt under an id of its own is a call.
LEMMA SendingType ==
  ASSUME NEW r \in CallerRecord, NEW pc \in Places, NEW id \in Nat
  PROVE  [r EXCEPT !.pc = pc, !.id = id] \in CallerRecord
BY DEF CallerRecord

-----------------------------------------------------------------------------
(***************************************************************************)
(* Steps of a call that leave it its process                               *)
(***************************************************************************)
Moves(c) ==
  \/ Admit(c) \/ Busy(c) \/ Leaves(c) \/ EnsureFails(c) \/ StartFails(c)
  \/ TakesParts(c) \/ SendsPart(c) \/ SendFails(c) \/ Returns(c)

\* From where to where a call goes in them.
Ways ==
  {<<"out", "for">>, <<"out", "done">>, <<"leave", "done">>, <<"for", "leave">>, <<"starting", "stale">>,
   <<"send", "sending">>, <<"sending", "sending">>, <<"sending", "await">>, <<"sending", "release">>,
   <<"await", "release">>}

\* Such a step moves one call, along one of these ways.
LEMMA MovesCallers ==
  ASSUME Typed, NEW c \in Callers, Moves(c)
  PROVE  /\ \A d \in Callers : d # c => callers'[d] = callers[d]
         /\ callers'[c].utility = callers[c].utility /\ callers'[c].stale = callers[c].stale
         /\ <<callers[c].pc, callers'[c].pc>> \in Ways
<1> USE DEF Typed, CallerRecord, Ways
<1>1. CASE Admit(c) \/ Busy(c) \/ Leaves(c) \/ EnsureFails(c) \/ StartFails(c)
  BY <1>1 DEF Admit, Busy, Leaves, EnsureFails, StartFails, Goes
<1>2. CASE TakesParts(c)
  BY <1>2 DEF TakesParts
<1>3. CASE SendsPart(c)
  BY <1>3 DEF SendsPart
<1>4. CASE SendFails(c) \/ Returns(c)
  BY <1>4 DEF SendFails, Returns, Goes
<1> QED BY <1>1, <1>2, <1>3, <1>4 DEF Moves

\* It starts, ends, retires and frees no process.
LEMMA MovesUtilities ==
  ASSUME Typed, NEW c \in Callers, Moves(c), NEW u \in Ids
  PROVE  /\ utilities'[u].fate = utilities[u].fate /\ utilities'[u].holds = utilities[u].holds
         /\ utilities'[u].isRetired = utilities[u].isRetired
<1> USE DEF Typed, UtilityRecord
<1>1. CASE Admit(c) \/ Busy(c) \/ Leaves(c) \/ EnsureFails(c) \/ StartFails(c) \/ Returns(c)
  BY <1>1 DEF Admit, Busy, Leaves, EnsureFails, StartFails, Returns
<1>2. CASE TakesParts(c)
  <2>1. PICK v, n : utilities' = [utilities EXCEPT ![v].sender = c, ![v].sequence = n]
    BY <1>2 DEF TakesParts
  <2>2. CASE u # v
    BY <2>1, <2>2
  <2>3. CASE u = v
    <3>1. utilities'[u] = [utilities[u] EXCEPT !.sender = c, !.sequence = n]
      BY <2>1, <2>3
    <3> QED BY <3>1
  <2> QED BY <2>2, <2>3
<1>3. CASE SendsPart(c) \/ SendFails(c)
  <2>1. utilities' = utilities \/ utilities' = [utilities EXCEPT ![callers[c].utility].sender = 0]
    BY <1>3 DEF SendsPart, SendFails
  <2> QED BY <2>1
<1> QED BY <1>1, <1>2, <1>3 DEF Moves

\* It shares no other process, and releases utilityMutex only when a start failed.
LEMMA MovesDriver ==
  ASSUME Typed, NEW c \in Callers, Moves(c)
  PROVE  /\ driver'.utility = driver.utility
         /\ driver'.lock = driver.lock \/ (callers[c].pc = "starting" /\ driver'.lock = 0)
<1>1. CASE StartFails(c)
  BY <1>1 DEF StartFails, Typed, DriverRecord
<1>2. CASE \/ Admit(c) \/ Busy(c) \/ Leaves(c) \/ EnsureFails(c)
           \/ TakesParts(c) \/ SendsPart(c) \/ SendFails(c) \/ Returns(c)
  <2>1. UNCHANGED driver
    BY <1>2 DEF Admit, Busy, Leaves, EnsureFails, TakesParts, SendsPart, SendFails, Returns
  <2> QED BY <2>1
<1> QED BY <1>1, <1>2 DEF Moves

-----------------------------------------------------------------------------
(***************************************************************************)
(* Types and places                                                        *)
(***************************************************************************)
\* Every step keeps the types; a release finds a hold to give back.
LEMMA TypedStep ==
  ASSUME IInv, Next
  PROVE  Typed'
<1> USE UtilityAssumption DEF IInv, Typed
<1>c. ASSUME NEW c \in Callers, NEW pc \in Places, NEW u \in 0..MaxStarts
      PROVE  /\ [callers[c] EXCEPT !.pc = pc, !.utility = u] \in CallerRecord
             /\ [callers[c] EXCEPT !.pc = pc, !.stale = u] \in CallerRecord
             /\ [callers[c] EXCEPT !.stale = u, !.pc = pc] \in CallerRecord
  <2>1. callers[c] \in CallerRecord
    OBVIOUS
  <2> QED BY <2>1 DEF CallerRecord
<1>p. {"send", "starting", "stale", "leave", "sending", "await", "release", "done", "for"} \subseteq Places
  BY DEF Places
<1>i. Ids \subseteq 0..MaxStarts /\ 0 \in 0..MaxStarts
  BY DEF Ids
<1>1. ASSUME NEW c \in Callers,
             \/ Admit(c) \/ Busy(c) \/ Leaves(c) \/ EnsureFails(c) \/ StartFails(c) \/ Returns(c)
      PROVE  Typed'
  <2>1. callers' \in [Callers -> CallerRecord]
    <3>1. PICK pc \in Places : callers' = [callers EXCEPT ![c] = [callers[c] EXCEPT !.pc = pc]]
      BY <1>1, <1>p DEF Admit, Busy, Leaves, EnsureFails, StartFails, Returns, Goes
    <3>2. [callers[c] EXCEPT !.pc = pc] \in CallerRecord
      BY DEF CallerRecord
    <3> QED BY <3>1, <3>2
  <2>2. driver' \in DriverRecord
    BY <1>1 DEF Admit, Busy, Leaves, EnsureFails, StartFails, Returns, DriverRecord
  <2> QED BY <1>1, <2>1, <2>2 DEF Admit, Busy, Leaves, EnsureFails, StartFails, Returns
<1>2. ASSUME NEW c \in Callers, UtilityForShared(c)
      PROVE  Typed'
  <2>1. callers' = [callers EXCEPT ![c] = [callers[c] EXCEPT !.pc = "send", !.utility = driver.utility]]
    BY <1>2 DEF UtilityForShared, CallerRecord
  <2>2. callers' \in [Callers -> CallerRecord]
    BY <2>1, <1>c, <1>p DEF DriverRecord
  <2>3. utilities' \in [Ids -> UtilityRecord]
    <3>1. utilities[driver.utility] \in UtilityRecord
      BY <1>2 DEF UtilityForShared, DriverRecord, Ids
    <3>2. [utilities[driver.utility] EXCEPT !.holds = @ + 1] \in UtilityRecord
      BY <3>1 DEF UtilityRecord
    <3> QED BY <1>2, <3>2 DEF UtilityForShared
  <2> QED BY <1>2, <2>2, <2>3 DEF UtilityForShared
<1>3. ASSUME NEW c \in Callers, UtilityForNew(c)
      PROVE  Typed'
  <2> DEFINE stale == IF driver.utility # 0 /\ utilities[driver.utility].holds = 0 THEN driver.utility ELSE 0
  <2>1. callers' = [callers EXCEPT ![c] = [callers[c] EXCEPT !.pc = "starting", !.stale = stale]]
    BY <1>3 DEF UtilityForNew, CallerRecord
  <2>2. callers' \in [Callers -> CallerRecord]
    BY <2>1, <1>c, <1>p, <1>i DEF DriverRecord
  <2>3. \A u \in Ids : Retired(utilities[u]) \in UtilityRecord
    BY DEF Retired, UtilityRecord
  <2>4. utilities' \in [Ids -> UtilityRecord]
    BY <1>3, <2>3 DEF UtilityForNew, Ids
  <2>5. driver' \in DriverRecord
    BY <1>3, <1>i DEF UtilityForNew, DriverRecord
  <2> QED BY <2>2, <2>4, <2>5
<1>4. ASSUME NEW c \in Callers, Starts(c)
      PROVE  Typed'
  <2>1. PICK u \in Ids :
          /\ utilities' = [utilities EXCEPT ![u] = [@ EXCEPT !.fate = "up", !.holds = 1,
                             !.version = driver.pinned, !.isArmed = TRUE]]
          /\ driver' = [driver EXCEPT !.utility = u, !.lock = 0]
          /\ callers' = [callers EXCEPT ![c].pc = "stale", ![c].utility = u]
    BY <1>4 DEF Starts
  <2>2. callers' = [callers EXCEPT ![c] = [callers[c] EXCEPT !.pc = "stale", !.utility = u]]
    BY <2>1 DEF CallerRecord
  <2>3. callers' \in [Callers -> CallerRecord]
    BY <2>2, <1>c, <1>p, <1>i
  <2>4. [utilities[u] EXCEPT !.fate = "up", !.holds = 1, !.version = driver.pinned, !.isArmed = TRUE]
          \in UtilityRecord
    <3>1. utilities[u] \in UtilityRecord /\ driver.pinned \in Nat /\ "up" \in Fates
      BY DEF DriverRecord, Fates
    <3> QED BY <3>1, StartedType
  <2>5. utilities' \in [Ids -> UtilityRecord]
    BY <2>1, <2>4
  <2>6. driver' \in DriverRecord
    BY <2>1, <1>i DEF DriverRecord
  <2> QED BY <2>3, <2>5, <2>6
<1>5. ASSUME NEW c \in Callers, ClosesStale(c)
      PROVE  Typed'
  <2> DEFINE pc == IF callers[c].utility = 0 THEN "leave" ELSE "send"
  <2>1. callers' = [callers EXCEPT ![c] = [callers[c] EXCEPT !.stale = 0, !.pc = pc]]
    BY <1>5 DEF ClosesStale, CallerRecord
  <2>2. callers' \in [Callers -> CallerRecord]
    BY <2>1, <1>c, <1>p, <1>i
  <2>3. utilities' \in [Ids -> UtilityRecord]
    BY <1>5, ClosedType DEF ClosesStale, Fates
  <2> QED BY <1>5, <2>2, <2>3 DEF ClosesStale
<1>6. ASSUME NEW c \in Callers, Release(c)
      PROVE  Typed'
  <2> DEFINE u == callers[c].utility
             left == [utilities[u] EXCEPT !.holds = @ - 1]
  <2>1. callers' = [callers EXCEPT ![c] = [callers[c] EXCEPT !.pc = "leave", !.utility = 0]]
    BY <1>6 DEF Release, CallerRecord
  <2>2. callers' \in [Callers -> CallerRecord]
    BY <2>1, <1>c, <1>p, <1>i
  <2>3. u \in Ids /\ utilities[u].holds # 0
    <3>1. u \in Ids /\ c \in Holders(u)
      BY <1>6 DEF Release, Placed, InCall, CallerRecord, Ids, Holders
    <3>2. Cardinality(Holders(u)) # 0
      BY <3>1, FiniteHolders, FS_EmptySet
    <3> QED BY <3>1, <3>2 DEF Pool, Counted
  <2>4. left \in UtilityRecord
    BY <2>3 DEF UtilityRecord
  <2>5. utilities' \in [Ids -> UtilityRecord]
    BY <1>6, <2>3, <2>4, ClosedType DEF Release, Fates
  <2> QED BY <1>6, <2>2, <2>5 DEF Release
<1>7. ASSUME NEW u \in Ids, TimerFires(u) \/ Dies(u)
      PROVE  Typed'
  <2>1. utilities' \in [Ids -> UtilityRecord]
    <3>1. CASE TimerFires(u)
      <4>1. utilities' = [utilities EXCEPT ![u] = [utilities[u] EXCEPT !.isArmed = FALSE, !.dropping = TRUE]]
        BY <3>1 DEF TimerFires, UtilityRecord
      <4>2. [utilities[u] EXCEPT !.isArmed = FALSE, !.dropping = TRUE] \in UtilityRecord
        BY DEF UtilityRecord
      <4> QED BY <4>1, <4>2
    <3>2. CASE Dies(u)
      <4>1. [utilities[u] EXCEPT !.fate = "dead"] \in UtilityRecord
        BY DEF UtilityRecord, Fates
      <4> QED BY <3>2, <4>1 DEF Dies
    <3> QED BY <1>7, <3>1, <3>2
  <2> QED BY <1>7, <2>1 DEF TimerFires, Dies
<1>8. ASSUME NEW u \in Ids, DropUtility(u)
      PROVE  Typed'
  <2>1. [utilities[u] EXCEPT !.isRetired = TRUE, !.dropping = FALSE] \in UtilityRecord
    BY DEF UtilityRecord
  <2> DEFINE dropped == [utilities[u] EXCEPT !.isRetired = TRUE, !.dropping = FALSE]
  <2>4. Closed(dropped, "closed") \in UtilityRecord
    BY <2>1, ClosedType DEF Fates
  <2>5. utilities' = [utilities EXCEPT ![u] = IF dropped.holds = 0 THEN Closed(dropped, "closed") ELSE dropped]
    BY <1>8 DEF DropUtility
  <2>2. utilities' \in [Ids -> UtilityRecord]
    <3>1. dropped \in UtilityRecord
      BY <2>1
    <3> HIDE DEF dropped
    <3> QED BY <2>4, <2>5, <3>1
  <2>3. driver' \in DriverRecord
    BY <1>8, <1>i DEF DropUtility, DriverRecord
  <2> QED BY <1>8, <2>2, <2>3 DEF DropUtility
<1>9. CASE Shutdown
  <2>1. utilities' \in [Ids -> UtilityRecord]
    BY <1>9, ClosedType DEF Shutdown, Fates
  <2>2. driver' \in DriverRecord
    BY <1>9, <1>i DEF Shutdown, DriverRecord
  <2> QED BY <1>9, <2>1, <2>2 DEF Shutdown
<1>10. CASE PinChanges
  <2>1. driver' \in DriverRecord
    BY <1>10 DEF PinChanges, DriverRecord
  <2> QED BY <1>10, <2>1 DEF PinChanges
<1>11. ASSUME NEW c \in Callers, TakesParts(c)
       PROVE  Typed'
  <2> DEFINE u == callers[c].utility
             n == utilities[u].sequence + 1
  <2>0. u \in Ids
    BY <1>11 DEF TakesParts, Placed, InCall, CallerRecord, Ids
  <2>4. utilities[u] \in UtilityRecord
    BY <2>0
  <2>5. n \in Nat
    BY <2>4 DEF UtilityRecord
  <2>1. [utilities[u] EXCEPT !.sender = c, !.sequence = n] \in UtilityRecord
    BY <2>4, <2>5 DEF UtilityRecord
  <2>6. ASSUME NEW k \in Nat
        PROVE  [callers[c] EXCEPT !.pc = "sending", !.id = k] \in CallerRecord
    BY <1>p, SendingType
  <2>2. /\ utilities' = [utilities EXCEPT ![u] = [utilities[u] EXCEPT !.sender = c, !.sequence = n]]
        /\ callers' = [callers EXCEPT ![c] = [callers[c] EXCEPT !.pc = "sending", !.id = n]]
    BY <1>11, <2>0 DEF TakesParts, CallerRecord, UtilityRecord
  <2>3. callers' \in [Callers -> CallerRecord] /\ utilities' \in [Ids -> UtilityRecord]
    BY <2>0, <2>1, <2>2, <2>5, <2>6
  <2> QED BY <1>11, <2>3 DEF TakesParts
<1>12. ASSUME NEW c \in Callers, SendsPart(c) \/ SendFails(c)
       PROVE  Typed'
  <2>1. utilities' \in [Ids -> UtilityRecord]
    <3>1. \A u \in Ids : [utilities[u] EXCEPT !.sender = 0] \in UtilityRecord
      BY DEF UtilityRecord
    <3>2. utilities' = utilities \/ utilities' = [utilities EXCEPT ![callers[c].utility].sender = 0]
      BY <1>12 DEF SendsPart, SendFails
    <3> QED BY <3>1, <3>2
  <2>2. CASE SendsPart(c)
    <3> DEFINE pc == IF callers[c].sent = Parts - 1 THEN "await" ELSE callers[c].pc
    <3>1. callers' = [callers EXCEPT ![c] = [callers[c] EXCEPT !.sent = callers[c].sent + 1, !.pc = pc]]
      BY <2>2 DEF SendsPart, CallerRecord
    <3>2. callers[c].sent + 1 \in Nat /\ pc \in Places
      BY <1>p DEF CallerRecord
    <3>4. [callers[c] EXCEPT !.sent = callers[c].sent + 1, !.pc = pc] \in CallerRecord
      BY <3>2 DEF CallerRecord
    <3>3. callers' \in [Callers -> CallerRecord]
      BY <3>1, <3>4
    <3> QED BY <2>1, <2>2, <3>3 DEF SendsPart
  <2>3. CASE SendFails(c)
    <3>1. callers' = [callers EXCEPT ![c] = [callers[c] EXCEPT !.pc = "release"]]
      BY <2>3 DEF SendFails, Goes, CallerRecord
    <3>2. [callers[c] EXCEPT !.pc = "release"] \in CallerRecord
      BY <1>p DEF CallerRecord
    <3> QED BY <2>1, <2>3, <3>1, <3>2 DEF SendFails
  <2> QED BY <1>12, <2>2, <2>3
<1>13. ASSUME NEW u \in Ids, NEW i \in Requests, Completes(u, i)
       PROVE  Typed'
  <2>1. callers' \in [Callers -> CallerRecord]
    BY <1>13 DEF Completes, CallerRecord
  <2> QED BY <1>13, <2>1 DEF Completes
<1> QED BY <1>1, <1>2, <1>3, <1>4, <1>5, <1>6, <1>7, <1>8, <1>9, <1>10, <1>11, <1>12, <1>13 DEF Next

\* A call's own place, and that of the mutex, when nobody else's changes.
LEMMA PlacedStep ==
  ASSUME IInv, Next
  PROVE  Placed'
<1> USE UtilityAssumption DEF IInv, Typed
<1>1. ASSUME NEW c \in Callers, Moves(c)
      PROVE  Placed'
  <2>1. \A d \in Callers : callers'[d].pc = "starting" => driver'.lock = d
    <3>1. CASE driver'.lock = driver.lock
      BY <1>1, <3>1, MovesCallers DEF Placed, Ways
    <3>2. CASE callers[c].pc = "starting"
      BY <1>1, <3>2, MovesCallers DEF Placed, Ways
    <3> QED BY <1>1, <3>1, <3>2, MovesDriver
  <2>2. driver'.lock # 0 => driver'.utility = 0
    BY <1>1, MovesDriver DEF Placed
  <2>3. /\ callers'[c].pc \in InCall => callers'[c].utility # 0
        /\ callers'[c].pc \in Outside => callers'[c].utility = 0
        /\ callers'[c].stale # 0 => callers'[c].pc \in {"starting", "stale"}
    <3>1. /\ callers'[c].utility = callers[c].utility /\ callers'[c].stale = callers[c].stale
          /\ <<callers[c].pc, callers'[c].pc>> \in Ways
      BY <1>1, MovesCallers
    <3>2. /\ callers'[c].pc \in InCall => callers[c].pc \in InCall
          /\ callers'[c].pc \in Outside => callers[c].pc \in Outside
          /\ callers[c].pc \in {"starting", "stale"} => callers'[c].pc \in {"starting", "stale"}
      BY <3>1 DEF Ways, InCall, Outside
    <3> QED BY <3>1, <3>2 DEF Placed
  <2>4. \A d \in Callers : d # c => callers'[d] = callers[d]
    BY <1>1, MovesCallers
  <2> QED BY <2>1, <2>2, <2>3, <2>4 DEF Placed
<1>8. ASSUME NEW c \in Callers, UtilityForShared(c)
      PROVE  Placed'
  <2>1. /\ UNCHANGED driver /\ driver.utility # 0
        /\ \A d \in Callers : d # c => callers'[d] = callers[d]
        /\ callers[c].pc = "for" /\ callers'[c].pc = "send" /\ callers'[c].stale = callers[c].stale
        /\ callers'[c].utility = driver.utility
    BY <1>8 DEF UtilityForShared, CallerRecord
  <2> QED BY <2>1 DEF Placed, InCall, Outside
<1>9. ASSUME NEW c \in Callers, Release(c)
      PROVE  Placed'
  <2>1. /\ UNCHANGED driver
        /\ \A d \in Callers : d # c => callers'[d] = callers[d]
        /\ callers[c].pc = "release" /\ callers'[c].pc = "leave" /\ callers'[c].stale = callers[c].stale
        /\ callers'[c].utility = 0
    BY <1>9 DEF Release, CallerRecord
  <2> QED BY <2>1 DEF Placed, InCall, Outside
<1>2. ASSUME NEW c \in Callers, UtilityForNew(c)
      PROVE  Placed'
  <2>1. /\ callers'[c].pc = "starting" /\ callers'[c].utility = 0
        /\ \A d \in Callers : d # c => callers'[d] = callers[d]
    BY <1>2 DEF UtilityForNew, CallerRecord, Placed, Outside
  <2>2. driver.lock = 0 /\ driver'.lock = c /\ driver'.utility = 0
    BY <1>2 DEF UtilityForNew, Unlocked, DriverRecord
  <2>3. \A d \in Callers : callers[d].pc # "starting"
    BY <2>2 DEF Placed
  <2> QED BY <2>1, <2>2, <2>3 DEF Placed, InCall, Outside
<1>3. ASSUME NEW c \in Callers, Starts(c)
      PROVE  Placed'
  <2>1. PICK u \in Ids : callers' = [callers EXCEPT ![c].pc = "stale", ![c].utility = u]
    BY <1>3 DEF Starts
  <2>2. callers'[c].pc = "stale" /\ \A d \in Callers : d # c => callers'[d] = callers[d]
    BY <2>1 DEF CallerRecord
  <2>3. driver'.lock = 0
    BY <1>3 DEF Starts, DriverRecord
  <2>4. \A d \in Callers : d # c => callers[d].pc # "starting"
    BY <1>3 DEF Starts, Placed
  <2> QED BY <2>2, <2>3, <2>4 DEF Placed, InCall, Outside
<1>4. ASSUME NEW c \in Callers, ClosesStale(c)
      PROVE  Placed'
  <2>1. /\ UNCHANGED driver /\ \A d \in Callers : d # c => callers'[d] = callers[d]
        /\ callers'[c].stale = 0 /\ callers'[c].utility = callers[c].utility
        /\ callers'[c].pc = IF callers[c].utility = 0 THEN "leave" ELSE "send"
    BY <1>4 DEF ClosesStale, CallerRecord
  <2> QED BY <2>1 DEF Placed, InCall, Outside
<1>5. ASSUME NEW u \in Ids, TimerFires(u) \/ DropUtility(u) \/ Dies(u)
      PROVE  Placed'
  <2>1. UNCHANGED callers /\ driver'.lock = driver.lock /\ (driver.utility = 0 => driver'.utility = 0)
    BY <1>5 DEF TimerFires, DropUtility, Dies, DriverRecord
  <2> QED BY <2>1 DEF Placed
<1>6. CASE Shutdown \/ PinChanges
  <2>1. UNCHANGED callers /\ driver'.lock = driver.lock /\ (driver.utility = 0 => driver'.utility = 0)
    BY <1>6 DEF Shutdown, PinChanges, DriverRecord
  <2> QED BY <2>1 DEF Placed
<1>7. ASSUME NEW u \in Ids, NEW i \in Requests, Completes(u, i)
      PROVE  Placed'
  <2>1. /\ UNCHANGED driver
        /\ \A d \in Callers : /\ callers'[d].pc = callers[d].pc /\ callers'[d].utility = callers[d].utility
                              /\ callers'[d].stale = callers[d].stale
    BY <1>7 DEF Completes, CallerRecord
  <2> QED BY <2>1 DEF Placed
<1> QED BY <1>1, <1>2, <1>3, <1>4, <1>5, <1>6, <1>7, <1>8, <1>9 DEF Next, Moves

-----------------------------------------------------------------------------
(***************************************************************************)
(* The processes                                                           *)
(***************************************************************************)
\* Steps that change neither who holds a process nor which one is shared.
LEMMA QuietSteps ==
  ASSUME IInv,
         \/ \E c \in Callers : Moves(c)
         \/ \E u \in Ids : TimerFires(u) \/ Dies(u) \/ \E i \in Requests : Completes(u, i)
         \/ PinChanges
  PROVE  Pool'
<1> USE DEF IInv, Typed
<1>1. ASSUME NEW c \in Callers, Moves(c)
      PROVE  Pool'
  <2>1. \A d \in Callers : callers'[d].utility = callers[d].utility /\ callers'[d].stale = callers[d].stale
    BY <1>1, MovesCallers
  <2>2. \A u \in Ids : /\ utilities'[u].fate = utilities[u].fate /\ utilities'[u].holds = utilities[u].holds
                       /\ utilities'[u].isRetired = utilities[u].isRetired
    BY <1>1, MovesUtilities
  <2>3. driver'.utility = driver.utility
    BY <1>1, MovesDriver
  <2> QED BY <2>1, <2>2, <2>3, PoolKept
<1>2. ASSUME NEW u \in Ids, TimerFires(u) \/ Dies(u)
      PROVE  Pool'
  <2>1. \A v \in Ids :
          /\ utilities'[v].fate = utilities[v].fate \/ (utilities[v].fate = "up" /\ utilities'[v].fate = "dead")
          /\ utilities'[v].holds = utilities[v].holds /\ utilities'[v].isRetired = utilities[v].isRetired
    <3>1. CASE TimerFires(u)
      <4>1. utilities' = [utilities EXCEPT ![u] = [utilities[u] EXCEPT !.isArmed = FALSE, !.dropping = TRUE]]
        BY <3>1 DEF TimerFires, UtilityRecord
      <4> QED BY <4>1 DEF UtilityRecord
    <3>2. CASE Dies(u)
      BY <3>2 DEF Dies, UtilityRecord
    <3> QED BY <1>2, <3>1, <3>2
  <2>2. UNCHANGED <<callers, driver>>
    BY <1>2 DEF TimerFires, Dies
  <2>3. \A d \in Callers : callers'[d].utility = callers[d].utility /\ callers'[d].stale = callers[d].stale
    BY <2>2
  <2> QED BY <2>1, <2>2, <2>3, PoolKept
<1>3. ASSUME NEW u \in Ids, NEW i \in Requests, Completes(u, i)
      PROVE  Pool'
  <2>1. \A d \in Callers : callers'[d].utility = callers[d].utility /\ callers'[d].stale = callers[d].stale
    <3>1. PICK reply : callers' = callers \/ callers' = [callers EXCEPT ![mod[u][i].awaited].reply = reply]
      BY <1>3 DEF Completes
    <3> QED BY <3>1 DEF CallerRecord
  <2>2. UNCHANGED <<utilities, driver>>
    BY <1>3 DEF Completes
  <2>3. \A v \in Ids : /\ utilities'[v].fate = utilities[v].fate /\ utilities'[v].holds = utilities[v].holds
                       /\ utilities'[v].isRetired = utilities[v].isRetired
    BY <2>2
  <2> QED BY <2>1, <2>2, <2>3, PoolKept
<1>4. CASE PinChanges
  <2>1. UNCHANGED <<utilities, callers>> /\ driver'.utility = driver.utility
    BY <1>4 DEF PinChanges, DriverRecord
  <2>2. \A d \in Callers : callers'[d].utility = callers[d].utility /\ callers'[d].stale = callers[d].stale
    BY <2>1
  <2>3. \A v \in Ids : /\ utilities'[v].fate = utilities[v].fate /\ utilities'[v].holds = utilities[v].holds
                       /\ utilities'[v].isRetired = utilities[v].isRetired
    BY <2>1
  <2> QED BY <2>1, <2>2, <2>3, PoolKept
<1> QED BY <1>1, <1>2, <1>3, <1>4

\* Closing a process changes neither who holds it nor whether it is retired.
LEMMA ClosedFields ==
  ASSUME NEW u \in UtilityRecord, NEW fate \in Fates
  PROVE  /\ Closed(u, fate).fate = IF u.fate = "up" THEN fate ELSE u.fate
         /\ Closed(u, fate).holds = u.holds /\ Closed(u, fate).isRetired = u.isRetired
BY DEF Closed, UtilityRecord

\* One more call uses the shared process.
LEMMA SharedStep ==
  ASSUME IInv, NEW c \in Callers, UtilityForShared(c)
  PROVE  Pool'
<1> USE UtilityAssumption DEF IInv, Typed
<1>1. PICK u \in Ids : u = driver.utility /\ utilities[u].fate = "up" /\ callers[c].utility = 0
  BY DEF UtilityForShared, Usable, DriverRecord, Ids, Placed, Outside
<1>2. /\ UNCHANGED driver
      /\ \A v \in Ids : /\ utilities'[v].fate = utilities[v].fate
                        /\ utilities'[v].isRetired = utilities[v].isRetired
                        /\ utilities'[v].holds = IF v = u THEN utilities[v].holds + 1 ELSE utilities[v].holds
  BY <1>1 DEF UtilityForShared, UtilityRecord
<1>3. /\ \A d \in Callers : callers'[d].utility = IF d = c THEN u ELSE callers[d].utility
      /\ \A d \in Callers : callers'[d].stale = callers[d].stale
  BY <1>1 DEF UtilityForShared, CallerRecord
<1>4. Holders(u)' = Holders(u) \cup {c} /\ c \notin Holders(u) /\ u # 0
  <2>1. u \in 0..MaxStarts /\ u # callers[c].utility
    BY <1>1 DEF Ids
  <2> QED BY <1>1, <1>3, <2>1, HoldersStep
<1>5. ASSUME NEW v \in Ids, v # u
      PROVE  Holders(v)' = Holders(v)
  BY <1>1, <1>3, <1>5 DEF Holders, Ids
<1>6. Counted'
  <2>1. Cardinality(Holders(u)') = Cardinality(Holders(u)) + 1
    BY <1>4, FiniteHolders, FS_AddElement
  <2>2. ASSUME NEW v \in Ids
        PROVE  utilities'[v].holds = Cardinality(Holders(v)')
    BY <1>2, <1>5, <2>1 DEF Pool, Counted
  <2> QED BY <2>2 DEF Counted
<1>7. Unborn' /\ Abandoned' /\ NoneHeld'
  BY <1>1, <1>2, <1>3, <1>5 DEF Pool, Unborn, Abandoned, NoneHeld
<1>8. NoneLeftRunning'
  BY <1>1, <1>2, <1>3 DEF Pool, NoneLeftRunning, UtilityRecord
<1> QED BY <1>6, <1>7, <1>8 DEF Pool

\* The shared process is given up; if nobody holds it, the call will close it.
LEMMA RetireStep ==
  ASSUME IInv, NEW c \in Callers, UtilityForNew(c)
  PROVE  Pool'
<1> USE UtilityAssumption DEF IInv, Typed
<1>0. PICK u : u = driver.utility
  OBVIOUS
<1>1. callers[c].stale = 0 /\ driver'.utility = 0 /\ u \in 0..MaxStarts
  BY <1>0 DEF UtilityForNew, DriverRecord, Placed
<1>2. \A v \in Ids : /\ utilities'[v].fate = utilities[v].fate /\ utilities'[v].holds = utilities[v].holds
                     /\ utilities'[v].isRetired = IF v = u THEN TRUE ELSE utilities[v].isRetired
  <2>1. \A v \in Ids : utilities'[v] = IF v = u THEN Retired(utilities[v]) ELSE utilities[v]
    BY <1>0, <1>1 DEF UtilityForNew, Ids
  <2>2. \A r \in UtilityRecord : /\ Retired(r).fate = r.fate /\ Retired(r).holds = r.holds
                                 /\ Retired(r).isRetired = TRUE
    BY DEF Retired, UtilityRecord
  <2> QED BY <2>1, <2>2
<1>3. /\ \A d \in Callers : callers'[d].utility = callers[d].utility
      /\ \A d \in Callers : d # c => callers'[d].stale = callers[d].stale
      /\ callers'[c].stale = IF u # 0 /\ utilities[u].holds = 0 THEN u ELSE 0
  BY <1>0 DEF UtilityForNew, CallerRecord
<1>4. \A v : Holders(v)' = Holders(v)
  BY <1>3, HoldersKept
<1>5. Counted' /\ NoneHeld'
  BY <1>2, <1>4 DEF Pool, Counted, NoneHeld
<1>6. Unborn'
  <2>1. ASSUME NEW v \in Ids, utilities'[v].fate = "none"
        PROVE  driver'.utility # v /\ Holders(v)' = {} /\ \A d \in Callers : callers'[d].stale # v
    <3>1. v # 0 /\ v # u /\ Holders(v) = {} /\ \A d \in Callers : callers[d].stale # v
      <4>1. utilities[v].fate = "none"
        BY <1>2, <2>1
      <4> QED BY <1>0, <4>1 DEF Pool, Unborn, Ids
    <3> QED BY <1>1, <1>3, <1>4, <3>1
  <2> QED BY <2>1 DEF Unborn
<1>7. Abandoned'
  <2>1. ASSUME u \in Ids, utilities[u].holds = 0
        PROVE  Holders(u) = {}
    BY <2>1, FiniteHolders, FS_EmptySet DEF Pool, Counted
  <2> QED BY <1>0, <1>1, <1>3, <1>4, <2>1 DEF Pool, Abandoned, Ids
<1>8. NoneLeftRunning'
  <2>1. ASSUME NEW v \in Ids, utilities'[v].fate = "up"
        PROVE  /\ utilities'[v].isRetired
               /\ utilities'[v].holds > 0 \/ \E d \in Callers : callers'[d].stale = v
    <3>1. CASE v = u
      <4>1. u # 0
        BY <3>1 DEF Ids
      <4>2. utilities[v].holds \in Nat
        BY DEF UtilityRecord
      <4>3. utilities[v].holds = 0 \/ utilities[v].holds > 0
        BY <4>2
      <4> QED BY <1>2, <1>3, <3>1, <4>1, <4>3
    <3>2. CASE v # u
      <4>1. utilities[v].isRetired /\ (utilities[v].holds > 0 \/ \E d \in Callers : callers[d].stale = v)
        BY <1>0, <1>2, <2>1, <3>2 DEF Pool, NoneLeftRunning
      <4>2. v # 0
        BY <1>0 DEF Ids
      <4> QED BY <1>0, <1>1, <1>2, <1>3, <3>2, <4>1, <4>2
    <3> QED BY <3>1, <3>2
  <2> QED BY <2>1 DEF NoneLeftRunning
<1> QED BY <1>5, <1>6, <1>7, <1>8 DEF Pool

\* A process nobody knew gets its first call.
LEMMA StartStep ==
  ASSUME IInv, NEW c \in Callers, Starts(c)
  PROVE  Pool'
<1> USE UtilityAssumption DEF IInv, Typed
<1>1. PICK u \in Ids :
        /\ \A v \in Ids : utilities[v].fate = "none" <=> v >= u
        /\ utilities' = [utilities EXCEPT ![u] = [@ EXCEPT !.fate = "up", !.holds = 1,
                           !.version = driver.pinned, !.isArmed = TRUE]]
        /\ driver' = [driver EXCEPT !.utility = u, !.lock = 0]
        /\ callers' = [callers EXCEPT ![c].pc = "stale", ![c].utility = u]
  BY DEF Starts
<1>2. utilities[u].fate = "none" /\ u # 0 /\ u \in 0..MaxStarts
  BY <1>1 DEF Ids
<1>3. driver.utility = 0 /\ callers[c].utility = 0 /\ driver'.utility = u
  <2>1. callers[c].pc = "starting"
    BY DEF Starts
  <2>2. driver.lock = c /\ callers[c].utility = 0
    BY <2>1 DEF Placed, Outside
  <2> QED BY <1>1, <2>2 DEF Placed, DriverRecord
<1>4. /\ \A v \in Ids : v # u => utilities'[v] = utilities[v]
      /\ utilities'[u].fate = "up" /\ utilities'[u].holds = 1
  BY <1>1 DEF UtilityRecord
<1>5. /\ \A d \in Callers : callers'[d].utility = IF d = c THEN u ELSE callers[d].utility
      /\ \A d \in Callers : callers'[d].stale = callers[d].stale
  BY <1>1 DEF CallerRecord
<1>6. Holders(u) = {} /\ Holders(u)' = {c}
  <2>1. Holders(u) = {}
    BY <1>2 DEF Pool, Unborn
  <2> QED BY <1>5, <2>1 DEF Holders
<1>7. ASSUME NEW v \in Ids, v # u
      PROVE  Holders(v)' = Holders(v)
  BY <1>3, <1>5, <1>7 DEF Holders, Ids
<1>8. Counted'
  <2>1. Cardinality(Holders(u)') = 1
    BY <1>6, FS_Singleton
  <2>2. ASSUME NEW v \in Ids
        PROVE  utilities'[v].holds = Cardinality(Holders(v)')
    BY <1>4, <1>7, <2>1 DEF Pool, Counted
  <2> QED BY <2>2 DEF Counted
<1>9. Unborn' /\ Abandoned' /\ NoneHeld'
  <2>1. \A d \in Callers : callers[d].stale # u
    BY <1>2 DEF Pool, Unborn
  <2> QED BY <1>3, <1>4, <1>5, <1>7, <2>1 DEF Pool, Unborn, Abandoned, NoneHeld
<1>10. NoneLeftRunning'
  <2>1. ASSUME NEW v \in Ids, v # u, utilities[v].fate = "up"
        PROVE  utilities[v].isRetired /\ (utilities[v].holds > 0 \/ \E d \in Callers : callers[d].stale = v)
    <3>1. driver.utility # v
      BY <1>3 DEF Ids
    <3> QED BY <2>1, <3>1 DEF Pool, NoneLeftRunning
  <2> QED BY <1>3, <1>4, <1>5, <2>1 DEF NoneLeftRunning
<1> QED BY <1>8, <1>9, <1>10 DEF Pool

\* The process that is closed is nobody's.
LEMMA StaleStep ==
  ASSUME IInv, NEW c \in Callers, ClosesStale(c)
  PROVE  Pool'
<1> USE UtilityAssumption DEF IInv, Typed
<1>0. PICK u : u = callers[c].stale
  OBVIOUS
<1>1. u \in 0..MaxStarts /\ UNCHANGED driver
  BY <1>0 DEF ClosesStale, CallerRecord
<1>2. /\ \A d \in Callers : callers'[d].utility = callers[d].utility
      /\ \A d \in Callers : callers'[d].stale = IF d = c THEN 0 ELSE callers[d].stale
  BY <1>0 DEF ClosesStale, CallerRecord
<1>3. \A v \in Ids : /\ utilities'[v].holds = utilities[v].holds
                     /\ utilities'[v].isRetired = utilities[v].isRetired
                     /\ utilities'[v].fate = IF v = u /\ utilities[v].fate = "up" THEN "closed" ELSE utilities[v].fate
  <2>1. \A v \in Ids : utilities'[v] = IF v = u THEN Closed(utilities[v], "closed") ELSE utilities[v]
    BY <1>0, <1>1 DEF ClosesStale, Ids
  <2> QED BY <2>1, ClosedFields DEF Fates
<1>4. \A v : Holders(v)' = Holders(v)
  BY <1>2, HoldersKept
<1>5. \A v \in Ids : v = u => Holders(v) = {}
  BY <1>0 DEF Pool, Abandoned
<1>6. Counted' /\ NoneHeld'
  BY <1>3, <1>4, <1>5 DEF Pool, Counted, NoneHeld
<1>7. Unborn' /\ Abandoned'
  BY <1>0, <1>1, <1>2, <1>3, <1>4 DEF Pool, Unborn, Abandoned, Ids
<1>8. NoneLeftRunning'
  BY <1>0, <1>1, <1>2, <1>3 DEF Pool, NoneLeftRunning
<1> QED BY <1>6, <1>7, <1>8 DEF Pool

\* The last call that leaves a retired process closes it.
LEMMA ReleaseStep ==
  ASSUME IInv, NEW c \in Callers, Release(c)
  PROVE  Pool'
<1> USE UtilityAssumption DEF IInv, Typed
<1>0. PICK u : u = callers[c].utility
  OBVIOUS
<1> DEFINE left == [utilities[u] EXCEPT !.holds = @ - 1]
<1>1. u \in Ids /\ c \in Holders(u) /\ UNCHANGED driver
  BY <1>0 DEF Release, Placed, InCall, CallerRecord, Ids, Holders
<1>2. /\ \A d \in Callers : callers'[d].utility = IF d = c THEN 0 ELSE callers[d].utility
      /\ \A d \in Callers : callers'[d].stale = callers[d].stale
  BY <1>0 DEF Release, CallerRecord
<1>3. Holders(u)' = Holders(u) \ {c} /\ \A v \in Ids : v # u => Holders(v)' = Holders(v)
  BY <1>0, <1>1, <1>2 DEF Holders, Ids
<1>4. Cardinality(Holders(u)') = utilities[u].holds - 1 /\ utilities[u].holds - 1 \in Nat
  <2>1. Cardinality(Holders(u)') = Cardinality(Holders(u)) - 1
    <3>1. IsFiniteSet(Holders(u)) /\ c \in Holders(u)
      BY <1>1, FiniteHolders
    <3>2. Cardinality(Holders(u) \ {c}) = Cardinality(Holders(u)) - 1
      BY <3>1, FS_RemoveElement
    <3> QED BY <1>3, <3>2
  <2>2. Cardinality(Holders(u)) \in Nat /\ Cardinality(Holders(u)) # 0
    BY <1>0, <1>1, FiniteHolders, FS_EmptySet
  <2>3. utilities[u].holds = Cardinality(Holders(u))
    BY <1>0, <1>1 DEF Pool, Counted
  <2> QED BY <2>1, <2>2, <2>3
<1>5. /\ left \in UtilityRecord /\ left.fate = utilities[u].fate
      /\ left.holds = utilities[u].holds - 1 /\ left.isRetired = utilities[u].isRetired
  BY <1>0, <1>1, <1>4 DEF UtilityRecord
<1>6. utilities' = [utilities EXCEPT ![u] =
                     IF left.isRetired /\ left.holds = 0 THEN Closed(left, "closed") ELSE left]
  BY <1>0 DEF Release
<1> HIDE DEF left
<1>7. /\ \A v \in Ids : v # u => utilities'[v] = utilities[v]
      /\ utilities'[u].holds = utilities[u].holds - 1 /\ utilities'[u].isRetired = utilities[u].isRetired
      /\ utilities'[u].fate = IF utilities[u].isRetired /\ utilities[u].holds - 1 = 0 /\ utilities[u].fate = "up"
                              THEN "closed" ELSE utilities[u].fate
  BY <1>0, <1>1, <1>5, <1>6, ClosedFields DEF Fates
<1>8. Counted'
  BY <1>3, <1>4, <1>7 DEF Pool, Counted
<1>9. utilities[u].fate \notin {"none", "closed"} /\ \A d \in Callers : callers[d].stale # u
  BY <1>0, <1>1 DEF Pool, Unborn, NoneHeld, Abandoned
<1>10. Unborn' /\ Abandoned'
  BY <1>0, <1>1, <1>2, <1>3, <1>7, <1>9 DEF Pool, Unborn, Abandoned
<1>11. NoneHeld'
  <2>1. utilities[u].holds - 1 = 0 => Holders(u)' = {}
    <3>1. IsFiniteSet(Holders(u)')
      BY <1>3, FiniteHolders, FS_RemoveElement
    <3> QED BY <1>4, <3>1, FS_EmptySet
  <2> QED BY <1>3, <1>7, <1>9, <2>1 DEF Pool, NoneHeld
<1>12. NoneLeftRunning'
  <2>1. ASSUME NEW v \in Ids, utilities'[v].fate = "up", driver'.utility # v
        PROVE  /\ utilities'[v].isRetired
               /\ utilities'[v].holds > 0 \/ \E d \in Callers : callers'[d].stale = v
    <3>1. CASE v = u
      <4>1. utilities[u].isRetired
        BY <1>0, <1>1, <1>7, <2>1, <3>1 DEF Pool, NoneLeftRunning
      <4>2. utilities[u].holds - 1 # 0
        <5>1. utilities'[u].fate = "up"
          BY <2>1, <3>1
        <5>2. ASSUME utilities[u].holds - 1 = 0
              PROVE  utilities'[u].fate # "up"
          <6>1. CASE utilities[u].fate = "up"
            BY <1>7, <4>1, <5>2, <6>1
          <6>2. CASE utilities[u].fate # "up"
            BY <1>7, <6>2
          <6> QED BY <6>1, <6>2
        <5> QED BY <5>1, <5>2
      <4>3. \A n \in Nat : n # 0 => n > 0
        OBVIOUS
      <4>4. utilities[u].holds - 1 > 0
        BY <1>4, <4>2, <4>3, Zenon
      <4> QED BY <1>7, <3>1, <4>1, <4>4
    <3>2. CASE v # u
      BY <1>0, <1>1, <1>2, <1>7, <2>1, <3>2 DEF Pool, NoneLeftRunning
    <3> QED BY <3>1, <3>2
  <2> QED BY <2>1 DEF NoneLeftRunning
<1> QED BY <1>8, <1>10, <1>11, <1>12 DEF Pool

\* The idle timer closes a process nobody holds, and retires one that is held.
LEMMA DropStep ==
  ASSUME IInv, NEW u \in Ids, DropUtility(u)
  PROVE  Pool'
<1> USE UtilityAssumption DEF IInv, Typed
<1> DEFINE dropped == [utilities[u] EXCEPT !.isRetired = TRUE, !.dropping = FALSE]
<1>1. UNCHANGED callers /\ u # 0 /\ driver'.utility = IF driver.utility = u THEN 0 ELSE driver.utility
  BY DEF DropUtility, DriverRecord, Ids
<1>2. /\ dropped \in UtilityRecord /\ dropped.fate = utilities[u].fate
      /\ dropped.holds = utilities[u].holds /\ dropped.isRetired = TRUE
  BY DEF UtilityRecord
<1>3. utilities' = [utilities EXCEPT ![u] = IF dropped.holds = 0 THEN Closed(dropped, "closed") ELSE dropped]
  BY DEF DropUtility
<1> HIDE DEF dropped
<1>4. /\ \A v \in Ids : v # u => utilities'[v] = utilities[v]
      /\ utilities'[u].holds = utilities[u].holds /\ utilities'[u].isRetired = TRUE
      /\ utilities'[u].fate = IF utilities[u].holds = 0 /\ utilities[u].fate = "up"
                              THEN "closed" ELSE utilities[u].fate
  BY <1>2, <1>3, ClosedFields DEF Fates
<1>5. \A v : Holders(v)' = Holders(v)
  BY <1>1, HoldersKept
<1>6. utilities[u].holds = 0 => Holders(u) = {}
  BY FiniteHolders, FS_EmptySet DEF Pool, Counted
<1>7. Counted' /\ NoneHeld'
  BY <1>4, <1>5, <1>6 DEF Pool, Counted, NoneHeld
<1>8. Unborn' /\ Abandoned'
  BY <1>1, <1>4, <1>5 DEF Pool, Unborn, Abandoned, Ids
<1>9. NoneLeftRunning'
  <2>1. utilities[u].holds \in Nat
    BY DEF UtilityRecord
  <2> QED BY <1>1, <1>4, <2>1 DEF Pool, NoneLeftRunning
<1> QED BY <1>7, <1>8, <1>9 DEF Pool

\* Shutdown ends the shared process.
LEMMA ShutdownStep ==
  ASSUME IInv, Shutdown
  PROVE  Pool'
<1> USE UtilityAssumption DEF IInv, Typed
<1>0. PICK u : u = driver.utility
  OBVIOUS
<1>1. UNCHANGED callers /\ driver'.utility = 0 /\ u \in 0..MaxStarts
  BY <1>0 DEF Shutdown, DriverRecord
<1>2. \A v \in Ids : /\ utilities'[v].holds = utilities[v].holds
                     /\ utilities'[v].isRetired = utilities[v].isRetired
                     /\ utilities'[v].fate = IF v = u /\ utilities[v].fate = "up" THEN "shut" ELSE utilities[v].fate
  <2>1. \A v \in Ids : utilities'[v] = IF v = u THEN Closed(utilities[v], "shut") ELSE utilities[v]
    BY <1>0, <1>1 DEF Shutdown, Ids
  <2> QED BY <2>1, ClosedFields DEF Fates
<1>3. \A v : Holders(v)' = Holders(v)
  BY <1>0, <1>1, HoldersKept
<1>4. Counted' /\ NoneHeld' /\ Unborn' /\ Abandoned'
  BY <1>0, <1>1, <1>2, <1>3 DEF Pool, Counted, NoneHeld, Unborn, Abandoned, Ids
<1>5. NoneLeftRunning'
  BY <1>0, <1>1, <1>2 DEF Pool, NoneLeftRunning
<1> QED BY <1>4, <1>5 DEF Pool

-----------------------------------------------------------------------------
(***************************************************************************)
(* Completions: whose prompt the mod collects under which id               *)
(***************************************************************************)
Before == {"out", "for", "starting", "stale", "send"}
Asking == {"sending", "await"}

\* Id i of process u is call c's: it sends under it or waits for it, the mod has
\* parts it sent, or the reply would be its own.
Owns(c, u, i) ==
  \/ mod[u][i].parts[c] # 0
  \/ mod[u][i].awaited = c
  \/ callers[c].pc \in Asking /\ callers[c].utility = u /\ callers[c].id = i

\* An id is one call's, and is so since the process counted up to it.
Owned ==
  \A u \in Ids, i \in Requests :
    /\ \A c, d \in Callers : Owns(c, u, i) /\ Owns(d, u, i) => c = d
    /\ \A c \in Callers : Owns(c, u, i) => i <= utilities[u].sequence
    /\ mod[u][i].running => i <= utilities[u].sequence
    /\ mod[u][i].running => \A c \in Callers : mod[u][i].awaited = c => mod[u][i].parts[c] = Parts

\* What the mod has of a prompt that is being sent.
Underway(c) ==
  /\ callers[c].pc \in Before => callers[c].id = 0 /\ callers[c].sent = 0
  /\ callers[c].pc \in Asking => callers[c].id \in Requests /\ callers[c].id # 0
  /\ callers[c].pc = "sending" =>
       LET m == mod[callers[c].utility][callers[c].id] IN
       callers[c].sent < Parts /\ m.parts[c] = callers[c].sent /\ ~m.running

\* A process counts no further than there are calls that got an id.
Numbered == {c \in Callers : callers[c].id # 0}
Counts == \A u \in Ids : utilities[u].sequence <= Cardinality(Numbered)

\* The types that depend on these numbers.
Prompt == [parts : [Callers -> 0..Parts], running : BOOLEAN, awaited : Callers \cup {0}]
Bounded ==
  /\ \A u \in Ids : utilities[u].version \in 1..Pins
  /\ \A c \in Callers : callers[c].id \in 0..Cardinality(Callers) /\ callers[c].sent \in 0..Parts
  /\ driver.pinned \in 1..Pins
  /\ admitted \subseteq Callers
  /\ mod \in [Ids -> [Requests -> Prompt]]

Asked == Bounded /\ Counts /\ Owned /\ (\A c \in Callers : Underway(c)) /\ AnswersOwnPrompt

\* At the start nothing is collected and no id is taken.
LEMMA AskedInit == Init => Asked
<1> SUFFICES ASSUME Init PROVE Asked
  OBVIOUS
<1>0. Cardinality(Callers) \in Nat
  BY UtilityAssumption, FS_CardinalityType
<1>1. Bounded
  <2>1. mod \in [Ids -> [Requests -> Prompt]]
    BY UtilityAssumption DEF Init, Prompt, NoParts
  <2>2. /\ \A u \in Ids : utilities[u].version = 1
        /\ \A c \in Callers : callers[c].id = 0 /\ callers[c].sent = 0
        /\ driver.pinned = 1 /\ admitted = {}
    BY DEF Init
  <2> QED BY <1>0, <2>1, <2>2, UtilityAssumption DEF Bounded
<1>2. Counts
  <2>1. Numbered = {}
    BY DEF Init, Numbered
  <2>2. Cardinality(Numbered) = 0
    BY <2>1, FS_EmptySet
  <2> QED BY <2>2 DEF Init, Counts
<1>3. Owned
  <2>1. ASSUME NEW u \in Ids, NEW i \in Requests
        PROVE  ~mod[u][i].running /\ \A c \in Callers : ~Owns(c, u, i)
    BY UtilityAssumption DEF Init, Owns, NoParts, Asking
  <2> QED BY <2>1 DEF Owned
<1>4. \A c \in Callers : Underway(c)
  BY DEF Init, Underway, Asking
<1>5. AnswersOwnPrompt
  BY DEF Init, AnswersOwnPrompt
<1> QED BY <1>1, <1>2, <1>3, <1>4, <1>5 DEF Asked

\* A step in which no call sends, waits or leaves off waiting.
Silent ==
  /\ mod' = mod
  /\ \A u \in Ids : utilities'[u].sequence = utilities[u].sequence
  /\ \A c \in Callers :
       /\ callers'[c].id = callers[c].id /\ callers'[c].sent = callers[c].sent
       /\ callers'[c].reply = callers[c].reply
       /\ callers'[c].pc \in Before => callers[c].pc \in Before
       /\ callers'[c].pc \in Asking => callers'[c].pc = callers[c].pc /\ callers'[c].utility = callers[c].utility

\* Such a step changes nothing of what the mod has.
LEMMA SilentKeeps ==
  ASSUME Asked, Silent
  PROVE  Counts' /\ Owned' /\ (\A c \in Callers : Underway(c)') /\ AnswersOwnPrompt'
<1>1. Counts'
  <2>1. Numbered' = Numbered
    BY DEF Silent, Numbered
  <2> QED BY <2>1 DEF Asked, Silent, Counts
<1>2. Owned'
  <2>1. ASSUME NEW c \in Callers, NEW u \in Ids, NEW i \in Requests, Owns(c, u, i)'
        PROVE  Owns(c, u, i)
    BY <2>1 DEF Silent, Owns
  <2> QED BY <2>1 DEF Asked, Silent, Owned
<1>3. ASSUME NEW c \in Callers
      PROVE  Underway(c)'
  BY DEF Asked, Silent, Underway, Asking
<1>4. AnswersOwnPrompt'
  BY DEF Asked, Silent, AnswersOwnPrompt
<1> QED BY <1>1, <1>2, <1>3, <1>4

Apart ==
  \/ \E c \in Callers :
       \/ Admit(c) \/ Busy(c) \/ Leaves(c) \/ EnsureFails(c) \/ StartFails(c)
       \/ UtilityForShared(c) \/ UtilityForNew(c) \/ Starts(c) \/ ClosesStale(c) \/ Release(c)
  \/ \E u \in Ids : TimerFires(u) \/ DropUtility(u) \/ Dies(u)
  \/ Shutdown \/ PinChanges

\* The timer, its callback and the death of a process leave its version and its count.
LEMMA TimersLeave ==
  ASSUME Typed, NEW v \in Ids, TimerFires(v) \/ DropUtility(v) \/ Dies(v), NEW u \in Ids
  PROVE  utilities'[u].sequence = utilities[u].sequence /\ utilities'[u].version = utilities[u].version
<1> USE DEF Typed
<1>1. CASE TimerFires(v)
  BY <1>1 DEF TimerFires, UtilityRecord
<1>2. CASE DropUtility(v)
  <2> DEFINE dropped == [utilities[v] EXCEPT !.isRetired = TRUE, !.dropping = FALSE]
  <2>1. /\ dropped \in UtilityRecord
        /\ dropped.sequence = utilities[v].sequence /\ dropped.version = utilities[v].version
    BY DEF UtilityRecord
  <2>2. utilities' = [utilities EXCEPT ![v] = IF dropped.holds = 0 THEN Closed(dropped, "closed") ELSE dropped]
    BY <1>2 DEF DropUtility
  <2> HIDE DEF dropped
  <2>3. /\ Closed(dropped, "closed").sequence = utilities[v].sequence
        /\ Closed(dropped, "closed").version = utilities[v].version
    BY <2>1 DEF Closed, UtilityRecord
  <2> QED BY <2>1, <2>2, <2>3
<1>3. CASE Dies(v)
  BY <1>3 DEF Dies, UtilityRecord
<1> QED BY <1>1, <1>2, <1>3

\* Every step but those of a completion is such a step.
LEMMA ApartIsSilent ==
  ASSUME IInv, Apart
  PROVE  Silent
<1> USE DEF IInv, Typed
<1> USE DEF Silent, Before, Asking
<1>r. \A r \in UtilityRecord, fate \in Fates :
        Retired(r).sequence = r.sequence /\ Closed(r, fate).sequence = r.sequence
  BY DEF Retired, Closed, UtilityRecord
<1>1. ASSUME NEW c \in Callers,
             Admit(c) \/ Busy(c) \/ Leaves(c) \/ EnsureFails(c) \/ StartFails(c)
      PROVE  Silent
  BY <1>1 DEF Admit, Busy, Leaves, EnsureFails, StartFails, Goes, CallerRecord
<1>2. ASSUME NEW c \in Callers, UtilityForShared(c)
      PROVE  Silent
  BY <1>2 DEF UtilityForShared, CallerRecord, UtilityRecord
<1>3. ASSUME NEW c \in Callers, UtilityForNew(c)
      PROVE  Silent
  <2>1. \A u \in Ids : utilities'[u] = utilities[u] \/ utilities'[u] = Retired(utilities[u])
    BY <1>3 DEF UtilityForNew
  <2> QED BY <1>3, <1>r, <2>1 DEF UtilityForNew, CallerRecord, Fates
<1>4. ASSUME NEW c \in Callers, Starts(c)
      PROVE  Silent
  <2>1. \A u \in Ids : utilities'[u].sequence = utilities[u].sequence
    BY <1>4 DEF Starts, UtilityRecord
  <2> QED BY <1>4, <2>1 DEF Starts, CallerRecord
<1>5. ASSUME NEW c \in Callers, ClosesStale(c)
      PROVE  Silent
  <2>1. \A u \in Ids : utilities'[u] = utilities[u] \/ utilities'[u] = Closed(utilities[u], "closed")
    BY <1>5 DEF ClosesStale
  <2> QED BY <1>5, <1>r, <2>1 DEF ClosesStale, CallerRecord, Fates
<1>6. ASSUME NEW c \in Callers, Release(c)
      PROVE  Silent
  <2>1. \A u \in Ids : utilities'[u].sequence = utilities[u].sequence
    BY <1>6 DEF Release, Closed, UtilityRecord
  <2> QED BY <1>6, <2>1 DEF Release, CallerRecord
<1>7. ASSUME NEW u \in Ids, TimerFires(u) \/ DropUtility(u) \/ Dies(u)
      PROVE  Silent
  BY <1>7, TimersLeave DEF TimerFires, DropUtility, Dies
<1>8. CASE Shutdown
  <2>1. \A u \in Ids : utilities'[u] = utilities[u] \/ utilities'[u] = Closed(utilities[u], "shut")
    BY <1>8 DEF Shutdown
  <2> QED BY <1>8, <1>r, <2>1 DEF Shutdown, Fates
<1>9. CASE PinChanges
  BY <1>9 DEF PinChanges
<1> QED BY <1>1, <1>2, <1>3, <1>4, <1>5, <1>6, <1>7, <1>8, <1>9 DEF Apart

\* The pinned version moves on within the pins, and a process has a pinned one;
\* only a call is admitted.
LEMMA VersionsStep ==
  ASSUME IInv, Bounded, Next
  PROVE  /\ \A u \in Ids : utilities'[u].version \in 1..Pins
         /\ driver'.pinned \in 1..Pins /\ admitted' \subseteq Callers
<1> USE DEF IInv, Typed
<1>r. \A r \in UtilityRecord, fate \in Fates :
        Retired(r).version = r.version /\ Closed(r, fate).version = r.version
  BY DEF Retired, Closed, UtilityRecord
<1>1. driver'.pinned \in 1..Pins
  <2>1. CASE PinChanges
    BY <2>1, UtilityAssumption DEF PinChanges, Bounded, DriverRecord
  <2>2. CASE ~PinChanges
    <3>1. driver'.pinned = driver.pinned
      <4>1. CASE \E c \in Callers : UtilityForNew(c) \/ Starts(c) \/ StartFails(c)
        BY <4>1 DEF UtilityForNew, Starts, StartFails, DriverRecord
      <4>2. CASE Shutdown \/ \E u \in Ids : DropUtility(u)
        BY <4>2 DEF Shutdown, DropUtility, DriverRecord
      <4>3. CASE UNCHANGED driver
        BY <4>3
      <4> QED BY <2>2, <4>1, <4>2, <4>3
              DEF Next, Admit, Busy, Leaves, UtilityForShared, EnsureFails, ClosesStale, Release, TakesParts,
                  SendsPart, SendFails, Returns, TimerFires, Dies, Completes
    <3> QED BY <3>1 DEF Bounded
  <2> QED BY <2>1, <2>2
<1>2. admitted' \subseteq Callers
  BY DEF Bounded, Next, Admit, Busy, Leaves, UtilityForShared, UtilityForNew, EnsureFails, Starts, StartFails,
         ClosesStale, Release, TakesParts, SendsPart, SendFails, Returns, TimerFires, DropUtility, Dies, Completes,
         Shutdown, PinChanges
<1>3. ASSUME NEW u \in Ids
      PROVE  utilities'[u].version \in 1..Pins
  <2>1. utilities'[u].version = utilities[u].version \/ utilities'[u].version = driver.pinned
    <3>1. ASSUME NEW c \in Callers, Moves(c)
          PROVE  utilities'[u].version = utilities[u].version
      <4>1. CASE TakesParts(c)
        BY <4>1 DEF TakesParts, UtilityRecord
      <4>2. CASE SendsPart(c) \/ SendFails(c)
        <5>1. utilities' = utilities \/ utilities' = [utilities EXCEPT ![callers[c].utility].sender = 0]
          BY <4>2 DEF SendsPart, SendFails
        <5> QED BY <5>1 DEF UtilityRecord
      <4> QED BY <3>1, <4>1, <4>2 DEF Moves, Admit, Busy, Leaves, EnsureFails, StartFails, Returns
    <3>2. ASSUME NEW c \in Callers, UtilityForShared(c)
          PROVE  utilities'[u].version = utilities[u].version
      BY <3>2 DEF UtilityForShared, UtilityRecord
    <3>3. ASSUME NEW c \in Callers, UtilityForNew(c)
          PROVE  utilities'[u].version = utilities[u].version
      <4>1. utilities'[u] = utilities[u] \/ utilities'[u] = Retired(utilities[u])
        BY <3>3 DEF UtilityForNew
      <4> QED BY <1>r, <4>1 DEF Fates
    <3>4. ASSUME NEW c \in Callers, Starts(c)
          PROVE  utilities'[u].version = utilities[u].version \/ utilities'[u].version = driver.pinned
      BY <3>4 DEF Starts, UtilityRecord
    <3>5. ASSUME NEW c \in Callers, ClosesStale(c)
          PROVE  utilities'[u].version = utilities[u].version
      <4>1. utilities'[u] = utilities[u] \/ utilities'[u] = Closed(utilities[u], "closed")
        BY <3>5 DEF ClosesStale
      <4> QED BY <1>r, <4>1 DEF Fates
    <3>6. ASSUME NEW c \in Callers, Release(c)
          PROVE  utilities'[u].version = utilities[u].version
      BY <3>6 DEF Release, Closed, UtilityRecord
    <3>7. ASSUME NEW v \in Ids, TimerFires(v) \/ DropUtility(v) \/ Dies(v)
          PROVE  utilities'[u].version = utilities[u].version
      BY <3>7, TimersLeave
    <3>8. CASE Shutdown
      <4>1. utilities'[u] = utilities[u] \/ utilities'[u] = Closed(utilities[u], "shut")
        BY <3>8 DEF Shutdown
      <4> QED BY <1>r, <4>1 DEF Fates
    <3>9. CASE UNCHANGED utilities
      BY <3>9
    <3> QED BY <3>1, <3>2, <3>3, <3>4, <3>5, <3>6, <3>7, <3>8, <3>9 DEF Next, Moves, PinChanges, Completes
  <2> QED BY <2>1 DEF Bounded
<1> QED BY <1>1, <1>2, <1>3

-----------------------------------------------------------------------------
(***************************************************************************)
(* The steps of a completion                                               *)
(***************************************************************************)
\* What the mod collects under one id is one prompt.
LEMMA PromptType ==
  ASSUME NEW m \in Prompt, NEW c \in Callers, NEW n \in 0..Parts, NEW b \in BOOLEAN
  PROVE  [m EXCEPT !.parts = [@ EXCEPT ![c] = n], !.running = b] \in Prompt
BY DEF Prompt

\* A call that takes the mutex for its parts gets an id nobody had: there are
\* fewer calls that have one than there are calls.
LEMMA NewId ==
  ASSUME IInv, Asked, NEW c \in Callers, TakesParts(c)
  PROVE  /\ callers[c].utility \in Ids /\ callers[c].id = 0 /\ callers[c].sent = 0
         /\ utilities[callers[c].utility].sequence + 1 \in Requests
         /\ \A u \in Ids : utilities[u].sequence + 1 <= Cardinality(Numbered \cup {c})
<1> USE DEF IInv, Typed
<1>1. callers[c].pc = "send"
  BY DEF TakesParts
<1>2. callers[c].utility \in Ids
  BY <1>1 DEF Placed, InCall, CallerRecord, Ids
<1>3. callers[c].id = 0 /\ callers[c].sent = 0
  BY <1>1 DEF Asked, Underway, Before
<1>4. c \notin Numbered /\ IsFiniteSet(Numbered) /\ Numbered \cup {c} \subseteq Callers
  BY <1>3, UtilityAssumption, FS_Subset DEF Numbered
<1>5. Cardinality(Numbered \cup {c}) = Cardinality(Numbered) + 1 /\ Cardinality(Numbered) \in Nat
  BY <1>4, FS_AddElement, FS_CardinalityType
<1>6. Cardinality(Numbered \cup {c}) <= Cardinality(Callers) /\ Cardinality(Callers) \in Nat
  BY <1>4, UtilityAssumption, FS_Subset, FS_CardinalityType
<1>7. \A u \in Ids : utilities[u].sequence \in Nat /\ utilities[u].sequence <= Cardinality(Numbered)
  BY DEF Asked, Counts, UtilityRecord
<1>8. \A u \in Ids : utilities[u].sequence + 1 <= Cardinality(Numbered \cup {c})
  BY <1>5, <1>7
<1>9. \A u \in Ids : utilities[u].sequence + 1 \in Requests
  BY <1>5, <1>6, <1>7 DEF Requests
<1> QED BY <1>2, <1>3, <1>8, <1>9

\* What a call that takes the mutex for its parts changes.
LEMMA TakesFields ==
  ASSUME IInv, Asked, NEW c \in Callers, TakesParts(c),
         NEW u, u = callers[c].utility, NEW n, n = utilities[u].sequence + 1
  PROVE  /\ \A v \in Ids : utilities'[v].sequence = IF v = u THEN n ELSE utilities[v].sequence
         /\ \A d \in Callers : d # c => callers'[d] = callers[d]
         /\ callers'[c].pc = "sending" /\ callers'[c].id = n /\ callers'[c].sent = 0
         /\ callers'[c].utility = u /\ callers'[c].reply = callers[c].reply
         /\ \A v \in Ids, j \in Requests : v # u \/ j # n => mod'[v][j] = mod[v][j]
         /\ mod'[u][n] = [mod[u][n] EXCEPT !.awaited = c]
         /\ mod' \in [Ids -> [Requests -> Prompt]]
<1> USE DEF IInv, Typed
<1>1. u \in Ids /\ n \in Requests /\ callers[c].sent = 0
  BY NewId
<1>2. \A v \in Ids : utilities'[v].sequence = IF v = u THEN n ELSE utilities[v].sequence
  <2>1. utilities' = [utilities EXCEPT ![u].sender = c, ![u].sequence = n]
    BY DEF TakesParts
  <2>2. utilities[u] \in UtilityRecord
    BY <1>1
  <2> QED BY <1>1, <2>1, <2>2 DEF UtilityRecord
<1>3. /\ \A d \in Callers : d # c => callers'[d] = callers[d]
      /\ callers'[c].pc = "sending" /\ callers'[c].id = n /\ callers'[c].sent = 0
      /\ callers'[c].utility = u /\ callers'[c].reply = callers[c].reply
  <2>1. callers' = [callers EXCEPT ![c].pc = "sending", ![c].id = n]
    BY DEF TakesParts
  <2> QED BY <1>1, <2>1 DEF CallerRecord
<1>4. mod[u][n] \in Prompt
  BY <1>1 DEF Asked, Bounded
<1>5. mod' = [mod EXCEPT ![u] = [@ EXCEPT ![n] = [mod[u][n] EXCEPT !.awaited = c]]]
  <2>1. mod' = [mod EXCEPT ![u][n].awaited = c]
    BY DEF TakesParts
  <2> QED BY <1>1, <2>1 DEF Asked, Bounded
<1>6. PICK m : m = [mod[u][n] EXCEPT !.awaited = c]
  OBVIOUS
<1>7. m \in Prompt /\ Bounded
  BY <1>4, <1>6 DEF Prompt, Asked
<1>8. mod' = [mod EXCEPT ![u] = [@ EXCEPT ![n] = m]]
  BY <1>5, <1>6
<1>9. /\ mod' \in [Ids -> [Requests -> Prompt]] /\ mod'[u][n] = m
      /\ \A v \in Ids, j \in Requests : v # u \/ j # n => mod'[v][j] = mod[v][j]
  BY <1>1, <1>7, <1>8 DEF Bounded
<1>10. mod'[u][n] = [mod[u][n] EXCEPT !.awaited = c]
  BY <1>6, <1>9, Zenon
<1> QED BY <1>2, <1>3, <1>9, <1>10, Zenon

\* A call gets an id of its own, under which the mod has nothing.
LEMMA TakesStep ==
  ASSUME IInv, Asked, NEW c \in Callers, TakesParts(c)
  PROVE  /\ mod' \in [Ids -> [Requests -> Prompt]]
         /\ Counts' /\ Owned' /\ (\A d \in Callers : Underway(d)') /\ AnswersOwnPrompt'
<1> USE DEF IInv, Typed
<1>0. PICK u, n : u = callers[c].utility /\ n = utilities[u].sequence + 1
  OBVIOUS
<1>1. u \in Ids /\ n \in Requests /\ callers[c].id = 0 /\ callers[c].sent = 0 /\ callers[c].pc = "send"
  BY <1>0, NewId DEF TakesParts
<1>2. /\ \A v \in Ids : utilities'[v].sequence = IF v = u THEN n ELSE utilities[v].sequence
      /\ \A d \in Callers : d # c => callers'[d] = callers[d]
      /\ callers'[c].pc = "sending" /\ callers'[c].id = n /\ callers'[c].sent = 0
      /\ callers'[c].utility = u /\ callers'[c].reply = callers[c].reply
      /\ \A v \in Ids, j \in Requests : v # u \/ j # n => mod'[v][j] = mod[v][j]
      /\ mod'[u][n] = [mod[u][n] EXCEPT !.awaited = c]
      /\ mod' \in [Ids -> [Requests -> Prompt]]
  BY <1>0, TakesFields
<1>3. \A v \in Ids : utilities[v].sequence \in Nat
  BY DEF UtilityRecord
<1>4. mod[u][n] \in Prompt
  BY <1>1 DEF Asked, Bounded
<1>m. /\ mod'[u][n].parts = mod[u][n].parts /\ mod'[u][n].running = mod[u][n].running
      /\ mod'[u][n].awaited = c
  BY <1>2, <1>4 DEF Prompt
<1>5. Counts'
  <2>1. Numbered' = Numbered \cup {c}
    BY <1>1, <1>2 DEF Numbered, Requests
  <2>2. Cardinality(Numbered \cup {c}) \in Nat
    BY UtilityAssumption, FS_Subset, FS_CardinalityType DEF Numbered
  <2>3. ASSUME NEW v \in Ids
        PROVE  utilities'[v].sequence <= Cardinality(Numbered \cup {c})
    <3>1. utilities[v].sequence + 1 <= Cardinality(Numbered \cup {c})
      BY NewId
    <3> QED BY <1>0, <1>2, <1>3, <2>2, <3>1
  <2> QED BY <2>1, <2>3 DEF Counts
<1>6. \A d \in Callers : ~Owns(d, u, n)
  <2>1. ~(n <= utilities[u].sequence)
    BY <1>0, <1>1, <1>3
  <2> QED BY <1>1, <2>1 DEF Asked, Owned
<1>7. ~mod[u][n].running
  <2>1. ~(n <= utilities[u].sequence)
    BY <1>0, <1>1, <1>3
  <2> QED BY <1>1, <2>1 DEF Asked, Owned
<1>8. Owned'
  <2>1. ASSUME NEW v \in Ids, NEW j \in Requests, NEW d \in Callers, Owns(d, v, j)'
        PROVE  Owns(d, v, j) \/ (v = u /\ j = n /\ d = c)
    <3>1. CASE v = u /\ j = n
      <4>1. mod'[v][j].parts = mod[v][j].parts /\ mod'[v][j].awaited = c
        BY <1>m, <3>1
      <4> QED BY <1>2, <2>1, <3>1, <4>1 DEF Owns
    <3>2. CASE ~(v = u /\ j = n)
      BY <1>2, <2>1, <3>2 DEF Owns
    <3> QED BY <3>1, <3>2
  <2>2. ASSUME NEW v \in Ids, NEW j \in Requests
        PROVE  mod'[v][j].running = mod[v][j].running
    <3>1. CASE v = u /\ j = n
      BY <1>m, <3>1
    <3>2. CASE v # u \/ j # n
      BY <1>2, <3>2
    <3> QED BY <3>1, <3>2
  <2>3. ASSUME NEW v \in Ids, NEW j \in Requests, NEW d \in Callers, NEW e \in Callers,
               Owns(d, v, j)', Owns(e, v, j)'
        PROVE  d = e
    BY <1>6, <2>1, <2>3 DEF Asked, Owned
  <2>4. ASSUME NEW v \in Ids, NEW j \in Requests, NEW d \in Callers, Owns(d, v, j)'
        PROVE  j <= utilities'[v].sequence
    <3>1. CASE v = u /\ j = n
      BY <1>0, <1>2, <1>3, <3>1 DEF Requests
    <3>2. CASE ~(v = u /\ j = n)
      <4>1. j <= utilities[v].sequence
        BY <2>1, <2>4, <3>2 DEF Asked, Owned
      <4> QED BY <1>0, <1>2, <1>3, <4>1 DEF Requests
    <3> QED BY <3>1, <3>2
  <2>5. ASSUME NEW v \in Ids, NEW j \in Requests, mod'[v][j].running
        PROVE  /\ j <= utilities'[v].sequence
               /\ \A d \in Callers : mod'[v][j].awaited = d => mod'[v][j].parts[d] = Parts
    <3>1. mod[v][j].running /\ ~(v = u /\ j = n)
      BY <1>7, <2>2, <2>5
    <3>2. j <= utilities[v].sequence /\ mod'[v][j] = mod[v][j]
      BY <1>2, <3>1 DEF Asked, Owned
    <3>3. j <= utilities'[v].sequence
      BY <1>0, <1>2, <1>3, <3>2 DEF Requests
    <3> QED BY <3>1, <3>2, <3>3 DEF Asked, Owned
  <2> QED BY <2>3, <2>4, <2>5 DEF Owned
<1>9. ASSUME NEW d \in Callers
      PROVE  Underway(d)'
  <2>1. CASE d = c
    <3>1. mod'[u][n].parts[c] = 0 /\ ~mod'[u][n].running
      BY <1>m, <1>6, <1>7 DEF Owns
    <3>2. 0 < Parts /\ n # 0
      BY <1>1, UtilityAssumption DEF Requests
    <3> QED BY <1>1, <1>2, <2>1, <3>1, <3>2 DEF Underway, Before, Asking
  <2>2. CASE d # c
    <3>1. Underway(d) /\ callers'[d] = callers[d]
      BY <1>2, <2>2 DEF Asked
    <3>2. ASSUME callers[d].pc = "sending"
          PROVE  mod'[callers[d].utility][callers[d].id] = mod[callers[d].utility][callers[d].id]
      <4>1. callers[d].utility \in Ids /\ callers[d].id \in Requests
        BY <3>1, <3>2 DEF Underway, Asking, Placed, InCall, CallerRecord, Ids
      <4>2. Owns(d, callers[d].utility, callers[d].id)
        BY <3>2 DEF Owns, Asking
      <4> QED BY <1>2, <1>6, <4>1, <4>2
    <3> QED BY <3>1, <3>2 DEF Underway
  <2> QED BY <2>1, <2>2
<1>10. AnswersOwnPrompt'
  BY <1>2 DEF Asked, AnswersOwnPrompt
<1> QED BY <1>2, <1>5, <1>8, <1>9, <1>10

\* What a call that sends a part changes.
LEMMA SendsFields ==
  ASSUME IInv, Asked, NEW c \in Callers, SendsPart(c),
         NEW u, u = callers[c].utility, NEW i, i = callers[c].id
  PROVE  /\ u \in Ids /\ i \in Requests /\ callers[c].sent \in Nat /\ callers[c].sent + 1 \in 0..Parts
         /\ \A v \in Ids : utilities'[v].sequence = utilities[v].sequence
         /\ \A d \in Callers : d # c => callers'[d] = callers[d]
         /\ callers'[c].pc = IF callers[c].sent = Parts - 1 THEN "await" ELSE "sending"
         /\ callers'[c].id = i /\ callers'[c].sent = callers[c].sent + 1
         /\ callers'[c].utility = u /\ callers'[c].reply = callers[c].reply
         /\ \A v \in Ids, j \in Requests : v # u \/ j # i => mod'[v][j] = mod[v][j]
         /\ mod'[u][i].parts = [mod[u][i].parts EXCEPT ![c] = callers[c].sent + 1]
         /\ mod'[u][i].running = (callers[c].sent = Parts - 1) /\ mod'[u][i].awaited = mod[u][i].awaited
         /\ mod' \in [Ids -> [Requests -> Prompt]]
<1> USE DEF IInv, Typed
<1>0. PICK isLast \in BOOLEAN : isLast = (callers[c].sent = Parts - 1)
  OBVIOUS
<1>s. callers[c].pc = "sending"
  BY DEF SendsPart
<1>1. u \in Ids /\ i \in Requests
  BY <1>s DEF Placed, InCall, CallerRecord, Ids, Asked, Underway, Asking
<1>2. callers[c].sent \in Nat /\ callers[c].sent + 1 \in 0..Parts /\ mod[u][i].parts[c] = callers[c].sent
  BY <1>s, UtilityAssumption DEF Asked, Underway, CallerRecord
<1>3. \A v \in Ids : utilities'[v].sequence = utilities[v].sequence
  <2>1. utilities' = utilities \/ utilities' = [utilities EXCEPT ![callers[c].utility].sender = 0]
    BY DEF SendsPart
  <2> QED BY <2>1 DEF UtilityRecord
<1>4. /\ \A d \in Callers : d # c => callers'[d] = callers[d]
      /\ callers'[c].pc = IF callers[c].sent = Parts - 1 THEN "await" ELSE "sending"
      /\ callers'[c].id = i /\ callers'[c].sent = callers[c].sent + 1
      /\ callers'[c].utility = u /\ callers'[c].reply = callers[c].reply
  <2>1. callers' = [callers EXCEPT ![c].sent = @ + 1, ![c].pc = IF callers[c].sent = Parts - 1 THEN "await" ELSE @]
    BY DEF SendsPart
  <2> QED BY <1>s, <2>1 DEF CallerRecord
<1>5. Bounded /\ mod[u][i] \in Prompt
  BY <1>1 DEF Asked, Bounded
<1>6. PICK m : m = [mod[u][i] EXCEPT !.parts = [@ EXCEPT ![c] = callers[c].sent + 1], !.running = isLast]
  OBVIOUS
<1>7. /\ m \in Prompt
      /\ m.parts = [mod[u][i].parts EXCEPT ![c] = callers[c].sent + 1]
      /\ m.running = isLast /\ m.awaited = mod[u][i].awaited
  <2>1. m \in Prompt
    BY <1>0, <1>2, <1>5, <1>6, PromptType
  <2> QED BY <1>5, <1>6, <2>1 DEF Prompt
<1>8. mod' = [mod EXCEPT ![u] = [@ EXCEPT ![i] = m]]
  <2>1. PICK q : q = [mod[u][i] EXCEPT !.parts = [@ EXCEPT ![c] = callers[c].sent + 1]]
    OBVIOUS
  <2>2. PICK w : w = [mod EXCEPT ![u] = [@ EXCEPT ![i] = q]]
    OBVIOUS
  <2>3. w = [mod EXCEPT ![u][i].parts[c] = @ + 1]
    BY <1>1, <1>2, <1>5, <2>1, <2>2 DEF Bounded
  <2>4. mod' = [w EXCEPT ![u][i].running = isLast]
    BY <1>0, <2>3 DEF SendsPart
  <2>5. q \in Prompt
    BY <1>2, <1>5, <2>1 DEF Prompt
  <2>6. w \in [Ids -> [Requests -> Prompt]] /\ w[u][i] = q
    BY <1>1, <1>5, <2>2, <2>5 DEF Bounded
  <2>7. m = [q EXCEPT !.running = isLast]
    BY <1>6, <2>1
  <2> QED BY <1>1, <1>5, <2>2, <2>4, <2>6, <2>7 DEF Bounded
<1>9. /\ mod' \in [Ids -> [Requests -> Prompt]] /\ mod'[u][i] = m
      /\ \A v \in Ids, j \in Requests : v # u \/ j # i => mod'[v][j] = mod[v][j]
  BY <1>1, <1>5, <1>7, <1>8 DEF Bounded
<1>10. /\ mod'[u][i].parts = [mod[u][i].parts EXCEPT ![c] = callers[c].sent + 1]
       /\ mod'[u][i].running = (callers[c].sent = Parts - 1) /\ mod'[u][i].awaited = mod[u][i].awaited
  BY <1>0, <1>7, <1>9, Zenon
<1> QED BY <1>1, <1>2, <1>3, <1>4, <1>9, <1>10, Zenon

\* A part goes to the id of its call, and the last one completes what the mod has.
LEMMA SendsStep ==
  ASSUME IInv, Asked, NEW c \in Callers, SendsPart(c)
  PROVE  /\ mod' \in [Ids -> [Requests -> Prompt]]
         /\ Counts' /\ Owned' /\ (\A d \in Callers : Underway(d)') /\ AnswersOwnPrompt'
         /\ callers[c].sent + 1 \in 0..Parts
<1> USE DEF IInv, Typed
<1>0. PICK u, i : u = callers[c].utility /\ i = callers[c].id
  OBVIOUS
<1>1. /\ u \in Ids /\ i \in Requests /\ callers[c].sent \in Nat /\ callers[c].sent + 1 \in 0..Parts
      /\ \A v \in Ids : utilities'[v].sequence = utilities[v].sequence
      /\ \A d \in Callers : d # c => callers'[d] = callers[d]
      /\ callers'[c].pc = IF callers[c].sent = Parts - 1 THEN "await" ELSE "sending"
      /\ callers'[c].id = i /\ callers'[c].sent = callers[c].sent + 1
      /\ callers'[c].utility = u /\ callers'[c].reply = callers[c].reply
      /\ \A v \in Ids, j \in Requests : v # u \/ j # i => mod'[v][j] = mod[v][j]
      /\ mod'[u][i].parts = [mod[u][i].parts EXCEPT ![c] = callers[c].sent + 1]
      /\ mod'[u][i].running = (callers[c].sent = Parts - 1) /\ mod'[u][i].awaited = mod[u][i].awaited
      /\ mod' \in [Ids -> [Requests -> Prompt]]
  BY <1>0, SendsFields
<1>2. callers[c].pc = "sending" /\ i # 0 /\ ~mod[u][i].running
  BY <1>0 DEF SendsPart, Asked, Underway, Asking
<1>3. Owns(c, u, i) /\ mod[u][i] \in Prompt
  BY <1>0, <1>1, <1>2 DEF Owns, Asking, Asked, Bounded
<1>p. /\ mod'[u][i].parts[c] = callers[c].sent + 1
      /\ \A d \in Callers : d # c => mod'[u][i].parts[d] = mod[u][i].parts[d]
  <2>1. mod[u][i].parts \in [Callers -> 0..Parts]
    BY <1>3 DEF Prompt
  <2> QED BY <1>1, <2>1
<1>4. Counts'
  <2>1. Numbered' = Numbered
    BY <1>0, <1>1 DEF Numbered
  <2> QED BY <1>1, <2>1 DEF Counts, Asked
<1>5. ASSUME NEW v \in Ids, NEW j \in Requests, NEW d \in Callers, Owns(d, v, j)'
      PROVE  Owns(d, v, j)
  <2>1. CASE d = c
    <3>1. CASE v = u /\ j = i
      BY <1>3, <2>1, <3>1
    <3>2. CASE ~(v = u /\ j = i)
      BY <1>1, <1>5, <2>1, <3>2 DEF Owns
    <3> QED BY <3>1, <3>2
  <2>2. CASE d # c
    <3>1. mod'[v][j].parts[d] = mod[v][j].parts[d] /\ mod'[v][j].awaited = mod[v][j].awaited
      <4>1. CASE v = u /\ j = i
        BY <1>1, <1>p, <2>2, <4>1
      <4>2. CASE v # u \/ j # i
        BY <1>1, <4>2
      <4> QED BY <4>1, <4>2
    <3> QED BY <1>1, <1>5, <2>2, <3>1 DEF Owns
  <2> QED BY <2>1, <2>2
<1>6. Owned'
  <2>1. ASSUME NEW v \in Ids, NEW j \in Requests, mod'[v][j].running
        PROVE  /\ j <= utilities'[v].sequence
               /\ \A d \in Callers : mod'[v][j].awaited = d => mod'[v][j].parts[d] = Parts
    <3>1. CASE v = u /\ j = i
      <4>1. j <= utilities'[v].sequence
        BY <1>1, <1>3, <3>1 DEF Asked, Owned
      <4>2. mod'[u][i].parts[c] = Parts
        <5>1. callers[c].sent = Parts - 1
          BY <1>1, <2>1, <3>1
        <5> QED BY <1>1, <1>p, <5>1, UtilityAssumption
      <4>3. ASSUME NEW d \in Callers, mod'[v][j].awaited = d
            PROVE  d = c
        <5>1. Owns(d, u, i)
          BY <1>1, <3>1, <4>3 DEF Owns
        <5> QED BY <1>1, <1>3, <5>1 DEF Asked, Owned
      <4> QED BY <3>1, <4>1, <4>2, <4>3
    <3>2. CASE v # u \/ j # i
      <4>1. mod'[v][j] = mod[v][j]
        BY <1>1, <3>2
      <4> QED BY <1>1, <2>1, <4>1 DEF Asked, Owned
    <3> QED BY <3>1, <3>2
  <2> QED BY <1>1, <1>5, <2>1 DEF Asked, Owned
<1>7. ASSUME NEW d \in Callers
      PROVE  Underway(d)'
  <2>1. CASE d = c
    <3>1. callers[c].sent = Parts - 1 \/ (callers[c].sent + 1 < Parts)
      <4>1. \A k, p \in Nat : k + 1 \in 0..p => k = p - 1 \/ k + 1 < p
        OBVIOUS
      <4>2. callers[c].sent \in Nat /\ Parts \in Nat /\ callers[c].sent + 1 \in 0..Parts
        BY <1>1, UtilityAssumption
      <4> QED BY <4>1, <4>2, Zenon
    <3> QED BY <1>1, <1>2, <1>p, <2>1, <3>1 DEF Underway, Before, Asking
  <2>2. CASE d # c
    <3>1. Underway(d) /\ callers'[d] = callers[d]
      BY <1>1, <2>2 DEF Asked
    <3>2. ASSUME callers[d].pc = "sending"
          PROVE  mod'[callers[d].utility][callers[d].id] = mod[callers[d].utility][callers[d].id]
      <4>1. callers[d].utility \in Ids /\ callers[d].id \in Requests
        BY <3>1, <3>2 DEF Underway, Asking, Placed, InCall, CallerRecord, Ids
      <4>2. Owns(d, callers[d].utility, callers[d].id)
        BY <3>2 DEF Owns, Asking
      <4>3. ~(callers[d].utility = u /\ callers[d].id = i)
        BY <1>1, <1>3, <2>2, <4>2 DEF Asked, Owned
      <4> QED BY <1>1, <4>1, <4>3
    <3> QED BY <3>1, <3>2 DEF Underway
  <2> QED BY <2>1, <2>2
<1>8. AnswersOwnPrompt'
  BY <1>1 DEF Asked, AnswersOwnPrompt
<1> QED BY <1>1, <1>4, <1>6, <1>7, <1>8

\* A call that stops waiting leaves its parts behind, under an id nobody waits for.
LEMMA GivesUpStep ==
  ASSUME IInv, Asked, NEW c \in Callers, SendFails(c) \/ Returns(c)
  PROVE  /\ mod' \in [Ids -> [Requests -> Prompt]]
         /\ Counts' /\ Owned' /\ (\A d \in Callers : Underway(d)') /\ AnswersOwnPrompt'
<1> USE DEF IInv, Typed
<1>0. PICK u, i : u = callers[c].utility /\ i = callers[c].id
  OBVIOUS
<1>1. callers[c].pc \in Asking
  BY DEF SendFails, Returns, Asking
<1>2. u \in Ids /\ i \in Requests
  BY <1>0, <1>1 DEF Placed, InCall, CallerRecord, Ids, Asked, Underway, Asking
<1>3. \A v \in Ids : utilities'[v].sequence = utilities[v].sequence
  <2>1. utilities' = utilities \/ utilities' = [utilities EXCEPT ![callers[c].utility].sender = 0]
    BY DEF SendFails, Returns
  <2> QED BY <2>1 DEF UtilityRecord
<1>4. /\ \A d \in Callers : d # c => callers'[d] = callers[d]
      /\ callers'[c].pc = "release"
      /\ callers'[c].id = i /\ callers'[c].reply = callers[c].reply
  <2>1. callers' = [callers EXCEPT ![c].pc = "release"]
    BY DEF SendFails, Returns, Goes
  <2> QED BY <1>0, <2>1 DEF CallerRecord
<1>5. Bounded /\ mod[u][i] \in Prompt
  BY <1>2 DEF Asked, Bounded
<1>6. PICK m : m = [mod[u][i] EXCEPT !.awaited = 0]
  OBVIOUS
<1>7. m \in Prompt /\ m.parts = mod[u][i].parts /\ m.running = mod[u][i].running /\ m.awaited = 0
  BY <1>5, <1>6 DEF Prompt
<1>8. mod' = [mod EXCEPT ![u] = [@ EXCEPT ![i] = m]]
  <2>1. mod' = [mod EXCEPT ![u][i].awaited = 0]
    BY <1>0 DEF SendFails, Returns
  <2> QED BY <1>2, <1>5, <1>6, <2>1 DEF Bounded
<1>9. /\ mod' \in [Ids -> [Requests -> Prompt]] /\ mod'[u][i] = m
      /\ \A v \in Ids, j \in Requests : v # u \/ j # i => mod'[v][j] = mod[v][j]
  BY <1>2, <1>5, <1>7, <1>8 DEF Bounded
<1>10. ASSUME NEW v \in Ids, NEW j \in Requests
       PROVE  /\ mod'[v][j].parts = mod[v][j].parts /\ mod'[v][j].running = mod[v][j].running
              /\ \A d \in Callers : mod'[v][j].awaited = d => mod[v][j].awaited = d
  <2>1. CASE v = u /\ j = i
    BY <1>7, <1>9, <2>1, UtilityAssumption
  <2>2. CASE v # u \/ j # i
    BY <1>9, <2>2
  <2> QED BY <2>1, <2>2
<1>11. Counts'
  <2>1. Numbered' = Numbered
    BY <1>0, <1>4 DEF Numbered
  <2> QED BY <1>3, <2>1 DEF Counts, Asked
<1>12. ASSUME NEW v \in Ids, NEW j \in Requests, NEW d \in Callers, Owns(d, v, j)'
       PROVE  Owns(d, v, j)
  BY <1>4, <1>10, <1>12 DEF Owns, Asking
<1>13. Owned'
  BY <1>3, <1>10, <1>12 DEF Asked, Owned
<1>14. ASSUME NEW d \in Callers
       PROVE  Underway(d)'
  <2>1. CASE d = c
    BY <1>4, <2>1 DEF Underway, Before, Asking
  <2>2. CASE d # c
    <3>1. Underway(d) /\ callers'[d] = callers[d]
      BY <1>4, <2>2 DEF Asked
    <3>2. ASSUME callers[d].pc = "sending"
          PROVE  callers[d].utility \in Ids /\ callers[d].id \in Requests
      BY <3>1, <3>2 DEF Underway, Asking, Placed, InCall, CallerRecord, Ids
    <3> QED BY <1>10, <3>1, <3>2 DEF Underway
  <2> QED BY <2>1, <2>2
<1>15. AnswersOwnPrompt'
  BY <1>4 DEF Asked, AnswersOwnPrompt
<1> QED BY <1>9, <1>11, <1>13, <1>14, <1>15

\* Whose reply it is: a completion that somebody waits for has his prompt, whole,
\* and nothing else.
LEMMA CompletesStep ==
  ASSUME IInv, Asked, NEW u \in Ids, NEW i \in Requests, Completes(u, i)
  PROVE  /\ mod' \in [Ids -> [Requests -> Prompt]]
         /\ Counts' /\ Owned' /\ (\A d \in Callers : Underway(d)') /\ AnswersOwnPrompt'
<1> USE DEF IInv, Typed
<1>1. Bounded /\ mod[u][i] \in Prompt /\ mod[u][i].running /\ utilities' = utilities
  BY DEF Asked, Bounded, Completes
<1>2. PICK m : m = [mod[u][i] EXCEPT !.running = FALSE, !.parts = NoParts]
  OBVIOUS
<1>3. m \in Prompt /\ m.parts = NoParts /\ m.running = FALSE /\ m.awaited = mod[u][i].awaited
  <2>1. NoParts \in [Callers -> 0..Parts]
    BY UtilityAssumption DEF NoParts
  <2> QED BY <1>1, <1>2, <2>1 DEF Prompt
<1>4. mod' = [mod EXCEPT ![u] = [@ EXCEPT ![i] = m]]
  <2>1. PICK q : q = [mod[u][i] EXCEPT !.running = FALSE]
    OBVIOUS
  <2>2. PICK w : w = [mod EXCEPT ![u] = [@ EXCEPT ![i] = q]]
    OBVIOUS
  <2>3. w = [mod EXCEPT ![u][i].running = FALSE]
    BY <1>1, <2>1, <2>2 DEF Bounded
  <2>4. mod' = [w EXCEPT ![u][i].parts = NoParts]
    BY <2>3 DEF Completes
  <2>5. q \in Prompt
    BY <1>1, <2>1 DEF Prompt
  <2>6. w \in [Ids -> [Requests -> Prompt]] /\ w[u][i] = q
    BY <1>1, <2>2, <2>5 DEF Bounded
  <2>7. m = [q EXCEPT !.parts = NoParts]
    BY <1>2, <2>1
  <2> QED BY <1>1, <2>2, <2>4, <2>6, <2>7 DEF Bounded
<1>5. /\ mod' \in [Ids -> [Requests -> Prompt]] /\ mod'[u][i] = m
      /\ \A v \in Ids, j \in Requests : v # u \/ j # i => mod'[v][j] = mod[v][j]
  BY <1>1, <1>3, <1>4 DEF Bounded
<1>6. \A d \in Callers : /\ callers'[d].pc = callers[d].pc /\ callers'[d].utility = callers[d].utility
                         /\ callers'[d].id = callers[d].id /\ callers'[d].sent = callers[d].sent
  BY DEF Completes, CallerRecord
<1>7. AnswersOwnPrompt'
  <2>1. CASE UNCHANGED callers
    BY <2>1 DEF Asked, AnswersOwnPrompt
  <2>2. CASE ~UNCHANGED callers
    <3>1. PICK c : /\ c = mod[u][i].awaited /\ c # 0
                   /\ callers' = [callers EXCEPT ![c].reply =
                        IF mod[u][i].parts = [NoParts EXCEPT ![c] = Parts] THEN "own" ELSE "other"]
      BY <2>2 DEF Completes
    <3>2. c \in Callers
      BY <1>1, <3>1 DEF Prompt
    <3>3. mod[u][i].parts[c] = Parts
      BY <1>1, <3>1, <3>2 DEF Asked, Owned
    <3>4. ASSUME NEW d \in Callers, d # c
          PROVE  mod[u][i].parts[d] = 0
      <4>1. Owns(c, u, i) /\ ~Owns(d, u, i)
        <5>1. Owns(c, u, i)
          BY <3>1 DEF Owns
        <5> QED BY <3>2, <3>4, <5>1 DEF Asked, Owned
      <4> QED BY <4>1 DEF Owns
    <3>5. mod[u][i].parts = [NoParts EXCEPT ![c] = Parts]
      <4>1. mod[u][i].parts \in [Callers -> 0..Parts]
        BY <1>1 DEF Prompt
      <4> QED BY <3>2, <3>3, <3>4, <4>1 DEF NoParts
    <3>6. callers' = [callers EXCEPT ![c].reply = "own"]
      BY <3>1, <3>5
    <3> QED BY <3>2, <3>6 DEF Asked, AnswersOwnPrompt, CallerRecord
  <2> QED BY <2>1, <2>2
<1>8. Counts'
  <2>1. Numbered' = Numbered
    BY <1>6 DEF Numbered
  <2> QED BY <1>1, <2>1 DEF Counts, Asked
<1>9. ASSUME NEW v \in Ids, NEW j \in Requests, NEW d \in Callers
      PROVE  /\ Owns(d, v, j)' => Owns(d, v, j)
             /\ mod'[v][j].running => mod'[v][j] = mod[v][j]
  <2>1. CASE v = u /\ j = i
    <3>1. mod'[v][j].parts[d] = 0 /\ mod'[v][j].awaited = mod[v][j].awaited /\ ~mod'[v][j].running
      BY <1>3, <1>5, <2>1 DEF NoParts
    <3> QED BY <1>6, <3>1 DEF Owns
  <2>2. CASE v # u \/ j # i
    BY <1>5, <1>6, <2>2 DEF Owns
  <2> QED BY <2>1, <2>2
<1>10. Owned'
  <2>1. ASSUME NEW v \in Ids, NEW j \in Requests, mod'[v][j].running
        PROVE  mod'[v][j] = mod[v][j]
    BY <1>3, <1>5, <2>1
  <2> QED BY <1>1, <1>9, <2>1 DEF Asked, Owned
<1>11. ASSUME NEW d \in Callers
       PROVE  Underway(d)'
  <2>1. Underway(d)
    BY DEF Asked
  <2>2. ASSUME callers[d].pc = "sending"
        PROVE  mod'[callers[d].utility][callers[d].id] = mod[callers[d].utility][callers[d].id]
    <3>1. callers[d].utility \in Ids /\ callers[d].id \in Requests
      BY <2>1, <2>2 DEF Underway, Asking, Placed, InCall, CallerRecord, Ids
    <3>2. ~(callers[d].utility = u /\ callers[d].id = i)
      BY <1>1, <2>1, <2>2 DEF Underway
    <3> QED BY <1>5, <3>1, <3>2
  <2> QED BY <1>6, <2>1, <2>2 DEF Underway
<1> QED BY <1>5, <1>7, <1>8, <1>10, <1>11

\* What the steps of a prompt leave of a call.
LEMMA SentAndIdStay ==
  ASSUME IInv, NEW c \in Callers
  PROVE  /\ \A d \in Callers : SendFails(d) \/ Returns(d) \/ TakesParts(d) => callers'[c].sent = callers[c].sent
         /\ \A d \in Callers : SendFails(d) \/ Returns(d) \/ SendsPart(d) => callers'[c].id = callers[c].id
         /\ \A u \in Ids : \A i \in Requests : Completes(u, i) =>
              callers'[c].sent = callers[c].sent /\ callers'[c].id = callers[c].id
<1>1. callers \in [Callers -> CallerRecord]
  BY DEF IInv, Typed
<1>2. ASSUME NEW d \in Callers, SendFails(d) \/ Returns(d)
      PROVE  callers'[c].sent = callers[c].sent /\ callers'[c].id = callers[c].id
  <2>1. callers' = [callers EXCEPT ![d].pc = "release"]
    BY <1>2 DEF SendFails, Returns, Goes
  <2> QED BY <1>1, <2>1 DEF CallerRecord
<1>3. ASSUME NEW d \in Callers, TakesParts(d)
      PROVE  callers'[c].sent = callers[c].sent
  <2>1. PICK n : callers' = [callers EXCEPT ![d].pc = "sending", ![d].id = n]
    BY <1>3 DEF TakesParts
  <2> QED BY <1>1, <2>1 DEF CallerRecord
<1>4. ASSUME NEW d \in Callers, SendsPart(d)
      PROVE  callers'[c].id = callers[c].id
  <2>1. PICK sent, pc : callers' = [callers EXCEPT ![d].sent = sent, ![d].pc = pc]
    BY <1>4 DEF SendsPart
  <2> QED BY <1>1, <2>1 DEF CallerRecord
<1>5. ASSUME NEW u \in Ids, NEW i \in Requests, Completes(u, i)
      PROVE  callers'[c].sent = callers[c].sent /\ callers'[c].id = callers[c].id
  <2>1. callers' = callers \/ \E d, reply : callers' = [callers EXCEPT ![d].reply = reply]
    BY <1>5 DEF Completes
  <2> QED BY <1>1, <2>1 DEF CallerRecord
<1> QED BY <1>2, <1>3, <1>4, <1>5

\* Every step keeps what is known of prompts and replies.
LEMMA AskedStep ==
  ASSUME IInv, Asked, Next
  PROVE  Asked'
<1>1. /\ \A u \in Ids : utilities'[u].version \in 1..Pins
      /\ driver'.pinned \in 1..Pins /\ admitted' \subseteq Callers
  BY VersionsStep DEF Asked
<1>2. /\ mod' \in [Ids -> [Requests -> Prompt]]
      /\ Counts' /\ Owned' /\ (\A d \in Callers : Underway(d)') /\ AnswersOwnPrompt'
  <2>1. CASE Apart
    <3>1. mod' \in [Ids -> [Requests -> Prompt]]
      BY <2>1, ApartIsSilent DEF Asked, Bounded, Silent
    <3> QED BY <2>1, <3>1, ApartIsSilent, SilentKeeps
  <2>2. CASE \/ \E c \in Callers : TakesParts(c) \/ SendsPart(c) \/ SendFails(c) \/ Returns(c)
             \/ \E u \in Ids : \E i \in Requests : Completes(u, i)
    BY <2>2, TakesStep, SendsStep, GivesUpStep, CompletesStep
  <2> QED BY <2>1, <2>2 DEF Next, Apart
<1>3. ASSUME NEW c \in Callers
      PROVE  callers'[c].sent \in 0..Parts
  <2>1. callers[c].sent \in 0..Parts
    BY DEF Asked, Bounded
  <2>2. CASE Apart
    BY <2>1, <2>2, ApartIsSilent DEF Silent
  <2>3. ASSUME NEW d \in Callers, SendsPart(d)
        PROVE  callers'[c].sent \in 0..Parts
    <3>1. callers[d].sent + 1 \in 0..Parts
      BY <2>3, SendsStep
    <3>2. callers'[c].sent = callers[c].sent \/ callers'[c].sent = callers[d].sent + 1
      BY <2>3 DEF SendsPart, IInv, Typed, CallerRecord
    <3> QED BY <2>1, <3>1, <3>2
  <2>4. ASSUME \/ \E d \in Callers : TakesParts(d) \/ SendFails(d) \/ Returns(d)
               \/ \E u \in Ids : \E i \in Requests : Completes(u, i)
        PROVE  callers'[c].sent = callers[c].sent
    BY <2>4, SentAndIdStay
  <2> QED BY <2>1, <2>2, <2>3, <2>4 DEF Next, Apart
<1>4. ASSUME NEW c \in Callers
      PROVE  callers'[c].id \in 0..Cardinality(Callers)
  <2>1. callers[c].id \in 0..Cardinality(Callers)
    BY DEF Asked, Bounded
  <2>2. CASE Apart
    BY <2>1, <2>2, ApartIsSilent DEF Silent
  <2>3. ASSUME NEW d \in Callers, TakesParts(d)
        PROVE  callers'[c].id \in 0..Cardinality(Callers)
    <3>1. utilities[callers[d].utility].sequence + 1 \in Requests
      BY <2>3, NewId
    <3>2. callers'[c].id = callers[c].id \/ callers'[c].id = utilities[callers[d].utility].sequence + 1
      BY <2>3 DEF TakesParts, IInv, Typed, CallerRecord
    <3> QED BY <2>1, <3>1, <3>2 DEF Requests
  <2>4. ASSUME \/ \E d \in Callers : SendsPart(d) \/ SendFails(d) \/ Returns(d)
               \/ \E u \in Ids : \E i \in Requests : Completes(u, i)
        PROVE  callers'[c].id = callers[c].id
    BY <2>4, SentAndIdStay
  <2> QED BY <2>1, <2>2, <2>3, <2>4 DEF Next, Apart
<1>5. Bounded'
  BY <1>1, <1>2, <1>3, <1>4 DEF Bounded
<1> QED BY <1>2, <1>5 DEF Asked


-----------------------------------------------------------------------------
(***************************************************************************)
(* Theorems                                                                *)
(***************************************************************************)
\* The invariant is inductive.
LEMMA IInvStep == IInv /\ [Next]_vars => IInv'
<1> SUFFICES ASSUME IInv, [Next]_vars PROVE IInv'
  OBVIOUS
<1>1. CASE Next
  <2>1. Typed' /\ Placed'
    BY <1>1, TypedStep, PlacedStep
  <2>2. Pool'
    BY <1>1, QuietSteps, SharedStep, RetireStep, StartStep, StaleStep, ReleaseStep, DropStep, ShutdownStep
       DEF Next, Moves
  <2> QED BY <2>1, <2>2 DEF IInv
<1>2. CASE UNCHANGED vars
  BY <1>2 DEF IInv, Typed, Placed, Pool, Counted, Unborn, Abandoned, NoneHeld, NoneLeftRunning, Holders, vars
<1> QED BY <1>1, <1>2

\* The invariant holds in every state.
LEMMA Invariance == Spec => []IInv
BY InitIInv, IInvStep, PTL DEF Spec

\* What is known of prompts and replies is inductive on top of it.
LEMMA AskedInductive == IInv /\ Asked /\ [Next]_vars => Asked'
<1> SUFFICES ASSUME IInv, Asked, [Next]_vars PROVE Asked'
  OBVIOUS
<1>1. CASE Next
  BY <1>1, AskedStep
<1>2. CASE UNCHANGED vars
  <2>1. Bounded'
    BY <1>2 DEF Asked, Bounded, vars
  <2>2. Silent
    BY <1>2 DEF Silent, vars
  <2> QED BY <2>1, <2>2, SilentKeeps DEF Asked
<1> QED BY <1>1, <1>2

\* It holds in every state.
LEMMA AskedInvariance == Spec => []Asked
BY Invariance, AskedInit, AskedInductive, PTL DEF Spec

\* Every variable keeps its type; a process counts no further than there are calls.
THEOREM TypeCorrect == Spec => []TypeOK
<1>1. ASSUME IInv, Asked
      PROVE  TypeOK
  <2> USE <1>1 DEF IInv, Typed
  <2>1. \A u \in Ids : utilities[u].sequence \in 0..Cardinality(Callers) /\ utilities[u].version \in 1..Pins
    <3>1. Numbered \subseteq Callers
      BY DEF Numbered
    <3>2. Cardinality(Numbered) <= Cardinality(Callers)
      BY <3>1, UtilityAssumption, FS_Subset
    <3>3. Cardinality(Numbered) \in Nat /\ Cardinality(Callers) \in Nat
      BY <3>1, UtilityAssumption, FS_Subset, FS_CardinalityType
    <3> QED BY <3>2, <3>3 DEF Asked, Counts, Bounded, UtilityRecord
  <2>2. \A u \in Ids : utilities[u] \in
          [fate : Fates, holds : Nat, isRetired : BOOLEAN, version : 1..Pins, isArmed : BOOLEAN,
           dropping : BOOLEAN, sequence : 0..Cardinality(Callers), sender : Callers \cup {0}]
    BY <2>1 DEF UtilityRecord
  <2>3. driver \in [utility : 0..MaxStarts, lock : Callers \cup {0}, pinned : 1..Pins, isShut : BOOLEAN]
    BY DEF DriverRecord, Asked, Bounded
  <2>4. \A c \in Callers : callers[c] \in
          [pc : {"out", "for", "starting", "stale", "send", "sending", "await", "release", "leave", "done"},
           utility : 0..MaxStarts, stale : 0..MaxStarts, id : 0..Cardinality(Callers),
           sent : 0..Parts, reply : {"none", "own", "other"}]
    BY DEF Asked, Bounded, CallerRecord, Places
  <2>5. /\ admitted \subseteq Callers
        /\ mod \in [Ids -> [Requests ->
             [parts : [Callers -> 0..Parts], running : BOOLEAN, awaited : Callers \cup {0}]]]
    BY DEF Asked, Bounded, Prompt
  <2> QED BY <2>2, <2>3, <2>4, <2>5 DEF TypeOK
<1> QED BY <1>1, Invariance, AskedInvariance, PTL

\* A call gets the reply to its own prompt and to all of it, whatever the calls
\* that gave up left behind in the process (oneshot.go, bridge.go).
THEOREM OwnPromptAnswered == Spec => []AnswersOwnPrompt
<1>1. Asked => AnswersOwnPrompt
  BY DEF Asked
<1> QED BY <1>1, AskedInvariance, PTL

\* Neither a new pin nor the idle timer nor another call's release closes a
\* process under a call that uses it, for any number of calls (oneshot.go).
THEOREM NotClosedUnderACall == Spec => []NeverClosedUnderACall
<1>1. IInv => NeverClosedUnderACall
  BY DEF IInv, Pool, NoneHeld, Holders, NeverClosedUnderACall, Using
<1> QED BY <1>1, Invariance, PTL

\* Whatever retires a process while calls use it, somebody is left that closes
\* it: its last holder, or the call that replaced it (oneshot.go).
THEOREM NoneForgotten == Spec => []NoneLeftRunning
<1>1. IInv => NoneLeftRunning
  BY DEF IInv, Pool
<1> QED BY <1>1, Invariance, PTL

-----------------------------------------------------------------------------
(***************************************************************************)
(* A conversation that only goes on                                        *)
(***************************************************************************)
Row == [role : {"user", "assistant", "tool"}, key : Nat, text : Nat, directive : BOOLEAN, calls : Seq(Nat \ {0}),
        callId : Nat]
Output == [kind : {"none", "answer", "calls"}, text : Nat, directive : BOOLEAN, calls : Seq(Nat \ {0})]
ConversationRecord ==
  [harness : Harnesses, items : Seq(Row), frame : Nat, made : Nat, output : Output, untouched : BOOLEAN]
RunnerRecord == [isUp : BOOLEAN, frame : Nat, keys : Seq(Nat), pending : Output, dirty : BOOLEAN]

\* A plan is what Reconcile makes it.
RoundShape ==
  /\ round = [phase |-> round.phase, items |-> round.items, frame |-> round.frame, plan |-> round.plan,
              rebuiltOnce |-> round.rebuiltOnce, untouched |-> round.untouched]
  /\ round.phase \in {"idle", "asked", "planned", "running"}
  /\ round.untouched \in BOOLEAN

Shaped == conversation \in ConversationRecord /\ runner \in RunnerRecord /\ RoundShape

\* Platform changes nothing of a conversation while a round runs, and asks for none before its tools have ended.
Settled == Unanswered = {} \/ ~Running
InTurn ==
  /\ round.phase # "idle" =>
       /\ round.items = conversation.items /\ round.frame = conversation.frame
       /\ conversation.output.kind = "none"
       /\ Settled
       /\ round.untouched => /\ conversation.untouched /\ Unanswered = {}
                             /\ \A i \in 1..Len(conversation.items) : conversation.items[i].key # 0
  /\ round.phase = "running" \/ (round.phase = "planned" /\ round.plan.reason = "none") =>
       runner.frame = round.frame
  /\ conversation.untouched /\ conversation.output.kind # "none" => Settled

\* The rows after those the session has taken in: its reply, then what the user wrote ...
Rest == Len(runner.keys) + 1
GoesOnFromAnswer ==
  LET items == conversation.items IN
  /\ items[Rest].calls = <<>> /\ items[Rest].text = runner.pending.text
  /\ \A j \in 1..Len(items) : j > Rest => items[j].role = "user"
\* ... or its calls, results of some of them up to the row at last, and then what the user wrote.
GoesOnFromCalls ==
  LET items == conversation.items IN
  /\ items[Rest].calls = runner.pending.calls
  /\ \E last \in Rest..Len(items) :
       /\ \A j \in 1..Len(items) : j > Rest /\ j <= last =>
            /\ items[j].role = "tool"
            /\ items[j].callId \in ToSet(runner.pending.calls)
       /\ \A i, j \in 1..Len(items) :
            i > Rest /\ i <= last /\ j > Rest /\ j <= last /\ items[i].callId = items[j].callId => i = j
       /\ \A j \in 1..Len(items) : j > last => items[j].role = "user" /\ items[j].callId = 0

\* What a warm session has said is on its way to Platform, or a row, with the key Platform gave it.
Pending ==
  /\ runner.pending.kind \in {"answer", "calls"}
  /\ runner.pending.kind = "answer" => runner.pending.text # 0
  /\ \A i, j \in 1..Len(runner.pending.calls) : runner.pending.calls[i] = runner.pending.calls[j] => i = j
  /\ conversation.output.kind # "none" =>
       conversation.output = runner.pending /\ Len(conversation.items) = Len(runner.keys)
  /\ conversation.output.kind = "none" =>
       /\ Len(conversation.items) >= Rest
       /\ conversation.items[Rest].role = "assistant" /\ conversation.items[Rest].key # 0
       /\ runner.pending.kind = "answer" => GoesOnFromAnswer
       /\ runner.pending.kind = "calls" => GoesOnFromCalls

\* A session that is warm has taken in the first rows of a conversation that only went on.
Follows ==
  /\ runner.frame = conversation.frame
  /\ Len(runner.keys) <= Len(conversation.items)
  /\ \A i \in 1..Len(runner.keys) : runner.keys[i] = conversation.items[i].key
  /\ Pending
Warm == conversation.untouched /\ runner.isUp /\ ~runner.dirty /\ round.phase \in {"idle", "asked"}

GoesOn == Shaped /\ InTurn /\ (Warm => Follows)

-----------------------------------------------------------------------------
LEMMA FromFacts ==
  ASSUME NEW S, NEW rows \in Seq(S), NEW first \in Nat \ {0}, first <= Len(rows) + 1
  PROVE  /\ From(rows, first) \in Seq(S) /\ Len(From(rows, first)) = Len(rows) + 1 - first
         /\ \A i \in 1..Len(rows) + 1 - first : From(rows, first)[i] = rows[first + i - 1]
<1>1. Len(rows) \in Nat /\ \A i \in first..Len(rows) : rows[i] \in S
  BY ElementOfSeq
<1>2. \A m, n \in Nat : n + 1 - m = n - m + 1 /\ (m <= n + 1 /\ ~(m <= n) => n + 1 - m = 0)
  OBVIOUS
<1> QED BY <1>1, <1>2, SubSeqProperties DEF From

\* A set of numbers has a least member, and one that is bounded a greatest.
LEMMA LessThan == \E R : IsWellFoundedOn(R, Nat) /\ \A m, n \in Nat : m < n => <<m, n>> \in R
<1>1. PICK R : R = {pair \in Nat \X Nat : pair[1] < pair[2]}
  OBVIOUS
<1>2. IsWellFoundedOn(R, Nat)
  BY <1>1, NatLessThanWellFounded DEF OpToRel
<1>3. \A m, n \in Nat : m < n => <<m, n>> \in R
  BY <1>1
<1> QED BY <1>2, <1>3

LEMMA Minimal ==
  ASSUME NEW T, NEW R, T \subseteq Nat, T # {}, IsWellFoundedOn(R, Nat)
  PROVE  \E m \in T : \A n \in T : ~(<<n, m>> \in R)
BY WFMin

LEMMA Least ==
  ASSUME NEW T, T \subseteq Nat, T # {}
  PROVE  \E m \in T : \A n \in T : m <= n
<1>1. PICK R : IsWellFoundedOn(R, Nat) /\ \A m, n \in Nat : m < n => <<m, n>> \in R
  BY LessThan
<1>2. \E m \in T : \A n \in T : ~(<<n, m>> \in R)
  BY <1>1, Minimal, Zenon
<1>3. \A m, n \in Nat : ~(n < m) => m <= n
  OBVIOUS
<1>4. \A m, n \in T : ~(<<n, m>> \in R) => m <= n
  <2> SUFFICES ASSUME NEW m \in T, NEW n \in T, ~(<<n, m>> \in R) PROVE m <= n
    OBVIOUS
  <2>1. m \in Nat /\ n \in Nat
    OBVIOUS
  <2> QED BY <1>1, <1>3, <2>1, Zenon
<1> QED BY <1>2, <1>4, Zenon

LEMMA Greatest ==
  ASSUME NEW top \in Nat, NEW S, S \subseteq 0..top, S # {}
  PROVE  \E m \in S : \A n \in S : m >= n
<1>1. PICK T : T = {n \in 0..top : top - n \in S}
  OBVIOUS
<1>2. \A n \in S : n \in 0..top /\ top - n \in 0..top /\ top - (top - n) = n
  <2> SUFFICES ASSUME NEW n \in S PROVE n \in 0..top /\ top - n \in 0..top /\ top - (top - n) = n
    OBVIOUS
  <2>1. n \in 0..top
    OBVIOUS
  <2> QED BY <2>1
<1>3. \A n \in S : top - n \in T
  BY <1>1, <1>2
<1>4. T \subseteq Nat /\ T # {}
  <2>1. PICK n : n \in S
    OBVIOUS
  <2>2. T # {}
    BY <1>3, <2>1
  <2> QED BY <1>1, <2>2
<1>5. PICK m \in T : \A n \in T : m <= n
  BY <1>4, Least
<1>6. m \in 0..top /\ top - m \in S
  BY <1>1
<1>7. \A n \in S : top - m >= n
  BY <1>2, <1>3, <1>5, <1>6
<1> QED BY <1>6, <1>7

LEMMA MaxIs ==
  ASSUME NEW S \in SUBSET Nat, NEW m \in S, \A n \in S : m >= n
  PROVE  Max(S) = m
<1>1. \A n \in S : (\A i \in S : n >= i) => n = m
  OBVIOUS
<1> QED BY <1>1 DEF Max

LEMMA MinIs ==
  ASSUME NEW S \in SUBSET Nat, NEW m \in S, \A n \in S : m <= n
  PROVE  Min(S) = m
<1>1. \A n \in S : (\A i \in S : n =< i) => n = m
  OBVIOUS
<1> QED BY <1>1 DEF Min

\* Two lists of the same things, each without repetition, are as long as each other.
SameThings(f, m, g, n) ==
  /\ \A i, j \in 1..m : f[i] = f[j] => i = j
  /\ \A i, j \in 1..n : g[i] = g[j] => i = j
  /\ \A i \in 1..m : \E j \in 1..n : f[i] = g[j]
  /\ \A j \in 1..n : \E i \in 1..m : f[i] = g[j]
LEMMA SameLength ==
  ASSUME NEW f, NEW m \in Nat, NEW g, NEW n \in Nat, SameThings(f, m, g, n)
  PROVE  m = n
<1> DEFINE S == {f[i] : i \in 1..m}
<1>0. S = {g[j] : j \in 1..n}
  BY DEF SameThings
<1>1. ExistsBijection(1..m, S)
  <2>1. [i \in 1..m |-> f[i]] \in Bijection(1..m, S)
    BY DEF SameThings, Bijection, Injection, Surjection, IsInjective
  <2> QED BY <2>1 DEF ExistsBijection
<1>2. ExistsBijection(1..n, S)
  <2>1. [i \in 1..n |-> g[i]] \in Bijection(1..n, S)
    BY <1>0 DEF SameThings, Bijection, Injection, Surjection, IsInjective
  <2> QED BY <2>1 DEF ExistsBijection
<1> QED BY <1>1, <1>2, FS_CountingElements

\* The last reply or step of a conversation that goes on is the one the session gave.
LEMMA LastStepIs ==
  ASSUME Shaped, Follows, conversation.output.kind = "none"
  PROVE  LastStep = Rest
<1> DEFINE items == conversation.items
           steps == {i \in 1..Len(items) : items[i].role = "assistant"}
<1>1. items \in Seq(Row) /\ Len(items) \in Nat /\ Len(runner.keys) \in Nat
  BY DEF Shaped, ConversationRecord, RunnerRecord
<1>2. Rest \in 1..Len(items) /\ items[Rest].role = "assistant"
  BY <1>1 DEF Follows, Pending, Rest
<1>3. \A i \in 1..Len(items) : i > Rest => items[i].role \in {"user", "tool"}
  <2>1. runner.pending.kind \in {"answer", "calls"}
    BY DEF Follows, Pending
  <2>2. CASE runner.pending.kind = "answer"
    BY <2>2 DEF Follows, Pending, GoesOnFromAnswer
  <2>3. CASE runner.pending.kind = "calls"
    <3>1. PICK last : /\ last \in Rest..Len(items)
                      /\ \A j \in 1..Len(items) : j > Rest /\ j <= last => items[j].role = "tool"
                      /\ \A j \in 1..Len(items) : j > last => items[j].role = "user"
      BY <2>3 DEF Follows, Pending, GoesOnFromCalls
    <3>2. last \in Nat /\ \A j \in 1..Len(items) : j <= last \/ j > last
      BY <1>1, <1>2, <3>1
    <3> QED BY <3>1, <3>2
  <2> QED BY <2>1, <2>2, <2>3
<1>4. \A i \in steps : Rest >= i
  BY <1>1, <1>2, <1>3
<1>5. Rest \in steps /\ steps \in SUBSET Nat
  BY <1>2
<1>6. Max(steps) = Rest
  BY <1>4, <1>5, MaxIs
<1> QED BY <1>5, <1>6 DEF LastStep, SelectLastInSeq

-----------------------------------------------------------------------------
(***************************************************************************)
(* Reconcile accepts what goes on                                          *)
(***************************************************************************)
\* The rows Reconcile has yet to account for.
LEMMA RemainingFacts ==
  ASSUME Shaped, Follows, conversation.output.kind = "none", NEW remaining,
         remaining = From(conversation.items, Len(runner.keys) + 1)
  PROVE  /\ remaining \in Seq(Row) /\ remaining # <<>>
         /\ Len(runner.keys) \in Nat /\ Len(conversation.items) \in Nat
         /\ Len(remaining) = Len(conversation.items) - Len(runner.keys) /\ Len(remaining) >= 1
         /\ \A i \in 1..Len(remaining) : remaining[i] = conversation.items[Len(runner.keys) + i]
         /\ remaining[1] = conversation.items[Rest]
         /\ Tail(remaining) \in Seq(Row) /\ Len(Tail(remaining)) = Len(remaining) - 1
         /\ \A i \in 1..Len(remaining) - 1 : Tail(remaining)[i] = conversation.items[Rest + i]
<1> DEFINE items == conversation.items
           k == Len(runner.keys)
<1>1. items \in Seq(Row) /\ Len(items) \in Nat /\ k \in Nat /\ k + 1 <= Len(items)
  BY DEF Shaped, ConversationRecord, RunnerRecord, Follows, Pending, Rest
<1>sums. \A m, n \in Nat : m + 1 <= n =>
           /\ m + 1 \in Nat \ {0} /\ m + 1 <= n + 1
           /\ n + 1 - (m + 1) = n - m /\ n - m \in Nat /\ n - m >= 1
           /\ \A i \in 1..n - m : m + 1 + i - 1 = m + i /\ m + 1 + i = m + (i + 1)
           /\ \A i \in 1..n - m - 1 : i + 1 \in 1..n - m
  OBVIOUS
<1>at. /\ Len(items) + 1 - (k + 1) = Len(items) - k /\ Len(items) - k \in Nat /\ Len(items) - k >= 1
       /\ \A i \in 1..Len(items) - k : k + 1 + i - 1 = k + i /\ k + 1 + i = k + (i + 1)
       /\ \A i \in 1..Len(items) - k - 1 : i + 1 \in 1..Len(items) - k
  <2> HIDE DEF items, k
  <2> QED BY <1>1, <1>sums
<1>2. remaining \in Seq(Row) /\ Len(remaining) = Len(items) + 1 - (k + 1)
      /\ \A i \in 1..Len(items) + 1 - (k + 1) : remaining[i] = items[k + 1 + i - 1]
  <2>1. k + 1 \in Nat \ {0} /\ k + 1 <= Len(items) + 1
    BY <1>1, <1>sums
  <2> HIDE DEF items, k
  <2> QED BY <1>1, <2>1, FromFacts DEF items, k
<1>3. Len(remaining) = Len(items) - k /\ Len(remaining) \in Nat /\ Len(remaining) >= 1
      /\ \A i \in 1..Len(remaining) : i \in 1..Len(items) + 1 - (k + 1) /\ k + 1 + i - 1 = k + i
  BY <1>2, <1>at
<1>4. \A i \in 1..Len(remaining) : remaining[i] = items[k + i]
  <2> SUFFICES ASSUME NEW i \in 1..Len(remaining) PROVE remaining[i] = items[k + i]
    OBVIOUS
  <2>1. i \in 1..Len(items) + 1 - (k + 1) /\ k + 1 + i - 1 = k + i
    BY <1>3
  <2> QED BY <1>2, <2>1, Zenon
<1>5. remaining # <<>>
  BY <1>2, <1>3, EmptySeq
<1>6. /\ Tail(remaining) \in Seq(Row) /\ Len(Tail(remaining)) = Len(remaining) - 1
      /\ \A i \in 1..Len(Tail(remaining)) : Tail(remaining)[i] = remaining[i + 1]
  BY <1>2, <1>5, HeadTailProperties
<1>7. \A i \in 1..Len(remaining) - 1 : Tail(remaining)[i] = items[Rest + i]
  <2> SUFFICES ASSUME NEW i \in 1..Len(remaining) - 1 PROVE Tail(remaining)[i] = items[Rest + i]
    OBVIOUS
  <2>1. i + 1 \in 1..Len(remaining) /\ k + (i + 1) = Rest + i /\ i \in 1..Len(Tail(remaining))
    <3>1. i + 1 \in 1..Len(remaining) /\ k + 1 + i = k + (i + 1)
      <4>1. i \in 1..Len(items) - k - 1 /\ i \in 1..Len(items) - k
        <5>1. \A l \in Nat : \A j \in 1..l - 1 : j \in 1..l
          OBVIOUS
        <5>2. i \in 1..Len(remaining)
          BY <1>3, <5>1, Zenon
        <5> QED BY <1>3, <5>2, Zenon
      <4> QED BY <1>3, <1>at, <4>1
    <3>2. i \in 1..Len(Tail(remaining))
      BY <1>6
    <3> QED BY <3>1, <3>2, Zenon DEF Rest
  <2>2. Tail(remaining)[i] = remaining[i + 1] /\ remaining[i + 1] = items[k + (i + 1)]
    BY <1>4, <1>6, <2>1
  <2> QED BY <2>1, <2>2
<1>8. remaining[1] = items[Rest]
  <2>1. 1 \in 1..Len(remaining) /\ k + 1 = Rest
    BY <1>1, <1>3 DEF Rest
  <2> QED BY <1>4, <2>1
<1> QED BY <1>1, <1>2, <1>3, <1>4, <1>5, <1>6, <1>7, <1>8

\* An answer, and what the user wrote after it.
LEMMA AnswerAccepted ==
  ASSUME Shaped, Follows, conversation.output.kind = "none", runner.pending.kind = "answer", NEW remaining,
         remaining = From(conversation.items, Len(runner.keys) + 1)
  PROVE  ReconcileAnswer(runner.pending, remaining).reason = "none"
<1>1. remaining # <<>> /\ remaining[1] = conversation.items[Rest]
  BY RemainingFacts
<1>2. /\ remaining[1].role = "assistant" /\ remaining[1].key # 0 /\ remaining[1].calls = <<>>
      /\ SameReply(remaining[1], runner.pending)
  BY <1>1 DEF Follows, Pending, GoesOnFromAnswer, SameReply
<1>3. AllUserItems(Tail(remaining))
  <2> SUFFICES ASSUME NEW i \in DOMAIN Tail(remaining) PROVE Tail(remaining)[i].role = "user"
    BY DEF AllUserItems
  <2>1. i \in 1..Len(remaining) - 1
    BY RemainingFacts
  <2>2. Tail(remaining)[i] = conversation.items[Rest + i] /\ Rest + i \in 1..Len(conversation.items) /\ Rest + i > Rest
    <3>1. Tail(remaining)[i] = conversation.items[Rest + i]
      BY <2>1, RemainingFacts
    <3>2. \A m, n, l \in Nat : l = n - m => \A j \in 1..l - 1 : m + 1 + j \in 1..n /\ m + 1 + j > m + 1
      OBVIOUS
    <3>3. \A j \in 1..Len(remaining) - 1 : Rest + j \in 1..Len(conversation.items) /\ Rest + j > Rest
      <4>1. /\ Len(runner.keys) \in Nat /\ Len(conversation.items) \in Nat /\ Len(remaining) \in Nat
            /\ Len(remaining) = Len(conversation.items) - Len(runner.keys)
        BY RemainingFacts, LenProperties
      <4> QED BY <3>2, <4>1, Zenon DEF Rest
    <3> QED BY <2>1, <3>1, <3>3
  <2> QED BY <2>2 DEF Follows, Pending, GoesOnFromAnswer
<1>4. ReconcileAnswer(runner.pending, remaining)
        = [NoPlan EXCEPT !.accept = <<remaining[1].key>>, !.newInput = Tail(remaining)]
  BY <1>1, <1>2, <1>3, Zenon DEF ReconcileAnswer
<1> QED BY <1>4 DEF NoPlan

\* The results Reconcile takes are those up to the last one Platform has stored.
LEMMA ResultsTaken ==
  ASSUME Shaped, Follows, conversation.output.kind = "none", NEW remaining,
         remaining = From(conversation.items, Len(runner.keys) + 1), NEW count \in 0..Len(remaining) - 1,
         \A j \in 1..Len(remaining) - 1 : conversation.items[Rest + j].role = "tool" <=> j <= count
  PROVE  /\ ResultRun(remaining) \in Seq(Row) /\ Len(ResultRun(remaining)) = count
         /\ \A j \in 1..count : ResultRun(remaining)[j] = conversation.items[Rest + j]
<1> DEFINE t == Tail(remaining)
           others == {i \in 1..Len(t) : t[i].role # "tool"}
<1>1. /\ remaining \in Seq(Row) /\ t \in Seq(Row) /\ Len(t) = Len(remaining) - 1 /\ Len(remaining) \in Nat
      /\ Len(remaining) >= 1 /\ count \in Nat /\ count <= Len(t) /\ Len(t) \in Nat
      /\ \A i \in 1..Len(t) : t[i] = conversation.items[Rest + i]
  BY RemainingFacts
<1>2. others = {i \in 1..Len(t) : ~(i <= count)}
  BY <1>1
<1>3. CASE count = Len(t)
  <2>1. others = {}
    BY <1>1, <1>2, <1>3
  <2>2. ResultRun(remaining) = t
    BY <2>1 DEF ResultRun, SelectInSeq
  <2> QED BY <1>1, <1>3, <2>2
<1>4. CASE count # Len(t)
  <2>1. count + 1 \in others /\ others \in SUBSET Nat /\ \A n \in others : count + 1 <= n
    <3>1. \A c, l \in Nat : c <= l /\ c # l =>
            c + 1 \in 1..l /\ ~(c + 1 <= c) /\ \A n \in 1..l : n \in Nat /\ (~(n <= c) => c + 1 <= n)
      OBVIOUS
    <3> HIDE DEF t
    <3> QED BY <1>1, <1>2, <1>4, <3>1, Zenon
  <2>2. Min(others) = count + 1
    BY <2>1, MinIs
  <2>3. ResultRun(remaining) = SubSeq(remaining, 2, count + 1)
    <3>1. SelectInSeq(Tail(remaining), LAMBDA row : row.role # "tool") = count + 1
      BY <2>1, <2>2 DEF SelectInSeq
    <3>2. count + 1 # 0
      BY <1>1
    <3> QED BY <3>1, <3>2 DEF ResultRun
  <2>4. \A i \in 2..count + 1 : remaining[i] \in Row
    <3>1. \A i \in 2..count + 1 : i \in 1..Len(remaining)
      BY <1>1, <1>4
    <3> QED BY <1>1, <3>1, ElementOfSeq
  <2>5. /\ SubSeq(remaining, 2, count + 1) \in Seq(Row)
        /\ Len(SubSeq(remaining, 2, count + 1)) = IF 2 <= count + 1 THEN count + 1 - 2 + 1 ELSE 0
        /\ \A i \in 1..count + 1 - 2 + 1 : SubSeq(remaining, 2, count + 1)[i] = remaining[2 + i - 1]
    BY <1>1, <2>4, SubSeqProperties
  <2>6. ASSUME NEW j \in 1..count PROVE remaining[2 + j - 1] = t[j] /\ t[j] = conversation.items[Rest + j]
    <3>1. j \in 1..Len(t) /\ 2 + j - 1 = j + 1
      BY <1>1
    <3>2. t[j] = remaining[j + 1]
      BY <1>1, <3>1, HeadTailProperties, RemainingFacts
    <3> QED BY <1>1, <3>1, <3>2
  <2>7. (IF 2 <= count + 1 THEN count + 1 - 2 + 1 ELSE 0) = count /\ count + 1 - 2 + 1 = count
    BY <1>1
  <2> QED BY <2>3, <2>5, <2>6, <2>7
<1> QED BY <1>3, <1>4

\* The calls, all their results in some order, and what the user wrote after them.
LEMMA CallsAccepted ==
  ASSUME Shaped, Follows, conversation.output.kind = "none", runner.pending.kind = "calls", Unanswered = {},
         NEW remaining, remaining = From(conversation.items, Len(runner.keys) + 1)
  PROVE  ReconcileCalls(runner.pending, remaining).reason = "none"
<1>1. PICK items, calls, r, n, m :
        /\ items = conversation.items /\ calls = runner.pending.calls
        /\ r = Rest /\ n = Len(items) /\ m = Len(remaining)
  OBVIOUS
<1>2. /\ items \in Seq(Row) /\ calls \in Seq(Nat \ {0}) /\ Len(calls) \in Nat /\ remaining \in Seq(Row)
      /\ n \in Nat /\ r \in Nat /\ m \in Nat /\ r >= 1 /\ r <= n /\ m = n - r + 1
  <2>1. /\ items \in Seq(Row) /\ calls \in Seq(Nat \ {0}) /\ Len(calls) \in Nat /\ n \in Nat /\ n >= r
    BY <1>1 DEF Shaped, ConversationRecord, RunnerRecord, Output, Follows, Pending
  <2>2. /\ remaining \in Seq(Row) /\ Len(runner.keys) \in Nat /\ r = Len(runner.keys) + 1
        /\ m = n - Len(runner.keys) /\ m \in Nat
    BY <1>1, RemainingFacts, LenProperties DEF Rest
  <2> QED BY <2>1, <2>2
<1>3. /\ remaining # <<>> /\ remaining[1] = items[r] /\ remaining[1].role = "assistant" /\ remaining[1].key # 0
      /\ remaining[1].calls = calls
  BY <1>1, RemainingFacts DEF Follows, Pending, GoesOnFromCalls
<1>4. PICK last : /\ last \in r..n
                  /\ \A j \in 1..n : j > r /\ j <= last => items[j].role = "tool" /\ items[j].callId \in ToSet(calls)
                  /\ \A i, j \in 1..n :
                       i > r /\ i <= last /\ j > r /\ j <= last /\ items[i].callId = items[j].callId => i = j
                  /\ \A j \in 1..n : j > last => items[j].role = "user" /\ items[j].callId = 0
  BY <1>1 DEF Follows, Pending, GoesOnFromCalls
<1>5. PICK count : count = last - r
  OBVIOUS
<1>6. /\ last \in Nat /\ count \in Nat /\ count \in 0..m - 1 /\ last = r + count
      /\ \A j \in 1..m - 1 : r + j \in 1..n /\ r + j > r /\ (j <= count => r + j <= last)
                             /\ (~(j <= count) => r + j > last)
      /\ \A j \in 1..count : j \in 1..m - 1 /\ j <= count
  BY <1>2, <1>4, <1>5
<1>7. ASSUME NEW j \in 1..m - 1 PROVE items[r + j].role = "tool" <=> j <= count
  BY <1>4, <1>6
<1>8. /\ ResultRun(remaining) \in Seq(Row) /\ Len(ResultRun(remaining)) = count
      /\ \A j \in 1..count : ResultRun(remaining)[j] = items[r + j]
  BY <1>1, <1>6, <1>7, ResultsTaken
<1>9. AnswersCalls(ResultRun(remaining), calls)
  <2> DEFINE results == ResultRun(remaining)
             ids == [j \in 1..count |-> results[j].callId]
  <2>1. DOMAIN results = 1..count /\ DOMAIN calls = 1..Len(calls)
    BY <1>2, <1>8, LenProperties
  <2>2. \A j \in 1..count : /\ results[j].callId = items[r + j].callId
                            /\ r + j \in 1..n /\ r + j > r /\ r + j <= last
    BY <1>6, <1>8
  <2>3. {results[j].callId : j \in 1..count} = {calls[i] : i \in 1..Len(calls)}
    <3>1. \A j \in 1..count : results[j].callId \in ToSet(calls)
      BY <1>4, <2>2
    <3>2. ASSUME NEW i \in 1..Len(calls)
          PROVE  \E j \in 1..count : results[j].callId = calls[i]
      <4>1. LastStep = r
        BY <1>1, LastStepIs
      <4>2. calls[i] \in ToSet(items[r].calls)
        BY <1>3, <2>1 DEF ToSet
      <4>3. PICK q \in r + 1..n : items[q].callId = calls[i]
        <5>1. LastStep # 0
          BY <1>2, <4>1
        <5>2. calls[i] \in {conversation.items[q].callId : q \in LastStep + 1..Len(conversation.items)}
          BY <1>1, <4>1, <4>2, <5>1 DEF Unanswered
        <5> QED BY <1>1, <4>1, <5>2
      <4>4. PICK j : j = q - r
        OBVIOUS
      <4>5. j \in 1..m - 1 /\ q = r + j
        BY <1>2, <4>4
      <4>6. calls[i] # 0
        BY <1>2, ElementOfSeq
      <4>7. j <= count
        BY <1>4, <1>6, <4>3, <4>5, <4>6
      <4>8. j \in 1..count
        BY <1>6, <4>5, <4>7
      <4> QED BY <2>2, <4>3, <4>5, <4>8
    <3>3. ToSet(calls) = {calls[i] : i \in 1..Len(calls)}
      BY <2>1 DEF ToSet
    <3> HIDE DEF results
    <3>4. \A i \in 1..Len(calls) : calls[i] \in {results[j].callId : j \in 1..count}
      <4> SUFFICES ASSUME NEW i \in 1..Len(calls) PROVE calls[i] \in {results[j].callId : j \in 1..count}
        OBVIOUS
      <4>1. PICK j \in 1..count : results[j].callId = calls[i]
        BY <3>2
      <4> QED BY <4>1
    <3> QED BY <3>1, <3>3, <3>4
  <2>4. count = Len(calls)
    <3>1. \A i, j \in 1..count : ids[i] = ids[j] => i = j
      <4> SUFFICES ASSUME NEW i \in 1..count, NEW j \in 1..count, ids[i] = ids[j] PROVE i = j
        OBVIOUS
      <4>1. r + i = r + j
        BY <1>4, <2>2
      <4> QED BY <1>2, <1>6, <4>1
    <3>2. \A i, j \in 1..Len(calls) : calls[i] = calls[j] => i = j
      BY <1>1 DEF Follows, Pending
    <3>3. /\ \A j \in 1..count : \E i \in 1..Len(calls) : ids[j] = calls[i]
          /\ \A i \in 1..Len(calls) : \E j \in 1..count : ids[j] = calls[i]
      BY <2>3
    <3>4. count \in Nat /\ Len(calls) \in Nat
      BY <1>2, <1>6
    <3> HIDE DEF ids
    <3>5. SameThings(ids, count, calls, Len(calls))
      BY <3>1, <3>2, <3>3 DEF SameThings
    <3> QED BY <3>4, <3>5, SameLength
  <2> QED BY <1>8, <2>1, <2>3, <2>4 DEF AnswersCalls, ToSet
<1>10. AllUserItems(From(remaining, count + 2))
  <2>1. count + 2 \in Nat \ {0} /\ count + 2 <= Len(remaining) + 1
    BY <1>1, <1>2, <1>6
  <2>2. /\ From(remaining, count + 2) \in Seq(Row) /\ Len(From(remaining, count + 2)) = Len(remaining) + 1 - (count + 2)
        /\ \A i \in 1..Len(remaining) + 1 - (count + 2) : From(remaining, count + 2)[i] = remaining[count + 2 + i - 1]
    BY <1>2, <2>1, FromFacts
  <2>3. ASSUME NEW i \in DOMAIN From(remaining, count + 2)
        PROVE  From(remaining, count + 2)[i].role = "user"
    <3>1. i \in 1..m + 1 - (count + 2)
      BY <1>1, <2>2
    <3>2. PICK j : j = count + i
      OBVIOUS
    <3>3. j \in 1..m - 1 /\ ~(j <= count) /\ count + 2 + i - 1 = j + 1
      BY <1>2, <1>6, <3>1, <3>2
    <3>4. items[r + j].role = "user"
      BY <1>4, <1>6, <3>3
    <3>5. Tail(remaining)[j] = items[r + j] /\ Tail(remaining)[j] = remaining[j + 1]
      BY <1>1, <1>2, <1>3, <3>3, RemainingFacts, HeadTailProperties
    <3> QED BY <1>1, <2>2, <3>1, <3>3, <3>4, <3>5
  <2> QED BY <2>3 DEF AllUserItems
<1>11. ReconcileCalls(runner.pending, remaining)
         = [NoPlan EXCEPT !.accept = <<remaining[1].key>>,
                          !.results = InCallOrder(ResultRun(remaining), calls),
                          !.newInput = From(remaining, Len(ResultRun(remaining)) + 2)]
  BY <1>1, <1>3, <1>8, <1>9, <1>10, Zenon DEF ReconcileCalls
<1> QED BY <1>11 DEF NoPlan

\* A warm session that has taken in the first rows of a conversation that only went on is extended.
LEMMA WarmIsExtended ==
  ASSUME GoesOn, round.phase = "asked", round.untouched, runner.isUp, ~runner.dirty
  PROVE  Reconcile(round.frame, runner, round.items).reason = "none"
<1>1. /\ Shaped /\ Follows /\ conversation.output.kind = "none" /\ Unanswered = {}
      /\ round.items = conversation.items /\ round.frame = conversation.frame
      /\ \A i \in 1..Len(conversation.items) : conversation.items[i].key # 0
  BY DEF GoesOn, Warm, InTurn
<1>2. conversation.items \in Seq(Row) /\ runner.keys \in Seq(Nat)
      /\ Len(conversation.items) \in Nat /\ Len(runner.keys) \in Nat
  BY <1>1 DEF Shaped, ConversationRecord, RunnerRecord
<1>3. Names(runner.keys, round.items)
  <2>1. DOMAIN runner.keys = 1..Len(runner.keys)
    BY <1>2
  <2>2. \A i \in 1..Len(runner.keys) : i \in 1..Len(conversation.items)
    BY <1>1, <1>2 DEF Follows
  <2> QED BY <1>1, <2>1, <2>2 DEF Follows, Names
<1>4. PICK remaining : remaining = From(conversation.items, Len(runner.keys) + 1)
  OBVIOUS
<1>5. CASE runner.pending.kind = "answer"
  <2>1. Reconcile(round.frame, runner, round.items) = ReconcileAnswer(runner.pending, remaining)
    BY <1>1, <1>3, <1>4, <1>5 DEF Reconcile, Follows
  <2> QED BY <1>1, <1>4, <1>5, <2>1, AnswerAccepted
<1>6. CASE runner.pending.kind = "calls"
  <2>1. Reconcile(round.frame, runner, round.items) = ReconcileCalls(runner.pending, remaining)
    BY <1>1, <1>3, <1>4, <1>6 DEF Reconcile, Follows
  <2> QED BY <1>1, <1>4, <1>6, <2>1, CallsAccepted
<1> QED BY <1>1, <1>5, <1>6 DEF Follows, Pending

-----------------------------------------------------------------------------
(***************************************************************************)
(* What Platform does between rounds                                       *)
(***************************************************************************)
LEMMA Changes ==
  ASSUME Shaped, NEW c, c = conversation
  PROVE  c = [harness |-> c.harness, items |-> c.items, frame |-> c.frame, made |-> c.made, output |-> c.output,
              untouched |-> c.untouched]
         /\ c.harness \in Harnesses /\ c.items \in Seq(Row) /\ c.frame \in Nat /\ c.made \in Nat
         /\ c.output \in Output /\ c.untouched \in BOOLEAN
BY DEF Shaped, ConversationRecord

\* Between rounds a change that is more than going on ends all that is said of the conversation.
LEMMA Touched ==
  ASSUME GoesOn, Idle, UNCHANGED <<runner, round>>, conversation' \in ConversationRecord, ~conversation'.untouched
  PROVE  GoesOn'
<1>1. Shaped'
  BY DEF GoesOn, Shaped, RoundShape
<1>2. InTurn'
  BY DEF Idle, InTurn
<1> QED BY <1>1, <1>2 DEF GoesOn, Warm

\* A row at the end.
LEMMA RowFacts ==
  ASSUME Shaped, NEW row \in Row, conversation'.items = Append(conversation.items, row)
  PROVE  /\ conversation'.items \in Seq(Row) /\ Len(conversation.items) \in Nat
         /\ Len(conversation'.items) = Len(conversation.items) + 1
         /\ \A i \in 1..Len(conversation.items) :
              i \in 1..Len(conversation'.items) /\ conversation'.items[i] = conversation.items[i]
         /\ conversation'.items[Len(conversation.items) + 1] = row
         /\ \A i \in 1..Len(conversation'.items) : i \in 1..Len(conversation.items) \/ i = Len(conversation.items) + 1
<1>1. conversation.items \in Seq(Row) /\ Len(conversation.items) \in Nat
  BY DEF Shaped, ConversationRecord
<1>2. \A n \in Nat : /\ \A i \in 1..n : i \in 1..n + 1
                     /\ \A i \in 1..n + 1 : i \in 1..n \/ i = n + 1
  OBVIOUS
<1>3. /\ conversation'.items \in Seq(Row) /\ Len(conversation'.items) = Len(conversation.items) + 1
      /\ \A i \in 1..Len(conversation.items) : conversation'.items[i] = conversation.items[i]
      /\ conversation'.items[Len(conversation.items) + 1] = row
  BY <1>1, AppendProperties
<1> QED BY <1>1, <1>2, <1>3

\* The first rows are still those the session has taken in.
LEMMA TakenFacts ==
  ASSUME Shaped, Follows, NEW row \in Row, conversation'.items = Append(conversation.items, row), runner' = runner
  PROVE  /\ Len(runner'.keys) <= Len(conversation'.items)
         /\ \A i \in 1..Len(runner'.keys) : runner'.keys[i] = conversation'.items[i].key
         /\ Rest' = Rest /\ Rest \in Nat /\ Len(conversation'.items) >= Rest
<1>1. Len(runner.keys) \in Nat /\ Len(conversation.items) \in Nat /\ Len(runner.keys) <= Len(conversation.items)
  BY DEF Shaped, ConversationRecord, RunnerRecord, Follows
<1>2. \A i \in 1..Len(runner.keys) : i \in 1..Len(conversation.items)
  BY <1>1
<1>3. \A i \in 1..Len(runner.keys) : runner.keys[i] = conversation'.items[i].key
  BY <1>2, RowFacts DEF Follows
<1>4. Len(conversation'.items) = Len(conversation.items) + 1
  BY RowFacts
<1> QED BY <1>1, <1>3, <1>4 DEF Rest

\* The user writes on once the tools have ended.
LEMMA UserGoesOn ==
  ASSUME Shaped, Follows, conversation.output.kind = "none", NEW row \in Row, row.role = "user", row.callId = 0,
         conversation'.items = Append(conversation.items, row), runner' = runner,
         conversation'.output = conversation.output, conversation'.frame = conversation.frame
  PROVE  Follows'
<1> DEFINE n == Len(conversation.items)
<1>1. /\ Len(runner'.keys) <= Len(conversation'.items)
      /\ \A i \in 1..Len(runner'.keys) : runner'.keys[i] = conversation'.items[i].key
      /\ Rest' = Rest /\ Rest \in Nat /\ Len(conversation'.items) >= Rest
  BY TakenFacts
<1>2. /\ n \in Nat /\ Len(conversation'.items) = n + 1
      /\ \A i \in 1..n : i \in 1..Len(conversation'.items) /\ conversation'.items[i] = conversation.items[i]
      /\ conversation'.items[n + 1] = row
      /\ \A i \in 1..Len(conversation'.items) : i \in 1..n \/ i = n + 1
  BY RowFacts
<1>3. Rest \in 1..n /\ n >= Rest
  BY <1>1, <1>2 DEF Follows, Pending, Rest
<1>4. runner.pending.kind = "answer" => GoesOnFromAnswer'
  BY <1>1, <1>2, <1>3 DEF Follows, Pending, GoesOnFromAnswer
<1>5. ASSUME runner.pending.kind = "calls" PROVE GoesOnFromCalls'
  <2>1. PICK last : /\ last \in Rest..n
                    /\ \A j \in 1..n : j > Rest /\ j <= last =>
                         conversation.items[j].role = "tool" /\ conversation.items[j].callId \in ToSet(runner.pending.calls)
                    /\ \A i, j \in 1..n : i > Rest /\ i <= last /\ j > Rest /\ j <= last
                         /\ conversation.items[i].callId = conversation.items[j].callId => i = j
                    /\ \A j \in 1..n : j > last => conversation.items[j].role = "user" /\ conversation.items[j].callId = 0
    BY <1>5 DEF Follows, Pending, GoesOnFromCalls
  <2>2. last \in Nat /\ last <= n /\ last \in Rest'..Len(conversation'.items)
    BY <1>1, <1>2, <2>1
  <2>3. \A j \in 1..Len(conversation'.items) : j <= last => j \in 1..n
    BY <1>2, <2>2
  <2>4. conversation'.items[Rest].calls = runner.pending.calls
    BY <1>2, <1>3, <1>5 DEF Follows, Pending, GoesOnFromCalls
  <2>5. \A j \in 1..Len(conversation'.items) : j > last =>
          conversation'.items[j].role = "user" /\ conversation'.items[j].callId = 0
    BY <1>2, <2>1
  <2>6. \A j \in 1..Len(conversation'.items) : j > Rest /\ j <= last =>
          /\ conversation'.items[j].role = "tool"
          /\ conversation'.items[j].callId \in ToSet(runner.pending.calls)
    BY <1>2, <2>1, <2>3
  <2>7. \A i, j \in 1..Len(conversation'.items) : i > Rest /\ i <= last /\ j > Rest /\ j <= last
          /\ conversation'.items[i].callId = conversation'.items[j].callId => i = j
    BY <1>2, <2>1, <2>3
  <2> QED BY <1>1, <2>2, <2>4, <2>5, <2>6, <2>7 DEF GoesOnFromCalls
<1>6. Pending'
  BY <1>1, <1>2, <1>3, <1>4, <1>5 DEF Follows, Pending
<1> QED BY <1>1, <1>6 DEF Follows

\* The reply or the calls of the session become a row.
LEMMA OutputStored ==
  ASSUME Shaped, Follows, conversation.output.kind # "none", NEW row \in Row,
         row.role = "assistant", row.key # 0, row.calls = conversation.output.calls \/ conversation.output.kind = "answer",
         conversation.output.kind = "answer" => row.calls = <<>> /\ row.text = conversation.output.text,
         conversation'.items = Append(conversation.items, row), runner' = runner,
         conversation'.output.kind = "none", conversation'.frame = conversation.frame
  PROVE  Follows'
<1> DEFINE n == Len(conversation.items)
<1>1. /\ Len(runner'.keys) <= Len(conversation'.items)
      /\ \A i \in 1..Len(runner'.keys) : runner'.keys[i] = conversation'.items[i].key
      /\ Rest' = Rest /\ Rest \in Nat /\ Len(conversation'.items) >= Rest
  BY TakenFacts
<1>2. /\ n \in Nat /\ Len(conversation'.items) = n + 1 /\ conversation'.items[n + 1] = row
      /\ n = Len(runner.keys) /\ conversation.output = runner.pending
  BY RowFacts DEF Follows, Pending
<1>3. Rest = n + 1
  BY <1>2 DEF Rest
<1>4. \A j \in 1..Len(conversation'.items) : ~(j > Rest)
  BY <1>2, <1>3
<1>5. runner.pending.kind = "answer" => GoesOnFromAnswer'
  BY <1>1, <1>2, <1>3, <1>4 DEF GoesOnFromAnswer
<1>6. ASSUME runner.pending.kind = "calls" PROVE GoesOnFromCalls'
  <2>1. Rest \in Rest..Len(conversation'.items)
    BY <1>2, <1>3
  <2> QED BY <1>1, <1>2, <1>3, <1>4, <1>6, <2>1 DEF GoesOnFromCalls
<1>7. Pending'
  BY <1>1, <1>2, <1>3, <1>5, <1>6 DEF Follows, Pending
<1> QED BY <1>1, <1>7 DEF Follows

\* A result of one of the calls comes while others may still run.
LEMMA ResultStored ==
  ASSUME Shaped, Follows, conversation.output.kind = "none", NEW callId \in Unanswered, Running,
         ToolResult(callId) \in Row,
         conversation'.items = Append(conversation.items, ToolResult(callId)), runner' = runner,
         conversation'.output = conversation.output, conversation'.frame = conversation.frame
  PROVE  Follows'
<1> DEFINE n == Len(conversation.items)
           row == ToolResult(callId)
<1>1. /\ Len(runner'.keys) <= Len(conversation'.items)
      /\ \A i \in 1..Len(runner'.keys) : runner'.keys[i] = conversation'.items[i].key
      /\ Rest' = Rest /\ Rest \in Nat /\ Len(conversation'.items) >= Rest
  BY TakenFacts
<1>2. /\ n \in Nat /\ Len(conversation'.items) = n + 1
      /\ \A i \in 1..n : i \in 1..Len(conversation'.items) /\ conversation'.items[i] = conversation.items[i]
      /\ conversation'.items[n + 1] = row
      /\ \A i \in 1..Len(conversation'.items) : i \in 1..n \/ i = n + 1
  BY RowFacts
<1>3. Rest \in 1..n /\ n >= Rest
  BY <1>1, <1>2 DEF Follows, Pending, Rest
<1>4. LastStep = Rest /\ Rest # 0
  BY <1>3, LastStepIs
<1>5. /\ callId \in ToSet(conversation.items[Rest].calls)
      /\ \A i \in Rest + 1..n : conversation.items[i].callId # callId
      /\ \A i \in Rest + 1..n : conversation.items[i].role = "tool"
  BY <1>4 DEF Unanswered, Running
<1>6. runner.pending.kind = "calls"
  <2>1. ASSUME runner.pending.kind = "answer" PROVE FALSE
    <3>1. conversation.items[Rest].calls = <<>>
      BY <2>1 DEF Follows, Pending, GoesOnFromAnswer
    <3> QED BY <1>5, <3>1 DEF ToSet
  <2> QED BY <2>1 DEF Follows, Pending
<1>7. PICK last : /\ last \in Rest..n
                  /\ \A j \in 1..n : j > Rest /\ j <= last =>
                       conversation.items[j].role = "tool" /\ conversation.items[j].callId \in ToSet(runner.pending.calls)
                  /\ \A i, j \in 1..n : i > Rest /\ i <= last /\ j > Rest /\ j <= last
                       /\ conversation.items[i].callId = conversation.items[j].callId => i = j
                  /\ \A j \in 1..n : j > last => conversation.items[j].role = "user" /\ conversation.items[j].callId = 0
  BY <1>6 DEF Follows, Pending, GoesOnFromCalls
<1>8. last = n
  <2> SUFFICES ASSUME last # n PROVE FALSE
    OBVIOUS
  <2>1. n \in Rest + 1..n /\ n \in 1..n /\ n > last
    BY <1>1, <1>2, <1>3, <1>7
  <2> QED BY <1>5, <1>7, <2>1
<1>9. row.role = "tool" /\ row.callId = callId
  BY DEF ToolResult
<1>10. conversation'.items[Rest].calls = runner.pending.calls /\ callId \in ToSet(runner.pending.calls)
  BY <1>2, <1>3, <1>5, <1>6 DEF Follows, Pending, GoesOnFromCalls
<1>11. /\ n + 1 \in Rest..Len(conversation'.items)
       /\ \A j \in 1..Len(conversation'.items) : ~(j > n + 1)
       /\ \A j \in 1..n : (j > Rest => j \in Rest + 1..n) /\ j <= last
  BY <1>1, <1>2, <1>3, <1>8
<1>12. \A j \in 1..Len(conversation'.items) : j > Rest =>
         /\ conversation'.items[j].role = "tool"
         /\ conversation'.items[j].callId \in ToSet(runner.pending.calls)
  BY <1>2, <1>7, <1>9, <1>10, <1>11
<1>13. \A i, j \in 1..Len(conversation'.items) :
         i > Rest /\ j > Rest /\ conversation'.items[i].callId = conversation'.items[j].callId => i = j
  BY <1>2, <1>5, <1>7, <1>9, <1>11
<1>14. GoesOnFromCalls'
  BY <1>1, <1>10, <1>11, <1>12, <1>13 DEF GoesOnFromCalls
<1>15. Pending'
  BY <1>1, <1>2, <1>3, <1>6, <1>14 DEF Follows, Pending
<1> QED BY <1>1, <1>15 DEF Follows

-----------------------------------------------------------------------------
\* Between rounds Platform's steps keep the invariant.
LEMMA RowTypes ==
  /\ \A key, text \in Nat : User(key, text) \in Row /\ User(key, text).role = "user" /\ User(key, text).callId = 0
  /\ \A callId \in Nat : ToolResult(callId) \in Row
  /\ NoOutput \in Output /\ NoOutput.kind = "none"
  /\ <<>> \in Seq(Nat \ {0})
BY DEF User, ToolResult, Row, NoOutput, Output

LEMMA KeepsFacts ==
  ASSUME Shaped, NEW items \in Seq(Row), NEW still \in BOOLEAN, Keeps(items, still)
  PROVE  /\ conversation' \in ConversationRecord /\ conversation'.items = items
         /\ conversation'.untouched = (conversation.untouched /\ still)
         /\ conversation'.output = conversation.output /\ conversation'.frame = conversation.frame
<1>1. PICK c : c = conversation
  OBVIOUS
<1>c. c \in ConversationRecord
  BY <1>1 DEF Shaped
<1>2. PICK kept : kept = (c.untouched /\ still)
  OBVIOUS
<1>3. kept \in BOOLEAN /\ c.made + 1 \in Nat
  BY <1>1, <1>2, Changes
<1>4. conversation' = [c EXCEPT !.items = items, !.made = c.made + 1, !.untouched = kept]
  BY <1>1, <1>2 DEF Keeps
<1>5. conversation' = [harness |-> c.harness, items |-> items, frame |-> c.frame, made |-> c.made + 1,
                       output |-> c.output, untouched |-> kept]
  BY <1>4, <1>c DEF ConversationRecord
<1>6. conversation' \in ConversationRecord
  BY <1>1, <1>3, <1>5, Changes DEF ConversationRecord
<1> QED BY <1>1, <1>2, <1>5, <1>6

LEMMA UserWritesKept ==
  ASSUME GoesOn, NEW isNamed \in BOOLEAN, UserWrites(isNamed)
  PROVE  GoesOn'
<1>1. /\ Shaped /\ Idle /\ UNCHANGED <<runner, round>>
      /\ conversation.items \in Seq(Row) /\ conversation.made \in Nat
  BY DEF GoesOn, UserWrites, Shaped, ConversationRecord
<1>2. PICK row, still :
        /\ row = User(IF isNamed THEN conversation.made + 1 ELSE 0, conversation.made + 1)
        /\ still = (conversation.output.kind = "none" /\ Unanswered = {})
  OBVIOUS
<1>3. row \in Row /\ row.role = "user" /\ row.callId = 0 /\ still \in BOOLEAN
  BY <1>1, <1>2, RowTypes
<1>4. Append(conversation.items, row) \in Seq(Row)
  BY <1>1, <1>3
<1>5. Keeps(Append(conversation.items, row), still)
  BY <1>2 DEF UserWrites
<1>6. /\ conversation' \in ConversationRecord /\ conversation'.items = Append(conversation.items, row)
      /\ conversation'.untouched = (conversation.untouched /\ still)
      /\ conversation'.output = conversation.output /\ conversation'.frame = conversation.frame
  BY <1>1, <1>3, <1>4, <1>5, KeepsFacts
<1>7. CASE ~conversation'.untouched
  BY <1>1, <1>6, <1>7, Touched
<1>8. CASE conversation'.untouched
  <2>1. Shaped'
    BY <1>1, <1>6 DEF Shaped, RoundShape
  <2>2. InTurn'
    BY <1>1, <1>2, <1>6, <1>8 DEF Idle, InTurn
  <2>3. Warm' => Follows'
    <3> SUFFICES ASSUME Warm' PROVE Follows'
      OBVIOUS
    <3>1. Warm /\ conversation.output.kind = "none"
      BY <1>1, <1>2, <1>6, <1>8 DEF Warm
    <3> QED BY <1>1, <1>3, <1>6, <3>1, UserGoesOn DEF GoesOn
  <2> QED BY <2>1, <2>2, <2>3 DEF GoesOn
<1> QED BY <1>7, <1>8

\* What Platform changes otherwise.
LEMMA TouchesKept ==
  ASSUME GoesOn, (\E i \in DOMAIN conversation.items : UserEdits(i)) \/ Compacts \/ ChangesFrame \/ LosesOutput
  PROVE  GoesOn'
<1>1. Shaped /\ conversation.items \in Seq(Row) /\ conversation.made + 1 \in Nat /\ Len(conversation.items) \in Nat
  BY DEF GoesOn, Shaped, ConversationRecord
<1>2. ASSUME NEW i \in DOMAIN conversation.items, UserEdits(i)
      PROVE  GoesOn'
  <2>1. PICK row, items : /\ row = User(conversation.made + 1, conversation.made + 1)
                          /\ items = [conversation.items EXCEPT ![i] = row]
    OBVIOUS
  <2>2. row \in Row
    BY <1>1, <2>1, RowTypes
  <2>3. items \in Seq(Row)
    BY <1>1, <2>1, <2>2
  <2>4. Keeps(items, FALSE) /\ Idle /\ UNCHANGED <<runner, round>>
    BY <1>2, <2>1 DEF UserEdits
  <2> QED BY <1>1, <2>3, <2>4, KeepsFacts, Touched
<1>3. ASSUME Compacts
      PROVE  GoesOn'
  <2>1. PICK row, first, items :
          /\ row = User(conversation.made + 1, conversation.made + 1)
          /\ first = SelectLastInSeq(conversation.items, IsAnswer)
          /\ items = <<row>> \o From(conversation.items, first + 1)
    OBVIOUS
  <2>2. row \in Row
    BY <1>1, <2>1, RowTypes
  <2>3. Keeps(items, FALSE) /\ Idle /\ UNCHANGED <<runner, round>> /\ first # 0
    BY <1>3, <2>1 DEF Compacts
  <2>4. first \in 1..Len(conversation.items)
    <3> DEFINE answers == {i \in 1..Len(conversation.items) : IsAnswer(conversation.items[i])}
    <3>1. answers # {} /\ first = Max(answers)
      BY <2>1, <2>3 DEF SelectLastInSeq
    <3>2. answers \subseteq 0..Len(conversation.items)
      BY <1>1
    <3>3. \E m \in answers : \A k \in answers : m >= k
      <4> HIDE DEF answers
      <4> QED BY <1>1, <3>1, <3>2, Greatest
    <3>4. first \in answers
      BY <3>1, <3>3 DEF Max
    <3> QED BY <3>4
  <2>5. From(conversation.items, first + 1) \in Seq(Row)
    BY <1>1, <2>4, FromFacts
  <2>6. items \in Seq(Row)
    BY <2>1, <2>2, <2>5
  <2> QED BY <1>1, <2>3, <2>6, KeepsFacts, Touched
<1>4. ASSUME ChangesFrame \/ LosesOutput
      PROVE  GoesOn'
  <2>1. PICK c : c = conversation
    OBVIOUS
  <2>2. conversation' = [c EXCEPT !.frame = 2, !.untouched = FALSE] \/ conversation' = [c EXCEPT !.output = NoOutput, !.untouched = FALSE]
    BY <1>4, <2>1 DEF ChangesFrame, LosesOutput
  <2>3. c \in ConversationRecord
    BY <1>1, <2>1 DEF Shaped
  <2>4. conversation' \in ConversationRecord /\ conversation'.untouched = FALSE
    <3>1. NoOutput \in Output /\ 2 \in Nat
      BY RowTypes
    <3>2. ASSUME conversation' = [c EXCEPT !.frame = 2, !.untouched = FALSE]
          PROVE  conversation' \in ConversationRecord /\ conversation'.untouched = FALSE
      <4>1. conversation' = [harness |-> c.harness, items |-> c.items, frame |-> 2, made |-> c.made,
                             output |-> c.output, untouched |-> FALSE]
        BY <2>3, <3>2 DEF ConversationRecord
      <4> QED BY <2>3, <3>1, <4>1 DEF ConversationRecord
    <3>3. ASSUME conversation' = [c EXCEPT !.output = NoOutput, !.untouched = FALSE]
          PROVE  conversation' \in ConversationRecord /\ conversation'.untouched = FALSE
      <4>1. conversation' = [harness |-> c.harness, items |-> c.items, frame |-> c.frame, made |-> c.made,
                             output |-> NoOutput, untouched |-> FALSE]
        BY <2>3, <3>3 DEF ConversationRecord
      <4> QED BY <2>3, <3>1, <4>1 DEF ConversationRecord
    <3> QED BY <2>2, <3>2, <3>3
  <2>5. Idle /\ UNCHANGED <<runner, round>>
    BY <1>4 DEF ChangesFrame, LosesOutput
  <2> QED BY <2>4, <2>5, Touched
<1> QED BY <1>2, <1>3, <1>4

\* What a round left for Platform to store becomes a row.
LEMMA RecordStored ==
  ASSUME Shaped, NEW row \in Row, NEW made \in Nat, NEW still \in BOOLEAN,
         conversation' = [conversation EXCEPT !.items = Append(conversation.items, row), !.made = made,
                                              !.output = NoOutput, !.untouched = still]
  PROVE  /\ conversation' \in ConversationRecord
         /\ conversation'.items = Append(conversation.items, row)
         /\ conversation'.untouched = still /\ conversation'.output = NoOutput
         /\ conversation'.frame = conversation.frame
<1>1. PICK c, items : c = conversation /\ items = Append(conversation.items, row)
  OBVIOUS
<1>2. c \in ConversationRecord /\ items \in Seq(Row)
  BY <1>1 DEF Shaped, ConversationRecord
<1>3. conversation' = [c EXCEPT !.items = items, !.made = made, !.output = NoOutput, !.untouched = still]
  BY <1>1
<1>4. conversation' = [harness |-> c.harness, items |-> items, frame |-> c.frame, made |-> made,
                       output |-> NoOutput, untouched |-> still]
  BY <1>2, <1>3 DEF ConversationRecord
<1>5. conversation' \in ConversationRecord
  BY <1>2, <1>4, RowTypes DEF ConversationRecord
<1> QED BY <1>1, <1>4, <1>5

LEMMA StoresAnswerKept ==
  ASSUME GoesOn, NEW isChanged \in BOOLEAN, StoresAnswer(isChanged)
  PROVE  GoesOn'
<1>1. /\ Shaped /\ Idle /\ UNCHANGED <<runner, round>> /\ conversation.output.kind = "answer"
      /\ conversation.items \in Seq(Row) /\ conversation.made \in Nat /\ conversation.made + 1 \in Nat
      /\ conversation.output \in Output /\ conversation.output.text \in Nat /\ conversation.untouched \in BOOLEAN
  BY DEF GoesOn, StoresAnswer, Shaped, ConversationRecord, Output
<1>2. PICK text, row, made, still :
        /\ text = (IF isChanged THEN conversation.made + 1 ELSE conversation.output.text)
        /\ row = Assistant(text, text, FALSE, <<>>)
        /\ made = (IF isChanged THEN conversation.made + 1 ELSE conversation.made)
        /\ still = (conversation.untouched /\ ~isChanged)
  OBVIOUS
<1>3. /\ text \in Nat /\ made \in Nat /\ still \in BOOLEAN
      /\ row \in Row /\ row.role = "assistant" /\ row.key = text /\ row.text = text /\ row.calls = <<>>
  <2>1. text \in Nat /\ made \in Nat /\ still \in BOOLEAN
    BY <1>1, <1>2
  <2>2. PICK calls : calls = <<>> /\ calls \in Seq(Nat \ {0})
    BY RowTypes
  <2>3. row = [role |-> "assistant", key |-> text, text |-> text, directive |-> FALSE, calls |-> calls, callId |-> 0]
    BY <1>2, <2>2 DEF Assistant
  <2>4. row \in Row
    BY <2>1, <2>2, <2>3 DEF Row
  <2> QED BY <2>1, <2>2, <2>3, <2>4
<1>4. conversation' = [conversation EXCEPT !.items = Append(conversation.items, row), !.made = made,
                                           !.output = NoOutput, !.untouched = still]
  BY <1>2 DEF StoresAnswer
<1>5. /\ conversation' \in ConversationRecord
      /\ conversation'.items = Append(conversation.items, row)
      /\ conversation'.untouched = still /\ conversation'.output = NoOutput
      /\ conversation'.frame = conversation.frame
  BY <1>1, <1>3, <1>4, RecordStored
<1>6. CASE ~still
  BY <1>1, <1>5, <1>6, Touched
<1>7. CASE still
  <2>1. Shaped'
    BY <1>1, <1>5 DEF Shaped, RoundShape
  <2>2. InTurn'
    BY <1>1, <1>5, RowTypes DEF Idle, InTurn
  <2>3. Warm' => Follows'
    <3> SUFFICES ASSUME Warm' PROVE Follows'
      OBVIOUS
    <3>1. Warm /\ Follows /\ text = conversation.output.text
      BY <1>1, <1>2, <1>5, <1>7 DEF Warm, GoesOn
    <3>2. text # 0
      BY <1>1, <3>1 DEF Follows, Pending
    <3>3. row.key # 0 /\ row.text = conversation.output.text /\ conversation'.output.kind = "none"
      BY <1>3, <1>5, <3>1, <3>2, RowTypes
    <3> QED BY <1>1, <1>3, <1>5, <3>1, <3>3, OutputStored
  <2> QED BY <2>1, <2>2, <2>3 DEF GoesOn
<1> QED BY <1>6, <1>7

LEMMA StoresCallsKept ==
  ASSUME GoesOn, StoresCalls
  PROVE  GoesOn'
<1>1. /\ Shaped /\ Idle /\ UNCHANGED <<runner, round>> /\ conversation.output.kind = "calls"
      /\ conversation.items \in Seq(Row) /\ conversation.made \in Nat /\ conversation.made + 1 \in Nat
      /\ conversation.made + 1 # 0
      /\ conversation.output.calls \in Seq(Nat \ {0}) /\ conversation.untouched \in BOOLEAN
  BY DEF GoesOn, StoresCalls, Shaped, ConversationRecord, Output
<1>2. PICK row, made, still : /\ row = Assistant(conversation.made + 1, 0, FALSE, conversation.output.calls)
                              /\ made = conversation.made + 1 /\ still = conversation.untouched
  OBVIOUS
<1>3. /\ made \in Nat /\ still \in BOOLEAN
      /\ row \in Row /\ row.role = "assistant" /\ row.key # 0 /\ row.calls = conversation.output.calls
  <2>1. PICK key, calls : key = conversation.made + 1 /\ calls = conversation.output.calls
    OBVIOUS
  <2>2. key \in Nat /\ key # 0 /\ calls \in Seq(Nat \ {0}) /\ 0 \in Nat
    BY <1>1, <2>1
  <2>3. row = Assistant(key, 0, FALSE, calls)
    BY <1>2, <2>1
  <2>4. row \in Row /\ row.role = "assistant" /\ row.key = key /\ row.calls = calls
    <3>1. row = [role |-> "assistant", key |-> key, text |-> 0, directive |-> FALSE, calls |-> calls, callId |-> 0]
      BY <2>3 DEF Assistant
    <3>2. row \in Row
      BY <2>2, <3>1 DEF Row
    <3> QED BY <3>1, <3>2
  <2> QED BY <1>1, <1>2, <2>1, <2>2, <2>4
<1>4. conversation' = [conversation EXCEPT !.items = Append(conversation.items, row), !.made = made,
                                           !.output = NoOutput, !.untouched = still]
  <2>1. PICK c : c = conversation
    OBVIOUS
  <2>2. c \in ConversationRecord
    BY <1>1, <2>1 DEF Shaped
  <2>3. conversation' = [c EXCEPT !.items = Append(c.items, row), !.made = made, !.output = NoOutput]
    BY <1>2, <2>1 DEF StoresCalls
  <2>4. conversation' = [c EXCEPT !.items = Append(c.items, row), !.made = made, !.output = NoOutput,
                                  !.untouched = c.untouched]
    BY <2>2, <2>3 DEF ConversationRecord
  <2> QED BY <1>2, <2>1, <2>4
<1>5. /\ conversation' \in ConversationRecord
      /\ conversation'.items = Append(conversation.items, row)
      /\ conversation'.untouched = conversation.untouched /\ conversation'.output.kind = "none"
      /\ conversation'.frame = conversation.frame
  BY <1>1, <1>2, <1>3, <1>4, RecordStored, RowTypes
<1>6. Shaped' /\ InTurn'
  BY <1>1, <1>5 DEF Shaped, RoundShape, Idle, InTurn
<1>7. Warm' => Follows'
  <2> SUFFICES ASSUME Warm' PROVE Follows'
    OBVIOUS
  <2>1. Follows
    BY <1>1, <1>5 DEF Warm, GoesOn
  <2> QED BY <1>1, <1>3, <1>5, <2>1, OutputStored
<1> QED BY <1>6, <1>7 DEF GoesOn

LEMMA ResultArrivesKept ==
  ASSUME GoesOn, NEW callId \in Nat, ResultArrives(callId)
  PROVE  GoesOn'
<1>1. /\ Shaped /\ Idle /\ UNCHANGED <<runner, round>> /\ callId \in Unanswered /\ Running
      /\ conversation.items \in Seq(Row)
  BY DEF GoesOn, ResultArrives, Shaped, ConversationRecord
<1>2. ToolResult(callId) \in Row
  BY RowTypes
<1>3. /\ conversation' \in ConversationRecord
      /\ conversation'.items = Append(conversation.items, ToolResult(callId))
      /\ conversation'.untouched = conversation.untouched /\ conversation'.output = conversation.output
      /\ conversation'.frame = conversation.frame
  <2>1. PICK c, items : c = conversation /\ items = Append(conversation.items, ToolResult(callId))
    OBVIOUS
  <2>2. c \in ConversationRecord /\ items \in Seq(Row)
    BY <1>1, <1>2, <2>1 DEF Shaped
  <2>3. conversation' = [c EXCEPT !.items = items]
    BY <2>1 DEF ResultArrives
  <2>4. conversation' = [harness |-> c.harness, items |-> items, frame |-> c.frame, made |-> c.made,
                         output |-> c.output, untouched |-> c.untouched]
    BY <2>2, <2>3 DEF ConversationRecord
  <2>5. conversation' \in ConversationRecord
    BY <2>2, <2>4 DEF ConversationRecord
  <2> QED BY <2>1, <2>4, <2>5
<1>4. CASE ~conversation'.untouched
  BY <1>1, <1>3, <1>4, Touched
<1>5. CASE conversation'.untouched
  \* A result comes only after the calls were stored.
  <2>1. conversation.output.kind = "none"
    BY <1>1, <1>3, <1>5 DEF GoesOn, InTurn, Settled
  <2>2. Shaped' /\ InTurn'
    BY <1>1, <1>3, <2>1 DEF Shaped, RoundShape, Idle, InTurn
  <2>3. Warm' => Follows'
    <3> SUFFICES ASSUME Warm' PROVE Follows'
      OBVIOUS
    <3>1. Follows
      BY <1>1, <1>3 DEF Warm, GoesOn
    <3> QED BY <1>1, <1>2, <1>3, <2>1, <3>1, ResultStored
  <2> QED BY <2>2, <2>3 DEF GoesOn
<1> QED BY <1>4, <1>5

LEMMA AsksRoundKept ==
  ASSUME GoesOn, AsksRound
  PROVE  GoesOn'
<1>1. /\ Shaped /\ Idle /\ UNCHANGED <<conversation, runner>> /\ conversation.output.kind = "none" /\ Settled
      /\ conversation.items \in Seq(Row)
  BY DEF GoesOn, AsksRound, Shaped, ConversationRecord, Settled
<1>2. PICK still : still = (/\ conversation.untouched /\ Unanswered = {}
                            /\ \A i \in DOMAIN conversation.items : conversation.items[i].key # 0)
  OBVIOUS
<1>3. still \in BOOLEAN /\ DOMAIN conversation.items = 1..Len(conversation.items)
  BY <1>1, <1>2
<1>4. round' = [phase |-> "asked", items |-> conversation.items, frame |-> conversation.frame, plan |-> NoPlan,
                rebuiltOnce |-> FALSE, untouched |-> still]
  BY <1>2 DEF AsksRound, NoRound
<1>5. Shaped'
  <2>1. RoundShape'
    BY <1>3, <1>4 DEF RoundShape
  <2> QED BY <1>1, <2>1 DEF Shaped
<1>6. Unanswered' = Unanswered /\ Running' = Running
  <2>1. LastStep' = LastStep
    BY <1>1 DEF LastStep, SelectLastInSeq
  <2> QED BY <1>1, <2>1 DEF Unanswered, Running
<1>7. InTurn'
  <2>1. round'.phase = "asked" /\ round'.items = conversation.items /\ round'.frame = conversation.frame
        /\ round'.untouched = still
    BY <1>4
  <2>2. Settled' = Settled
    BY <1>6 DEF Settled
  <2>3. still => /\ conversation.untouched /\ Unanswered = {}
                 /\ \A i \in 1..Len(conversation.items) : conversation.items[i].key # 0
    BY <1>2, <1>3
  <2> QED BY <1>1, <1>6, <2>1, <2>2, <2>3 DEF InTurn
<1>8. Warm' => Follows'
  <2> SUFFICES ASSUME Warm' PROVE Follows'
    OBVIOUS
  <2>1. Warm
    BY <1>1 DEF Warm, Idle
  <2>2. Follows
    BY <2>1 DEF GoesOn
  <2> QED BY <1>1, <2>2 DEF Follows, Pending, Rest, GoesOnFromAnswer, GoesOnFromCalls
<1> QED BY <1>5, <1>7, <1>8 DEF GoesOn

-----------------------------------------------------------------------------
\* The daemon's steps keep it.
LEMMA SameRows ==
  ASSUME conversation'.items = conversation.items
  PROVE  Unanswered' = Unanswered /\ Settled' = Settled
<1>1. LastStep' = LastStep
  BY DEF LastStep, SelectLastInSeq
<1>2. Unanswered' = Unanswered /\ Running' = Running
  BY <1>1 DEF Unanswered, Running
<1> QED BY <1>2 DEF Settled

LEMMA NoRunnerFacts == NoRunner \in RunnerRecord /\ NoRunner.isUp = FALSE
<1>1. NoOutput \in Output /\ 0 \in Nat /\ FALSE \in BOOLEAN
  BY RowTypes
<1>2. <<>> \in Seq(Nat)
  OBVIOUS
<1> QED BY <1>1, <1>2 DEF NoRunner, RunnerRecord

\* A round that is in hand: Platform's side stays, the session is the one it goes on with.
LEMMA HeldInTurn ==
  ASSUME GoesOn, UNCHANGED conversation, runner' \in RunnerRecord, RoundShape', round.phase # "idle",
         round'.phase \in {"planned", "running"}, round'.items = round.items, round'.frame = round.frame,
         round'.untouched = round.untouched,
         round'.phase = "running" \/ round'.plan.reason = "none" => runner'.frame = round'.frame
  PROVE  GoesOn'
<1>1. Shaped'
  BY DEF GoesOn, Shaped
<1>2. Unanswered' = Unanswered /\ Settled' = Settled
  BY SameRows
<1>3. InTurn'
  <2>1. /\ round.items = conversation.items /\ round.frame = conversation.frame
        /\ conversation.output.kind = "none" /\ Settled
        /\ round.untouched => /\ conversation.untouched /\ Unanswered = {}
                              /\ \A i \in 1..Len(conversation.items) : conversation.items[i].key # 0
    BY DEF GoesOn, InTurn
  <2> QED BY <1>2, <2>1 DEF InTurn
<1>4. ~Warm'
  BY DEF Warm
<1> QED BY <1>1, <1>3, <1>4 DEF GoesOn

LEMMA RoundFields ==
  ASSUME NEW q, NEW phase, NEW items, NEW frame, NEW plan, NEW once, NEW untouched,
         q = [phase |-> phase, items |-> items, frame |-> frame, plan |-> plan,
              rebuiltOnce |-> once, untouched |-> untouched]
  PROVE  /\ q.phase = phase /\ q.items = items /\ q.frame = frame /\ q.plan = plan
         /\ q.rebuiltOnce = once /\ q.untouched = untouched
OBVIOUS

LEMMA RoundMoves ==
  ASSUME Shaped, NEW phase \in {"idle", "asked", "planned", "running"}, NEW plan, NEW once,
         round' = [phase |-> phase, items |-> round.items, frame |-> round.frame, plan |-> plan,
                   rebuiltOnce |-> once, untouched |-> round.untouched]
  PROVE  /\ RoundShape' /\ round'.phase = phase /\ round'.plan = plan
         /\ round'.items = round.items /\ round'.frame = round.frame /\ round'.untouched = round.untouched
<1>1. /\ round'.phase = phase /\ round'.plan = plan /\ round'.items = round.items /\ round'.frame = round.frame
      /\ round'.untouched = round.untouched /\ round'.rebuiltOnce = once
  BY RoundFields, Zenon
<1>2. round' = [phase |-> round'.phase, items |-> round'.items, frame |-> round'.frame, plan |-> round'.plan,
                rebuiltOnce |-> round'.rebuiltOnce, untouched |-> round'.untouched]
  BY <1>1, Zenon
<1>3. round'.untouched \in BOOLEAN /\ round'.phase \in {"idle", "asked", "planned", "running"}
  BY <1>1, Zenon DEF Shaped, RoundShape
<1>4. RoundShape'
  BY <1>2, <1>3, Zenon DEF RoundShape
<1> QED BY <1>1, <1>4, Zenon

\* A session is only extended with a frame it has.
LEMMA PlanIsFor ==
  ASSUME NEW frame, NEW warm, NEW items, Reconcile(frame, warm, items).reason = "none"
  PROVE  frame = warm.frame
<1>1. \A reason : Rebuild(reason).reason = reason
  BY DEF Rebuild, NoPlan
<1> QED BY <1>1 DEF Reconcile

LEMMA PlanRoundKept ==
  ASSUME GoesOn, PlanRound
  PROVE  GoesOn'
<1>1. PICK plan, r : /\ plan = (IF runner.dirty THEN Rebuild("dirty") ELSE Reconcile(round.frame, runner, round.items))
                     /\ r = round
  OBVIOUS
<1>2. /\ round.phase = "asked" /\ UNCHANGED conversation
      /\ round' = [round EXCEPT !.phase = "planned", !.plan = plan]
      /\ IF plan.reason = "none" THEN runner' = runner ELSE runner' = NoRunner
  BY <1>1 DEF PlanRound, ReplaceRunner
<1>3. round' = [phase |-> "planned", items |-> round.items, frame |-> round.frame, plan |-> plan,
                rebuiltOnce |-> round.rebuiltOnce, untouched |-> round.untouched]
  <2>1. r = [phase |-> r.phase, items |-> r.items, frame |-> r.frame, plan |-> r.plan,
             rebuiltOnce |-> r.rebuiltOnce, untouched |-> r.untouched]
    BY <1>1 DEF GoesOn, Shaped, RoundShape
  <2>2. round' = [r EXCEPT !.phase = "planned", !.plan = plan]
    BY <1>1, <1>2
  <2>3. round' = [phase |-> "planned", items |-> r.items, frame |-> r.frame, plan |-> plan,
                  rebuiltOnce |-> r.rebuiltOnce, untouched |-> r.untouched]
    BY <2>1, <2>2
  <2> QED BY <1>1, <2>3
<1>4. /\ RoundShape' /\ round'.phase = "planned" /\ round'.plan = plan
      /\ round'.items = round.items /\ round'.frame = round.frame /\ round'.untouched = round.untouched
  BY <1>3, RoundMoves DEF GoesOn
<1>5. runner' \in RunnerRecord
  BY <1>2, NoRunnerFacts DEF GoesOn, Shaped
<1>6. ASSUME plan.reason = "none" PROVE runner'.frame = round'.frame
  <2>1. ~runner.dirty
    <3>1. Rebuild("dirty").reason = "dirty"
      BY DEF Rebuild, NoPlan
    <3> QED BY <1>1, <1>6, <3>1
  <2>2. round.frame = runner.frame
    BY <1>1, <1>6, <2>1, PlanIsFor
  <2> QED BY <1>2, <1>4, <1>6, <2>2
<1> QED BY <1>2, <1>4, <1>5, <1>6, HeldInTurn

LEMMA ExtendsKept ==
  ASSUME GoesOn, Extends
  PROVE  GoesOn'
<1>1. PICK r : r = round
  OBVIOUS
<1>2. r = [phase |-> r.phase, items |-> r.items, frame |-> r.frame, plan |-> r.plan,
           rebuiltOnce |-> r.rebuiltOnce, untouched |-> r.untouched]
  BY <1>1 DEF GoesOn, Shaped, RoundShape
<1>3. round' = [r EXCEPT !.phase = "running"] /\ round.phase = "planned" /\ round.plan.reason = "none"
      /\ UNCHANGED <<conversation, runner>>
  BY <1>1 DEF Extends
<1>4. round' = [phase |-> "running", items |-> r.items, frame |-> r.frame, plan |-> r.plan,
                rebuiltOnce |-> r.rebuiltOnce, untouched |-> r.untouched]
  BY <1>2, <1>3
<1>5. /\ RoundShape' /\ round'.phase = "running"
      /\ round'.items = round.items /\ round'.frame = round.frame /\ round'.untouched = round.untouched
  BY <1>1, <1>4, RoundMoves DEF GoesOn
<1>6. runner' \in RunnerRecord /\ runner'.frame = round'.frame
  BY <1>3, <1>5 DEF GoesOn, Shaped, InTurn
<1> QED BY <1>3, <1>5, <1>6, HeldInTurn

LEMMA RebuildsKept ==
  ASSUME GoesOn, Rebuilds
  PROVE  GoesOn'
<1>1. PICK r : r = round
  OBVIOUS
<1>2. r = [phase |-> r.phase, items |-> r.items, frame |-> r.frame, plan |-> r.plan,
           rebuiltOnce |-> r.rebuiltOnce, untouched |-> r.untouched]
  BY <1>1 DEF GoesOn, Shaped, RoundShape
<1>3. /\ round' = [r EXCEPT !.phase = "running"] /\ round.phase = "planned" /\ UNCHANGED conversation
      /\ runner' = [NoRunner EXCEPT !.isUp = TRUE, !.frame = r.frame]
  BY <1>1 DEF Rebuilds
<1>4. round' = [phase |-> "running", items |-> r.items, frame |-> r.frame, plan |-> r.plan,
                rebuiltOnce |-> r.rebuiltOnce, untouched |-> r.untouched]
  BY <1>2, <1>3
<1>5. /\ RoundShape' /\ round'.phase = "running"
      /\ round'.items = round.items /\ round'.frame = round.frame /\ round'.untouched = round.untouched
  BY <1>1, <1>4, RoundMoves DEF GoesOn
<1>6. r.frame \in Nat
  BY <1>1, <1>3 DEF GoesOn, Shaped, InTurn, ConversationRecord
<1>7. runner' = [isUp |-> TRUE, frame |-> r.frame, keys |-> <<>>, pending |-> NoOutput, dirty |-> FALSE]
  BY <1>3 DEF NoRunner
<1>8. runner' \in RunnerRecord /\ runner'.frame = round'.frame
  <2>1. <<>> \in Seq(Nat)
    OBVIOUS
  <2> QED BY <1>1, <1>5, <1>6, <1>7, <2>1, RowTypes DEF RunnerRecord
<1> QED BY <1>3, <1>5, <1>8, HeldInTurn

LEMMA RebuildsOnceKept ==
  ASSUME GoesOn, RebuildsOnce
  PROVE  GoesOn'
<1>1. PICK r, plan : r = round /\ plan = Rebuild("context_full")
  OBVIOUS
<1>2. r = [phase |-> r.phase, items |-> r.items, frame |-> r.frame, plan |-> r.plan,
           rebuiltOnce |-> r.rebuiltOnce, untouched |-> r.untouched]
  BY <1>1 DEF GoesOn, Shaped, RoundShape
<1>3. /\ round' = [r EXCEPT !.phase = "planned", !.plan = plan, !.rebuiltOnce = TRUE]
      /\ round.phase = "running" /\ UNCHANGED conversation /\ runner' = NoRunner
  BY <1>1 DEF RebuildsOnce, ReplaceRunner
<1>4. round' = [phase |-> "planned", items |-> r.items, frame |-> r.frame, plan |-> plan,
                rebuiltOnce |-> TRUE, untouched |-> r.untouched]
  BY <1>2, <1>3
<1>5. /\ RoundShape' /\ round'.phase = "planned" /\ round'.plan = plan
      /\ round'.items = round.items /\ round'.frame = round.frame /\ round'.untouched = round.untouched
  BY <1>1, <1>4, RoundMoves DEF GoesOn
<1>6. plan.reason # "none"
  BY <1>1 DEF Rebuild, NoPlan
<1> QED BY <1>3, <1>5, <1>6, NoRunnerFacts, HeldInTurn

\* A round that ends with nothing for Platform to store, its session dirty or gone.
LEMMA RoundEnds ==
  ASSUME GoesOn, conversation'.items = conversation.items, conversation' \in ConversationRecord,
         runner' \in RunnerRecord, ~(runner'.isUp /\ ~runner'.dirty), round'.phase = "idle", RoundShape',
         conversation'.untouched /\ conversation'.output.kind # "none" => Settled
  PROVE  GoesOn'
<1>1. Shaped' /\ Settled' = Settled
  BY SameRows DEF Shaped
<1>2. InTurn'
  BY <1>1 DEF InTurn
<1> QED BY <1>1, <1>2 DEF GoesOn, Warm

LEMMA NoRoundFacts == ASSUME round' = NoRound PROVE RoundShape' /\ round'.phase = "idle"
<1>1. round' = [phase |-> "idle", items |-> <<>>, frame |-> 0, plan |-> NoPlan, rebuiltOnce |-> FALSE,
                untouched |-> FALSE]
  BY DEF NoRound
<1> QED BY <1>1 DEF RoundShape

LEMMA FailRoundKept ==
  ASSUME GoesOn, FailRound
  PROVE  GoesOn'
<1>1. /\ UNCHANGED conversation /\ RoundShape' /\ round'.phase = "idle"
      /\ conversation' \in ConversationRecord /\ conversation.output.kind = "none"
  BY NoRoundFacts DEF GoesOn, Shaped, FailRound, InTurn
<1>2. runner' \in RunnerRecord /\ ~(runner'.isUp /\ ~runner'.dirty)
  <2>1. CASE runner' = [runner EXCEPT !.dirty = TRUE]
    <3>1. PICK w : w = runner
      OBVIOUS
    <3>2. w \in RunnerRecord
      BY <3>1 DEF GoesOn, Shaped
    <3>3. runner' = [isUp |-> w.isUp, frame |-> w.frame, keys |-> w.keys, pending |-> w.pending, dirty |-> TRUE]
      BY <2>1, <3>1, <3>2 DEF RunnerRecord
    <3> QED BY <3>2, <3>3 DEF RunnerRecord
  <2>2. CASE runner' = NoRunner
    BY <2>2, NoRunnerFacts
  <2> QED BY <2>1, <2>2 DEF FailRound, ReplaceRunner
<1> QED BY <1>1, <1>2, RoundEnds

LEMMA DropRunnerKept ==
  ASSUME GoesOn, DropRunner
  PROVE  GoesOn'
<1>1. UNCHANGED <<conversation, round>> /\ runner' = NoRunner /\ round.phase = "idle"
  BY DEF DropRunner, ReplaceRunner, Idle
<1>2. conversation' \in ConversationRecord /\ RoundShape'
  BY <1>1 DEF GoesOn, Shaped, RoundShape
<1>3. conversation'.untouched /\ conversation'.output.kind # "none" => Settled
  BY <1>1 DEF GoesOn, InTurn
<1> QED BY <1>1, <1>2, <1>3, NoRunnerFacts, RoundEnds

\* A session that has ended its round has taken in every row, and Platform has yet to store what it said.
LEMMA FinishFacts ==
  ASSUME GoesOn, NEW output \in Output, FinishRound(output)
  PROVE  /\ conversation' \in ConversationRecord /\ conversation'.items = conversation.items
         /\ conversation'.output = output /\ conversation'.frame = conversation.frame
         /\ runner' \in RunnerRecord /\ runner'.frame = conversation.frame /\ runner'.pending = output
         /\ (output.kind = "none" => runner'.dirty)
         /\ runner'.keys = [i \in 1..Len(conversation.items) |-> conversation.items[i].key]
         /\ RoundShape' /\ round'.phase = "idle" /\ Settled
<1>1. PICK c, w, keys, made : /\ c = conversation /\ w = runner
                              /\ keys = [i \in DOMAIN round.items |-> round.items[i].key]
                              /\ made = conversation.made + Len(output.calls) + (IF output.text # 0 THEN 1 ELSE 0)
  OBVIOUS
<1>2. PICK ends : ends = (output.kind = "none")
  OBVIOUS
<1>3. /\ c \in ConversationRecord /\ w \in RunnerRecord /\ c.items \in Seq(Row)
      /\ round.phase = "running" /\ round.items = c.items /\ w.frame = c.frame /\ Settled
  BY <1>1 DEF GoesOn, Shaped, InTurn, FinishRound, ConversationRecord
<1>4. keys = [i \in 1..Len(c.items) |-> c.items[i].key]
  BY <1>1, <1>3
<1>5. keys \in Seq(Nat)
  <2>1. \A i \in 1..Len(c.items) : c.items[i].key \in Nat
    <3>1. \A i \in 1..Len(c.items) : c.items[i] \in Row
      BY <1>3
    <3>2. \A row \in Row : row.key \in Nat
      BY DEF Row
    <3> QED BY <3>1, <3>2, Zenon
  <2> QED BY <1>3, <1>4, <2>1
<1>6. made \in Nat
  <2>1. Len(output.calls) \in Nat /\ c.made \in Nat
    BY <1>3 DEF Output, ConversationRecord
  <2> QED BY <1>1, <2>1
<1>7. /\ runner' = [w EXCEPT !.keys = keys, !.pending = output, !.dirty = ends]
      /\ conversation' = [c EXCEPT !.output = output, !.made = made, !.untouched = ~ends]
      /\ round' = NoRound
  BY <1>1, <1>2 DEF FinishRound
<1>8. runner' = [isUp |-> w.isUp, frame |-> w.frame, keys |-> keys, pending |-> output, dirty |-> ends]
  BY <1>3, <1>7 DEF RunnerRecord
<1>9. conversation' = [harness |-> c.harness, items |-> c.items, frame |-> c.frame, made |-> made,
                       output |-> output, untouched |-> ~ends]
  BY <1>3, <1>7 DEF ConversationRecord
<1>10. ends \in BOOLEAN
  BY <1>2
<1>11. runner' \in RunnerRecord /\ runner'.frame = w.frame /\ runner'.pending = output /\ runner'.keys = keys
  BY <1>3, <1>5, <1>8, <1>10 DEF RunnerRecord
<1>12. /\ conversation' \in ConversationRecord /\ conversation'.items = c.items /\ conversation'.output = output
       /\ conversation'.frame = c.frame
  BY <1>3, <1>6, <1>9, <1>10 DEF ConversationRecord
<1>13. output.kind = "none" => runner'.dirty
  BY <1>2, <1>8
<1> QED BY <1>1, <1>3, <1>4, <1>7, <1>11, <1>12, <1>13, NoRoundFacts

LEMMA FinishKept ==
  ASSUME GoesOn, NEW output \in Output, FinishRound(output),
         output.kind = "answer" => output.text # 0,
         \A i, j \in 1..Len(output.calls) : output.calls[i] = output.calls[j] => i = j
  PROVE  GoesOn'
<1>1. /\ conversation' \in ConversationRecord /\ conversation'.items = conversation.items
      /\ conversation'.output = output /\ conversation'.frame = conversation.frame
      /\ runner' \in RunnerRecord /\ runner'.frame = conversation.frame /\ runner'.pending = output
      /\ (output.kind = "none" => runner'.dirty)
      /\ runner'.keys = [i \in 1..Len(conversation.items) |-> conversation.items[i].key]
      /\ RoundShape' /\ round'.phase = "idle" /\ Settled
  BY FinishFacts
<1>2. Shaped' /\ Settled' = Settled
  BY <1>1, SameRows DEF Shaped
<1>3. InTurn'
  BY <1>1, <1>2 DEF InTurn
<1>4. Warm' => Follows'
  <2> SUFFICES ASSUME Warm' PROVE Follows'
    OBVIOUS
  <2>1. output.kind # "none" /\ output.kind \in {"none", "answer", "calls"}
    BY <1>1 DEF Warm, Output
  <2>2. Len(conversation.items) \in Nat
    BY DEF GoesOn, Shaped, ConversationRecord
  <2>3. /\ Len(runner'.keys) = Len(conversation'.items)
        /\ \A i \in 1..Len(runner'.keys) : runner'.keys[i] = conversation'.items[i].key
        /\ Len(runner'.keys) \in Nat
    BY <1>1, <2>2
  <2>4. Pending'
    <3>1. conversation'.output = runner'.pending /\ runner'.pending = output /\ conversation'.output = output
      BY <1>1
    <3> QED BY <2>1, <2>3, <3>1 DEF Pending
  <2> QED BY <1>1, <2>2, <2>3, <2>4 DEF Follows
<1> QED BY <1>2, <1>3, <1>4 DEF GoesOn

LEMMA AnswersKept ==
  ASSUME GoesOn, NEW directive \in BOOLEAN, Answers(directive)
  PROVE  GoesOn'
<1>1. PICK output, text, calls :
        /\ output = [NoOutput EXCEPT !.kind = "answer", !.text = conversation.made + 1, !.directive = directive]
        /\ text = conversation.made + 1 /\ calls = <<>>
  OBVIOUS
<1>2. text \in Nat /\ text # 0 /\ calls \in Seq(Nat \ {0})
  <2>1. conversation.made \in Nat
    BY DEF GoesOn, Shaped, ConversationRecord
  <2> QED BY <1>1, <2>1, RowTypes
<1>3. output = [kind |-> "answer", text |-> text, directive |-> directive, calls |-> calls]
  BY <1>1 DEF NoOutput
<1>4. output \in Output
  BY <1>2, <1>3 DEF Output
<1>5. Len(output.calls) = 0 /\ output.text # 0
  <2>1. output.calls = calls /\ output.text = text
    BY <1>3
  <2> QED BY <1>1, <1>2, <2>1
<1>6. \A i, j \in 1..Len(output.calls) : output.calls[i] = output.calls[j] => i = j
  BY <1>5
<1>7. FinishRound(output)
  BY <1>1 DEF Answers
<1> QED BY <1>4, <1>5, <1>6, <1>7, FinishKept

LEMMA CallsToolsKept ==
  ASSUME GoesOn, NEW n \in 1..MaxCalls, CallsTools(n)
  PROVE  GoesOn'
<1>1. PICK output, calls, made :
        /\ output = [NoOutput EXCEPT !.kind = "calls", !.calls = calls]
        /\ calls = [i \in 1..n |-> made + i] /\ made = conversation.made
  OBVIOUS
<1>2. made \in Nat /\ n \in Nat
  BY <1>1, ConversationAssumption DEF GoesOn, Shaped, ConversationRecord
<1>3. calls \in Seq(Nat \ {0}) /\ Len(calls) = n
  <2>1. \A i \in 1..n : made + i \in Nat \ {0}
    BY <1>2
  <2> QED BY <1>1, <1>2, <2>1
<1>4. output = [kind |-> "calls", text |-> 0, directive |-> FALSE, calls |-> calls]
  BY <1>1 DEF NoOutput
<1>5. output \in Output /\ output.kind # "answer" /\ output.calls = calls
  BY <1>3, <1>4 DEF Output
<1>6. \A i, j \in 1..Len(output.calls) : output.calls[i] = output.calls[j] => i = j
  BY <1>1, <1>2, <1>3, <1>5
<1>7. FinishRound(output)
  BY <1>1 DEF CallsTools
<1> QED BY <1>5, <1>6, <1>7, FinishKept

LEMMA EndsOtherwiseKept ==
  ASSUME GoesOn, EndsOtherwise
  PROVE  GoesOn'
<1>1. NoOutput \in Output /\ NoOutput.kind = "none" /\ FinishRound(NoOutput)
  BY RowTypes DEF EndsOtherwise
<1>2. NoOutput.calls = <<>>
  BY DEF NoOutput
<1>3. \A i, j \in 1..Len(NoOutput.calls) : NoOutput.calls[i] = NoOutput.calls[j] => i = j
  BY <1>2
<1> QED BY <1>1, <1>3, FinishKept

-----------------------------------------------------------------------------
LEMMA InitGoesOn == ASSUME ConversationInit PROVE GoesOn
<1>1. PICK c, row, rows : c = conversation /\ row = User(1, 1) /\ rows = <<row>>
  OBVIOUS
<1>2. c \in [harness : Harnesses, items : {rows}, frame : {1}, made : {1}, output : {NoOutput}, untouched : {FALSE}]
  BY <1>1 DEF ConversationInit
<1>3. row \in Row
  BY <1>1, RowTypes
<1>4. rows \in Seq(Row)
  BY <1>1, <1>3
<1>5. c \in ConversationRecord /\ c.untouched = FALSE
  <2>1. /\ c = [harness |-> c.harness, items |-> rows, frame |-> 1, made |-> 1, output |-> NoOutput,
                untouched |-> FALSE]
        /\ c.harness \in Harnesses
    BY <1>2
  <2>2. PICK harness : harness = c.harness
    OBVIOUS
  <2>3. c = [harness |-> harness, items |-> rows, frame |-> 1, made |-> 1, output |-> NoOutput, untouched |-> FALSE]
    BY <2>1, <2>2
  <2>4. harness \in Harnesses /\ 1 \in Nat /\ NoOutput \in Output
    BY <2>1, <2>2, RowTypes
  <2>5. c \in ConversationRecord
    BY <1>4, <2>3, <2>4 DEF ConversationRecord
  <2>6. c.untouched = FALSE
    BY <2>3
  <2> QED BY <2>5, <2>6
<1>6. Shaped
  BY <1>1, <1>5, NoRunnerFacts DEF ConversationInit, Shaped, RoundShape, NoRound
<1>7. round.phase = "idle" /\ ~conversation.untouched
  BY <1>1, <1>5 DEF ConversationInit, NoRound
<1> QED BY <1>6, <1>7 DEF GoesOn, InTurn, Warm

LEMMA NothingGoesOn == ASSUME GoesOn, UNCHANGED conversationVars PROVE GoesOn'
<1>1. conversation' = conversation /\ runner' = runner /\ round' = round
  BY DEF conversationVars
<1>2. Unanswered' = Unanswered /\ Settled' = Settled
  BY <1>1, SameRows
<1>3. Shaped'
  BY <1>1 DEF GoesOn, Shaped, RoundShape
<1>4. InTurn'
  BY <1>1, <1>2 DEF GoesOn, InTurn
<1>5. Warm' = Warm /\ Follows' = Follows
  BY <1>1 DEF Warm, Follows, Pending, Rest, GoesOnFromAnswer, GoesOnFromCalls
<1> QED BY <1>3, <1>4, <1>5 DEF GoesOn

LEMMA NextGoesOn == ASSUME GoesOn, [ConversationNext]_conversationVars PROVE GoesOn'
<1>1. ASSUME Platform PROVE GoesOn'
  <2>1. \A callId \in 1..MaxMade : callId \in Nat
    BY ConversationAssumption
  <2> QED BY <1>1, <2>1, UserWritesKept, TouchesKept, StoresAnswerKept, StoresCallsKept, ResultArrivesKept,
             AsksRoundKept DEF Platform
<1>2. ASSUME Daemon PROVE GoesOn'
  BY <1>2, PlanRoundKept, ExtendsKept, RebuildsKept, RebuildsOnceKept, FailRoundKept, DropRunnerKept, AnswersKept,
     CallsToolsKept, EndsOtherwiseKept DEF Daemon
<1> QED BY <1>1, <1>2, NothingGoesOn DEF ConversationNext

LEMMA AlwaysGoesOn == ConversationSpec => []GoesOn
BY InitGoesOn, NextGoesOn, PTL DEF ConversationSpec

\* A conversation that only went on keeps its warm session: when the last reply or all the results of the last calls,
\* and what the user wrote then, are all that Platform has added since, Reconcile (cliround/reconcile.go) gives
\* planRound (cliround/manager.go) no reason to rebuild, for every length of history, number of calls and order of
\* their results, and whatever stage directions Platform stripped.
THEOREM AWarmConversationStaysWarm == ConversationSpec => StaysWarm
<1>1. ASSUME GoesOn, [ConversationNext]_conversationVars
      PROVE  [PlanRound /\ round.untouched /\ runner.isUp /\ ~runner.dirty => round'.plan.reason = "none"]_conversationVars
  <2>1. ASSUME PlanRound, round.untouched, runner.isUp, ~runner.dirty
        PROVE  round'.plan.reason = "none"
    <3>1. PICK plan, r : plan = Reconcile(round.frame, runner, round.items) /\ r = round
      OBVIOUS
    <3>2. round.phase = "asked" /\ round' = [r EXCEPT !.phase = "planned", !.plan = plan]
      BY <2>1, <3>1 DEF PlanRound
    <3>3. plan.reason = "none"
      BY <1>1, <2>1, <3>1, <3>2, WarmIsExtended
    <3>4. r = [phase |-> r.phase, items |-> r.items, frame |-> r.frame, plan |-> r.plan,
               rebuiltOnce |-> r.rebuiltOnce, untouched |-> r.untouched]
      BY <1>1, <3>1 DEF GoesOn, Shaped, RoundShape
    <3>5. round'.plan = plan
      BY <3>2, <3>4
    <3> QED BY <3>3, <3>5
  <2> QED BY <2>1
<1> QED BY <1>1, AlwaysGoesOn, PTL DEF ConversationSpec, StaysWarm
=============================================================================
