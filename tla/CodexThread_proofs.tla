------------------------- MODULE CodexThread_proofs -------------------------
(***************************************************************************)
(* Proofs about a warm Codex thread for every set of tool calls, reports   *)
(* and requests, every number of rounds and turns, and every length of the *)
(* app-server's output.                                                    *)
(***************************************************************************)
EXTENDS CodexThread, FiniteSetTheorems, TLAPS

-----------------------------------------------------------------------------
(***************************************************************************)
(* The inductive invariant                                                 *)
(***************************************************************************)
ThreadRecord ==
  [state : {"none", "starting", "running", "idle", "waiting", "dirty"},
   round : 0..MaxRounds, turn : 0..MaxTurns, waiting : Seq(WaitingCall),
   carried : [Reports -> Nat], closed : BOOLEAN, interrupting : BOOLEAN]
RoundRecord ==
  [opened : BOOLEAN, finished : BOOLEAN, settled : BOOLEAN, done : Seq(Ends),
   armed : BOOLEAN, fired : Nat, gathered : SUBSET Reports]
Pcs == {"out", "start", "inject", "open", "look", "turn", "steer", "respond",
        "wait", "complete", "abort", "fail", "flush", "given up"}
CallerRecord ==
  [pc : Pcs, request : RequestKinds, isNew : BOOLEAN, round : 0..MaxRounds,
   results : SUBSET Calls, newInput : BOOLEAN, pendingCalls : SUBSET Calls]
CloserRecord ==
  [pc : {"out", "taken", "begin", "interrupt", "wait", "unsubscribe", "unregister", "take", "done"},
   turn : 0..MaxTurns, keeps : BOOLEAN]
StopperRecord == [pc : {"out", "look", "interrupt"}, turn : 0..MaxTurns]
ClientRecord == [exited : BOOLEAN, registered : BOOLEAN, held : BOOLEAN, owesExit : BOOLEAN]
PendingRecord == [Goroutines -> {"none", "sent", "served", "ok", "error"}]
ServerRecord ==
  [up : BOOLEAN, turn : 0..MaxTurns, turns : 0..MaxTurns, asked : SUBSET Calls,
   made : SUBSET Calls, stopping : BOOLEAN]

\* The rounds of the caller and of the thread: the thread has a round open
\* exactly while the caller is in one, and it is the caller's, not yet settled ...
InRound == {"look", "turn", "steer", "respond", "wait", "complete", "abort"}
Starting == caller.isNew /\ caller.pc \in {"out", "start", "inject", "open"}

Placed ==
  /\ thread.round # 0 <=> caller.pc \in InRound
  /\ thread.round # 0 => thread.round = caller.round /\ ~rounds[caller.round].settled
  /\ caller.pc = "open" => caller.round < MaxRounds
  /\ caller.pc \in {"start", "inject"} => caller.isNew
  /\ Starting => caller.round = 0 /\ thread.waiting = <<>> /\ thread.state # "waiting"
  \* ... and nothing has happened in the rounds to come.
  /\ \A r \in RoundIds : r > caller.round => ~rounds[r].settled /\ rounds[r].gathered = {}

\* A round that was given its end is finished, and a finished one gets no other.
Ended == \A r \in RoundIds : Len(rounds[r].done) <= 1 /\ (rounds[r].done # <<>> => rounds[r].finished)

\* Who waits, or is about to, for calls that no round has reported has a timer.
HasTimer(r) == rounds[r].finished \/ rounds[r].armed \/ rounds[r].fired > 0
Timed ==
  /\ thread.round # 0 /\ HasUnreported(thread.waiting)
  /\ caller.pc \in {"turn", "wait"} \/ (caller.pc = "look" /\ caller.isNew)
  => HasTimer(thread.round)

\* A line of the output of one of some kinds, that is about x.
IsLine(f, kinds, x) == f.kind \in kinds /\ f.of = x
There(w, kinds, x) == \E i \in 1..Len(w) : IsLine(w[i], kinds, x)
Single(w, kinds, x) == \A i, j \in 1..Len(w) : IsLine(w[i], kinds, x) /\ IsLine(w[j], kinds, x) => i = j

ReportLines == {"usage", "decline"}
ToolLines == {"tool"}

\* How often a report has left its round.
Kept(x) == thread.carried[x] + billed[x] + dropped[x]

\* A report is on its way, or with one round, or has left it once.
Conserved(x) ==
  /\ Kept(x) <= 1
  /\ There(wire, ReportLines, x) => Kept(x) = 0 /\ \A r \in RoundIds : x \notin rounds[r].gathered
  /\ Single(wire, ReportLines, x)
  /\ \A r, q \in RoundIds : x \in rounds[r].gathered /\ x \in rounds[q].gathered => r = q
  /\ \A r \in RoundIds : x \in rounds[r].gathered => Kept(x) = IF rounds[r].settled THEN 1 ELSE 0

\* A tool call is asked for on the output, then waits in the thread, where it is
\* reported, and is answered when it leaves.
Waits(c) == \E i \in 1..Len(thread.waiting) : thread.waiting[i].call = c
Followed(c) ==
  /\ told[c] <= 1 /\ answered[c] <= 1
  /\ Single(wire, ToolLines, c)
  /\ There(wire, ToolLines, c) => c \in server.made /\ ~Waits(c) /\ told[c] = 0 /\ answered[c] = 0
  /\ \A i, j \in 1..Len(thread.waiting) :
       thread.waiting[i].call = c /\ thread.waiting[j].call = c => i = j
  /\ \A i \in 1..Len(thread.waiting) : thread.waiting[i].call = c =>
       /\ c \in server.made /\ answered[c] = 0
       /\ told[c] = IF thread.waiting[i].reported THEN 1 ELSE 0
  /\ c \notin server.made => told[c] = 0 /\ answered[c] = 0
  /\ c \in server.asked => There(wire, ToolLines, c) \/ Waits(c)

IInv ==
  /\ TypeOK /\ Placed /\ Ended /\ Timed
  /\ \A x \in Reports : Conserved(x)
  /\ \A c \in Calls : Followed(c)

-----------------------------------------------------------------------------
(***************************************************************************)
(* Types, and what the operators of the model return                       *)
(***************************************************************************)
\* The parts of the state, by the names they have here.
LEMMA Records ==
  TypeOK <=> /\ thread \in ThreadRecord /\ rounds \in [RoundIds -> RoundRecord] /\ caller \in CallerRecord
             /\ closer \in CloserRecord /\ stopper \in StopperRecord /\ client \in ClientRecord
             /\ pending \in PendingRecord /\ server \in ServerRecord /\ wire \in Seq(Frames)
             /\ billed \in [Reports -> Nat] /\ dropped \in [Reports -> Nat]
             /\ told \in [Calls -> Nat] /\ answered \in [Calls -> Nat] /\ misread \in BOOLEAN
BY DEF TypeOK, ThreadRecord, RoundRecord, CallerRecord, CloserRecord, StopperRecord, ClientRecord,
       PendingRecord, ServerRecord, Pcs

\* The state after a step, part by part.
LEMMA TypesNext ==
  ASSUME thread' \in ThreadRecord, rounds' \in [RoundIds -> RoundRecord], caller' \in CallerRecord,
         closer' \in CloserRecord, stopper' \in StopperRecord, client' \in ClientRecord,
         pending' \in PendingRecord, server' \in ServerRecord, wire' \in Seq(Frames),
         billed' \in [Reports -> Nat], dropped' \in [Reports -> Nat],
         told' \in [Calls -> Nat], answered' \in [Calls -> Nat], misread' \in BOOLEAN
  PROVE  TypeOK'
BY DEF TypeOK, ThreadRecord, RoundRecord, CallerRecord, CloserRecord, StopperRecord, ClientRecord,
       PendingRecord, ServerRecord, Pcs

\* What a line is about depends on its kind.
LEMMA FrameKinds ==
  ASSUME NEW f \in Frames
  PROVE  /\ f.kind \in {"usage", "decline", "tool", "started", "item", "completed", "unreadable", "result", "error"}
         /\ f.kind \in ReportLines => f.of \in Reports
         /\ f.kind = "tool" => f.of \in Calls
         /\ f.kind = "started" => f.of \in 1..MaxTurns
         /\ f.kind = "completed" => f.of \in {"completed"} \cup Failures
         /\ f.kind = "unreadable" => f.of \in Unreadable
         /\ f.kind \in {"result", "error"} => f.of \in Goroutines
BY DEF Frames, ReportLines

\* The lines the app-server writes are lines.
LEMMA FrameMade ==
  /\ \A kind \in ReportLines, x \in Reports : [kind |-> kind, of |-> x] \in Frames
  /\ \A c \in Calls : [kind |-> "tool", of |-> c] \in Frames
  /\ \A n \in 1..MaxTurns : [kind |-> "started", of |-> n] \in Frames
  /\ [kind |-> "item", of |-> "agentMessage"] \in Frames
  /\ \A s \in {"completed"} \cup Failures : [kind |-> "completed", of |-> s] \in Frames
  /\ \A m \in Unreadable : [kind |-> "unreadable", of |-> m] \in Frames
  /\ \A g \in Goroutines : [kind |-> "result", of |-> g] \in Frames /\ [kind |-> "error", of |-> g] \in Frames
BY DEF Frames, ReportLines

\* What is left when one member of a sequence is cut out.
LEMMA CutFacts ==
  ASSUME NEW S, NEW s \in Seq(S), NEW k \in 1..Len(s)
  PROVE  /\ Cut(s, k) \in Seq(S) /\ Len(Cut(s, k)) = Len(s) - 1
         /\ \A j \in 1..Len(s) - 1 : Cut(s, k)[j] = IF j < k THEN s[j] ELSE s[j + 1]
<1>1. PICK n : n = Len(s) - 1
  OBVIOUS
<1>2. n \in Nat /\ Len(s) \in Nat
  BY <1>1
<1>3. \A j \in 1..n : s[j] \in S /\ s[j + 1] \in S
  BY <1>1, <1>2
<1>4. Cut(s, k) = [j \in 1..n |-> IF j < k THEN s[j] ELSE s[j + 1]]
  BY <1>1 DEF Cut
<1>5. Cut(s, k) \in [1..n -> S]
  BY <1>3, <1>4
<1>6. Cut(s, k) \in Seq(S) /\ Len(Cut(s, k)) = n
  BY <1>2, <1>5
<1> QED BY <1>1, <1>4, <1>6

\* The rest of a sequence is the sequence without its first member.
LEMMA TailIsCut ==
  ASSUME NEW S, NEW s \in Seq(S), s # <<>>
  PROVE  Tail(s) = Cut(s, 1) /\ 1 \in 1..Len(s) /\ Head(s) = s[1] /\ Head(s) \in S
<1>1. Len(s) \in Nat \ {0} /\ 1 \in 1..Len(s)
  OBVIOUS
<1>2. PICK t : t = Tail(s)
  OBVIOUS
<1>3. t \in Seq(S) /\ Len(t) = Len(s) - 1 /\ \A j \in 1..Len(s) - 1 : t[j] = s[j + 1]
  BY <1>1, <1>2
<1>4. t = [j \in 1..Len(s) - 1 |-> t[j]]
  BY <1>1, <1>3
<1>5. Cut(s, 1) = [j \in 1..Len(s) - 1 |-> s[j + 1]]
  BY <1>1 DEF Cut
<1> QED BY <1>1, <1>2, <1>3, <1>4, <1>5

\* A sequence with one more member.
LEMMA AppendFacts ==
  ASSUME NEW S, NEW s \in Seq(S), NEW e \in S
  PROVE  /\ Append(s, e) \in Seq(S) /\ Len(Append(s, e)) = Len(s) + 1
         /\ \A j \in 1..Len(s) : Append(s, e)[j] = s[j]
         /\ Append(s, e)[Len(s) + 1] = e
OBVIOUS

-----------------------------------------------------------------------------
(***************************************************************************)
(* The lines of the output                                                 *)
(***************************************************************************)
\* From w to v, no line of these kinds is new or doubled; or none is lost.
Fewer(w, v, kinds) ==
  \A x : /\ There(v, kinds, x) => There(w, kinds, x)
         /\ Single(w, kinds, x) => Single(v, kinds, x)
NoneLost(w, v, kinds) == \A x : There(w, kinds, x) => There(v, kinds, x)

\* No report and no tool call appears, and no tool call is read.
QuietOutput ==
  /\ Fewer(wire, wire', ReportLines) /\ Fewer(wire, wire', ToolLines)
  /\ NoneLost(wire, wire', ToolLines)

\* Reading a line, or dropping one.
LEMMA CutLines ==
  ASSUME NEW w \in Seq(Frames), NEW k \in 1..Len(w), NEW kinds
  PROVE  /\ Fewer(w, Cut(w, k), kinds)
         /\ w[k].kind \notin kinds => NoneLost(w, Cut(w, k), kinds)
         /\ \A x : x # w[k].of /\ There(w, kinds, x) => There(Cut(w, k), kinds, x)
         /\ \A x : IsLine(w[k], kinds, x) /\ Single(w, kinds, x) => ~There(Cut(w, k), kinds, x)
<1> DEFINE v == Cut(w, k)
           Old(j) == IF j < k THEN j ELSE j + 1
           New(i) == IF i < k THEN i ELSE i - 1
<1>1. v \in Seq(Frames) /\ Len(v) = Len(w) - 1 /\ Len(w) \in Nat
  BY CutFacts
<1>2. \A j \in 1..Len(v) : Old(j) \in 1..Len(w) /\ Old(j) # k /\ v[j] = w[Old(j)]
  <2>1. \A j \in 1..Len(w) - 1 : v[j] = IF j < k THEN w[j] ELSE w[j + 1]
    BY CutFacts
  <2> HIDE DEF v
  <2>2. \A j \in 1..Len(v) : v[j] = w[Old(j)]
    BY <1>1, <2>1
  <2>3. \A j \in 1..Len(v) : Old(j) \in 1..Len(w) /\ Old(j) # k
    BY <1>1
  <2> QED BY <2>2, <2>3
<1>3. \A i \in 1..Len(w) : i # k => New(i) \in 1..Len(v) /\ v[New(i)] = w[i]
  BY <1>1, CutFacts
<1>4. \A i, j \in 1..Len(v) : Old(i) = Old(j) => i = j
  BY <1>1
<1> HIDE DEF v, Old, New
<1>5. ASSUME NEW x
      PROVE  There(v, kinds, x) => There(w, kinds, x)
  BY <1>2 DEF There
<1>6. ASSUME NEW x, Single(w, kinds, x)
      PROVE  Single(v, kinds, x)
  BY <1>2, <1>4, <1>6 DEF Single
<1>7. ASSUME NEW x, There(w, kinds, x), ~IsLine(w[k], kinds, x)
      PROVE  There(v, kinds, x)
  BY <1>3, <1>7 DEF There
<1>8. ASSUME NEW x, IsLine(w[k], kinds, x), Single(w, kinds, x)
      PROVE  ~There(v, kinds, x)
  BY <1>2, <1>8 DEF There, Single
<1>9. Fewer(w, v, kinds)
  BY <1>5, <1>6 DEF Fewer
<1>10. w[k].kind \notin kinds => NoneLost(w, v, kinds)
  BY <1>7 DEF NoneLost, IsLine
<1>11. \A x : x # w[k].of /\ There(w, kinds, x) => There(v, kinds, x)
  BY <1>7 DEF IsLine
<1> QED BY <1>8, <1>9, <1>10, <1>11 DEF v

\* Writing one line.
LEMMA AppendLines ==
  ASSUME NEW w \in Seq(Frames), NEW f \in Frames, NEW kinds
  PROVE  /\ NoneLost(w, Append(w, f), kinds)
         /\ f.kind \notin kinds => Fewer(w, Append(w, f), kinds)
         /\ \A x : There(Append(w, f), kinds, x) => There(w, kinds, x) \/ IsLine(f, kinds, x)
         /\ \A x : Single(w, kinds, x) /\ (There(w, kinds, x) => ~IsLine(f, kinds, x))
              => Single(Append(w, f), kinds, x)
         /\ \A x : IsLine(f, kinds, x) => There(Append(w, f), kinds, x)
<1> DEFINE v == Append(w, f)
<1>1. PICK n : n = Len(w)
  OBVIOUS
<1>2. n \in Nat /\ Len(v) = n + 1 /\ v[n + 1] = f /\ \A j \in 1..n : v[j] = w[j]
  BY <1>1, AppendFacts
<1> HIDE DEF v
<1>3. n + 1 \in 1..Len(v) /\ \A j \in 1..n : j \in 1..Len(v)
  BY <1>2
<1>4. \A j \in 1..Len(v) : j \in 1..n \/ j = n + 1
  BY <1>2
<1>5. ASSUME NEW x
      PROVE  There(w, kinds, x) => There(v, kinds, x)
  BY <1>1, <1>2, <1>3 DEF There
<1>6. ASSUME NEW x
      PROVE  There(v, kinds, x) => There(w, kinds, x) \/ IsLine(f, kinds, x)
  BY <1>1, <1>2, <1>4 DEF There
<1>7. ASSUME NEW x, Single(w, kinds, x), There(w, kinds, x) => ~IsLine(f, kinds, x)
      PROVE  Single(v, kinds, x)
  <2>1. ASSUME NEW i \in 1..n, IsLine(w[i], kinds, x)
        PROVE  ~IsLine(f, kinds, x)
    BY <1>1, <1>7, <2>1 DEF There
  <2> QED BY <1>1, <1>2, <1>4, <1>7, <2>1 DEF Single
<1>8. ASSUME NEW x, IsLine(f, kinds, x)
      PROVE  There(v, kinds, x)
  BY <1>2, <1>3, <1>8 DEF There
<1>9. f.kind \notin kinds => Fewer(w, v, kinds)
  BY <1>6, <1>7 DEF Fewer, IsLine
<1>10. NoneLost(w, v, kinds)
  BY <1>5 DEF NoneLost
<1> QED BY <1>6, <1>7, <1>8, <1>9, <1>10 DEF v

\* A line that is neither a report nor a tool call goes unnoticed.
LEMMA QuietCut ==
  ASSUME wire \in Seq(Frames), NEW k \in 1..Len(wire), wire' = Cut(wire, k), wire[k].kind # "tool"
  PROVE  QuietOutput /\ wire' \in Seq(Frames)
BY CutFacts, CutLines DEF QuietOutput, ToolLines

\* Nor does anybody notice one that is written,
LEMMA QuietAppend ==
  ASSUME wire \in Seq(Frames), NEW f \in Frames, wire' = Append(wire, f), f.kind \notin ReportLines \cup ToolLines
  PROVE  QuietOutput /\ wire' \in Seq(Frames)
BY AppendFacts, AppendLines DEF QuietOutput

\* or two,
LEMMA QuietTwice ==
  ASSUME wire \in Seq(Frames), NEW f \in Frames, NEW g \in Frames, wire' = Append(Append(wire, f), g),
         f.kind \notin ReportLines \cup ToolLines, g.kind \notin ReportLines \cup ToolLines
  PROVE  QuietOutput /\ wire' \in Seq(Frames)
<1>1. PICK v : v = Append(wire, f)
  OBVIOUS
<1>2. v \in Seq(Frames) /\ \A kinds : NoneLost(wire, v, kinds) /\ (f.kind \notin kinds => Fewer(wire, v, kinds))
  BY <1>1, AppendFacts, AppendLines
<1>3. wire' \in Seq(Frames) /\ \A kinds : NoneLost(v, wire', kinds) /\ (g.kind \notin kinds => Fewer(v, wire', kinds))
  BY <1>1, <1>2, AppendFacts, AppendLines
<1>4. \A kinds : NoneLost(wire, wire', kinds)
  BY <1>2, <1>3 DEF NoneLost
<1>5. ASSUME NEW kinds, f.kind \notin kinds, g.kind \notin kinds
      PROVE  Fewer(wire, wire', kinds)
  <2>1. Fewer(wire, v, kinds) /\ Fewer(v, wire', kinds)
    BY <1>2, <1>3, <1>5
  <2> QED BY <2>1 DEF Fewer
<1> QED BY <1>3, <1>4, <1>5 DEF QuietOutput

\* or none.
LEMMA QuietSame ==
  ASSUME wire \in Seq(Frames), UNCHANGED wire
  PROVE  QuietOutput /\ wire' \in Seq(Frames)
BY DEF QuietOutput, Fewer, NoneLost

\* What is read, what is written, and what is forgotten.
LEMMA WriteOne ==
  ASSUME wire \in Seq(Frames), NEW f \in Frames, Write(<<f>>)
  PROVE  wire' = Append(wire, f)
BY DEF Write

\* Writing two lines appends both.
LEMMA WriteTwo ==
  ASSUME wire \in Seq(Frames), NEW f \in Frames, NEW g \in Frames, Write(<<f, g>>)
  PROVE  wire' = Append(Append(wire, f), g)
BY DEF Write

\* The reader takes the first line.
LEMMA ReadsLine ==
  ASSUME wire \in Seq(Frames), TakeLine
  PROVE  /\ wire' = Cut(wire, 1) /\ 1 \in 1..Len(wire) /\ Line = wire[1] /\ Line \in Frames
         /\ wire' \in Seq(Frames)
         /\ Line.kind # "tool" => QuietOutput
<1>1. wire # <<>> /\ wire' = Tail(wire)
  BY DEF TakeLine
<1>2. wire' = Cut(wire, 1) /\ 1 \in 1..Len(wire) /\ Line = wire[1] /\ Line \in Frames
  BY <1>1, TailIsCut DEF Line
<1> QED BY <1>2, CutFacts, QuietCut

\* A response nobody waits for is neither a report nor a tool call.
LEMMA ForgottenLine ==
  ASSUME wire \in Seq(Frames), NEW g, Unheard(g)
  PROVE  QuietOutput /\ wire' \in Seq(Frames)
<1>1. CASE UNCHANGED wire
  BY <1>1, QuietSame
<1>2. CASE \E i \in Responses(g) : wire' = Cut(wire, i)
  BY <1>2, QuietCut DEF Responses
<1> QED BY <1>1, <1>2 DEF Unheard

-----------------------------------------------------------------------------
(***************************************************************************)
(* The rounds: what finishLocked and the timers do to them                 *)
(***************************************************************************)
WellEnded(round) == Len(round.done) <= 1 /\ (round.done # <<>> => round.finished)
Timer(round) == round.finished \/ round.armed \/ round.fired > 0

\* From a to b no round is settled or gathers anything; none ends twice, and
\* none loses its timer.
Onward(a, b) ==
  /\ b \in [RoundIds -> RoundRecord]
  /\ \A r \in RoundIds :
       /\ b[r].settled = a[r].settled /\ b[r].gathered = a[r].gathered
       /\ WellEnded(a[r]) => WellEnded(b[r])
       /\ Timer(a[r]) => Timer(b[r])

\* Rounds that stay as they are go on.
LEMMA OnwardSame ==
  ASSUME rounds \in [RoundIds -> RoundRecord]
  PROVE  Onward(rounds, rounds)
BY DEF Onward

\* One round changed.
LEMMA OnwardOne ==
  ASSUME rounds \in [RoundIds -> RoundRecord], NEW r \in RoundIds, NEW new \in RoundRecord,
         new.settled = rounds[r].settled, new.gathered = rounds[r].gathered,
         WellEnded(rounds[r]) => WellEnded(new), Timer(rounds[r]) => Timer(new)
  PROVE  Onward(rounds, [rounds EXCEPT ![r] = new]) /\ [rounds EXCEPT ![r] = new][r] = new
BY DEF Onward

\* finishLocked gives a round that is not finished its one end.
LEMMA OnwardFinished ==
  ASSUME rounds \in [RoundIds -> RoundRecord], NEW r \in RoundIds, NEW end \in Ends
  PROVE  Onward(rounds, Finished(r, end)) /\ Finished(r, end)[r].finished
<1>1. CASE rounds[r].finished
  BY <1>1, OnwardSame DEF Finished
<1>2. CASE ~rounds[r].finished
  <2>1. PICK d : d = Append(rounds[r].done, end)
    OBVIOUS
  <2>2. rounds[r].done \in Seq(Ends) /\ rounds[r] \in RoundRecord
    BY DEF RoundRecord
  <2>3. d \in Seq(Ends) /\ Len(d) = Len(rounds[r].done) + 1
    BY <2>1, <2>2, AppendFacts
  <2>4. PICK new : new = [rounds[r] EXCEPT !.finished = TRUE, !.armed = FALSE, !.done = d]
    OBVIOUS
  <2>5. /\ new \in RoundRecord /\ new.settled = rounds[r].settled /\ new.gathered = rounds[r].gathered
        /\ new.finished /\ new.done = d
    BY <2>2, <2>3, <2>4 DEF RoundRecord
  <2>6. WellEnded(rounds[r]) => WellEnded(new)
    BY <1>2, <2>2, <2>3, <2>5 DEF WellEnded
  <2>7. Finished(r, end) = [rounds EXCEPT ![r] = new]
    BY <1>2, <2>1, <2>4 DEF Finished
  <2>8. Timer(new)
    BY <2>5 DEF Timer
  <2> QED BY <2>5, <2>6, <2>7, <2>8, OnwardOne
<1> QED BY <1>1, <1>2

\* So it does on the open round, if there is one.
LEMMA OnwardFinishedOpen ==
  ASSUME rounds \in [RoundIds -> RoundRecord], thread \in ThreadRecord, NEW end \in Ends
  PROVE  Onward(rounds, FinishedOpen(end))
<1>1. thread.round # 0 => thread.round \in RoundIds
  BY CodexAssumption DEF ThreadRecord, RoundIds
<1> QED BY <1>1, OnwardFinished, OnwardSame DEF FinishedOpen

\* armTimerLocked gives a round its timer.
LEMMA OnwardArmed ==
  ASSUME rounds \in [RoundIds -> RoundRecord], NEW r \in RoundIds
  PROVE  Onward(rounds, Armed(r)) /\ Armed(r)[r].armed
<1>1. PICK new : new = [rounds[r] EXCEPT !.armed = TRUE]
  OBVIOUS
<1>2. /\ new \in RoundRecord /\ new.settled = rounds[r].settled /\ new.gathered = rounds[r].gathered
      /\ new.armed /\ new.done = rounds[r].done /\ new.finished = rounds[r].finished
  BY <1>1 DEF RoundRecord
<1>3. Armed(r) = [rounds EXCEPT ![r] = new]
  BY <1>1 DEF Armed
<1>4. (WellEnded(rounds[r]) => WellEnded(new)) /\ Timer(new)
  BY <1>2 DEF WellEnded, Timer
<1> QED BY <1>2, <1>3, <1>4, OnwardOne

\* A timer that fires leaves a callback under way.
LEMMA OnwardFires ==
  ASSUME rounds \in [RoundIds -> RoundRecord], NEW r \in RoundIds, TimerFires(r)
  PROVE  Onward(rounds, rounds')
<1>1. PICK n : n = rounds[r].fired + 1
  OBVIOUS
<1>2. PICK new : new = [rounds[r] EXCEPT !.armed = FALSE, !.fired = n]
  OBVIOUS
<1>3. n \in Nat /\ n > 0
  BY <1>1 DEF RoundRecord
<1>4. /\ new \in RoundRecord /\ new.settled = rounds[r].settled /\ new.gathered = rounds[r].gathered
      /\ new.fired = n /\ new.done = rounds[r].done /\ new.finished = rounds[r].finished
  BY <1>2, <1>3 DEF RoundRecord
<1>5. rounds' = [rounds EXCEPT ![r] = new]
  BY <1>1, <1>2 DEF TimerFires
<1>6. (WellEnded(rounds[r]) => WellEnded(new)) /\ Timer(new)
  BY <1>3, <1>4 DEF WellEnded, Timer
<1> QED BY <1>4, <1>5, <1>6, OnwardOne

\* A callback ends the batch of its round; one that does not may leave the
\* round without a timer.
LEMMA CallsBackFields ==
  ASSUME rounds \in [RoundIds -> RoundRecord], NEW r \in RoundIds, TimerCallsBack(r)
  PROVE  /\ rounds' \in [RoundIds -> RoundRecord]
         /\ \A q \in RoundIds :
              /\ rounds'[q].settled = rounds[q].settled /\ rounds'[q].gathered = rounds[q].gathered
              /\ WellEnded(rounds[q]) => WellEnded(rounds'[q])
              /\ Timer(rounds[q]) /\ (q = r => EndsBatch(r)) => Timer(rounds'[q])
<1>1. PICK s : s = IF EndsBatch(r) THEN Finished(r, "tool_calls") ELSE rounds
  OBVIOUS
<1>2. Onward(rounds, s) /\ (EndsBatch(r) => s[r].finished)
  BY <1>1, OnwardSame, OnwardFinished DEF Ends
<1>3. s \in [RoundIds -> RoundRecord] /\ s[r] \in RoundRecord
  BY <1>2 DEF Onward
<1>4. s[r].fired > 0
  BY <1>1, <1>3 DEF TimerCallsBack, Finished, RoundRecord
<1>5. PICK n : n = s[r].fired - 1
  OBVIOUS
<1>6. n \in Nat
  BY <1>3, <1>4, <1>5 DEF RoundRecord
<1>7. PICK new : new = [s[r] EXCEPT !.fired = n]
  OBVIOUS
<1>8. /\ new \in RoundRecord /\ new.settled = s[r].settled /\ new.gathered = s[r].gathered
      /\ new.done = s[r].done /\ new.finished = s[r].finished
  BY <1>3, <1>6, <1>7 DEF RoundRecord
<1>9. rounds' = [s EXCEPT ![r] = new]
  BY <1>1, <1>5, <1>7 DEF TimerCallsBack
<1>10. rounds' \in [RoundIds -> RoundRecord] /\ rounds'[r] = new /\ \A q \in RoundIds : q # r => rounds'[q] = s[q]
  BY <1>3, <1>8, <1>9
<1>11. WellEnded(s[r]) => WellEnded(new)
  BY <1>8 DEF WellEnded
<1>12. EndsBatch(r) => Timer(new)
  BY <1>2, <1>8 DEF Timer
<1> QED BY <1>2, <1>8, <1>10, <1>11, <1>12 DEF Onward

\* The end of a round with an error.
LEMMA SettledFields ==
  ASSUME rounds \in [RoundIds -> RoundRecord], NEW r \in RoundIds
  PROVE  /\ Settled(r) \in [RoundIds -> RoundRecord]
         /\ \A q \in RoundIds : q # r => Settled(r)[q] = rounds[q]
         /\ Settled(r)[r].settled /\ Settled(r)[r].gathered = rounds[r].gathered
         /\ WellEnded(rounds[r]) => WellEnded(Settled(r)[r])
<1>1. PICK new : new = [rounds[r] EXCEPT !.finished = TRUE, !.armed = FALSE, !.settled = TRUE]
  OBVIOUS
<1>2. new \in RoundRecord /\ new.settled /\ new.gathered = rounds[r].gathered /\ new.finished /\ new.done = rounds[r].done
  BY <1>1 DEF RoundRecord
<1>3. Settled(r) = [rounds EXCEPT ![r] = new]
  BY <1>1 DEF Settled
<1>4. WellEnded(rounds[r]) => WellEnded(new)
  BY <1>2 DEF WellEnded
<1> QED BY <1>2, <1>3, <1>4

-----------------------------------------------------------------------------
(***************************************************************************)
(* Steps that a part of the invariant does not notice                      *)
(***************************************************************************)
Critical == caller.pc \in {"turn", "wait"} \/ (caller.pc = "look" /\ caller.isNew)

\* The caller stays in its round or outside of one, and the rounds stay settled
\* or open.
PlacedSame ==
  /\ thread'.round = thread.round /\ caller'.round = caller.round
  /\ caller'.pc \in InRound <=> caller.pc \in InRound
  /\ caller'.pc = "open" => caller.pc = "open" \/ Starting \/ caller.round < MaxRounds
  /\ caller'.pc \in {"start", "inject"} => caller'.isNew
  /\ Starting' => Starting /\ thread'.waiting = thread.waiting
                  /\ (thread'.state = "waiting" => thread.state = "waiting")
  /\ \A r \in RoundIds : rounds'[r].settled = rounds[r].settled
  /\ \A r \in RoundIds : r > caller.round => rounds'[r].gathered = rounds[r].gathered

\* Such a step keeps caller and rounds together.
LEMMA PlacedKept ==
  ASSUME TypeOK, Placed, PlacedSame
  PROVE  Placed'
<1>1. thread.round # 0 => thread.round \in RoundIds /\ caller.round = thread.round
  BY Records, CodexAssumption DEF Placed, ThreadRecord, RoundIds
<1>2. caller'.pc = "open" => caller'.round < MaxRounds
  BY CodexAssumption DEF Placed, PlacedSame
<1>3. Starting' => caller'.round = 0 /\ thread'.waiting = <<>> /\ thread'.state # "waiting"
  BY DEF Placed, PlacedSame
<1>4. thread'.round # 0 => thread'.round = caller'.round /\ ~rounds'[caller'.round].settled
  BY <1>1 DEF Placed, PlacedSame
<1>5. \A r \in RoundIds : r > caller'.round => ~rounds'[r].settled /\ rounds'[r].gathered = {}
  BY DEF Placed, PlacedSame
<1>6. /\ thread'.round # 0 <=> caller'.pc \in InRound
      /\ caller'.pc \in {"start", "inject"} => caller'.isNew
  BY DEF Placed, PlacedSame
<1> QED BY <1>2, <1>3, <1>4, <1>5, <1>6 DEF Placed

\* The list of calls is the same, the round keeps its timer, and whoever begins
\* to wait for unreported calls has one.
TimedSame ==
  /\ thread'.round = thread.round /\ thread'.waiting = thread.waiting
  /\ Critical' => Critical \/ ~HasUnreported(thread.waiting) \/ Timer(rounds'[thread.round])
  /\ thread.round \in RoundIds /\ HasUnreported(thread.waiting) /\ Timer(rounds[thread.round])
       => Timer(rounds'[thread.round])

\* Such a step takes nobody's timer.
LEMMA TimedKept ==
  ASSUME TypeOK, Timed, TimedSame
  PROVE  Timed'
<1>1. thread.round # 0 => thread.round \in RoundIds
  BY Records, CodexAssumption DEF ThreadRecord, RoundIds
<1>2. HasUnreported(thread.waiting)' <=> HasUnreported(thread.waiting)
  BY DEF TimedSame, HasUnreported
<1> QED BY <1>1, <1>2 DEF Timed, TimedSame, Critical, HasTimer, Timer

\* No report leaves its round or enters one.
UsageSame ==
  /\ \A x \in Reports : Kept(x)' = Kept(x)
  /\ \A r \in RoundIds : rounds'[r].settled = rounds[r].settled /\ rounds'[r].gathered = rounds[r].gathered
  /\ Fewer(wire, wire', ReportLines)

\* Such a step leaves each report where it is.
LEMMA ReportsKept ==
  ASSUME NEW x \in Reports, Conserved(x), UsageSame
  PROVE  Conserved(x)'
<1>1. /\ There(wire, ReportLines, x)' => There(wire, ReportLines, x)
      /\ Single(wire, ReportLines, x) => Single(wire, ReportLines, x)'
  BY DEF UsageSame, Fewer
<1> QED BY <1>1 DEF Conserved, UsageSame

\* No call is asked for, answered or reported.
ToolsSame ==
  /\ thread'.waiting = thread.waiting /\ told' = told /\ answered' = answered
  /\ server'.made = server.made /\ server'.asked \subseteq server.asked
  /\ Fewer(wire, wire', ToolLines) /\ NoneLost(wire, wire', ToolLines)

\* Such a step leaves each call where it is.
LEMMA ToolsKept ==
  ASSUME NEW c \in Calls, Followed(c), ToolsSame
  PROVE  Followed(c)'
<1>1. /\ There(wire, ToolLines, c)' <=> There(wire, ToolLines, c)
      /\ Single(wire, ToolLines, c) => Single(wire, ToolLines, c)'
  BY DEF ToolsSame, Fewer, NoneLost
<1>2. Waits(c)' <=> Waits(c)
  BY DEF ToolsSame, Waits
<1> QED BY <1>1, <1>2 DEF Followed, ToolsSame

Ordinary == PlacedSame /\ Ended' /\ TimedSame /\ UsageSame /\ ToolsSame

Preserved == Placed' /\ Ended' /\ Timed' /\ (\A x \in Reports : Conserved(x)') /\ (\A c \in Calls : Followed(c)')

\* A step that no part notices preserves them all.
LEMMA OrdinaryPreserves ==
  ASSUME IInv, Ordinary
  PROVE  Preserved
BY PlacedKept, TimedKept, ReportsKept, ToolsKept DEF IInv, Ordinary, Preserved

\* Rounds that go on are nothing to the other parts.
LEMMA OnwardEnded ==
  ASSUME Ended, Onward(rounds, rounds')
  PROVE  Ended'
BY DEF Ended, Onward, WellEnded

\* The caller moves within its round or outside of one, without a round to
\* report; or stays where it is.
CallerMoves ==
  /\ caller'.round = caller.round
  /\ caller'.pc \in InRound <=> caller.pc \in InRound
  /\ caller'.pc = "open" => caller.pc = "open" \/ Starting
  /\ caller'.pc \in {"start", "inject"} => caller'.isNew
  /\ Starting' => Starting
  /\ Critical' => Critical \/ ~HasUnreported(thread.waiting) \/ Timer(rounds'[thread.round])

\* The thread keeps its round, its calls and what it carries.
ThreadStays ==
  /\ thread'.round = thread.round /\ thread'.waiting = thread.waiting /\ thread'.carried = thread.carried
  /\ thread'.state = "waiting" => thread.state = "waiting"

ServerWaits == server'.made = server.made /\ server'.asked \subseteq server.asked

\* A step that touches no list and no history is ordinary.
LEMMA QuietOrdinary ==
  ASSUME IInv, CallerMoves, ThreadStays, Onward(rounds, rounds'), ServerWaits, QuietOutput,
         UNCHANGED <<billed, dropped, told, answered>>
  PROVE  Ordinary
<1>1. PlacedSame
  BY DEF PlacedSame, CallerMoves, ThreadStays, Onward
<1>2. TimedSame
  BY DEF TimedSame, CallerMoves, ThreadStays, Onward
<1>3. UsageSame
  BY DEF UsageSame, Kept, ThreadStays, Onward, QuietOutput
<1>4. ToolsSame
  BY DEF ToolsSame, ThreadStays, ServerWaits, QuietOutput
<1>5. Ended'
  BY OnwardEnded DEF IInv
<1> QED BY <1>1, <1>2, <1>3, <1>4, <1>5 DEF Ordinary

\* Who does not move stays in its place;
LEMMA CallerStays ==
  ASSUME IInv, UNCHANGED caller
  PROVE  CallerMoves
BY DEF CallerMoves, Starting, Critical, IInv, Placed

\* a thread that is the same keeps what it has;
LEMMA ThreadSame ==
  ASSUME UNCHANGED thread
  PROVE  ThreadStays
BY DEF ThreadStays

\* and so does the app-server.
LEMMA ServerSame ==
  ASSUME UNCHANGED server
  PROVE  ServerWaits
BY DEF ServerWaits

\* A step of the caller that moves only itself.
LEMMA MoveOrdinary ==
  ASSUME IInv, CallerMoves, UNCHANGED <<thread, rounds, server, history>>, QuietOutput
  PROVE  Ordinary
<1>1. Onward(rounds, rounds')
  BY Records, OnwardSame DEF IInv
<1> QED BY <1>1, ThreadSame, ServerSame, QuietOrdinary DEF history

\* A step of someone else that the thread does not notice.
LEMMA ElsewhereOrdinary ==
  ASSUME IInv, UNCHANGED <<thread, rounds, caller, history>>, ServerWaits, QuietOutput
  PROVE  Ordinary
<1>1. Onward(rounds, rounds')
  BY Records, OnwardSame DEF IInv
<1> QED BY <1>1, CallerStays, ThreadSame, QuietOrdinary DEF history

-----------------------------------------------------------------------------
(***************************************************************************)
(* One call, and the caller's way                                          *)
(***************************************************************************)
LEMMA GotoFields ==
  ASSUME caller \in CallerRecord, NEW pc \in Pcs, Goto(pc)
  PROVE  /\ caller' \in CallerRecord /\ caller'.pc = pc /\ caller'.round = caller.round
         /\ caller'.isNew = caller.isNew /\ caller'.request = caller.request
         /\ caller'.results = caller.results
BY DEF Goto, CallerRecord

\* The table of calls in flight.
LEMMA PendingTypes ==
  ASSUME pending \in PendingRecord, NEW g \in Goroutines
  PROVE  /\ Send(g) => pending' \in PendingRecord
         /\ HangUp(g) => pending' \in PendingRecord
         /\ UNCHANGED pending => pending' \in PendingRecord
BY DEF Send, HangUp, PendingRecord

\* A call whose context ended.
LEMMA ForgetFields ==
  ASSUME TypeOK, NEW g \in Goroutines, Forget(g)
  PROVE  pending' \in PendingRecord /\ wire' \in Seq(Frames) /\ QuietOutput
BY Records, PendingTypes, ForgottenLine DEF Forget

\* A call ends: with its answer or without.
LEMMA CallEnds ==
  ASSUME TypeOK, NEW g \in Goroutines, (HangUp(g) /\ UNCHANGED wire) \/ Forget(g)
  PROVE  pending' \in PendingRecord /\ wire' \in Seq(Frames) /\ QuietOutput
BY Records, PendingTypes, ForgetFields, QuietSame

\* The steps of the caller that change nothing but where it is.
Walks == \/ Begin \/ Refuse \/ StartFails \/ Injected \/ InjectFails \/ LookNew \/ LookIdle \/ LookWaiting
         \/ Kicked \/ KickFails \/ Receive \/ Deadline

\* Where the caller goes; it does not come to wait from where it has no timer.
Edge(from, to) ==
  \/ from = "out" /\ caller.isNew /\ to \in {"start", "given up"}
  \/ from = "start" /\ to = "given up"
  \/ from = "start" /\ to \in {"inject", "open"} /\ caller.isNew
  \/ from = "inject" /\ to = "open" /\ caller.isNew
  \/ from = "inject" /\ to = "fail"
  \/ from \in {"look", "turn", "steer", "respond", "wait"} /\ to \in {"steer", "respond", "abort", "complete"}
  \/ from = "look" /\ to = "turn" /\ (caller.isNew \/ thread.waiting = <<>>)
  \/ from = "turn" /\ to = "wait"

\* The steps in which the caller only walks take one of these edges.
LEMMA WalksEdge ==
  ASSUME TypeOK, Placed, Walks
  PROVE  /\ UNCHANGED <<thread, rounds, closer, stopper, client, server, history>>
         /\ pending' \in PendingRecord /\ wire' \in Seq(Frames) /\ QuietOutput
         /\ \E to \in Pcs : Goto(to) /\ Edge(caller.pc, to)
<1> DEFINE Goal == /\ UNCHANGED <<thread, rounds, closer, stopper, client, server, history>>
                   /\ pending' \in PendingRecord /\ wire' \in Seq(Frames) /\ QuietOutput
                   /\ \E to \in Pcs : Goto(to) /\ Edge(caller.pc, to)
<1>0. "caller" \in Goroutines /\ wire \in Seq(Frames) /\ pending \in PendingRecord
  BY Records DEF Goroutines
<1>1. CASE Begin
  <2>1. Goto("start") /\ "start" \in Pcs /\ Edge(caller.pc, "start")
    BY <1>1 DEF Begin, At, Edge, Pcs
  <2> QED BY <1>0, <1>1, <2>1, PendingTypes, QuietSame DEF Begin
<1>2. CASE Refuse
  <2>1. Goto("given up") /\ "given up" \in Pcs /\ Edge(caller.pc, "given up")
    BY <1>2 DEF Refuse, At, Edge, Pcs
  <2> QED BY <1>0, <1>2, <2>1, PendingTypes, QuietSame DEF Refuse
<1>3. CASE StartFails
  <2>1. Goto("given up") /\ "given up" \in Pcs /\ Edge(caller.pc, "given up")
    BY <1>3 DEF StartFails, At, Edge, Pcs
  <2>2. pending' \in PendingRecord /\ wire' \in Seq(Frames) /\ QuietOutput
    BY <1>0, <1>3, CallEnds DEF StartFails
  <2> QED BY <1>3, <2>1, <2>2 DEF StartFails
<1>4. CASE Injected
  <2>1. Goto("open") /\ "open" \in Pcs /\ Edge(caller.pc, "open")
    BY <1>4 DEF Injected, At, Edge, Pcs, Placed
  <2> QED BY <1>0, <1>4, <2>1, PendingTypes, QuietSame DEF Injected
<1>5. CASE InjectFails
  <2>1. Goto("fail") /\ "fail" \in Pcs /\ Edge(caller.pc, "fail")
    BY <1>5 DEF InjectFails, At, Edge, Pcs
  <2>2. pending' \in PendingRecord /\ wire' \in Seq(Frames) /\ QuietOutput
    BY <1>0, <1>5, CallEnds DEF InjectFails
  <2> QED BY <1>5, <2>1, <2>2 DEF InjectFails
<1>6. CASE LookNew
  <2>1. Goto("turn") /\ "turn" \in Pcs /\ Edge(caller.pc, "turn")
    BY <1>6 DEF LookNew, At, Edge, Pcs
  <2> QED BY <1>0, <1>6, <2>1, PendingTypes, QuietSame DEF LookNew
<1>7. CASE LookIdle
  <2>1. \E to \in {"turn", "abort"} : Goto(to)
    BY <1>7 DEF LookIdle
  <2>2. \A to \in {"turn", "abort"} : to \in Pcs /\ Edge(caller.pc, to)
    BY <1>7 DEF LookIdle, At, Edge, Pcs
  <2>3. pending' \in PendingRecord
    BY <1>0, <1>7, PendingTypes DEF LookIdle
  <2> QED BY <1>0, <1>7, <2>1, <2>2, <2>3, QuietSame DEF LookIdle
<1>8. CASE LookWaiting
  <2>1. \E to \in {"respond", "abort", "steer"} : Goto(to)
    BY <1>8 DEF LookWaiting
  <2>2. \A to \in {"respond", "abort", "steer"} : to \in Pcs /\ Edge(caller.pc, to)
    BY <1>8 DEF LookWaiting, At, Edge, Pcs
  <2>3. pending' \in PendingRecord
    BY <1>0, <1>8, PendingTypes DEF LookWaiting
  <2> QED BY <1>0, <1>8, <2>1, <2>2, <2>3, QuietSame DEF LookWaiting
<1>9. CASE Kicked
  <2>1. \E to \in Pcs : Goto(to) /\ Edge(caller.pc, to)
    <3>1. CASE At("turn")
      <4>1. Goto("wait") /\ "wait" \in Pcs /\ Edge(caller.pc, "wait")
        BY <1>9, <3>1 DEF Kicked, At, Edge, Pcs
      <4> QED BY <4>1
    <3>2. CASE ~At("turn")
      <4>1. Goto("respond") /\ "respond" \in Pcs /\ Edge(caller.pc, "respond")
        BY <1>9, <3>2 DEF Kicked, At, Edge, Pcs
      <4> QED BY <4>1
    <3> QED BY <3>1, <3>2
  <2> QED BY <1>0, <1>9, <2>1, PendingTypes, QuietSame DEF Kicked
<1>10. CASE KickFails
  <2>1. Goto("abort") /\ "abort" \in Pcs /\ Edge(caller.pc, "abort")
    BY <1>10 DEF KickFails, At, Edge, Pcs
  <2>2. pending' \in PendingRecord /\ wire' \in Seq(Frames) /\ QuietOutput
    BY <1>0, <1>10, CallEnds DEF KickFails
  <2> QED BY <1>10, <2>1, <2>2 DEF KickFails
<1>11. CASE Receive
  <2>1. Goto("complete") /\ "complete" \in Pcs /\ Edge(caller.pc, "complete")
    BY <1>11 DEF Receive, At, Edge, Pcs
  <2> QED BY <1>0, <1>11, <2>1, PendingTypes, QuietSame DEF Receive
<1>12. CASE Deadline
  <2>1. Goto("abort") /\ "abort" \in Pcs /\ Edge(caller.pc, "abort")
    BY <1>12 DEF Deadline, At, Edge, Pcs
  <2> QED BY <1>0, <1>12, <2>1, PendingTypes, QuietSame DEF Deadline
<1> HIDE DEF Goal
<1> QED BY <1>1, <1>2, <1>3, <1>4, <1>5, <1>6, <1>7, <1>8, <1>9, <1>10, <1>11, <1>12 DEF Walks, Goal

\* No edge enters a round, leaves one, or begins to wait without a timer.
LEMMA EdgeMoves ==
  ASSUME IInv, NEW to \in Pcs, Goto(to), Edge(caller.pc, to)
  PROVE  CallerMoves
<1>1. /\ caller'.pc = to /\ caller'.round = caller.round /\ caller'.isNew = caller.isNew
  BY Records, GotoFields DEF IInv
<1>2. caller'.pc \in InRound <=> caller.pc \in InRound
  BY <1>1 DEF Edge, InRound
<1>3. /\ caller'.pc = "open" => Starting
      /\ Starting' => Starting
      /\ caller'.pc \in {"start", "inject"} => caller'.isNew
  BY <1>1 DEF Edge, Starting
<1>4. thread.waiting = <<>> => ~HasUnreported(thread.waiting)
  BY DEF HasUnreported
<1>5. Critical' => Critical \/ ~HasUnreported(thread.waiting)
  BY <1>1, <1>4 DEF Edge, Critical
<1> QED BY <1>1, <1>2, <1>3, <1>5 DEF CallerMoves

\* So the steps that only walk are ordinary.
LEMMA WalksStep ==
  ASSUME IInv, Walks
  PROVE  TypeOK' /\ Ordinary
<1>1. PICK to \in Pcs : Goto(to) /\ Edge(caller.pc, to)
  BY WalksEdge DEF IInv
<1>2. /\ UNCHANGED <<thread, rounds, closer, stopper, client, server, history>>
      /\ pending' \in PendingRecord /\ wire' \in Seq(Frames) /\ QuietOutput
  BY WalksEdge DEF IInv
<1>3. caller' \in CallerRecord
  BY <1>1, Records, GotoFields DEF IInv
<1>4. TypeOK'
  BY <1>2, <1>3, Records, TypesNext DEF IInv, history
<1> QED BY <1>1, <1>2, <1>4, EdgeMoves, MoveOrdinary

-----------------------------------------------------------------------------
(***************************************************************************)
(* The goroutines that close and interrupt, and the app-server             *)
(***************************************************************************)
\* Steps that the thread and its caller do not notice.
ElsewhereTypes ==
  /\ UNCHANGED <<thread, rounds, caller, history>>
  /\ closer' \in CloserRecord /\ stopper' \in StopperRecord /\ client' \in ClientRecord
  /\ pending' \in PendingRecord /\ server' \in ServerRecord /\ wire' \in Seq(Frames)
  /\ ServerWaits /\ QuietOutput

\* These steps are ordinary.
LEMMA ElsewhereStep ==
  ASSUME IInv, ElsewhereTypes
  PROVE  TypeOK' /\ Ordinary
<1>1. TypeOK'
  BY Records, TypesNext DEF IInv, ElsewhereTypes, history
<1> QED BY <1>1, ElsewhereOrdinary DEF ElsewhereTypes

\* Close goes from one of its steps to another.
LEMMA CloserMoves ==
  ASSUME closer \in CloserRecord, NEW pc, CloserGoto(pc),
         pc \in {"out", "taken", "begin", "interrupt", "wait", "unsubscribe", "unregister", "take", "done"}
  PROVE  closer' \in CloserRecord
BY DEF CloserGoto, CloserRecord

CloserWalks == CloseLooks \/ CloseInterrupted \/ CloseWaited \/ CloseNotInterrupted \/ CloseUnsubscribed

\* Close, up to unregister.
LEMMA CloserWalksStep ==
  ASSUME IInv, CloserWalks
  PROVE  ElsewhereTypes
<1>0. TypeOK /\ "closer" \in Goroutines /\ closer \in CloserRecord /\ stopper \in StopperRecord /\ client \in ClientRecord
      /\ server \in ServerRecord /\ wire \in Seq(Frames) /\ pending \in PendingRecord
  BY Records DEF IInv, Goroutines
<1>1. UNCHANGED <<thread, rounds, caller, stopper, client, server, history>>
  BY DEF CloserWalks, CloseLooks, CloseInterrupted, CloseWaited, CloseNotInterrupted, CloseUnsubscribed
<1>2. closer' \in CloserRecord
  BY <1>0, CloserMoves
     DEF CloserWalks, CloseLooks, CloseInterrupted, CloseWaited, CloseNotInterrupted, CloseUnsubscribed
<1>3. pending' \in PendingRecord /\ wire' \in Seq(Frames) /\ QuietOutput
  <2>1. CASE CloseLooks
    BY <1>0, <2>1, PendingTypes, QuietSame DEF CloseLooks
  <2>2. CASE CloseInterrupted
    BY <1>0, <2>2, PendingTypes, QuietSame DEF CloseInterrupted
  <2>3. CASE CloseWaited
    BY <1>0, <2>3, PendingTypes, QuietSame DEF CloseWaited
  <2>4. CASE CloseNotInterrupted
    BY <1>0, <2>4, PendingTypes, QuietSame, ForgottenLine DEF CloseNotInterrupted
  <2>5. CASE CloseUnsubscribed
    BY <1>0, <2>5, CallEnds DEF CloseUnsubscribed
  <2> QED BY <2>1, <2>2, <2>3, <2>4, <2>5 DEF CloserWalks
<1> QED BY <1>0, <1>1, <1>2, <1>3, ServerSame DEF ElsewhereTypes

\* unregister changes the client only.
LEMMA UnregisterStep ==
  ASSUME IInv, Unregister
  PROVE  ElsewhereTypes
<1>0. TypeOK /\ closer \in CloserRecord /\ stopper \in StopperRecord /\ client \in ClientRecord
      /\ server \in ServerRecord /\ wire \in Seq(Frames) /\ pending \in PendingRecord
  BY Records DEF IInv
<1>1. closer' \in CloserRecord
  BY <1>0, CloserMoves DEF Unregister
<1>2. client' \in ClientRecord
  BY <1>0 DEF Unregister, ClientRecord
<1> QED BY <1>0, <1>1, <1>2, ServerSame, QuietSame DEF Unregister, ElsewhereTypes

\* interruptTurn changes its own call only.
LEMMA StopperStep ==
  ASSUME IInv, StopperLooks \/ StopperReturns
  PROVE  ElsewhereTypes
<1>0. TypeOK /\ "stopper" \in Goroutines /\ closer \in CloserRecord /\ stopper \in StopperRecord /\ client \in ClientRecord
      /\ server \in ServerRecord /\ wire \in Seq(Frames) /\ pending \in PendingRecord
  BY Records DEF IInv, Goroutines
<1>1. stopper' \in StopperRecord
  BY <1>0 DEF StopperLooks, StopperReturns, StopperRecord
<1>2. CASE StopperLooks
  BY <1>0, <1>1, <1>2, PendingTypes, QuietSame, ServerSame DEF StopperLooks, ElsewhereTypes
<1>3. CASE StopperReturns
  <2>1. pending' \in PendingRecord /\ wire' \in Seq(Frames) /\ QuietOutput
    BY <1>0, <1>3, CallEnds DEF StopperReturns
  <2> QED BY <1>0, <1>1, <1>3, <2>1, ServerSame DEF StopperReturns, ElsewhereTypes
<1> QED BY <1>2, <1>3

\* The app-server answers a request that opens no turn,
LEMMA ServesStep ==
  ASSUME IInv, NEW g \in Goroutines, ServeError(g) \/ ServeCall(g)
  PROVE  ElsewhereTypes
<1>0. TypeOK /\ closer \in CloserRecord /\ stopper \in StopperRecord /\ client \in ClientRecord
      /\ server \in ServerRecord /\ wire \in Seq(Frames) /\ pending \in PendingRecord
  BY Records DEF IInv
<1>1. PICK f \in Frames : Write(<<f>>) /\ f.kind \notin ReportLines \cup ToolLines
  BY FrameMade DEF ServeError, ServeCall, ReportLines, ToolLines
<1>2. wire' \in Seq(Frames) /\ QuietOutput
  BY <1>0, <1>1, WriteOne, QuietAppend
<1>3. pending' \in PendingRecord
  BY <1>0 DEF ServeError, ServeCall, PendingRecord
<1>4. server' \in ServerRecord /\ ServerWaits
  <2>1. CASE ServeError(g)
    BY <1>0, <2>1, ServerSame DEF ServeError
  <2>2. CASE ServeCall(g)
    <3>1. PICK b \in BOOLEAN : server' = [server EXCEPT !.stopping = b]
      BY <1>0, <2>2 DEF ServeCall, ServerRecord
    <3> QED BY <1>0, <3>1 DEF ServerRecord, ServerWaits
  <2> QED BY <2>1, <2>2
<1> QED BY <1>0, <1>2, <1>3, <1>4 DEF ServeError, ServeCall, ElsewhereTypes

\* or one that opens a turn.
LEMMA ServeTurnStep ==
  ASSUME IInv, ServeTurn
  PROVE  ElsewhereTypes
<1>0. TypeOK /\ closer \in CloserRecord /\ stopper \in StopperRecord /\ client \in ClientRecord
      /\ server \in ServerRecord /\ wire \in Seq(Frames) /\ pending \in PendingRecord
  BY Records DEF IInv
<1>1. PICK n : n = server.turns + 1
  OBVIOUS
<1>2. n \in 1..MaxTurns /\ n \in 0..MaxTurns
  BY <1>0, <1>1, CodexAssumption DEF ServeTurn, ServerRecord
<1>3. PICK s : s = [kind |-> "started", of |-> n]
  OBVIOUS
<1>4. PICK r : r = [kind |-> "result", of |-> "caller"]
  OBVIOUS
<1>5. /\ s \in Frames /\ s.kind \notin ReportLines \cup ToolLines
      /\ r \in Frames /\ r.kind \notin ReportLines \cup ToolLines
  BY <1>2, <1>3, <1>4, FrameMade DEF Goroutines, ReportLines, ToolLines
<1>6. Write(<<r, s>>) \/ Write(<<s, r>>)
  BY <1>1, <1>3, <1>4 DEF ServeTurn
<1>7. wire' \in Seq(Frames) /\ QuietOutput
  BY <1>0, <1>5, <1>6, WriteTwo, QuietTwice
<1>8. server' = [server EXCEPT !.turns = n, !.turn = n, !.stopping = FALSE]
  BY <1>1 DEF ServeTurn
<1>9. server' \in ServerRecord /\ ServerWaits
  BY <1>0, <1>2, <1>8 DEF ServerRecord, ServerWaits
<1>10. pending' \in PendingRecord
  BY <1>0 DEF ServeTurn, PendingRecord, Goroutines
<1> QED BY <1>0, <1>7, <1>9, <1>10 DEF ServeTurn, ElsewhereTypes

\* The app-server writes what is neither a report nor a tool call.
LEMMA WorksQuietly ==
  ASSUME IInv, Works, ~ \E x \in Reports : Unsent(x) /\ Write(<<[kind |-> KindOf(x), of |-> x]>>)
  PROVE  ElsewhereTypes
<1>0. TypeOK /\ closer \in CloserRecord /\ stopper \in StopperRecord /\ client \in ClientRecord
      /\ server \in ServerRecord /\ wire \in Seq(Frames) /\ pending \in PendingRecord
  BY Records DEF IInv
<1>1. PICK f \in Frames : Write(<<f>>) /\ f.kind \notin ReportLines \cup ToolLines
  BY FrameMade DEF Works, ReportLines, ToolLines
<1> QED BY <1>0, <1>1, WriteOne, QuietAppend, ServerSame DEF Works, ElsewhereTypes

\* A turn ends; the calls of it that wait are no longer asked for.
LEMMA TurnEndsStep ==
  ASSUME IInv, TurnEnds
  PROVE  ElsewhereTypes
<1>0. TypeOK /\ closer \in CloserRecord /\ stopper \in StopperRecord /\ client \in ClientRecord
      /\ server \in ServerRecord /\ wire \in Seq(Frames) /\ pending \in PendingRecord
  BY Records DEF IInv
<1>1. PICK f \in Frames : Write(<<f>>) /\ f.kind \notin ReportLines \cup ToolLines
  <2>1. \A s \in {"completed"} \cup Failures : Write(<<[kind |-> "completed", of |-> s]>>)
          => \E f \in Frames : Write(<<f>>) /\ f.kind \notin ReportLines \cup ToolLines
    BY FrameMade DEF ReportLines, ToolLines
  <2>2. \A m \in Unreadable : Write(<<[kind |-> "unreadable", of |-> m]>>)
          => \E f \in Frames : Write(<<f>>) /\ f.kind \notin ReportLines \cup ToolLines
    BY FrameMade DEF ReportLines, ToolLines
  <2> QED BY <2>1, <2>2 DEF TurnEnds
<1>2. server' \in ServerRecord /\ ServerWaits
  <2>1. server' = [server EXCEPT !.turn = 0, !.asked = {}] /\ 0 \in 0..MaxTurns
    BY CodexAssumption DEF TurnEnds
  <2> QED BY <1>0, <2>1 DEF ServerRecord, ServerWaits
<1> QED BY <1>0, <1>1, <1>2, WriteOne, QuietAppend DEF TurnEnds, ElsewhereTypes

\* The process dies; its output stays to be read.
LEMMA DiesStep ==
  ASSUME IInv, Dies
  PROVE  ElsewhereTypes
<1>0. TypeOK /\ closer \in CloserRecord /\ stopper \in StopperRecord /\ client \in ClientRecord
      /\ server \in ServerRecord /\ wire \in Seq(Frames) /\ pending \in PendingRecord
  BY Records DEF IInv
<1>1. server' \in ServerRecord /\ ServerWaits
  BY <1>0 DEF Dies, ServerRecord, ServerWaits
<1> QED BY <1>0, <1>1, QuietSame DEF Dies, ElsewhereTypes

\* A response goes to the call it answers.
LEMMA ReadsResponseStep ==
  ASSUME IInv, ReadsResponse
  PROVE  ElsewhereTypes
<1>0. TypeOK /\ closer \in CloserRecord /\ stopper \in StopperRecord /\ client \in ClientRecord
      /\ server \in ServerRecord /\ wire \in Seq(Frames) /\ pending \in PendingRecord
  BY Records DEF IInv
<1>1. Line.of \in Goroutines /\ wire' \in Seq(Frames) /\ QuietOutput
  BY <1>0, ReadsLine, FrameKinds DEF ReadsResponse
<1>2. pending' \in PendingRecord
  BY <1>0, <1>1 DEF ReadsResponse, PendingRecord
<1> QED BY <1>0, <1>1, <1>2, ServerSame DEF ReadsResponse, ElsewhereTypes

\* The end of the output fails the calls in flight.
LEMMA OutputEndsStep ==
  ASSUME IInv, OutputEnds
  PROVE  ElsewhereTypes
<1>0. TypeOK /\ closer \in CloserRecord /\ stopper \in StopperRecord /\ client \in ClientRecord
      /\ server \in ServerRecord /\ wire \in Seq(Frames) /\ pending \in PendingRecord
  BY Records DEF IInv
<1>1. client' \in ClientRecord /\ pending' \in PendingRecord
  BY <1>0 DEF OutputEnds, ClientRecord, PendingRecord
<1> QED BY <1>0, <1>1, QuietSame, ServerSame DEF OutputEnds, ElsewhereTypes

-----------------------------------------------------------------------------
(***************************************************************************)
(* Steps that change the thread, its timers or the end of a round, and no  *)
(* list                                                                    *)
(***************************************************************************)
Others == /\ closer' \in CloserRecord /\ stopper' \in StopperRecord /\ client' \in ClientRecord
          /\ pending' \in PendingRecord /\ server' \in ServerRecord /\ wire' \in Seq(Frames)
          /\ misread' \in BOOLEAN

\* What a step leaves alone.
LEMMA OthersSame ==
  ASSUME TypeOK
  PROVE  /\ UNCHANGED closer => closer' \in CloserRecord
         /\ UNCHANGED stopper => stopper' \in StopperRecord
         /\ UNCHANGED client => client' \in ClientRecord
         /\ UNCHANGED pending => pending' \in PendingRecord
         /\ UNCHANGED server => server' \in ServerRecord /\ ServerWaits
         /\ UNCHANGED wire => wire' \in Seq(Frames) /\ QuietOutput
         /\ UNCHANGED misread => misread' \in BOOLEAN
BY Records, ServerSame, QuietSame

\* A step that changes the thread but none of its lists is ordinary.
LEMMA ThreadStep ==
  ASSUME IInv, UNCHANGED <<caller, billed, dropped, told, answered>>, thread' \in ThreadRecord, ThreadStays,
         Onward(rounds, rounds'), Others, ServerWaits, QuietOutput
  PROVE  TypeOK' /\ Ordinary
<1>1. TypeOK'
  BY Records, TypesNext DEF IInv, Others, Onward
<1>2. Ordinary
  BY CallerStays, QuietOrdinary
<1> QED BY <1>1, <1>2

\* The thread is registered, and has no round yet.
LEMMA ThreadStartsStep ==
  ASSUME IInv, ThreadStarts
  PROVE  TypeOK' /\ Ordinary
<1>0. TypeOK /\ Placed /\ thread \in ThreadRecord /\ client \in ClientRecord /\ pending \in PendingRecord
      /\ "caller" \in Goroutines
  BY Records DEF IInv, Goroutines
<1>1. thread' \in ThreadRecord /\ ThreadStays
  BY <1>0 DEF ThreadStarts, ThreadRecord, ThreadStays
<1>2. client' \in ClientRecord
  BY <1>0 DEF ThreadStarts, ClientRecord
<1>3. pending' \in PendingRecord
  BY <1>0, PendingTypes DEF ThreadStarts
<1>4. PICK to \in {"inject", "open"} : Goto(to)
  BY DEF ThreadStarts
<1>5. to \in Pcs /\ Edge(caller.pc, to)
  BY <1>0, <1>4 DEF ThreadStarts, At, Edge, Pcs, Placed
<1>6. CallerMoves /\ caller' \in CallerRecord
  BY <1>0, <1>4, <1>5, EdgeMoves, GotoFields, Records
<1>7. UNCHANGED <<rounds, closer, stopper, server, wire, billed, dropped, told, answered, misread>>
  BY DEF ThreadStarts, history
<1>8. Onward(rounds, rounds')
  BY <1>0, <1>7, Records, OnwardSame
<1>9. ServerWaits /\ QuietOutput
  BY <1>0, <1>7, OthersSame
<1>10. TypeOK'
  BY <1>0, <1>1, <1>2, <1>3, <1>6, <1>7, Records, TypesNext
<1> QED BY <1>1, <1>6, <1>7, <1>8, <1>9, <1>10, QuietOrdinary

\* The caller begins to wait with a timer for what no round reported.
LEMMA ArmTimerStep ==
  ASSUME IInv, ArmTimer
  PROVE  TypeOK' /\ Ordinary
<1>0. TypeOK /\ Placed /\ caller.pc = "respond" /\ thread \in ThreadRecord
  BY Records DEF IInv, ArmTimer, At
<1>1. thread.round = caller.round /\ caller.round \in RoundIds
  BY <1>0, CodexAssumption DEF Placed, InRound, ThreadRecord, RoundIds
<1>2. /\ Onward(rounds, rounds')
      /\ HasUnreported(thread.waiting) => Timer(rounds'[thread.round])
  BY <1>0, <1>1, Records, OnwardArmed, OnwardSame DEF ArmTimer, NeedsTimer, Timer
<1>3. caller' \in CallerRecord /\ caller'.pc = "wait" /\ caller'.round = caller.round
  BY <1>0, Records, GotoFields DEF ArmTimer, Pcs
<1>4. CallerMoves
  BY <1>0, <1>2, <1>3 DEF CallerMoves, InRound, Starting, Critical
<1>5. UNCHANGED <<thread, closer, stopper, client, pending, server, wire, billed, dropped, told, answered, misread>>
  BY DEF ArmTimer, history
<1>6. ThreadStays /\ ServerWaits /\ QuietOutput
  BY <1>0, <1>5, OthersSame, ThreadSame
<1>7. TypeOK'
  BY <1>0, <1>2, <1>3, <1>5, Records, TypesNext DEF Onward
<1> QED BY <1>2, <1>4, <1>5, <1>6, <1>7, QuietOrdinary

\* A timer fires.
LEMMA TimerFiresStep ==
  ASSUME IInv, NEW r \in RoundIds, TimerFires(r)
  PROVE  TypeOK' /\ Ordinary
<1>0. TypeOK
  BY DEF IInv
<1>1. UNCHANGED <<thread, caller, closer, stopper, client, pending, server, wire, billed, dropped, told, answered, misread>>
  BY DEF TimerFires, history
<1>2. Onward(rounds, rounds')
  BY <1>0, Records, OnwardFires
<1>3. thread' \in ThreadRecord /\ ThreadStays /\ Others /\ ServerWaits /\ QuietOutput
  BY <1>0, <1>1, Records, ThreadSame, OthersSame DEF Others
<1> QED BY <1>1, <1>2, <1>3, ThreadStep

\* A callback ends its batch, or finds that there is none.
LEMMA TimerCallsBackStep ==
  ASSUME IInv, NEW r \in RoundIds, TimerCallsBack(r)
  PROVE  TypeOK' /\ Ordinary
<1>0. TypeOK
  BY DEF IInv
<1>1. UNCHANGED <<thread, caller, closer, stopper, client, pending, server, wire, billed, dropped, told, answered, misread>>
  BY DEF TimerCallsBack, history
<1>2. /\ rounds' \in [RoundIds -> RoundRecord]
      /\ \A q \in RoundIds :
           /\ rounds'[q].settled = rounds[q].settled /\ rounds'[q].gathered = rounds[q].gathered
           /\ WellEnded(rounds[q]) => WellEnded(rounds'[q])
           /\ Timer(rounds[q]) /\ (q = r => EndsBatch(r)) => Timer(rounds'[q])
  BY <1>0, Records, CallsBackFields
<1>3. ServerWaits /\ QuietOutput
  BY <1>0, <1>1, OthersSame
<1>4. CallerMoves /\ ThreadStays
  BY <1>1, CallerStays, ThreadSame
<1>5. PlacedSame
  BY <1>2, <1>4 DEF PlacedSame, CallerMoves, ThreadStays
<1>6. TimedSame
  BY <1>1, <1>2 DEF TimedSame, Critical, EndsBatch
<1>7. UsageSame
  BY <1>1, <1>2, <1>3 DEF UsageSame, Kept, QuietOutput
<1>8. ToolsSame
  BY <1>1, <1>3 DEF ToolsSame, ServerWaits, QuietOutput
<1>9. Ended'
  BY <1>2 DEF IInv, Ended, WellEnded
<1>10. TypeOK'
  BY <1>0, <1>1, <1>2, Records, TypesNext
<1> QED BY <1>5, <1>6, <1>7, <1>8, <1>9, <1>10 DEF Ordinary

\* Close ends the open round before anything else.
LEMMA CloseStep ==
  ASSUME IInv, NEW keeps \in BOOLEAN, Close(keeps)
  PROVE  TypeOK' /\ Ordinary
<1>0. TypeOK /\ thread \in ThreadRecord
  BY Records DEF IInv
<1>1. UNCHANGED <<caller, stopper, client, pending, server, wire, billed, dropped, told, answered, misread>>
  BY DEF Close, history
<1>2. Onward(rounds, rounds')
  BY <1>0, Records, OnwardFinishedOpen DEF Close, Ends, Errors
<1>3. thread' \in ThreadRecord /\ ThreadStays
  BY <1>0 DEF Close, ThreadRecord, ThreadStays
<1>4. closer' \in CloserRecord
  BY <1>0 DEF Close, ThreadRecord, CloserRecord
<1>5. Others /\ ServerWaits /\ QuietOutput
  BY <1>0, <1>1, <1>4, OthersSame DEF Others
<1> QED BY <1>1, <1>2, <1>3, <1>5, ThreadStep

\* Bags of reports.
LEMMA BagTypes ==
  ASSUME NEW a \in [Reports -> Nat], NEW b \in [Reports -> Nat]
  PROVE  /\ Plus(a, b) \in [Reports -> Nat] /\ \A x \in Reports : Plus(a, b)[x] = a[x] + b[x]
         /\ None(Reports) \in [Reports -> Nat] /\ \A x \in Reports : None(Reports)[x] = 0
BY DEF Plus, None

\* What the close returns and what it loses.
LEMMA SplitTypes ==
  ASSUME thread.carried \in [Reports -> Nat]
  PROVE  /\ Returned \in [Reports -> Nat] /\ Lost \in [Reports -> Nat]
         /\ \A x \in Reports : /\ Returned[x] + Lost[x] = thread.carried[x]
                               /\ Lost[x] > 0 /\ closer.keeps => x \in Declines
<1>1. /\ Returned \in [Reports -> Nat]
      /\ \A x \in Reports : Returned[x] = IF closer.keeps /\ x \notin Declines THEN thread.carried[x] ELSE 0
  BY DEF Returned
<1>2. Lost \in [Reports -> Nat] /\ \A x \in Reports : Lost[x] = thread.carried[x] - Returned[x]
  BY <1>1 DEF Lost
<1> QED BY <1>1, <1>2

\* The close takes what the thread carries, and returns its usage or loses it.
LEMMA CloseTakesStep ==
  ASSUME IInv, CloseTakes
  PROVE  TypeOK' /\ Ordinary
<1>0. TypeOK /\ thread \in ThreadRecord /\ caller \in CallerRecord /\ closer \in CloserRecord
      /\ billed \in [Reports -> Nat] /\ dropped \in [Reports -> Nat]
  BY Records DEF IInv
<1>1. PICK n \in [Reports -> Nat] : n = None(Reports) /\ \A x \in Reports : n[x] = 0
  BY <1>0, BagTypes
<1>2. /\ thread' \in ThreadRecord /\ thread'.round = thread.round /\ thread'.waiting = thread.waiting
      /\ thread'.carried = n /\ thread'.state = thread.state
  <2>1. thread' = [thread EXCEPT !.carried = n]
    BY <1>1 DEF CloseTakes
  <2> QED BY <1>0, <1>1, <2>1 DEF ThreadRecord
<1>3. /\ billed' \in [Reports -> Nat] /\ dropped' \in [Reports -> Nat]
      /\ \A x \in Reports : billed'[x] + dropped'[x] = billed[x] + dropped[x] + thread.carried[x]
  <2>1. PICK r : r = Returned
    OBVIOUS
  <2>2. PICK l : l = Lost
    OBVIOUS
  <2>3. r \in [Reports -> Nat] /\ l \in [Reports -> Nat] /\ \A x \in Reports : r[x] + l[x] = thread.carried[x]
    BY <1>0, <2>1, <2>2, SplitTypes DEF ThreadRecord
  <2>4. PICK b \in [Reports -> Nat] : b = Plus(billed, r) /\ \A x \in Reports : b[x] = billed[x] + r[x]
    BY <1>0, <2>3, BagTypes
  <2>5. PICK d \in [Reports -> Nat] : d = Plus(dropped, l) /\ \A x \in Reports : d[x] = dropped[x] + l[x]
    BY <1>0, <2>3, BagTypes
  <2>6. billed' = b /\ dropped' = d
    BY <2>1, <2>2, <2>4, <2>5 DEF CloseTakes
  <2>7. thread.carried \in [Reports -> Nat]
    BY <1>0 DEF ThreadRecord
  <2> QED BY <1>0, <2>3, <2>4, <2>5, <2>6, <2>7
<1>4. UNCHANGED <<rounds, stopper, client, pending, server, wire, told, answered, misread>>
  BY DEF CloseTakes
<1>5. closer' \in CloserRecord
  BY <1>0, CloserMoves DEF CloseTakes
<1>6. caller' \in CallerRecord /\ CallerMoves
  <2>1. CASE At("fail") \/ At("flush")
    <3>1. caller' \in CallerRecord /\ caller'.pc = "given up" /\ caller'.round = caller.round
      BY <1>0, <2>1, GotoFields DEF CloseTakes, Pcs
    <3> QED BY <2>1, <3>1 DEF CallerMoves, At, InRound, Starting, Critical
  <2>2. CASE ~(At("fail") \/ At("flush"))
    <3>1. UNCHANGED caller
      BY <2>2 DEF CloseTakes
    <3> QED BY <1>0, <3>1, CallerStays
  <2> QED BY <2>1, <2>2
<1>7. ServerWaits /\ QuietOutput
  BY <1>0, <1>4, OthersSame
<1>8. TypeOK'
  BY <1>0, <1>2, <1>3, <1>4, <1>5, <1>6, Records, TypesNext
<1>9. PlacedSame
  BY <1>2, <1>4, <1>6 DEF PlacedSame, CallerMoves
<1>10. TimedSame
  BY <1>2, <1>4, <1>6 DEF TimedSame, CallerMoves
<1>11. \A x \in Reports : Kept(x)' = Kept(x)
  BY <1>0, <1>1, <1>2, <1>3 DEF Kept, ThreadRecord
<1>12. UsageSame
  BY <1>4, <1>7, <1>11 DEF UsageSame, QuietOutput
<1>13. ToolsSame
  BY <1>2, <1>4, <1>7 DEF ToolsSame, ServerWaits, QuietOutput
<1>14. Ended'
  BY <1>4 DEF IInv, Ended
<1> QED BY <1>8, <1>9, <1>10, <1>12, <1>13, <1>14 DEF Ordinary

\* So does the manager, before it extends the thread.
LEMMA PlanExtendStep ==
  ASSUME IInv, PlanExtend
  PROVE  TypeOK' /\ Ordinary
<1>0. TypeOK /\ thread \in ThreadRecord /\ caller \in CallerRecord
      /\ billed \in [Reports -> Nat] /\ dropped \in [Reports -> Nat] /\ thread.carried \in [Reports -> Nat]
  BY Records DEF IInv, ThreadRecord
<1>1. PICK n \in [Reports -> Nat] : n = None(Reports) /\ \A x \in Reports : n[x] = 0
  BY <1>0, BagTypes
<1>2. /\ thread' \in ThreadRecord /\ thread'.round = thread.round /\ thread'.waiting = thread.waiting
      /\ thread'.carried = n /\ thread'.state = thread.state
  <2>1. thread' = [thread EXCEPT !.carried = n]
    BY <1>1 DEF PlanExtend, TakeCarried
  <2> QED BY <1>0, <1>1, <2>1 DEF ThreadRecord
<1>3. billed' \in [Reports -> Nat] /\ \A x \in Reports : billed'[x] = billed[x] + thread.carried[x]
  <2>1. PICK b \in [Reports -> Nat] :
          b = Plus(billed, thread.carried) /\ \A x \in Reports : b[x] = billed[x] + thread.carried[x]
    BY <1>0, BagTypes
  <2> QED BY <2>1 DEF PlanExtend, TakeCarried
<1>4. UNCHANGED <<rounds, closer, stopper, client, pending, server, wire, dropped, told, answered, misread>>
  BY DEF PlanExtend, TakeCarried
<1>5. PICK newInput \in BOOLEAN :
        caller' = [caller EXCEPT !.pc = "open", !.newInput = newInput, !.results = caller.pendingCalls]
  BY DEF PlanExtend, TakeCarried
<1>6. /\ caller' \in CallerRecord /\ caller'.pc = "open" /\ caller'.round = caller.round
      /\ caller'.isNew = caller.isNew
  BY <1>0, <1>5 DEF CallerRecord, Pcs
<1>7. caller.pc = "out" /\ ~caller.isNew /\ caller.round < MaxRounds
  BY DEF PlanExtend, At
<1>8. ServerWaits /\ QuietOutput
  BY <1>0, <1>4, OthersSame
<1>9. TypeOK'
  BY <1>0, <1>2, <1>3, <1>4, <1>6, Records, TypesNext
<1>10. PlacedSame
  BY <1>2, <1>4, <1>6, <1>7 DEF PlacedSame, InRound, Starting
<1>11. TimedSame
  BY <1>2, <1>4, <1>6 DEF TimedSame, Critical
<1>12. \A x \in Reports : Kept(x)' = Kept(x)
  BY <1>0, <1>1, <1>2, <1>3, <1>4 DEF Kept
<1>13. UsageSame
  BY <1>4, <1>8, <1>12 DEF UsageSame, QuietOutput
<1>14. ToolsSame
  BY <1>2, <1>4, <1>8 DEF ToolsSame, ServerWaits, QuietOutput
<1>15. Ended'
  BY <1>4 DEF IInv, Ended
<1> QED BY <1>9, <1>10, <1>11, <1>13, <1>14, <1>15 DEF Ordinary

\* And when it detaches the thread, before it closes it.
LEMMA ManagerTakesStep ==
  ASSUME IInv, ManagerTakes
  PROVE  TypeOK' /\ Ordinary
<1>0. TypeOK /\ thread \in ThreadRecord /\ caller \in CallerRecord /\ closer \in CloserRecord
      /\ billed \in [Reports -> Nat] /\ dropped \in [Reports -> Nat] /\ thread.carried \in [Reports -> Nat]
  BY Records DEF IInv, ThreadRecord
<1>1. PICK n \in [Reports -> Nat] : n = None(Reports) /\ \A x \in Reports : n[x] = 0
  BY <1>0, BagTypes
<1>2. /\ thread' \in ThreadRecord /\ thread'.round = thread.round /\ thread'.waiting = thread.waiting
      /\ thread'.carried = n /\ thread'.state = thread.state
  <2>1. thread' = [thread EXCEPT !.carried = n]
    BY <1>1 DEF ManagerTakes, TakeCarried
  <2> QED BY <1>0, <1>1, <2>1 DEF ThreadRecord
<1>3. billed' \in [Reports -> Nat] /\ \A x \in Reports : billed'[x] = billed[x] + thread.carried[x]
  <2>1. PICK b \in [Reports -> Nat] :
          b = Plus(billed, thread.carried) /\ \A x \in Reports : b[x] = billed[x] + thread.carried[x]
    BY <1>0, BagTypes
  <2> QED BY <2>1 DEF ManagerTakes, TakeCarried
<1>4. UNCHANGED <<rounds, caller, stopper, client, pending, server, wire, dropped, told, answered, misread>>
  BY DEF ManagerTakes
<1>5. closer' \in CloserRecord
  BY <1>0, CloserMoves DEF ManagerTakes
<1>6. caller' \in CallerRecord /\ CallerMoves
  BY <1>0, <1>4, CallerStays
<1>7. ServerWaits /\ QuietOutput
  BY <1>0, <1>4, OthersSame
<1>8. TypeOK'
  BY <1>0, <1>2, <1>3, <1>4, <1>5, <1>6, Records, TypesNext
<1>9. PlacedSame
  BY <1>2, <1>4, <1>6 DEF PlacedSame, CallerMoves
<1>10. TimedSame
  BY <1>2, <1>4, <1>6 DEF TimedSame, CallerMoves
<1>11. \A x \in Reports : Kept(x)' = Kept(x)
  BY <1>0, <1>1, <1>2, <1>3, <1>4 DEF Kept
<1>12. UsageSame
  BY <1>4, <1>7, <1>11 DEF UsageSame, QuietOutput
<1>13. ToolsSame
  BY <1>2, <1>4, <1>7 DEF ToolsSame, ServerWaits, QuietOutput
<1>14. Ended'
  BY <1>4 DEF IInv, Ended
<1> QED BY <1>8, <1>9, <1>10, <1>12, <1>13, <1>14 DEF Ordinary

-----------------------------------------------------------------------------
(***************************************************************************)
(* The reader                                                              *)
(***************************************************************************)
LEMMA ForThreadFields ==
  ASSUME TypeOK, NEW kind, ForThread(kind)
  PROVE  /\ wire' = Cut(wire, 1) /\ 1 \in 1..Len(wire) /\ Line = wire[1] /\ Line \in Frames /\ Line.kind = kind
         /\ wire' \in Seq(Frames) /\ (kind # "tool" => QuietOutput)
         /\ client' \in ClientRecord
<1>1. client' \in ClientRecord
  BY Records DEF ForThread, ClientRecord
<1>2. wire \in Seq(Frames) /\ TakeLine /\ Line.kind = kind
  BY Records DEF ForThread
<1> QED BY <1>1, <1>2, ReadsLine

\* Work between rounds makes a thread dirty, at most.
LEMMA OffRoundFields ==
  ASSUME NEW t \in ThreadRecord
  PROVE  /\ OffRound(t) \in ThreadRecord /\ OffRound(t).round = t.round /\ OffRound(t).waiting = t.waiting
         /\ OffRound(t).carried = t.carried
         /\ OffRound(t).state = "waiting" => t.state = "waiting"
BY DEF OffRound, ThreadRecord

\* A line that ends no round.
LEMMA NoticesStep ==
  ASSUME IInv, TurnStarted \/ Item
  PROVE  TypeOK' /\ Ordinary
<1>0. TypeOK /\ thread \in ThreadRecord /\ rounds \in [RoundIds -> RoundRecord]
  BY Records DEF IInv
<1>1. UNCHANGED <<rounds, caller, closer, stopper, pending, server, billed, dropped, told, answered, misread>>
  BY DEF TurnStarted, Item, history
<1>2. wire' \in Seq(Frames) /\ QuietOutput /\ client' \in ClientRecord
  BY <1>0, ForThreadFields DEF TurnStarted, Item
<1>3. thread' \in ThreadRecord /\ ThreadStays
  <2>1. CASE Item
    BY <1>0, <2>1, OffRoundFields DEF Item, ThreadStays
  <2>2. CASE TurnStarted
    <3>1. Line.of \in 0..MaxTurns
      BY <1>0, <2>2, ForThreadFields, FrameKinds DEF TurnStarted
    <3>2. PICK t : t = [thread EXCEPT !.turn = Line.of]
      OBVIOUS
    <3>3. /\ t \in ThreadRecord /\ t.round = thread.round /\ t.waiting = thread.waiting
          /\ t.carried = thread.carried /\ t.state = thread.state
      BY <1>0, <3>1, <3>2 DEF ThreadRecord
    <3>4. thread' = thread \/ thread' = OffRound(t)
      BY <2>2, <3>2 DEF TurnStarted
    <3> QED BY <1>0, <3>3, <3>4, OffRoundFields DEF ThreadStays
  <2> QED BY <2>1, <2>2
<1>4. Others /\ ServerWaits /\ Onward(rounds, rounds')
  BY <1>0, <1>1, <1>2, OthersSame, OnwardSame DEF Others
<1> QED BY <1>1, <1>2, <1>3, <1>4, ThreadStep

\* The end of the turn ends the open round.
LEMMA TurnCompletedStep ==
  ASSUME IInv, TurnCompleted
  PROVE  TypeOK' /\ Ordinary
<1>0. TypeOK /\ thread \in ThreadRecord /\ rounds \in [RoundIds -> RoundRecord] /\ 0 \in 0..MaxTurns
  BY Records, CodexAssumption DEF IInv
<1>1. UNCHANGED <<caller, closer, stopper, pending, server, billed, dropped, told, answered, misread>>
  BY DEF TurnCompleted, history
<1>2. wire' \in Seq(Frames) /\ QuietOutput /\ client' \in ClientRecord
  BY <1>0, ForThreadFields DEF TurnCompleted
<1>3. PICK t : t = [thread EXCEPT !.turn = 0]
  OBVIOUS
<1>4. /\ t \in ThreadRecord /\ t.round = thread.round /\ t.waiting = thread.waiting
      /\ t.carried = thread.carried /\ t.state = thread.state
  BY <1>0, <1>3 DEF ThreadRecord
<1>5. PICK u : u = [thread EXCEPT !.turn = 0, !.interrupting = FALSE]
  OBVIOUS
<1>6. /\ u \in ThreadRecord /\ u.round = thread.round /\ u.waiting = thread.waiting
      /\ u.carried = thread.carried /\ u.state = thread.state
  BY <1>0, <1>5 DEF ThreadRecord
<1>7. thread' = t \/ thread' = u \/ thread' = OffRound(t)
  BY <1>3, <1>5 DEF TurnCompleted
<1>8. thread' \in ThreadRecord /\ ThreadStays
  BY <1>4, <1>6, <1>7, OffRoundFields DEF ThreadStays
<1>9. OutcomeOf(Line.of) \in Ends
  BY DEF OutcomeOf, MapTurnError, Ends, Errors
<1>10. thread.round # 0 => thread.round \in RoundIds
  BY <1>0, CodexAssumption DEF ThreadRecord, RoundIds
<1>11. rounds' = rounds \/ (thread.round # 0 /\ rounds' = Finished(thread.round, OutcomeOf(Line.of)))
  BY DEF TurnCompleted
<1>12. Onward(rounds, rounds')
  BY <1>0, <1>9, <1>10, <1>11, OnwardSame, OnwardFinished
<1>13. Others /\ ServerWaits
  BY <1>0, <1>1, <1>2, OthersSame DEF Others
<1> QED BY <1>1, <1>2, <1>8, <1>12, <1>13, ThreadStep

\* So does a frame that cannot be read.
LEMMA UnreadableStep ==
  ASSUME IInv, UnreadableFrame
  PROVE  TypeOK' /\ Ordinary
<1>0. TypeOK /\ thread \in ThreadRecord /\ rounds \in [RoundIds -> RoundRecord] /\ 0 \in 0..MaxTurns
      /\ misread \in BOOLEAN
  BY Records, CodexAssumption DEF IInv
<1>1. UNCHANGED <<caller, closer, stopper, pending, server, billed, dropped, told, answered>>
  BY DEF UnreadableFrame
<1>2. wire' \in Seq(Frames) /\ QuietOutput /\ client' \in ClientRecord
  BY <1>0, ForThreadFields DEF UnreadableFrame
<1>3. PICK endsTurn : endsTurn = (Line.of = "turn/completed")
  OBVIOUS
<1>4. PICK isRead : isRead = (~thread.closed \/ Line.of = "thread/tokenUsage/updated")
  OBVIOUS
<1>5. thread' = [thread EXCEPT !.state = IF isRead THEN "dirty" ELSE @, !.turn = IF endsTurn THEN 0 ELSE @,
                               !.interrupting = @ /\ ~(endsTurn /\ isRead)]
  BY <1>3, <1>4 DEF UnreadableFrame
<1>6. thread' \in ThreadRecord /\ ThreadStays
  <2>1. PICK s : s = IF isRead THEN "dirty" ELSE thread.state
    OBVIOUS
  <2>2. PICK n : n = IF endsTurn THEN 0 ELSE thread.turn
    OBVIOUS
  <2>3. PICK b : b = (thread.interrupting /\ ~(endsTurn /\ isRead))
    OBVIOUS
  <2>4. /\ s \in {"none", "starting", "running", "idle", "waiting", "dirty"} /\ n \in 0..MaxTurns /\ b \in BOOLEAN
        /\ s = "waiting" => thread.state = "waiting"
    BY <1>0, <2>1, <2>2, <2>3 DEF ThreadRecord
  <2>5. thread' = [thread EXCEPT !.state = s, !.turn = n, !.interrupting = b]
    BY <1>5, <2>1, <2>2, <2>3
  <2> QED BY <1>0, <2>4, <2>5 DEF ThreadRecord, ThreadStays
<1>7. rounds' = rounds \/ rounds' = FinishedOpen("harness")
  BY DEF UnreadableFrame
<1>8. Onward(rounds, rounds')
  BY <1>0, <1>7, OnwardSame, OnwardFinishedOpen DEF Ends, Errors
<1>9. misread' \in BOOLEAN
  BY <1>0 DEF UnreadableFrame
<1>10. Others /\ ServerWaits
  BY <1>0, <1>1, <1>2, <1>9, OthersSame DEF Others
<1> QED BY <1>1, <1>2, <1>6, <1>8, <1>10, ThreadStep

\* So does the exit of the process.
LEMMA ServerExitedStep ==
  ASSUME IInv, ServerExited
  PROVE  TypeOK' /\ Ordinary
<1>0. TypeOK /\ thread \in ThreadRecord /\ rounds \in [RoundIds -> RoundRecord] /\ 0 \in 0..MaxTurns
      /\ client \in ClientRecord
  BY Records, CodexAssumption DEF IInv
<1>1. UNCHANGED <<caller, closer, stopper, pending, server, wire, billed, dropped, told, answered, misread>>
  BY DEF ServerExited, history
<1>2. thread' \in ThreadRecord /\ ThreadStays
  BY <1>0 DEF ServerExited, ThreadRecord, ThreadStays
<1>3. client' \in ClientRecord
  BY <1>0 DEF ServerExited, ClientRecord
<1>4. Onward(rounds, rounds')
  BY <1>0, OnwardFinishedOpen DEF ServerExited, Ends, Errors
<1>5. Others /\ ServerWaits /\ QuietOutput
  BY <1>0, <1>1, <1>3, OthersSame DEF Others
<1> QED BY <1>1, <1>2, <1>4, <1>5, ThreadStep

\* A line for nobody, which is no tool call, is dropped.
LEMMA DropsStep ==
  ASSUME IInv, NoThread, Line.kind # "tool"
  PROVE  ElsewhereTypes
<1>0. TypeOK /\ closer \in CloserRecord /\ stopper \in StopperRecord /\ client \in ClientRecord
      /\ server \in ServerRecord /\ wire \in Seq(Frames) /\ pending \in PendingRecord
  BY Records DEF IInv
<1>1. wire' \in Seq(Frames) /\ QuietOutput
  BY <1>0, ReadsLine DEF NoThread
<1>2. UNCHANGED <<thread, rounds, caller, closer, stopper, client, pending, server, history>>
  BY DEF NoThread, history
<1> QED BY <1>0, <1>1, <1>2, ServerSame DEF ElsewhereTypes

-----------------------------------------------------------------------------
(***************************************************************************)
(* A round opens, and ends                                                 *)
(***************************************************************************)
LEMMA GivesUpStep ==
  ASSUME IInv, OpenRound, thread.closed
  PROVE  TypeOK' /\ Ordinary
<1>0. TypeOK /\ caller \in CallerRecord
  BY Records DEF IInv
<1>1. UNCHANGED <<thread, rounds, closer, stopper, client, pending, server, wire, history>>
      /\ Goto("given up") /\ caller.pc = "open"
  BY DEF OpenRound, At
<1>2. caller' \in CallerRecord /\ caller'.pc = "given up" /\ caller'.round = caller.round
  BY <1>0, <1>1, GotoFields DEF Pcs
<1>3. CallerMoves
  BY <1>1, <1>2 DEF CallerMoves, InRound, Starting, Critical
<1>4. TypeOK'
  BY <1>0, <1>1, <1>2, Records, TypesNext DEF history
<1> QED BY <1>0, <1>1, <1>3, <1>4, OthersSame, MoveOrdinary

\* A round opens: it has no report, and no call that waits for a timer.
LEMMA OpenRoundStep ==
  ASSUME IInv, OpenRound, ~thread.closed
  PROVE  TypeOK' /\ Preserved
<1>0. TypeOK /\ Placed /\ thread \in ThreadRecord /\ caller \in CallerRecord /\ rounds \in [RoundIds -> RoundRecord]
      /\ caller.pc = "open"
  BY Records DEF IInv, OpenRound, At
<1>1. PICK r : r = caller.round + 1
  OBVIOUS
<1>2. r \in RoundIds /\ r \in 0..MaxRounds /\ r # 0 /\ r > caller.round
  BY <1>0, <1>1, CodexAssumption DEF Placed, CallerRecord, RoundIds
<1>3. UNCHANGED <<closer, stopper, client, pending, server, wire, billed, dropped, told, answered, misread>>
  BY DEF OpenRound, history
<1>4. /\ thread' = [thread EXCEPT !.round = r, !.state = "running"]
      /\ rounds' = [rounds EXCEPT ![r].opened = TRUE]
      /\ caller' = [caller EXCEPT !.pc = "look", !.round = r]
  BY <1>1 DEF OpenRound
<1>5. /\ thread' \in ThreadRecord /\ thread'.round = r /\ thread'.waiting = thread.waiting
      /\ thread'.carried = thread.carried
  BY <1>0, <1>2, <1>4 DEF ThreadRecord
<1>6. /\ caller' \in CallerRecord /\ caller'.pc = "look" /\ caller'.round = r /\ caller'.isNew = caller.isNew
  BY <1>0, <1>2, <1>4 DEF CallerRecord, Pcs
<1>7. Onward(rounds, rounds')
  <2>1. PICK new : new = [rounds[r] EXCEPT !.opened = TRUE]
    OBVIOUS
  <2>2. /\ new \in RoundRecord /\ new.settled = rounds[r].settled /\ new.gathered = rounds[r].gathered
        /\ new.done = rounds[r].done /\ new.finished = rounds[r].finished /\ new.armed = rounds[r].armed
        /\ new.fired = rounds[r].fired
    BY <1>0, <1>2, <2>1 DEF RoundRecord
  <2>3. rounds' = [rounds EXCEPT ![r] = new]
    BY <1>4, <2>1
  <2>4. (WellEnded(rounds[r]) => WellEnded(new)) /\ (Timer(rounds[r]) => Timer(new))
    BY <2>2 DEF WellEnded, Timer
  <2> QED BY <1>0, <1>2, <2>2, <2>3, <2>4, OnwardOne
<1>8. ServerWaits /\ QuietOutput
  BY <1>0, <1>3, OthersSame
<1>9. TypeOK'
  BY <1>0, <1>3, <1>5, <1>6, <1>7, Records, TypesNext DEF Onward
<1>10. Placed'
  <2>1. ~rounds'[r].settled
    BY <1>0, <1>2, <1>7 DEF Placed, Onward
  <2>2. \A q \in RoundIds : q > r => ~rounds'[q].settled /\ rounds'[q].gathered = {}
    <3>1. ASSUME NEW q \in RoundIds, q > r
          PROVE  q > caller.round
      BY <1>0, <1>1, <3>1 DEF CallerRecord, RoundIds
    <3> QED BY <1>0, <1>7, <3>1 DEF Placed, Onward
  <2>3. ~Starting'
    BY <1>6 DEF Starting
  <2> QED BY <1>2, <1>5, <1>6, <2>1, <2>2, <2>3 DEF Placed, InRound
<1>11. Timed'
  <2>1. CASE caller.isNew
    <3>1. thread.waiting = <<>>
      BY <1>0, <2>1 DEF Placed, Starting
    <3> QED BY <1>5, <3>1 DEF Timed, HasUnreported
  <2>2. CASE ~caller.isNew
    BY <1>6, <2>2 DEF Timed
  <2> QED BY <2>1, <2>2
<1>12. Ended'
  BY <1>7, OnwardEnded DEF IInv
<1>13. UsageSame
  BY <1>3, <1>5, <1>7, <1>8 DEF UsageSame, Kept, Onward, QuietOutput
<1>14. ToolsSame
  BY <1>3, <1>5, <1>8 DEF ToolsSame, ServerWaits, QuietOutput
<1>15. (\A x \in Reports : Conserved(x)') /\ (\A c \in Calls : Followed(c)')
  BY <1>13, <1>14, ReportsKept, ToolsKept DEF IInv
<1> QED BY <1>9, <1>10, <1>11, <1>12, <1>15 DEF Preserved

\* What a settled round gathered leaves it, once.
LEMMA Settles ==
  ASSUME TypeOK, NEW x \in Reports, Conserved(x), NEW r \in RoundIds, ~rounds[r].settled, rounds'[r].settled,
         \A q \in RoundIds : rounds'[q].gathered = rounds[q].gathered,
         \A q \in RoundIds : q # r => rounds'[q].settled = rounds[q].settled,
         Kept(x)' = Kept(x) + IF x \in rounds[r].gathered THEN 1 ELSE 0,
         Fewer(wire, wire', ReportLines)
  PROVE  Conserved(x)'
<1>1. Kept(x) \in Nat
  BY Records DEF Kept, ThreadRecord
<1>2. /\ There(wire, ReportLines, x)' => There(wire, ReportLines, x)
      /\ Single(wire, ReportLines, x) => Single(wire, ReportLines, x)'
  BY DEF Fewer
<1>3. x \in rounds[r].gathered => Kept(x) = 0 /\ Kept(x)' = 1
  BY <1>1 DEF Conserved
<1>4. x \notin rounds[r].gathered => Kept(x)' = Kept(x)
  BY <1>1
<1> HIDE DEF Kept
<1>5. \A q \in RoundIds : x \in rounds'[q].gathered => Kept(x)' = IF rounds'[q].settled THEN 1 ELSE 0
  BY <1>3, <1>4 DEF Conserved
<1>6. Kept(x)' <= 1
  BY <1>3, <1>4 DEF Conserved
<1>7. There(wire, ReportLines, x)' => Kept(x)' = 0 /\ \A q \in RoundIds : x \notin rounds'[q].gathered
  BY <1>2, <1>4 DEF Conserved
<1>8. Single(wire, ReportLines, x)' /\ \A p, q \in RoundIds : x \in rounds'[p].gathered /\ x \in rounds'[q].gathered => p = q
  BY <1>2 DEF Conserved
<1> QED BY <1>5, <1>6, <1>7, <1>8 DEF Conserved

\* A set of reports, counted once each.
LEMMA OnceFields ==
  ASSUME NEW S \in SUBSET Reports
  PROVE  Once(S, Reports) \in [Reports -> Nat] /\ \A x \in Reports : Once(S, Reports)[x] = IF x \in S THEN 1 ELSE 0
BY DEF Once

\* A round to come is another round.
LEMMA LaterRound ==
  ASSUME NEW r \in RoundIds, NEW q \in RoundIds, q > r
  PROVE  q # r
BY DEF RoundIds

\* Where the reports of a round are added does not matter.
LEMMA SumOf ==
  ASSUME NEW a \in Nat, NEW b \in Nat, NEW c \in Nat, NEW n \in Nat
  PROVE  (a + n) + b + c = (a + b + c) + n /\ a + (b + n) + c = (a + b + c) + n
OBVIOUS

\* endRoundWithErrorLocked on the caller's round.
LEMMA FailsStep ==
  ASSUME IInv, AbortRound \/ CompleteFailed
  PROVE  TypeOK' /\ Preserved
<1>0. TypeOK /\ Placed /\ thread \in ThreadRecord /\ caller \in CallerRecord /\ rounds \in [RoundIds -> RoundRecord]
      /\ caller.pc \in {"abort", "complete"} /\ stopper \in StopperRecord
  BY Records DEF IInv, AbortRound, CompleteFailed, At
<1>1. PICK r : r = caller.round
  OBVIOUS
<1>2. r \in RoundIds /\ thread.round = r /\ ~rounds[r].settled /\ 0 \in 0..MaxRounds
  BY <1>0, <1>1, CodexAssumption DEF Placed, InRound, ThreadRecord, RoundIds
<1>3. UNCHANGED <<closer, client, pending, server, wire, billed, dropped, told, answered, misread>>
  BY DEF AbortRound, CompleteFailed, history
<1>4. rounds' = Settled(r)
  BY <1>1 DEF AbortRound, CompleteFailed
<1>5. PICK once : once = Once(rounds[r].gathered, Reports)
  OBVIOUS
<1>6. PICK carried : carried = Plus(thread.carried, once)
  OBVIOUS
<1>7. /\ carried \in [Reports -> Nat]
      /\ \A x \in Reports : carried[x] = thread.carried[x] + IF x \in rounds[r].gathered THEN 1 ELSE 0
  <2>1. rounds[r].gathered \in SUBSET Reports /\ thread.carried \in [Reports -> Nat]
    BY <1>0, <1>2 DEF RoundRecord, ThreadRecord
  <2>2. once \in [Reports -> Nat] /\ \A x \in Reports : once[x] = IF x \in rounds[r].gathered THEN 1 ELSE 0
    BY <1>5, <2>1, OnceFields
  <2> QED BY <1>6, <2>1, <2>2, BagTypes
<1>8. AfterError(r) = [thread EXCEPT !.state = "dirty", !.round = 0, !.carried = carried]
  BY <1>2, <1>5, <1>6 DEF AfterError
<1>9. PICK t : t = AfterError(r)
  OBVIOUS
<1>10. /\ thread' \in ThreadRecord /\ thread'.round = 0 /\ thread'.waiting = thread.waiting
       /\ thread'.carried = carried
  <2>1. t \in ThreadRecord /\ t.round = 0 /\ t.waiting = thread.waiting /\ t.carried = carried
    BY <1>0, <1>2, <1>7, <1>8, <1>9 DEF ThreadRecord
  <2>2. CASE AbortRound
    <3>1. PICK b \in BOOLEAN : thread' = [t EXCEPT !.interrupting = b]
      BY <1>0, <1>1, <1>9, <2>2 DEF AbortRound, ThreadRecord
    <3> QED BY <2>1, <3>1 DEF ThreadRecord
  <2>3. CASE CompleteFailed
    BY <1>1, <1>9, <2>1, <2>3 DEF CompleteFailed
  <2> QED BY <2>2, <2>3
<1>11. PICK to : to \in {"fail", "given up"} /\ Goto(to)
  BY DEF AbortRound, CompleteFailed, AfterFailure
<1>12. caller' \in CallerRecord /\ caller'.pc = to /\ caller'.round = caller.round
  BY <1>0, <1>11, GotoFields DEF Pcs
<1>13. stopper' \in StopperRecord
  <2>1. stopper' = stopper \/ stopper' = [pc |-> "look", turn |-> thread.turn]
    BY DEF AbortRound, CompleteFailed
  <2>2. thread.turn \in 0..MaxTurns
    BY <1>0 DEF ThreadRecord
  <2>3. [pc |-> "look", turn |-> thread.turn] \in StopperRecord /\ stopper \in StopperRecord
    BY <1>0, <2>2 DEF StopperRecord
  <2> QED BY <2>1, <2>3
<1>14. /\ rounds' \in [RoundIds -> RoundRecord]
       /\ \A q \in RoundIds : q # r => rounds'[q] = rounds[q]
       /\ rounds'[r].settled /\ rounds'[r].gathered = rounds[r].gathered
       /\ WellEnded(rounds[r]) => WellEnded(rounds'[r])
  BY <1>0, <1>2, <1>4, SettledFields
<1>15. ServerWaits /\ QuietOutput
  BY <1>0, <1>3, OthersSame
<1>16. TypeOK'
  BY <1>0, <1>3, <1>10, <1>12, <1>13, <1>14, Records, TypesNext
<1>17. Placed'
  <2>1. \A q \in RoundIds : q > r => q # r
    BY <1>2, LaterRound
  <2>2. \A q \in RoundIds : q > r => ~rounds'[q].settled /\ rounds'[q].gathered = {}
    BY <1>0, <1>1, <1>14, <2>1 DEF Placed
  <2>3. caller'.round = r /\ thread'.round = 0
    BY <1>1, <1>10, <1>12
  <2>4. caller'.pc \notin InRound /\ caller'.pc \notin {"open", "start", "inject"} /\ ~Starting'
    BY <1>11, <1>12 DEF InRound, Starting
  <2> QED BY <2>2, <2>3, <2>4 DEF Placed
<1>18. Ended'
  BY <1>14 DEF IInv, Ended, WellEnded
<1>19. Timed'
  BY <1>10 DEF Timed
<1>20. ASSUME NEW x \in Reports
       PROVE  Conserved(x)'
  <2>1. Kept(x)' = Kept(x) + IF x \in rounds[r].gathered THEN 1 ELSE 0
    <3>1. PICK n : n = IF x \in rounds[r].gathered THEN 1 ELSE 0
      OBVIOUS
    <3>2. n \in Nat
      BY <3>1
    <3>3. PICK a : a = thread.carried[x]
      OBVIOUS
    <3>4. PICK b : b = billed[x]
      OBVIOUS
    <3>5. PICK d : d = dropped[x]
      OBVIOUS
    <3>6. a \in Nat /\ b \in Nat /\ d \in Nat
      BY <1>0, <3>3, <3>4, <3>5, Records DEF ThreadRecord
    <3>7. thread'.carried[x] = a + n /\ billed'[x] = b /\ dropped'[x] = d
      BY <1>3, <1>7, <1>10, <3>1, <3>3, <3>4, <3>5
    <3>8. Kept(x)' = (a + n) + b + d /\ Kept(x) = a + b + d
      BY <3>3, <3>4, <3>5, <3>7 DEF Kept
    <3>9. (a + n) + b + d = (a + b + d) + n
      BY <3>2, <3>6, SumOf
    <3>10. Kept(x)' = Kept(x) + n
      BY <3>8, <3>9, Zenon
    <3> QED BY <3>1, <3>10
  <2> QED BY <1>0, <1>2, <1>14, <1>15, <2>1, Settles DEF IInv, QuietOutput
<1>21. ToolsSame
  BY <1>3, <1>10, <1>15 DEF ToolsSame, ServerWaits, QuietOutput
<1> QED BY <1>16, <1>17, <1>18, <1>19, <1>20, <1>21, ToolsKept DEF Preserved, IInv

\* completeRound: the calls that no round reported are reported, the others not.
LEMMA ToldOnce ==
  ASSUME TypeOK, NEW c \in Calls, Followed(c), NEW calls \in {{}, NewCalls(thread.waiting)}
  PROVE  LET n == Cardinality({i \in calls : thread.waiting[i].call = c}) IN
         /\ n \in Nat
         /\ calls = {} => n = 0
         /\ ~Waits(c) => n = 0
         /\ \A i \in 1..Len(thread.waiting) : thread.waiting[i].call = c /\ calls = NewCalls(thread.waiting)
              => told[c] + n = 1
<1> DEFINE S == {i \in calls : thread.waiting[i].call = c}
           w == thread.waiting
<1>1. calls \subseteq 1..Len(w)
  BY DEF NewCalls
<1>2. CASE S = {}
  <2>1. Cardinality(S) = 0
    BY <1>2, FS_EmptySet
  <2>2. ASSUME NEW i \in 1..Len(w), w[i].call = c, calls = NewCalls(w)
        PROVE  told[c] + Cardinality(S) = 1
    <3>1. i \notin NewCalls(w)
      BY <1>2, <2>2
    <3>2. w[i].reported
      BY <3>1, <2>2 DEF NewCalls
    <3>3. told[c] = 1
      BY <2>2, <3>2 DEF Followed
    <3> QED BY <2>1, <3>3
  <2> QED BY <2>1, <2>2
<1>3. CASE S # {}
  <2>1. PICK k : k \in S
    BY <1>3
  <2>2. calls = NewCalls(w) /\ k \in NewCalls(w) /\ k \in 1..Len(w) /\ w[k].call = c
    BY <1>1, <2>1
  <2>3. ~w[k].reported /\ Waits(c) /\ calls # {}
    BY <2>2 DEF NewCalls, Waits
  <2>4. S = {k}
    BY <1>1, <2>1, <2>2 DEF Followed
  <2>5. Cardinality(S) = 1
    BY <2>4, FS_Singleton
  <2>6. told[c] = 0
    BY <2>2, <2>3 DEF Followed
  <2>7. told[c] + Cardinality(S) = 1 /\ Cardinality(S) \in Nat
    BY <2>5, <2>6
  <2> HIDE DEF S
  <2> QED BY <2>3, <2>7 DEF S
<1> QED BY <1>2, <1>3

\* completeRound bills the reports of the round and reports its calls.
LEMMA CompleteStep ==
  ASSUME IInv, Complete
  PROVE  TypeOK' /\ Preserved
<1>0. TypeOK /\ Placed /\ thread \in ThreadRecord /\ caller \in CallerRecord /\ rounds \in [RoundIds -> RoundRecord]
      /\ caller.pc = "complete" /\ billed \in [Reports -> Nat] /\ told \in [Calls -> Nat]
  BY Records DEF IInv, Complete, At
<1>1. PICK r : r = caller.round
  OBVIOUS
<1>2. r \in RoundIds /\ thread.round = r /\ ~rounds[r].settled /\ 0 \in 0..MaxRounds
  BY <1>0, <1>1, CodexAssumption DEF Placed, InRound, ThreadRecord, RoundIds
<1>3. UNCHANGED <<closer, stopper, client, pending, server, wire, dropped, answered, misread>>
  BY DEF Complete
<1>4. PICK end : end = Head(rounds[r].done)
  OBVIOUS
<1>5. PICK calls : calls = IF end = "tool_calls" THEN NewCalls(thread.waiting) ELSE {}
  OBVIOUS
<1>6. PICK w : w = IF end = "tool_calls" THEN [i \in DOMAIN thread.waiting |-> [thread.waiting[i] EXCEPT !.reported = TRUE]]
                   ELSE thread.waiting
  OBVIOUS
<1>7. /\ rounds' = [rounds EXCEPT ![r].settled = TRUE]
      /\ thread' = [thread EXCEPT !.round = 0, !.state = StateAfter(end), !.waiting = w]
      /\ billed' = Plus(billed, Once(rounds[r].gathered, Reports))
      /\ told' = [c \in Calls |-> told[c] + Cardinality({i \in calls : thread.waiting[i].call = c})]
      /\ caller' = [caller EXCEPT !.pendingCalls = {thread.waiting[i].call : i \in calls},
           !.isNew = @ /\ caller.request.oneShot,
           !.pc = IF caller.request.oneShot THEN "flush" ELSE IF end = "refused" THEN "given up" ELSE "out"]
  BY <1>1, <1>4, <1>5, <1>6 DEF Complete
<1>8. /\ thread.waiting \in Seq(WaitingCall) /\ Len(thread.waiting) \in Nat
      /\ \A i \in 1..Len(thread.waiting) : thread.waiting[i] \in WaitingCall
  BY <1>0 DEF ThreadRecord
<1>9. /\ w \in Seq(WaitingCall) /\ Len(w) = Len(thread.waiting)
      /\ \A i \in 1..Len(w) : /\ w[i].call = thread.waiting[i].call
                              /\ w[i].reported <=> thread.waiting[i].reported \/ end = "tool_calls"
  <2>1. CASE end # "tool_calls"
    BY <1>6, <1>8, <2>1
  <2>2. CASE end = "tool_calls"
    <3>0. PICK n : n = Len(thread.waiting)
      OBVIOUS
    <3>1. w = [i \in 1..n |-> [thread.waiting[i] EXCEPT !.reported = TRUE]] /\ n \in Nat
      BY <1>6, <1>8, <2>2, <3>0
    <3>2. \A i \in 1..n :
            w[i] \in WaitingCall /\ w[i].call = thread.waiting[i].call /\ w[i].reported = TRUE
      BY <1>8, <3>0, <3>1 DEF WaitingCall
    <3>3. w \in [1..n -> WaitingCall]
      BY <3>1, <3>2
    <3>4. w \in Seq(WaitingCall) /\ Len(w) = n
      BY <3>1, <3>3
    <3> QED BY <2>2, <3>0, <3>2, <3>4
  <2> QED BY <2>1, <2>2
<1>10. /\ thread' \in ThreadRecord /\ thread'.round = 0 /\ thread'.waiting = w
       /\ thread'.carried = thread.carried
  <2>1. PICK s : s = StateAfter(end)
    OBVIOUS
  <2>2. s \in {"none", "starting", "running", "idle", "waiting", "dirty"}
    BY <2>1 DEF StateAfter
  <2> QED BY <1>0, <1>2, <1>7, <1>9, <2>1, <2>2 DEF ThreadRecord
<1>11. /\ rounds' \in [RoundIds -> RoundRecord]
       /\ \A q \in RoundIds : q # r => rounds'[q] = rounds[q]
       /\ rounds'[r].settled /\ rounds'[r].gathered = rounds[r].gathered
       /\ WellEnded(rounds[r]) => WellEnded(rounds'[r])
  <2>1. PICK new : new = [rounds[r] EXCEPT !.settled = TRUE]
    OBVIOUS
  <2>0. rounds[r] \in RoundRecord
    BY <1>0, <1>2
  <2>2. new \in RoundRecord /\ new.settled /\ new.gathered = rounds[r].gathered
        /\ new.finished = rounds[r].finished /\ new.done = rounds[r].done
    BY <2>0, <2>1 DEF RoundRecord
  <2>3. rounds' = [rounds EXCEPT ![r] = new]
    BY <1>7, <2>1
  <2>4. WellEnded(rounds[r]) => WellEnded(new)
    BY <2>2 DEF WellEnded
  <2> QED BY <1>0, <1>2, <2>2, <2>3, <2>4
<1>12. PICK to : to \in {"flush", "given up", "out"} /\ caller'.pc = to
                 /\ to = IF caller.request.oneShot THEN "flush" ELSE IF end = "refused" THEN "given up" ELSE "out"
  BY <1>0, <1>7 DEF CallerRecord
<1>13. caller' \in CallerRecord /\ caller'.round = r /\ (to = "out" => ~caller'.isNew)
  <2>1. PICK reported : reported = {thread.waiting[i].call : i \in calls}
    OBVIOUS
  <2>2. reported \in SUBSET Calls
    <3>1. calls \subseteq 1..Len(thread.waiting)
      BY <1>5 DEF NewCalls
    <3> QED BY <1>8, <2>1, <3>1 DEF WaitingCall
  <2>3. PICK isNew : isNew = (caller.isNew /\ caller.request.oneShot)
    OBVIOUS
  <2>4. isNew \in BOOLEAN
    BY <2>3
  <2>5. caller' = [caller EXCEPT !.pendingCalls = reported, !.isNew = isNew, !.pc = to]
    BY <1>7, <1>12, <2>1, <2>3
  <2>6. to \in Pcs
    BY <1>12 DEF Pcs
  <2>7. to = "out" => ~isNew
    BY <1>12, <2>3
  <2> QED BY <1>0, <1>1, <2>2, <2>4, <2>5, <2>6, <2>7 DEF CallerRecord
<1>14. /\ billed' \in [Reports -> Nat]
       /\ \A x \in Reports : billed'[x] = billed[x] + IF x \in rounds[r].gathered THEN 1 ELSE 0
  <2>1. PICK once : once = Once(rounds[r].gathered, Reports)
    OBVIOUS
  <2>2. rounds[r].gathered \in SUBSET Reports
    BY <1>0, <1>2 DEF RoundRecord
  <2>3. once \in [Reports -> Nat] /\ \A x \in Reports : once[x] = IF x \in rounds[r].gathered THEN 1 ELSE 0
    BY <2>1, <2>2, OnceFields
  <2> QED BY <1>0, <1>7, <2>1, <2>3, BagTypes
<1>15. ServerWaits /\ QuietOutput
  BY <1>0, <1>3, OthersSame
<1>16. calls \in {{}, NewCalls(thread.waiting)} /\ (end = "tool_calls" => calls = NewCalls(thread.waiting))
       /\ (end # "tool_calls" => calls = {})
  BY <1>5
<1>17. \A c \in Calls : Cardinality({i \in calls : thread.waiting[i].call = c}) \in Nat
  BY <1>0, <1>16, ToldOnce DEF IInv
<1>18. told' \in [Calls -> Nat]
  BY <1>0, <1>7, <1>17
<1>19. TypeOK'
  BY <1>0, <1>3, <1>10, <1>11, <1>13, <1>14, <1>18, Records, TypesNext
<1>20. Placed'
  <2>1. \A q \in RoundIds : q > r => q # r
    BY <1>2, LaterRound
  <2>2. \A q \in RoundIds : q > r => ~rounds'[q].settled /\ rounds'[q].gathered = {}
    BY <1>0, <1>1, <1>11, <2>1 DEF Placed
  <2>3. caller'.pc \notin InRound /\ caller'.pc \notin {"open", "start", "inject"} /\ ~Starting'
    BY <1>12, <1>13 DEF InRound, Starting
  <2> QED BY <1>10, <1>13, <2>2, <2>3 DEF Placed
<1>21. Ended'
  BY <1>11 DEF IInv, Ended, WellEnded
<1>22. Timed'
  BY <1>10 DEF Timed
<1>23. ASSUME NEW x \in Reports
       PROVE  Conserved(x)'
  <2>1. Kept(x)' = Kept(x) + IF x \in rounds[r].gathered THEN 1 ELSE 0
    <3>1. PICK n : n = IF x \in rounds[r].gathered THEN 1 ELSE 0
      OBVIOUS
    <3>2. n \in Nat
      BY <3>1
    <3>3. PICK a : a = thread.carried[x]
      OBVIOUS
    <3>4. PICK b : b = billed[x]
      OBVIOUS
    <3>5. PICK d : d = dropped[x]
      OBVIOUS
    <3>6. a \in Nat /\ b \in Nat /\ d \in Nat
      BY <1>0, <3>3, <3>4, <3>5, Records DEF ThreadRecord
    <3>7. thread'.carried[x] = a /\ billed'[x] = b + n /\ dropped'[x] = d
      BY <1>3, <1>14, <1>10, <3>1, <3>3, <3>4, <3>5
    <3>8. Kept(x)' = a + (b + n) + d /\ Kept(x) = a + b + d
      BY <3>3, <3>4, <3>5, <3>7 DEF Kept
    <3>9. a + (b + n) + d = (a + b + d) + n
      BY <3>2, <3>6, SumOf
    <3>10. Kept(x)' = Kept(x) + n
      BY <3>8, <3>9, Zenon
    <3> QED BY <3>1, <3>10
  <2> QED BY <1>0, <1>2, <1>11, <1>15, <2>1, Settles DEF IInv, QuietOutput
<1>24. ASSUME NEW c \in Calls
       PROVE  Followed(c)'
  <2>1. Followed(c)
    BY DEF IInv
  <2>2. PICK n : n = Cardinality({i \in calls : thread.waiting[i].call = c})
    OBVIOUS
  <2>3. told'[c] = told[c] + n /\ told[c] \in Nat
    BY <1>0, <1>7, <2>2
  <2>4. /\ n \in Nat
        /\ calls = {} => n = 0
        /\ ~Waits(c) => n = 0
        /\ \A i \in 1..Len(thread.waiting) : thread.waiting[i].call = c /\ calls = NewCalls(thread.waiting)
             => told[c] + n = 1
    BY <1>0, <1>16, <2>1, <2>2, ToldOnce
  <2>5. Waits(c)' <=> Waits(c)
    BY <1>9, <1>10 DEF Waits
  <2>6. /\ There(wire, ToolLines, c)' <=> There(wire, ToolLines, c)
        /\ Single(wire, ToolLines, c) => Single(wire, ToolLines, c)'
    BY <1>15 DEF QuietOutput, Fewer, NoneLost
  <2>7. ~Waits(c) => told'[c] = told[c]
    BY <2>3, <2>4
  <2>8. \A i \in 1..Len(w) : w[i].call = c => told'[c] = IF w[i].reported THEN 1 ELSE 0
    <3>1. CASE end = "tool_calls"
      BY <1>9, <1>16, <2>3, <2>4, <3>1
    <3>2. CASE end # "tool_calls"
      <4>1. told'[c] = told[c]
        BY <1>16, <2>3, <2>4, <3>2
      <4> QED BY <1>9, <2>1, <3>2, <4>1 DEF Followed
    <3> QED BY <3>1, <3>2
  <2>9. told'[c] <= 1
    <3>1. CASE Waits(c)
      <4>1. PICK i \in 1..Len(w) : w[i].call = c
        BY <1>9, <3>1 DEF Waits
      <4> QED BY <2>8, <4>1
    <3>2. CASE ~Waits(c)
      BY <2>1, <2>7, <3>2 DEF Followed
    <3> QED BY <3>1, <3>2
  <2>10. \A i, j \in 1..Len(w) : w[i].call = c /\ w[j].call = c => i = j
    BY <1>9, <2>1 DEF Followed
  <2>11. \A i \in 1..Len(w) : w[i].call = c => c \in server.made /\ answered[c] = 0
    BY <1>9, <2>1 DEF Followed
  <2>12. c \notin server.made => ~Waits(c) /\ told[c] = 0 /\ answered[c] = 0
    BY <2>1 DEF Followed, Waits
  <2>13. /\ There(wire, ToolLines, c)' => c \in server'.made /\ ~Waits(c)' /\ told'[c] = 0 /\ answered'[c] = 0
         /\ c \notin server'.made => told'[c] = 0 /\ answered'[c] = 0
         /\ c \in server'.asked => There(wire, ToolLines, c)' \/ Waits(c)'
         /\ answered'[c] <= 1 /\ Single(wire, ToolLines, c)'
    BY <1>3, <2>1, <2>5, <2>6, <2>7, <2>12 DEF Followed
  <2> QED BY <1>3, <1>10, <2>8, <2>9, <2>10, <2>11, <2>13 DEF Followed
<1> QED BY <1>19, <1>20, <1>21, <1>22, <1>23, <1>24 DEF Preserved

-----------------------------------------------------------------------------
(***************************************************************************)
(* A report, from the line that brings it                                  *)
(***************************************************************************)
LEMMA GatherStep ==
  ASSUME IInv, UsageUpdated \/ NativeRequest
  PROVE  TypeOK' /\ Preserved
<1>0. TypeOK /\ Placed /\ thread \in ThreadRecord /\ rounds \in [RoundIds -> RoundRecord] /\ wire \in Seq(Frames)
  BY Records DEF IInv
<1>1. UNCHANGED <<caller, closer, stopper, pending, server, billed, dropped, told, answered, misread>>
  BY DEF UsageUpdated, NativeRequest, history
<1>2. PICK x : x = Line.of
  OBVIOUS
<1>3. /\ wire' = Cut(wire, 1) /\ 1 \in 1..Len(wire) /\ Line = wire[1] /\ Line \in Frames
      /\ Line.kind \in ReportLines /\ wire' \in Seq(Frames) /\ QuietOutput /\ client' \in ClientRecord
  BY <1>0, ForThreadFields DEF UsageUpdated, NativeRequest, ReportLines
<1>4. x \in Reports /\ IsLine(wire[1], ReportLines, x)
  BY <1>2, <1>3, FrameKinds DEF IsLine
<1>5. Kept(x) = 0 /\ (\A r \in RoundIds : x \notin rounds[r].gathered) /\ Single(wire, ReportLines, x)
  BY <1>3, <1>4 DEF IInv, Conserved, There
<1>6. ~There(wire', ReportLines, x)
  BY <1>0, <1>3, <1>4, <1>5, CutLines
<1>7. Gather(x)
  BY <1>2 DEF UsageUpdated, NativeRequest
<1>8. Others /\ ServerWaits
  BY <1>0, <1>1, <1>3, OthersSame DEF Others
<1>9. \A y \in Reports : Single(wire, ReportLines, y)' /\ (There(wire, ReportLines, y)' => There(wire, ReportLines, y))
  BY <1>3 DEF QuietOutput, Fewer, IInv, Conserved
<1>10. CASE thread.round # 0
  <2>1. PICK r : r = thread.round
    OBVIOUS
  <2>2. r \in RoundIds /\ r = caller.round /\ ~rounds[r].settled
    BY <1>0, <1>10, <2>1, CodexAssumption DEF Placed, ThreadRecord, RoundIds
  <2>3. PICK g : g = rounds[r].gathered \cup {x}
    OBVIOUS
  <2>4. PICK new : new = [rounds[r] EXCEPT !.gathered = g]
    OBVIOUS
  <2>5. g \in SUBSET Reports
    BY <1>0, <1>4, <2>2, <2>3 DEF RoundRecord
  <2>6. /\ new \in RoundRecord /\ new.settled = rounds[r].settled /\ new.gathered = g
        /\ new.done = rounds[r].done /\ new.finished = rounds[r].finished /\ new.armed = rounds[r].armed
        /\ new.fired = rounds[r].fired
    BY <1>0, <2>2, <2>4, <2>5 DEF RoundRecord
  <2>7. rounds' = [rounds EXCEPT ![r] = new] /\ thread' = thread
    BY <1>7, <1>10, <2>1, <2>3, <2>4 DEF Gather
  <2>8. rounds' \in [RoundIds -> RoundRecord] /\ rounds'[r] = new /\ \A q \in RoundIds : q # r => rounds'[q] = rounds[q]
    BY <1>0, <2>2, <2>6, <2>7
  <2>9. /\ \A q \in RoundIds : rounds'[q].settled = rounds[q].settled
        /\ \A q \in RoundIds : WellEnded(rounds[q]) => WellEnded(rounds'[q])
        /\ \A q \in RoundIds : Timer(rounds[q]) => Timer(rounds'[q])
    BY <2>6, <2>8 DEF WellEnded, Timer
  <2>10. TypeOK'
    BY <1>0, <1>1, <1>8, <2>7, <2>8, Records, TypesNext DEF Others
  <2>11. Placed'
    <3>1. \A q \in RoundIds : q > r => q # r
      BY <2>2, LaterRound
    <3>2. PlacedSame
      BY <1>0, <1>1, <2>2, <2>7, <2>8, <2>9, <3>1 DEF PlacedSame, Placed, Starting
    <3> QED BY <1>0, <3>2, PlacedKept
  <2>12. Ended'
    BY <2>9 DEF IInv, Ended, WellEnded
  <2>13. Timed'
    <3>1. TimedSame
      BY <1>1, <2>7, <2>9 DEF TimedSame, Critical
    <3> QED BY <1>0, <3>1, TimedKept DEF IInv
  <2>14. \A y \in Reports : Kept(y)' = Kept(y)
    BY <1>1, <2>7 DEF Kept
  <2>15. ASSUME NEW y \in Reports, y # x
         PROVE  Conserved(y)'
    <3>1. \A q \in RoundIds : y \in rounds'[q].gathered <=> y \in rounds[q].gathered
      BY <2>3, <2>6, <2>8, <2>15
    <3> QED BY <1>9, <2>9, <2>14, <3>1 DEF IInv, Conserved
  <2>16. Conserved(x)'
    <3>1. \A q \in RoundIds : x \in rounds'[q].gathered <=> q = r
      BY <1>5, <2>3, <2>6, <2>8
    <3>2. Kept(x)' = 0 /\ ~rounds'[r].settled
      BY <1>4, <1>5, <2>2, <2>9, <2>14
    <3> QED BY <1>4, <1>6, <1>9, <3>1, <3>2 DEF Conserved
  <2>17. ToolsSame
    BY <1>1, <1>3, <1>8, <2>7 DEF ToolsSame, ServerWaits, QuietOutput
  <2> QED BY <2>10, <2>11, <2>12, <2>13, <2>15, <2>16, <2>17, ToolsKept DEF Preserved, IInv
<1>11. CASE thread.round = 0
  <2>1. PICK n : n = thread.carried[x] + 1
    OBVIOUS
  <2>2. PICK b : b = [thread.carried EXCEPT ![x] = n]
    OBVIOUS
  <2>3. n \in Nat /\ b \in [Reports -> Nat] /\ b[x] = n /\ \A y \in Reports : y # x => b[y] = thread.carried[y]
    BY <1>0, <1>4, <2>1, <2>2 DEF ThreadRecord
  <2>4. thread' = [thread EXCEPT !.carried = b] /\ rounds' = rounds
    BY <1>7, <1>11, <2>1, <2>2 DEF Gather
  <2>5. /\ thread' \in ThreadRecord /\ thread'.round = thread.round /\ thread'.waiting = thread.waiting
        /\ thread'.carried = b /\ thread'.state = thread.state
    BY <1>0, <2>3, <2>4 DEF ThreadRecord
  <2>6. TypeOK'
    BY <1>0, <1>1, <1>8, <2>4, <2>5, Records, TypesNext DEF Others
  <2>7. CallerMoves
    BY <1>1, CallerStays
  <2>8. Placed'
    <3>1. PlacedSame
      BY <1>1, <2>4, <2>5, <2>7 DEF PlacedSame, CallerMoves
    <3> QED BY <1>0, <3>1, PlacedKept
  <2>9. Ended'
    BY <2>4 DEF IInv, Ended
  <2>10. Timed'
    BY <1>11, <2>5 DEF Timed
  <2>11. ASSUME NEW y \in Reports, y # x
         PROVE  Conserved(y)'
    <3>1. Kept(y)' = Kept(y)
      BY <1>1, <2>3, <2>5, <2>11 DEF Kept
    <3> QED BY <1>9, <2>4, <3>1 DEF IInv, Conserved
  <2>12. Conserved(x)'
    <3>1. Kept(x)' = 1
      <4>1. thread.carried[x] \in Nat /\ billed[x] \in Nat /\ dropped[x] \in Nat
        BY <1>0, <1>4, Records DEF ThreadRecord
      <4>2. thread.carried[x] = 0 /\ billed[x] = 0 /\ dropped[x] = 0
        BY <1>5, <4>1 DEF Kept
      <4>3. thread'.carried[x] = 1 /\ billed'[x] = 0 /\ dropped'[x] = 0
        BY <1>1, <2>1, <2>3, <2>5, <4>2
      <4> QED BY <4>3 DEF Kept
    <3> QED BY <1>4, <1>5, <1>6, <1>9, <2>4, <3>1 DEF Conserved
  <2>13. ToolsSame
    BY <1>1, <1>3, <1>8, <2>5 DEF ToolsSame, ServerWaits, QuietOutput
  <2> QED BY <2>6, <2>8, <2>9, <2>10, <2>11, <2>12, <2>13, ToolsKept DEF Preserved, IInv
<1> QED BY <1>10, <1>11

\* A report is written once.
LEMMA ReportStep ==
  ASSUME IInv, Works, NEW x \in Reports, NEW kind \in ReportLines, Unsent(x), Write(<<[kind |-> kind, of |-> x]>>)
  PROVE  TypeOK' /\ Preserved
<1>0. TypeOK /\ wire \in Seq(Frames)
  BY Records DEF IInv
<1>1. UNCHANGED <<thread, rounds, caller, closer, stopper, client, pending, server, billed, dropped, told, answered, misread>>
  BY DEF Works, history
<1>2. PICK f : f = [kind |-> kind, of |-> x]
  OBVIOUS
<1>3. f \in Frames /\ f.kind \in ReportLines /\ f.of = x
  BY <1>2, FrameMade
<1>4. wire' = Append(wire, f) /\ wire' \in Seq(Frames)
  BY <1>0, <1>2, <1>3, WriteOne, AppendFacts
<1>5. f.kind \notin ToolLines
  BY <1>3 DEF ReportLines, ToolLines
<1>6. Fewer(wire, wire', ToolLines) /\ NoneLost(wire, wire', ToolLines)
  BY <1>0, <1>3, <1>4, <1>5, AppendLines
<1>7. TypeOK'
  BY <1>0, <1>1, <1>4, Records, TypesNext
<1>8. ServerWaits /\ CallerMoves /\ ThreadStays
  BY <1>1, ServerSame, CallerStays, ThreadSame
<1>9. PlacedSame /\ TimedSame
  BY <1>1, <1>8 DEF PlacedSame, TimedSame, CallerMoves, ThreadStays
<1>10. ToolsSame
  BY <1>1, <1>6, <1>8 DEF ToolsSame, ServerWaits
<1>11. Ended'
  BY <1>1 DEF IInv, Ended
<1>12. ASSUME NEW y \in Reports
       PROVE  Conserved(y)'
  <2>1. Kept(y)' = Kept(y) /\ rounds' = rounds
    BY <1>1 DEF Kept
  <2>2. CASE y = x
    <3>1. ~There(wire, ReportLines, x)
      BY DEF Unsent, Fresh, There, IsLine
    <3>2. Single(wire', ReportLines, x)
      BY <1>0, <1>3, <1>4, <3>1, AppendLines DEF IInv, Conserved
    <3>3. Kept(x) = 0 /\ \A r \in RoundIds : x \notin rounds[r].gathered
      <4>1. thread.carried[x] \in Nat /\ billed[x] \in Nat /\ dropped[x] \in Nat
        BY <1>0, Records DEF ThreadRecord
      <4> QED BY <4>1 DEF Unsent, Fresh, Kept
    <3> QED BY <2>1, <2>2, <3>2, <3>3 DEF Conserved
  <2>3. CASE y # x
    <3>1. ~IsLine(f, ReportLines, y)
      BY <1>3, <2>3 DEF IsLine
    <3>2. /\ There(wire', ReportLines, y) => There(wire, ReportLines, y)
          /\ Single(wire, ReportLines, y) => Single(wire', ReportLines, y)
      BY <1>0, <1>3, <1>4, <3>1, AppendLines
    <3> QED BY <2>1, <3>2 DEF IInv, Conserved
  <2> QED BY <2>2, <2>3
<1> QED BY <1>0, <1>7, <1>9, <1>10, <1>11, <1>12, PlacedKept, TimedKept, ToolsKept DEF Preserved, IInv

-----------------------------------------------------------------------------
(***************************************************************************)
(* A tool call, from the line that asks for it to its answer               *)
(***************************************************************************)
\* A step that concerns one call leaves the others as they are.
LEMMA OtherCall ==
  ASSUME NEW d \in Calls, Followed(d),
         There(wire', ToolLines, d) <=> There(wire, ToolLines, d),
         Single(wire, ToolLines, d) => Single(wire', ToolLines, d),
         told'[d] = told[d], answered'[d] = answered[d],
         d \in server'.made <=> d \in server.made, d \in server'.asked => d \in server.asked,
         thread'.waiting = thread.waiting
  PROVE  Followed(d)'
<1>1. Waits(d)' <=> Waits(d)
  BY DEF Waits
<1> QED BY <1>1 DEF Followed

\* A call is asked for once.
LEMMA AsksStep ==
  ASSUME IInv, NEW c \in Calls, Asks(c)
  PROVE  TypeOK' /\ Preserved
<1>0. TypeOK /\ wire \in Seq(Frames) /\ server \in ServerRecord /\ rounds \in [RoundIds -> RoundRecord]
  BY Records DEF IInv
<1>1. UNCHANGED <<thread, rounds, caller, closer, stopper, client, pending, billed, dropped, told, answered, misread>>
  BY DEF Asks, history
<1>2. PICK f : f = [kind |-> "tool", of |-> c]
  OBVIOUS
<1>3. f \in Frames /\ f.kind \in ToolLines /\ f.of = c
  BY <1>2, FrameMade DEF ToolLines
<1>4. wire' = Append(wire, f) /\ wire' \in Seq(Frames)
  <2>1. Write(<<f>>)
    BY <1>2 DEF Asks
  <2> QED BY <1>0, <1>3, <2>1, WriteOne, AppendFacts
<1>5. f.kind \notin ReportLines
  BY <1>3 DEF ReportLines, ToolLines
<1>6. Fewer(wire, wire', ReportLines)
  BY <1>0, <1>3, <1>4, <1>5, AppendLines
<1>7. /\ server' \in ServerRecord /\ c \notin server.made
      /\ server'.made = server.made \cup {c} /\ server'.asked = server.asked \cup {c}
  BY <1>0 DEF Asks, ServerRecord
<1>8. TypeOK'
  BY <1>0, <1>1, <1>4, <1>7, Records, TypesNext
<1>9. CallerMoves /\ ThreadStays
  BY <1>1, CallerStays, ThreadSame
<1>10. PlacedSame /\ TimedSame
  BY <1>1, <1>9 DEF PlacedSame, TimedSame, CallerMoves, ThreadStays
<1>11. UsageSame
  BY <1>1, <1>6 DEF UsageSame, Kept
<1>12. Ended'
  BY <1>1 DEF IInv, Ended
<1>13. ASSUME NEW d \in Calls, d # c
       PROVE  Followed(d)'
  <2>1. ~IsLine(f, ToolLines, d)
    BY <1>3, <1>13 DEF IsLine
  <2>2. /\ There(wire', ToolLines, d) <=> There(wire, ToolLines, d)
        /\ Single(wire, ToolLines, d) => Single(wire', ToolLines, d)
    BY <1>0, <1>3, <1>4, <2>1, AppendLines DEF NoneLost
  <2>3. Followed(d)
    BY DEF IInv
  <2> QED BY <1>1, <1>7, <1>13, <2>2, <2>3, OtherCall
<1>14. Followed(c)'
  <2>1. ~There(wire, ToolLines, c) /\ ~Waits(c) /\ told[c] = 0 /\ answered[c] = 0 /\ Single(wire, ToolLines, c)
    BY <1>7 DEF IInv, Followed, Waits
  <2>2. There(wire', ToolLines, c) /\ Single(wire', ToolLines, c)
    BY <1>0, <1>3, <1>4, <2>1, AppendLines DEF IsLine
  <2> QED BY <1>1, <1>7, <2>1, <2>2 DEF Followed, Waits
<1> QED BY <1>0, <1>8, <1>10, <1>11, <1>12, <1>13, <1>14, PlacedKept, TimedKept, ReportsKept DEF Preserved, IInv

\* The line that asks for a call is read.
LEMMA ToolLineRead ==
  ASSUME IInv, TakeLine, Line.kind = "tool"
  PROVE  /\ Line.of \in Calls /\ wire' \in Seq(Frames) /\ Fewer(wire, wire', ReportLines)
         /\ Line.of \in server.made /\ ~Waits(Line.of) /\ told[Line.of] = 0 /\ answered[Line.of] = 0
         /\ ~There(wire', ToolLines, Line.of) /\ Single(wire', ToolLines, Line.of)
         /\ \A d \in Calls : d # Line.of =>
              /\ There(wire', ToolLines, d) <=> There(wire, ToolLines, d)
              /\ Single(wire, ToolLines, d) => Single(wire', ToolLines, d)
<1>0. wire \in Seq(Frames)
  BY Records DEF IInv
<1>1. PICK c : c = Line.of
  OBVIOUS
<1>2. /\ wire' = Cut(wire, 1) /\ 1 \in 1..Len(wire) /\ Line = wire[1] /\ Line \in Frames
      /\ wire' \in Seq(Frames)
  BY <1>0, ReadsLine
<1>3. c \in Calls /\ IsLine(wire[1], ToolLines, c) /\ wire[1].of = c
  BY <1>1, <1>2, FrameKinds DEF IsLine, ToolLines
<1>4. There(wire, ToolLines, c)
  BY <1>2, <1>3 DEF There
<1>5. c \in server.made /\ ~Waits(c) /\ told[c] = 0 /\ answered[c] = 0 /\ Single(wire, ToolLines, c)
  BY <1>3, <1>4 DEF IInv, Followed
<1>6. Fewer(wire, wire', ToolLines) /\ Fewer(wire, wire', ReportLines)
  BY <1>0, <1>2, CutLines
<1>7. ~There(wire', ToolLines, c) /\ Single(wire', ToolLines, c)
  <2>1. \A x : IsLine(wire[1], ToolLines, x) /\ Single(wire, ToolLines, x) => ~There(Cut(wire, 1), ToolLines, x)
    BY <1>0, <1>2, CutLines
  <2>2. ~There(wire', ToolLines, c)
    BY <1>2, <1>3, <1>5, <2>1, Zenon
  <2> QED BY <1>5, <1>6, <2>2 DEF Fewer
<1>8. \A d \in Calls : d # c => (There(wire, ToolLines, d) => There(wire', ToolLines, d))
  BY <1>0, <1>2, <1>3, CutLines
<1> QED BY <1>1, <1>2, <1>3, <1>5, <1>6, <1>7, <1>8 DEF Fewer

\* An answer ends the call for Codex.
LEMMA AnsweredFields ==
  ASSUME TypeOK, NEW c \in Calls, Answered(c)
  PROVE  /\ answered' \in [Calls -> Nat] /\ answered'[c] = answered[c] + 1
         /\ \A d \in Calls : d # c => answered'[d] = answered[d]
         /\ server' \in ServerRecord /\ server'.made = server.made /\ server'.asked = server.asked \ {c}
<1>0. answered \in [Calls -> Nat] /\ server \in ServerRecord
  BY Records
<1>1. PICK n : n = answered[c] + 1
  OBVIOUS
<1>2. n \in Nat /\ answered' = [answered EXCEPT ![c] = n]
  BY <1>0, <1>1 DEF Answered
<1>3. /\ server' \in ServerRecord /\ server'.made = server.made /\ server'.asked = server.asked \ {c}
  BY <1>0 DEF Answered, ServerRecord
<1> QED BY <1>0, <1>1, <1>2, <1>3

\* A call the thread does not take is answered at once.
LEMMA RefusesStep ==
  ASSUME IInv, RefusesToolCall \/ (NoThread /\ Line.kind = "tool")
  PROVE  TypeOK' /\ Preserved
<1>0. TypeOK /\ thread \in ThreadRecord /\ rounds \in [RoundIds -> RoundRecord]
  BY Records DEF IInv
<1>1. TakeLine /\ Line.kind = "tool" /\ Answered(Line.of)
  BY DEF RefusesToolCall, NoThread, ForThread
<1>2. UNCHANGED <<rounds, caller, closer, stopper, pending, billed, dropped, told, misread>>
  BY DEF RefusesToolCall, NoThread
<1>3. PICK c : c = Line.of
  OBVIOUS
<1>4. /\ c \in Calls /\ wire' \in Seq(Frames) /\ Fewer(wire, wire', ReportLines)
      /\ c \in server.made /\ ~Waits(c) /\ told[c] = 0 /\ answered[c] = 0
      /\ ~There(wire', ToolLines, c) /\ Single(wire', ToolLines, c)
      /\ \A d \in Calls : d # c =>
           /\ There(wire', ToolLines, d) <=> There(wire, ToolLines, d)
           /\ Single(wire, ToolLines, d) => Single(wire', ToolLines, d)
  BY <1>1, <1>3, ToolLineRead
<1>5. /\ answered' \in [Calls -> Nat] /\ answered'[c] = answered[c] + 1
      /\ \A d \in Calls : d # c => answered'[d] = answered[d]
      /\ server' \in ServerRecord /\ server'.made = server.made /\ server'.asked = server.asked \ {c}
  BY <1>0, <1>1, <1>3, <1>4, AnsweredFields
<1>6. client' \in ClientRecord
  BY <1>0, ForThreadFields, OthersSame DEF RefusesToolCall, NoThread
<1>7. thread' = thread \/ thread' = OffRound(thread)
  BY DEF RefusesToolCall, NoThread
<1>8. thread' \in ThreadRecord /\ ThreadStays
  BY <1>0, <1>7, OffRoundFields DEF ThreadStays
<1>9. Onward(rounds, rounds') /\ CallerMoves
  BY <1>0, <1>2, OnwardSame, CallerStays
<1>10. TypeOK'
  BY <1>0, <1>2, <1>4, <1>5, <1>6, <1>8, Records, TypesNext
<1>11. PlacedSame /\ TimedSame
  BY <1>8, <1>9 DEF PlacedSame, TimedSame, CallerMoves, ThreadStays, Onward
<1>12. UsageSame
  BY <1>2, <1>4, <1>8 DEF UsageSame, Kept, ThreadStays
<1>13. Ended'
  BY <1>9, OnwardEnded DEF IInv
<1>14. ASSUME NEW d \in Calls, d # c
       PROVE  Followed(d)'
  <2>1. Followed(d) /\ told'[d] = told[d] /\ thread'.waiting = thread.waiting
    BY <1>2, <1>8 DEF IInv, ThreadStays
  <2> QED BY <1>4, <1>5, <1>14, <2>1, OtherCall
<1>15. Followed(c)'
  <2>1. thread'.waiting = thread.waiting /\ told'[c] = 0 /\ answered'[c] = 1
    BY <1>2, <1>4, <1>5, <1>8 DEF ThreadStays
  <2>2. \A i \in 1..Len(thread'.waiting) : thread'.waiting[i].call # c
    BY <1>4, <2>1 DEF Waits
  <2> QED BY <1>4, <1>5, <2>1, <2>2 DEF Followed
<1> QED BY <1>0, <1>10, <1>11, <1>12, <1>13, <1>14, <1>15, PlacedKept, TimedKept, ReportsKept DEF Preserved, IInv

\* A call the thread takes waits, and the open round has a timer for it.
LEMMA ToolCallStep ==
  ASSUME IInv, ToolCall
  PROVE  TypeOK' /\ Preserved
<1>0. TypeOK /\ Placed /\ thread \in ThreadRecord /\ rounds \in [RoundIds -> RoundRecord]
      /\ thread.waiting \in Seq(WaitingCall)
  BY Records DEF IInv, ThreadRecord
<1>1. TakeLine /\ Line.kind = "tool" /\ TakesCalls /\ client' \in ClientRecord
  BY <1>0, ForThreadFields DEF ToolCall, ForThread
<1>2. UNCHANGED <<caller, closer, stopper, pending, server, billed, dropped, told, answered, misread>>
  BY DEF ToolCall, history
<1>3. PICK c : c = Line.of
  OBVIOUS
<1>4. /\ c \in Calls /\ wire' \in Seq(Frames) /\ Fewer(wire, wire', ReportLines)
      /\ c \in server.made /\ ~Waits(c) /\ told[c] = 0 /\ answered[c] = 0
      /\ ~There(wire', ToolLines, c) /\ Single(wire', ToolLines, c)
      /\ \A d \in Calls : d # c =>
           /\ There(wire', ToolLines, d) <=> There(wire, ToolLines, d)
           /\ Single(wire, ToolLines, d) => Single(wire', ToolLines, d)
  BY <1>1, <1>3, ToolLineRead
<1>5. PICK e : e = [call |-> c, reported |-> FALSE]
  OBVIOUS
<1>6. PICK w : w = Append(thread.waiting, e)
  OBVIOUS
<1>7. PICK n : n = Len(thread.waiting)
  OBVIOUS
<1>8. e \in WaitingCall /\ e.call = c /\ ~e.reported
  BY <1>4, <1>5 DEF WaitingCall
<1>9. w \in Seq(WaitingCall) /\ n \in Nat /\ Len(w) = n + 1 /\ w[n + 1] = e /\ \A i \in 1..n : w[i] = thread.waiting[i]
  BY <1>0, <1>6, <1>7, <1>8, AppendFacts
<1>10. thread' = [thread EXCEPT !.waiting = w]
  BY <1>3, <1>5, <1>6 DEF ToolCall
<1>11. /\ thread' \in ThreadRecord /\ thread'.waiting = w /\ thread'.round = thread.round
       /\ thread'.state = thread.state /\ thread'.carried = thread.carried
  BY <1>0, <1>9, <1>10 DEF ThreadRecord
<1>12. thread.round # 0 => thread.round \in RoundIds
  BY <1>0, CodexAssumption DEF ThreadRecord, RoundIds
<1>13. Onward(rounds, rounds') /\ (thread.round # 0 => Timer(rounds'[thread.round]))
  BY <1>0, <1>12, OnwardSame, OnwardArmed DEF ToolCall, Timer
<1>14. TypeOK'
  BY <1>0, <1>1, <1>2, <1>4, <1>11, <1>13, Records, TypesNext DEF Onward
<1>15. Placed'
  <2>1. ~Starting
    <3>1. thread.round = 0 => thread.state = "waiting"
      BY <1>1 DEF TakesCalls
    <3> QED BY <1>0, <3>1 DEF Placed, Starting, InRound
  <2>2. PlacedSame
    BY <1>2, <1>0, <1>11, <1>13, <2>1 DEF PlacedSame, Onward, Starting, Placed
  <2> QED BY <1>0, <2>2, PlacedKept
<1>16. Ended'
  BY <1>13, OnwardEnded DEF IInv
<1>17. Timed'
  BY <1>11, <1>13 DEF Timed, HasTimer, Timer
<1>18. UsageSame
  BY <1>2, <1>4, <1>11, <1>13 DEF UsageSame, Kept, Onward
<1>19. \A i \in 1..Len(w) : i \in 1..n \/ i = n + 1
  BY <1>9
<1>20. \A i \in 1..n : i \in 1..Len(w)
  BY <1>9
<1>21. ASSUME NEW d \in Calls, d # c
       PROVE  Followed(d)'
  <2>1. \A i \in 1..Len(w) : w[i].call = d => i \in 1..n /\ w[i] = thread.waiting[i]
    BY <1>8, <1>9, <1>19, <1>21
  <2>2. Waits(d)' <=> Waits(d)
    BY <1>7, <1>9, <1>11, <1>20, <2>1 DEF Waits
  <2>3. \A i, j \in 1..Len(w) : w[i].call = d /\ w[j].call = d => i = j
    BY <1>7, <2>1 DEF IInv, Followed
  <2>4. \A i \in 1..Len(w) : w[i].call = d =>
          d \in server.made /\ answered[d] = 0 /\ told[d] = IF w[i].reported THEN 1 ELSE 0
    BY <1>7, <2>1 DEF IInv, Followed
  <2> QED BY <1>2, <1>4, <1>11, <1>21, <2>2, <2>3, <2>4 DEF IInv, Followed
<1>22. Followed(c)'
  <2>1. \A i \in 1..n : w[i].call # c
    BY <1>4, <1>7, <1>9 DEF Waits
  <2>2. \A i \in 1..Len(w) : w[i].call = c => i = n + 1 /\ ~w[i].reported
    BY <1>8, <1>9, <1>19, <2>1
  <2>3. Waits(c)'
    <3>1. n + 1 \in 1..Len(w)
      BY <1>9
    <3> QED BY <1>8, <1>9, <1>11, <3>1 DEF Waits
  <2> QED BY <1>2, <1>4, <1>11, <2>2, <2>3 DEF Followed
<1> QED BY <1>14, <1>15, <1>16, <1>17, <1>18, <1>21, <1>22, ReportsKept DEF Preserved, IInv

\* takeWaiting finds the call where it is, and the others stay.
LEMMA TakesTheCall ==
  ASSUME TypeOK, NEW c \in Calls, Followed(c), Waits(c)
  PROVE  LET w == thread.waiting
             k == FirstOf(w, c) IN
         /\ w \in Seq(WaitingCall) /\ k \in 1..Len(w) /\ w[k].call = c
         /\ \A i \in 1..Len(w) : w[i].call = c => i = k
<1> DEFINE w == thread.waiting
           P(i) == w[i].call = c /\ \A j \in 1..i - 1 : w[j].call # c
<1>1. w \in Seq(WaitingCall) /\ Len(w) \in Nat
  BY Records DEF ThreadRecord
<1>2. \A i, j \in 1..Len(w) : w[i].call = c /\ w[j].call = c => i = j
  BY DEF Followed
<1>3. PICK n \in 1..Len(w) : w[n].call = c
  BY DEF Waits
<1>4. P(n)
  <2>1. \A j \in 1..n - 1 : j \in 1..Len(w) /\ j # n
    BY <1>1
  <2> QED BY <1>2, <1>3, <2>1
<1>5. FirstOf(w, c) = CHOOSE i \in 1..Len(w) : P(i)
  BY DEF FirstOf
<1>6. FirstOf(w, c) \in 1..Len(w) /\ P(FirstOf(w, c))
  <2> HIDE DEF P
  <2> QED BY <1>4, <1>5
<1> QED BY <1>1, <1>2, <1>6

\* The caller answers a call that waits: it leaves the list, and no other does.
LEMMA AnswersStep ==
  ASSUME IInv, Respond, NEW c \in caller.results, Waits(c),
         thread' = [thread EXCEPT !.waiting = Without(@, c)], Answered(c),
         caller' = [caller EXCEPT !.results = @ \ {c}]
  PROVE  TypeOK' /\ Preserved
<1>0. TypeOK /\ Placed /\ thread \in ThreadRecord /\ caller \in CallerRecord /\ rounds \in [RoundIds -> RoundRecord]
      /\ caller.pc = "respond"
  BY Records DEF IInv, Respond, At
<1>1. UNCHANGED <<rounds, closer, stopper, client, pending, wire, billed, dropped, told, misread>>
  BY DEF Respond
<1>2. c \in Calls /\ Followed(c)
  BY <1>0 DEF CallerRecord, IInv
<1>3. PICK w : w = thread.waiting
  OBVIOUS
<1>4. PICK k : k = FirstOf(w, c)
  OBVIOUS
<1>5. w \in Seq(WaitingCall) /\ k \in 1..Len(w) /\ w[k].call = c /\ \A i \in 1..Len(w) : w[i].call = c => i = k
  BY <1>0, <1>2, <1>3, <1>4, TakesTheCall
<1>6. PICK v : v = Cut(w, k)
  OBVIOUS
<1>7. /\ v \in Seq(WaitingCall) /\ Len(v) = Len(w) - 1 /\ Len(w) \in Nat
      /\ \A j \in 1..Len(w) - 1 : v[j] = IF j < k THEN w[j] ELSE w[j + 1]
  BY <1>5, <1>6, CutFacts
<1>8. thread' = [thread EXCEPT !.waiting = v]
  BY <1>3, <1>4, <1>6 DEF Without
<1>9. /\ thread' \in ThreadRecord /\ thread'.waiting = v /\ thread'.round = thread.round
      /\ thread'.state = thread.state /\ thread'.carried = thread.carried
  BY <1>0, <1>7, <1>8 DEF ThreadRecord
<1>10. /\ caller' \in CallerRecord /\ caller'.pc = "respond" /\ caller'.round = caller.round
       /\ caller'.isNew = caller.isNew
  BY <1>0 DEF CallerRecord
<1>11. /\ answered' \in [Calls -> Nat] /\ answered'[c] = answered[c] + 1
       /\ \A d \in Calls : d # c => answered'[d] = answered[d]
       /\ server' \in ServerRecord /\ server'.made = server.made /\ server'.asked = server.asked \ {c}
  BY <1>0, <1>2, AnsweredFields
<1>12. QuietOutput /\ Onward(rounds, rounds')
  BY <1>0, <1>1, OthersSame, OnwardSame
<1>13. TypeOK'
  BY <1>0, <1>1, <1>9, <1>10, <1>11, Records, TypesNext
<1>14. PlacedSame
  BY <1>0, <1>1, <1>9, <1>10 DEF PlacedSame, Starting, InRound
<1>15. Ended'
  BY <1>12, OnwardEnded DEF IInv
<1>16. Timed'
  BY <1>10 DEF Timed
<1>17. UsageSame
  BY <1>1, <1>9, <1>12 DEF UsageSame, Kept, QuietOutput
<1> DEFINE Old(j) == IF j < k THEN j ELSE j + 1
           New(i) == IF i < k THEN i ELSE i - 1
<1>18. \A j \in 1..Len(v) : Old(j) \in 1..Len(w) /\ Old(j) # k /\ v[j] = w[Old(j)]
  BY <1>5, <1>7
<1>19. \A i \in 1..Len(w) : i # k => New(i) \in 1..Len(v) /\ v[New(i)] = w[i]
  <2>1. k \in 1..Len(w)
    BY <1>5
  <2>2. ASSUME NEW i \in 1..Len(w), i < k
        PROVE  i \in 1..Len(w) - 1 /\ v[i] = w[i]
    BY <1>7, <2>1, <2>2
  <2>3. ASSUME NEW i \in 1..Len(w), i > k
        PROVE  i - 1 \in 1..Len(w) - 1 /\ v[i - 1] = w[i]
    BY <1>7, <2>1, <2>3
  <2>4. \A i \in 1..Len(w) : i # k => i < k \/ i > k
    BY <1>7, <2>1
  <2>5. \A i \in 1..Len(w) : i > k => ~(i < k)
    BY <1>7, <2>1
  <2> QED BY <1>7, <2>2, <2>3, <2>4, <2>5
<1>20. \A i, j \in 1..Len(v) : Old(i) = Old(j) => i = j
  BY <1>5, <1>7
<1> HIDE DEF Old, New
<1>21. \A d \in Calls :
         /\ There(wire, ToolLines, d)' <=> There(wire, ToolLines, d)
         /\ Single(wire, ToolLines, d) => Single(wire, ToolLines, d)'
  BY <1>12 DEF QuietOutput, Fewer, NoneLost
<1>22. ASSUME NEW d \in Calls, d # c
       PROVE  Followed(d)'
  <2>1. Followed(d) /\ told'[d] = told[d] /\ answered'[d] = answered[d]
    BY <1>1, <1>11, <1>22 DEF IInv
  <2>2. Waits(d)' <=> Waits(d)
    <3>1. Waits(d)' => Waits(d)
      BY <1>3, <1>9, <1>18 DEF Waits
    <3>2. ASSUME Waits(d)
          PROVE  Waits(d)'
      <4>1. PICK i \in 1..Len(w) : w[i].call = d
        BY <1>3, <3>2 DEF Waits
      <4>2. i # k
        BY <1>5, <1>22, <4>1
      <4>3. New(i) \in 1..Len(v) /\ v[New(i)].call = d
        BY <1>19, <4>1, <4>2
      <4> QED BY <1>9, <4>3 DEF Waits
    <3> QED BY <3>1, <3>2
  <2>3. \A i, j \in 1..Len(v) : v[i].call = d /\ v[j].call = d => i = j
    <3>1. \A i, j \in 1..Len(w) : w[i].call = d /\ w[j].call = d => i = j
      BY <1>3, <2>1 DEF Followed
    <3> QED BY <1>18, <1>20, <3>1
  <2>4. \A i \in 1..Len(v) : v[i].call = d =>
          d \in server.made /\ answered[d] = 0 /\ told[d] = IF v[i].reported THEN 1 ELSE 0
    <3>1. \A i \in 1..Len(w) : w[i].call = d =>
            d \in server.made /\ answered[d] = 0 /\ told[d] = IF w[i].reported THEN 1 ELSE 0
      BY <1>3, <2>1 DEF Followed
    <3> QED BY <1>18, <3>1
  <2>5. /\ told'[d] <= 1 /\ answered'[d] <= 1 /\ Single(wire, ToolLines, d)'
        /\ There(wire, ToolLines, d)' => d \in server'.made /\ ~Waits(d)' /\ told'[d] = 0 /\ answered'[d] = 0
        /\ d \notin server'.made => told'[d] = 0 /\ answered'[d] = 0
        /\ d \in server'.asked => There(wire, ToolLines, d)' \/ Waits(d)'
    BY <1>11, <1>21, <2>1, <2>2 DEF Followed
  <2> QED BY <1>9, <1>11, <2>1, <2>3, <2>4, <2>5 DEF Followed
<1>23. Followed(c)'
  <2>1. /\ c \in server.made /\ answered[c] = 0 /\ told[c] <= 1
        /\ ~There(wire, ToolLines, c) /\ Single(wire, ToolLines, c)
    <3>1. k \in 1..Len(thread.waiting) /\ thread.waiting[k].call = c
      BY <1>3, <1>5
    <3> QED BY <1>2, <3>1 DEF Followed
  <2>2. \A i \in 1..Len(v) : v[i].call # c
    BY <1>5, <1>18
  <2>3. answered'[c] = 1 /\ told'[c] = told[c]
    BY <1>1, <1>11, <2>1
  <2>4. ~There(wire, ToolLines, c)' /\ Single(wire, ToolLines, c)'
    BY <1>2, <1>21, <2>1
  <2> QED BY <1>9, <1>11, <2>1, <2>2, <2>3, <2>4 DEF Followed
<1> QED BY <1>0, <1>13, <1>14, <1>15, <1>16, <1>17, <1>22, <1>23, PlacedKept, ReportsKept DEF Preserved, IInv

\* A result for a call that does not wait aborts the round.
LEMMA RespondStep ==
  ASSUME IInv, Respond
  PROVE  TypeOK' /\ Preserved
<1>0. TypeOK /\ caller \in CallerRecord
  BY Records DEF IInv
<1>1. PICK c \in caller.results :
        IF Waits(c)
        THEN /\ thread' = [thread EXCEPT !.waiting = Without(@, c)]
             /\ caller' = [caller EXCEPT !.results = @ \ {c}]
             /\ Answered(c)
        ELSE Goto("abort") /\ UNCHANGED <<thread, answered, server>>
  BY DEF Respond, Waits
<1>2. CASE Waits(c)
  BY <1>1, <1>2, AnswersStep
<1>3. CASE ~Waits(c)
  <2>1. Goto("abort") /\ UNCHANGED <<thread, rounds, closer, stopper, client, pending, server, wire, history>>
    BY <1>1, <1>3 DEF Respond, history
  <2>2. "abort" \in Pcs /\ Edge(caller.pc, "abort")
    BY DEF Respond, At, Edge, Pcs
  <2>3. CallerMoves /\ caller' \in CallerRecord
    BY <1>0, <2>1, <2>2, EdgeMoves, GotoFields
  <2>4. TypeOK'
    BY <1>0, <2>1, <2>3, Records, TypesNext DEF history
  <2> QED BY <1>0, <2>1, <2>3, <2>4, OthersSame, MoveOrdinary, OrdinaryPreserves
<1> QED BY <1>2, <1>3

-----------------------------------------------------------------------------
(***************************************************************************)
(* What a close loses and leaves behind                                    *)
(***************************************************************************)
\* A caller that runs no round, and will not.
Quit == caller.pc \in {"out", "given up", "flush"} /\ (caller.pc = "out" => ~caller.isNew)

\* Who closes the thread and returns its usage comes when its caller has quit.
\* Once the thread is unregistered, the reader has one line for it at most.
ClosedOnce ==
  /\ closer.pc \in {"out", "taken"} => ~closer.keeps
  /\ closer.keeps \/ closer.pc = "taken" => Quit
  /\ closer.keeps /\ closer.pc \in {"take", "done"} => ~client.registered
  /\ \A x \in Reports : dropped[x] > 0 => closer.pc = "done" /\ (closer.keeps => x \in Declines)
  /\ closer.keeps /\ closer.pc = "done" =>
       \A x \in Reports : thread.carried[x] > 0 =>
         ~client.held /\ \A y \in Reports : thread.carried[y] > 0 => x = y

LEMMA CallersOpen ==
  ASSUME Calling
  PROVE  ~Quit /\ UNCHANGED <<closer, dropped>>
<1>1. CASE Begin \/ Refuse \/ ThreadStarts \/ StartFails \/ Injected \/ InjectFails \/ OpenRound
  BY <1>1 DEF Begin, Refuse, ThreadStarts, StartFails, Injected, InjectFails, OpenRound, At, Quit, history
<1>2. CASE LookNew \/ LookIdle \/ LookWaiting \/ Kicked \/ KickFails
  BY <1>2 DEF LookNew, LookIdle, LookWaiting, Kicked, KickFails, At, Quit, history
<1>3. CASE Respond \/ ArmTimer \/ Receive \/ Deadline
  BY <1>3 DEF Respond, ArmTimer, Receive, Deadline, At, Quit, history
<1>4. CASE AbortRound \/ CompleteFailed \/ Complete
  BY <1>4 DEF AbortRound, CompleteFailed, Complete, At, Quit, history
<1> QED BY <1>1, <1>2, <1>3, <1>4 DEF Calling

\* Nobody closes while the caller is in a round, but the daemon that stops.
LEMMA CallersClosed ==
  ASSUME ClosedOnce, Calling \/ PlanExtend
  PROVE  ClosedOnce'
<1>1. ~closer.keeps /\ closer.pc # "taken" /\ UNCHANGED <<closer, dropped>>
  <2>1. CASE Calling
    BY <2>1, CallersOpen DEF ClosedOnce
  <2>2. CASE PlanExtend
    BY <2>2 DEF PlanExtend, ClosedOnce
  <2> QED BY <2>1, <2>2
<1> QED BY <1>1 DEF ClosedOnce

\* A step of nobody who is concerned.
LEMMA StillClosed ==
  ASSUME ClosedOnce, UNCHANGED <<caller, closer, client, dropped>>, thread'.carried = thread.carried
  PROVE  ClosedOnce'
BY DEF ClosedOnce, Quit

\* Close begins when nothing was lost yet.
LEMMA BeginsClosed ==
  ASSUME IInv, ClosedOnce, CallerCloses \/ ManagerTakes \/ ManagerReplaces \/ DaemonStops
  PROVE  ClosedOnce'
<1>0. closer \in CloserRecord /\ dropped \in [Reports -> Nat]
  BY Records DEF IInv
<1>1. \A x \in Reports : ~(dropped[x] > 0)
  BY DEF CallerCloses, ManagerTakes, ManagerReplaces, DaemonStops, ClosedOnce
<1>2. UNCHANGED <<caller, client, dropped>>
  BY DEF CallerCloses, ManagerTakes, ManagerReplaces, DaemonStops, Close, history
<1>3. /\ closer'.pc \in {"taken", "begin"}
      /\ closer'.pc = "taken" => ~closer'.keeps
      /\ closer'.keeps \/ closer'.pc = "taken" => Quit
  <2>1. CASE CallerCloses
    <3>1. CASE At("fail") /\ Close(FALSE)
      <4>1. closer' = [pc |-> "begin", turn |-> thread.turn, keeps |-> FALSE]
        BY <3>1 DEF Close
      <4>2. closer'.pc = "begin" /\ closer'.keeps = FALSE
        BY <4>1
      <4> QED BY <4>2
    <3>2. CASE At("flush") /\ Close(TRUE)
      <4>1. closer'.pc = "begin" /\ Quit
        BY <3>2 DEF Close, At, Quit
      <4> QED BY <4>1
    <3> QED BY <2>1, <3>1, <3>2 DEF CallerCloses
  <2>2. CASE ManagerTakes
    BY <1>0, <2>2 DEF ManagerTakes, CloserGoto, CloserRecord, ClosedOnce, At, Quit
  <2>3. CASE ManagerReplaces
    BY <2>3 DEF ManagerReplaces, Close, ClosedOnce
  <2>4. CASE DaemonStops
    BY <2>4 DEF DaemonStops, Close
  <2> QED BY <2>1, <2>2, <2>3, <2>4
<1> QED BY <1>1, <1>2, <1>3 DEF ClosedOnce, Quit

\* Up to unregister it loses nothing.
LEMMA WalksClosed ==
  ASSUME IInv, ClosedOnce, CloserWalks \/ Unregister
  PROVE  ClosedOnce'
<1>0. closer \in CloserRecord /\ client \in ClientRecord
  BY Records DEF IInv
<1>1. /\ closer.pc \in {"begin", "interrupt", "wait", "unsubscribe", "unregister"}
      /\ closer'.pc \in {"interrupt", "wait", "unsubscribe", "unregister", "take"}
      /\ closer'.keeps = closer.keeps
  BY <1>0 DEF CloserWalks, CloseLooks, CloseInterrupted, CloseWaited, CloseNotInterrupted, CloseUnsubscribed,
              Unregister, CloserGoto, CloserRecord
<1>2. UNCHANGED <<caller, dropped>>
  BY DEF CloserWalks, CloseLooks, CloseInterrupted, CloseWaited, CloseNotInterrupted, CloseUnsubscribed,
         Unregister, history
<1>3. closer'.pc = "take" => ~client'.registered
  BY <1>0 DEF CloserWalks, CloseLooks, CloseInterrupted, CloseWaited, CloseNotInterrupted, CloseUnsubscribed,
              Unregister, CloserGoto, CloserRecord, ClientRecord
<1> QED BY <1>1, <1>2, <1>3 DEF ClosedOnce, Quit

\* It loses what it does not return, and leaves nothing.
LEMMA TakesClosed ==
  ASSUME IInv, ClosedOnce, CloseTakes
  PROVE  ClosedOnce'
<1>0. /\ thread \in ThreadRecord /\ thread.carried \in [Reports -> Nat] /\ caller \in CallerRecord
      /\ closer \in CloserRecord /\ dropped \in [Reports -> Nat]
  BY Records DEF IInv, ThreadRecord
<1>1. closer.pc = "take" /\ closer'.pc = "done" /\ closer'.keeps = closer.keeps /\ UNCHANGED client
  BY <1>0 DEF CloseTakes, CloserGoto, CloserRecord
<1>2. \A x \in Reports : dropped[x] = 0
  BY <1>0, <1>1 DEF ClosedOnce
<1>3. ASSUME NEW x \in Reports
      PROVE  dropped'[x] > 0 /\ closer.keeps => x \in Declines
  <2>1. PICK l : l = Lost
    OBVIOUS
  <2>2. l \in [Reports -> Nat] /\ (l[x] > 0 /\ closer.keeps => x \in Declines)
    BY <1>0, <2>1, SplitTypes
  <2>3. PICK d \in [Reports -> Nat] : d = Plus(dropped, l) /\ d[x] = dropped[x] + l[x]
    BY <1>0, <2>2, BagTypes
  <2>4. dropped' = d
    BY <2>1, <2>3 DEF CloseTakes
  <2> QED BY <1>2, <2>2, <2>3, <2>4
<1>4. \A x \in Reports : thread'.carried[x] = 0
  <2>1. PICK n \in [Reports -> Nat] : n = None(Reports) /\ \A x \in Reports : n[x] = 0
    BY <1>0, BagTypes
  <2>2. thread' = [thread EXCEPT !.carried = n]
    BY <2>1 DEF CloseTakes
  <2> QED BY <1>0, <2>1, <2>2 DEF ThreadRecord
<1>5. Quit => Quit'
  BY <1>0 DEF CloseTakes, Goto, CallerRecord, Quit
<1> QED BY <1>1, <1>3, <1>4, <1>5 DEF ClosedOnce

\* A report of a thread that was unregistered comes with the line in hand.
LEMMA GathersClosed ==
  ASSUME IInv, ClosedOnce, UsageUpdated \/ NativeRequest
  PROVE  ClosedOnce'
<1>0. /\ TypeOK /\ thread \in ThreadRecord /\ thread.carried \in [Reports -> Nat] /\ client \in ClientRecord
  BY Records DEF IInv, ThreadRecord
<1>1. UNCHANGED <<caller, closer, dropped>>
  BY DEF UsageUpdated, NativeRequest, history
<1>2. Line.of \in Reports /\ Gather(Line.of) /\ HasSink /\ client' = [client EXCEPT !.held = FALSE]
  BY <1>0, ForThreadFields, FrameKinds DEF UsageUpdated, NativeRequest, ReportLines, ForThread
<1>3. ~client'.held /\ client'.registered = client.registered
  BY <1>0, <1>2 DEF ClientRecord
<1>4. PICK x \in Reports : x = Line.of
  BY <1>2
<1>5. \A y \in Reports : y # x => thread'.carried[y] = thread.carried[y]
  BY <1>0, <1>2, <1>4 DEF Gather, ThreadRecord
<1>6. closer.keeps /\ closer.pc = "done" => \A y \in Reports : ~(thread.carried[y] > 0)
  BY <1>2 DEF HasSink, ClosedOnce
<1>7. closer.keeps /\ closer.pc = "done" =>
        \A y \in Reports : thread'.carried[y] > 0 =>
          ~client'.held /\ \A z \in Reports : thread'.carried[z] > 0 => y = z
  BY <1>3, <1>5, <1>6
<1> QED BY <1>1, <1>3, <1>7 DEF ClosedOnce, Quit

\* No other line adds to what the thread carries.
LEMMA ReadsClosed ==
  ASSUME IInv, ClosedOnce, Reading
  PROVE  ClosedOnce'
<1>0. TypeOK /\ thread \in ThreadRecord /\ client \in ClientRecord
  BY Records DEF IInv
<1>1. CASE UsageUpdated \/ NativeRequest
  BY <1>1, GathersClosed
<1>2. CASE ~(UsageUpdated \/ NativeRequest)
  <2>1. UNCHANGED <<caller, closer, dropped>>
    BY <1>2 DEF Reading, ReadsResponse, TurnStarted, Item, TurnCompleted, UnreadableFrame, ToolCall,
                RefusesToolCall, NoThread, OutputEnds, ServerExited, history
  <2>2. (client'.held => client.held) /\ (client'.registered => client.registered)
    BY <1>0, <1>2 DEF Reading, ReadsResponse, TurnStarted, Item, TurnCompleted, UnreadableFrame, ToolCall,
                RefusesToolCall, NoThread, OutputEnds, ServerExited, ForThread, ClientRecord
  <2>3. thread'.carried = thread.carried
    <3>1. CASE TurnStarted \/ Item \/ TurnCompleted
      BY <1>0, <3>1 DEF TurnStarted, Item, TurnCompleted, OffRound, ThreadRecord
    <3>2. CASE UnreadableFrame
      BY <1>0, <3>2 DEF UnreadableFrame, ThreadRecord
    <3>3. CASE ToolCall
      BY <1>0, <3>3 DEF ToolCall, ThreadRecord
    <3>4. CASE RefusesToolCall
      BY <1>0, <3>4, OffRoundFields DEF RefusesToolCall
    <3>5. CASE ReadsResponse \/ NoThread \/ OutputEnds
      BY <3>5 DEF ReadsResponse, NoThread, OutputEnds
    <3>6. CASE ServerExited
      BY <1>0, <3>6 DEF ServerExited, ThreadRecord
    <3> QED BY <1>2, <3>1, <3>2, <3>3, <3>4, <3>5, <3>6 DEF Reading
  <2> QED BY <2>1, <2>2, <2>3 DEF ClosedOnce, Quit
<1> QED BY <1>1, <1>2

-----------------------------------------------------------------------------
(***************************************************************************)
(* The invariant, and what it says                                         *)
(***************************************************************************)
\* It holds at first.
LEMMA InitInv == Init => IInv
<1> SUFFICES ASSUME Init PROVE IInv
  OBVIOUS
<1>1. TypeOK
  <2>1. thread \in ThreadRecord
    BY CodexAssumption DEF Init, ThreadRecord, None
  <2>2. rounds \in [RoundIds -> RoundRecord]
    BY DEF Init, RoundRecord
  <2>3. caller \in CallerRecord
    BY CodexAssumption DEF Init, CallerRecord, Pcs
  <2>4. closer \in CloserRecord /\ stopper \in StopperRecord /\ client \in ClientRecord /\ server \in ServerRecord
    BY CodexAssumption DEF Init, CloserRecord, StopperRecord, ClientRecord, ServerRecord
  <2>5. pending \in PendingRecord /\ wire \in Seq(Frames)
    BY DEF Init, PendingRecord
  <2>6. /\ billed \in [Reports -> Nat] /\ dropped \in [Reports -> Nat]
        /\ told \in [Calls -> Nat] /\ answered \in [Calls -> Nat] /\ misread \in BOOLEAN
    BY DEF Init, None
  <2> QED BY <2>1, <2>2, <2>3, <2>4, <2>5, <2>6, Records
<1>2. Placed
  BY DEF Init, Placed, InRound, Starting
<1>3. Ended
  BY DEF Init, Ended
<1>4. Timed
  BY DEF Init, Timed
<1>5. ASSUME NEW x \in Reports
      PROVE  Conserved(x)
  <2>1. Kept(x) = 0
    BY DEF Init, Kept, None
  <2>2. ~There(wire, ReportLines, x) /\ Single(wire, ReportLines, x)
    BY DEF Init, There, Single
  <2>3. \A r \in RoundIds : x \notin rounds[r].gathered
    BY DEF Init
  <2> QED BY <2>1, <2>2, <2>3 DEF Conserved
<1>6. ASSUME NEW c \in Calls
      PROVE  Followed(c)
  <2>1. told[c] = 0 /\ answered[c] = 0 /\ c \notin server.asked
    BY DEF Init, None
  <2>2. ~There(wire, ToolLines, c) /\ Single(wire, ToolLines, c)
    BY DEF Init, There, Single
  <2>3. Len(thread.waiting) = 0
    BY DEF Init
  <2> QED BY <2>1, <2>2, <2>3 DEF Followed
<1> QED BY <1>1, <1>2, <1>3, <1>4, <1>5, <1>6 DEF IInv

\* The steps of the caller,
LEMMA CallingStep ==
  ASSUME IInv, Calling
  PROVE  TypeOK' /\ Preserved
<1>1. CASE Walks
  BY <1>1, WalksStep, OrdinaryPreserves
<1>2. CASE ThreadStarts
  BY <1>2, ThreadStartsStep, OrdinaryPreserves
<1>3. CASE OpenRound
  BY <1>3, GivesUpStep, OpenRoundStep, OrdinaryPreserves
<1>4. CASE Respond
  BY <1>4, RespondStep
<1>5. CASE ArmTimer
  BY <1>5, ArmTimerStep, OrdinaryPreserves
<1>6. CASE AbortRound \/ CompleteFailed
  BY <1>6, FailsStep
<1>7. CASE Complete
  BY <1>7, CompleteStep
<1> QED BY <1>1, <1>2, <1>3, <1>4, <1>5, <1>6, <1>7 DEF Calling, Walks

\* of those who close and interrupt,
LEMMA ClosingStep ==
  ASSUME IInv, CallerCloses \/ ManagerTakes \/ ManagerReplaces \/ DaemonStops \/ Closing \/ Stopping
  PROVE  TypeOK' /\ Preserved
<1>1. CASE CallerCloses \/ ManagerReplaces \/ DaemonStops
  <2>1. \E keeps \in BOOLEAN : Close(keeps)
    BY <1>1 DEF CallerCloses, ManagerReplaces, DaemonStops
  <2> QED BY <2>1, CloseStep, OrdinaryPreserves
<1>2. CASE CloserWalks
  BY <1>2, CloserWalksStep, ElsewhereStep, OrdinaryPreserves
<1>3. CASE Unregister
  BY <1>3, UnregisterStep, ElsewhereStep, OrdinaryPreserves
<1>4. CASE CloseTakes
  BY <1>4, CloseTakesStep, OrdinaryPreserves
<1>5. CASE Stopping
  BY <1>5, StopperStep, ElsewhereStep, OrdinaryPreserves DEF Stopping
<1>6. CASE ManagerTakes
  BY <1>6, ManagerTakesStep, OrdinaryPreserves
<1> QED BY <1>1, <1>2, <1>3, <1>4, <1>5, <1>6 DEF Closing, CloserWalks

\* of the reader,
LEMMA ReadingStep ==
  ASSUME IInv, Reading
  PROVE  TypeOK' /\ Preserved
<1>1. CASE ReadsResponse
  BY <1>1, ReadsResponseStep, ElsewhereStep, OrdinaryPreserves
<1>2. CASE UsageUpdated \/ NativeRequest
  BY <1>2, GatherStep
<1>3. CASE TurnStarted \/ Item
  BY <1>3, NoticesStep, OrdinaryPreserves
<1>4. CASE TurnCompleted
  BY <1>4, TurnCompletedStep, OrdinaryPreserves
<1>5. CASE UnreadableFrame
  BY <1>5, UnreadableStep, OrdinaryPreserves
<1>6. CASE ToolCall
  BY <1>6, ToolCallStep
<1>7. CASE RefusesToolCall
  BY <1>7, RefusesStep
<1>8. CASE NoThread
  BY <1>8, RefusesStep, DropsStep, ElsewhereStep, OrdinaryPreserves
<1>9. CASE OutputEnds
  BY <1>9, OutputEndsStep, ElsewhereStep, OrdinaryPreserves
<1>10. CASE ServerExited
  BY <1>10, ServerExitedStep, OrdinaryPreserves
<1> QED BY <1>1, <1>2, <1>3, <1>4, <1>5, <1>6, <1>7, <1>8, <1>9, <1>10 DEF Reading

\* and of the app-server keep the invariant.
LEMMA AppServerStep ==
  ASSUME IInv, AppServer
  PROVE  TypeOK' /\ Preserved
<1>1. CASE \E g \in Goroutines : ServeError(g) \/ ServeCall(g)
  BY <1>1, ServesStep, ElsewhereStep, OrdinaryPreserves
<1>2. CASE ServeTurn
  BY <1>2, ServeTurnStep, ElsewhereStep, OrdinaryPreserves
<1>3. CASE Works
  <2>1. CASE \E x \in Reports : Unsent(x) /\ Write(<<[kind |-> KindOf(x), of |-> x]>>)
    BY <1>3, <2>1, ReportStep DEF ReportLines, KindOf
  <2>2. CASE ~ \E x \in Reports : Unsent(x) /\ Write(<<[kind |-> KindOf(x), of |-> x]>>)
    BY <1>3, <2>2, WorksQuietly, ElsewhereStep, OrdinaryPreserves
  <2> QED BY <2>1, <2>2
<1>4. CASE \E c \in Calls : Asks(c)
  BY <1>4, AsksStep
<1>5. CASE TurnEnds
  BY <1>5, TurnEndsStep, ElsewhereStep, OrdinaryPreserves
<1>6. CASE Dies
  BY <1>6, DiesStep, ElsewhereStep, OrdinaryPreserves
<1> QED BY <1>1, <1>2, <1>3, <1>4, <1>5, <1>6 DEF AppServer

\* The invariant, from its parts.
LEMMA PreservedInv ==
  ASSUME TypeOK', Preserved
  PROVE  IInv'
BY DEF IInv, Preserved

\* A step that changes nothing keeps it.
LEMMA StutterInv ==
  ASSUME IInv, UNCHANGED vars
  PROVE  IInv'
<1>0. TypeOK
  BY DEF IInv
<1>1. UNCHANGED <<thread, rounds, caller, history>> /\ ElsewhereTypes
  BY <1>0, Records, OthersSame DEF vars, ElsewhereTypes
<1> QED BY <1>1, ElsewhereStep, OrdinaryPreserves, PreservedInv

\* The invariant is inductive.
LEMMA NextInv == IInv /\ [Next]_vars => IInv'
<1> SUFFICES ASSUME IInv, [Next]_vars PROVE IInv'
  OBVIOUS
<1>1. CASE Calling
  BY <1>1, CallingStep, PreservedInv
<1>2. CASE PlanExtend
  BY <1>2, PlanExtendStep, OrdinaryPreserves, PreservedInv
<1>3. CASE Timing
  BY <1>3, TimerFiresStep, TimerCallsBackStep, OrdinaryPreserves, PreservedInv DEF Timing
<1>4. CASE CallerCloses \/ ManagerTakes \/ ManagerReplaces \/ DaemonStops \/ Closing \/ Stopping
  BY <1>4, ClosingStep, PreservedInv
<1>5. CASE Reading
  BY <1>5, ReadingStep, PreservedInv
<1>6. CASE AppServer
  BY <1>6, AppServerStep, PreservedInv
<1>7. CASE UNCHANGED vars
  BY <1>7, StutterInv
<1> QED BY <1>1, <1>2, <1>3, <1>4, <1>5, <1>6, <1>7 DEF Next

\* Whatever the callers, the timers, the close and the app-server do, the state
\* of the thread, its rounds and its client is of the type it is declared with.
THEOREM TypeCorrect == Spec => []TypeOK
<1>1. IInv => TypeOK
  BY DEF IInv
<1> QED BY <1>1, InitInv, NextInv, PTL DEF Spec

\* The channel of a round's end is sent to once: finishLocked, called for the
\* end of the turn, the batch timer, the close and the exit of the process,
\* blocks nobody who holds the thread's mutex.
THEOREM EndedOnce == Spec => []EndsOnce
<1>1. IInv => EndsOnce
  BY DEF IInv, Ended, EndsOnce
<1> QED BY <1>1, InitInv, NextInv, PTL DEF Spec

\* What a close loses and leaves behind is as it should be in every step.
LEMMA InitClosed == Init => ClosedOnce
BY DEF Init, ClosedOnce, None

LEMMA NextClosed == IInv /\ ClosedOnce /\ [Next]_vars => ClosedOnce'
<1> SUFFICES ASSUME IInv, ClosedOnce, [Next]_vars PROVE ClosedOnce'
  OBVIOUS
<1>1. CASE Calling \/ PlanExtend
  BY <1>1, CallersClosed
<1>2. CASE CallerCloses \/ ManagerTakes \/ ManagerReplaces \/ DaemonStops
  BY <1>2, BeginsClosed
<1>3. CASE Closing
  BY <1>3, WalksClosed, TakesClosed DEF Closing, CloserWalks
<1>4. CASE Reading
  BY <1>4, ReadsClosed
<1>5. CASE Timing \/ Stopping
  BY <1>5, StillClosed DEF Timing, TimerFires, TimerCallsBack, Stopping, StopperLooks, StopperReturns, history
<1>6. CASE AppServer
  <2>1. UNCHANGED <<thread, caller, closer, client, history>>
    BY <1>6 DEF AppServer, ServeError, ServeCall, ServeTurn, Works, Asks, TurnEnds, Dies
  <2> QED BY <2>1, StillClosed DEF history
<1>7. CASE UNCHANGED vars
  BY <1>7, StillClosed DEF vars, history
<1> QED BY <1>1, <1>2, <1>3, <1>4, <1>5, <1>6, <1>7 DEF Next

\* A report the thread took in is at one place: with its open round, carried by
\* the thread, given to the owner, or lost at the close.  A close that returns
\* the usage (detachRunner, and OneShot with a result) loses events only, and
\* at most one report stays behind on the thread.
THEOREM ReportsAreConserved == Spec => []ReportsConserved
<1>1. ASSUME IInv, ClosedOnce
      PROVE  ReportsConserved
  <2>1. ASSUME NEW x \in Reports
        PROVE  InOnePlace(x)
    <3> DEFINE H == {r \in RoundIds : x \in rounds[r].gathered /\ ~rounds[r].settled}
    <3>1. thread.carried[x] \in Nat /\ billed[x] \in Nat /\ dropped[x] \in Nat
      BY <1>1, Records DEF IInv, ThreadRecord
    <3>2. Conserved(x) /\ Kept(x) = thread.carried[x] + billed[x] + dropped[x]
      BY <1>1 DEF IInv, Kept
    <3>3. CASE H = {}
      <4>1. Held(x) = 0
        BY <3>3, FS_EmptySet DEF Held
      <4>2. (\E r \in RoundIds : x \in rounds[r].gathered) => Kept(x) = 1
        BY <3>2, <3>3 DEF Conserved
      <4>3. Kept(x) <= 1
        BY <3>2 DEF Conserved
      <4> QED BY <3>1, <3>2, <4>1, <4>2, <4>3 DEF InOnePlace
    <3>4. CASE H # {}
      <4>1. PICK r \in RoundIds : x \in rounds[r].gathered /\ ~rounds[r].settled
        BY <3>4
      <4>2. H = {r}
        BY <3>2, <4>1 DEF Conserved
      <4>3. Held(x) = 1
        BY <4>2, FS_Singleton DEF Held
      <4>4. Kept(x) = 0
        BY <3>2, <4>1 DEF Conserved
      <4> QED BY <3>1, <3>2, <4>3, <4>4 DEF InOnePlace
    <3> QED BY <3>3, <3>4
  <2>2. LosesEventsOnly /\ LeavesOneBehind
    BY <1>1 DEF ClosedOnce, LosesEventsOnly, LeavesOneBehind
  <2> QED BY <2>1, <2>2 DEF ReportsConserved
<1> QED BY <1>1, InitInv, NextInv, InitClosed, NextClosed, PTL DEF Spec

\* A tool call is reported once and answered once, and the thread holds one that
\* Codex waits for until it is answered.
THEOREM CallsAreHeld == Spec => []CallsHeld
<1>1. ASSUME IInv
      PROVE  CallsHeld
  <2>1. ASSUME NEW c \in Calls
        PROVE  /\ told[c] <= 1 /\ answered[c] <= 1
               /\ c \in server.asked /\ (\A i \in 1..Len(wire) : wire[i].of # c) /\ ~thread.closed
                    => \E i \in 1..Len(thread.waiting) : thread.waiting[i].call = c
    <3>1. Followed(c)
      BY <1>1 DEF IInv
    <3> QED BY <3>1 DEF Followed, There, IsLine, Waits
  <2> QED BY <2>1 DEF CallsHeld
<1> QED BY <1>1, InitInv, NextInv, PTL DEF Spec

\* A round that waits for calls it has not reported has a timer, a callback
\* under way, or its end: the batch is reported though Codex never says that
\* it is complete.
THEOREM BatchesHaveTimers == Spec => []BatchHasTimer
<1>1. IInv => BatchHasTimer
  BY DEF IInv, Timed, HasTimer, BatchHasTimer, At
<1> QED BY <1>1, InitInv, NextInv, PTL DEF Spec
=============================================================================
