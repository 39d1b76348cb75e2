------------------------ MODULE ClaudeSession_proofs ------------------------
(***************************************************************************)
(* Proofs about a warm Claude Code conversation for every window, every    *)
(* set of reasons a turn may end for, and every number of rounds and steps.*)
(***************************************************************************)
EXTENDS ClaudeSession, FiniteSetTheorems, SequenceTheorems, TLAPS

-----------------------------------------------------------------------------
(***************************************************************************)
(* The inductive invariant                                                 *)
(***************************************************************************)
SessionRecord ==
  [state : {"starting", "running", "waiting", "idle", "dirty"}, current : 0..MaxRounds,
   replay : Seq(1..Window), rebuilt : Nat, carried : [Steps -> Nat], closed : BOOLEAN]
RoundRecord ==
  [opened : BOOLEAN, finished : BOOLEAN, done : Seq(Ends), settled : BOOLEAN,
   usage : [Steps -> Nat], lastStop : StepEnds \cup {"none"}, texts : BOOLEAN, calls : 0..MaxSteps]
CallerPcs ==
  {"out", "start", "seed", "seeding", "open", "arm", "submit", "rebuild", "feed",
   "await", "complete", "abort", "fail", "failing", "given up"}
CallerRecord ==
  [pc : CallerPcs, round : 0..MaxRounds, isNew : BOOLEAN, feeds : {"results", "prompt", "nothing"}]
CloserRecord == [pc : {"out", "begin", "kill", "take", "done"}, keeps : BOOLEAN]
CommandRecord == [kind : {"seed", "submit"}, round : 0..MaxRounds]
CliPcs ==
  {"idle", "step", "asking", "real", "reporting", "tools", "ending", "completing", "erring", "erring late"}
CliRecord ==
  [up : BOOLEAN, pc : CliPcs, turn : 0..MaxRounds, strayed : BOOLEAN, step : 0..MaxSteps,
   call : Call \cup {NoCall}, reason : TurnReasons, prompts : Seq(RoundIds), seeded : BOOLEAN]
PostRecord ==
  [kind : {"none", "step-start", "step-end", "turn-complete", "event"},
   of : StepEnds \cup TurnReasons \cup {"none"}, step : 0..MaxSteps, turn : Turns]

\* The session is in the caller's round, from its opening until the caller has
\* taken its result or given it up, and nothing has happened in the rounds to come.
Between == {"start", "seed", "seeding", "open", "out"}
Within == {"arm", "submit", "rebuild", "feed", "await", "complete", "abort"}
Placed ==
  /\ session.current \in {0, caller.round}
  /\ session.state = "running" <=> session.current # 0
  /\ caller.pc \in Between => session.current = 0
  /\ caller.pc \in Within => session.current # 0
  /\ session.state = "starting" => caller.isNew /\ caller.pc # "out"
  /\ caller.isNew => caller.feeds = "prompt"
  /\ failers \subseteq 1..caller.round
  /\ \A r \in RoundIds : r > caller.round =>
       ~rounds[r].finished /\ rounds[r].done = <<>> /\ endedBy[r] = {}

\* A round that was given its end is finished, and a finished one gets no other.
Ended ==
  /\ \A r \in RoundIds :
       /\ Len(rounds[r].done) <= 1
       /\ rounds[r].done # <<>> => rounds[r].finished
       /\ rounds[r].done = <<"tool_calls">> => rounds[r].calls # 0
  /\ caller.pc = "complete" => rounds[caller.round].done # <<>>

\* Results are fed to the calls of the round before, and only when it made some.
Answerable ==
  /\ session.state = "waiting" => caller.round # 0 /\ rounds[caller.round].calls # 0
  /\ caller.pc = "open" /\ ~caller.isNew /\ session.state # "dirty" =>
       (caller.feeds = "results" <=> session.state = "waiting")
  /\ caller.pc = "feed" /\ caller.feeds = "results" =>
       caller.round > 1 /\ rounds[caller.round - 1].calls # 0

\* While a post waits for its handler the process stays where it posted, even dead.
Reported ==
  /\ post # NoPost => post.kind # "none"
  /\ post.kind = "step-start" => cli.pc = "asking"
  /\ post.kind = "step-end" => cli.pc = "reporting" /\ post.of \in StepEnds /\ post.step = cli.step
  /\ post.kind = "turn-complete" =>
       /\ post.of \in TurnReasons
       /\ cli.pc = "completing" \/ (cli.pc = "erring late" /\ post.of = "error")
  /\ post.kind \in {"step-start", "step-end", "turn-complete"} => post.turn = cli.turn
  /\ \A i \in 1..Len(commands) : commands[i].kind = "submit" => commands[i].round # 0

\* Where a step's usage is once it has left its round.
Kept(s) == session.carried[s] + billed[s] + dropped[s]

\* The usage of a step is in one round, or has left it once.
Conserved(s) ==
  /\ Kept(s) <= 1
  /\ \A r \in RoundIds : rounds[r].usage[s] <= 1 /\ (rounds[r].usage[s] # 0 => Kept(s) = 0)
  /\ \A r, q \in RoundIds : rounds[r].usage[s] # 0 /\ rounds[q].usage[s] # 0 => r = q
  /\ s \in used <=> Kept(s) = 1 \/ \E r \in RoundIds : rounds[r].usage[s] # 0

\* A step is reported once, after it began.
Counted ==
  /\ \A s \in used : s <= cli.step
  /\ cli.pc = "real" \/ post.kind = "step-end" => cli.step # 0 /\ cli.step \notin used

\* Before the window is armed nothing has been submitted and no turn has begun ...
Quiet ==
  /\ session.replay = <<>> /\ replayed = <<>>
  /\ cli.pc = "idle" /\ cli.step = 0 /\ cli.turn = 0 /\ cli.prompts = <<>> /\ post = NoPost
  /\ \A i \in 1..Len(commands) : commands[i].kind = "seed"
  /\ caller.isNew
  /\ caller.pc \in {"start", "seed", "open", "arm"} => commands = <<>>
  /\ caller.pc \in {"start", "seed", "seeding", "open"} => session.state = "starting"
  /\ caller.pc = "start" => ~cli.seeded
  /\ caller.pc = "seed" => ~cli.seeded
  /\ caller.pc = "seeding" => Len(commands) = IF cli.seeded THEN 0 ELSE 1
  /\ caller.pc \in {"start", "seed", "seeding", "open", "arm", "fail", "failing", "given up"}
\* ... and from then on the steps given and the steps to give are the window's.
Armed ==
  /\ Len(replayed) + Len(session.replay) = Window
  /\ \A i \in 1..Len(replayed) : replayed[i] = i
  /\ \A i \in 1..Len(session.replay) : session.replay[i] = Len(replayed) + i
  /\ cli.step # 0 => session.replay = <<>>
  /\ caller.pc \notin {"start", "seed", "seeding", "arm"}
  /\ caller.pc = "open" => ~caller.isNew
Windowed == Quiet \/ Armed

\* What the engine does, or is about to do, is one thing, and for a turn of T.
Busy == cli.pc # "idle" \/ post # NoPost
Doing(T) ==
  /\ post # NoPost => post.turn \in T
  /\ cli.up =>
       /\ Len(commands) + Len(cli.prompts) + (IF Busy THEN 1 ELSE 0) <= 1
       /\ \A i \in 1..Len(commands) : commands[i].kind = "submit" /\ commands[i].round \in T
       /\ \A i \in 1..Len(cli.prompts) : cli.prompts[i] \in T
       /\ cli.pc # "idle" => cli.turn \in T

\* A round whose prompt is still to be sent, and the turn a round is left with.
Sending == caller.pc \in {"arm", "submit"} \/ (caller.pc = "feed" /\ caller.feeds # "results")
Attributed ==
  /\ \A r \in RoundIds : endedBy[r] \subseteq serves[r]
  /\ Sending =>
       /\ Doing({}) /\ serves[caller.round] = {caller.round}
       /\ \A i \in 1..Len(rounds[caller.round].done) : rounds[caller.round].done[i] \in Errors
  /\ session.current # 0 =>
       /\ ~rounds[session.current].finished => Doing(serves[session.current])
       /\ rounds[session.current].done = <<"tool_calls">> => Doing(endedBy[session.current])
       /\ rounds[session.current].done = <<"answer">> => Doing({})
  /\ session.state = "waiting" => Doing(endedBy[caller.round])
  /\ session.state = "idle" => Doing({})

IInv ==
  /\ TypeOK /\ Placed /\ Ended /\ Answerable /\ Reported
  /\ (\A s \in Steps : Conserved(s)) /\ Counted
  /\ Windowed
  /\ (~cli.strayed => Attributed)

-----------------------------------------------------------------------------
(***************************************************************************)
(* Types, and what the operators of the model return                       *)
(***************************************************************************)
HistoryTypes ==
  /\ used \subseteq Steps /\ billed \in [Steps -> Nat] /\ dropped \in [Steps -> Nat]
  /\ replayed \in Seq(1..Window)
  /\ serves \in [RoundIds -> SUBSET Turns] /\ endedBy \in [RoundIds -> SUBSET Turns]
  /\ orphaned \in BOOLEAN

\* The parts of the state, by the names they have here.
LEMMA Records ==
  TypeOK <=> /\ session \in SessionRecord /\ rounds \in [RoundIds -> RoundRecord] /\ caller \in CallerRecord
             /\ closer \in CloserRecord /\ failers \subseteq RoundIds /\ commands \in Seq(CommandRecord)
             /\ results \subseteq Call /\ cli \in CliRecord /\ post \in PostRecord /\ HistoryTypes
BY DEF TypeOK, SessionRecord, RoundRecord, CallerPcs, CallerRecord, CloserRecord, CommandRecord,
       CliPcs, CliRecord, PostRecord, HistoryTypes

\* The state after a step, part by part.
LEMMA TypesNext ==
  ASSUME session' \in SessionRecord, rounds' \in [RoundIds -> RoundRecord], caller' \in CallerRecord,
         closer' \in CloserRecord, failers' \subseteq RoundIds, commands' \in Seq(CommandRecord),
         results' \subseteq Call, cli' \in CliRecord, post' \in PostRecord, HistoryTypes'
  PROVE  TypeOK'
BY DEF TypeOK, SessionRecord, RoundRecord, CallerPcs, CallerRecord, CloserRecord, CommandRecord,
       CliPcs, CliRecord, PostRecord, HistoryTypes

\* What the bounds are worth.
LEMMA Bounds ==
  /\ MaxRounds \in Nat \ {0} /\ MaxSteps \in Nat \ {0} /\ Window \in Nat
  /\ 0 \in 0..MaxRounds /\ 0 \in 0..MaxSteps /\ 0 \in Turns
  /\ RoundIds \subseteq Turns /\ RoundIds \subseteq 0..MaxRounds /\ Steps \subseteq 0..MaxSteps
  /\ \A r \in RoundIds : r \in Nat \ {0}
  /\ Nothing \in [Steps -> Nat] /\ NoPost \in PostRecord
BY ClaudeAssumption DEF RoundIds, Turns, Steps, Nothing, NoPost, PostRecord

\* The caller goes on to another place.
LEMMA StepFacts ==
  ASSUME caller \in CallerRecord, NEW pc \in CallerPcs, Step(pc)
  PROVE  /\ caller' \in CallerRecord /\ caller'.pc = pc /\ caller'.round = caller.round
         /\ caller'.isNew = caller.isNew /\ caller'.feeds = caller.feeds
BY DEF Step, CallerRecord

\* Sums of what was used are counts again.
LEMMA PlusFacts ==
  ASSUME NEW bag \in [Steps -> Nat], NEW more \in [Steps -> Nat]
  PROVE  Plus(bag, more) \in [Steps -> Nat] /\ \A s \in Steps : Plus(bag, more)[s] = bag[s] + more[s]
BY DEF Plus

LEMMA OnceFacts ==
  ASSUME NEW step \in Steps
  PROVE  /\ Once(step) \in [Steps -> Nat] /\ Once(step)[step] = 1
         /\ \A s \in Steps : s # step => Once(step)[s] = 0
BY DEF Once

\* A round that is given its end keeps everything else.
LEMMA FinishFacts ==
  ASSUME rounds \in [RoundIds -> RoundRecord], NEW r \in RoundIds, NEW end \in Ends
  PROVE  /\ Finish(r, end) \in [RoundIds -> RoundRecord]
         /\ Finish(r, end)[r].finished
         /\ Finish(r, end)[r].done = IF rounds[r].finished THEN rounds[r].done ELSE Append(rounds[r].done, end)
         /\ \A q \in RoundIds : Finish(r, end)[q].usage = rounds[q].usage /\ Finish(r, end)[q].calls = rounds[q].calls
         /\ \A q \in RoundIds : q # r => Finish(r, end)[q] = rounds[q]
<1>1. CASE rounds[r].finished
  BY <1>1 DEF Finish
<1>2. CASE ~rounds[r].finished
  <2>1. PICK d : d = Append(rounds[r].done, end)
    OBVIOUS
  <2>2. d \in Seq(Ends)
    BY <2>1 DEF RoundRecord
  <2>3. PICK f : f = [rounds[r] EXCEPT !.finished = TRUE, !.done = d]
    OBVIOUS
  <2>4. f \in RoundRecord /\ f.finished /\ f.done = d /\ f.usage = rounds[r].usage /\ f.calls = rounds[r].calls
    BY <2>2, <2>3 DEF RoundRecord
  <2>5. Finish(r, end) = [rounds EXCEPT ![r] = f]
    BY <1>2, <2>1, <2>3 DEF Finish
  <2> QED BY <1>2, <2>1, <2>4, <2>5
<1> QED BY <1>1, <1>2

\* The end of the rebuild is all that Rebuilt changes.
LEMMA RebuiltFacts ==
  ASSUME NEW s \in SessionRecord
  PROVE  /\ Rebuilt(s) \in SessionRecord /\ Rebuilt(s).state = s.state /\ Rebuilt(s).current = s.current
         /\ Rebuilt(s).replay = s.replay /\ Rebuilt(s).carried = s.carried
BY DEF Rebuilt, SessionRecord

\* The session is where it was, with the same window and the same carry.
SameSession ==
  /\ session'.state = session.state /\ session'.current = session.current
  /\ session'.replay = session.replay /\ session'.carried = session.carried

LEMMA EndWithFacts ==
  ASSUME session \in SessionRecord, rounds \in [RoundIds -> RoundRecord],
         NEW r \in RoundIds, NEW end \in Ends, EndWith(r, end)
  PROVE  session' \in SessionRecord /\ SameSession /\ rounds' = Finish(r, end)
<1>1. CASE rounds[r].finished
  BY <1>1 DEF EndWith, SameSession
<1>2. CASE ~rounds[r].finished
  BY <1>2, RebuiltFacts DEF EndWith, SameSession
<1> QED BY <1>1, <1>2

\* What a round that is given up has used goes to the carry, and the session is dirty.
LEMMA EndRoundFacts ==
  ASSUME session \in SessionRecord, rounds \in [RoundIds -> RoundRecord], NEW r \in RoundIds, EndRound(r)
  PROVE  /\ session' \in SessionRecord /\ rounds' \in [RoundIds -> RoundRecord]
         /\ session'.state = "dirty" /\ session'.current = (IF session.current = r THEN 0 ELSE session.current)
         /\ session'.replay = session.replay /\ session'.carried = Plus(session.carried, rounds[r].usage)
         /\ rounds'[r].finished /\ rounds'[r].done = rounds[r].done /\ rounds'[r].calls = rounds[r].calls
         /\ rounds'[r].usage = Nothing
         /\ \A q \in RoundIds : q # r => rounds'[q] = rounds[q]
<1>1. PICK b : b = Plus(session.carried, rounds[r].usage)
  OBVIOUS
<1>2. b \in [Steps -> Nat]
  BY <1>1, PlusFacts DEF SessionRecord, RoundRecord
<1>3. PICK c : c = IF session.current = r THEN 0 ELSE session.current
  OBVIOUS
<1>4. c \in 0..MaxRounds
  BY <1>3, Bounds DEF SessionRecord
<1>5. session' = [session EXCEPT !.carried = b, !.current = c, !.state = "dirty"]
  BY <1>1, <1>3 DEF EndRound
<1>6. /\ session' \in SessionRecord /\ session'.state = "dirty" /\ session'.current = c
      /\ session'.replay = session.replay /\ session'.carried = b
  BY <1>2, <1>4, <1>5 DEF SessionRecord
<1>7. PICK f : f = [rounds[r] EXCEPT !.finished = TRUE, !.settled = TRUE, !.usage = Nothing]
  OBVIOUS
<1>8. /\ f \in RoundRecord /\ f.finished /\ f.done = rounds[r].done /\ f.calls = rounds[r].calls
      /\ f.usage = Nothing
  BY <1>7, Bounds DEF RoundRecord
<1>9. rounds' = [rounds EXCEPT ![r] = f]
  BY <1>7 DEF EndRound
<1> QED BY <1>1, <1>3, <1>6, <1>8, <1>9

\* A round that is returned gives what it used to its caller.
LEMMA ReturnFacts ==
  ASSUME session \in SessionRecord, rounds \in [RoundIds -> RoundRecord], billed \in [Steps -> Nat],
         NEW r \in RoundIds, NEW state \in {"waiting", "idle", "dirty"},
         rounds' = [rounds EXCEPT ![r].settled = TRUE, ![r].usage = Nothing],
         session' = [session EXCEPT !.current = 0, !.state = state]
  PROVE  /\ session' \in SessionRecord /\ rounds' \in [RoundIds -> RoundRecord]
         /\ session'.state = state /\ session'.current = 0
         /\ session'.replay = session.replay /\ session'.carried = session.carried
         /\ rounds'[r].finished = rounds[r].finished /\ rounds'[r].done = rounds[r].done
         /\ rounds'[r].calls = rounds[r].calls /\ rounds'[r].usage = Nothing
         /\ \A q \in RoundIds : q # r => rounds'[q] = rounds[q]
<1>1. PICK f : f = [rounds[r] EXCEPT !.settled = TRUE, !.usage = Nothing]
  OBVIOUS
<1>2. /\ f \in RoundRecord /\ f.finished = rounds[r].finished /\ f.done = rounds[r].done
      /\ f.calls = rounds[r].calls /\ f.usage = Nothing
  BY <1>1, Bounds DEF RoundRecord
<1>3. rounds' = [rounds EXCEPT ![r] = f]
  BY <1>1
<1>4. /\ session' \in SessionRecord /\ session'.state = state /\ session'.current = 0
      /\ session'.replay = session.replay /\ session'.carried = session.carried
  BY Bounds DEF SessionRecord
<1> QED BY <1>2, <1>3, <1>4

\* A round that is open is the caller's.
LEMMA InRoundFacts ==
  ASSUME TypeOK, Placed, InRound
  PROVE  /\ session.current \in RoundIds /\ session.current = caller.round
         /\ session.state = "running" /\ ~rounds[session.current].finished
<1>1. session.current \in 0..MaxRounds /\ session.current # 0
  BY Records DEF SessionRecord, InRound
<1>2. session.current \in RoundIds
  BY <1>1, Bounds DEF RoundIds
<1> QED BY <1>1, <1>2 DEF InRound, Placed

\* A list that is not empty and has at most one member.
LEMMA SingleFacts ==
  ASSUME NEW S, NEW d \in Seq(S), d # <<>>, Len(d) <= 1
  PROVE  Len(d) = 1 /\ Head(d) = d[1] /\ d[1] \in S
<1>1. Len(d) \in Nat \ {0}
  BY EmptySeq
<1>2. \A n \in Nat \ {0} : n <= 1 => n = 1
  OBVIOUS
<1>3. Len(d) = 1
  BY <1>1, <1>2, Zenon
<1>4. Head(d) = d[1]
  OBVIOUS
<1>5. d[1] \in S
  BY <1>3
<1> QED BY <1>3, <1>4, <1>5

\* What the caller completes is the round the session is in, and it was given one end.
LEMMA CompleteFacts ==
  ASSUME TypeOK, Placed, Ended, caller.pc \in Within
  PROVE  /\ caller.round \in RoundIds /\ session.current = caller.round /\ session.state = "running"
         /\ caller.pc = "complete" =>
              /\ Head(rounds[caller.round].done) \in Ends
              /\ rounds[caller.round].done = <<Head(rounds[caller.round].done)>>
              /\ rounds[caller.round].finished
<1>1. caller.round \in 0..MaxRounds /\ session.current = caller.round /\ caller.round # 0
  BY Records DEF CallerRecord, Placed
<1>2. caller.round \in RoundIds
  BY <1>1, Bounds DEF RoundIds
<1>3. ASSUME caller.pc = "complete"
      PROVE  /\ Head(rounds[caller.round].done) \in Ends
             /\ rounds[caller.round].done = <<Head(rounds[caller.round].done)>>
             /\ rounds[caller.round].finished
  <2>1. PICK d : d = rounds[caller.round].done
    OBVIOUS
  <2>2. d \in Seq(Ends) /\ d # <<>> /\ Len(d) <= 1 /\ rounds[caller.round].finished
    BY <1>2, <1>3, <2>1, Records DEF Ended, RoundRecord
  <2>3. Len(d) = 1 /\ Head(d) = d[1] /\ d[1] \in Ends
    BY <2>2, SingleFacts
  <2>4. d = <<Head(d)>>
    BY <2>2, <2>3
  <2> QED BY <2>1, <2>2, <2>3, <2>4
<1> QED BY <1>1, <1>2, <1>3 DEF Placed

-----------------------------------------------------------------------------
(***************************************************************************)
(* The steps of the caller that leave the session, its rounds and what the *)
(* handlers have taken alone                                               *)
(***************************************************************************)
\* Those that only the caller or whoever closes the session notices, ...
PlainMoves ==
  \/ ProcessFails \/ Seeded \/ RebuildDone \/ FactoryFails \/ FactoryFailed \/ FeedNothing \/ RoundDone
  \/ ProcessExited \/ Deadline \/ ManagerCloses \/ DaemonCloses
  \/ \E feeds \in {"results", "prompt", "nothing"} : Extend(feeds)
\* ... and those that start the process or send it something.
Sends == ProcessStarts \/ Seeds \/ Submit \/ FeedPrompt \/ DeliverResults

SentFacts ==
  /\ UNCHANGED <<session, rounds, failers, post, history>>
  /\ caller' \in CallerRecord /\ caller'.round = caller.round
  /\ closer' \in CloserRecord

\* Whoever begins to close the session is at the beginning.
LEMMA BeginsTyped == \A keeps \in BOOLEAN : [pc |-> "begin", keeps |-> keeps] \in CloserRecord
BY DEF CloserRecord

LEMMA PlainMoveFacts ==
  ASSUME TypeOK, PlainMoves
  PROVE  SentFacts /\ UNCHANGED <<commands, results, cli>>
<1>1. caller \in CallerRecord /\ closer \in CloserRecord
  BY Records
<1>2. ASSUME NEW pc \in CallerPcs, Step(pc)
      PROVE  caller' \in CallerRecord /\ caller'.round = caller.round
  BY <1>1, <1>2, StepFacts
<1>3. CASE ProcessFails \/ Seeded \/ RebuildDone \/ FactoryFailed \/ FeedNothing \/ RoundDone
  BY <1>1, <1>2, <1>3 DEF ProcessFails, Seeded, RebuildDone, FactoryFailed, FeedNothing, RoundDone, SentFacts,
                          CallerPcs
<1>4. CASE ProcessExited \/ Deadline
  BY <1>1, <1>2, <1>4 DEF ProcessExited, Deadline, GivesUp, SentFacts, CallerPcs
<1>5. CASE FactoryFails \/ ManagerCloses
  <2>1. Step("failing") \/ Step("given up")
    BY <1>5 DEF FactoryFails, ManagerCloses
  <2>2. "failing" \in CallerPcs /\ "given up" \in CallerPcs
    BY DEF CallerPcs
  <2>3. caller' \in CallerRecord /\ caller'.round = caller.round
    BY <1>2, <2>1, <2>2
  <2>4. closer' \in CloserRecord
    BY <1>5, BeginsTyped DEF FactoryFails, ManagerCloses
  <2> QED BY <1>5, <2>3, <2>4 DEF FactoryFails, ManagerCloses, SentFacts
<1>6. CASE DaemonCloses
  BY <1>1, <1>6, BeginsTyped DEF DaemonCloses, SentFacts
<1>7. ASSUME NEW feeds \in {"results", "prompt", "nothing"}, Extend(feeds)
      PROVE  SentFacts /\ UNCHANGED <<commands, results, cli>>
  BY <1>1, <1>7 DEF Extend, SentFacts, CallerRecord, CallerPcs
<1> QED BY <1>3, <1>4, <1>5, <1>6, <1>7 DEF PlainMoves

\* The prompt of a round is queued for the mod.
LEMMA SendFacts ==
  ASSUME TypeOK, SendPrompt
  PROVE  /\ commands' \in Seq(CommandRecord) /\ Len(commands') = Len(commands) + 1
         /\ \A i \in 1..Len(commands) : commands'[i] = commands[i]
         /\ commands'[Len(commands) + 1] = [kind |-> "submit", round |-> caller.round]
<1>1. PICK c : c = [kind |-> "submit", round |-> caller.round]
  OBVIOUS
<1>2. c \in CommandRecord /\ commands \in Seq(CommandRecord)
  BY <1>1, Records DEF CommandRecord, CallerRecord
<1>3. commands' = Append(commands, c)
  BY <1>1 DEF SendPrompt
<1> QED BY <1>1, <1>2, <1>3, AppendProperties

\* What is sent is a command, or the result of a call.
LEMMA SendsFacts ==
  ASSUME TypeOK, Answerable, Sends
  PROVE  SentFacts /\ UNCHANGED closer /\ commands' \in Seq(CommandRecord) /\ results' \subseteq Call /\ cli' \in CliRecord
<1>1. /\ caller \in CallerRecord /\ closer \in CloserRecord /\ commands \in Seq(CommandRecord)
      /\ results \subseteq Call /\ cli \in CliRecord
  BY Records
<1>2. ASSUME NEW pc \in CallerPcs, Step(pc)
      PROVE  caller' \in CallerRecord /\ caller'.round = caller.round
  BY <1>1, <1>2, StepFacts
<1>3. CASE ProcessStarts
  BY <1>1, <1>2, <1>3 DEF ProcessStarts, SentFacts, CallerPcs, CliRecord
<1>4. CASE Seeds
  <2>1. [kind |-> "seed", round |-> 0] \in CommandRecord
    BY Bounds DEF CommandRecord
  <2>2. commands' \in Seq(CommandRecord)
    BY <1>1, <1>4, <2>1, AppendProperties DEF Seeds
  <2> QED BY <1>1, <1>2, <1>4, <2>2 DEF Seeds, SentFacts, CallerPcs
<1>5. CASE Submit \/ FeedPrompt
  <2>1. commands' \in Seq(CommandRecord)
    BY <1>1, <1>5, SendFacts DEF Submit, FeedPrompt
  <2> QED BY <1>1, <1>2, <1>5, <2>1 DEF Submit, FeedPrompt, SentFacts, CallerPcs
<1>6. CASE DeliverResults
  <2>1. caller.round > 1 /\ caller.round \in 0..MaxRounds /\ rounds[caller.round - 1].calls # 0
    BY <1>1, <1>6 DEF DeliverResults, Answerable, CallerRecord
  <2>2. caller.round - 1 \in RoundIds
    BY <2>1, Bounds DEF RoundIds
  <2>3. rounds[caller.round - 1].calls \in Steps
    BY <2>1, <2>2, Records, Bounds DEF RoundRecord, Steps
  <2>4. [step |-> rounds[caller.round - 1].calls, made |-> "real"] \in Call
    BY <2>3 DEF Call
  <2>5. results' \subseteq Call
    BY <1>1, <1>6, <2>4 DEF DeliverResults
  <2> QED BY <1>1, <1>2, <1>6, <2>5 DEF DeliverResults, SentFacts, CallerPcs
<1> QED BY <1>3, <1>4, <1>5, <1>6 DEF Sends

\* Either kind keeps the types.
LEMMA TypedCallerMoves ==
  ASSUME TypeOK, Answerable, PlainMoves \/ Sends
  PROVE  TypeOK'
<1>1. /\ SentFacts /\ commands' \in Seq(CommandRecord) /\ results' \subseteq Call /\ cli' \in CliRecord
  BY PlainMoveFacts, SendsFacts, Records
<1> QED BY <1>1, Records, TypesNext DEF SentFacts, HistoryTypes, history

-----------------------------------------------------------------------------
(***************************************************************************)
(* The steps of the engine and of the mod                                  *)
(***************************************************************************)
\* The engine goes on within the turn it is in, and may post something of it.
WithinTurn ==
  \/ StepStarts \/ (\E of \in StepEnds : StepReports(of)) \/ StepFails \/ ReportsLate
  \/ ToolReturns \/ TurnAborts \/ TurnCompletes
EngineSteps == RunsCommand \/ TurnStarts \/ TurnStrays \/ WithinTurn

\* What the engine never touches.
Outside == UNCHANGED <<session, rounds, caller, closer, failers, results, history>>

\* Only the place of the process, the call it made and the reason to end change.
SameTurn ==
  /\ cli'.up = cli.up /\ cli'.turn = cli.turn /\ cli'.strayed = cli.strayed /\ cli'.step = cli.step
  /\ cli'.prompts = cli.prompts /\ cli'.seeded = cli.seeded
  /\ cli.pc # "idle" /\ cli'.pc # "idle" /\ cli'.pc # "real"

LEMMA PostsFacts ==
  ASSUME NEW kind \in {"step-start", "step-end", "turn-complete", "event"},
         NEW of \in StepEnds \cup TurnReasons \cup {"none"}, NEW step \in 0..MaxSteps, NEW turn \in Turns,
         Posts(kind, of, step, turn)
  PROVE  /\ post' \in PostRecord /\ post' # NoPost
         /\ post'.kind = kind /\ post'.of = of /\ post'.step = step /\ post'.turn = turn
<1>1. post' = [kind |-> kind, of |-> of, step |-> step, turn |-> turn]
  BY DEF Posts
<1>2. post' \in PostRecord
  BY <1>1 DEF PostRecord
<1>3. post'.kind = kind /\ post'.of = of /\ post'.step = step /\ post'.turn = turn
  BY <1>1
<1>4. NoPost.kind = "none"
  BY DEF NoPost
<1> QED BY <1>2, <1>3, <1>4

\* The process goes to another place within its turn.
LEMMA PlaceFacts ==
  ASSUME cli \in CliRecord, NEW pc \in CliPcs, NEW reason \in TurnReasons, NEW call \in Call \cup {NoCall},
         \/ cli' = cli /\ pc = cli.pc
         \/ cli' = [cli EXCEPT !.pc = pc] \/ cli' = [cli EXCEPT !.pc = pc, !.reason = reason]
         \/ cli' = [cli EXCEPT !.pc = pc, !.call = call]
  PROVE  /\ cli' \in CliRecord /\ cli'.pc = pc
         /\ cli'.up = cli.up /\ cli'.turn = cli.turn /\ cli'.strayed = cli.strayed /\ cli'.step = cli.step
         /\ cli'.prompts = cli.prompts /\ cli'.seeded = cli.seeded
BY DEF CliRecord

\* What was posted, if anything was, is what the process stopped at.
PostedWithin ==
  /\ cli.up /\ post = NoPost /\ post' \in PostRecord
  /\ post' = NoPost \/ (post' # NoPost /\ post'.kind # "none" /\ post'.turn = cli.turn)
  /\ post'.kind = "step-start" => cli'.pc = "asking"
  /\ post'.kind = "step-end" =>
       cli.pc = "real" /\ cli'.pc = "reporting" /\ post'.of \in StepEnds /\ post'.step = cli.step
  /\ post'.kind = "turn-complete" =>
       /\ post'.of \in TurnReasons
       /\ cli'.pc = "completing" \/ (cli'.pc = "erring late" /\ post'.of = "error")

LEMMA WithinTurnFacts ==
  ASSUME TypeOK, WithinTurn
  PROVE  Outside /\ UNCHANGED commands /\ cli' \in CliRecord /\ SameTurn /\ PostedWithin
<1>1. cli \in CliRecord /\ post \in PostRecord /\ cli.turn \in Turns /\ cli.step \in 0..MaxSteps /\ 0 \in 0..MaxSteps
  BY Records, Bounds DEF CliRecord, Turns
<1>2. "answer" \in TurnReasons /\ NoCall \in Call \cup {NoCall} /\ cli.reason \in TurnReasons
  BY <1>1 DEF TurnReasons, CliRecord
<1>3. NoPost.kind = "none" /\ NoPost \in PostRecord
  BY Bounds DEF NoPost
<1>4. ASSUME NEW pc \in CliPcs, pc # "idle", pc # "real", cli.pc # "idle", post = NoPost,
             NEW reason \in TurnReasons,
             \/ cli' = cli /\ pc = cli.pc
             \/ cli' = [cli EXCEPT !.pc = pc] \/ cli' = [cli EXCEPT !.pc = pc, !.reason = reason]
             \/ cli' = [cli EXCEPT !.pc = pc, !.call = NoCall]
      PROVE  cli' \in CliRecord /\ SameTurn /\ cli'.pc = pc
  BY <1>1, <1>2, <1>4, PlaceFacts DEF SameTurn
<1>5. CASE StepStarts
  <2>1. /\ Posts("step-start", "none", 0, cli.turn) /\ cli' = [cli EXCEPT !.pc = "asking"]
        /\ cli.pc = "step" /\ cli.up /\ post = NoPost /\ Outside /\ UNCHANGED commands
    BY <1>5 DEF StepStarts, At, Free, Mod, Outside
  <2>2. cli' \in CliRecord /\ SameTurn /\ cli'.pc = "asking"
    BY <1>2, <1>4, <2>1 DEF CliPcs
  <2>3. /\ post' \in PostRecord /\ post' # NoPost /\ post'.kind = "step-start" /\ post'.turn = cli.turn
    BY <1>1, <2>1, PostsFacts
  <2> QED BY <2>1, <2>2, <2>3 DEF PostedWithin
<1>6. ASSUME NEW of \in StepEnds, StepReports(of)
      PROVE  Outside /\ UNCHANGED commands /\ cli' \in CliRecord /\ SameTurn /\ PostedWithin
  <2>1. /\ Posts("step-end", of, cli.step, cli.turn) /\ cli' = [cli EXCEPT !.pc = "reporting"]
        /\ cli.pc = "real" /\ cli.up /\ post = NoPost /\ Outside /\ UNCHANGED commands
    BY <1>6 DEF StepReports, At, Free, Mod, Outside
  <2>2. cli' \in CliRecord /\ SameTurn /\ cli'.pc = "reporting"
    BY <1>2, <1>4, <2>1 DEF CliPcs
  <2>3. /\ post' \in PostRecord /\ post' # NoPost /\ post'.kind = "step-end" /\ post'.turn = cli.turn
        /\ post'.of = of /\ post'.step = cli.step
    BY <1>1, <2>1, PostsFacts
  <2> QED BY <2>1, <2>2, <2>3 DEF PostedWithin
<1>7. CASE StepFails
  <2>1. cli.pc = "real" /\ cli.up /\ post = NoPost /\ Outside /\ UNCHANGED commands
    BY <1>7 DEF StepFails, At, Free, Mod, Outside
  <2>2. CASE Posts("event", "none", 0, cli.turn) /\ cli' = [cli EXCEPT !.pc = "erring", !.reason = "error"]
    <3>1. cli' \in CliRecord /\ SameTurn /\ cli'.pc = "erring"
      BY <1>4, <2>1, <2>2 DEF CliPcs, TurnReasons
    <3>2. post' \in PostRecord /\ post' # NoPost /\ post'.kind = "event" /\ post'.turn = cli.turn
      BY <1>1, <2>2, PostsFacts
    <3> QED BY <2>1, <3>1, <3>2 DEF PostedWithin
  <2>3. CASE Posts("turn-complete", "error", 0, cli.turn) /\ cli' = [cli EXCEPT !.pc = "erring late"]
    <3>1. cli' \in CliRecord /\ SameTurn /\ cli'.pc = "erring late"
      BY <1>2, <1>4, <2>1, <2>3 DEF CliPcs
    <3>2. "error" \in TurnReasons
      BY DEF TurnReasons
    <3>3. /\ post' \in PostRecord /\ post' # NoPost /\ post'.kind = "turn-complete" /\ post'.turn = cli.turn
          /\ post'.of = "error"
      BY <1>1, <2>3, <3>2, PostsFacts
    <3> QED BY <2>1, <3>1, <3>2, <3>3 DEF PostedWithin
  <2> QED BY <1>7, <2>2, <2>3 DEF StepFails, Mod
<1>8. CASE ReportsLate
  <2>1. /\ Posts("event", "none", 0, cli.turn) /\ cli' = cli
        /\ cli.pc = "erring late" /\ cli.up /\ post = NoPost /\ Outside /\ UNCHANGED commands
    BY <1>8 DEF ReportsLate, At, Free, Mod, Outside
  <2>2. cli' \in CliRecord /\ SameTurn
    BY <1>1, <2>1 DEF SameTurn
  <2>3. post' \in PostRecord /\ post' # NoPost /\ post'.kind = "event" /\ post'.turn = cli.turn
    BY <1>1, <2>1, PostsFacts
  <2> QED BY <2>1, <2>2, <2>3 DEF PostedWithin
<1>9. CASE ToolReturns \/ TurnAborts
  <2>1. /\ cli.up /\ post = NoPost /\ post' = NoPost /\ Outside /\ UNCHANGED commands /\ cli.pc # "idle"
        /\ \/ cli' = [cli EXCEPT !.pc = "step", !.call = NoCall]
           \/ cli' = [cli EXCEPT !.pc = "ending", !.reason = "aborted"]
    BY <1>9 DEF ToolReturns, TurnAborts, At, Free, Mod, Outside
  <2>2. cli' \in CliRecord /\ SameTurn
    BY <1>2, <1>4, <2>1 DEF CliPcs, TurnReasons
  <2> QED BY <1>3, <2>1, <2>2 DEF PostedWithin
<1>10. CASE TurnCompletes
  <2>1. PICK of : /\ of \in IF cli.reason = "answer" THEN {"answer"} \cup ({"refusal"} \cap Reasons) ELSE {cli.reason}
                  /\ Posts("turn-complete", of, 0, cli.turn)
    BY <1>10 DEF TurnCompletes
  <2>2. of \in TurnReasons
    BY <1>2, <2>1 DEF TurnReasons
  <2>3. /\ cli' = [cli EXCEPT !.pc = "completing"]
        /\ cli.pc = "ending" /\ cli.up /\ post = NoPost /\ Outside /\ UNCHANGED commands
    BY <1>10 DEF TurnCompletes, At, Free, Mod, Outside
  <2>4. cli' \in CliRecord /\ SameTurn /\ cli'.pc = "completing"
    BY <1>2, <1>4, <2>3 DEF CliPcs
  <2>5. /\ post' \in PostRecord /\ post' # NoPost /\ post'.kind = "turn-complete" /\ post'.turn = cli.turn
        /\ post'.of = of
    BY <1>1, <2>1, <2>2, PostsFacts
  <2> QED BY <2>2, <2>3, <2>4, <2>5 DEF PostedWithin
<1> QED BY <1>5, <1>6, <1>7, <1>8, <1>9, <1>10 DEF WithinTurn

\* The mod takes the first of the commands that wait for it.
LEMMA RunsCommandFacts ==
  ASSUME TypeOK, Reported, RunsCommand
  PROVE  /\ Outside /\ cli.up /\ post = NoPost
         /\ Len(commands) \in Nat \ {0} /\ 1 \in 1..Len(commands)
         /\ commands' \in Seq(CommandRecord) /\ Len(commands') = Len(commands) - 1
         /\ \A i \in 1..Len(commands') : i + 1 \in 1..Len(commands) /\ commands'[i] = commands[i + 1]
         /\ cli' \in CliRecord /\ post' \in PostRecord
         /\ cli'.up = cli.up /\ cli'.pc = cli.pc /\ cli'.turn = cli.turn /\ cli'.step = cli.step
         /\ cli'.strayed = cli.strayed
         /\ \/ commands[1].kind = "seed" /\ post' = NoPost /\ cli'.prompts = cli.prompts /\ cli'.seeded
            \/ /\ commands[1].kind = "submit" /\ commands[1].round \in RoundIds /\ post' = NoPost
               /\ cli'.prompts = Append(cli.prompts, commands[1].round) /\ cli'.seeded = cli.seeded
            \/ /\ commands[1].kind = "submit" /\ cli' = cli
               /\ post' # NoPost /\ post'.kind = "event" /\ post'.turn = commands[1].round
<1>1. commands \in Seq(CommandRecord) /\ cli \in CliRecord /\ post \in PostRecord /\ 0 \in 0..MaxSteps
  BY Records, Bounds
<1>2. /\ Outside /\ cli.up /\ post = NoPost /\ commands # <<>> /\ commands' = Tail(commands)
  BY DEF RunsCommand, Free, Mod, Outside
<1>3. Len(commands) \in Nat \ {0}
  BY <1>1, <1>2, EmptySeq
<1>4. 1 \in 1..Len(commands) /\ Head(commands) = commands[1]
  BY <1>3
<1>5. commands[1] \in CommandRecord
  BY <1>1, <1>4
<1>6. /\ commands' \in Seq(CommandRecord) /\ Len(commands') = Len(commands) - 1
      /\ \A i \in 1..Len(commands') : commands'[i] = commands[i + 1]
  BY <1>1, <1>2, HeadTailProperties
<1>7. \A i \in 1..Len(commands') : i + 1 \in 1..Len(commands)
  BY <1>3, <1>6
<1>8. CASE commands[1].kind = "seed" /\ cli' = [cli EXCEPT !.seeded = TRUE] /\ post' = post
  <2>1. /\ cli' \in CliRecord /\ cli'.seeded
        /\ cli'.up = cli.up /\ cli'.pc = cli.pc /\ cli'.turn = cli.turn /\ cli'.step = cli.step
        /\ cli'.strayed = cli.strayed /\ cli'.prompts = cli.prompts
    BY <1>1, <1>8 DEF CliRecord
  <2> QED BY <1>1, <1>2, <1>3, <1>4, <1>6, <1>7, <1>8, <2>1
<1>9. CASE /\ commands[1].kind = "submit" /\ cli' = [cli EXCEPT !.prompts = Append(@, commands[1].round)]
           /\ post' = post
  <2>1. commands[1].round \in RoundIds
    <3>1. commands[1].round # 0
      BY <1>4, <1>9 DEF Reported
    <3>2. commands[1].round \in 0..MaxRounds
      BY <1>5 DEF CommandRecord
    <3> QED BY <3>1, <3>2, Bounds DEF RoundIds
  <2>2. PICK p : p = Append(cli.prompts, commands[1].round)
    OBVIOUS
  <2>3. p \in Seq(RoundIds)
    BY <1>1, <2>1, <2>2, AppendProperties DEF CliRecord
  <2>4. cli' = [cli EXCEPT !.prompts = p]
    BY <1>9, <2>2
  <2>5. /\ cli' \in CliRecord /\ cli'.prompts = p /\ cli'.seeded = cli.seeded
        /\ cli'.up = cli.up /\ cli'.pc = cli.pc /\ cli'.turn = cli.turn /\ cli'.step = cli.step
        /\ cli'.strayed = cli.strayed
    BY <1>1, <2>3, <2>4 DEF CliRecord
  <2> QED BY <1>1, <1>2, <1>3, <1>4, <1>6, <1>7, <1>9, <2>1, <2>2, <2>5
<1>10. CASE commands[1].kind = "submit" /\ cli' = cli /\ Posts("event", "none", 0, commands[1].round)
  <2>1. commands[1].round \in Turns
    BY <1>5, Bounds DEF CommandRecord, Turns
  <2>2. post' \in PostRecord /\ post' # NoPost /\ post'.kind = "event" /\ post'.turn = commands[1].round
    BY <1>1, <1>10, <2>1, PostsFacts
  <2> QED BY <1>1, <1>2, <1>3, <1>4, <1>6, <1>7, <1>10, <2>2
<1> QED BY <1>4, <1>8, <1>9, <1>10 DEF RunsCommand, Mod

\* A turn begins with the first of the prompts that wait for it, ...
LEMMA TurnStartsFacts ==
  ASSUME TypeOK, TurnStarts
  PROVE  /\ Outside /\ UNCHANGED commands /\ cli.up /\ post = NoPost /\ post' = NoPost /\ cli.pc = "idle"
         /\ cli' \in CliRecord /\ cli'.up = cli.up /\ cli'.pc = "step" /\ cli'.step = cli.step
         /\ Len(cli.prompts) \in Nat \ {0} /\ 1 \in 1..Len(cli.prompts)
         /\ cli'.turn = cli.prompts[1] /\ Len(cli'.prompts) = Len(cli.prompts) - 1
         /\ \A i \in 1..Len(cli'.prompts) :
              i + 1 \in 1..Len(cli.prompts) /\ cli'.prompts[i] = cli.prompts[i + 1]
         /\ cli'.strayed = cli.strayed
<1>1. cli \in CliRecord
  BY Records
<1>2. /\ Outside /\ UNCHANGED commands /\ cli.up /\ post = NoPost /\ post' = NoPost /\ cli.pc = "idle"
      /\ cli.prompts # <<>>
      /\ cli' = [cli EXCEPT !.pc = "step", !.turn = Head(cli.prompts), !.prompts = Tail(@)]
  BY DEF TurnStarts, At, Free, Mod, Outside
<1>3. PICK p : p = cli.prompts
  OBVIOUS
<1>4. p \in Seq(RoundIds) /\ p # <<>>
  BY <1>1, <1>2, <1>3 DEF CliRecord
<1>5. Len(p) \in Nat \ {0}
  BY <1>4, EmptySeq
<1>6. 1 \in 1..Len(p) /\ Head(p) = p[1] /\ p[1] \in RoundIds
  BY <1>4, <1>5
<1>7. Tail(p) \in Seq(RoundIds) /\ Len(Tail(p)) = Len(p) - 1 /\ \A i \in 1..Len(Tail(p)) : Tail(p)[i] = p[i + 1]
  BY <1>4, HeadTailProperties
<1>8. \A i \in 1..Len(Tail(p)) : i + 1 \in 1..Len(p)
  BY <1>5, <1>7
<1>9. cli' = [cli EXCEPT !.pc = "step", !.turn = p[1], !.prompts = Tail(p)]
  BY <1>2, <1>3, <1>6
<1>10. /\ cli' \in CliRecord /\ cli'.up = cli.up /\ cli'.pc = "step" /\ cli'.step = cli.step /\ cli'.turn = p[1]
       /\ cli'.prompts = Tail(p) /\ cli'.strayed = cli.strayed
  BY <1>1, <1>6, <1>7, <1>9, Bounds DEF CliRecord, CliPcs
<1> QED BY <1>2, <1>3, <1>5, <1>6, <1>7, <1>8, <1>10

\* ... or by itself.
LEMMA TurnStraysFacts ==
  ASSUME TypeOK, TurnStrays
  PROVE  /\ Outside /\ UNCHANGED commands /\ cli.up /\ post = NoPost /\ post' = NoPost /\ cli.pc = "idle"
         /\ cli' \in CliRecord /\ cli'.pc = "step" /\ cli'.step = cli.step /\ cli'.strayed
         /\ cli.turn # 0
<1>1. cli \in CliRecord
  BY Records
<1>2. /\ Outside /\ UNCHANGED commands /\ cli.up /\ post = NoPost /\ post' = NoPost /\ cli.pc = "idle"
      /\ cli.turn > 0 /\ cli' = [cli EXCEPT !.pc = "step", !.turn = 0, !.strayed = TRUE]
  BY DEF TurnStrays, At, Free, Mod, Outside
<1>3. cli' \in CliRecord /\ cli'.pc = "step" /\ cli'.step = cli.step /\ cli'.strayed = TRUE
  BY <1>1, <1>2, Bounds DEF CliRecord, CliPcs
<1>4. cli.turn # 0
  BY <1>1, <1>2 DEF CliRecord
<1> QED BY <1>2, <1>3, <1>4

\* A process that is killed stays as it was, but nothing in it goes on.
LEMMA KilledFacts ==
  ASSUME TypeOK, Dies \/ CloseKills
  PROVE  /\ UNCHANGED <<session, rounds, caller, failers, commands, results, post, history>>
         /\ closer' \in CloserRecord /\ cli' \in CliRecord /\ ~cli'.up
         /\ cli'.pc = cli.pc /\ cli'.turn = cli.turn /\ cli'.step = cli.step /\ cli'.prompts = cli.prompts
         /\ cli'.seeded = cli.seeded /\ cli'.strayed = cli.strayed
<1>1. cli \in CliRecord /\ closer \in CloserRecord
  BY Records
<1>2. cli' = [cli EXCEPT !.up = FALSE]
  BY DEF Dies, CloseKills
<1>3. /\ cli' \in CliRecord /\ ~cli'.up
      /\ cli'.pc = cli.pc /\ cli'.turn = cli.turn /\ cli'.step = cli.step /\ cli'.prompts = cli.prompts
      /\ cli'.seeded = cli.seeded /\ cli'.strayed = cli.strayed
  BY <1>1, <1>2 DEF CliRecord
<1>4. closer' \in CloserRecord
  <2>1. CASE Dies
    BY <1>1, <2>1 DEF Dies
  <2>2. CASE CloseKills
    BY <1>1, <2>2 DEF CloseKills, CloserRecord
  <2> QED BY <2>1, <2>2
<1> QED BY <1>3, <1>4 DEF Dies, CloseKills

\* The engine's steps, and its end, keep the types ...
LEMMA EngineTypes ==
  ASSUME TypeOK, Reported, EngineSteps \/ Dies \/ CloseKills
  PROVE  TypeOK'
<1>1. CASE EngineSteps
  <2>1. Outside /\ commands' \in Seq(CommandRecord) /\ cli' \in CliRecord /\ post' \in PostRecord
    BY <1>1, Records, Bounds, WithinTurnFacts, RunsCommandFacts, TurnStartsFacts, TurnStraysFacts
       DEF EngineSteps, PostedWithin
  <2> QED BY <2>1, Records, TypesNext DEF Outside, HistoryTypes, history
<1>2. CASE Dies \/ CloseKills
  BY <1>2, KilledFacts, Records, TypesNext DEF HistoryTypes, history
<1> QED BY <1>1, <1>2

\* ... what is posted says where the process stopped ...
LEMMA EngineReported ==
  ASSUME TypeOK, Reported, EngineSteps \/ Dies \/ CloseKills
  PROVE  Reported'
<1>1. NoPost.kind = "none"
  BY DEF NoPost
<1>2. CASE WithinTurn
  BY <1>1, <1>2, WithinTurnFacts DEF Reported, PostedWithin, SameTurn
<1>3. CASE RunsCommand
  <2>1. \A i \in 1..Len(commands') : commands'[i].kind = "submit" => commands'[i].round # 0
    BY <1>3, RunsCommandFacts DEF Reported
  <2>2. post' = NoPost \/ (post' # NoPost /\ post'.kind = "event")
    BY <1>3, RunsCommandFacts
  <2> QED BY <1>1, <2>1, <2>2 DEF Reported
<1>4. CASE TurnStarts \/ TurnStrays
  BY <1>1, <1>4, TurnStartsFacts, TurnStraysFacts DEF Reported
<1>5. CASE Dies \/ CloseKills
  BY <1>5, KilledFacts DEF Reported
<1> QED BY <1>2, <1>3, <1>4, <1>5 DEF EngineSteps

\* ... and a step that reports has begun.
LEMMA EngineCounted ==
  ASSUME TypeOK, Reported, Counted, EngineSteps \/ Dies \/ CloseKills
  PROVE  Counted'
<1>1. NoPost.kind = "none"
  BY DEF NoPost
<1>2. CASE WithinTurn
  BY <1>1, <1>2, WithinTurnFacts DEF Counted, PostedWithin, SameTurn, Outside, history
<1>3. CASE RunsCommand
  <2>1. post' = NoPost \/ (post' # NoPost /\ post'.kind = "event")
    BY <1>3, RunsCommandFacts
  <2>2. used' = used /\ cli'.pc = cli.pc /\ cli'.step = cli.step
    BY <1>3, RunsCommandFacts DEF Outside, history
  <2> QED BY <1>1, <2>1, <2>2 DEF Counted
<1>4. CASE TurnStarts \/ TurnStrays
  BY <1>1, <1>4, TurnStartsFacts, TurnStraysFacts DEF Counted, Outside, history
<1>5. CASE Dies \/ CloseKills
  BY <1>5, KilledFacts DEF Counted, history
<1> QED BY <1>2, <1>3, <1>4, <1>5 DEF EngineSteps

\* Before the window is armed the engine only takes the record it is sent.
LEMMA EngineWindowed ==
  ASSUME TypeOK, Reported, Windowed, EngineSteps \/ Dies \/ CloseKills
  PROVE  Windowed'
<1>1. UNCHANGED <<session, replayed, caller>> /\ cli'.step = cli.step
  BY WithinTurnFacts, RunsCommandFacts, TurnStartsFacts, TurnStraysFacts, KilledFacts
     DEF EngineSteps, SameTurn, Outside, history
<1>2. CASE Armed
  BY <1>1, <1>2 DEF Windowed, Armed
<1>3. CASE Quiet
  <2>1. Len(<<>>) = 0
    OBVIOUS
  <2>2. ~WithinTurn /\ ~TurnStarts /\ ~TurnStrays
    BY <1>3, <2>1, WithinTurnFacts, TurnStartsFacts, TurnStraysFacts DEF Quiet, SameTurn
  <2>3. CASE RunsCommand
    <3>1. commands[1].kind = "seed" /\ Len(commands) # 0
      BY <1>3, <2>3, RunsCommandFacts DEF Quiet
    <3>2. \A i \in 1..Len(commands') : commands'[i].kind = "seed"
      BY <1>3, <2>3, RunsCommandFacts DEF Quiet
    <3>3. /\ post' = NoPost /\ cli'.prompts = cli.prompts /\ cli'.seeded /\ cli'.pc = cli.pc /\ cli'.turn = cli.turn
          /\ Len(commands') = Len(commands) - 1
      BY <2>3, <3>1, RunsCommandFacts
    <3>4. caller.pc \notin {"start", "seed", "open", "arm"}
      BY <1>3, <2>1, <3>1 DEF Quiet
    <3>5. caller.pc = "seeding" => Len(commands') = 0
      BY <1>3, <3>1, <3>3 DEF Quiet
    <3> QED BY <1>1, <1>3, <3>2, <3>3, <3>4, <3>5 DEF Windowed, Quiet
  <2>4. CASE Dies \/ CloseKills
    BY <1>1, <1>3, <2>4, KilledFacts DEF Windowed, Quiet
  <2> QED BY <2>2, <2>3, <2>4 DEF EngineSteps
<1> QED BY <1>2, <1>3 DEF Windowed

\* One thing at a time: whoever takes it up leaves nothing else behind.
LEMMA EngineDoing ==
  ASSUME TypeOK, Reported, EngineSteps \/ Dies \/ CloseKills, ~cli'.strayed, NEW T, Doing(T)
  PROVE  Doing(T)'
<1>1. commands \in Seq(CommandRecord) /\ cli.prompts \in Seq(RoundIds)
  BY Records DEF CliRecord
<1>2. Len(commands) \in Nat /\ Len(cli.prompts) \in Nat
  BY <1>1
<1>3. \A m, n \in Nat : m + n + 1 <= 1 => m = 0 /\ n = 0
  OBVIOUS
<1>4. \A m, n \in Nat : m + n + 0 <= 1 => (m # 0 => m = 1 /\ n = 0) /\ (n # 0 => m = 0 /\ n = 1)
  OBVIOUS
<1>5. CASE WithinTurn
  <2>1. /\ cli.up /\ cli'.up /\ post = NoPost /\ UNCHANGED commands /\ cli'.prompts = cli.prompts
        /\ cli.pc # "idle" /\ cli'.pc # "idle" /\ cli'.turn = cli.turn
        /\ post' = NoPost \/ post'.turn = cli.turn
    BY <1>5, WithinTurnFacts DEF SameTurn, PostedWithin
  <2> QED BY <2>1 DEF Doing, Busy
<1>6. CASE RunsCommand
  <2>1. /\ cli.up /\ cli'.up /\ post = NoPost /\ Len(commands) # 0 /\ 1 \in 1..Len(commands)
        /\ Len(commands') = Len(commands) - 1 /\ cli'.pc = cli.pc
    BY <1>6, RunsCommandFacts
  <2>2. cli.pc = "idle" /\ Len(commands) = 1 /\ Len(cli.prompts) = 0
    <3>1. ~Busy
      BY <1>2, <1>3, <2>1 DEF Doing
    <3>2. Len(commands) + Len(cli.prompts) + 0 <= 1
      BY <2>1, <3>1 DEF Doing
    <3>3. Len(commands) = 1 /\ Len(cli.prompts) = 0
      BY <1>2, <1>4, <2>1, <3>2, Zenon
    <3> QED BY <3>1, <3>3 DEF Busy
  <2>3. commands[1].kind = "submit" /\ commands[1].round \in T
    BY <2>1 DEF Doing
  <2>4. Len(commands') = 0
    BY <2>1, <2>2
  <2>5. CASE /\ post' = NoPost /\ cli'.prompts = Append(cli.prompts, commands[1].round)
             /\ commands[1].round \in RoundIds
    <3>1. Len(cli'.prompts) = 1 /\ cli'.prompts[1] \in T
      BY <1>1, <2>2, <2>3, <2>5, AppendProperties
    <3>2. \A i \in 1..Len(cli'.prompts) : i = 1
      BY <3>1
    <3> QED BY <2>1, <2>2, <2>4, <2>5, <3>1, <3>2 DEF Doing, Busy
  <2>6. CASE cli' = cli /\ post' # NoPost /\ post'.turn = commands[1].round
    BY <2>1, <2>2, <2>3, <2>4, <2>6 DEF Doing, Busy
  <2> QED BY <1>6, <2>3, <2>5, <2>6, RunsCommandFacts
<1>7. CASE TurnStarts
  <2>1. /\ cli.up /\ cli'.up /\ post = NoPost /\ post' = NoPost /\ UNCHANGED commands
        /\ cli.pc = "idle" /\ cli'.pc = "step" /\ cli'.turn = cli.prompts[1] /\ 1 \in 1..Len(cli.prompts)
        /\ Len(cli.prompts) # 0 /\ Len(cli'.prompts) = Len(cli.prompts) - 1
    BY <1>7, TurnStartsFacts
  <2>2. Len(commands) = 0 /\ Len(cli.prompts) = 1
    <3>1. Len(commands) + Len(cli.prompts) + 0 <= 1
      BY <2>1 DEF Doing, Busy
    <3> QED BY <1>2, <1>4, <2>1, <3>1, Zenon
  <2>3. cli'.turn \in T /\ Len(cli'.prompts) = 0
    BY <2>1, <2>2 DEF Doing
  <2> QED BY <2>1, <2>2, <2>3 DEF Doing, Busy
<1>8. CASE TurnStrays
  BY <1>8, TurnStraysFacts
<1>9. CASE Dies \/ CloseKills
  BY <1>9, KilledFacts DEF Doing
<1> QED BY <1>5, <1>6, <1>7, <1>8, <1>9 DEF EngineSteps

\* A thing that is done for a turn of T is done for a turn of every larger set.
LEMMA DoingMore ==
  ASSUME NEW T, NEW U, T \subseteq U, Doing(T)
  PROVE  Doing(U)
BY DEF Doing

-----------------------------------------------------------------------------
(***************************************************************************)
(* The handlers                                                            *)
(***************************************************************************)
\* What every handler does to the process and its post.
HandlerFrame ==
  /\ post # NoPost /\ post' = NoPost /\ UNCHANGED <<caller, closer, commands, results, serves>>
  /\ cli' \in CliRecord /\ cli'.up = cli.up /\ cli'.turn = cli.turn /\ cli'.strayed = cli.strayed
  /\ cli'.prompts = cli.prompts /\ cli'.seeded = cli.seeded
  /\ cli.pc = "idle" => cli'.pc = "idle"

\* The turn of the post is noted with the round it ended.
LEMMA EndedByFacts ==
  ASSUME TypeOK, NEW r \in RoundIds, EndedBy(r)
  PROVE  /\ endedBy' \in [RoundIds -> SUBSET Turns] /\ endedBy'[r] = endedBy[r] \cup {post.turn}
         /\ \A q \in RoundIds : q # r => endedBy'[q] = endedBy[q]
<1>1. endedBy \in [RoundIds -> SUBSET Turns] /\ post.turn \in Turns
  BY Records DEF HistoryTypes, PostRecord
<1>2. endedBy' = [endedBy EXCEPT ![r] = endedBy[r] \cup {post.turn}]
  BY DEF EndedBy
<1> QED BY <1>1, <1>2

\* A step starts: it is given one of the window's, or refused, or let through.
StepGiven ==
  /\ session.replay # <<>> /\ session'.replay = Tail(session.replay)
  /\ replayed' = Append(replayed, Head(session.replay)) /\ session'.state = session.state
  /\ cli'.step = cli.step /\ cli'.pc # "real"
StepRefused ==
  /\ session.replay = <<>> /\ session'.replay = <<>> /\ replayed' = replayed
  /\ session.current = 0 /\ session'.state = "dirty"
  /\ cli'.step = cli.step /\ cli'.pc # "real"
StepLet ==
  /\ session.replay = <<>> /\ session'.replay = <<>> /\ replayed' = replayed
  /\ session.current # 0 /\ session'.state = session.state
  /\ \/ cli'.step = cli.step /\ cli'.pc # "real"
     \/ cli'.step = cli.step + 1 /\ cli'.pc = "real"

LEMMA StepStartFacts ==
  ASSUME TypeOK, Reported, OnStepStart
  PROVE  /\ HandlerFrame /\ UNCHANGED <<rounds, failers, used, billed, dropped, endedBy, orphaned>>
         /\ session' \in SessionRecord /\ replayed' \in Seq(1..Window)
         /\ session'.current = session.current /\ session'.carried = session.carried
         /\ StepGiven \/ StepRefused \/ StepLet
<1>1. session \in SessionRecord /\ cli \in CliRecord /\ replayed \in Seq(1..Window)
  BY Records DEF HistoryTypes
<1>2. /\ post.kind = "step-start" /\ post' = NoPost /\ cli.pc = "asking"
      /\ UNCHANGED <<rounds, caller, closer, failers, commands, results, used, billed, dropped, serves, endedBy,
                     orphaned>>
  BY DEF OnStepStart, Handled, Reported
<1>3. NoPost.kind = "none" /\ post # NoPost
  BY <1>2 DEF NoPost
<1>4. CASE /\ session.replay # <<>> /\ session' = [session EXCEPT !.replay = Tail(@)]
           /\ replayed' = Append(replayed, Head(session.replay))
           /\ Replies([cli EXCEPT !.pc = "tools", !.call = [step |-> Head(session.replay), made |-> "replay"]])
  <2>1. PICK w : w = session.replay
    OBVIOUS
  <2>2. w \in Seq(1..Window) /\ w # <<>>
    BY <1>1, <1>4, <2>1 DEF SessionRecord
  <2>3. Head(w) \in 1..Window /\ Tail(w) \in Seq(1..Window)
    BY <2>2, HeadTailProperties
  <2>4. PICK c : c = [step |-> Head(w), made |-> "replay"]
    OBVIOUS
  <2>5. c \in Call
    BY <2>3, <2>4 DEF Call
  <2>6. cli' = IF cli.up THEN [cli EXCEPT !.pc = "tools", !.call = c] ELSE cli
    BY <1>4, <2>1, <2>4 DEF Replies
  <2>7. /\ cli' \in CliRecord /\ cli'.up = cli.up /\ cli'.turn = cli.turn /\ cli'.strayed = cli.strayed
        /\ cli'.prompts = cli.prompts /\ cli'.seeded = cli.seeded /\ cli'.step = cli.step
        /\ cli'.pc \in {"tools", "asking"}
    BY <1>1, <1>2, <2>5, <2>6 DEF CliRecord, CliPcs
  <2>8. session' = [session EXCEPT !.replay = Tail(w)]
    BY <1>4, <2>1
  <2>9. /\ session' \in SessionRecord /\ session'.current = session.current /\ session'.carried = session.carried
        /\ session'.state = session.state /\ session'.replay = Tail(w)
    BY <1>1, <2>3, <2>8 DEF SessionRecord
  <2>10. replayed' \in Seq(1..Window)
    BY <1>1, <1>4, <2>1, <2>3, AppendProperties
  <2> QED BY <1>2, <1>3, <1>4, <2>1, <2>7, <2>9, <2>10 DEF HandlerFrame, StepGiven
<1>5. CASE /\ session.replay = <<>> /\ session.current = 0 /\ session' = [session EXCEPT !.state = "dirty"]
           /\ Replies([cli EXCEPT !.pc = "ending", !.reason = "answer"]) /\ UNCHANGED replayed
  <2>1. /\ session' \in SessionRecord /\ session'.current = session.current /\ session'.carried = session.carried
        /\ session'.state = "dirty" /\ session'.replay = session.replay
    BY <1>1, <1>5 DEF SessionRecord
  <2>2. /\ cli' \in CliRecord /\ cli'.up = cli.up /\ cli'.turn = cli.turn /\ cli'.strayed = cli.strayed
        /\ cli'.prompts = cli.prompts /\ cli'.seeded = cli.seeded /\ cli'.step = cli.step
        /\ cli'.pc \in {"ending", "asking"}
    BY <1>1, <1>2, <1>5 DEF CliRecord, CliPcs, Replies, TurnReasons
  <2> QED BY <1>1, <1>2, <1>3, <1>5, <2>1, <2>2 DEF HandlerFrame, StepRefused
<1>6. CASE /\ session.replay = <<>> /\ session.current # 0 /\ cli.step < MaxSteps /\ session' = Rebuilt(session)
           /\ Replies([cli EXCEPT !.pc = "real", !.step = @ + 1]) /\ UNCHANGED replayed
  <2>1. /\ session' \in SessionRecord /\ session'.current = session.current /\ session'.carried = session.carried
        /\ session'.state = session.state /\ session'.replay = session.replay
    BY <1>1, <1>6, RebuiltFacts
  <2>2. cli.step + 1 \in 0..MaxSteps
    BY <1>1, <1>6, Bounds DEF CliRecord
  <2>3. /\ cli' \in CliRecord /\ cli'.up = cli.up /\ cli'.turn = cli.turn /\ cli'.strayed = cli.strayed
        /\ cli'.prompts = cli.prompts /\ cli'.seeded = cli.seeded
        /\ \/ cli'.step = cli.step /\ cli'.pc = "asking"
           \/ cli'.step = cli.step + 1 /\ cli'.pc = "real"
    BY <1>1, <1>2, <1>6, <2>2 DEF CliRecord, CliPcs, Replies
  <2> QED BY <1>1, <1>2, <1>3, <1>6, <2>1, <2>3 DEF HandlerFrame, StepLet
<1> QED BY <1>4, <1>5, <1>6 DEF OnStepStart

\* A step reports what it used: to the carry between rounds, and else to the round,
\* which it ends if it asks for tools or does not fit.
ToTheCarry ==
  /\ ~InRound /\ session'.carried = Plus(session.carried, Once(post.step))
  /\ UNCHANGED <<rounds, endedBy>>
ToTheRound(r) ==
  /\ InRound /\ r = session.current /\ session'.carried = session.carried
  /\ rounds' \in [RoundIds -> RoundRecord] /\ rounds'[r].usage = Plus(rounds[r].usage, Once(post.step))
  /\ \A q \in RoundIds : q # r => rounds'[q] = rounds[q]
EndsTheRound(r, end) ==
  /\ rounds'[r].finished /\ rounds'[r].done = Append(rounds[r].done, end)
  /\ end = "tool_calls" => rounds'[r].calls = post.step
  /\ end # "tool_calls" => rounds'[r].calls = rounds[r].calls
  /\ EndedBy(r)
GoesOn(r) ==
  /\ rounds'[r].finished = rounds[r].finished /\ rounds'[r].done = rounds[r].done
  /\ rounds'[r].calls = rounds[r].calls
  /\ UNCHANGED endedBy

LEMMA StepEndRound ==
  ASSUME TypeOK, Placed, Reported, Counted, OnStepEnd, InRound
  PROVE  /\ session' \in SessionRecord /\ SameSession
         /\ ToTheRound(session.current)
         /\ \/ EndsTheRound(session.current, "tool_calls") \/ EndsTheRound(session.current, "context full")
            \/ GoesOn(session.current)
<1>1. session \in SessionRecord /\ rounds \in [RoundIds -> RoundRecord]
  BY Records
<1>2. session.current \in RoundIds
  BY InRoundFacts
<1>3. /\ post.of \in StepEnds /\ post.step \in 0..MaxSteps /\ post.step # 0
  BY Records DEF OnStepEnd, Reported, Counted, PostRecord
<1>4. post.step \in Steps
  BY <1>3, Bounds DEF Steps
<1> DEFINE r == session.current
<1>6. PICK u : u = Plus(rounds[r].usage, Once(post.step))
  OBVIOUS
<1>7. u \in [Steps -> Nat]
  BY <1>1, <1>2, <1>4, <1>6, OnceFacts, PlusFacts DEF RoundRecord
<1>8. PICK t \in BOOLEAN : t = (rounds[r].texts \/ post.of \in {"text", "foreign tool"})
  OBVIOUS
<1>9. PICK e \in StepEnds \cup {"none"} : e = post.of
  BY <1>3
<1>10. PICK f : f = [rounds[r] EXCEPT !.usage = u, !.lastStop = e, !.texts = t]
  OBVIOUS
<1>11. /\ f \in RoundRecord /\ f.usage = u /\ f.finished = rounds[r].finished /\ f.done = rounds[r].done
       /\ f.calls = rounds[r].calls
  <2>1. rounds[r] \in RoundRecord
    BY <1>1, <1>2
  <2> QED BY <1>7, <1>8, <1>9, <1>10, <2>1 DEF RoundRecord
<1>12. PICK added : added = [rounds EXCEPT ![r] = f]
  OBVIOUS
<1>13. added = [rounds EXCEPT ![r].usage = Plus(@, Once(post.step)), ![r].lastStop = post.of,
                              ![r].texts = @ \/ post.of \in {"text", "foreign tool"}]
  BY <1>1, <1>2, <1>6, <1>8, <1>9, <1>10, <1>12
<1>14. added \in [RoundIds -> RoundRecord] /\ added[r] = f /\ \A q \in RoundIds : q # r => added[q] = rounds[q]
  BY <1>1, <1>2, <1>11, <1>12
<1>15. CASE post.of \in {"tools", "context exceeded"}
  <2>1. PICK end : end = IF post.of = "tools" THEN "tool_calls" ELSE "context full"
    OBVIOUS
  <2>2. end \in Ends /\ end \in {"tool_calls", "context full"}
    BY <2>1 DEF Ends, Errors
  <2>3. PICK c : c = IF post.of = "tools" THEN post.step ELSE f.calls
    OBVIOUS
  <2>4. c \in 0..MaxSteps
    BY <1>3, <1>11, <2>3 DEF RoundRecord
  <2>5. PICK d : d = Append(f.done, end)
    OBVIOUS
  <2>6. d \in Seq(Ends)
    BY <1>11, <2>2, <2>5, AppendProperties DEF RoundRecord
  <2>7. PICK g : g = [f EXCEPT !.finished = TRUE, !.calls = c, !.done = d]
    OBVIOUS
  <2>8. g \in RoundRecord /\ g.usage = u /\ g.finished /\ g.done = d /\ g.calls = c
    BY <1>11, <2>4, <2>6, <2>7 DEF RoundRecord
  <2>9. session' = Rebuilt(session) /\ EndedBy(r)
    BY <1>15, Zenon DEF OnStepEnd
  <2>10. rounds' = [added EXCEPT ![r] = g]
    <3> DEFINE after(a) == [a EXCEPT ![r].finished = TRUE,
                                     ![r].calls = IF post.of = "tools" THEN post.step ELSE @,
                                     ![r].done = Append(@, IF post.of = "tools" THEN "tool_calls" ELSE "context full")]
               more == [rounds EXCEPT ![r].usage = Plus(@, Once(post.step)), ![r].lastStop = post.of,
                                      ![r].texts = @ \/ post.of \in {"text", "foreign tool"}]
    <3>1. rounds' = after(more)
      BY <1>15, Zenon DEF OnStepEnd
    <3>2. more = added
      BY <1>13
    <3>3. after(added) = [added EXCEPT ![r] = g]
      BY <1>2, <1>14, <2>1, <2>3, <2>5, <2>7
    <3> HIDE DEF after, more
    <3> QED BY <3>1, <3>2, <3>3
  <2>11. rounds' \in [RoundIds -> RoundRecord] /\ rounds'[r] = g /\ \A q \in RoundIds : q # r => rounds'[q] = rounds[q]
    BY <1>2, <1>14, <2>8, <2>10
  <2>12. session' \in SessionRecord /\ SameSession
    BY <1>1, <2>9, RebuiltFacts DEF SameSession
  <2>13. ToTheRound(r)
    BY <1>6, <2>8, <2>11, <2>12 DEF ToTheRound, SameSession
  <2>14. end = "tool_calls" => post.of = "tools"
    BY <2>1
  <2>15. end # "tool_calls" => post.of # "tools"
    BY <2>1
  <2>16. EndsTheRound(r, end)
    BY <1>11, <2>3, <2>5, <2>8, <2>9, <2>11, <2>14, <2>15 DEF EndsTheRound
  <2> QED BY <2>2, <2>12, <2>13, <2>16
<1>16. CASE post.of \notin {"tools", "context exceeded"}
  <2>1. rounds' = added /\ UNCHANGED <<session, endedBy>>
    BY <1>13, <1>16 DEF OnStepEnd
  <2> QED BY <1>1, <1>6, <1>11, <1>14, <2>1 DEF SameSession, ToTheRound, GoesOn
<1> QED BY <1>15, <1>16

\* The step that reported is taken, and with it the place the process waited at.
LEMMA StepEndFacts ==
  ASSUME TypeOK, Reported, Counted, OnStepEnd
  PROVE  /\ HandlerFrame /\ UNCHANGED <<failers, billed, dropped, replayed, serves, orphaned>>
         /\ post.step \in Steps /\ post.step = cli.step /\ post.step \notin used
         /\ used' = used \cup {post.step} /\ cli'.step = cli.step /\ cli'.pc # "real"
<1>1. cli \in CliRecord /\ post \in PostRecord
  BY Records
<1>2. /\ post.kind = "step-end" /\ post' = NoPost /\ cli.pc = "reporting" /\ post.step = cli.step
      /\ cli.step # 0 /\ cli.step \notin used /\ used' = used \cup {post.step}
      /\ UNCHANGED <<caller, closer, failers, commands, results, billed, dropped, replayed, serves, orphaned>>
  BY DEF OnStepEnd, Handled, Reported, Counted
<1>3. NoPost.kind = "none" /\ post # NoPost
  BY <1>2 DEF NoPost
<1>4. post.step \in Steps
  BY <1>1, <1>2, Bounds DEF Steps, CliRecord
<1>5. PICK pc : pc = CASE post.of \in {"tools", "foreign tool"} -> "tools" [] OTHER -> "ending"
  OBVIOUS
<1>6. pc \in {"tools", "ending"}
  BY <1>5
<1>7. PICK call : call = IF post.of = "tools" THEN [step |-> cli.step, made |-> "real"] ELSE NoCall
  OBVIOUS
<1>8. call \in Call \cup {NoCall}
  BY <1>2, <1>4, <1>7 DEF Call
<1>9. PICK reason : reason = IF post.of = "context exceeded" THEN "error" ELSE "answer"
  OBVIOUS
<1>10. reason \in TurnReasons
  BY <1>9 DEF TurnReasons
<1>11. cli' = IF cli.up THEN [cli EXCEPT !.pc = pc, !.call = call, !.reason = reason] ELSE cli
  BY <1>5, <1>7, <1>9 DEF OnStepEnd, Replies
<1>12. /\ cli' \in CliRecord /\ cli'.up = cli.up /\ cli'.turn = cli.turn /\ cli'.strayed = cli.strayed
       /\ cli'.prompts = cli.prompts /\ cli'.seeded = cli.seeded /\ cli'.step = cli.step
       /\ cli'.pc \in {"tools", "ending", "reporting"}
  BY <1>1, <1>2, <1>6, <1>8, <1>10, <1>11 DEF CliRecord, CliPcs
<1> QED BY <1>2, <1>3, <1>4, <1>12 DEF HandlerFrame

\* The turn that is over ends the round that is open, unless it failed: then its
\* failure is still to be worded.
LEMMA TurnCompleteFacts ==
  ASSUME TypeOK, Placed, Reported, OnTurnComplete
  PROVE  /\ HandlerFrame /\ UNCHANGED <<used, billed, dropped, replayed>> /\ orphaned' \in BOOLEAN
         /\ session' \in SessionRecord /\ SameSession
         /\ cli'.step = cli.step /\ cli'.pc # "real"
         /\ \/ ~InRound /\ UNCHANGED <<rounds, failers, endedBy>>
            \/ /\ InRound /\ UNCHANGED rounds /\ failers' = failers \cup {session.current}
               /\ EndedBy(session.current)
            \/ /\ InRound /\ UNCHANGED failers /\ EndedBy(session.current)
               /\ cli.up => cli'.pc = "idle"
               /\ \E end \in {"answer", "length", "refused", "error"} : rounds' = Finish(session.current, end)
<1>1. session \in SessionRecord /\ rounds \in [RoundIds -> RoundRecord] /\ cli \in CliRecord
  BY Records
<1>2. /\ post.kind = "turn-complete" /\ post' = NoPost
      /\ cli.pc = "completing" \/ (cli.pc = "erring late" /\ post.of = "error")
      /\ UNCHANGED <<caller, closer, commands, results, used, billed, dropped, replayed, serves>>
  BY DEF OnTurnComplete, Handled, Reported
<1>3. post # NoPost
  <2>1. post.kind = "turn-complete"
    BY <1>2
  <2>2. NoPost.kind = "none"
    BY DEF NoPost
  <2> QED BY <2>1, <2>2
<1>4. PICK pc : pc = IF cli.pc = "erring late" THEN cli.pc ELSE "idle"
  OBVIOUS
<1>5. pc \in {"erring late", "idle"}
  BY <1>4
<1>6. cli' = IF cli.up THEN [cli EXCEPT !.pc = pc, !.call = NoCall] ELSE cli
  BY <1>4 DEF OnTurnComplete, Replies
<1>7. /\ cli' \in CliRecord /\ cli'.up = cli.up /\ cli'.turn = cli.turn /\ cli'.strayed = cli.strayed
      /\ cli'.prompts = cli.prompts /\ cli'.seeded = cli.seeded /\ cli'.step = cli.step
      /\ cli'.pc # "real" /\ (cli.up => cli'.pc = pc)
  BY <1>1, <1>2, <1>5, <1>6 DEF CliRecord, CliPcs
<1>8. orphaned' \in BOOLEAN
  BY DEF OnTurnComplete
<1>9. HandlerFrame
  BY <1>2, <1>3, <1>7 DEF HandlerFrame
<1>10. CASE ~InRound
  <2>1. UNCHANGED <<session, rounds, failers, endedBy>>
    BY <1>10 DEF OnTurnComplete
  <2> QED BY <1>1, <1>2, <1>7, <1>8, <1>9, <1>10, <2>1 DEF SameSession
<1>11. CASE InRound /\ post.of = "error"
  <2>1. UNCHANGED <<session, rounds>> /\ failers' = failers \cup {session.current} /\ EndedBy(session.current)
    BY <1>11 DEF OnTurnComplete
  <2> QED BY <1>1, <1>2, <1>7, <1>8, <1>9, <1>11, <2>1 DEF SameSession
<1>12. CASE InRound /\ post.of # "error"
  <2>1. UNCHANGED failers /\ EndedBy(session.current) /\ EndWith(session.current, OutcomeOf(session.current))
    BY <1>12 DEF OnTurnComplete
  <2>2. OutcomeOf(session.current) \in {"answer", "length", "refused", "error"}
    BY DEF OutcomeOf
  <2>3. OutcomeOf(session.current) \in Ends
    BY <2>2 DEF Ends, Errors
  <2>4. session' \in SessionRecord /\ SameSession /\ rounds' = Finish(session.current, OutcomeOf(session.current))
    BY <1>1, <2>1, <2>3, EndWithFacts, InRoundFacts, <1>12
  <2>5. cli.up => cli'.pc = "idle"
    BY <1>2, <1>4, <1>7, <1>12
  <2> QED BY <1>2, <1>7, <1>8, <1>9, <1>12, <2>1, <2>2, <2>4, <2>5
<1> QED BY <1>10, <1>11, <1>12

\* An error ends the round that is open.
LEMMA EventFacts ==
  ASSUME TypeOK, Placed, OnEvent
  PROVE  /\ HandlerFrame /\ UNCHANGED <<failers, used, billed, dropped, replayed, orphaned>>
         /\ session' \in SessionRecord /\ SameSession
         /\ cli'.step = cli.step /\ (cli'.pc = "real" => cli.pc = "real")
         /\ \/ ~InRound /\ UNCHANGED <<rounds, endedBy>>
            \/ InRound /\ rounds' = Finish(session.current, "error") /\ EndedBy(session.current)
<1>1. session \in SessionRecord /\ rounds \in [RoundIds -> RoundRecord] /\ cli \in CliRecord
  BY Records
<1>2. /\ post.kind = "event" /\ post' = NoPost
      /\ UNCHANGED <<caller, closer, failers, commands, results, used, billed, dropped, replayed, serves, orphaned>>
  BY DEF OnEvent, Handled
<1>3. NoPost.kind = "none" /\ post # NoPost
  BY <1>2 DEF NoPost
<1>4. PICK pc : pc = CASE cli.pc = "erring" -> "ending" [] cli.pc = "erring late" -> "idle" [] OTHER -> cli.pc
  OBVIOUS
<1>5. pc \in CliPcs /\ (pc = "real" => cli.pc = "real") /\ (cli.pc = "idle" => pc = "idle")
  BY <1>1, <1>4 DEF CliPcs, CliRecord
<1>6. cli' = IF cli.up THEN [cli EXCEPT !.pc = pc] ELSE cli
  BY <1>4 DEF OnEvent, Replies
<1>7. /\ cli' \in CliRecord /\ cli'.up = cli.up /\ cli'.turn = cli.turn /\ cli'.strayed = cli.strayed
      /\ cli'.prompts = cli.prompts /\ cli'.seeded = cli.seeded /\ cli'.step = cli.step
      /\ (cli'.pc = "real" => cli.pc = "real") /\ (cli.pc = "idle" => cli'.pc = "idle")
  BY <1>1, <1>5, <1>6 DEF CliRecord
<1>8. HandlerFrame
  BY <1>2, <1>3, <1>7 DEF HandlerFrame
<1>9. CASE ~InRound
  BY <1>1, <1>2, <1>7, <1>8, <1>9 DEF OnEvent, SameSession
<1>10. CASE InRound
  <2>1. EndWith(session.current, "error") /\ EndedBy(session.current)
    BY <1>10 DEF OnEvent
  <2>2. "error" \in Ends
    BY DEF Ends, Errors
  <2>3. session' \in SessionRecord /\ SameSession /\ rounds' = Finish(session.current, "error")
    BY <1>1, <1>10, <2>1, <2>2, EndWithFacts, InRoundFacts
  <2> QED BY <1>2, <1>7, <1>8, <1>10, <2>1, <2>3
<1> QED BY <1>9, <1>10

\* While a handler has a post to take, nothing else waits for the engine.
LEMMA HandlerQueues ==
  ASSUME TypeOK, HandlerFrame, NEW T, Doing(T), cli.up
  PROVE  Len(commands) = 0 /\ Len(cli.prompts) = 0
<1>1. Len(commands) \in Nat /\ Len(cli.prompts) \in Nat
  BY Records DEF CliRecord
<1>2. \A m, n \in Nat : m + n + 1 <= 1 => m = 0 /\ n = 0
  OBVIOUS
<1>3. Busy
  BY DEF HandlerFrame, Busy
<1>4. Len(commands) + Len(cli.prompts) + 1 <= 1
  BY <1>3 DEF Doing
<1> QED BY <1>1, <1>2, <1>4, Zenon

\* What the engine does stays in its turn ...
LEMMA DoneByItsTurn ==
  ASSUME TypeOK, HandlerFrame, NEW T, Doing(T), NEW U, cli.up /\ cli'.pc # "idle" => cli.turn \in U
  PROVE  Doing(U)'
<1>1. /\ post' = NoPost /\ UNCHANGED commands /\ cli'.up = cli.up /\ cli'.turn = cli.turn
      /\ cli'.prompts = cli.prompts
  BY DEF HandlerFrame
<1>2. cli.up => Len(commands') = 0 /\ Len(cli'.prompts) = 0
  BY <1>1, HandlerQueues
<1>3. 0 + 0 + 0 <= 1 /\ 0 + 0 + 1 <= 1
  OBVIOUS
<1>4. cli'.up => Len(commands') + Len(cli'.prompts) + (IF Busy' THEN 1 ELSE 0) <= 1
  BY <1>1, <1>2, <1>3, Zenon
<1>5. cli'.up => /\ \A i \in 1..Len(commands') : FALSE
                 /\ \A i \in 1..Len(cli'.prompts) : FALSE
  BY <1>1, <1>2
<1>6. cli'.up /\ cli'.pc # "idle" => cli'.turn \in U
  BY <1>1
<1> QED BY <1>1, <1>4, <1>5, <1>6, Zenon DEF Doing

\* ... and nothing is left of one whose process is idle.
LEMMA HandlerDoing ==
  ASSUME TypeOK, HandlerFrame, NEW T, Doing(T)
  PROVE  Doing(T)' /\ (cli'.pc = "idle" \/ ~cli.up => Doing({})')
<1>1. cli.up /\ cli'.pc # "idle" => cli.turn \in T
  BY DEF HandlerFrame, Doing
<1> QED BY <1>1, DoneByItsTurn

-----------------------------------------------------------------------------
(***************************************************************************)
(* The steps of the caller and of Close that move what was used, and the   *)
(* ends that are not the engine's                                          *)
(***************************************************************************)
\* What is carried is taken, or thrown away, and nothing is lost to the count.
LEMMA CarryFacts ==
  ASSUME TypeOK, TakeCarried \/ CloseTakes
  PROVE  /\ UNCHANGED <<rounds, caller, failers, commands, results, cli, post, used, replayed, serves, endedBy,
                        orphaned>>
         /\ session' \in SessionRecord /\ session'.state = session.state /\ session'.current = session.current
         /\ session'.replay = session.replay
         /\ closer' \in CloserRecord /\ billed' \in [Steps -> Nat] /\ dropped' \in [Steps -> Nat]
         /\ \A s \in Steps : session'.carried[s] + billed'[s] + dropped'[s]
                             = session.carried[s] + billed[s] + dropped[s]
<1>1. /\ session \in SessionRecord /\ closer \in CloserRecord /\ billed \in [Steps -> Nat]
      /\ dropped \in [Steps -> Nat] /\ Nothing \in [Steps -> Nat]
  BY Records, Bounds DEF HistoryTypes
<1>2. session' = [session EXCEPT !.carried = Nothing]
  BY DEF TakeCarried, CloseTakes
<1>3. /\ session' \in SessionRecord /\ session'.state = session.state /\ session'.current = session.current
      /\ session'.replay = session.replay /\ session'.carried = Nothing
  BY <1>1, <1>2 DEF SessionRecord
<1>4. session.carried \in [Steps -> Nat]
  BY <1>1 DEF SessionRecord
<1>5. \A s \in Steps : session.carried[s] \in Nat /\ billed[s] \in Nat /\ dropped[s] \in Nat /\ Nothing[s] = 0
  BY <1>1, <1>4 DEF Nothing
<1>6. ASSUME billed' = Plus(billed, session.carried) /\ dropped' = dropped
      PROVE  /\ billed' \in [Steps -> Nat] /\ dropped' \in [Steps -> Nat]
             /\ \A s \in Steps : session'.carried[s] + billed'[s] + dropped'[s]
                                 = session.carried[s] + billed[s] + dropped[s]
  <2>1. billed' \in [Steps -> Nat] /\ \A s \in Steps : billed'[s] = billed[s] + session.carried[s]
    BY <1>1, <1>4, <1>6, PlusFacts
  <2>2. ASSUME NEW s \in Steps
        PROVE  session'.carried[s] + billed'[s] + dropped'[s] = session.carried[s] + billed[s] + dropped[s]
    <3>1. session'.carried[s] = 0 /\ billed'[s] = billed[s] + session.carried[s] /\ dropped'[s] = dropped[s]
      BY <1>3, <1>5, <1>6, <2>1
    <3> QED BY <1>5, <3>1
  <2> QED BY <1>1, <1>6, <2>1, <2>2
<1>7. ASSUME dropped' = Plus(dropped, session.carried) /\ billed' = billed
      PROVE  /\ billed' \in [Steps -> Nat] /\ dropped' \in [Steps -> Nat]
             /\ \A s \in Steps : session'.carried[s] + billed'[s] + dropped'[s]
                                 = session.carried[s] + billed[s] + dropped[s]
  <2>1. dropped' \in [Steps -> Nat] /\ \A s \in Steps : dropped'[s] = dropped[s] + session.carried[s]
    BY <1>1, <1>4, <1>7, PlusFacts
  <2>2. ASSUME NEW s \in Steps
        PROVE  session'.carried[s] + billed'[s] + dropped'[s] = session.carried[s] + billed[s] + dropped[s]
    <3>1. session'.carried[s] = 0 /\ billed'[s] = billed[s] /\ dropped'[s] = dropped[s] + session.carried[s]
      BY <1>3, <1>5, <1>7, <2>1
    <3> QED BY <1>5, <3>1
  <2> QED BY <1>1, <1>7, <2>1, <2>2
<1>8. closer' \in CloserRecord
  BY <1>1 DEF TakeCarried, CloseTakes, CloserRecord
<1> QED BY <1>3, <1>6, <1>7, <1>8 DEF TakeCarried, CloseTakes

\* A close ends the round that is open, and what words a failed turn ends its round.
LEMMA OutsideEndFacts ==
  ASSUME TypeOK, Placed, CloseBegins \/ \E r \in RoundIds : FailTurn(r)
  PROVE  /\ UNCHANGED <<caller, commands, results, cli, post, history>>
         /\ session' \in SessionRecord /\ SameSession /\ closer' \in CloserRecord
         /\ failers' \subseteq failers
         /\ \/ UNCHANGED rounds
            \/ \E r \in RoundIds, end \in Errors : r <= caller.round /\ rounds' = Finish(r, end)
<1>1. session \in SessionRecord /\ rounds \in [RoundIds -> RoundRecord] /\ closer \in CloserRecord
  BY Records
<1>2. CASE CloseBegins
  <2>1. closer' \in CloserRecord /\ UNCHANGED <<caller, failers, commands, results, cli, post, history>>
    BY <1>1, <1>2 DEF CloseBegins, CloserRecord
  <2>2. PICK closed : closed = [session EXCEPT !.closed = TRUE]
    OBVIOUS
  <2>3. /\ closed \in SessionRecord /\ closed.state = session.state /\ closed.current = session.current
        /\ closed.replay = session.replay /\ closed.carried = session.carried
    BY <1>1, <2>2 DEF SessionRecord
  <2>4. CASE InRound
    <3>1. rounds' = Finish(session.current, "closed") /\ session' = Rebuilt(closed)
      BY <1>2, <2>2, <2>4 DEF CloseBegins
    <3>2. session' \in SessionRecord /\ SameSession
      BY <2>3, <3>1, RebuiltFacts DEF SameSession
    <3>3. session.current \in RoundIds /\ session.current = caller.round
      BY <2>4, InRoundFacts
    <3>4. session.current <= caller.round
      <4>1. \A n \in RoundIds : n <= n
        BY DEF RoundIds
      <4> QED BY <3>3, <4>1
    <3>5. "closed" \in Errors
      BY DEF Errors
    <3> QED BY <2>1, <3>1, <3>2, <3>3, <3>4, <3>5
  <2>5. CASE ~InRound
    BY <1>2, <2>1, <2>2, <2>3, <2>5 DEF CloseBegins, SameSession
  <2> QED BY <2>4, <2>5
<1>3. ASSUME NEW r \in RoundIds, FailTurn(r)
      PROVE  /\ UNCHANGED <<caller, commands, results, cli, post, history>>
             /\ session' \in SessionRecord /\ SameSession /\ closer' \in CloserRecord
             /\ failers' \subseteq failers
             /\ \E end \in Errors : r <= caller.round /\ rounds' = Finish(r, end)
  <2>1. PICK end : end \in {"context full", "error"} /\ EndWith(r, end)
    BY <1>3 DEF FailTurn
  <2>2. end \in Ends /\ end \in Errors
    BY <2>1 DEF Ends, Errors
  <2>3. session' \in SessionRecord /\ SameSession /\ rounds' = Finish(r, end)
    BY <1>1, <2>1, <2>2, EndWithFacts
  <2>4. r <= caller.round
    <3>1. r \in failers /\ failers \subseteq 1..caller.round
      BY <1>3 DEF FailTurn, Placed
    <3>2. caller.round \in Nat
      BY Records, Bounds DEF CallerRecord
    <3> QED BY <3>1, <3>2
  <2>5. UNCHANGED <<caller, closer, commands, results, cli, post, history>> /\ failers' \subseteq failers
    BY <1>3 DEF FailTurn
  <2> QED BY <1>1, <2>2, <2>3, <2>4, <2>5
<1> QED BY <1>2, <1>3

-----------------------------------------------------------------------------
(***************************************************************************)
(* The steps of the caller that change the session's state                 *)
(***************************************************************************)
\* The end a round has been given, and whether it made calls, are what they were.
SameRound(q) ==
  rounds'[q].finished = rounds[q].finished /\ rounds'[q].done = rounds[q].done /\ rounds'[q].calls = rounds[q].calls

LEMMA RefusedFacts ==
  ASSUME TypeOK, Refused
  PROVE  /\ caller' \in CallerRecord /\ caller'.round = caller.round /\ caller'.isNew = caller.isNew
         /\ caller'.feeds = caller.feeds /\ caller'.pc = IF caller.isNew THEN "fail" ELSE "out"
<1>1. PICK pc : pc = IF caller.isNew THEN "fail" ELSE "out"
  OBVIOUS
<1>2. pc \in CallerPcs /\ Step(pc)
  BY <1>1 DEF CallerPcs, Refused
<1> QED BY <1>1, <1>2, Records, StepFacts

\* A round is refused, or the next one is opened.
OpenFrame ==
  /\ UNCHANGED <<closer, failers, commands, results, cli, post, used, billed, dropped, replayed, endedBy, orphaned>>
  /\ caller.pc = "open" /\ caller' \in CallerRecord
  /\ caller'.isNew = caller.isNew /\ caller'.feeds = caller.feeds
  /\ session' \in SessionRecord /\ session'.replay = session.replay /\ session'.carried = session.carried
  /\ rounds' \in [RoundIds -> RoundRecord] /\ serves' \in [RoundIds -> SUBSET Turns]
  /\ \A q \in RoundIds : SameRound(q) /\ rounds'[q].usage = rounds[q].usage
OpenRefused ==
  /\ UNCHANGED <<session, rounds, serves>> /\ caller'.round = caller.round
  /\ caller'.pc = IF caller.isNew THEN "fail" ELSE "out"
Opened ==
  /\ session.state # "dirty"
  /\ caller'.round = caller.round + 1 /\ caller'.round \in RoundIds
  /\ session'.current = caller'.round /\ session'.state = "running"
  /\ caller'.pc = IF caller.isNew THEN "arm" ELSE "feed"
  /\ caller.feeds = "results" => caller.round \in RoundIds /\ session.state = "waiting"
  /\ serves'[caller'.round] = IF caller.feeds = "results" THEN endedBy[caller.round] ELSE {caller'.round}
  /\ \A q \in RoundIds : q # caller'.round => serves'[q] = serves[q]

LEMMA OpenRoundFacts ==
  ASSUME TypeOK, Placed, Answerable, OpenRound
  PROVE  OpenFrame /\ (OpenRefused \/ Opened)
<1>1. /\ session \in SessionRecord /\ rounds \in [RoundIds -> RoundRecord] /\ caller \in CallerRecord
      /\ serves \in [RoundIds -> SUBSET Turns] /\ endedBy \in [RoundIds -> SUBSET Turns]
  BY Records DEF HistoryTypes
<1>2. /\ caller.pc = "open"
      /\ UNCHANGED <<closer, failers, commands, results, cli, post,
                     used, billed, dropped, replayed, endedBy, orphaned>>
  BY DEF OpenRound
<1>3. CASE Refused /\ UNCHANGED <<session, rounds, serves>>
  <2>1. OpenRefused /\ caller' \in CallerRecord /\ caller'.isNew = caller.isNew /\ caller'.feeds = caller.feeds
    BY <1>3, RefusedFacts DEF OpenRefused
  <2>2. \A q \in RoundIds : SameRound(q) /\ rounds'[q].usage = rounds[q].usage
    BY <1>3 DEF SameRound
  <2> QED BY <1>1, <1>2, <1>3, <2>1, <2>2 DEF OpenFrame
<1>4. CASE ~Refused \/ ~UNCHANGED <<session, rounds, serves>>
  <2> DEFINE r == caller.round + 1
  <2>1. /\ session.state # "dirty" /\ caller.round < MaxRounds
        /\ rounds' = [rounds EXCEPT ![r].opened = TRUE]
        /\ session' = [session EXCEPT !.current = r, !.state = "running"]
        /\ caller' = [caller EXCEPT !.round = r, !.pc = IF caller.isNew THEN "arm" ELSE "feed"]
        /\ serves' = [serves EXCEPT ![r] = IF caller.feeds = "results" THEN endedBy[r - 1] ELSE {r}]
    BY <1>4 DEF OpenRound
  <2>2. caller.round \in Nat /\ caller.round \in 0..MaxRounds /\ caller.round + 1 - 1 = caller.round
    BY <1>1, Bounds DEF CallerRecord
  <2>3. r \in RoundIds /\ r \in 0..MaxRounds
    BY <2>1, <2>2, Bounds DEF RoundIds
  <2>4. caller.feeds = "results" => caller.round \in RoundIds /\ session.state = "waiting"
    <3>1. caller.feeds = "results" => session.state = "waiting" /\ caller.round # 0
      BY <1>2, <2>1 DEF Placed, Answerable
    <3> QED BY <2>2, <3>1, Bounds DEF RoundIds
  <2>5. PICK T : T = IF caller.feeds = "results" THEN endedBy[r - 1] ELSE {r}
    OBVIOUS
  <2>6. T \in SUBSET Turns
    BY <1>1, <2>2, <2>3, <2>4, <2>5, Bounds
  <2>7. /\ serves' \in [RoundIds -> SUBSET Turns] /\ serves'[r] = T
        /\ \A q \in RoundIds : q # r => serves'[q] = serves[q]
    <3>1. serves' = [serves EXCEPT ![r] = T]
      BY <2>1, <2>5, Zenon
    <3> QED BY <1>1, <2>3, <2>6, <3>1
  <2>8. /\ caller' \in CallerRecord /\ caller'.isNew = caller.isNew /\ caller'.feeds = caller.feeds
        /\ caller'.round = r /\ caller'.pc = IF caller.isNew THEN "arm" ELSE "feed"
    <3>1. PICK pc : pc = IF caller.isNew THEN "arm" ELSE "feed"
      OBVIOUS
    <3>2. pc \in CallerPcs
      BY <3>1 DEF CallerPcs
    <3>3. caller' = [caller EXCEPT !.round = r, !.pc = pc]
      BY <2>1, <3>1
    <3> QED BY <1>1, <2>3, <3>1, <3>2, <3>3 DEF CallerRecord
  <2>9. /\ session' \in SessionRecord /\ session'.replay = session.replay /\ session'.carried = session.carried
        /\ session'.current = r /\ session'.state = "running"
    BY <1>1, <2>1, <2>3 DEF SessionRecord
  <2>10. PICK f : f = [rounds[r] EXCEPT !.opened = TRUE]
    OBVIOUS
  <2>11. /\ f \in RoundRecord /\ f.finished = rounds[r].finished /\ f.done = rounds[r].done
         /\ f.calls = rounds[r].calls /\ f.usage = rounds[r].usage
    BY <1>1, <2>3, <2>10 DEF RoundRecord
  <2>12. rounds' = [rounds EXCEPT ![r] = f]
    BY <2>1, <2>10
  <2>13. rounds' \in [RoundIds -> RoundRecord] /\ \A q \in RoundIds : SameRound(q) /\ rounds'[q].usage = rounds[q].usage
    BY <1>1, <2>3, <2>11, <2>12 DEF SameRound
  <2>14. serves'[r] = IF caller.feeds = "results" THEN endedBy[caller.round] ELSE {r}
    BY <2>2, <2>5, <2>7
  <2> QED BY <1>2, <2>1, <2>3, <2>4, <2>7, <2>8, <2>9, <2>13, <2>14 DEF OpenFrame, Opened
<1> QED BY <1>3, <1>4

\* The whole window is queued, oldest first.
LEMMA ArmFacts ==
  ASSUME TypeOK, ArmReplay
  PROVE  /\ UNCHANGED <<rounds, closer, failers, commands, cli, post, history>>
         /\ caller.pc = "arm" /\ caller'.pc = "submit" /\ caller' \in CallerRecord
         /\ caller'.round = caller.round /\ caller'.isNew = caller.isNew /\ caller'.feeds = caller.feeds
         /\ results' \subseteq Call
         /\ session' \in SessionRecord /\ session'.state = session.state /\ session'.current = session.current
         /\ session'.carried = session.carried
         /\ Len(session'.replay) = Window /\ \A i \in 1..Window : session'.replay[i] = i
<1>1. session \in SessionRecord /\ results \subseteq Call
  BY Records
<1>2. "submit" \in CallerPcs
  BY DEF CallerPcs
<1>3. PICK w : w = [i \in 1..Window |-> i]
  OBVIOUS
<1>4. w \in Seq(1..Window) /\ Len(w) = Window /\ \A i \in 1..Window : w[i] = i
  BY <1>3, Bounds
<1>5. session' = [session EXCEPT !.replay = w] /\ results' = results \cup Replay
  BY <1>3 DEF ArmReplay
<1>6. /\ session' \in SessionRecord /\ session'.state = session.state /\ session'.current = session.current
      /\ session'.carried = session.carried /\ session'.replay = w
  BY <1>1, <1>4, <1>5 DEF SessionRecord
<1>7. results' \subseteq Call
  BY <1>1, <1>5 DEF Replay, Call
<1>8. caller.pc = "arm" /\ Step("submit") /\ UNCHANGED <<rounds, closer, failers, commands, cli, post, history>>
  BY DEF ArmReplay
<1> QED BY <1>2, <1>4, <1>6, <1>7, <1>8, Records, StepFacts

\* A round is given up, or returned: what it used goes where it can be billed.
LeaveFrame ==
  /\ UNCHANGED <<closer, failers, commands, results, cli, post, used, dropped, replayed, serves, endedBy, orphaned>>
  /\ caller' \in CallerRecord /\ caller'.round = caller.round /\ caller'.isNew = caller.isNew
  /\ caller'.feeds = caller.feeds
  /\ session' \in SessionRecord /\ session'.current = 0 /\ session'.replay = session.replay
  /\ rounds' \in [RoundIds -> RoundRecord] /\ rounds'[caller.round].usage = Nothing
  /\ rounds[caller.round].finished => rounds'[caller.round].finished
  /\ rounds'[caller.round].done = rounds[caller.round].done
  /\ rounds'[caller.round].calls = rounds[caller.round].calls
  /\ \A q \in RoundIds : q # caller.round => rounds'[q] = rounds[q]
GivenUp ==
  /\ caller.pc \in {"abort", "complete"}
  /\ caller'.pc = IF caller.isNew THEN "fail" ELSE "out"
  /\ session'.state = "dirty"
  /\ billed' = billed /\ session'.carried = Plus(session.carried, rounds[caller.round].usage)
Returned ==
  /\ caller.pc = "complete" /\ caller'.pc = "out"
  /\ Head(rounds[caller.round].done) \notin Errors
  /\ session'.state = StateAfter(Head(rounds[caller.round].done))
  /\ billed' = Plus(billed, rounds[caller.round].usage) /\ session'.carried = session.carried

LEMMA LeaveFacts ==
  ASSUME TypeOK, Placed, Ended, Abort \/ CompleteRound
  PROVE  LeaveFrame /\ (GivenUp \/ Returned)
<1>1. session \in SessionRecord /\ rounds \in [RoundIds -> RoundRecord] /\ billed \in [Steps -> Nat]
  BY Records DEF HistoryTypes
<1>2. caller.pc \in {"abort", "complete"}
  BY DEF Abort, CompleteRound
<1>3. caller.round \in RoundIds /\ session.current = caller.round
  BY <1>2, CompleteFacts DEF Within
<1>4. UNCHANGED <<closer, failers, commands, results, cli, post, used, dropped, replayed, serves, endedBy, orphaned>>
  BY DEF Abort, CompleteRound, history
<1>5. ASSUME EndRound(caller.round), Refused, UNCHANGED billed
      PROVE  LeaveFrame /\ GivenUp
  <2>1. /\ session' \in SessionRecord /\ rounds' \in [RoundIds -> RoundRecord]
        /\ session'.state = "dirty" /\ session'.current = 0 /\ session'.replay = session.replay
        /\ session'.carried = Plus(session.carried, rounds[caller.round].usage)
        /\ rounds'[caller.round].finished /\ rounds'[caller.round].done = rounds[caller.round].done
        /\ rounds'[caller.round].calls = rounds[caller.round].calls /\ rounds'[caller.round].usage = Nothing
        /\ \A q \in RoundIds : q # caller.round => rounds'[q] = rounds[q]
    BY <1>1, <1>3, <1>5, EndRoundFacts
  <2>2. /\ caller' \in CallerRecord /\ caller'.round = caller.round /\ caller'.isNew = caller.isNew
        /\ caller'.feeds = caller.feeds /\ caller'.pc = IF caller.isNew THEN "fail" ELSE "out"
    BY <1>5, RefusedFacts
  <2> QED BY <1>2, <1>4, <1>5, <2>1, <2>2 DEF LeaveFrame, GivenUp
<1>6. CASE Abort
  BY <1>5, <1>6 DEF Abort, history
<1>7. CASE CompleteRound
  <2> DEFINE r == caller.round
             end == Head(rounds[r].done)
  <2>1. CASE EndRound(r) /\ Refused /\ UNCHANGED billed
    BY <1>5, <2>1
  <2>2. CASE /\ end \notin Errors
             /\ rounds' = [rounds EXCEPT ![r].settled = TRUE, ![r].usage = Nothing]
             /\ billed' = Plus(billed, rounds[r].usage)
             /\ session' = [session EXCEPT !.current = 0, !.state = StateAfter(end)]
             /\ Step("out")
    <3>1. PICK state : state = StateAfter(end)
      OBVIOUS
    <3>2. state \in {"waiting", "idle", "dirty"}
      BY <3>1 DEF StateAfter
    <3>3. session' = [session EXCEPT !.current = 0, !.state = state]
      BY <2>2, <3>1
    <3>4. /\ session' \in SessionRecord /\ rounds' \in [RoundIds -> RoundRecord]
          /\ session'.state = state /\ session'.current = 0
          /\ session'.replay = session.replay /\ session'.carried = session.carried
          /\ rounds'[r].finished = rounds[r].finished /\ rounds'[r].done = rounds[r].done
          /\ rounds'[r].calls = rounds[r].calls /\ rounds'[r].usage = Nothing
          /\ \A q \in RoundIds : q # r => rounds'[q] = rounds[q]
      BY <1>1, <1>3, <2>2, <3>2, <3>3, ReturnFacts
    <3>5. "out" \in CallerPcs /\ Step("out")
      BY <2>2 DEF CallerPcs
    <3>6. /\ caller' \in CallerRecord /\ caller'.round = caller.round /\ caller'.isNew = caller.isNew
          /\ caller'.feeds = caller.feeds /\ caller'.pc = "out"
      BY <3>5, Records, StepFacts
    <3>7. caller.pc = "complete"
      BY <1>7 DEF CompleteRound
    <3>8. Returned
      BY <2>2, <3>1, <3>4, <3>6, <3>7 DEF Returned
    <3>9. LeaveFrame
      BY <1>4, <3>4, <3>6 DEF LeaveFrame
    <3> QED BY <3>8, <3>9
  <2> QED BY <1>7, <2>1, <2>2, Zenon DEF CompleteRound
<1> QED BY <1>6, <1>7

-----------------------------------------------------------------------------
(***************************************************************************)
(* What the handlers do, taken together                                    *)
(***************************************************************************)
\* A round is given its end, if it has none, and it has made calls if it is to return some.
Given(r, end) ==
  /\ rounds'[r].finished
  /\ rounds'[r].done = IF rounds[r].finished THEN rounds[r].done ELSE Append(rounds[r].done, end)
  /\ end = "tool_calls" => rounds'[r].calls # 0
  /\ end # "tool_calls" => rounds'[r].calls = rounds[r].calls
  /\ \A q \in RoundIds : q # r => SameRound(q)
Noted(r) ==
  /\ endedBy'[r] = endedBy[r] \cup {post.turn}
  /\ \A q \in RoundIds : q # r => endedBy'[q] = endedBy[q]

LEMMA FinishGiven ==
  ASSUME rounds \in [RoundIds -> RoundRecord], NEW r \in RoundIds, NEW end \in Ends, end # "tool_calls",
         rounds' = Finish(r, end)
  PROVE  /\ rounds' \in [RoundIds -> RoundRecord] /\ Given(r, end)
         /\ \A q \in RoundIds : rounds'[q].usage = rounds[q].usage
BY FinishFacts DEF Given, SameRound

HandlerOutcome ==
  /\ HandlerFrame /\ UNCHANGED <<billed, dropped>>
  /\ session' \in SessionRecord /\ session'.current = session.current
  /\ session'.state = session.state \/ (session.current = 0 /\ session'.state = "dirty")
  /\ rounds' \in [RoundIds -> RoundRecord] /\ endedBy' \in [RoundIds -> SUBSET Turns]
  /\ used' \subseteq Steps /\ replayed' \in Seq(1..Window) /\ orphaned' \in BOOLEAN
  /\ failers' = failers \/ (InRound /\ failers' = failers \cup {session.current})
  /\ \/ (\A q \in RoundIds : SameRound(q)) /\ endedBy' = endedBy
     \/ InRound /\ (\A q \in RoundIds : SameRound(q)) /\ Noted(session.current)
     \/ /\ InRound /\ Noted(session.current)
        /\ \E end \in Ends :
             /\ Given(session.current, end)
             /\ end = "tool_calls" => post.turn = cli.turn
             /\ end = "answer" => cli'.pc = "idle" \/ ~cli.up

LEMMA HandlerFacts ==
  ASSUME TypeOK, Placed, Reported, Counted, Handlers
  PROVE  HandlerOutcome
<1>1. /\ session \in SessionRecord /\ rounds \in [RoundIds -> RoundRecord] /\ HistoryTypes
  BY Records
<1>2. InRound => session.current \in RoundIds /\ ~rounds[session.current].finished
  BY InRoundFacts
<1>3. ASSUME InRound, EndedBy(session.current)
      PROVE  endedBy' \in [RoundIds -> SUBSET Turns] /\ Noted(session.current)
  BY <1>2, <1>3, EndedByFacts DEF Noted
<1>4. CASE OnStepStart
  <2>1. /\ HandlerFrame /\ UNCHANGED <<rounds, failers, used, billed, dropped, endedBy, orphaned>>
        /\ session' \in SessionRecord /\ replayed' \in Seq(1..Window) /\ session'.current = session.current
        /\ session'.state = session.state \/ (session.current = 0 /\ session'.state = "dirty")
    BY <1>4, StepStartFacts DEF StepGiven, StepRefused, StepLet
  <2>2. \A q \in RoundIds : SameRound(q)
    BY <2>1 DEF SameRound
  <2> QED BY <1>1, <2>1, <2>2 DEF HandlerOutcome, HistoryTypes
<1>5. CASE OnStepEnd
  <2>1. /\ HandlerFrame /\ UNCHANGED <<failers, billed, dropped, replayed, serves, orphaned>>
        /\ post.step \in Steps /\ used' = used \cup {post.step}
    BY <1>5, StepEndFacts
  <2>2. used' \subseteq Steps
    BY <1>1, <2>1 DEF HistoryTypes
  <2>3. post.turn = cli.turn
    BY <1>5 DEF OnStepEnd, Reported
  <2>4. CASE ~InRound
    <3>1. session' = [session EXCEPT !.carried = Plus(@, Once(post.step))] /\ UNCHANGED <<rounds, endedBy>>
      BY <1>5, <2>4 DEF OnStepEnd
    <3>2. PICK b : b = Plus(session.carried, Once(post.step))
      OBVIOUS
    <3>3. b \in [Steps -> Nat]
      BY <1>1, <2>1, <3>2, OnceFacts, PlusFacts DEF SessionRecord
    <3>4. session' = [session EXCEPT !.carried = b]
      BY <3>1, <3>2
    <3>5. session' \in SessionRecord /\ session'.current = session.current /\ session'.state = session.state
      BY <1>1, <3>3, <3>4 DEF SessionRecord
    <3>6. \A q \in RoundIds : SameRound(q)
      BY <3>1 DEF SameRound
    <3> QED BY <1>1, <2>1, <2>2, <3>1, <3>5, <3>6 DEF HandlerOutcome, HistoryTypes
  <2>5. CASE InRound
    <3>1. /\ session' \in SessionRecord /\ SameSession /\ ToTheRound(session.current)
          /\ \/ EndsTheRound(session.current, "tool_calls") \/ EndsTheRound(session.current, "context full")
             \/ GoesOn(session.current)
      BY <1>5, <2>5, StepEndRound
    <3>2. rounds' \in [RoundIds -> RoundRecord] /\ \A q \in RoundIds : q # session.current => SameRound(q)
      BY <3>1 DEF ToTheRound, SameRound
    <3>3. CASE GoesOn(session.current)
      <4>1. \A q \in RoundIds : SameRound(q)
        BY <3>2, <3>3 DEF GoesOn, SameRound
      <4> QED BY <1>1, <2>1, <2>2, <3>1, <3>2, <3>3, <4>1
              DEF HandlerOutcome, HistoryTypes, GoesOn, SameSession
    <3>4. ASSUME NEW end \in Ends, EndsTheRound(session.current, end), end # "answer"
          PROVE  HandlerOutcome
      <4>1. post.step # 0
        BY <2>1, Bounds DEF Steps
      <4>2. Given(session.current, end)
        BY <1>2, <2>5, <3>2, <3>4, <4>1 DEF EndsTheRound, Given
      <4>3. endedBy' \in [RoundIds -> SUBSET Turns] /\ Noted(session.current)
        BY <1>3, <2>5, <3>4 DEF EndsTheRound
      <4> QED BY <1>1, <2>1, <2>2, <2>3, <2>5, <3>1, <3>2, <3>4, <4>2, <4>3
              DEF HandlerOutcome, HistoryTypes, SameSession
    <3>5. "tool_calls" \in Ends /\ "context full" \in Ends
      BY DEF Ends, Errors
    <3> QED BY <3>1, <3>3, <3>4, <3>5
  <2> QED BY <2>4, <2>5
<1>6. CASE OnTurnComplete
  <2>1. /\ HandlerFrame /\ UNCHANGED <<used, billed, dropped, replayed>> /\ orphaned' \in BOOLEAN
        /\ session' \in SessionRecord /\ SameSession
    BY <1>6, TurnCompleteFacts
  <2>2. CASE ~InRound /\ UNCHANGED <<rounds, failers, endedBy>>
    <3>1. \A q \in RoundIds : SameRound(q)
      BY <2>2 DEF SameRound
    <3> QED BY <1>1, <2>1, <2>2, <3>1 DEF HandlerOutcome, HistoryTypes, SameSession
  <2>3. CASE /\ InRound /\ UNCHANGED rounds /\ failers' = failers \cup {session.current}
             /\ EndedBy(session.current)
    <3>1. \A q \in RoundIds : SameRound(q)
      BY <2>3 DEF SameRound
    <3>2. endedBy' \in [RoundIds -> SUBSET Turns] /\ Noted(session.current)
      BY <1>3, <2>3
    <3> QED BY <1>1, <2>1, <2>3, <3>1, <3>2 DEF HandlerOutcome, HistoryTypes, SameSession
  <2>4. CASE /\ InRound /\ UNCHANGED failers /\ EndedBy(session.current)
             /\ cli.up => cli'.pc = "idle"
             /\ \E end \in {"answer", "length", "refused", "error"} : rounds' = Finish(session.current, end)
    <3>1. PICK end : /\ end \in {"answer", "length", "refused", "error"}
                     /\ rounds' = Finish(session.current, end)
      BY <2>4
    <3>2. end \in Ends /\ end # "tool_calls"
      BY <3>1 DEF Ends, Errors
    <3>3. rounds' \in [RoundIds -> RoundRecord] /\ Given(session.current, end)
      BY <1>1, <1>2, <2>4, <3>1, <3>2, FinishGiven
    <3>4. endedBy' \in [RoundIds -> SUBSET Turns] /\ Noted(session.current)
      BY <1>3, <2>4
    <3>5. cli'.pc = "idle" \/ ~cli.up
      BY <2>4
    <3> QED BY <1>1, <2>1, <2>4, <3>2, <3>3, <3>4, <3>5 DEF HandlerOutcome, HistoryTypes, SameSession
  <2> QED BY <1>6, <2>2, <2>3, <2>4, TurnCompleteFacts
<1>7. CASE OnEvent
  <2>1. /\ HandlerFrame /\ UNCHANGED <<failers, used, billed, dropped, replayed, orphaned>>
        /\ session' \in SessionRecord /\ SameSession
    BY <1>7, EventFacts
  <2>2. CASE ~InRound /\ UNCHANGED <<rounds, endedBy>>
    <3>1. \A q \in RoundIds : SameRound(q)
      BY <2>2 DEF SameRound
    <3> QED BY <1>1, <2>1, <2>2, <3>1 DEF HandlerOutcome, HistoryTypes, SameSession
  <2>3. CASE InRound /\ rounds' = Finish(session.current, "error") /\ EndedBy(session.current)
    <3>1. "error" \in Ends
      BY DEF Ends, Errors
    <3>2. rounds' \in [RoundIds -> RoundRecord] /\ Given(session.current, "error")
      BY <1>1, <1>2, <2>3, <3>1, FinishGiven
    <3>3. endedBy' \in [RoundIds -> SUBSET Turns] /\ Noted(session.current)
      BY <1>3, <2>3
    <3> QED BY <1>1, <2>1, <2>3, <3>1, <3>2, <3>3 DEF HandlerOutcome, HistoryTypes, SameSession
  <2> QED BY <1>7, <2>2, <2>3, EventFacts
<1> QED BY <1>4, <1>5, <1>6, <1>7 DEF Handlers

-----------------------------------------------------------------------------
(***************************************************************************)
(* The steps that are left, and the types                                  *)
(***************************************************************************)
\* Every step is one of these kinds.
LEMMA Kinds ==
  ASSUME Next
  PROVE  \/ PlainMoves \/ Sends \/ EngineSteps \/ Dies \/ CloseKills \/ Handlers
         \/ OpenRound \/ ArmReplay \/ Abort \/ CompleteRound
         \/ TakeCarried \/ CloseTakes \/ CloseBegins \/ \E r \in RoundIds : FailTurn(r)
BY DEF Next, Caller, Closer, Engine, PlainMoves, Sends, EngineSteps, WithinTurn

LEMMA TypesKept ==
  ASSUME TypeOK, Placed, Ended, Answerable, Reported, Counted, Next
  PROVE  TypeOK'
<1>1. /\ session \in SessionRecord /\ rounds \in [RoundIds -> RoundRecord] /\ caller \in CallerRecord
      /\ closer \in CloserRecord /\ failers \subseteq RoundIds /\ commands \in Seq(CommandRecord)
      /\ results \subseteq Call /\ cli \in CliRecord /\ post \in PostRecord /\ HistoryTypes
  BY Records
<1>2. CASE Handlers
  <2>1. HandlerOutcome /\ HandlerFrame
    BY <1>2, HandlerFacts DEF HandlerOutcome
  <2>2. failers' \subseteq RoundIds
    BY <1>1, <2>1, InRoundFacts DEF HandlerOutcome
  <2>3. HistoryTypes'
    BY <1>1, <2>1 DEF HandlerOutcome, HandlerFrame, HistoryTypes
  <2> QED BY <1>1, <2>1, <2>2, <2>3, Bounds, TypesNext DEF HandlerOutcome, HandlerFrame
<1>3. CASE OpenRound
  <2>1. OpenFrame
    BY <1>3, OpenRoundFacts
  <2>2. HistoryTypes'
    BY <1>1, <2>1 DEF OpenFrame, HistoryTypes
  <2> QED BY <1>1, <2>1, <2>2, TypesNext DEF OpenFrame
<1>4. CASE ArmReplay
  <2>1. HistoryTypes'
    BY <1>1, <1>4, ArmFacts DEF HistoryTypes, history
  <2> QED BY <1>1, <1>4, <2>1, ArmFacts, TypesNext
<1>5. CASE Abort \/ CompleteRound
  <2>1. LeaveFrame /\ (GivenUp \/ Returned)
    BY <1>5, LeaveFacts
  <2>2. billed' \in [Steps -> Nat]
    <3>1. caller.round \in RoundIds
      BY <1>5, CompleteFacts DEF Within, Abort, CompleteRound
    <3>2. rounds[caller.round].usage \in [Steps -> Nat]
      BY <1>1, <3>1 DEF RoundRecord
    <3>3. billed' = billed \/ billed' = Plus(billed, rounds[caller.round].usage)
      BY <2>1 DEF GivenUp, Returned
    <3>4. billed \in [Steps -> Nat]
      BY <1>1 DEF HistoryTypes
    <3> QED BY <3>2, <3>3, <3>4, PlusFacts
  <2>3. HistoryTypes'
    BY <1>1, <2>1, <2>2 DEF LeaveFrame, HistoryTypes
  <2> QED BY <1>1, <2>1, <2>3, TypesNext DEF LeaveFrame
<1>6. CASE TakeCarried \/ CloseTakes
  <2>1. HistoryTypes'
    BY <1>1, <1>6, CarryFacts DEF HistoryTypes
  <2> QED BY <1>1, <1>6, <2>1, CarryFacts, TypesNext
<1>7. CASE CloseBegins \/ \E r \in RoundIds : FailTurn(r)
  <2>1. /\ UNCHANGED <<caller, commands, results, cli, post, history>>
        /\ session' \in SessionRecord /\ closer' \in CloserRecord /\ failers' \subseteq failers
        /\ UNCHANGED rounds \/ \E r \in RoundIds, end \in Errors : rounds' = Finish(r, end)
    BY <1>7, OutsideEndFacts
  <2>2. rounds' \in [RoundIds -> RoundRecord]
    <3>1. Errors \subseteq Ends
      BY DEF Ends
    <3>2. ASSUME NEW r \in RoundIds, NEW end \in Errors, rounds' = Finish(r, end)
          PROVE  rounds' \in [RoundIds -> RoundRecord]
      BY <1>1, <3>1, <3>2, FinishFacts
    <3> QED BY <1>1, <2>1, <3>2
  <2>3. HistoryTypes'
    BY <1>1, <2>1 DEF HistoryTypes, history
  <2> QED BY <1>1, <2>1, <2>2, <2>3, TypesNext
<1>8. CASE PlainMoves \/ Sends
  BY <1>8, TypedCallerMoves
<1>9. CASE EngineSteps \/ Dies \/ CloseKills
  BY <1>9, EngineTypes
<1> QED BY <1>2, <1>3, <1>4, <1>5, <1>6, <1>7, <1>8, <1>9, Kinds

-----------------------------------------------------------------------------
(***************************************************************************)
(* Where the session and its caller are, and the ends of the rounds        *)
(***************************************************************************)
\* The caller and the session stay where they are.
Still ==
  /\ UNCHANGED caller
  /\ session'.current = session.current
  /\ session'.state = session.state \/ (session.current = 0 /\ session'.state = "dirty")
  /\ failers' \subseteq 1..caller.round
  /\ \A q \in RoundIds : q > caller.round => endedBy'[q] = {}

LEMMA StillSame ==
  ASSUME TypeOK, Placed, Ended, Answerable, Still, \A q \in RoundIds : SameRound(q)
  PROVE  Placed' /\ Ended' /\ Answerable'
<1>1. caller.round \in 0..MaxRounds
  BY Records DEF CallerRecord
<1>2. Placed'
  BY <1>1 DEF Placed, Still, SameRound
<1>3. Ended'
  <2>1. caller.pc = "complete" => caller.round \in RoundIds
    BY CompleteFacts DEF Within
  <2> QED BY <2>1 DEF Ended, Still, SameRound
<1>4. Answerable'
  <2>1. session.state = "waiting" => caller.round \in RoundIds
    BY <1>1, Bounds DEF Answerable, RoundIds
  <2>2. caller.pc = "feed" /\ caller.feeds = "results" => caller.round - 1 \in RoundIds
    BY <1>1, Bounds DEF Answerable, RoundIds
  <2> QED BY <2>1, <2>2 DEF Answerable, Placed, Still, SameRound
<1> QED BY <1>2, <1>3, <1>4

\* One of the rounds that have been opened is given its end.
LEMMA StillGiven ==
  ASSUME TypeOK, Placed, Ended, Answerable, Still,
         NEW r \in RoundIds, r <= caller.round, NEW end \in Ends, Given(r, end)
  PROVE  Placed' /\ Ended' /\ Answerable'
<1>1. /\ caller.round \in 0..MaxRounds /\ rounds \in [RoundIds -> RoundRecord]
  BY Records DEF CallerRecord
<1>2. \A q \in RoundIds : q # r => SameRound(q)
  BY DEF Given
<1>3. rounds'[r].finished /\ (rounds[r].calls # 0 => rounds'[r].calls # 0)
  BY DEF Given
<1>4. rounds[r].done \in Seq(Ends) /\ Len(rounds[r].done) <= 1 /\ (rounds[r].done # <<>> => rounds[r].finished)
  BY <1>1 DEF Ended, RoundRecord
<1>5. \A q \in RoundIds : q > caller.round => q # r
  BY <1>1, Bounds DEF RoundIds
<1>6. Placed'
  BY <1>2, <1>5 DEF Placed, Still, SameRound
<1>7. Ended'
  <2>1. CASE rounds[r].finished
    <3>1. /\ rounds'[r].done = rounds[r].done
          /\ rounds[r].done = <<"tool_calls">> => rounds'[r].calls # 0
      BY <1>3, <2>1 DEF Given, Ended
    <3>2. ASSUME NEW q \in RoundIds
          PROVE  /\ Len(rounds'[q].done) <= 1
                 /\ rounds'[q].done # <<>> => rounds'[q].finished
                 /\ rounds'[q].done = <<"tool_calls">> => rounds'[q].calls # 0
      BY <1>2, <1>3, <1>4, <3>1 DEF Ended, SameRound
    <3>3. caller.pc = "complete" => rounds'[caller.round].done # <<>>
      <4>1. caller.pc = "complete" => caller.round \in RoundIds
        BY CompleteFacts DEF Within
      <4> QED BY <1>2, <3>1, <4>1 DEF Ended, SameRound
    <3> QED BY <3>2, <3>3 DEF Ended, Still
  <2>2. CASE ~rounds[r].finished
    <3>1. rounds[r].done = <<>>
      BY <1>4, <2>2
    <3>2. rounds'[r].done = Append(<<>>, end)
      BY <2>2, <3>1 DEF Given
    <3>3. Append(<<>>, end) = <<end>>
      OBVIOUS
    <3>4. Len(<<end>>) = 1 /\ <<end>> # <<>> /\ (<<end>> = <<"tool_calls">> => end = "tool_calls")
      OBVIOUS
    <3>5. end = "tool_calls" => rounds'[r].calls # 0
      BY DEF Given
    <3>6. ASSUME NEW q \in RoundIds
          PROVE  /\ Len(rounds'[q].done) <= 1
                 /\ rounds'[q].done # <<>> => rounds'[q].finished
                 /\ rounds'[q].done = <<"tool_calls">> => rounds'[q].calls # 0
      <4>1. CASE q = r
        <5>1. rounds'[q].done = <<end>> /\ rounds'[q].finished
          BY <1>3, <3>2, <3>3, <4>1
        <5>2. Len(rounds'[q].done) = 1
          BY <5>1
        <5> QED BY <3>4, <3>5, <4>1, <5>1, <5>2
      <4>2. CASE q # r
        BY <1>2, <4>2 DEF Ended, SameRound
      <4> QED BY <4>1, <4>2
    <3>7. caller.pc = "complete" => rounds'[caller.round].done # <<>>
      <4>1. caller.pc = "complete" => caller.round \in RoundIds
        BY CompleteFacts DEF Within
      <4> QED BY <1>2, <3>2, <3>3, <3>4, <4>1 DEF Ended, SameRound
    <3> QED BY <3>6, <3>7 DEF Ended, Still
  <2> QED BY <2>1, <2>2
<1>8. Answerable'
  <2>1. session.state = "waiting" => caller.round \in RoundIds
    BY <1>1, Bounds DEF Answerable, RoundIds
  <2>2. caller.pc = "feed" /\ caller.feeds = "results" => caller.round - 1 \in RoundIds
    BY <1>1, Bounds DEF Answerable, RoundIds
  <2>3. \A q \in RoundIds : rounds[q].calls # 0 => rounds'[q].calls # 0
    BY <1>2, <1>3 DEF SameRound
  <2> QED BY <2>1, <2>2, <2>3 DEF Answerable, Placed, Still
<1> QED BY <1>6, <1>7, <1>8

\* The caller goes on, and nothing else happens to the session and its rounds.
LEMMA CallerMovesRounds ==
  ASSUME TypeOK, Placed, Ended, Answerable, Windowed, PlainMoves \/ Sends
  PROVE  Placed' /\ Ended' /\ Answerable'
<1>1. /\ UNCHANGED <<session, rounds, failers, endedBy>> /\ caller'.round = caller.round
      /\ caller \in CallerRecord
  BY PlainMoveFacts, SendsFacts, Records DEF SentFacts, history
<1>2. ASSUME NEW pc \in CallerPcs, Step(pc)
      PROVE  caller'.pc = pc /\ caller'.isNew = caller.isNew /\ caller'.feeds = caller.feeds
  BY <1>1, <1>2, StepFacts
<1>3. ASSUME caller'.isNew = caller.isNew, caller'.feeds = caller.feeds,
             caller'.pc \in Between => caller.pc \in Between, caller'.pc \in Within => caller.pc \in Within,
             caller'.pc = "out" => caller.pc = "out",
             caller'.pc = "complete" => rounds[caller.round].done # <<>>,
             caller'.pc = "open" /\ ~caller.isNew => caller.pc = "open", caller'.pc = "feed" => caller.pc = "feed"
      PROVE  Placed' /\ Ended' /\ Answerable'
  <2>1. Placed'
    BY <1>1, <1>3 DEF Placed
  <2>2. Ended'
    BY <1>1, <1>3 DEF Ended
  <2>3. Answerable'
    BY <1>1, <1>3 DEF Answerable
  <2> QED BY <2>1, <2>2, <2>3
<1>4. CASE DaemonCloses
  <2>1. UNCHANGED caller
    BY <1>4 DEF DaemonCloses
  <2> QED BY <1>1, <2>1 DEF Placed, Ended, Answerable
<1>5. ASSUME NEW feeds \in {"results", "prompt", "nothing"}, Extend(feeds)
      PROVE  Placed' /\ Ended' /\ Answerable'
  <2>1. /\ caller.pc = "out" /\ session.state # "dirty" /\ (feeds = "results" <=> session.state = "waiting")
        /\ caller' = [caller EXCEPT !.pc = "open", !.isNew = FALSE, !.feeds = feeds]
    BY <1>5 DEF Extend
  <2>2. caller'.pc = "open" /\ ~caller'.isNew /\ caller'.feeds = feeds
    BY <1>1, <2>1 DEF CallerRecord
  <2>3. session.current = 0 /\ session.state # "starting"
    BY <2>1 DEF Placed, Between
  <2>4. Placed'
    BY <1>1, <2>2, <2>3 DEF Placed, Between, Within
  <2>5. Ended'
    BY <1>1, <2>2 DEF Ended
  <2>6. Answerable'
    BY <1>1, <2>1, <2>2 DEF Answerable
  <2> QED BY <2>4, <2>5, <2>6
<1>6. ASSUME NEW pc \in CallerPcs, Step(pc),
             pc \in Between => caller.pc \in Between, pc \in Within => caller.pc \in Within,
             pc \notin {"out", "complete", "feed"}, pc = "open" => caller.isNew
      PROVE  Placed' /\ Ended' /\ Answerable'
  <2>1. pc # "out" /\ pc # "complete" /\ pc # "feed"
    BY <1>6
  <2> QED BY <1>2, <1>3, <1>6, <2>1
<1>7. CASE ProcessStarts \/ ProcessFails
  <2>1. caller.pc = "start" /\ (Step("seed") \/ Step("given up")) /\ "seed" \in CallerPcs /\ "given up" \in CallerPcs
    BY <1>7 DEF ProcessStarts, ProcessFails, CallerPcs
  <2> QED BY <1>6, <2>1 DEF Between, Within
<1>8. CASE Seeds \/ Seeded
  <2>1. /\ caller.pc \in {"seed", "seeding"} /\ (Step("seeding") \/ Step("open"))
        /\ "seeding" \in CallerPcs /\ "open" \in CallerPcs
    BY <1>8 DEF Seeds, Seeded, CallerPcs
  <2>2. caller.isNew
    BY <2>1 DEF Windowed, Quiet, Armed
  <2> QED BY <1>6, <2>1, <2>2 DEF Between, Within
<1>9. CASE Submit
  <2>1. caller.pc = "submit" /\ (Step("rebuild") \/ Step("fail")) /\ "rebuild" \in CallerPcs /\ "fail" \in CallerPcs
    BY <1>9 DEF Submit, CallerPcs
  <2> QED BY <1>6, <2>1 DEF Between, Within
<1>10. CASE RebuildDone \/ FeedPrompt \/ FeedNothing \/ DeliverResults
  <2>1. /\ caller.pc \in {"rebuild", "feed"} /\ (Step("await") \/ Step("abort"))
        /\ "await" \in CallerPcs /\ "abort" \in CallerPcs
    BY <1>10 DEF RebuildDone, FeedPrompt, FeedNothing, DeliverResults, CallerPcs
  <2> QED BY <1>6, <2>1 DEF Between, Within
<1>11. CASE FactoryFails \/ FactoryFailed \/ ManagerCloses
  <2>1. (Step("failing") \/ Step("given up")) /\ "failing" \in CallerPcs /\ "given up" \in CallerPcs
    BY <1>11 DEF FactoryFails, FactoryFailed, ManagerCloses, CallerPcs
  <2> QED BY <1>6, <2>1 DEF Between, Within
<1>12. CASE ProcessExited \/ Deadline
  <2>1. Step(IF caller.pc = "await" THEN "abort" ELSE "fail") /\ "abort" \in CallerPcs /\ "fail" \in CallerPcs
    BY <1>12 DEF ProcessExited, Deadline, GivesUp, CallerPcs
  <2>2. (caller.pc = "await" /\ Step("abort")) \/ Step("fail")
    BY <2>1
  <2> QED BY <1>6, <2>1, <2>2 DEF Between, Within
<1>13. CASE RoundDone
  <2>1. caller.pc = "await" /\ rounds[caller.round].done # <<>> /\ Step("complete") /\ "complete" \in CallerPcs
    BY <1>13 DEF RoundDone, CallerPcs
  <2>2. caller'.pc = "complete" /\ caller'.isNew = caller.isNew /\ caller'.feeds = caller.feeds
    BY <1>2, <2>1
  <2> QED BY <1>3, <2>1, <2>2 DEF Between, Within
<1> QED BY <1>4, <1>5, <1>7, <1>8, <1>9, <1>10, <1>11, <1>12, <1>13 DEF PlainMoves, Sends

\* The next round is opened, or refused, with the session as it was left.
LEMMA OpenRounds ==
  ASSUME TypeOK, Placed, Ended, Answerable, OpenRound
  PROVE  Placed' /\ Ended' /\ Answerable'
<1>1. OpenFrame /\ (OpenRefused \/ Opened) /\ caller.round \in 0..MaxRounds
  BY OpenRoundFacts, Records DEF CallerRecord
<1>2. /\ caller.pc = "open" /\ caller'.isNew = caller.isNew /\ caller'.feeds = caller.feeds
      /\ failers' = failers /\ endedBy' = endedBy /\ \A q \in RoundIds : SameRound(q)
  BY <1>1 DEF OpenFrame
<1>3. session.current = 0
  BY <1>2 DEF Placed, Between
<1>4. CASE OpenRefused
  <2>1. /\ session' = session /\ caller'.round = caller.round
        /\ caller'.pc = "fail" \/ (~caller.isNew /\ caller'.pc = "out")
    BY <1>4 DEF OpenRefused
  <2>2. Placed'
    BY <1>2, <1>3, <2>1 DEF Placed, Between, Within, SameRound
  <2>3. Ended'
    BY <1>2, <2>1 DEF Ended, SameRound
  <2>4. session.state = "waiting" => caller.round \in RoundIds
    BY <1>1, Bounds DEF Answerable, RoundIds
  <2>5. Answerable'
    BY <1>2, <2>1, <2>4 DEF Answerable, SameRound
  <2> QED BY <2>2, <2>3, <2>5
<1>5. CASE Opened
  <2>1. /\ caller'.round = caller.round + 1 /\ caller'.round \in RoundIds /\ session'.current = caller'.round
        /\ session'.state = "running" /\ session.state # "dirty"
        /\ (caller.isNew /\ caller'.pc = "arm") \/ (~caller.isNew /\ caller'.pc = "feed")
        /\ caller.feeds = "results" => caller.round \in RoundIds /\ session.state = "waiting"
    BY <1>5 DEF Opened
  <2>2. caller.round \in Nat /\ caller.round + 1 - 1 = caller.round /\ caller'.round # 0
    BY <1>1, <2>1, Bounds
  <2>3. /\ 1..caller.round \subseteq 1..caller'.round
        /\ \A q \in RoundIds : q > caller'.round => q > caller.round
    BY <2>1, <2>2, Bounds DEF RoundIds
  <2>4. Placed'
    BY <1>2, <2>1, <2>2, <2>3 DEF Placed, Between, Within, SameRound
  <2>5. Ended'
    BY <1>2, <2>1 DEF Ended, SameRound
  <2>6. caller.feeds = "results" => caller'.round > 1 /\ rounds'[caller.round].calls # 0
    <3>1. caller.feeds = "results" => caller.round # 0 /\ rounds[caller.round].calls # 0
      BY <2>1 DEF Answerable
    <3> QED BY <1>2, <2>1, <2>2, <3>1 DEF SameRound
  <2>7. Answerable'
    BY <1>2, <2>1, <2>2, <2>6 DEF Answerable
  <2> QED BY <2>4, <2>5, <2>7
<1> QED BY <1>1, <1>4, <1>5

\* A round that is given up leaves the session dirty, and one that is returned where its end says.
LEMMA LeaveRounds ==
  ASSUME TypeOK, Placed, Ended, Answerable, Abort \/ CompleteRound
  PROVE  Placed' /\ Ended' /\ Answerable'
<1>1. /\ LeaveFrame /\ (GivenUp \/ Returned) /\ caller.round \in 0..MaxRounds
      /\ rounds \in [RoundIds -> RoundRecord]
  BY LeaveFacts, Records DEF CallerRecord
<1>2. /\ caller'.round = caller.round /\ caller'.isNew = caller.isNew /\ caller'.feeds = caller.feeds
      /\ failers' = failers /\ endedBy' = endedBy /\ session'.current = 0
      /\ rounds'[caller.round].done = rounds[caller.round].done
      /\ rounds'[caller.round].calls = rounds[caller.round].calls
      /\ (rounds[caller.round].finished => rounds'[caller.round].finished)
      /\ \A q \in RoundIds : q # caller.round => rounds'[q] = rounds[q]
  BY <1>1 DEF LeaveFrame
<1>3. caller.round \in RoundIds
  BY CompleteFacts DEF Abort, CompleteRound, Within
<1>4. /\ caller'.pc \in {"fail", "out"} /\ session'.state \in {"dirty", "waiting", "idle"}
      /\ caller'.pc = "out" \/ session'.state = "dirty"
  BY <1>1 DEF GivenUp, Returned, StateAfter
<1>5. Placed'
  <2>1. \A q \in RoundIds : q > caller.round => q # caller.round
    BY <1>1, Bounds
  <2> QED BY <1>2, <1>4, <2>1 DEF Placed, Between, Within
<1>6. Ended'
  <2>1. ASSUME NEW q \in RoundIds
        PROVE  /\ rounds'[q].done = rounds[q].done /\ rounds'[q].calls = rounds[q].calls
               /\ (rounds[q].finished => rounds'[q].finished)
    BY <1>2
  <2>2. caller'.pc # "complete"
    BY <1>4
  <2> QED BY <2>1, <2>2 DEF Ended
<1>7. Answerable'
  <2>1. session'.state = "waiting" => rounds[caller.round].calls # 0
    <3>1. ASSUME session'.state = "waiting"
          PROVE  caller.pc = "complete" /\ Head(rounds[caller.round].done) = "tool_calls"
      BY <1>1, <3>1 DEF GivenUp, Returned, StateAfter
    <3>2. caller.pc = "complete" => rounds[caller.round].done = <<Head(rounds[caller.round].done)>>
      BY CompleteFacts DEF Within
    <3> QED BY <1>3, <3>1, <3>2 DEF Ended
  <2>2. caller.round # 0
    BY <1>3, Bounds
  <2>3. caller'.pc # "open" /\ caller'.pc # "feed"
    BY <1>4
  <2> QED BY <1>2, <2>1, <2>2, <2>3 DEF Answerable
<1> QED BY <1>5, <1>6, <1>7

\* The session and its rounds are where the caller, the handlers and the others leave them.
LEMMA RoundsKept ==
  ASSUME TypeOK, Placed, Ended, Answerable, Reported, Counted, Windowed, Next
  PROVE  Placed' /\ Ended' /\ Answerable'
<1>1. caller.round \in 0..MaxRounds /\ failers \subseteq 1..caller.round
  BY Records DEF CallerRecord, Placed
<1>2. CASE Handlers
  <2>1. HandlerOutcome /\ UNCHANGED caller
    BY <1>2, HandlerFacts DEF HandlerOutcome, HandlerFrame
  <2>2. ASSUME InRound
        PROVE  session.current \in RoundIds /\ session.current \in 1..caller.round /\ session.current <= caller.round
    <3>1. session.current \in RoundIds /\ session.current = caller.round
      BY <2>2, InRoundFacts
    <3>2. \A n \in RoundIds : n \in 1..n /\ n <= n
      BY DEF RoundIds
    <3> QED BY <3>1, <3>2
  <2>3. failers' \subseteq 1..caller.round
    BY <1>1, <2>1, <2>2 DEF HandlerOutcome
  <2>4. ASSUME NEW q \in RoundIds, q > caller.round
        PROVE  endedBy'[q] = {}
    <3>1. endedBy[q] = {}
      BY <2>4 DEF Placed
    <3>2. InRound => q # session.current
      <4>1. \A n \in RoundIds : ~(n > n)
        BY DEF RoundIds
      <4> QED BY <2>4, <4>1, InRoundFacts
    <3>3. endedBy' = endedBy \/ (InRound /\ Noted(session.current))
      BY <2>1 DEF HandlerOutcome
    <3> QED BY <3>1, <3>2, <3>3 DEF Noted
  <2>5. Still
    BY <2>1, <2>3, <2>4 DEF Still, HandlerOutcome
  <2>6. \/ \A q \in RoundIds : SameRound(q)
        \/ InRound /\ \E end \in Ends : Given(session.current, end)
    BY <2>1 DEF HandlerOutcome
  <2> QED BY <2>2, <2>5, <2>6, StillSame, StillGiven
<1>3. CASE OpenRound
  BY <1>3, OpenRounds
<1>4. CASE Abort \/ CompleteRound
  BY <1>4, LeaveRounds
<1>5. CASE ArmReplay
  <2>1. /\ UNCHANGED <<rounds, failers, endedBy>> /\ caller.pc = "arm" /\ caller'.pc = "submit"
        /\ caller'.round = caller.round /\ caller'.isNew = caller.isNew /\ caller'.feeds = caller.feeds
        /\ session'.state = session.state /\ session'.current = session.current
    BY <1>5, ArmFacts DEF history
  <2>2. Placed'
    BY <2>1 DEF Placed, Between, Within
  <2> QED BY <2>1, <2>2 DEF Ended, Answerable
<1>6. CASE TakeCarried \/ CloseTakes
  <2>1. /\ UNCHANGED <<rounds, caller, failers, endedBy>>
        /\ session'.state = session.state /\ session'.current = session.current
    BY <1>6, CarryFacts
  <2> QED BY <2>1 DEF Placed, Ended, Answerable
<1>7. CASE CloseBegins \/ \E r \in RoundIds : FailTurn(r)
  <2>1. /\ UNCHANGED <<caller, endedBy>> /\ failers' \subseteq failers
        /\ session'.state = session.state /\ session'.current = session.current
        /\ UNCHANGED rounds \/ \E r \in RoundIds, end \in Errors : r <= caller.round /\ rounds' = Finish(r, end)
    BY <1>7, OutsideEndFacts DEF SameSession, history
  <2>2. Still
    BY <1>1, <2>1 DEF Still, Placed
  <2>3. CASE UNCHANGED rounds
    BY <2>2, <2>3, StillSame DEF SameRound
  <2>4. ASSUME NEW r \in RoundIds, NEW end \in Errors, r <= caller.round, rounds' = Finish(r, end)
        PROVE  Placed' /\ Ended' /\ Answerable'
    <3>1. end \in Ends /\ end # "tool_calls"
      BY DEF Ends, Errors
    <3>2. Given(r, end)
      BY <2>4, <3>1, Records, FinishGiven
    <3> QED BY <2>2, <2>4, <3>1, <3>2, StillGiven
  <2> QED BY <2>1, <2>3, <2>4
<1>8. CASE PlainMoves \/ Sends
  BY <1>8, CallerMovesRounds
<1>9. CASE EngineSteps \/ Dies \/ CloseKills
  <2>1. UNCHANGED <<session, rounds, caller, failers, endedBy>>
    BY <1>9, WithinTurnFacts, RunsCommandFacts, TurnStartsFacts, TurnStraysFacts, KilledFacts
       DEF EngineSteps, Outside, history
  <2> QED BY <2>1 DEF Placed, Ended, Answerable
<1> QED BY <1>2, <1>3, <1>4, <1>5, <1>6, <1>7, <1>8, <1>9, Kinds

-----------------------------------------------------------------------------
(***************************************************************************)
(* What is posted, and what is reported once                               *)
(***************************************************************************)
\* What is sent to the process leaves it where it is.
SentTo ==
  /\ cli'.pc = cli.pc /\ cli'.turn = cli.turn /\ cli'.step = cli.step /\ cli'.prompts = cli.prompts
  /\ cli'.strayed = cli.strayed /\ cli'.seeded = cli.seeded
  /\ cli'.up = cli.up \/ caller.pc = "start"
  /\ \/ commands' = commands
     \/ caller.pc = "seed" /\ commands' = Append(commands, [kind |-> "seed", round |-> 0])
     \/ /\ caller.pc = "submit" \/ (caller.pc = "feed" /\ caller.feeds = "prompt")
        /\ SendPrompt

LEMMA SentToFacts ==
  ASSUME TypeOK, Sends
  PROVE  SentTo
<1>1. cli \in CliRecord
  BY Records
<1>2. CASE ProcessStarts
  BY <1>1, <1>2 DEF ProcessStarts, SentTo, CliRecord
<1>3. CASE Seeds
  BY <1>3 DEF Seeds, SentTo
<1>4. CASE Submit \/ FeedPrompt \/ DeliverResults
  BY <1>4 DEF Submit, FeedPrompt, DeliverResults, SentTo
<1> QED BY <1>2, <1>3, <1>4 DEF Sends

\* Who leaves the process and its post alone.
LEMMA Elsewhere ==
  ASSUME TypeOK, Placed, Ended, Answerable,
         \/ PlainMoves \/ OpenRound \/ ArmReplay \/ Abort \/ CompleteRound
         \/ TakeCarried \/ CloseTakes \/ CloseBegins \/ \E r \in RoundIds : FailTurn(r)
  PROVE  UNCHANGED <<commands, cli, post, used, replayed, endedBy>>
BY PlainMoveFacts, OpenRoundFacts, ArmFacts, LeaveFacts, CarryFacts, OutsideEndFacts
   DEF SentFacts, OpenFrame, LeaveFrame, history

LEMMA ReportedKept ==
  ASSUME TypeOK, Placed, Ended, Answerable, Reported, Counted, Next
  PROVE  Reported'
<1>1. NoPost.kind = "none"
  BY DEF NoPost
<1>2. CASE Handlers
  <2>1. post' = NoPost /\ UNCHANGED commands
    BY <1>2, HandlerFacts DEF HandlerOutcome, HandlerFrame
  <2> QED BY <1>1, <2>1 DEF Reported
<1>3. CASE Sends
  <2>1. SentTo /\ UNCHANGED post
    BY <1>3, SentToFacts, SendsFacts DEF SentFacts
  <2>2. \A i \in 1..Len(commands') : commands'[i].kind = "submit" => commands'[i].round # 0
    <3>1. CASE commands' = commands
      BY <3>1 DEF Reported
    <3>2. CASE caller.pc = "seed" /\ commands' = Append(commands, [kind |-> "seed", round |-> 0])
      <4>1. PICK c : c = [kind |-> "seed", round |-> 0]
        OBVIOUS
      <4>2. c \in CommandRecord /\ c.kind # "submit" /\ commands \in Seq(CommandRecord)
        BY <4>1, Records, Bounds DEF CommandRecord
      <4>3. /\ Len(commands') = Len(commands) + 1 /\ commands'[Len(commands) + 1] = c
            /\ \A i \in 1..Len(commands) : commands'[i] = commands[i]
        BY <3>2, <4>1, <4>2, AppendProperties
      <4>4. \A i \in 1..Len(commands') : i \in 1..Len(commands) \/ i = Len(commands) + 1
        BY <4>2, <4>3
      <4> QED BY <4>2, <4>3, <4>4 DEF Reported
    <3>3. CASE caller.pc \in {"submit", "feed"} /\ SendPrompt
      <4>1. /\ Len(commands') = Len(commands) + 1 /\ commands'[Len(commands) + 1].round = caller.round
            /\ \A i \in 1..Len(commands) : commands'[i] = commands[i]
        BY <3>3, SendFacts
      <4>2. caller.round # 0
        BY <3>3, CompleteFacts, Bounds DEF Within
      <4>3. commands \in Seq(CommandRecord)
        BY Records
      <4>4. \A i \in 1..Len(commands') : i \in 1..Len(commands) \/ i = Len(commands) + 1
        BY <4>1, <4>3
      <4> QED BY <4>1, <4>2, <4>4 DEF Reported
    <3> QED BY <2>1, <3>1, <3>2, <3>3 DEF SentTo
  <2> QED BY <2>1, <2>2 DEF Reported, SentTo
<1>4. CASE EngineSteps \/ Dies \/ CloseKills
  BY <1>4, EngineReported
<1>5. CASE UNCHANGED <<commands, cli, post>>
  BY <1>5 DEF Reported
<1> QED BY <1>2, <1>3, <1>4, <1>5, Kinds, Elsewhere

LEMMA CountedKept ==
  ASSUME TypeOK, Placed, Ended, Answerable, Reported, Counted, Next
  PROVE  Counted'
<1>1. NoPost.kind = "none"
  BY DEF NoPost
<1>2. cli.step \in Nat /\ used \subseteq Nat
  BY Records, Bounds DEF CliRecord, Steps, HistoryTypes
<1>3. CASE Handlers
  <2>1. post' = NoPost
    BY <1>3, HandlerFacts DEF HandlerOutcome, HandlerFrame
  <2>2. CASE OnStepStart
    <3>1. /\ used' = used
          /\ \/ cli'.step = cli.step /\ cli'.pc # "real"
             \/ cli'.step = cli.step + 1 /\ cli'.pc = "real"
      BY <2>2, StepStartFacts DEF StepGiven, StepRefused, StepLet
    <3>2. CASE cli'.step = cli.step /\ cli'.pc # "real"
      BY <1>1, <2>1, <3>1, <3>2 DEF Counted
    <3>3. CASE cli'.step = cli.step + 1
      <4>1. \A s \in used' : s <= cli'.step /\ s # cli'.step
        BY <1>2, <3>1, <3>3 DEF Counted
      <4>2. cli'.step # 0
        BY <1>2, <3>3
      <4> QED BY <4>1, <4>2 DEF Counted
    <3> QED BY <3>1, <3>2, <3>3
  <2>3. CASE OnStepEnd
    <3>1. used' = used \cup {cli.step} /\ cli'.step = cli.step /\ cli'.pc # "real"
      BY <2>3, StepEndFacts
    <3>2. \A s \in used' : s <= cli'.step
      BY <1>2, <3>1 DEF Counted
    <3> QED BY <1>1, <2>1, <3>1, <3>2 DEF Counted
  <2>4. CASE OnTurnComplete \/ OnEvent
    <3>1. used' = used /\ cli'.step = cli.step /\ (cli'.pc = "real" => cli.pc = "real")
      BY <2>4, TurnCompleteFacts, EventFacts
    <3> QED BY <1>1, <2>1, <3>1 DEF Counted
  <2> QED BY <1>3, <2>2, <2>3, <2>4 DEF Handlers
<1>4. CASE Sends
  <2>1. SentTo /\ UNCHANGED <<post, used>>
    BY <1>4, SentToFacts, SendsFacts DEF SentFacts, history
  <2> QED BY <2>1 DEF Counted, SentTo
<1>5. CASE EngineSteps \/ Dies \/ CloseKills
  BY <1>5, EngineCounted
<1>6. CASE UNCHANGED <<cli, post, used>>
  BY <1>6 DEF Counted
<1> QED BY <1>3, <1>4, <1>5, <1>6, Kinds, Elsewhere

-----------------------------------------------------------------------------
(***************************************************************************)
(* What a step used is in one place                                        *)
(***************************************************************************)
\* The counts are counts.
LEMMA Counts ==
  ASSUME TypeOK, NEW s \in Steps
  PROVE  Kept(s) \in Nat /\ \A r \in RoundIds : rounds[r].usage[s] \in Nat
<1>1. session.carried \in [Steps -> Nat] /\ billed \in [Steps -> Nat] /\ dropped \in [Steps -> Nat]
  BY Records DEF SessionRecord, HistoryTypes
<1>2. session.carried[s] \in Nat /\ billed[s] \in Nat /\ dropped[s] \in Nat
  BY <1>1
<1>3. \A r \in RoundIds : rounds[r].usage \in [Steps -> Nat]
  BY Records DEF RoundRecord
<1> QED BY <1>2, <1>3 DEF Kept

\* Nothing was reported, and the usage stays where it is or goes from the carry to its bill.
LEMMA UsageStays ==
  ASSUME NEW s \in Steps, Conserved(s), used' = used, Kept(s)' = Kept(s),
         \A r \in RoundIds : rounds'[r].usage = rounds[r].usage
  PROVE  Conserved(s)'
BY Zenon DEF Conserved

\* A round gives what it holds away.
LEMMA UsageLeaves ==
  ASSUME TypeOK, NEW s \in Steps, Conserved(s), used' = used, NEW r \in RoundIds,
         Kept(s)' = Kept(s) + rounds[r].usage[s], rounds'[r].usage = Nothing,
         \A q \in RoundIds : q # r => rounds'[q].usage = rounds[q].usage
  PROVE  Conserved(s)'
<1>1. Kept(s) \in Nat /\ \A q \in RoundIds : rounds[q].usage[s] \in Nat
  BY Counts
<1>2. rounds'[r].usage[s] = 0
  BY DEF Nothing
<1>3. CASE rounds[r].usage[s] = 0
  <2>1. Kept(s)' = Kept(s)
    BY <1>1, <1>3
  <2>2. \A q \in RoundIds : rounds'[q].usage[s] = rounds[q].usage[s]
    BY <1>2, <1>3
  <2> QED BY <2>1, <2>2 DEF Conserved
<1>4. CASE rounds[r].usage[s] # 0
  <2>1. Kept(s) = 0 /\ rounds[r].usage[s] <= 1 /\ s \in used
    BY <1>4 DEF Conserved
  <2>2. Kept(s)' = 1
    BY <1>1, <1>4, <2>1
  <2>3. \A q \in RoundIds : rounds'[q].usage[s] = 0
    BY <1>2, <1>4 DEF Conserved
  <2> QED BY <2>1, <2>2, <2>3 DEF Conserved
<1> QED BY <1>3, <1>4

\* A step reports: its usage goes to the carry, ...
LEMMA UsageCarried ==
  ASSUME TypeOK, NEW s \in Steps, Conserved(s), NEW step \in Steps, step \notin used,
         used' = used \cup {step}, Kept(s)' = Kept(s) + Once(step)[s],
         \A r \in RoundIds : rounds'[r].usage = rounds[r].usage
  PROVE  Conserved(s)'
<1>1. Kept(s) \in Nat /\ \A q \in RoundIds : rounds[q].usage[s] \in Nat
  BY Counts
<1>2. CASE s # step
  <2>1. Once(step)[s] = 0
    BY <1>2, OnceFacts
  <2>2. Kept(s)' = Kept(s) /\ (s \in used' <=> s \in used)
    BY <1>1, <1>2, <2>1
  <2> QED BY <2>2 DEF Conserved
<1>3. CASE s = step
  <2>1. Once(step)[s] = 1
    BY <1>3, OnceFacts
  <2>2. Kept(s) = 0 /\ \A q \in RoundIds : rounds[q].usage[s] = 0
    BY <1>1, <1>3 DEF Conserved
  <2>3. Kept(s)' = 1 /\ s \in used'
    BY <1>3, <2>1, <2>2
  <2> QED BY <2>2, <2>3 DEF Conserved
<1> QED BY <1>2, <1>3

\* ... or to the round that is open.
LEMMA UsageEntered ==
  ASSUME TypeOK, NEW s \in Steps, Conserved(s), NEW step \in Steps, step \notin used,
         used' = used \cup {step}, Kept(s)' = Kept(s), NEW r \in RoundIds,
         rounds'[r].usage = Plus(rounds[r].usage, Once(step)),
         \A q \in RoundIds : q # r => rounds'[q].usage = rounds[q].usage
  PROVE  Conserved(s)'
<1>1. Kept(s) \in Nat /\ \A q \in RoundIds : rounds[q].usage[s] \in Nat
  BY Counts
<1>2. rounds'[r].usage[s] = rounds[r].usage[s] + Once(step)[s]
  BY DEF Plus
<1>3. CASE s # step
  <2>1. Once(step)[s] = 0
    BY <1>3, OnceFacts
  <2>2. \A q \in RoundIds : rounds'[q].usage[s] = rounds[q].usage[s]
    BY <1>1, <1>2, <2>1
  <2>3. s \in used' <=> s \in used
    BY <1>3
  <2> QED BY <2>2, <2>3 DEF Conserved
<1>4. CASE s = step
  <2>1. Once(step)[s] = 1
    BY <1>4, OnceFacts
  <2>2. Kept(s) = 0 /\ \A q \in RoundIds : rounds[q].usage[s] = 0
    BY <1>1, <1>4 DEF Conserved
  <2>3. s \in used'
    BY <1>4
  <2>4. rounds'[r].usage[s] = 1 /\ \A q \in RoundIds : q # r => rounds'[q].usage[s] = 0
    BY <1>2, <2>1, <2>2
  <2>5. 1 # 0 /\ 1 <= 1 /\ 0 <= 1 /\ 0 # 1
    OBVIOUS
  <2>6. \A q \in RoundIds : rounds'[q].usage[s] <= 1
    BY <2>4, <2>5
  <2>7. \A q \in RoundIds : rounds'[q].usage[s] # 0 => q = r
    BY <2>4
  <2> QED BY <2>2, <2>3, <2>4, <2>5, <2>6, <2>7 DEF Conserved
<1> QED BY <1>3, <1>4

LEMMA ConservedKept ==
  ASSUME TypeOK, Placed, Ended, Answerable, Reported, Counted, Next, NEW s \in Steps, Conserved(s)
  PROVE  Conserved(s)'
<1>1. /\ rounds \in [RoundIds -> RoundRecord] /\ session.carried \in [Steps -> Nat] /\ billed \in [Steps -> Nat]
      /\ dropped \in [Steps -> Nat]
  BY Records DEF SessionRecord, HistoryTypes
<1>2. session.carried[s] \in Nat /\ billed[s] \in Nat /\ dropped[s] \in Nat
  BY <1>1
<1>3. ASSUME UNCHANGED <<used, billed, dropped>>, session'.carried = session.carried,
             \A r \in RoundIds : rounds'[r].usage = rounds[r].usage
      PROVE  Conserved(s)'
  <2>1. Kept(s)' = Kept(s)
    BY <1>3 DEF Kept
  <2> QED BY <1>3, <2>1, UsageStays
<1>4. CASE OnStepStart
  BY <1>3, <1>4, StepStartFacts
<1>5. CASE OnStepEnd
  <2>1. /\ post.step \in Steps /\ post.step \notin used /\ used' = used \cup {post.step}
        /\ UNCHANGED <<billed, dropped>>
    BY <1>5, StepEndFacts
  <2>2. CASE InRound
    <3> DEFINE r == session.current
    <3>1. /\ r \in RoundIds /\ session'.carried = session.carried
          /\ rounds'[r].usage = Plus(rounds[r].usage, Once(post.step))
          /\ \A q \in RoundIds : q # r => rounds'[q].usage = rounds[q].usage
      BY <1>5, <2>2, InRoundFacts, StepEndRound DEF ToTheRound
    <3>2. Kept(s)' = Kept(s)
      BY <2>1, <3>1 DEF Kept
    <3> QED BY <2>1, <3>1, <3>2, UsageEntered
  <2>3. CASE ~InRound
    <3>1. rounds' = rounds /\ session' = [session EXCEPT !.carried = Plus(@, Once(post.step))]
      BY <1>5, <2>3 DEF OnStepEnd
    <3>2. session'.carried = Plus(session.carried, Once(post.step))
      BY <3>1, Records DEF SessionRecord
    <3>3. Once(post.step) \in [Steps -> Nat]
      BY <2>1, OnceFacts
    <3>4. session'.carried[s] = session.carried[s] + Once(post.step)[s] /\ Once(post.step)[s] \in Nat
      BY <1>1, <3>2, <3>3, PlusFacts
    <3>5. Kept(s)' = Kept(s) + Once(post.step)[s]
      BY <1>2, <2>1, <3>4 DEF Kept
    <3> QED BY <2>1, <3>1, <3>5, UsageCarried
  <2> QED BY <2>2, <2>3
<1>6. CASE OnTurnComplete \/ OnEvent
  <2>1. /\ UNCHANGED <<used, billed, dropped>> /\ session'.carried = session.carried
        /\ \/ UNCHANGED rounds
           \/ InRound /\ \E end \in {"answer", "length", "refused", "error"} : rounds' = Finish(session.current, end)
    BY <1>6, TurnCompleteFacts, EventFacts DEF SameSession
  <2>2. \A end \in {"answer", "length", "refused", "error"} : end \in Ends
    BY DEF Ends, Errors
  <2>3. \A r \in RoundIds : rounds'[r].usage = rounds[r].usage
    BY <1>1, <2>1, <2>2, InRoundFacts, FinishFacts
  <2> QED BY <1>3, <2>1, <2>3
<1>7. CASE OpenRound
  BY <1>3, <1>7, OpenRoundFacts DEF OpenFrame
<1>8. CASE ArmReplay
  BY <1>3, <1>8, ArmFacts DEF history
<1>9. CASE Abort \/ CompleteRound
  <2> DEFINE r == caller.round
  <2>1. LeaveFrame /\ (GivenUp \/ Returned)
    BY <1>9, LeaveFacts
  <2>2. r \in RoundIds
    BY <1>9, CompleteFacts DEF Within, Abort, CompleteRound
  <2>3. /\ UNCHANGED <<used, dropped>> /\ rounds'[r].usage = Nothing
        /\ \A q \in RoundIds : q # r => rounds'[q].usage = rounds[q].usage
    BY <2>1 DEF LeaveFrame
  <2>4. rounds[r].usage \in [Steps -> Nat]
    BY <1>1, <2>2 DEF RoundRecord
  <2>5. rounds[r].usage[s] \in Nat
    BY <2>4
  <2>6. Kept(s)' = Kept(s) + rounds[r].usage[s]
    <3>1. CASE GivenUp
      <4>1. session'.carried[s] = session.carried[s] + rounds[r].usage[s] /\ billed'[s] = billed[s]
        BY <1>1, <2>4, <3>1, PlusFacts DEF GivenUp
      <4> QED BY <1>2, <2>3, <2>5, <4>1 DEF Kept
    <3>2. CASE Returned
      <4>1. billed'[s] = billed[s] + rounds[r].usage[s] /\ session'.carried[s] = session.carried[s]
        BY <1>1, <2>4, <3>2, PlusFacts DEF Returned
      <4> QED BY <1>2, <2>3, <2>5, <4>1 DEF Kept
    <3> QED BY <2>1, <3>1, <3>2
  <2> QED BY <2>2, <2>3, <2>6, UsageLeaves
<1>10. CASE TakeCarried \/ CloseTakes
  <2>1. /\ UNCHANGED <<rounds, used>>
        /\ session'.carried[s] + billed'[s] + dropped'[s] = session.carried[s] + billed[s] + dropped[s]
    BY <1>10, CarryFacts
  <2>2. Kept(s)' = Kept(s)
    BY <2>1 DEF Kept
  <2> QED BY <2>1, <2>2, UsageStays
<1>11. CASE CloseBegins \/ \E r \in RoundIds : FailTurn(r)
  <2>1. /\ UNCHANGED <<used, billed, dropped>> /\ session'.carried = session.carried
        /\ UNCHANGED rounds \/ \E r \in RoundIds, end \in Errors : rounds' = Finish(r, end)
    BY <1>11, OutsideEndFacts DEF SameSession, history
  <2>2. Errors \subseteq Ends
    BY DEF Ends
  <2>3. \A r \in RoundIds : rounds'[r].usage = rounds[r].usage
    BY <1>1, <2>1, <2>2, FinishFacts
  <2> QED BY <1>3, <2>1, <2>3
<1>12. CASE PlainMoves \/ Sends
  BY <1>3, <1>12, PlainMoveFacts, SendsFacts DEF SentFacts, history
<1>13. CASE EngineSteps \/ Dies \/ CloseKills
  <2>1. UNCHANGED <<session, rounds, used, billed, dropped>>
    BY <1>13, WithinTurnFacts, RunsCommandFacts, TurnStartsFacts, TurnStraysFacts, KilledFacts
       DEF EngineSteps, Outside, history
  <2> QED BY <1>3, <2>1
<1> QED BY <1>4, <1>5, <1>6, <1>7, <1>8, <1>9, <1>10, <1>11, <1>12, <1>13, Kinds DEF Handlers

-----------------------------------------------------------------------------
(***************************************************************************)
(* The window: queued once, given in order                                 *)
(***************************************************************************)
LEMMA PlainWindow ==
  ASSUME TypeOK, Placed, Windowed, PlainMoves
  PROVE  Windowed'
<1>1. /\ UNCHANGED <<session, commands, results, cli, post, replayed>> /\ caller \in CallerRecord
  BY PlainMoveFacts, Records DEF SentFacts, history
<1>2. ASSUME NEW pc \in CallerPcs, Step(pc)
      PROVE  caller'.pc = pc /\ caller'.isNew = caller.isNew
  BY <1>1, <1>2, StepFacts
<1>3. CASE DaemonCloses
  <2>1. UNCHANGED caller
    BY <1>3 DEF DaemonCloses
  <2> QED BY <1>1, <2>1 DEF Windowed, Quiet, Armed
<1>4. ASSUME NEW feeds \in {"results", "prompt", "nothing"}, Extend(feeds)
      PROVE  Windowed'
  <2>1. caller.pc = "out" /\ caller' = [caller EXCEPT !.pc = "open", !.isNew = FALSE, !.feeds = feeds]
    BY <1>4 DEF Extend
  <2>2. caller'.pc = "open" /\ ~caller'.isNew
    BY <1>1, <2>1 DEF CallerRecord
  <2>3. Armed
    BY <2>1 DEF Windowed, Quiet
  <2> QED BY <1>1, <2>2, <2>3 DEF Windowed, Armed
<1>5. CASE Seeded
  <2>1. caller.pc = "seeding" /\ cli.seeded /\ Step("open") /\ "open" \in CallerPcs
    BY <1>5 DEF Seeded, CallerPcs
  <2>2. Quiet
    BY <2>1 DEF Windowed, Armed
  <2>3. commands = <<>>
    <3>1. Len(commands) = 0
      BY <2>1, <2>2 DEF Quiet
    <3>2. commands \in Seq(CommandRecord)
      BY Records
    <3> QED BY <3>1, <3>2, EmptySeq
  <2>4. caller'.pc = "open" /\ caller'.isNew /\ session'.state = "starting"
    BY <1>1, <1>2, <2>1, <2>2 DEF Quiet
  <2> QED BY <1>1, <2>2, <2>3, <2>4 DEF Windowed, Quiet
<1>6. ASSUME NEW pc \in CallerPcs, Step(pc), pc \notin {"start", "seed", "seeding", "open", "arm"},
             caller.pc \in {"start", "fail", "failing", "seeding"} => pc \in {"fail", "failing", "given up"},
             caller.pc \in {"start", "fail", "failing", "seeding", "rebuild", "feed", "await", "out"}
      PROVE  Windowed'
  <2>1. caller'.pc = pc /\ caller'.isNew = caller.isNew
    BY <1>2, <1>6
  <2>2. CASE Quiet
    <3>1. pc \in {"fail", "failing", "given up"}
      BY <1>6, <2>2 DEF Quiet
    <3> QED BY <1>1, <2>1, <2>2, <3>1 DEF Windowed, Quiet
  <2>3. CASE Armed
    BY <1>1, <1>6, <2>1, <2>3 DEF Windowed, Armed
  <2> QED BY <2>2, <2>3 DEF Windowed
<1>7. {"await", "abort", "fail", "failing", "given up", "complete"} \subseteq CallerPcs
  BY DEF CallerPcs
<1>8. CASE ProcessFails \/ FactoryFails \/ FactoryFailed \/ ManagerCloses
  <2>1. /\ caller.pc \in {"start", "fail", "failing", "out"}
        /\ Step("given up") \/ Step("failing")
    BY <1>8 DEF ProcessFails, FactoryFails, FactoryFailed, ManagerCloses
  <2> QED BY <1>6, <1>7, <2>1
<1>9. CASE RebuildDone \/ FeedNothing \/ RoundDone
  <2>1. /\ caller.pc \in {"rebuild", "feed", "await"}
        /\ Step("await") \/ Step("abort") \/ Step("complete")
    BY <1>9 DEF RebuildDone, FeedNothing, RoundDone
  <2> QED BY <1>6, <1>7, <2>1
<1>10. CASE ProcessExited \/ Deadline
  <2>1. /\ caller.pc \in {"seeding", "rebuild", "await"}
        /\ (caller.pc = "await" /\ Step("abort")) \/ Step("fail")
    BY <1>10 DEF ProcessExited, Deadline, GivesUp, Waiting
  <2> QED BY <1>6, <1>7, <2>1
<1> QED BY <1>3, <1>4, <1>5, <1>8, <1>9, <1>10 DEF PlainMoves

LEMMA SendsWindow ==
  ASSUME TypeOK, Answerable, Windowed, Sends
  PROVE  Windowed'
<1>1. /\ UNCHANGED <<session, post, replayed>> /\ caller \in CallerRecord /\ SentTo
      /\ commands \in Seq(CommandRecord)
  BY SendsFacts, SentToFacts, Records DEF SentFacts, history
<1>2. ASSUME NEW pc \in CallerPcs, Step(pc)
      PROVE  caller'.pc = pc /\ caller'.isNew = caller.isNew
  BY <1>1, <1>2, StepFacts
<1>3. CASE ProcessStarts \/ Seeds
  <2>1. caller.pc \in {"start", "seed"}
    BY <1>3 DEF ProcessStarts, Seeds
  <2>2. Quiet
    BY <2>1 DEF Windowed, Armed
  <2>3. commands = <<>> /\ ~cli.seeded /\ ~cli'.seeded /\ caller.isNew /\ session'.state = "starting"
    BY <1>1, <2>1, <2>2 DEF Quiet, SentTo
  <2>4. CASE commands' = commands /\ (Step("seed") \/ Step("open"))
    <3>1. "seed" \in CallerPcs /\ "open" \in CallerPcs
      BY DEF CallerPcs
    <3>2. caller'.pc \in {"seed", "open"} /\ caller'.isNew
      BY <1>2, <2>3, <2>4, <3>1
    <3> QED BY <1>1, <2>2, <2>3, <2>4, <3>2 DEF Windowed, Quiet, SentTo
  <2>5. CASE commands' = Append(commands, [kind |-> "seed", round |-> 0]) /\ Step("seeding")
    <3>1. "seeding" \in CallerPcs
      BY DEF CallerPcs
    <3>2. caller'.pc = "seeding" /\ caller'.isNew
      BY <1>2, <2>3, <2>5, <3>1
    <3>3. PICK c : c = [kind |-> "seed", round |-> 0]
      OBVIOUS
    <3>4. c.kind = "seed" /\ commands' = Append(<<>>, c)
      BY <2>3, <2>5, <3>3
    <3>5. Len(commands') = 1 /\ \A i \in 1..Len(commands') : commands'[i] = c
      BY <3>4
    <3> QED BY <1>1, <2>2, <2>3, <3>2, <3>4, <3>5 DEF Windowed, Quiet, SentTo
  <2> QED BY <1>3, <2>4, <2>5 DEF ProcessStarts, Seeds
<1>4. CASE Submit \/ FeedPrompt \/ DeliverResults
  <2>1. /\ caller.pc \in {"submit", "feed"}
        /\ Step("rebuild") \/ Step("fail") \/ Step("await") \/ Step("abort")
    BY <1>4 DEF Submit, FeedPrompt, DeliverResults
  <2>2. Armed
    BY <2>1 DEF Windowed, Quiet
  <2>3. {"rebuild", "fail", "await", "abort"} \subseteq CallerPcs
    BY DEF CallerPcs
  <2>4. caller'.pc \in {"rebuild", "fail", "await", "abort"}
    BY <1>2, <2>1, <2>3
  <2> QED BY <1>1, <2>2, <2>4 DEF Windowed, Armed, SentTo
<1> QED BY <1>3, <1>4 DEF Sends

LEMMA ArmWindow ==
  ASSUME TypeOK, Windowed, ArmReplay
  PROVE  Windowed'
<1>1. /\ UNCHANGED <<cli, replayed>> /\ caller.pc = "arm" /\ caller'.pc = "submit"
      /\ Len(session'.replay) = Window /\ \A i \in 1..Window : session'.replay[i] = i
  BY ArmFacts DEF history
<1>2. Quiet
  BY <1>1 DEF Windowed, Armed
<1>3. replayed' = <<>> /\ cli'.step = 0
  BY <1>1, <1>2 DEF Quiet
<1>4. Len(<<>>) = 0 /\ \A i \in 1..Len(session'.replay) : i = 0 + i
  BY <1>1, Bounds
<1>5. 0 + Window = Window
  BY Bounds
<1>6. /\ Len(replayed') = 0 /\ \A i \in 1..Len(replayed') : replayed'[i] = i
  BY <1>3, <1>4
<1>7. Len(replayed') + Len(session'.replay) = Window
  BY <1>1, <1>5, <1>6
<1>8. \A i \in 1..Len(session'.replay) : session'.replay[i] = Len(replayed') + i
  BY <1>1, <1>4, <1>6
<1> QED BY <1>1, <1>3, <1>6, <1>7, <1>8 DEF Windowed, Armed

LEMMA OpenWindow ==
  ASSUME TypeOK, Placed, Answerable, Windowed, OpenRound
  PROVE  Windowed'
<1>1. OpenFrame /\ (OpenRefused \/ Opened)
  BY OpenRoundFacts
<1>2. /\ UNCHANGED <<commands, cli, post, replayed>> /\ session'.replay = session.replay
      /\ caller.pc = "open" /\ caller'.isNew = caller.isNew
      /\ \/ caller.isNew /\ caller'.pc \in {"fail", "arm"}
         \/ ~caller.isNew /\ caller'.pc \in {"out", "feed"}
  BY <1>1 DEF OpenFrame, OpenRefused, Opened
<1>3. CASE Quiet
  BY <1>2, <1>3 DEF Windowed, Quiet
<1>4. CASE Armed
  BY <1>2, <1>4 DEF Windowed, Armed
<1> QED BY <1>3, <1>4 DEF Windowed

\* A step that is given the next of the window.
LEMMA GivenWindow ==
  ASSUME TypeOK, Armed, StepGiven, caller' = caller
  PROVE  Armed'
<1>1. PICK w : w = session.replay
  OBVIOUS
<1>2. w \in Seq(1..Window) /\ w # <<>> /\ replayed \in Seq(1..Window)
  BY <1>1, Records DEF StepGiven, SessionRecord, HistoryTypes
<1>3. Len(w) \in Nat \ {0}
  BY <1>2, EmptySeq
<1>4. Head(w) = w[1] /\ 1 \in 1..Len(w) /\ Head(w) \in 1..Window
  <2>1. 1 \in 1..Len(w)
    BY <1>3
  <2>2. Head(w) \in 1..Window
    BY <1>2, HeadTailProperties
  <2> QED BY <1>2, <2>1, <2>2
<1>5. Len(Tail(w)) = Len(w) - 1 /\ \A i \in 1..Len(Tail(w)) : Tail(w)[i] = w[i + 1]
  BY <1>2, HeadTailProperties
<1>6. PICK g : g = replayed
  OBVIOUS
<1>7. /\ Len(Append(g, Head(w))) = Len(g) + 1 /\ Append(g, Head(w))[Len(g) + 1] = Head(w)
      /\ \A i \in 1..Len(g) : Append(g, Head(w))[i] = g[i]
  BY <1>2, <1>4, <1>6, AppendProperties
<1>8. Len(g) \in Nat
  BY <1>2, <1>6
<1>9. /\ Len(g) + Len(w) = Window /\ \A i \in 1..Len(g) : g[i] = i
      /\ \A i \in 1..Len(w) : w[i] = Len(g) + i
  BY <1>1, <1>6 DEF Armed
<1>10. replayed' = Append(g, Head(w)) /\ session'.replay = Tail(w) /\ cli'.step = cli.step
  BY <1>1, <1>6 DEF StepGiven
<1>11. Len(replayed') = Len(g) + 1 /\ Len(session'.replay) = Len(w) - 1
  BY <1>5, <1>7, <1>10
<1>12. Len(replayed') + Len(session'.replay) = Window
  BY <1>3, <1>8, <1>9, <1>11
<1>13. ASSUME NEW i \in 1..Len(replayed')
       PROVE  replayed'[i] = i
  <2>1. i \in 1..Len(g) \/ i = Len(g) + 1
    BY <1>8, <1>11
  <2>2. Head(w) = Len(g) + 1
    BY <1>4, <1>9
  <2> QED BY <1>7, <1>9, <1>10, <2>1, <2>2
<1>14. ASSUME NEW i \in 1..Len(session'.replay)
       PROVE  session'.replay[i] = Len(replayed') + i
  <2>1. session'.replay[i] = w[i + 1]
    BY <1>5, <1>10
  <2>2. i + 1 \in 1..Len(w)
    BY <1>3, <1>11
  <2>3. w[i + 1] = Len(g) + (i + 1)
    BY <1>9, <2>2
  <2> QED BY <1>8, <1>11, <2>1, <2>3
<1>15. cli'.step = 0
  BY <1>10, <1>1, <1>2 DEF Armed
<1> QED BY <1>12, <1>13, <1>14, <1>15 DEF Armed

LEMMA WindowKept ==
  ASSUME TypeOK, Placed, Ended, Answerable, Reported, Counted, Windowed, Next
  PROVE  Windowed'
<1>1. ASSUME Armed, session'.replay = session.replay, replayed' = replayed, caller' = caller,
             session.replay = <<>> \/ cli'.step = cli.step
      PROVE  Armed'
  BY <1>1 DEF Armed
<1>2. CASE Handlers
  <2>1. post # NoPost /\ caller' = caller
    BY <1>2, HandlerFacts DEF HandlerOutcome, HandlerFrame
  <2>2. Armed
    BY <2>1 DEF Windowed, Quiet
  <2>3. CASE OnStepStart
    <3>1. StepGiven \/ StepRefused \/ StepLet
      BY <2>3, StepStartFacts
    <3>2. CASE StepGiven
      BY <2>1, <2>2, <3>2, GivenWindow DEF Windowed
    <3>3. CASE StepRefused \/ StepLet
      BY <1>1, <2>1, <2>2, <3>3 DEF Windowed, StepRefused, StepLet
    <3> QED BY <3>1, <3>2, <3>3
  <2>4. CASE OnStepEnd
    <3>1. replayed' = replayed /\ cli'.step = cli.step
      BY <2>4, StepEndFacts
    <3>2. session'.replay = session.replay
      <4>1. CASE InRound
        BY <2>4, <4>1, StepEndRound DEF SameSession
      <4>2. CASE ~InRound
        <5>1. session' = [session EXCEPT !.carried = Plus(@, Once(post.step))]
          BY <2>4, <4>2 DEF OnStepEnd
        <5> QED BY <5>1, Records DEF SessionRecord
      <4> QED BY <4>1, <4>2
    <3> QED BY <1>1, <2>1, <2>2, <3>1, <3>2 DEF Windowed
  <2>5. CASE OnTurnComplete \/ OnEvent
    <3>1. replayed' = replayed /\ cli'.step = cli.step /\ session'.replay = session.replay
      BY <2>5, TurnCompleteFacts, EventFacts DEF SameSession
    <3> QED BY <1>1, <2>1, <2>2, <3>1 DEF Windowed
  <2> QED BY <1>2, <2>3, <2>4, <2>5 DEF Handlers
<1>3. CASE Abort \/ CompleteRound
  <2>1. /\ LeaveFrame /\ caller.pc \in {"abort", "complete"} /\ caller'.pc \in {"fail", "out"}
    BY <1>3, LeaveFacts DEF GivenUp, Returned
  <2>2. Armed
    BY <2>1 DEF Windowed, Quiet
  <2> QED BY <2>1, <2>2 DEF Windowed, Armed, LeaveFrame
<1>4. CASE TakeCarried \/ CloseTakes \/ CloseBegins \/ \E r \in RoundIds : FailTurn(r)
  <2>1. /\ UNCHANGED <<caller, commands, cli, post, replayed>> /\ session'.replay = session.replay
        /\ session'.state = session.state
    BY <1>4, CarryFacts, OutsideEndFacts DEF SameSession, history
  <2> QED BY <2>1 DEF Windowed, Quiet, Armed
<1>5. CASE PlainMoves
  BY <1>5, PlainWindow
<1>6. CASE Sends
  BY <1>6, SendsWindow
<1>7. CASE ArmReplay
  BY <1>7, ArmWindow
<1>8. CASE OpenRound
  BY <1>8, OpenWindow
<1>9. CASE EngineSteps \/ Dies \/ CloseKills
  BY <1>9, EngineWindowed
<1> QED BY <1>2, <1>3, <1>4, <1>5, <1>6, <1>7, <1>8, <1>9, Kinds

-----------------------------------------------------------------------------
(***************************************************************************)
(* Which turn ends a round                                                 *)
(***************************************************************************)
\* The sets of turns the invariant speaks of, as they are before and after a step.
LEMMA Sets ==
  ASSUME NEW T
  PROVE  /\ T = serves[session.current] => (Doing(T) <=> Doing(serves[session.current]))
         /\ T = endedBy[session.current] => (Doing(T) <=> Doing(endedBy[session.current]))
         /\ T = endedBy[caller.round] => (Doing(T) <=> Doing(endedBy[caller.round]))
         /\ T = serves'[session'.current] => (Doing(T)' <=> Doing(serves[session.current])')
         /\ T = endedBy'[session'.current] => (Doing(T)' <=> Doing(endedBy[session.current])')
         /\ T = endedBy'[caller'.round] => (Doing(T)' <=> Doing(endedBy[caller.round])')
BY Zenon DEF Doing

\* It is enough that what the engine does stays what it was.
LEMMA AttributedStays ==
  ASSUME Attributed, \A T : Doing(T) => Doing(T)', UNCHANGED <<serves, endedBy>>, caller'.round = caller.round,
         Sending' => Sending, caller.round \in RoundIds \/ ~Sending',
         session'.current = session.current, session.current # 0 => session.current \in RoundIds,
         session'.state = session.state \/ session'.state = "dirty",
         \A q \in RoundIds : rounds'[q].finished = rounds[q].finished /\ rounds'[q].done = rounds[q].done
  PROVE  Attributed'
<1>1. Sending' => /\ Doing({})' /\ serves'[caller'.round] = {caller'.round}
                  /\ \A i \in 1..Len(rounds'[caller'.round].done) : rounds'[caller'.round].done[i] \in Errors
  BY DEF Attributed
<1>2. PICK S, E, C : S = serves[session.current] /\ E = endedBy[session.current] /\ C = endedBy[caller.round]
  OBVIOUS
<1>3. session'.current # 0 =>
        /\ ~rounds'[session'.current].finished => Doing(serves[session.current])'
        /\ rounds'[session'.current].done = <<"tool_calls">> => Doing(endedBy[session.current])'
        /\ rounds'[session'.current].done = <<"answer">> => Doing({})'
  <2>1. session.current # 0 =>
          /\ ~rounds[session.current].finished => Doing(S)
          /\ rounds[session.current].done = <<"tool_calls">> => Doing(E)
          /\ rounds[session.current].done = <<"answer">> => Doing({})
    BY <1>2, Sets DEF Attributed
  <2> QED BY <1>2, <2>1, Sets
<1>4. session'.state = "waiting" => Doing(endedBy[caller.round])'
  <2>1. session.state = "waiting" => Doing(C)
    BY <1>2, Sets DEF Attributed
  <2> QED BY <1>2, <2>1, Sets
<1>5. session'.state = "idle" => Doing({})'
  BY DEF Attributed
<1>6. \A r \in RoundIds : endedBy'[r] \subseteq serves'[r]
  BY DEF Attributed
<1> QED BY <1>1, <1>3, <1>4, <1>5, <1>6 DEF Attributed

\* Claude Code that has started a turn of its own once has done so.
LEMMA StrayedKept ==
  ASSUME TypeOK, Placed, Ended, Answerable, Reported, Counted, Next, ~cli'.strayed
  PROVE  ~cli.strayed
<1>1. CASE Handlers
  BY <1>1, HandlerFacts DEF HandlerOutcome, HandlerFrame
<1>2. CASE Sends
  BY <1>2, SentToFacts DEF SentTo
<1>3. CASE EngineSteps \/ Dies \/ CloseKills
  BY <1>3, WithinTurnFacts, RunsCommandFacts, TurnStartsFacts, TurnStraysFacts, KilledFacts
     DEF EngineSteps, SameTurn
<1> QED BY <1>1, <1>2, <1>3, Kinds, Elsewhere

\* The engine is left alone.
LEMMA DoingSame ==
  ASSUME UNCHANGED <<commands, cli, post>>
  PROVE  \A T : Doing(T) => Doing(T)'
BY DEF Doing, Busy

\* A handler takes what is posted for the round the session is in from the turn it waits for.
LEMMA HandlersAttributed ==
  ASSUME TypeOK, Placed, Ended, Reported, Counted, Attributed, Handlers
  PROVE  Attributed'
<1>1. HandlerOutcome /\ HandlerFrame /\ UNCHANGED <<caller, serves>>
  BY HandlerFacts DEF HandlerOutcome, HandlerFrame
<1>2. \A T : Doing(T) => Doing(T)' /\ (cli'.pc = "idle" \/ ~cli.up => Doing({})')
  BY <1>1, HandlerDoing
<1>3. ~Sending /\ ~Sending'
  <2>1. ~Doing({})
    BY <1>1 DEF HandlerFrame, Doing
  <2> QED BY <1>1, <2>1 DEF Attributed, Sending
<1>4. session.current # 0 => session.current \in RoundIds
  BY Records, Bounds DEF SessionRecord, RoundIds
<1>5. session'.current = session.current
  BY <1>1 DEF HandlerOutcome
<1>6. CASE (\A q \in RoundIds : SameRound(q)) /\ endedBy' = endedBy
  <2>1. session'.state = session.state \/ session'.state = "dirty"
    BY <1>1 DEF HandlerOutcome
  <2> QED BY <1>1, <1>2, <1>3, <1>4, <1>5, <1>6, <2>1, AttributedStays DEF SameRound
<1>7. ASSUME InRound, Noted(session.current),
             \/ \A q \in RoundIds : SameRound(q)
             \/ \E end \in Ends :
                  /\ Given(session.current, end)
                  /\ end = "tool_calls" => post.turn = cli.turn
                  /\ end = "answer" => cli'.pc = "idle" \/ ~cli.up
      PROVE  Attributed'
  <2> DEFINE r == session.current
  <2>1. r \in RoundIds /\ r # 0 /\ r = caller.round /\ ~rounds[r].finished /\ session.state = "running"
    BY <1>7, InRoundFacts DEF InRound
  <2>2. rounds[r].done = <<>>
    BY <2>1 DEF Ended
  <2>3. PICK S, U : S = serves[r] /\ U = endedBy'[r]
    OBVIOUS
  <2>4. Doing(S) /\ endedBy[r] \subseteq S
    BY <2>1, <2>3, Sets DEF Attributed
  <2>5. post.turn \in S /\ post.turn \in U /\ U \subseteq S
    BY <1>1, <1>7, <2>3, <2>4 DEF Noted, Doing, HandlerFrame
  <2>6. \A q \in RoundIds : endedBy'[q] \subseteq serves'[q]
    <3>1. ASSUME NEW q \in RoundIds
          PROVE  endedBy'[q] \subseteq serves'[q]
      <4>1. CASE q = r
        BY <1>1, <2>3, <2>5, <4>1
      <4>2. CASE q # r
        BY <1>1, <1>7, <4>2 DEF Noted, Attributed
      <4> QED BY <4>1, <4>2
    <3> QED BY <3>1
  <2>7. session'.state = "running"
    BY <1>1, <2>1 DEF HandlerOutcome
  <2>8. CASE \A q \in RoundIds : SameRound(q)
    <3>1. rounds'[r].done = <<>>
      BY <2>1, <2>2, <2>8 DEF SameRound
    <3>2. <<>> # <<"tool_calls">> /\ <<>> # <<"answer">>
      OBVIOUS
    <3>3. Doing(serves[session.current])'
      BY <1>1, <1>2, <1>5, <2>3, <2>4, Sets
    <3> QED BY <1>3, <1>5, <2>6, <2>7, <3>1, <3>2, <3>3 DEF Attributed
  <2>9. ASSUME NEW end \in Ends, Given(r, end),
               end = "tool_calls" => post.turn = cli.turn,
               end = "answer" => cli'.pc = "idle" \/ ~cli.up
        PROVE  Attributed'
    <3>1. rounds'[r].finished /\ rounds'[r].done = Append(<<>>, end)
      BY <2>1, <2>2, <2>9 DEF Given
    <3>2. rounds'[r].done = <<end>>
      BY <3>1
    <3>3. (<<end>> = <<"tool_calls">> => end = "tool_calls") /\ (<<end>> = <<"answer">> => end = "answer")
      OBVIOUS
    <3>4. end = "answer" => Doing({})'
      BY <1>2, <2>4, <2>9
    <3>5. end = "tool_calls" => Doing(endedBy[session.current])'
      <4>1. ASSUME end = "tool_calls"
            PROVE  Doing(U)'
        BY <1>1, <2>4, <2>5, <2>9, <4>1, DoneByItsTurn
      <4> QED BY <1>5, <2>3, <4>1, Sets
    <3> QED BY <1>3, <1>5, <2>6, <2>7, <3>1, <3>2, <3>3, <3>4, <3>5 DEF Attributed
  <2> QED BY <1>7, <2>8, <2>9
<1> QED BY <1>1, <1>6, <1>7 DEF HandlerOutcome

\* An end from outside is an error, and says nothing of the engine.
LEMMA OutsideAttributed ==
  ASSUME TypeOK, Placed, Ended, Attributed, CloseBegins \/ \E r \in RoundIds : FailTurn(r)
  PROVE  Attributed'
<1>1. /\ UNCHANGED <<caller, commands, cli, post, serves, endedBy>>
      /\ session'.current = session.current /\ session'.state = session.state
      /\ UNCHANGED rounds \/ \E r \in RoundIds, end \in Errors : r <= caller.round /\ rounds' = Finish(r, end)
  BY OutsideEndFacts DEF SameSession, history
<1>2. \A T : Doing(T) => Doing(T)'
  BY <1>1, DoingSame
<1>3. /\ session.current # 0 => session.current \in RoundIds
      /\ Sending => caller.round \in RoundIds
  BY Records, Bounds, CompleteFacts DEF SessionRecord, RoundIds, Sending, Within
<1>4. Sending' <=> Sending
  BY <1>1 DEF Sending
<1>5. CASE UNCHANGED rounds
  BY <1>1, <1>2, <1>3, <1>4, <1>5, AttributedStays
<1>6. ASSUME NEW r \in RoundIds, NEW end \in Errors, rounds' = Finish(r, end)
      PROVE  Attributed'
  <2>1. end \in Ends /\ end \notin {"tool_calls", "answer"}
    BY DEF Ends, Errors
  <2>2. /\ rounds'[r].finished
        /\ rounds'[r].done = IF rounds[r].finished THEN rounds[r].done ELSE Append(rounds[r].done, end)
        /\ \A q \in RoundIds : q # r => rounds'[q] = rounds[q]
    BY <1>6, <2>1, Records, FinishFacts
  <2>3. CASE rounds[r].finished
    <3>1. \A q \in RoundIds : rounds'[q].finished = rounds[q].finished /\ rounds'[q].done = rounds[q].done
      BY <1>6, <2>3 DEF Finish
    <3> QED BY <1>1, <1>2, <1>3, <1>4, <3>1, AttributedStays
  <2>4. CASE ~rounds[r].finished
    <3>1. rounds[r].done = <<>>
      BY <2>4 DEF Ended
    <3>2. rounds'[r].done = Append(<<>>, end)
      BY <2>2, <2>4, <3>1
    <3>3. /\ rounds'[r].done = <<end>> /\ <<end>> # <<"tool_calls">> /\ <<end>> # <<"answer">>
          /\ \A i \in 1..Len(<<end>>) : <<end>>[i] = end
      <4>1. rounds'[r].done = <<end>>
        BY <3>2
      <4>2. <<end>> # <<"tool_calls">> /\ <<end>> # <<"answer">>
        BY <2>1
      <4>3. \A i \in 1..Len(<<end>>) : <<end>>[i] = end
        OBVIOUS
      <4> QED BY <4>1, <4>2, <4>3
    <3>4. Sending' => /\ Doing({})' /\ serves'[caller'.round] = {caller'.round}
                      /\ \A i \in 1..Len(rounds'[caller'.round].done) : rounds'[caller'.round].done[i] \in Errors
      <4>1. Sending => \A i \in 1..Len(rounds'[caller.round].done) : rounds'[caller.round].done[i] \in Errors
        <5>1. CASE caller.round = r
          BY <3>3, <5>1
        <5>2. CASE caller.round # r
          BY <1>3, <2>2, <5>2 DEF Attributed
        <5> QED BY <5>1, <5>2
      <4> QED BY <1>1, <1>2, <1>4, <4>1 DEF Attributed
    <3>5. PICK S, E, C : S = serves[session.current] /\ E = endedBy[session.current] /\ C = endedBy[caller.round]
      OBVIOUS
    <3>6. session'.current # 0 =>
            /\ ~rounds'[session'.current].finished => Doing(serves[session.current])'
            /\ rounds'[session'.current].done = <<"tool_calls">> => Doing(endedBy[session.current])'
            /\ rounds'[session'.current].done = <<"answer">> => Doing({})'
      <4>1. CASE session.current = r
        BY <1>1, <2>2, <3>3, <4>1
      <4>2. CASE session.current # r
        <5>1. session.current # 0 =>
                /\ ~rounds'[session.current].finished => Doing(S)
                /\ rounds'[session.current].done = <<"tool_calls">> => Doing(E)
                /\ rounds'[session.current].done = <<"answer">> => Doing({})
          BY <1>3, <2>2, <3>5, <4>2, Sets DEF Attributed
        <5> QED BY <1>1, <1>2, <3>5, <5>1, Sets
      <4> QED BY <4>1, <4>2
    <3>7. session'.state = "waiting" => Doing(endedBy[caller.round])'
      <4>1. session.state = "waiting" => Doing(C)
        BY <3>5, Sets DEF Attributed
      <4> QED BY <1>1, <1>2, <3>5, <4>1, Sets
    <3>8. session'.state = "idle" => Doing({})'
      BY <1>1, <1>2 DEF Attributed
    <3> QED BY <1>1, <3>4, <3>6, <3>7, <3>8 DEF Attributed
  <2> QED BY <2>3, <2>4
<1> QED BY <1>1, <1>5, <1>6

\* The prompt of a round is what the engine is about.
LEMMA PromptSent ==
  ASSUME TypeOK, Doing({}), SendPrompt, UNCHANGED <<cli, post>>, NEW T, caller.round \in T
  PROVE  Doing(T)'
<1>1. /\ commands \in Seq(CommandRecord) /\ cli.prompts \in Seq(RoundIds)
  BY Records DEF CliRecord
<1>2. /\ Len(commands') = Len(commands) + 1
      /\ commands'[Len(commands) + 1] = [kind |-> "submit", round |-> caller.round]
  BY SendFacts
<1>3. post = NoPost
  BY DEF Doing
<1>4. ASSUME cli.up
      PROVE  Len(commands) = 0 /\ Len(cli.prompts) = 0 /\ cli.pc = "idle"
  <2>1. (\A i \in 1..Len(commands) : FALSE) /\ (\A i \in 1..Len(cli.prompts) : FALSE) /\ cli.pc = "idle"
    BY <1>4 DEF Doing
  <2>2. Len(commands) \in Nat /\ Len(cli.prompts) \in Nat
    BY <1>1
  <2>3. \A n \in Nat : (\A i \in 1..n : FALSE) => n = 0
    <3>1. \A n \in Nat : n # 0 => 1 \in 1..n
      OBVIOUS
    <3> QED BY <3>1
  <2> QED BY <2>1, <2>2, <2>3, Zenon
<1>5. CASE cli.up
  <2>1. Len(commands') = 1 /\ commands'[1].kind = "submit" /\ commands'[1].round \in T
    BY <1>2, <1>4, <1>5
  <2>2. \A i \in 1..Len(commands') : i = 1
    BY <2>1
  <2>3. post' = NoPost /\ cli'.pc = "idle" /\ Len(cli'.prompts) = 0 /\ ~Busy'
    BY <1>3, <1>4, <1>5 DEF Busy
  <2>4. 1 + 0 + 0 <= 1
    OBVIOUS
  <2>5. Len(commands') + Len(cli'.prompts) + (IF Busy' THEN 1 ELSE 0) <= 1
    BY <2>1, <2>3, <2>4, Zenon
  <2>6. /\ \A i \in 1..Len(commands') : commands'[i].kind = "submit" /\ commands'[i].round \in T
        /\ \A i \in 1..Len(cli'.prompts) : FALSE
    BY <2>1, <2>2, <2>3
  <2> QED BY <2>3, <2>5, <2>6, Zenon DEF Doing
<1>6. CASE ~cli.up
  BY <1>3, <1>6 DEF Doing
<1> QED BY <1>5, <1>6

LEMMA SendsAttributed ==
  ASSUME TypeOK, Placed, Ended, Answerable, Windowed, Attributed, Sends
  PROVE  Attributed'
<1>1. UNCHANGED <<session, rounds, post, serves, endedBy>> /\ caller'.round = caller.round
  BY SendsFacts DEF SentFacts, history
<1>2. ASSUME NEW pc \in CallerPcs, Step(pc)
      PROVE  caller'.pc = pc /\ caller'.feeds = caller.feeds
  BY <1>2, Records, StepFacts
<1>3. {"seed", "seeding", "open", "rebuild", "fail", "await", "abort"} \subseteq CallerPcs
  BY DEF CallerPcs
<1>4. CASE ProcessStarts \/ Seeds
  <2>1. /\ caller.pc \in {"start", "seed"}
        /\ Step("seed") \/ Step("seeding") \/ Step("open")
    BY <1>4 DEF ProcessStarts, Seeds
  <2>2. ~Sending'
    BY <1>2, <1>3, <2>1 DEF Sending
  <2>3. session.current = 0 /\ session.state = "starting"
    BY <2>1 DEF Windowed, Armed, Quiet, Placed, Between
  <2> QED BY <1>1, <2>2, <2>3 DEF Attributed
<1>5. CASE Submit \/ FeedPrompt \/ DeliverResults
  <2>1. /\ caller.pc \in {"submit", "feed"} /\ UNCHANGED cli
        /\ Step("rebuild") \/ Step("fail") \/ Step("await") \/ Step("abort")
        /\ UNCHANGED commands \/ (SendPrompt /\ (caller.pc = "submit" \/ caller.feeds = "prompt"))
    BY <1>5 DEF Submit, FeedPrompt, DeliverResults
  <2>2. ~Sending'
    BY <1>2, <1>3, <2>1 DEF Sending
  <2>3. caller.round \in RoundIds /\ session.current = caller.round /\ session.state = "running"
    BY <2>1, CompleteFacts DEF Within
  <2>4. CASE UNCHANGED commands
    <3>1. \A T : Doing(T) => Doing(T)'
      BY <1>1, <2>1, <2>4, DoingSame
    <3> QED BY <1>1, <2>2, <2>3, <3>1, AttributedStays
  <2>5. CASE SendPrompt /\ (caller.pc = "submit" \/ caller.feeds = "prompt")
    <3> DEFINE r == caller.round
    <3>1. Sending
      BY <2>1, <2>5 DEF Sending
    <3>2. Doing({}) /\ serves[r] = {r} /\ \A i \in 1..Len(rounds[r].done) : rounds[r].done[i] \in Errors
      BY <3>1 DEF Attributed
    <3>3. rounds[r].done # <<"tool_calls">> /\ rounds[r].done # <<"answer">>
      <4>1. "tool_calls" \notin Errors /\ "answer" \notin Errors
        BY DEF Errors
      <4>2. Len(<<"tool_calls">>) = 1 /\ <<"tool_calls">>[1] = "tool_calls" /\ Len(<<"answer">>) = 1 /\ <<"answer">>[1] = "answer"
        OBVIOUS
      <4> QED BY <3>2, <4>1, <4>2
    <3>4. PICK S : S = serves[r]
      OBVIOUS
    <3>5. Doing(S)'
      BY <1>1, <2>1, <2>5, <3>2, <3>4, PromptSent
    <3>6. Doing(serves[session.current])'
      BY <1>1, <2>3, <3>4, <3>5, Sets
    <3> QED BY <1>1, <2>2, <2>3, <3>3, <3>6 DEF Attributed
  <2> QED BY <2>1, <2>4, <2>5
<1> QED BY <1>4, <1>5 DEF Sends

\* A round that is opened is served by the turn that waits for its results, or by the one
\* its prompt will start: and then the engine has nothing left to do.
LEMMA OpenAttributed ==
  ASSUME TypeOK, Placed, Ended, Answerable, Windowed, Attributed, OpenRound
  PROVE  Attributed'
<1>1. OpenFrame /\ (OpenRefused \/ Opened)
  BY OpenRoundFacts
<1>2. /\ UNCHANGED <<commands, cli, post, endedBy>> /\ caller.pc = "open"
      /\ caller'.isNew = caller.isNew /\ caller'.feeds = caller.feeds
      /\ \A q \in RoundIds : rounds'[q].finished = rounds[q].finished /\ rounds'[q].done = rounds[q].done
  BY <1>1 DEF OpenFrame, SameRound
<1>3. \A T : Doing(T) => Doing(T)'
  BY <1>2, DoingSame
<1>4. session.current = 0
  BY <1>2 DEF Placed, Between
<1>5. CASE OpenRefused
  <2>1. UNCHANGED <<session, rounds, serves>> /\ caller'.round = caller.round /\ caller'.pc \in {"fail", "out"}
    BY <1>5 DEF OpenRefused
  <2>2. ~Sending'
    BY <2>1 DEF Sending
  <2> QED BY <1>2, <1>3, <1>4, <2>1, <2>2, AttributedStays
<1>6. CASE Opened
  <2> DEFINE r == caller'.round
  <2>1. /\ r = caller.round + 1 /\ r \in RoundIds /\ session'.current = r /\ session'.state = "running"
        /\ session.state # "dirty"
        /\ caller'.pc = IF caller.isNew THEN "arm" ELSE "feed"
        /\ caller.feeds = "results" => caller.round \in RoundIds /\ session.state = "waiting"
        /\ serves'[r] = IF caller.feeds = "results" THEN endedBy[caller.round] ELSE {r}
        /\ \A q \in RoundIds : q # r => serves'[q] = serves[q]
    BY <1>6 DEF Opened
  <2>2. r > caller.round /\ r # 0
    <3>1. caller.round \in Nat
      BY Records, Bounds DEF CallerRecord
    <3> QED BY <2>1, <3>1
  <2>3. ~rounds[r].finished /\ rounds[r].done = <<>> /\ endedBy[r] = {}
    BY <2>1, <2>2 DEF Placed
  <2>4. \A q \in RoundIds : endedBy'[q] \subseteq serves'[q]
    BY <1>2, <2>1, <2>3 DEF Attributed
  <2>5. rounds'[r].done = <<>> /\ <<>> # <<"tool_calls">> /\ <<>> # <<"answer">> /\ \A i \in 1..Len(<<>>) : FALSE
    <3>1. rounds'[r].done = <<>>
      BY <1>2, <2>1, <2>3
    <3> QED BY <3>1
  <2>6. PICK S, C : S = serves'[r] /\ C = endedBy[caller.round]
    OBVIOUS
  <2>7. CASE caller.feeds = "results"
    <3>1. Doing(C)
      BY <2>1, <2>6, <2>7, Sets DEF Attributed
    <3>2. Doing(serves[session.current])'
      BY <1>3, <2>1, <2>6, <2>7, <3>1, Sets
    <3>3. ~Sending'
      <4>1. ~caller.isNew
        BY <2>7 DEF Placed
      <4> QED BY <1>2, <2>1, <2>7, <4>1 DEF Sending
    <3> QED BY <2>1, <2>4, <2>5, <3>2, <3>3 DEF Attributed
  <2>8. CASE caller.feeds # "results"
    <3>1. Doing({})
      <4>1. CASE caller.isNew
        <5>1. Quiet
          BY <1>2, <4>1 DEF Windowed, Armed
        <5>2. post = NoPost /\ commands = <<>> /\ cli.prompts = <<>> /\ cli.pc = "idle" /\ ~Busy
          BY <1>2, <5>1 DEF Quiet, Busy
        <5>3. Len(<<>>) = 0 /\ 0 + 0 + 0 <= 1 /\ \A i \in 1..0 : FALSE
          OBVIOUS
        <5> QED BY <5>2, <5>3 DEF Doing
      <4>2. CASE ~caller.isNew
        <5>1. session.state # "waiting"
          BY <1>2, <2>1, <2>8, <4>2 DEF Answerable
        <5>2. session.state # "starting" /\ session.state # "running"
          BY <1>4, <4>2 DEF Placed
        <5>3. session.state = "idle"
          BY <2>1, <5>1, <5>2, Records DEF SessionRecord
        <5> QED BY <5>3 DEF Attributed
      <4> QED BY <4>1, <4>2
    <3>2. Doing(S) /\ serves'[r] = {r}
      BY <2>1, <2>6, <2>8, <3>1, DoingMore
    <3>3. Doing(serves[session.current])'
      BY <1>3, <2>1, <2>6, <3>2, Sets
    <3>4. \A i \in 1..Len(rounds'[r].done) : rounds'[r].done[i] \in Errors
      BY <2>5
    <3> QED BY <1>3, <2>1, <2>4, <2>5, <3>1, <3>2, <3>3, <3>4 DEF Attributed
  <2> QED BY <2>7, <2>8
<1> QED BY <1>1, <1>5, <1>6

LEMMA LeaveAttributed ==
  ASSUME TypeOK, Placed, Ended, Attributed, Abort \/ CompleteRound
  PROVE  Attributed'
<1>1. LeaveFrame /\ (GivenUp \/ Returned)
  BY LeaveFacts
<1>2. /\ UNCHANGED <<commands, cli, post, serves, endedBy>> /\ caller'.round = caller.round /\ session'.current = 0
  BY <1>1 DEF LeaveFrame
<1>3. \A T : Doing(T) => Doing(T)'
  BY <1>2, DoingSame
<1>4. caller'.pc \in {"fail", "out"} /\ caller.pc \in {"abort", "complete"}
  BY <1>1 DEF GivenUp, Returned
<1>5. ~Sending'
  BY <1>4 DEF Sending
<1>6. caller.round \in RoundIds /\ session.current = caller.round /\ caller.round # 0
  BY <1>4, CompleteFacts, Bounds DEF Within
<1>7. CASE GivenUp
  BY <1>2, <1>5, <1>7 DEF Attributed, GivenUp
<1>8. CASE Returned
  <2> DEFINE end == Head(rounds[caller.round].done)
  <2>1. session'.state = StateAfter(end) /\ rounds[caller.round].done = <<end>>
    BY <1>8, CompleteFacts DEF Returned, Within
  <2>2. session'.state = "waiting" => end = "tool_calls"
    BY <2>1 DEF StateAfter
  <2>3. session'.state = "idle" => end = "answer"
    BY <2>1 DEF StateAfter
  <2>4. PICK E : E = endedBy[session.current]
    OBVIOUS
  <2>5. session'.state = "waiting" => Doing(E)
    BY <1>6, <2>1, <2>2, <2>4, Sets DEF Attributed
  <2>6. session'.state = "waiting" => Doing(endedBy[caller.round])'
    BY <1>2, <1>3, <1>6, <2>4, <2>5, Sets
  <2>7. session'.state = "idle" => Doing({})'
    BY <1>3, <1>6, <2>1, <2>3 DEF Attributed
  <2> QED BY <1>2, <1>5, <2>6, <2>7 DEF Attributed
<1> QED BY <1>1, <1>7, <1>8

LEMMA AttributedKept ==
  ASSUME TypeOK, Placed, Ended, Answerable, Reported, Counted, Windowed, Attributed, Next, ~cli'.strayed
  PROVE  Attributed'
<1>1. session.current # 0 => session.current \in RoundIds
  BY Records, Bounds DEF SessionRecord, RoundIds
<1>2. Sending => caller.round \in RoundIds
  BY CompleteFacts DEF Sending, Within
<1>3. CASE Handlers
  BY <1>3, HandlersAttributed
<1>4. CASE CloseBegins \/ \E r \in RoundIds : FailTurn(r)
  BY <1>4, OutsideAttributed
<1>5. CASE Sends
  BY <1>5, SendsAttributed
<1>6. CASE OpenRound
  BY <1>6, OpenAttributed
<1>7. CASE Abort \/ CompleteRound
  BY <1>7, LeaveAttributed
<1>8. CASE PlainMoves
  <2>1. UNCHANGED <<session, rounds, commands, cli, post, serves, endedBy>> /\ caller'.round = caller.round
    BY <1>8, PlainMoveFacts DEF SentFacts, history
  <2>2. Sending' => Sending
    <3>1. caller \in CallerRecord
      BY Records
    <3>2. ASSUME NEW pc \in CallerPcs, Step(pc), pc \notin {"arm", "submit", "feed"}
          PROVE  ~Sending'
      BY <3>1, <3>2, StepFacts DEF Sending
    <3>3. {"open", "await", "abort", "fail", "failing", "given up", "complete"} \subseteq CallerPcs
      BY DEF CallerPcs
    <3>4. CASE DaemonCloses
      BY <3>4 DEF DaemonCloses, Sending
    <3>5. ASSUME NEW feeds \in {"results", "prompt", "nothing"}, Extend(feeds)
          PROVE  ~Sending'
      BY <3>1, <3>5 DEF Extend, CallerRecord, Sending
    <3>6. CASE ProcessFails \/ Seeded \/ RebuildDone \/ FactoryFails \/ FactoryFailed \/ FeedNothing \/ RoundDone
               \/ ProcessExited \/ Deadline \/ ManagerCloses
      <4>1. \/ Step("open") \/ Step("await") \/ Step("abort") \/ Step("fail") \/ Step("failing")
            \/ Step("given up") \/ Step("complete")
        BY <3>6 DEF ProcessFails, Seeded, RebuildDone, FactoryFails, FactoryFailed, FeedNothing, RoundDone,
                    ProcessExited, Deadline, ManagerCloses, GivesUp
      <4> QED BY <3>2, <3>3, <4>1
    <3> QED BY <1>8, <3>4, <3>5, <3>6 DEF PlainMoves
  <2>3. \A T : Doing(T) => Doing(T)'
    BY <2>1, DoingSame
  <2> QED BY <1>1, <1>2, <2>1, <2>2, <2>3, AttributedStays
<1>9. CASE ArmReplay
  <2>1. /\ UNCHANGED <<rounds, commands, cli, post, serves, endedBy>> /\ caller'.round = caller.round
        /\ session'.current = session.current /\ session'.state = session.state /\ caller.pc = "arm"
    BY <1>9, ArmFacts DEF history
  <2>2. \A T : Doing(T) => Doing(T)'
    BY <2>1, DoingSame
  <2>3. Sending
    BY <2>1 DEF Sending
  <2> QED BY <1>1, <1>2, <2>1, <2>2, <2>3, AttributedStays
<1>10. CASE TakeCarried \/ CloseTakes
  <2>1. /\ UNCHANGED <<rounds, caller, commands, cli, post, serves, endedBy>>
        /\ session'.current = session.current /\ session'.state = session.state
    BY <1>10, CarryFacts
  <2>2. \A T : Doing(T) => Doing(T)'
    BY <2>1, DoingSame
  <2>3. Sending' <=> Sending
    BY <2>1 DEF Sending
  <2> QED BY <1>1, <1>2, <2>1, <2>2, <2>3, AttributedStays
<1>11. CASE EngineSteps \/ Dies \/ CloseKills
  <2>1. UNCHANGED <<session, rounds, caller, serves, endedBy>>
    BY <1>11, WithinTurnFacts, RunsCommandFacts, TurnStartsFacts, TurnStraysFacts, KilledFacts
       DEF EngineSteps, Outside, history
  <2>2. \A T : Doing(T) => Doing(T)'
    BY <1>11, EngineDoing
  <2>3. Sending' <=> Sending
    BY <2>1 DEF Sending
  <2> QED BY <1>1, <1>2, <2>1, <2>2, <2>3, AttributedStays
<1> QED BY <1>3, <1>4, <1>5, <1>6, <1>7, <1>8, <1>9, <1>10, <1>11, Kinds

-----------------------------------------------------------------------------
(***************************************************************************)
(* The invariant holds                                                     *)
(***************************************************************************)
LEMMA InitIInv == Init => IInv
<1> SUFFICES ASSUME Init PROVE IInv
  OBVIOUS
<1>1. /\ session = [state |-> "starting", current |-> 0, replay |-> <<>>, rebuilt |-> 0,
                    carried |-> Nothing, closed |-> FALSE]
      /\ caller = [pc |-> "start", round |-> 0, isNew |-> TRUE, feeds |-> "prompt"]
      /\ closer = [pc |-> "out", keeps |-> FALSE]
      /\ cli = [up |-> FALSE, pc |-> "idle", turn |-> 0, strayed |-> FALSE, step |-> 0, call |-> NoCall,
                reason |-> "answer", prompts |-> <<>>, seeded |-> FALSE]
      /\ failers = {} /\ commands = <<>> /\ results = {} /\ post = NoPost
      /\ used = {} /\ billed = Nothing /\ dropped = Nothing /\ replayed = <<>> /\ orphaned = FALSE
  BY DEF Init
<1>2. \A r \in RoundIds :
        /\ rounds[r].usage = Nothing /\ rounds[r].done = <<>> /\ ~rounds[r].finished
        /\ serves[r] = {} /\ endedBy[r] = {}
  BY DEF Init
<1>3. <<>> \in Seq(1..Window) /\ <<>> \in Seq(CommandRecord) /\ <<>> \in Seq(RoundIds) /\ <<>> \in Seq(Ends)
  OBVIOUS
<1>4. Len(<<>>) = 0 /\ \A i \in 1..0 : FALSE
  BY SMT
<1>5. TypeOK
  <2>1. session \in SessionRecord
    BY <1>1, <1>3, Bounds DEF SessionRecord
  <2>2. rounds \in [RoundIds -> RoundRecord]
    BY <1>3, Bounds DEF Init, RoundRecord
  <2>3. caller \in CallerRecord /\ closer \in CloserRecord
    BY <1>1, Bounds DEF CallerRecord, CallerPcs, CloserRecord
  <2>4. cli \in CliRecord
    BY <1>1, <1>3, Bounds DEF CliRecord, CliPcs, TurnReasons
  <2>5. HistoryTypes
    BY <1>1, <1>3, Bounds DEF Init, HistoryTypes
  <2> QED BY <1>1, <1>3, <2>1, <2>2, <2>3, <2>4, <2>5, Bounds, Records
<1>6. Placed
  BY <1>1, <1>2 DEF Placed, Between, Within
<1>7. Ended
  BY <1>1, <1>2, <1>4 DEF Ended
<1>8. Answerable /\ Reported /\ Counted
  BY <1>1, <1>4 DEF Answerable, Reported, Counted, NoPost
<1>9. ASSUME NEW s \in Steps PROVE Conserved(s)
  <2>1. Nothing[s] = 0
    BY DEF Nothing
  <2>2. Kept(s) = 0
    BY <1>1, <2>1 DEF Kept
  <2>3. \A r \in RoundIds : rounds[r].usage[s] = 0
    BY <1>2, <2>1
  <2> QED BY <1>1, <2>2, <2>3 DEF Conserved
<1>10. Windowed
  BY <1>1, <1>4 DEF Windowed, Quiet
<1>11. Doing({})
  BY <1>1, <1>4 DEF Doing
<1>12. Attributed
  BY <1>1, <1>2, <1>11 DEF Attributed, Sending
<1> QED BY <1>5, <1>6, <1>7, <1>8, <1>9, <1>10, <1>12 DEF IInv

\* A step that changes nothing.
LEMMA Stutters ==
  ASSUME IInv, UNCHANGED vars
  PROVE  IInv'
<1>1. /\ session' = session /\ rounds' = rounds /\ caller' = caller /\ closer' = closer /\ failers' = failers
      /\ commands' = commands /\ results' = results /\ cli' = cli /\ post' = post /\ used' = used
      /\ billed' = billed /\ dropped' = dropped /\ replayed' = replayed /\ serves' = serves
      /\ endedBy' = endedBy /\ orphaned' = orphaned
  BY DEF vars, history
<1>2. TypeOK'
  <2>1. HistoryTypes'
    BY <1>1, Records DEF IInv, HistoryTypes
  <2> QED BY <1>1, <2>1, Records, TypesNext DEF IInv
<1>3. /\ Placed' /\ Ended' /\ Answerable'
      /\ Reported' /\ Counted'
  <2>1. Placed'
    BY <1>1 DEF IInv, Placed
  <2>2. Ended'
    BY <1>1 DEF IInv, Ended
  <2>3. Answerable'
    BY <1>1 DEF IInv, Answerable
  <2>4. Reported'
    BY <1>1 DEF IInv, Reported
  <2>5. Counted'
    BY <1>1 DEF IInv, Counted
  <2> QED BY <2>1, <2>2, <2>3, <2>4, <2>5
<1>4. ASSUME NEW s \in Steps PROVE Conserved(s)'
  <2>1. Conserved(s) /\ Kept(s)' = Kept(s)
    BY <1>1 DEF IInv, Kept
  <2> QED BY <1>1, <2>1, UsageStays
<1>5. Windowed'
  BY <1>1 DEF IInv, Windowed, Quiet, Armed
<1>6. Attributed => Attributed'
  <2>1. \A T : Doing(T) => Doing(T)'
    BY <1>1, DoingSame
  <2>2. Sending' => Sending
    BY <1>1 DEF Sending
  <2>3. session.current # 0 => session.current \in RoundIds
    BY Records, Bounds DEF IInv, SessionRecord, RoundIds
  <2>4. Sending => caller.round \in RoundIds
    BY CompleteFacts DEF IInv, Sending, Within
  <2> QED BY <1>1, <2>1, <2>2, <2>3, <2>4, AttributedStays
<1> QED BY <1>1, <1>2, <1>3, <1>4, <1>5, <1>6 DEF IInv

LEMMA IInvStep == IInv /\ [Next]_vars => IInv'
<1> SUFFICES ASSUME IInv, [Next]_vars PROVE IInv'
  OBVIOUS
<1>1. CASE Next
  <2>1. /\ TypeOK /\ Placed /\ Ended /\ Answerable /\ Reported /\ Counted /\ Windowed
        /\ \A s \in Steps : Conserved(s)
        /\ ~cli.strayed => Attributed
    BY DEF IInv
  <2>2. TypeOK' /\ Reported' /\ Counted'
    BY <1>1, <2>1, TypesKept, ReportedKept, CountedKept
  <2>3. Placed' /\ Ended' /\ Answerable'
    BY <1>1, <2>1, RoundsKept
  <2>4. ASSUME NEW s \in Steps PROVE Conserved(s)'
    BY <1>1, <2>1, ConservedKept
  <2>5. Windowed'
    BY <1>1, <2>1, WindowKept
  <2>6. ~cli'.strayed => Attributed'
    BY <1>1, <2>1, StrayedKept, AttributedKept
  <2> QED BY <2>2, <2>3, <2>4, <2>5, <2>6 DEF IInv
<1>2. CASE UNCHANGED vars
  BY <1>2, Stutters
<1> QED BY <1>1, <1>2

\* The invariant holds in every state.
LEMMA Invariance == Spec => []IInv
BY InitIInv, IInvStep, PTL DEF Spec

\* Every variable, and every field of the session, of its rounds and of what the
\* mod posts, keeps its type (session.go).
THEOREM TypeCorrect == Spec => []TypeOK
<1>1. IInv => TypeOK
  BY DEF IInv
<1> QED BY <1>1, Invariance, PTL

\* Whatever order the end of a round, an abort, the manager's TakeCarried, a Close
\* and a late report of the mod take the mutex in, what a model step used is in
\* one place at a time and is never billed twice; it stays where it is or is
\* handed on, and is thrown away only with a session that failed to start or a
\* daemon that stops (completeRound, abortRound, TakeCarried and Close of
\* session.go).
THEOREM UsageIsConserved == Spec => []UsageConserved
<1>1. IInv => UsageConserved
  <2> SUFFICES ASSUME IInv, NEW s \in Steps
               PROVE  session.carried[s] + InARound(s) + billed[s] + dropped[s] = IF s \in used THEN 1 ELSE 0
    BY DEF UsageConserved
  <2> DEFINE holding == {r \in RoundIds : rounds[r].usage[s] > 0}
  <2>1. Conserved(s) /\ TypeOK
    BY DEF IInv
  <2>2. /\ session.carried \in [Steps -> Nat] /\ billed \in [Steps -> Nat] /\ dropped \in [Steps -> Nat]
    BY <2>1, Records DEF SessionRecord, HistoryTypes
  <2>3. session.carried[s] \in Nat /\ billed[s] \in Nat /\ dropped[s] \in Nat
    BY <2>2
  <2>4. \A r \in RoundIds : rounds[r].usage[s] \in Nat
    BY <2>1, Counts
  <2>5. \A r \in RoundIds : rounds[r].usage[s] > 0 <=> rounds[r].usage[s] # 0
    BY <2>4
  <2>6. Kept(s) \in Nat /\ Kept(s) <= 1
    BY <2>1, Counts DEF Conserved
  <2>7. CASE \E r \in RoundIds : rounds[r].usage[s] # 0
    <3>1. PICK r \in RoundIds : rounds[r].usage[s] # 0
      BY <2>7
    <3>2. Kept(s) = 0 /\ s \in used
      BY <2>1, <3>1 DEF Conserved
    <3>3. holding = {r}
      BY <2>1, <2>5, <3>1, Zenon DEF Conserved
    <3>4. InARound(s) = 1
      BY <3>3, FS_Singleton DEF InARound
    <3>5. session.carried[s] + billed[s] + dropped[s] = 0
      BY <3>2 DEF Kept
    <3> QED BY <2>3, <3>2, <3>4, <3>5
  <2>8. CASE \A r \in RoundIds : rounds[r].usage[s] = 0
    <3>1. holding = {}
      BY <2>5, <2>8, Zenon
    <3>2. InARound(s) = 0
      BY <3>1, FS_EmptySet DEF InARound
    <3>3. s \in used <=> Kept(s) = 1
      BY <2>1, <2>8, Zenon DEF Conserved
    <3>4. session.carried[s] + billed[s] + dropped[s] = Kept(s)
      BY DEF Kept
    <3> QED BY <2>3, <2>6, <3>2, <3>3, <3>4
  <2> QED BY <2>7, <2>8
<1> QED BY <1>1, Invariance, PTL

\* Claude Code is handed the whole window, oldest step first, before its model
\* makes a step of its own (armReplay and onStepStart of session.go).
THEOREM TheWindowComesFirst == Spec => []ReplayedInOrder
<1>1. IInv => ReplayedInOrder
  <2> SUFFICES ASSUME IInv PROVE ReplayedInOrder
    OBVIOUS
  <2>1. Windowed /\ TypeOK
    BY DEF IInv
  <2>2. cli.step \in Nat /\ replayed \in Seq(1..Window)
    BY <2>1, Records, Bounds DEF CliRecord, HistoryTypes
  <2>3. Len(<<>>) = 0 /\ \A i \in 1..0 : FALSE
    BY SMT
  <2>4. CASE Quiet
    <3>1. replayed = <<>> /\ cli.step = 0
      BY <2>4 DEF Quiet
    <3>2. Len(replayed) = 0 /\ ~(cli.step > 0)
      BY <2>3, <3>1
    <3> QED BY <2>3, <3>2 DEF ReplayedInOrder
  <2>5. CASE Armed
    <3>1. \A i \in 1..Len(replayed) : replayed[i] = i
      BY <2>5 DEF Armed
    <3>2. ASSUME cli.step > 0 PROVE Len(replayed) = Window
      <4>1. session.replay = <<>> /\ Len(replayed) + Len(session.replay) = Window
        BY <2>2, <2>5, <3>2 DEF Armed
      <4>2. Len(replayed) \in Nat
        BY <2>2
      <4> QED BY <2>3, <4>1, <4>2
    <3> QED BY <3>1, <3>2 DEF ReplayedInOrder
  <2> QED BY <2>1, <2>4, <2>5 DEF Windowed
<1> QED BY <1>1, Invariance, PTL

\* Though no report of the mod names its round, a round is ended by the turn that
\* was given its prompt or waited for its results, unless Claude Code has started
\* a turn of its own (onStepEnd, onTurnComplete and onError of session.go).
THEOREM RoundsEndByTheirTurn == Spec => []EndedByItsOwnTurn
<1>1. IInv => EndedByItsOwnTurn
  BY DEF IInv, Attributed, EndedByItsOwnTurn
<1> QED BY <1>1, Invariance, PTL

=============================================================================
