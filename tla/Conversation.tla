---------------------------- MODULE Conversation ----------------------------
(***************************************************************************)
(* What a CLI is told of a conversation: Reconcile                         *)
(* (internal/cliround/reconcile.go), the rounds that use it (planRound,    *)
(* runSteps, finishRound of cliround/manager.go), and what a session is    *)
(* rebuilt from: planRebuild and armReplay (claudepty/rebuild.go),         *)
(* historyItems and splitTrailingUser (codexrpc/items.go).                 *)
(*                                                                         *)
(* Platform keeps the history and sends all of it with every round.  The   *)
(* daemon compares it with what its warm session has taken in, and either  *)
(* feeds the session what is new or starts another from the history.       *)
(* CLIRounds has the concurrency of rounds, CodexThread and ClaudeSession  *)
(* how a round is run; here a conversation has one round at a time.        *)
(***************************************************************************)
EXTENDS Naturals, FiniteSets, SequencesExt

CONSTANTS
  Harnesses,         \* the CLIs a conversation may run on
  ReplayStepWindow,  \* the steps a rebuilt Claude Code replays
  MaxCalls,          \* the tool calls of one step
  MaxRows,           \* bound on the rows of a history
  MaxMade            \* bound on the texts, calls and keys ever made

ASSUME ConversationAssumption ==
  /\ Harnesses \subseteq {"claude", "codex"} /\ Harnesses # {}
  /\ ReplayStepWindow \in Nat \ {0} /\ MaxCalls \in Nat \ {0}
  /\ MaxRows \in Nat \ {0} /\ MaxMade \in Nat \ {0}

VARIABLES
  conversation,  \* Platform's side: the history, the frame, the output it has yet to store
  runner,        \* the warm session: its frame, cliround.Consumed, and whether it is dirty
  context,       \* all that the CLI of that session has been told and has said
  round          \* the round in progress

conversationVars == <<conversation, runner, context, round>>

-----------------------------------------------------------------------------
(***************************************************************************)
(* Rows, outputs and what a CLI reads.  A text is a number, 0 the empty    *)
(* one.  A reply may hold a stage direction that Platform strips before it *)
(* stores it.  A key names a row as Platform last wrote it; 0 is no key.   *)
(***************************************************************************)
User(key, text) == [role |-> "user", key |-> key, text |-> text, directive |-> FALSE, calls |-> <<>>, callId |-> 0]

Assistant(key, text, directive, calls) ==
  [role |-> "assistant", key |-> key, text |-> text, directive |-> directive, calls |-> calls, callId |-> 0]

ToolResult(callId) ==
  [role |-> "tool", key |-> callId, text |-> 0, directive |-> FALSE, calls |-> <<>>, callId |-> callId]

NoOutput == [kind |-> "none", text |-> 0, directive |-> FALSE, calls |-> <<>>]

NoRunner == [isUp |-> FALSE, frame |-> 0, keys |-> <<>>, pending |-> NoOutput, dirty |-> FALSE]

NoPlan == [reason |-> "none", accept |-> <<>>, results |-> <<>>, newInput |-> <<>>]

NoRound == [phase |-> "idle", items |-> <<>>, frame |-> 0, plan |-> NoPlan, rebuiltOnce |-> FALSE,
            untouched |-> FALSE]

\* An entry of a CLI's context: a user's text, a reply, a call, a result, or what stands in for one.
Says(kind, n) == <<kind, n>>

Entries(row) ==
  CASE row.role = "user" -> <<Says("user", row.text)>>
    [] row.role = "assistant" ->
         (IF row.text # 0 THEN <<Says("reply", row.text)>> ELSE <<>>)
           \o [i \in DOMAIN row.calls |-> Says("call", row.calls[i])]
    [] row.role = "tool" -> <<Says("result", row.callId)>>

HistoryItems(rows) == FlattenSeq([i \in DOMAIN rows |-> Entries(rows[i])])

AllUserItems(rows) == \A i \in DOMAIN rows : rows[i].role = "user"

-----------------------------------------------------------------------------
(***************************************************************************)
(* Reconcile                                                               *)
(***************************************************************************)
Rebuild(reason) == [NoPlan EXCEPT !.reason = reason]

From(rows, first) == SubSeq(rows, first, Len(rows))

\* Both texts without their stage directions.
SameReply(row, pending) == row.text = pending.text

ReconcileAnswer(pending, remaining) ==
  IF \/ remaining = <<>>
     \/ remaining[1].role # "assistant" \/ remaining[1].calls # <<>>
     \/ ~SameReply(remaining[1], pending)
  THEN Rebuild("reply_changed")
  ELSE IF remaining[1].key = 0 \/ ~AllUserItems(Tail(remaining))
  THEN Rebuild("history_diverged")
  ELSE [NoPlan EXCEPT !.accept = <<remaining[1].key>>, !.newInput = Tail(remaining)]

\* The results that follow the accepted row, up to the first row that is none.
ResultRun(remaining) ==
  LET end == SelectInSeq(Tail(remaining), LAMBDA row : row.role # "tool")
  IN IF end = 0 THEN Tail(remaining) ELSE SubSeq(remaining, 2, end)

\* Results accepted only in the order of the calls.
MutantAnswersCalls(results, calls) == [i \in DOMAIN results |-> results[i].callId] = calls

\* One result for every pending call, in whatever order Platform stored them.
AnswersCalls(results, calls) ==
  /\ Len(results) = Len(calls)
  /\ {results[i].callId : i \in DOMAIN results} = ToSet(calls)

InCallOrder(results, calls) ==
  [i \in DOMAIN calls |-> results[SelectInSeq(results, LAMBDA row : row.callId = calls[i])]]

ReconcileCalls(pending, remaining) ==
  IF \/ remaining = <<>>
     \/ remaining[1].role # "assistant" \/ remaining[1].key = 0 \/ remaining[1].calls # pending.calls
  THEN Rebuild("history_diverged")
  ELSE LET results == ResultRun(remaining)
           input == From(remaining, Len(results) + 2)
       IN IF ~AnswersCalls(results, pending.calls) \/ ~AllUserItems(input)
          THEN Rebuild("history_diverged")
          ELSE [NoPlan EXCEPT !.accept = <<remaining[1].key>>,
                              !.results = InCallOrder(results, pending.calls), !.newInput = input]

\* Only the number of the rows compared.
MutantNames(keys, items) == Len(keys) <= Len(items)

Names(keys, items) ==
  /\ Len(keys) <= Len(items)
  /\ \A i \in DOMAIN keys : keys[i] # 0 /\ keys[i] = items[i].key

Reconcile(frame, warm, items) ==
  IF ~warm.isUp THEN Rebuild("no_session")
  ELSE IF frame # warm.frame THEN Rebuild("frame_changed")
  ELSE IF ~Names(warm.keys, items) THEN Rebuild("history_diverged")
  ELSE LET remaining == From(items, Len(warm.keys) + 1)
       IN CASE warm.pending.kind = "answer" -> ReconcileAnswer(warm.pending, remaining)
            [] warm.pending.kind = "calls" -> ReconcileCalls(warm.pending, remaining)
            [] OTHER -> IF AllUserItems(remaining) THEN [NoPlan EXCEPT !.newInput = remaining]
                        ELSE Rebuild("history_diverged")

-----------------------------------------------------------------------------
(***************************************************************************)
(* What a new session is started from                                      *)
(***************************************************************************)
IsAnswer(row) == row.role = "assistant" /\ row.calls = <<>>

Steps(rows) == {i \in DOMAIN rows : rows[i].role = "assistant"}

\* The open turn starts after the last reply.
OpenStart(items) == SelectLastInSeq(items, IsAnswer)

\* planRebuild: the record, the rows of the prompt, and the steps to replay.
PlanRebuild(items) ==
  LET open == From(items, OpenStart(items) + 1)
      first == SelectInSeq(open, LAMBDA row : row.role # "user")
      leading == IF first = 0 THEN Len(open) ELSE first - 1
      rest == From(open, leading + 1)
      isFirst(i) == Cardinality({j \in Steps(rest) : j >= i}) = ReplayStepWindow
  IN IF Cardinality(Steps(rest)) <= ReplayStepWindow
     THEN [seed |-> SubSeq(items, 1, OpenStart(items)), prompt |-> SubSeq(open, 1, leading), goesOn |-> FALSE,
           window |-> IF Steps(rest) = {} THEN <<>> ELSE rest]
     ELSE LET cut == CHOOSE i \in Steps(rest) : isFirst(i)
          IN [seed |-> SubSeq(items, 1, OpenStart(items) + leading + cut - 1), prompt |-> <<>>, goesOn |-> TRUE,
              window |-> From(rest, cut)]

\* The user rows of the window that ride on the result of a call: those whose last result before them is that one.
RidesOn(window, callId) ==
  LET lastResult(i) == SelectLastInSeq(SubSeq(window, 1, i), LAMBDA row : row.role = "tool")
      rides(i) == /\ window[i].role = "user" /\ lastResult(i) # 0
                  /\ window[lastResult(i)].callId = callId
  IN HistoryItems(SelectSeq([i \in DOMAIN window |-> IF rides(i) THEN window[i] ELSE User(0, 0)],
                            LAMBDA row : row.text # 0))

\* armReplay: each step of the window, then what the hook of each of its calls is answered.
ArmReplay(window) ==
  LET hasResult(callId) == \E i \in DOMAIN window : window[i].role = "tool" /\ window[i].callId = callId
      answer(callId) == IF hasResult(callId) THEN <<Says("result", callId)>> \o RidesOn(window, callId)
                        ELSE <<Says("missing", callId)>>
      answers(row) == FlattenSeq([i \in DOMAIN row.calls |-> answer(row.calls[i])])
  IN FlattenSeq([i \in DOMAIN window |->
       IF window[i].role = "assistant" THEN Entries(window[i]) \o answers(window[i]) ELSE <<>>])

ClaudeContext(items) ==
  LET plan == PlanRebuild(items)
  IN HistoryItems(plan.seed)
       \o (IF plan.goesOn THEN <<Says("continue", 0)>> ELSE HistoryItems(plan.prompt))
       \o ArmReplay(plan.window)

\* splitTrailingUser: the history is injected, and the user rows after it are the input of the turn.
CodexContext(items) ==
  LET cut == SelectLastInSeq(items, LAMBDA row : row.role # "user")
  IN HistoryItems(SubSeq(items, 1, cut)) \o HistoryItems(From(items, cut + 1))

-----------------------------------------------------------------------------
ConversationInit ==
  /\ conversation \in [harness : Harnesses, items : {<<User(1, 1)>>}, frame : {1}, made : {1},
                       output : {NoOutput}, untouched : {FALSE}]
  /\ runner = NoRunner
  /\ context = <<>>
  /\ round = NoRound

-----------------------------------------------------------------------------
(***************************************************************************)
(* Platform                                                                *)
(***************************************************************************)
\* A round works on the rows it was asked with: what Platform does meanwhile may as well come after it.
Idle == round.phase = "idle"

CanMake(n) == conversation.made + n <= MaxMade

\* The new rows, and whether the conversation still only went on from the last round.
Keeps(items, untouched) ==
  conversation' = [conversation EXCEPT !.items = items, !.made = @ + 1, !.untouched = @ /\ untouched]

LastStep == SelectLastInSeq(conversation.items, LAMBDA row : row.role = "assistant")

\* The calls of the last step with no result yet.
Unanswered ==
  IF LastStep = 0 THEN {}
  ELSE ToSet(conversation.items[LastStep].calls)
         \ {conversation.items[i].callId : i \in LastStep + 1..Len(conversation.items)}

Running == \A i \in LastStep + 1..Len(conversation.items) : conversation.items[i].role = "tool"

\* A user row, which takes the place of the results still to come when the user stops the tools.
UserWrites(isNamed) ==
  /\ Idle /\ CanMake(1) /\ Len(conversation.items) < MaxRows
  /\ Keeps(Append(conversation.items, User(IF isNamed THEN conversation.made + 1 ELSE 0, conversation.made + 1)),
           /\ conversation.output.kind = "none" /\ Unanswered = {})
  /\ UNCHANGED <<runner, context, round>>

\* A user's row is written again, under another key.
UserEdits(i) ==
  /\ Idle /\ CanMake(1) /\ conversation.items[i].role = "user"
  /\ Keeps([conversation.items EXCEPT ![i] = User(conversation.made + 1, conversation.made + 1)], FALSE)
  /\ UNCHANGED <<runner, context, round>>

\* The closed turns become a summary.
Compacts ==
  LET openStart == SelectLastInSeq(conversation.items, IsAnswer)
  IN /\ Idle /\ CanMake(1) /\ openStart # 0
     /\ Keeps(<<User(conversation.made + 1, conversation.made + 1)>> \o From(conversation.items, openStart + 1),
              FALSE)
     /\ UNCHANGED <<runner, context, round>>

ChangesFrame ==
  /\ Idle /\ conversation.frame = 1
  /\ conversation' = [conversation EXCEPT !.frame = 2, !.untouched = FALSE]
  /\ UNCHANGED <<runner, context, round>>

\* The reply is stored without its stage direction, or as a reviewer of it changed it.
StoresAnswer(isChanged) ==
  /\ Idle /\ conversation.output.kind = "answer"
  /\ Len(conversation.items) < MaxRows /\ (isChanged => CanMake(1))
  /\ LET text == IF isChanged THEN conversation.made + 1 ELSE conversation.output.text
     IN conversation' = [conversation EXCEPT
          !.items = Append(@, Assistant(text, text, FALSE, <<>>)),
          !.made = IF isChanged THEN @ + 1 ELSE @, !.output = NoOutput, !.untouched = @ /\ ~isChanged]
  /\ UNCHANGED <<runner, context, round>>

StoresCalls ==
  /\ Idle /\ conversation.output.kind = "calls"
  /\ CanMake(1) /\ Len(conversation.items) < MaxRows
  /\ conversation' = [conversation EXCEPT
       !.items = Append(@, Assistant(conversation.made + 1, 0, FALSE, conversation.output.calls)),
       !.made = @ + 1, !.output = NoOutput]
  /\ UNCHANGED <<runner, context, round>>

\* The stream broke before Platform had the result.
LosesOutput ==
  /\ Idle /\ conversation.output.kind # "none"
  /\ conversation' = [conversation EXCEPT !.output = NoOutput, !.untouched = FALSE]
  /\ UNCHANGED <<runner, context, round>>

ResultArrives(callId) ==
  /\ Idle /\ callId \in Unanswered /\ Running
  /\ Len(conversation.items) < MaxRows
  /\ conversation' = [conversation EXCEPT !.items = Append(@, ToolResult(callId))]
  /\ UNCHANGED <<runner, context, round>>

\* Platform asks for a step once the tools have ended, or the user has stopped them.
AsksRound ==
  /\ Idle /\ conversation.output.kind = "none"
  /\ Unanswered = {} \/ ~Running
  /\ round' = [NoRound EXCEPT !.phase = "asked", !.items = conversation.items, !.frame = conversation.frame,
                              !.untouched = /\ conversation.untouched /\ Unanswered = {}
                                            /\ \A i \in DOMAIN conversation.items : conversation.items[i].key # 0]
  /\ UNCHANGED <<conversation, runner, context>>

-----------------------------------------------------------------------------
(***************************************************************************)
(* The round                                                               *)
(***************************************************************************)
ReplaceRunner == runner' = NoRunner /\ context' = <<>>

PlanRound ==
  /\ round.phase = "asked"
  /\ LET plan == IF runner.dirty THEN Rebuild("dirty") ELSE Reconcile(round.frame, runner, round.items)
     IN /\ round' = [round EXCEPT !.phase = "planned", !.plan = plan]
        /\ IF plan.reason = "none" THEN UNCHANGED <<runner, context>> ELSE ReplaceRunner
  /\ UNCHANGED conversation

\* Extend: results and new input go to the CLI that waits for them.
Extends ==
  /\ round.phase = "planned" /\ round.plan.reason = "none"
  /\ round.plan.results # <<>> \/ round.plan.newInput # <<>>
  /\ context' = context \o HistoryItems(round.plan.results) \o HistoryItems(round.plan.newInput)
  /\ round' = [round EXCEPT !.phase = "running"]
  /\ UNCHANGED <<conversation, runner>>

\* What a Factory refuses: nothing to prompt Claude Code with, nothing new for Codex.
NothingNew(items) ==
  CASE conversation.harness = "claude" -> PlanRebuild(items).prompt = <<>> /\ ~PlanRebuild(items).goesOn
    [] conversation.harness = "codex" -> items = <<>> \/ Last(items).role = "assistant"

Rebuilds ==
  /\ round.phase = "planned" /\ round.plan.reason # "none" /\ ~NothingNew(round.items)
  /\ context' = CASE conversation.harness = "claude" -> ClaudeContext(round.items)
                  [] conversation.harness = "codex" -> CodexContext(round.items)
  /\ runner' = [NoRunner EXCEPT !.isUp = TRUE, !.frame = round.frame]
  /\ round' = [round EXCEPT !.phase = "running"]
  /\ UNCHANGED conversation

\* The CLI's context is full, or the session was disturbed since the round was planned: one more session.
RebuildsOnce ==
  /\ round.phase = "running" /\ ~round.rebuiltOnce
  /\ ReplaceRunner
  /\ round' = [round EXCEPT !.phase = "planned", !.plan = Rebuild("context_full"), !.rebuiltOnce = TRUE]
  /\ UNCHANGED conversation

\* finishRound: the session has taken in every row, and waits for Platform to accept what it made of them.
FinishRound(output) ==
  /\ round.phase = "running"
  /\ runner' = [runner EXCEPT !.keys = [i \in DOMAIN round.items |-> round.items[i].key],
                              !.pending = output, !.dirty = output.kind = "none"]
  /\ round' = NoRound
  /\ conversation' = [conversation EXCEPT
       !.output = output, !.made = @ + Len(output.calls) + (IF output.text # 0 THEN 1 ELSE 0),
       !.untouched = output.kind # "none"]

Answers(directive) ==
  /\ CanMake(1)
  /\ FinishRound([NoOutput EXCEPT !.kind = "answer", !.text = conversation.made + 1, !.directive = directive])
  /\ context' = Append(context, Says("reply", conversation.made + 1))

CallsTools(n) ==
  /\ CanMake(n)
  /\ LET calls == [i \in 1..n |-> conversation.made + i]
     IN /\ FinishRound([NoOutput EXCEPT !.kind = "calls", !.calls = calls])
        /\ context' = context \o [i \in 1..n |-> Says("call", calls[i])]

\* The reply was cut short or refused.
EndsOtherwise == FinishRound(NoOutput) /\ UNCHANGED context

\* failRound: a warm session is left dirty, one that was being started is closed by its Factory.
FailRound ==
  /\ round.phase \in {"planned", "running"}
  /\ IF round.plan.reason = "none" THEN runner' = [runner EXCEPT !.dirty = TRUE] /\ UNCHANGED context
     ELSE ReplaceRunner
  /\ round' = NoRound
  /\ UNCHANGED conversation

\* The session is idle too long, gives way to another conversation, or ends with the daemon.
DropRunner ==
  /\ Idle /\ runner.isUp
  /\ ReplaceRunner
  /\ UNCHANGED <<conversation, round>>

-----------------------------------------------------------------------------
Platform ==
  \/ \E isNamed \in BOOLEAN : UserWrites(isNamed)
  \/ \E i \in DOMAIN conversation.items : UserEdits(i)
  \/ Compacts \/ ChangesFrame
  \/ \E isChanged \in BOOLEAN : StoresAnswer(isChanged)
  \/ StoresCalls \/ LosesOutput
  \/ \E callId \in 1..MaxMade : ResultArrives(callId)
  \/ AsksRound

Daemon ==
  \/ PlanRound \/ Extends \/ Rebuilds \/ RebuildsOnce \/ FailRound \/ DropRunner
  \/ \E directive \in BOOLEAN : Answers(directive)
  \/ \E n \in 1..MaxCalls : CallsTools(n)
  \/ EndsOtherwise

ConversationNext == Platform \/ Daemon

ConversationSpec == ConversationInit /\ [][ConversationNext]_conversationVars

-----------------------------------------------------------------------------
(***************************************************************************)
(* Properties                                                              *)
(***************************************************************************)
Kinds == {"user", "reply", "call", "result", "missing", "continue"}

Rows == [role : {"user", "assistant", "tool"}, key : 0..MaxMade, text : 0..MaxMade, directive : BOOLEAN,
         calls : UNION {[1..n -> 1..MaxMade] : n \in 0..MaxCalls}, callId : 0..MaxMade]

\* The shape of the state.
ConversationTypeOK ==
  /\ conversation.harness \in Harnesses /\ conversation.made \in 1..MaxMade /\ conversation.untouched \in BOOLEAN
  /\ \A i \in DOMAIN conversation.items : conversation.items[i] \in Rows
  /\ round.phase \in {"idle", "asked", "planned", "running"} /\ round.rebuiltOnce \in BOOLEAN
  /\ \A i \in DOMAIN context : context[i] \in Kinds \X (0..MaxMade)
  /\ runner.isUp \in BOOLEAN /\ runner.dirty \in BOOLEAN

\* What the rows say, without the lines that stand in for a row.
Told == SelectSeq(context, LAMBDA entry : entry[1] \notin {"missing", "continue"})

Where(entries, entry) == CHOOSE i \in DOMAIN entries : entries[i] = entry

\* Every row once and in order; only the results of one batch, and the user rows that ride on them, may trade places.
SaysTheSame(said, rows) ==
  LET history == HistoryItems(rows)
      oneBatch(i, j) == history[i][1] = "result" /\ \A k \in i..j : history[k][1] \notin {"reply", "call"}
  IN /\ Len(said) = Len(history) /\ ToSet(said) = ToSet(history)
     /\ \A i, j \in DOMAIN history :
          i < j /\ ~oneBatch(i, j) => Where(said, history[i]) < Where(said, history[j])

LeavesCallsOpen(rows) ==
  \E i \in DOMAIN rows : \E k \in DOMAIN rows[i].calls :
    \A j \in DOMAIN rows : rows[j].callId # rows[i].calls[k]

\* A CLI at work on a round has been told the conversation as Platform has it: no row lost, doubled or out of its
\* place, whether its session was extended (Extend) or rebuilt (planRebuild and armReplay, historyItems).  Histories
\* with a call that never got its result are left to EveryRowReachesTheCLI.
ContextIsHistory ==
  round.phase = "running" /\ ~LeavesCallsOpen(round.items) => SaysTheSame(Told, round.items)

\* The same for every history, as README.md:341-343 has it: a rebuilt session "replays at most the last 64 steps of
\* the open turn" and "receives everything before them as a record".
EveryRowReachesTheCLI == round.phase = "running" => SaysTheSame(Told, round.items)

\* A conversation that only went on from its last round (the reply or all the results, then user rows) keeps its
\* session: Reconcile finds no reason to rebuild it, however the results are ordered and whatever Platform stripped
\* from the reply.
StaysWarm ==
  [][PlanRound /\ round.untouched /\ runner.isUp /\ ~runner.dirty => round'.plan.reason = "none"]_conversationVars
=============================================================================
