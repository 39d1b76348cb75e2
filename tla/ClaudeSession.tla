--------------------------- MODULE ClaudeSession ---------------------------
(***************************************************************************)
(* One warm Claude Code conversation: internal/claudepty/session.go, the   *)
(* rebuild that creates it (rebuild.go) and the turn hooks of the mod that *)
(* runs inside Claude Code (claudemod/files/hooks/register.ts).            *)
(*                                                                         *)
(* The caller (Factory or Extend), whoever closes the session, the         *)
(* goroutines that word a failed turn and the handlers of what the mod     *)
(* posts meet under the session's mutex; each of their critical sections   *)
(* is one step.  The bridge is the reliable queue ModBridge shows it to    *)
(* be.  A post is a request of its own: the handler that took it may still *)
(* be waiting for the mutex when the process that sent it is dead.         *)
(***************************************************************************)
EXTENDS Naturals, Sequences, FiniteSets

CONSTANTS
  Window,      \* the number of steps a rebuild replays
  Strays,      \* whether Claude Code may start a turn of its own
  Reasons,     \* how a step may end a turn: subset of TurnReasons
  MaxRounds,   \* bound on the rounds opened on the session
  MaxSteps     \* bound on the model steps that are really made

TurnReasons == {"answer", "refusal", "aborted", "error"}

ASSUME ClaudeAssumption ==
  /\ Window \in Nat /\ Strays \in BOOLEAN /\ Reasons \subseteq TurnReasons
  /\ MaxRounds \in Nat \ {0} /\ MaxSteps \in Nat \ {0}

VARIABLES
  session,   \* Session
  rounds,    \* every round opened on it
  caller,    \* the goroutine in Factory or Extend
  closer,    \* the goroutine in Close
  failers,   \* the rounds some failTurn still watches the screen for
  commands,  \* the bridge's queue to the mod
  results,   \* the tool results the bridge holds
  cli,       \* the process: the engine's turn and step, and the mod's hooks
  post,      \* the mod's request that no handler has taken yet
  used,              \* history: the steps whose usage a handler has taken
  billed, dropped,   \* history: usage given to the conversation, and thrown away
  replayed,          \* history: the window's steps the mod was given
  serves, endedBy,   \* history: the turn that serves each round, and that ended it
  orphaned           \* history: a turn ended while it was waiting for Platform

history == <<used, billed, dropped, replayed, serves, endedBy, orphaned>>
vars == <<session, rounds, caller, closer, failers, commands, results, cli, post, history>>

-----------------------------------------------------------------------------
RoundIds == 1..MaxRounds
Steps == 1..MaxSteps
Turns == 0..MaxRounds  \* a turn is known by the round whose prompt started it, or 0
Errors == {"error", "context full", "closed"}
Ends == {"tool_calls", "answer", "length", "refused"} \cup Errors

\* A tool call is known by the step that made it.
Call == [step : Steps, made : {"real"}] \cup [step : 1..Window, made : {"replay"}]
NoCall == [step |-> 0, made |-> "none"]

NoPost == [kind |-> "none", of |-> "none", step |-> 0, turn |-> 0]
StepEnds == {"tools", "foreign tool", "text", "max_tokens", "context exceeded"}

TypeOK ==
  /\ session \in [state : {"starting", "running", "waiting", "idle", "dirty"}, current : 0..MaxRounds,
                  replay : Seq(1..Window), rebuilt : Nat, carried : [Steps -> Nat], closed : BOOLEAN]
  /\ rounds \in [RoundIds -> [opened : BOOLEAN, finished : BOOLEAN, done : Seq(Ends), settled : BOOLEAN,
                              usage : [Steps -> Nat], lastStop : StepEnds \cup {"none"}, texts : BOOLEAN,
                              calls : 0..MaxSteps]]
  /\ caller \in [pc : {"out", "start", "seed", "seeding", "open", "arm", "submit", "rebuild", "feed",
                       "await", "complete", "abort", "fail", "failing", "given up"},
                 round : 0..MaxRounds, isNew : BOOLEAN, feeds : {"results", "prompt", "nothing"}]
  /\ closer \in [pc : {"out", "begin", "kill", "take", "done"}, keeps : BOOLEAN]
  /\ failers \subseteq RoundIds
  /\ commands \in Seq([kind : {"seed", "submit"}, round : 0..MaxRounds])
  /\ results \subseteq Call
  /\ cli \in [up : BOOLEAN, pc : {"idle", "step", "asking", "real", "reporting", "tools", "ending",
                                  "completing", "erring", "erring late"},
              turn : 0..MaxRounds, strayed : BOOLEAN, step : 0..MaxSteps, call : Call \cup {NoCall},
              reason : TurnReasons, prompts : Seq(RoundIds), seeded : BOOLEAN]
  /\ post \in [kind : {"none", "step-start", "step-end", "turn-complete", "event"},
               of : StepEnds \cup TurnReasons \cup {"none"}, step : 0..MaxSteps, turn : Turns]
  /\ used \subseteq Steps /\ billed \in [Steps -> Nat] /\ dropped \in [Steps -> Nat]
  /\ replayed \in Seq(1..Window)
  /\ serves \in [RoundIds -> SUBSET Turns] /\ endedBy \in [RoundIds -> SUBSET Turns]
  /\ orphaned \in BOOLEAN

Nothing == [s \in Steps |-> 0]
Plus(bag, more) == [s \in Steps |-> bag[s] + more[s]]
Once(step) == [s \in Steps |-> IF s = step THEN 1 ELSE 0]

Init ==
  /\ session = [state |-> "starting", current |-> 0, replay |-> <<>>, rebuilt |-> 0,
                carried |-> Nothing, closed |-> FALSE]
  /\ rounds = [r \in RoundIds |-> [opened |-> FALSE, finished |-> FALSE, done |-> <<>>, settled |-> FALSE,
                                   usage |-> Nothing, lastStop |-> "none", texts |-> FALSE,
                                   calls |-> 0]]
  /\ caller = [pc |-> "start", round |-> 0, isNew |-> TRUE, feeds |-> "prompt"]
  /\ closer = [pc |-> "out", keeps |-> FALSE]
  /\ failers = {} /\ commands = <<>> /\ results = {}
  /\ cli = [up |-> FALSE, pc |-> "idle", turn |-> 0, strayed |-> FALSE, step |-> 0, call |-> NoCall,
            reason |-> "answer", prompts |-> <<>>, seeded |-> FALSE]
  /\ post = NoPost
  /\ used = {} /\ billed = Nothing /\ dropped = Nothing /\ replayed = <<>>
  /\ serves = [r \in RoundIds |-> {}] /\ endedBy = [r \in RoundIds |-> {}] /\ orphaned = FALSE

-----------------------------------------------------------------------------
(***************************************************************************)
(* What the handlers do under the mutex                                    *)
(***************************************************************************)
\* finishLocked ends a round once; whoever comes second finds it finished.
Finish(r, end) ==
  IF rounds[r].finished THEN rounds
  ELSE [rounds EXCEPT ![r].finished = TRUE, ![r].done = Append(@, end)]

\* markRebuiltLocked closes rebuildDone, once: a second close would panic.
Rebuilt(s) == [s EXCEPT !.rebuilt = IF @ = 0 THEN 1 ELSE @]

MutantEndWith(r, end) == rounds' = Finish(r, end) /\ UNCHANGED session

\* The end of a round also ends the wait for the rebuild.
EndWith(r, end) ==
  /\ rounds' = Finish(r, end)
  /\ session' = IF rounds[r].finished THEN session ELSE Rebuilt(session)

MutantEndRound(r) ==
  /\ rounds' = [rounds EXCEPT ![r].finished = TRUE, ![r].settled = TRUE, ![r].usage = Nothing]
  /\ session' = [session EXCEPT !.current = IF @ = r THEN 0 ELSE @, !.state = "dirty"]

MutantStaysClean(r) ==
  /\ rounds' = [rounds EXCEPT ![r].finished = TRUE, ![r].settled = TRUE, ![r].usage = Nothing]
  /\ session' = [session EXCEPT !.carried = Plus(@, rounds[r].usage),
                                !.current = IF @ = r THEN 0 ELSE @, !.state = "idle"]

\* endRoundLocked: what a failed round used is carried.
EndRound(r) ==
  /\ rounds' = [rounds EXCEPT ![r].finished = TRUE, ![r].settled = TRUE, ![r].usage = Nothing]
  /\ session' = [session EXCEPT !.carried = Plus(@, rounds[r].usage),
                                !.current = IF @ = r THEN 0 ELSE @, !.state = "dirty"]

InRound == session.current # 0 /\ ~rounds[session.current].finished

Step(pc) == caller' = [caller EXCEPT !.pc = pc]

-----------------------------------------------------------------------------
(***************************************************************************)
(* Factory: the process, the record, the window and the prompt             *)
(***************************************************************************)
ProcessStarts ==
  /\ caller.pc = "start"
  /\ cli' = [cli EXCEPT !.up = TRUE]
  /\ Step("seed")
  /\ UNCHANGED <<session, rounds, closer, failers, commands, results, post, history>>

ProcessFails ==
  /\ caller.pc = "start"
  /\ Step("given up")
  /\ UNCHANGED <<session, rounds, closer, failers, commands, results, cli, post, history>>

\* The record is sent and acknowledged before the round opens; it may be empty.
Seeds ==
  /\ caller.pc = "seed"
  /\ \/ Step("open") /\ UNCHANGED commands
     \/ commands' = Append(commands, [kind |-> "seed", round |-> 0]) /\ Step("seeding")
  /\ UNCHANGED <<session, rounds, closer, failers, results, cli, post, history>>

Seeded ==
  /\ caller.pc = "seeding" /\ cli.seeded
  /\ Step("open")
  /\ UNCHANGED <<session, rounds, closer, failers, commands, results, cli, post, history>>

Refused == Step(IF caller.isNew THEN "fail" ELSE "out")

OpenRound ==
  /\ caller.pc = "open"
  /\ \/ /\ session.closed \/ ~cli.up \/ session.state = "dirty"
        /\ Refused
        /\ UNCHANGED <<session, rounds, serves>>
     \/ /\ ~session.closed /\ cli.up /\ session.state # "dirty" /\ caller.round < MaxRounds
        /\ LET r == caller.round + 1 IN
           /\ rounds' = [rounds EXCEPT ![r].opened = TRUE]
           /\ session' = [session EXCEPT !.current = r, !.state = "running"]
           /\ caller' = [caller EXCEPT !.round = r, !.pc = IF caller.isNew THEN "arm" ELSE "feed"]
           /\ serves' = [serves EXCEPT ![r] = IF caller.feeds = "results" THEN endedBy[r - 1] ELSE {r}]
  /\ UNCHANGED <<closer, failers, commands, results, cli, post,
                 used, billed, dropped, replayed, endedBy, orphaned>>

Replay == [step : 1..Window, made : {"replay"}]

\* armReplay: the window's steps are queued and their results are at hand
\* before the prompt is sent.
ArmReplay ==
  /\ caller.pc = "arm"
  /\ session' = [session EXCEPT !.replay = [i \in 1..Window |-> i]]
  /\ results' = results \cup Replay
  /\ Step("submit")
  /\ UNCHANGED <<rounds, closer, failers, commands, cli, post, history>>

SendPrompt == commands' = Append(commands, [kind |-> "submit", round |-> caller.round])

Submit ==
  /\ caller.pc = "submit"
  /\ \/ SendPrompt /\ Step("rebuild")
     \/ UNCHANGED commands /\ Step("fail")
  /\ UNCHANGED <<session, rounds, closer, failers, results, cli, post, history>>

\* The first real step, or the end of the round, ends the rebuild.
RebuildDone ==
  /\ caller.pc = "rebuild" /\ session.rebuilt > 0
  /\ Step("await")
  /\ UNCHANGED <<session, rounds, closer, failers, commands, results, cli, post, history>>

\* A Factory that fails closes its session; nobody gets what it used.
FactoryFails ==
  /\ caller.pc = "fail"
  /\ closer' = [pc |-> "begin", keeps |-> FALSE]
  /\ Step("failing")
  /\ UNCHANGED <<session, rounds, failers, commands, results, cli, post, history>>

FactoryFailed ==
  /\ caller.pc = "failing" /\ closer.pc = "done"
  /\ Step("given up")
  /\ UNCHANGED <<session, rounds, closer, failers, commands, results, cli, post, history>>

-----------------------------------------------------------------------------
(***************************************************************************)
(* Extend, and the end of a round                                          *)
(***************************************************************************)
\* What the manager's plan may hold: the results of the calls the last round
\* returned, or after an answer the user's next rows.
Extend(feeds) ==
  /\ caller.pc = "out" /\ session.state # "dirty"
  /\ (feeds = "results") <=> (session.state = "waiting")
  /\ feeds = "prompt" => cli.step < MaxSteps
  /\ caller' = [caller EXCEPT !.pc = "open", !.isNew = FALSE, !.feeds = feeds]
  /\ UNCHANGED <<session, rounds, closer, failers, commands, results, cli, post, history>>

\* deliverResults answers the calls the last round returned.
DeliverResults ==
  /\ caller.pc = "feed" /\ caller.feeds = "results"
  /\ results' = results \cup {[step |-> rounds[caller.round - 1].calls, made |-> "real"]}
  /\ Step("await")
  /\ UNCHANGED <<session, rounds, closer, failers, commands, cli, post, history>>

FeedPrompt ==
  /\ caller.pc = "feed" /\ caller.feeds = "prompt"
  /\ \/ SendPrompt /\ Step("await")
     \/ UNCHANGED commands /\ Step("abort")
  /\ UNCHANGED <<session, rounds, closer, failers, results, cli, post, history>>

FeedNothing ==
  /\ caller.pc = "feed" /\ caller.feeds = "nothing"
  /\ Step("abort")
  /\ UNCHANGED <<session, rounds, closer, failers, commands, results, cli, post, history>>

RoundDone ==
  /\ caller.pc = "await" /\ rounds[caller.round].done # <<>>
  /\ Step("complete")
  /\ UNCHANGED <<session, rounds, closer, failers, commands, results, cli, post, history>>

Waiting == caller.pc \in {"seeding", "rebuild", "await"}
GivesUp == Step(IF caller.pc = "await" THEN "abort" ELSE "fail")

ProcessExited ==
  /\ Waiting /\ ~cli.up
  /\ GivesUp
  /\ UNCHANGED <<session, rounds, closer, failers, commands, results, cli, post, history>>

\* The deadline of the rebuild or of the step, or a caller that gave up.
Deadline ==
  /\ Waiting
  /\ GivesUp
  /\ UNCHANGED <<session, rounds, closer, failers, commands, results, cli, post, history>>

Abort ==
  /\ caller.pc = "abort"
  /\ EndRound(caller.round)
  /\ Refused
  /\ UNCHANGED <<closer, failers, commands, results, cli, post, history>>

StateAfter(end) ==
  CASE end = "tool_calls" -> "waiting" [] end = "answer" -> "idle" [] OTHER -> "dirty"

CompleteRound ==
  /\ caller.pc = "complete"
  /\ LET r == caller.round
         end == Head(rounds[r].done) IN
     \/ /\ end \in Errors
        /\ EndRound(r) /\ Refused
        /\ UNCHANGED billed
     \/ /\ end \notin Errors
        /\ rounds' = [rounds EXCEPT ![r].settled = TRUE, ![r].usage = Nothing]
        /\ billed' = Plus(billed, rounds[r].usage)
        /\ session' = [session EXCEPT !.current = 0, !.state = StateAfter(end)]
        /\ Step("out")
  /\ UNCHANGED <<closer, failers, commands, results, cli, post, used, dropped, replayed, serves, endedBy, orphaned>>

\* TakeCarried, as the manager calls it between rounds.
TakeCarried ==
  /\ caller.pc = "out" /\ closer.pc = "out" /\ session.carried # Nothing
  /\ billed' = Plus(billed, session.carried)
  /\ session' = [session EXCEPT !.carried = Nothing]
  /\ UNCHANGED <<rounds, caller, closer, failers, commands, results, cli, post,
                 used, dropped, replayed, serves, endedBy, orphaned>>

-----------------------------------------------------------------------------
(***************************************************************************)
(* Close                                                                   *)
(***************************************************************************)
\* The manager closes a session between rounds and keeps what it used; the
\* daemon closes it at any time after the rebuild and keeps nothing.
ManagerCloses ==
  /\ caller.pc = "out" /\ closer.pc = "out"
  /\ closer' = [pc |-> "begin", keeps |-> TRUE]
  /\ Step("given up")
  /\ UNCHANGED <<session, rounds, failers, commands, results, cli, post, history>>

DaemonCloses ==
  /\ caller.pc = "out" \/ ~caller.isNew
  /\ caller.pc # "given up" /\ closer.pc = "out"
  /\ closer' = [pc |-> "begin", keeps |-> FALSE]
  /\ UNCHANGED <<session, rounds, caller, failers, commands, results, cli, post, history>>

CloseBegins ==
  /\ closer.pc = "begin"
  /\ closer' = [closer EXCEPT !.pc = "kill"]
  /\ LET closed == [session EXCEPT !.closed = TRUE]
         r == session.current IN
     IF InRound THEN rounds' = Finish(r, "closed") /\ session' = Rebuilt(closed)
     ELSE UNCHANGED rounds /\ session' = closed
  /\ UNCHANGED <<caller, failers, commands, results, cli, post, history>>

CloseKills ==
  /\ closer.pc = "kill"
  /\ closer' = [closer EXCEPT !.pc = "take"]
  /\ cli' = [cli EXCEPT !.up = FALSE]
  /\ UNCHANGED <<session, rounds, caller, failers, commands, results, post, history>>

CloseTakes ==
  /\ closer.pc = "take"
  /\ closer' = [closer EXCEPT !.pc = "done"]
  /\ session' = [session EXCEPT !.carried = Nothing]
  /\ billed' = IF closer.keeps THEN Plus(billed, session.carried) ELSE billed
  /\ dropped' = IF closer.keeps THEN dropped ELSE Plus(dropped, session.carried)
  /\ UNCHANGED <<rounds, caller, failers, commands, results, cli, post, used, replayed, serves, endedBy, orphaned>>

-----------------------------------------------------------------------------
(***************************************************************************)
(* The handlers of what the mod posts                                      *)
(***************************************************************************)
\* The reply reaches a mod that still runs.
Replies(next) == cli' = IF cli.up THEN next ELSE cli
Handled == post' = NoPost

\* A finished round is not open, but until its caller has taken the result it
\* is current, and a step that starts then is let through.
OnStepStart ==
  /\ post.kind = "step-start"
  /\ Handled
  /\ \/ /\ session.replay # <<>>
        /\ session' = [session EXCEPT !.replay = Tail(@)]
        /\ replayed' = Append(replayed, Head(session.replay))
        /\ Replies([cli EXCEPT !.pc = "tools",
                               !.call = [step |-> Head(session.replay), made |-> "replay"]])
     \/ /\ session.replay = <<>> /\ session.current = 0
        /\ session' = [session EXCEPT !.state = "dirty"]
        /\ Replies([cli EXCEPT !.pc = "ending", !.reason = "answer"])
        /\ UNCHANGED replayed
     \/ /\ session.replay = <<>> /\ session.current # 0 /\ cli.step < MaxSteps
        /\ session' = Rebuilt(session)
        /\ Replies([cli EXCEPT !.pc = "real", !.step = @ + 1])
        /\ UNCHANGED replayed
  /\ UNCHANGED <<rounds, caller, closer, failers, commands, results, used, billed, dropped, serves, endedBy, orphaned>>

EndedBy(r) == endedBy' = [endedBy EXCEPT ![r] = @ \cup {post.turn}]

OnStepEnd ==
  /\ post.kind = "step-end"
  /\ Handled
  /\ used' = used \cup {post.step}
  /\ Replies([cli EXCEPT !.pc = CASE post.of \in {"tools", "foreign tool"} -> "tools"
                                  [] OTHER -> "ending",
                         !.call = IF post.of = "tools" THEN [step |-> cli.step, made |-> "real"] ELSE NoCall,
                         !.reason = IF post.of = "context exceeded" THEN "error" ELSE "answer"])
  /\ LET r == session.current
         added == [rounds EXCEPT ![r].usage = Plus(@, Once(post.step)), ![r].lastStop = post.of,
                                 ![r].texts = @ \/ post.of \in {"text", "foreign tool"}] IN
     \/ /\ ~InRound
        /\ session' = [session EXCEPT !.carried = Plus(@, Once(post.step))]
        /\ UNCHANGED <<rounds, endedBy>>
     \/ /\ InRound /\ post.of \in {"tools", "context exceeded"}
        /\ rounds' = [added EXCEPT ![r].finished = TRUE,
                                  ![r].calls = IF post.of = "tools" THEN post.step ELSE @,
                                  ![r].done = Append(@, IF post.of = "tools" THEN "tool_calls" ELSE "context full")]
        /\ session' = Rebuilt(session)
        /\ EndedBy(r)
     \/ /\ InRound /\ post.of \notin {"tools", "context exceeded"}
        /\ rounds' = added
        /\ UNCHANGED <<session, endedBy>>
  /\ UNCHANGED <<caller, closer, failers, commands, results, billed, dropped, replayed, serves, orphaned>>

OutcomeOf(r) ==
  CASE post.of = "answer" -> IF rounds[r].lastStop = "max_tokens" /\ ~rounds[r].texts THEN "length" ELSE "answer"
    [] post.of = "refusal" -> "refused"
    [] OTHER -> "error"

\* A turn that ends between rounds is not noticed: a session that was waiting
\* for Platform still looks as if it were.
OnTurnComplete ==
  /\ post.kind = "turn-complete"
  /\ Handled
  /\ Replies([cli EXCEPT !.pc = IF @ = "erring late" THEN @ ELSE "idle", !.call = NoCall])
  /\ orphaned' = (orphaned \/ (~InRound /\ cli.call # NoCall))
  /\ LET r == session.current IN
     \/ ~InRound /\ UNCHANGED <<session, rounds, failers, endedBy>>
     \/ /\ InRound /\ post.of = "error"
        /\ failers' = failers \cup {r}
        /\ EndedBy(r)
        /\ UNCHANGED <<session, rounds>>
     \/ /\ InRound /\ post.of # "error"
        /\ EndWith(r, OutcomeOf(r)) /\ EndedBy(r)
        /\ UNCHANGED failers
  /\ UNCHANGED <<caller, closer, commands, results, used, billed, dropped, replayed, serves>>

\* failTurn ends the round the turn failed in, however late.
FailTurn(r) ==
  /\ r \in failers
  /\ failers' = failers \ {r}
  /\ \E end \in {"context full", "error"} : EndWith(r, end)
  /\ UNCHANGED <<caller, closer, commands, results, cli, post, history>>

\* An error event ends the open round; outside one it is only logged.
OnEvent ==
  /\ post.kind = "event"
  /\ Handled
  /\ Replies([cli EXCEPT !.pc = CASE @ = "erring" -> "ending" [] @ = "erring late" -> "idle" [] OTHER -> @])
  /\ IF InRound
     THEN EndWith(session.current, "error") /\ EndedBy(session.current)
     ELSE UNCHANGED <<session, rounds, endedBy>>
  /\ UNCHANGED <<caller, closer, failers, commands, results, used, billed, dropped, replayed, serves, orphaned>>

-----------------------------------------------------------------------------
(***************************************************************************)
(* The mod's hooks, and the engine they run in                             *)
(***************************************************************************)
Free == cli.up /\ post = NoPost
At(pc) == Free /\ cli.pc = pc

Posts(kind, of, step, turn) == post' = [kind |-> kind, of |-> of, step |-> step, turn |-> turn]

Mod(next) ==
  /\ cli' = next
  /\ UNCHANGED <<session, rounds, caller, closer, failers, results, history>>

\* A prompt the engine does not accept is reported as an error.
RunsCommand ==
  /\ Free /\ commands # <<>>
  /\ commands' = Tail(commands)
  /\ LET next == Head(commands) IN
     \/ /\ next.kind = "seed"
        /\ Mod([cli EXCEPT !.seeded = TRUE]) /\ UNCHANGED post
     \/ /\ next.kind = "submit"
        /\ Mod([cli EXCEPT !.prompts = Append(@, next.round)]) /\ UNCHANGED post
     \/ /\ next.kind = "submit" /\ "error" \in Reasons
        /\ Mod(cli) /\ Posts("event", "none", 0, next.round)

TurnStarts ==
  /\ At("idle") /\ cli.prompts # <<>>
  /\ Mod([cli EXCEPT !.pc = "step", !.turn = Head(cli.prompts), !.prompts = Tail(@)])
  /\ UNCHANGED <<commands, post>>

\* Work Claude Code begins by itself, once a turn has been there before.
TurnStrays ==
  /\ Strays /\ At("idle") /\ cli.turn > 0
  /\ Mod([cli EXCEPT !.pc = "step", !.turn = 0, !.strayed = TRUE])
  /\ UNCHANGED <<commands, post>>

StepStarts ==
  /\ At("step")
  /\ Posts("step-start", "none", 0, cli.turn)
  /\ Mod([cli EXCEPT !.pc = "asking"])
  /\ UNCHANGED commands

StepReports(of) ==
  /\ At("real")
  /\ of \in {"tools", "foreign tool"} => cli.step < MaxSteps
  /\ Posts("step-end", of, cli.step, cli.turn)
  /\ Mod([cli EXCEPT !.pc = "reporting"])
  /\ UNCHANGED commands

\* A failed step ends its turn; the hook that reports the failure runs before
\* or after the one that reports the end of the turn.
StepFails ==
  /\ At("real") /\ "error" \in Reasons
  /\ \/ Posts("event", "none", 0, cli.turn) /\ Mod([cli EXCEPT !.pc = "erring", !.reason = "error"])
     \/ Posts("turn-complete", "error", 0, cli.turn) /\ Mod([cli EXCEPT !.pc = "erring late"])
  /\ UNCHANGED commands

ReportsLate ==
  /\ At("erring late")
  /\ Posts("event", "none", 0, cli.turn)
  /\ Mod(cli)
  /\ UNCHANGED commands

\* tool.call waits on the bridge; a call of a tool that is not AgentParley's
\* is denied at once.
ToolReturns ==
  /\ At("tools") /\ (cli.call = NoCall \/ cli.call \in results)
  /\ Mod([cli EXCEPT !.pc = "step", !.call = NoCall])
  /\ UNCHANGED <<commands, post>>

TurnAborts ==
  /\ \E pc \in {"step", "real", "tools"} : At(pc)
  /\ "aborted" \in Reasons
  /\ Mod([cli EXCEPT !.pc = "ending", !.reason = "aborted"])
  /\ UNCHANGED <<commands, post>>

TurnCompletes ==
  /\ At("ending")
  /\ \E of \in IF cli.reason = "answer" THEN {"answer"} \cup ({"refusal"} \cap Reasons) ELSE {cli.reason} :
       Posts("turn-complete", of, 0, cli.turn)
  /\ Mod([cli EXCEPT !.pc = "completing"])
  /\ UNCHANGED commands

Dies ==
  /\ cli.up
  /\ cli' = [cli EXCEPT !.up = FALSE]
  /\ UNCHANGED <<session, rounds, caller, closer, failers, commands, results, post, history>>

-----------------------------------------------------------------------------
Handlers == OnStepStart \/ OnStepEnd \/ OnTurnComplete \/ OnEvent

Caller ==
  \/ ProcessStarts \/ Seeds \/ Seeded \/ OpenRound \/ ArmReplay \/ Submit \/ RebuildDone
  \/ FactoryFails \/ FactoryFailed \/ DeliverResults \/ FeedPrompt \/ FeedNothing
  \/ RoundDone \/ ProcessExited \/ Abort \/ CompleteRound

Closer == CloseBegins \/ CloseKills \/ CloseTakes

Engine ==
  \/ RunsCommand \/ TurnStarts \/ StepStarts \/ (\E of \in StepEnds : StepReports(of))
  \/ StepFails \/ ReportsLate \/ ToolReturns \/ TurnCompletes

Next ==
  \/ Handlers \/ Caller \/ Closer \/ Engine
  \/ ProcessFails \/ Deadline \/ TakeCarried \/ ManagerCloses \/ DaemonCloses
  \/ (\E feeds \in {"results", "prompt", "nothing"} : Extend(feeds))
  \/ (\E r \in RoundIds : FailTurn(r))
  \/ TurnStrays \/ TurnAborts \/ Dies

Spec == Init /\ [][Next]_vars

\* The handlers, the goroutines of the daemon and the engine go on; nothing
\* makes a deadline pass, a process die or a caller come back.
FairSpec ==
  Spec /\ WF_vars(Handlers) /\ WF_vars(Caller) /\ WF_vars(Closer) /\ WF_vars(Engine)
       /\ \A r \in RoundIds : WF_vars(FailTurn(r))

-----------------------------------------------------------------------------
(***************************************************************************)
(* Properties                                                              *)
(***************************************************************************)
\* What a model step used and a handler has taken is in exactly one place: its
\* round, the carry, given to the conversation, or thrown away, as only a
\* Factory that fails and a daemon that stops do.  This is not to say that all
\* of it is billed: what is in the carry after a Close, or in the round of a
\* rebuild that failed, stays there.
InARound(s) == Cardinality({r \in RoundIds : rounds[r].usage[s] > 0})
UsageConserved ==
  \A s \in Steps :
    session.carried[s] + InARound(s) + billed[s] + dropped[s] = IF s \in used THEN 1 ELSE 0

\* The model's first own step sees the whole replayed window, oldest first.
ReplayedInOrder ==
  /\ \A i \in 1..Len(replayed) : replayed[i] = i
  /\ cli.step > 0 => Len(replayed) = Window

\* A round is ended by the turn that was given its prompt or waited for its
\* results, never by what is left of an earlier one, unless Claude Code has
\* started a turn of its own: the reports do not say which round they are for.
EndedByItsOwnTurn == cli.strayed \/ \A r \in RoundIds : endedBy[r] \subseteq serves[r]

\* What the comments promise of work between rounds, without that exception:
\* it makes the session dirty, so no later round is ended by it.
StrayTurnsEndNoRound == \A r \in RoundIds : 0 \notin endedBy[r]

\* No round needs its deadline, and no Factory: each ends when Claude Code
\* answers, fails or dies, unless the turn ended while it waited for Platform
\* or Claude Code worked on its own.
EveryRoundEnds == Waiting ~> (~Waiting \/ orphaned \/ cli.strayed)
=============================================================================
