---------------------------- MODULE CodexThread ----------------------------
(***************************************************************************)
(* One warm Codex conversation: internal/codexrpc/thread.go and events.go  *)
(* on the JSON-RPC client of client.go.                                    *)
(*                                                                         *)
(* Four goroutines of the daemon meet here: the caller (Factory, Extend or *)
(* OneShot), the client's reader, the timer of a batch of tool calls, and  *)
(* whoever closes the thread; an aborted round adds a fifth, that          *)
(* interrupts the turn.  Every handler is one step, taken under the        *)
(* thread's mutex.  The app-server is a process that may die, and whose    *)
(* output is a pipe: what it wrote before it died is still read.           *)
(***************************************************************************)
EXTENDS Naturals, Sequences, FiniteSets

CONSTANTS
  Calls,       \* the tool calls the model may make; each has an id of its own
  Reports,     \* what the thread gathers for the round's result: usage updates,
  Declines,    \* and among them the events of native requests that are declined
  Requests,    \* the rounds that may create the thread: subset of RequestKinds
  Failures,    \* the ways a turn may end other than "completed"
  Unreadable,  \* the methods of which a frame may be unreadable
  MaxRounds,   \* bound on the rounds opened on the thread
  MaxTurns,    \* bound on the turns the app-server starts
  MaxReports,  \* bound on the reports it sends
  MaxWire      \* bound on the lines written and not yet read

\* A round on behalf of a conversation or of none; fed a user row or, after
\* tool results only, nothing; and one that has nothing to answer.
RequestKinds == [oneShot : BOOLEAN, trailing : {"user", "tool", "nothing"}]

ASSUME CodexAssumption ==
  /\ Declines \subseteq Reports
  /\ Requests \subseteq RequestKinds
  /\ Unreadable \subseteq {"thread/tokenUsage/updated", "turn/completed", "item/completed"}
  /\ MaxRounds \in Nat \ {0} /\ MaxTurns \in Nat \ {0} /\ MaxReports \in Nat /\ MaxWire \in Nat \ {0}

VARIABLES
  thread,    \* Thread
  rounds,    \* every round opened on it
  caller,    \* the goroutine in Factory, OneShot or Extend
  closer,    \* the goroutine in Close
  stopper,   \* interruptTurn, in the background
  client,    \* the client: exited, whether the thread is registered, and a looked-up sink
  pending,   \* the call each goroutine has in flight
  server,    \* the app-server: up, its turn, the tool calls it waits for
  wire,      \* its output
  billed, dropped,   \* history: what the round's owner was given, what was lost at the close
  told, answered,    \* history: how often each tool call was reported, and answered
  misread            \* history: malformedFrameLocked ran

history == <<billed, dropped, told, answered, misread>>
vars == <<thread, rounds, caller, closer, stopper, client, pending, server, wire, history>>

-----------------------------------------------------------------------------
Goroutines == {"caller", "closer", "stopper"}
RoundIds == 1..MaxRounds
Errors == {"harness", "usage limit", "signed out", "context full", "update required"}
Ends == {"tool_calls", "answer", "refused"} \cup Errors
WaitingCall == [call : Calls, reported : BOOLEAN]

\* The calls in flight and the lines on the pipe.
Frames == [kind : {"usage", "decline"}, of : Reports] \cup [kind : {"tool"}, of : Calls]
     \cup [kind : {"started"}, of : 1..MaxTurns] \cup [kind : {"item"}, of : {"agentMessage"}]
     \cup [kind : {"completed"}, of : {"completed"} \cup Failures]
     \cup [kind : {"unreadable"}, of : Unreadable]
     \cup [kind : {"result", "error"}, of : Goroutines]

TypeOK ==
  /\ thread \in [state : {"none", "starting", "running", "idle", "waiting", "dirty"},
                 round : 0..MaxRounds, turn : 0..MaxTurns, waiting : Seq(WaitingCall),
                 carried : [Reports -> Nat], closed : BOOLEAN, interrupting : BOOLEAN]
  /\ rounds \in [RoundIds -> [opened : BOOLEAN, finished : BOOLEAN, settled : BOOLEAN,
                              done : Seq(Ends), armed : BOOLEAN, fired : Nat,
                              gathered : SUBSET Reports]]
  /\ caller \in [pc : {"out", "start", "inject", "open", "look", "turn", "steer", "respond",
                       "wait", "complete", "abort", "fail", "flush", "given up"},
                 request : RequestKinds, isNew : BOOLEAN, round : 0..MaxRounds,
                 results : SUBSET Calls, newInput : BOOLEAN, pendingCalls : SUBSET Calls]
  /\ closer \in [pc : {"out", "taken", "begin", "interrupt", "wait", "unsubscribe", "unregister", "take", "done"},
                 turn : 0..MaxTurns, keeps : BOOLEAN]
  /\ stopper \in [pc : {"out", "look", "interrupt"}, turn : 0..MaxTurns]
  /\ client \in [exited : BOOLEAN, registered : BOOLEAN, held : BOOLEAN, owesExit : BOOLEAN]
  /\ pending \in [Goroutines -> {"none", "sent", "served", "ok", "error"}]
  /\ server \in [up : BOOLEAN, turn : 0..MaxTurns, turns : 0..MaxTurns, asked : SUBSET Calls,
                 made : SUBSET Calls, stopping : BOOLEAN]
  /\ wire \in Seq(Frames)
  /\ billed \in [Reports -> Nat] /\ dropped \in [Reports -> Nat]
  /\ told \in [Calls -> Nat] /\ answered \in [Calls -> Nat] /\ misread \in BOOLEAN

None(S) == [x \in S |-> 0]
Plus(bag, more) == [x \in DOMAIN bag |-> bag[x] + more[x]]
Once(S, of) == [x \in of |-> IF x \in S THEN 1 ELSE 0]

\* A sequence without its i-th member.
Cut(s, i) == [j \in 1..Len(s) - 1 |-> IF j < i THEN s[j] ELSE s[j + 1]]

Init ==
  /\ thread = [state |-> "none", round |-> 0, turn |-> 0, waiting |-> <<>>,
               carried |-> None(Reports), closed |-> FALSE, interrupting |-> FALSE]
  /\ rounds = [r \in RoundIds |-> [opened |-> FALSE, finished |-> FALSE, settled |-> FALSE,
                 done |-> <<>>, armed |-> FALSE, fired |-> 0, gathered |-> {}]]
  /\ \E q \in Requests :
       caller = [pc |-> "out", request |-> q, isNew |-> TRUE, round |-> 0,
                 results |-> {}, newInput |-> FALSE, pendingCalls |-> {}]
  /\ closer = [pc |-> "out", turn |-> 0, keeps |-> FALSE]
  /\ stopper = [pc |-> "out", turn |-> 0]
  /\ client = [exited |-> FALSE, registered |-> FALSE, held |-> FALSE, owesExit |-> FALSE]
  /\ pending = [g \in Goroutines |-> "none"]
  /\ server = [up |-> TRUE, turn |-> 0, turns |-> 0, asked |-> {}, made |-> {}, stopping |-> FALSE]
  /\ wire = <<>>
  /\ billed = None(Reports) /\ dropped = None(Reports)
  /\ told = None(Calls) /\ answered = None(Calls) /\ misread = FALSE

-----------------------------------------------------------------------------
(***************************************************************************)
(* client.go: one request and its response                                 *)
(***************************************************************************)
\* A request on a client that has exited fails at once, one written to a
\* process that is gone fails on the write; any other waits for its response.
Send(g) ==
  pending' = [pending EXCEPT ![g] = IF ~client.exited /\ server.up THEN "sent" ELSE "error"]

Succeeded(g) == pending[g] = "ok"
Failed(g) == pending[g] = "error"
HangUp(g) == pending' = [pending EXCEPT ![g] = "none"]
InFlight(g) == pending[g] \in {"sent", "served"}

\* Its context ended: the call is forgotten, and its response, if it was
\* written, finds nobody.
Responses(g) == {i \in 1..Len(wire) : wire[i].kind \in {"result", "error"} /\ wire[i].of = g}
Unheard(g) ==
  \/ Responses(g) = {} /\ UNCHANGED wire
  \/ \E i \in Responses(g) : wire' = Cut(wire, i)

Forget(g) == InFlight(g) /\ HangUp(g) /\ Unheard(g)

\* server.alive.
Alive == ~client.exited

-----------------------------------------------------------------------------
(***************************************************************************)
(* thread.go: how a round ends                                             *)
(***************************************************************************)
HasUnreported(waiting) == \E i \in 1..Len(waiting) : ~waiting[i].reported

\* finishLocked without its first line.
MutantFinished(r, end) ==
  [rounds EXCEPT ![r].finished = TRUE, ![r].armed = FALSE, ![r].done = Append(@, end)]

\* finishLocked: what the rounds are after it.
Finished(r, end) ==
  IF rounds[r].finished THEN rounds
  ELSE [rounds EXCEPT ![r].finished = TRUE, ![r].armed = FALSE, ![r].done = Append(@, end)]

\* finishLocked on the open round, if there is one.
FinishedOpen(end) == IF thread.round # 0 THEN Finished(thread.round, end) ELSE rounds

\* armTimerLocked: a timer that has fired already is not called back.
Armed(r) == [rounds EXCEPT ![r].armed = TRUE]

\* endRoundWithErrorLocked: the rounds, and the thread, after it.
Settled(r) == [rounds EXCEPT ![r].finished = TRUE, ![r].armed = FALSE, ![r].settled = TRUE]

\* What the failed round gathered is forgotten.
MutantAfterError(r) == [thread EXCEPT !.state = "dirty", !.round = IF @ = r THEN 0 ELSE @]

AfterError(r) ==
  [thread EXCEPT !.state = "dirty", !.round = IF @ = r THEN 0 ELSE @,
                 !.carried = Plus(@, Once(rounds[r].gathered, Reports))]

-----------------------------------------------------------------------------
(***************************************************************************)
(* A round: Factory, OneShot and Extend around runRound                    *)
(***************************************************************************)
Goto(pc) == caller' = [caller EXCEPT !.pc = pc]
At(pc) == caller.pc = pc

\* A request with nothing to answer never reaches the app-server; a one-shot
\* request must end with a user row.
Answerable(q) == q.trailing = "user" \/ (q.trailing = "tool" /\ ~q.oneShot)

Begin ==
  /\ At("out") /\ caller.isNew
  /\ Answerable(caller.request)
  /\ Send("caller")
  /\ Goto("start")
  /\ UNCHANGED <<thread, rounds, closer, stopper, client, server, wire, history>>

Refuse ==
  /\ At("out") /\ caller.isNew
  /\ ~Answerable(caller.request)
  /\ Goto("given up")
  /\ UNCHANGED <<thread, rounds, closer, stopper, client, pending, server, wire, history>>

\* thread/start answered: the thread is registered, even on a client that has
\* exited meanwhile, and its history, if any, is injected (the batches of
\* injectHistory are one call here).
ThreadStarts ==
  /\ At("start")
  /\ Succeeded("caller")
  /\ thread' = [thread EXCEPT !.state = "starting"]
  /\ client' = [client EXCEPT !.registered = TRUE]
  /\ \/ Send("caller") /\ Goto("inject")
     \/ HangUp("caller") /\ Goto("open")
  /\ UNCHANGED <<rounds, closer, stopper, server, wire, history>>

\* A call of the caller fails, or its own deadline ends it.
StartFails ==
  /\ At("start")
  /\ \/ Failed("caller") /\ HangUp("caller") /\ UNCHANGED wire
     \/ Forget("caller")
  /\ Goto("given up")
  /\ UNCHANGED <<thread, rounds, closer, stopper, client, server, history>>

Injected ==
  /\ At("inject")
  /\ Succeeded("caller") /\ HangUp("caller")
  /\ Goto("open")
  /\ UNCHANGED <<thread, rounds, closer, stopper, client, server, wire, history>>

InjectFails ==
  /\ At("inject")
  /\ \/ Failed("caller") /\ HangUp("caller") /\ UNCHANGED wire
     \/ Forget("caller")
  /\ Goto("fail")
  /\ UNCHANGED <<thread, rounds, closer, stopper, client, server, history>>

\* TakeCarried: the manager has all that the thread carries.
TakeCarried ==
  /\ billed' = Plus(billed, thread.carried)
  /\ thread' = [thread EXCEPT !.carried = None(Reports)]

\* The manager looks at the session it kept (TakeCarried, State) and extends it
\* with the results of the calls it was told of, or a new user row.
PlanExtend ==
  /\ At("out") /\ ~caller.isNew /\ closer.pc = "out"
  /\ thread.state # "dirty"
  /\ caller.round < MaxRounds
  /\ TakeCarried
  /\ \E newInput \in BOOLEAN :
       caller' = [caller EXCEPT !.pc = "open", !.newInput = newInput, !.results = caller.pendingCalls]
  /\ UNCHANGED <<rounds, closer, stopper, client, pending, server, wire, dropped, told, answered, misread>>

\* runRound opens the round, or finds the thread closed.
OpenRound ==
  /\ At("open")
  /\ IF thread.closed
     THEN Goto("given up") /\ UNCHANGED <<thread, rounds>>
     ELSE LET r == caller.round + 1 IN
          /\ thread' = [thread EXCEPT !.round = r, !.state = "running"]
          /\ rounds' = [rounds EXCEPT ![r].opened = TRUE]
          /\ caller' = [caller EXCEPT !.pc = "look", !.round = r]
  /\ UNCHANGED <<closer, stopper, client, pending, server, wire, history>>

\* What the kick does first: open a turn, steer the open one, or answer calls.
LookNew ==
  /\ At("look") /\ caller.isNew
  /\ Send("caller") /\ Goto("turn")
  /\ UNCHANGED <<thread, rounds, closer, stopper, client, server, wire, history>>

LookIdle ==
  /\ At("look") /\ ~caller.isNew /\ thread.waiting = <<>>
  /\ IF caller.newInput
     THEN Send("caller") /\ Goto("turn")
     ELSE Goto("abort") /\ UNCHANGED pending
  /\ UNCHANGED <<thread, rounds, closer, stopper, client, server, wire, history>>

LookWaiting ==
  /\ At("look") /\ ~caller.isNew /\ thread.waiting # <<>>
  /\ CASE ~caller.newInput                   -> Goto("respond") /\ UNCHANGED pending
       [] caller.newInput /\ thread.turn = 0 -> Goto("abort") /\ UNCHANGED pending
       [] OTHER                              -> Goto("steer") /\ Send("caller")
  /\ UNCHANGED <<thread, rounds, closer, stopper, client, server, wire, history>>

Kicked ==
  /\ At("turn") \/ At("steer")
  /\ Succeeded("caller") /\ HangUp("caller")
  /\ Goto(IF At("turn") THEN "wait" ELSE "respond")
  /\ UNCHANGED <<thread, rounds, closer, stopper, client, server, wire, history>>

KickFails ==
  /\ At("turn") \/ At("steer")
  /\ \/ Failed("caller") /\ HangUp("caller") /\ UNCHANGED wire
     \/ Forget("caller")
  /\ Goto("abort")
  /\ UNCHANGED <<thread, rounds, closer, stopper, client, server, history>>

\* takeWaiting and respond, one result at a time. The results are a set: the
\* order of the code is one of those this allows.
Answered(c) ==
  /\ answered' = [answered EXCEPT ![c] = @ + 1]
  /\ server' = [server EXCEPT !.asked = @ \ {c}]

FirstOf(waiting, c) == CHOOSE i \in 1..Len(waiting) : waiting[i].call = c /\ \A j \in 1..i - 1 : waiting[j].call # c

\* takeWaiting forgets what comes after the call it finds.
MutantWithout(waiting, c) == SubSeq(waiting, 1, FirstOf(waiting, c) - 1)

Without(waiting, c) == Cut(waiting, FirstOf(waiting, c))

Respond ==
  /\ At("respond")
  /\ \E c \in caller.results :
       IF \E i \in 1..Len(thread.waiting) : thread.waiting[i].call = c
       THEN /\ thread' = [thread EXCEPT !.waiting = Without(@, c)]
            /\ caller' = [caller EXCEPT !.results = @ \ {c}]
            /\ Answered(c)
       ELSE Goto("abort") /\ UNCHANGED <<thread, answered, server>>
  /\ UNCHANGED <<rounds, closer, stopper, client, pending, wire, billed, dropped, told, misread>>

\* Calls that came between the rounds had no round to arm a timer for.
MutantNeedsTimer(waiting) == FALSE

NeedsTimer(waiting) == HasUnreported(waiting)

ArmTimer ==
  /\ At("respond") /\ caller.results = {}
  /\ rounds' = IF NeedsTimer(thread.waiting) THEN Armed(caller.round) ELSE rounds
  /\ Goto("wait")
  /\ UNCHANGED <<thread, closer, stopper, client, pending, server, wire, history>>

\* The select: the end of the round, or of its context.  Go picks either when
\* both are there.
Receive ==
  /\ At("wait") /\ rounds[caller.round].done # <<>>
  /\ Goto("complete")
  /\ UNCHANGED <<thread, rounds, closer, stopper, client, pending, server, wire, history>>

Deadline ==
  /\ At("wait")
  /\ Goto("abort")
  /\ UNCHANGED <<thread, rounds, closer, stopper, client, pending, server, wire, history>>

\* Factory and OneShot close a thread whose round failed; the manager marks a
\* session that failed to extend dirty and replaces it before the next round.
AfterFailure == IF caller.isNew THEN "fail" ELSE "given up"

AbortRound ==
  /\ At("abort")
  /\ LET r == caller.round
         interrupt == thread.turn # 0 /\ ~thread.closed IN
     /\ rounds' = Settled(r)
     /\ thread' = [AfterError(r) EXCEPT !.interrupting = interrupt]
     /\ stopper' = IF interrupt THEN [pc |-> "look", turn |-> thread.turn] ELSE stopper
  /\ Goto(AfterFailure)
  /\ UNCHANGED <<closer, client, pending, server, wire, history>>

\* completeRound after a round that failed.
CompleteFailed ==
  /\ At("complete") /\ Head(rounds[caller.round].done) \in Errors
  /\ rounds' = Settled(caller.round)
  /\ thread' = AfterError(caller.round)
  /\ Goto(AfterFailure)
  /\ UNCHANGED <<closer, stopper, client, pending, server, wire, history>>

\* The calls a round reports: those no round reported before.
NewCalls(waiting) == {i \in 1..Len(waiting) : ~waiting[i].reported}

StateAfter(end) == CASE end = "tool_calls" -> "waiting" [] end = "answer" -> "idle" [] OTHER -> "dirty"

\* completeRound otherwise: the state is set by the outcome, whatever it has
\* become since the round ended.
Complete ==
  /\ At("complete")
  /\ LET r == caller.round
         end == Head(rounds[r].done)
         calls == IF end = "tool_calls" THEN NewCalls(thread.waiting) ELSE {} IN
     /\ end \notin Errors
     /\ rounds' = [rounds EXCEPT ![r].settled = TRUE]
     /\ thread' = [thread EXCEPT !.round = 0, !.state = StateAfter(end),
          !.waiting = IF end = "tool_calls" THEN [i \in DOMAIN @ |-> [@[i] EXCEPT !.reported = TRUE]] ELSE @]
     /\ billed' = Plus(billed, Once(rounds[r].gathered, Reports))
     /\ told' = [c \in Calls |-> told[c] + Cardinality({i \in calls : thread.waiting[i].call = c})]
     /\ caller' = [caller EXCEPT !.pendingCalls = {thread.waiting[i].call : i \in calls},
          !.isNew = @ /\ caller.request.oneShot,
          !.pc = IF caller.request.oneShot THEN "flush" ELSE IF end = "refused" THEN "given up" ELSE "out"]
  /\ UNCHANGED <<closer, stopper, client, pending, server, wire, dropped, answered, misread>>

-----------------------------------------------------------------------------
(***************************************************************************)
(* The batch timer                                                         *)
(***************************************************************************)
\* The callback runs in a goroutine of its own, and may find that the mutex
\* was taken, the timer re-armed or the round replaced meanwhile.
TimerFires(r) ==
  /\ rounds[r].armed
  /\ rounds' = [rounds EXCEPT ![r].armed = FALSE, ![r].fired = @ + 1]
  /\ UNCHANGED <<thread, caller, closer, stopper, client, pending, server, wire, history>>

\* A batch ends the round it was armed in.
EndsBatch(r) == thread.round = r /\ HasUnreported(thread.waiting)

TimerCallsBack(r) ==
  /\ rounds[r].fired > 0
  /\ rounds' = [(IF EndsBatch(r) THEN Finished(r, "tool_calls") ELSE rounds) EXCEPT ![r].fired = @ - 1]
  /\ UNCHANGED <<thread, caller, closer, stopper, client, pending, server, wire, history>>

-----------------------------------------------------------------------------
(***************************************************************************)
(* Close, and the interrupt of an aborted round                            *)
(***************************************************************************)
CloserGoto(pc) == closer' = [closer EXCEPT !.pc = pc]

Close(keeps) ==
  /\ thread.state # "none" /\ ~thread.closed
  /\ thread' = [thread EXCEPT !.closed = TRUE]
  /\ rounds' = FinishedOpen("harness")
  /\ closer' = [pc |-> "begin", turn |-> thread.turn, keeps |-> keeps]
  /\ UNCHANGED <<caller, stopper, client, pending, server, wire, history>>

\* Factory throws the usage of a failed thread away, and so does OneShot;
\* OneShot adds it to a result it has.
CallerCloses ==
  /\ closer.pc = "out"
  /\ (At("fail") /\ Close(FALSE)) \/ (At("flush") /\ Close(TRUE))

\* detachRunner of a session that is evicted, replaced or dropped when idle:
\* the manager takes what the thread carries, then closes it and keeps the
\* usage that the close returns.
ManagerTakes ==
  /\ At("out") \/ At("given up")
  /\ ~caller.isNew /\ closer.pc = "out" /\ thread.state # "none"
  /\ TakeCarried
  /\ CloserGoto("taken")
  /\ UNCHANGED <<rounds, caller, stopper, client, pending, server, wire, dropped, told, answered, misread>>

ManagerReplaces == closer.pc = "taken" /\ Close(TRUE)

\* The usage of a session that is closed because the daemon stops is thrown away.
DaemonStops == ~caller.isNew /\ closer.pc = "out" /\ Close(FALSE)

CloseLooks ==
  /\ closer.pc = "begin"
  /\ CASE ~Alive                       -> CloserGoto("unregister") /\ UNCHANGED pending
       [] Alive /\ closer.turn # 0     -> CloserGoto("interrupt") /\ Send("closer")
       [] OTHER                        -> CloserGoto("unsubscribe") /\ Send("closer")
  /\ UNCHANGED <<thread, rounds, caller, stopper, client, server, wire, history>>

\* waitForTurnEnd gives up after closeInterruptWait.
CloseInterrupted ==
  /\ closer.pc = "interrupt" /\ Succeeded("closer") /\ HangUp("closer")
  /\ CloserGoto("wait")
  /\ UNCHANGED <<thread, rounds, caller, stopper, client, server, wire, history>>

CloseWaited ==
  /\ closer.pc = "wait"
  /\ CloserGoto("unsubscribe") /\ Send("closer")
  /\ UNCHANGED <<thread, rounds, caller, stopper, client, server, wire, history>>

CloseNotInterrupted ==
  /\ closer.pc = "interrupt"
  /\ \/ Failed("closer") /\ UNCHANGED wire
     \/ InFlight("closer") /\ Unheard("closer")
  /\ CloserGoto("unsubscribe") /\ Send("closer")
  /\ UNCHANGED <<thread, rounds, caller, stopper, client, server, history>>

CloseUnsubscribed ==
  /\ closer.pc = "unsubscribe"
  /\ \/ (Succeeded("closer") \/ Failed("closer")) /\ HangUp("closer") /\ UNCHANGED wire
     \/ Forget("closer")
  /\ CloserGoto("unregister")
  /\ UNCHANGED <<thread, rounds, caller, stopper, client, server, history>>

\* The reader may have looked the thread up for the line it holds.
Unregister ==
  /\ closer.pc = "unregister"
  /\ \E held \in BOOLEAN :
       /\ held => client.registered /\ wire # <<>>
       /\ client' = [client EXCEPT !.registered = FALSE, !.held = held]
  /\ CloserGoto("take")
  /\ UNCHANGED <<thread, rounds, caller, stopper, pending, server, wire, history>>

\* Close returns the usage that the thread carries, and nothing returns its
\* events: they are lost with the thread.
Returned ==
  [x \in Reports |-> IF closer.keeps /\ x \notin Declines THEN thread.carried[x] ELSE 0]
Lost == [x \in Reports |-> thread.carried[x] - Returned[x]]

CloseTakes ==
  /\ closer.pc = "take"
  /\ thread' = [thread EXCEPT !.carried = None(Reports)]
  /\ billed' = Plus(billed, Returned) /\ dropped' = Plus(dropped, Lost)
  /\ CloserGoto("done")
  /\ IF At("fail") \/ At("flush") THEN Goto("given up") ELSE UNCHANGED caller
  /\ UNCHANGED <<rounds, stopper, client, pending, server, wire, told, answered, misread>>

StopperLooks ==
  /\ stopper.pc = "look"
  /\ IF Alive THEN stopper' = [stopper EXCEPT !.pc = "interrupt"] /\ Send("stopper")
              ELSE stopper' = [stopper EXCEPT !.pc = "out"] /\ UNCHANGED pending
  /\ UNCHANGED <<thread, rounds, caller, closer, client, server, wire, history>>

StopperReturns ==
  /\ stopper.pc = "interrupt"
  /\ \/ (Succeeded("stopper") \/ Failed("stopper")) /\ HangUp("stopper") /\ UNCHANGED wire
     \/ Forget("stopper")
  /\ stopper' = [stopper EXCEPT !.pc = "out"]
  /\ UNCHANGED <<thread, rounds, caller, closer, client, server, history>>

-----------------------------------------------------------------------------
(***************************************************************************)
(* The app-server: external, as the daemon's code expects it               *)
(***************************************************************************)
Write(frames) == Len(wire) + Len(frames) <= MaxWire /\ wire' = wire \o frames

ServeError(g) ==
  /\ server.up /\ pending[g] = "sent"
  /\ pending' = [pending EXCEPT ![g] = "served"]
  /\ Write(<<[kind |-> "error", of |-> g]>>)
  /\ UNCHANGED <<thread, rounds, caller, closer, stopper, client, server, history>>

\* turn/start is answered before or after the turn is announced.
ServeTurn ==
  /\ server.up /\ pending["caller"] = "sent" /\ At("turn")
  /\ server.turn = 0 /\ server.turns < MaxTurns
  /\ LET started == [kind |-> "started", of |-> server.turns + 1]
         result == [kind |-> "result", of |-> "caller"] IN
     Write(<<result, started>>) \/ Write(<<started, result>>)
  /\ server' = [server EXCEPT !.turns = @ + 1, !.turn = server.turns + 1, !.stopping = FALSE]
  /\ pending' = [pending EXCEPT !["caller"] = "served"]
  /\ UNCHANGED <<thread, rounds, caller, closer, stopper, client, history>>

\* turn/steer and turn/interrupt name the turn they are for.
Names(g) == CASE g = "closer" -> closer.turn [] g = "stopper" -> stopper.turn [] OTHER -> thread.turn

ServeCall(g) ==
  /\ server.up /\ pending[g] = "sent" /\ ~(g = "caller" /\ At("turn"))
  /\ LET interrupts == g = "stopper" \/ (g = "closer" /\ closer.pc = "interrupt") IN
     /\ interrupts \/ (g = "caller" /\ At("steer")) => server.turn # 0 /\ server.turn = Names(g)
     /\ server' = [server EXCEPT !.stopping = @ \/ interrupts]
  /\ pending' = [pending EXCEPT ![g] = "served"]
  /\ Write(<<[kind |-> "result", of |-> g]>>)
  /\ UNCHANGED <<thread, rounds, caller, closer, stopper, client, history>>

Fresh(x) ==
  /\ billed[x] + dropped[x] + thread.carried[x] = 0
  /\ \A r \in RoundIds : x \notin rounds[r].gathered
  /\ \A i \in 1..Len(wire) : wire[i].of # x

Unsent(x) == Fresh(x) /\ Cardinality({y \in Reports : ~Fresh(y)}) < MaxReports

KindOf(x) == IF x \in Declines THEN "decline" ELSE "usage"

\* An open turn reports usage, asks for native tools and works.
Works ==
  /\ server.up /\ server.turn # 0
  /\ \/ \E x \in Reports : Unsent(x) /\ Write(<<[kind |-> KindOf(x), of |-> x]>>)
     \/ Write(<<[kind |-> "item", of |-> "agentMessage"]>>)
     \/ \E m \in Unreadable \ {"turn/completed"} : Write(<<[kind |-> "unreadable", of |-> m]>>)
  /\ UNCHANGED <<thread, rounds, caller, closer, stopper, client, pending, server, history>>

\* A turn stays open while its tool calls wait, and asks for each call once.
Asks(c) ==
  /\ server.up /\ server.turn # 0 /\ c \notin server.made
  /\ server' = [server EXCEPT !.asked = @ \cup {c}, !.made = @ \cup {c}]
  /\ Write(<<[kind |-> "tool", of |-> c]>>)
  /\ UNCHANGED <<thread, rounds, caller, closer, stopper, client, pending, history>>

\* It completes when every call was answered, and fails or stops at any time.
TurnEnds ==
  /\ server.up /\ server.turn # 0
  /\ \/ server.asked = {} /\ ~server.stopping /\ Write(<<[kind |-> "completed", of |-> "completed"]>>)
     \/ \E f \in Failures : Write(<<[kind |-> "completed", of |-> f]>>)
     \/ "turn/completed" \in Unreadable /\ Write(<<[kind |-> "unreadable", of |-> "turn/completed"]>>)
  /\ server' = [server EXCEPT !.turn = 0, !.asked = {}]
  /\ UNCHANGED <<thread, rounds, caller, closer, stopper, client, pending, history>>

Dies ==
  /\ server.up
  /\ server' = [server EXCEPT !.up = FALSE]
  /\ UNCHANGED <<thread, rounds, caller, closer, stopper, client, pending, wire, history>>

-----------------------------------------------------------------------------
(***************************************************************************)
(* The reader: client.go's loop and the handlers of events.go              *)
(***************************************************************************)
Line == Head(wire)
TakeLine == wire # <<>> /\ wire' = Tail(wire)

ReadsResponse ==
  /\ TakeLine /\ Line.kind \in {"result", "error"}
  /\ pending' = [pending EXCEPT ![Line.of] = IF Line.kind = "result" THEN "ok" ELSE "error"]
  /\ UNCHANGED <<thread, rounds, caller, closer, stopper, client, server, history>>

\* The line is for a thread that is registered, or was when it was looked up.
HasSink == client.registered \/ client.held
ForThread(kind) == TakeLine /\ Line.kind = kind /\ HasSink /\ client' = [client EXCEPT !.held = FALSE]

\* What arrives while a round is open is the round's, the rest is carried.
Gather(x) ==
  IF thread.round # 0
  THEN rounds' = [rounds EXCEPT ![thread.round].gathered = @ \cup {x}] /\ UNCHANGED thread
  ELSE thread' = [thread EXCEPT !.carried[x] = @ + 1] /\ UNCHANGED rounds

\* Usage counts whether or not the thread is closed.
UsageUpdated ==
  /\ ForThread("usage") /\ Gather(Line.of)
  /\ UNCHANGED <<caller, closer, stopper, pending, server, history>>

\* A request for a native tool is declined, and the owner told.
NativeRequest ==
  /\ ForThread("decline") /\ Gather(Line.of)
  /\ UNCHANGED <<caller, closer, stopper, pending, server, history>>

\* Work between rounds: the session is out of step.
OffRound(t) == IF ~t.closed /\ t.round = 0 THEN [t EXCEPT !.state = "dirty"] ELSE t

TurnStarted ==
  /\ ForThread("started")
  /\ thread' = IF thread.closed THEN thread ELSE OffRound([thread EXCEPT !.turn = Line.of])
  /\ UNCHANGED <<rounds, caller, closer, stopper, pending, server, history>>

Item ==
  /\ ForThread("item")
  /\ thread' = OffRound(thread)
  /\ UNCHANGED <<rounds, caller, closer, stopper, pending, server, history>>

\* mapTurnError: what a turn's failure is to the manager.
MapTurnError(failure) ==
  CASE failure = "usageLimitExceeded"    -> "usage limit"
    [] failure = "unauthorized"          -> "signed out"
    [] failure = "contextWindowExceeded" -> "context full"
    [] failure = "upgrade required"      -> "update required"
    [] OTHER                             -> "harness"

IsRefusal(failure) == failure \in {"cyberPolicy", "misalignmentPolicyViolation"}

OutcomeOf(status) ==
  CASE status = "completed" -> "answer"
    [] IsRefusal(status)    -> "refused"
    [] OTHER                -> MapTurnError(status)

TurnCompleted ==
  /\ ForThread("completed")
  /\ CASE thread.closed -> thread' = [thread EXCEPT !.turn = 0] /\ UNCHANGED rounds
       [] ~thread.closed /\ thread.round # 0 ->
            thread' = [thread EXCEPT !.turn = 0] /\ rounds' = Finished(thread.round, OutcomeOf(Line.of))
       [] ~thread.closed /\ thread.round = 0 ->
            /\ thread' = IF thread.interrupting THEN [thread EXCEPT !.turn = 0, !.interrupting = FALSE]
                         ELSE OffRound([thread EXCEPT !.turn = 0])
            /\ UNCHANGED rounds
  /\ UNCHANGED <<caller, closer, stopper, pending, server, history>>

\* malformedFrameLocked; a closed thread reads usage only, and the end of a turn.
UnreadableFrame ==
  /\ ForThread("unreadable")
  /\ LET endsTurn == Line.of = "turn/completed"
         isRead == ~thread.closed \/ Line.of = "thread/tokenUsage/updated" IN
     /\ thread' = [thread EXCEPT !.state = IF isRead THEN "dirty" ELSE @,
                                 !.turn = IF endsTurn THEN 0 ELSE @,
                                 !.interrupting = @ /\ ~(endsTurn /\ isRead)]
     /\ rounds' = IF isRead THEN FinishedOpen("harness") ELSE rounds
     /\ misread' = (misread \/ isRead)
  /\ UNCHANGED <<caller, closer, stopper, pending, server, billed, dropped, told, answered>>

\* onToolCall takes a call in a round or between the rounds of a batch, and
\* refuses any other.
TakesCalls == ~thread.closed /\ ~(thread.round = 0 /\ thread.state # "waiting")

ToolCall ==
  /\ ForThread("tool")
  /\ ~caller.request.oneShot /\ TakesCalls
  /\ thread' = [thread EXCEPT !.waiting = Append(@, [call |-> Line.of, reported |-> FALSE])]
  /\ rounds' = IF thread.round # 0 THEN Armed(thread.round) ELSE rounds
  /\ UNCHANGED <<caller, closer, stopper, pending, server, history>>

RefusesToolCall ==
  /\ ForThread("tool")
  /\ caller.request.oneShot \/ ~TakesCalls
  /\ thread' = IF caller.request.oneShot THEN thread ELSE OffRound(thread)
  /\ Answered(Line.of)
  /\ UNCHANGED <<rounds, caller, closer, stopper, pending, billed, dropped, told, misread>>

\* No such thread: requests are answered with an error, the rest is dropped.
NoThread ==
  /\ TakeLine /\ Line.kind \notin {"result", "error"} /\ ~HasSink
  /\ IF Line.kind = "tool" THEN Answered(Line.of) ELSE UNCHANGED <<answered, server>>
  /\ UNCHANGED <<thread, rounds, caller, closer, stopper, client, pending, billed, dropped, told, misread>>

\* fail: every call in flight ends, then the thread is told.
OutputEnds ==
  /\ ~server.up /\ wire = <<>> /\ ~client.exited
  /\ client' = [client EXCEPT !.exited = TRUE, !.registered = FALSE, !.owesExit = client.registered]
  /\ pending' = [g \in Goroutines |-> IF pending[g] = "sent" THEN "error" ELSE pending[g]]
  /\ UNCHANGED <<thread, rounds, caller, closer, stopper, server, wire, history>>

ServerExited ==
  /\ client.owesExit
  /\ client' = [client EXCEPT !.owesExit = FALSE]
  /\ thread' = [thread EXCEPT !.state = "dirty", !.turn = 0]
  /\ rounds' = FinishedOpen("harness")
  /\ UNCHANGED <<caller, closer, stopper, pending, server, wire, history>>

-----------------------------------------------------------------------------
Calling == \/ Begin \/ Refuse \/ ThreadStarts \/ StartFails \/ Injected \/ InjectFails
           \/ OpenRound \/ LookNew \/ LookIdle \/ LookWaiting \/ Kicked \/ KickFails
           \/ Respond \/ ArmTimer \/ Receive \/ Deadline \/ AbortRound \/ CompleteFailed \/ Complete
Timing == \E r \in RoundIds : TimerFires(r) \/ TimerCallsBack(r)
Closing == \/ CloseLooks \/ CloseInterrupted \/ CloseWaited \/ CloseNotInterrupted
           \/ CloseUnsubscribed \/ Unregister \/ CloseTakes
Stopping == StopperLooks \/ StopperReturns
Reading == \/ ReadsResponse \/ UsageUpdated \/ NativeRequest \/ TurnStarted \/ Item \/ TurnCompleted \/ UnreadableFrame
           \/ ToolCall \/ RefusesToolCall \/ NoThread \/ OutputEnds \/ ServerExited
AppServer == \/ \E g \in Goroutines : ServeError(g) \/ ServeCall(g)
             \/ ServeTurn \/ Works \/ (\E c \in Calls : Asks(c)) \/ TurnEnds \/ Dies

Next ==
  \/ Calling \/ PlanExtend \/ Timing \/ CallerCloses \/ ManagerTakes \/ ManagerReplaces
  \/ DaemonStops \/ Closing \/ Stopping \/ Reading \/ AppServer

Spec == Init /\ [][Next]_vars

-----------------------------------------------------------------------------
(***************************************************************************)
(* Safety                                                                  *)
(***************************************************************************)
\* A round ends once: the channel of its end has room for one, and whoever
\* would send a second would wait for ever, holding the mutex of the thread
\* and with it the reader of every thread.
EndsOnce == \A r \in RoundIds : Len(rounds[r].done) <= 1

\* Whatever the order of the end of the round, its deadline, the close and the
\* reports themselves, a report the thread took in is at one place: with its
\* round until that is settled, carried by the thread, given to the round's
\* owner, or lost at the close.  A close that returns the usage loses no usage,
\* only events (thread.go:422), and leaves at most one report behind on the
\* closed thread: that of a line the reader held as the thread was unregistered.
Held(x) == Cardinality({r \in RoundIds : x \in rounds[r].gathered /\ ~rounds[r].settled})
InOnePlace(x) ==
  LET places == Held(x) + thread.carried[x] + billed[x] + dropped[x] IN
  /\ places <= 1
  /\ (\E r \in RoundIds : x \in rounds[r].gathered) => places = 1

LosesEventsOnly == closer.keeps => \A x \in Reports : dropped[x] > 0 => x \in Declines

LeavesOneBehind ==
  closer.keeps /\ closer.pc = "done" =>
    \A x, y \in Reports : thread.carried[x] > 0 /\ thread.carried[y] > 0 => x = y

ReportsConserved == (\A x \in Reports : InOnePlace(x)) /\ LosesEventsOnly /\ LeavesOneBehind

\* A tool call is reported once and answered once, and one that Codex waits for
\* is never forgotten: from the line that asks for it to the line that answers
\* it, through timers, late calls and rounds, it is in the list of the thread.
CallsHeld ==
  \A c \in Calls :
    /\ told[c] <= 1 /\ answered[c] <= 1
    /\ c \in server.asked /\ (\A i \in 1..Len(wire) : wire[i].of # c) /\ ~thread.closed
         => \E i \in 1..Len(thread.waiting) : thread.waiting[i].call = c

\* Codex has no end-of-batch signal: a round that waits while calls it has not
\* reported wait for it has a timer, or a callback under way, that ends it.
BatchHasTimer ==
  At("wait") /\ ~thread.closed /\ thread.round # 0 /\ HasUnreported(thread.waiting) =>
    rounds[thread.round].finished \/ rounds[thread.round].armed \/ rounds[thread.round].fired > 0

\* "The thread is marked dirty so the next round rebuilds it" (events.go:142):
\* a thread that read a frame it could not understand, and is still there when
\* the manager plans the next round, is dirty.
UnreadableIsRebuilt ==
  misread /\ At("out") /\ ~caller.isNew /\ ~thread.closed => thread.state = "dirty"
=============================================================================
