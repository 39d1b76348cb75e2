-------------------------- MODULE OperationStream --------------------------
(***************************************************************************)
(* The operation stream of internal/client/client.go and the workspace     *)
(* bridge of internal/client/workspace.go that rides on it: the daemon's   *)
(* connect loop, serve with its receiver and its one writer, a goroutine   *)
(* per operation, and the calls of local `agentparley ws` commands.        *)
(*                                                                         *)
(* The queues, the receiver and the writer are those of the current        *)
(* stream; whatever is put on the queue of an earlier one goes nowhere.    *)
(* The receiver and its channel are one bounded sequence.                  *)
(*                                                                         *)
(* An operator whose name starts with "Mutant" is a wrong version of the   *)
(* definition below it; no action uses it.                                 *)
(***************************************************************************)
EXTENDS Integers, Sequences, FiniteSets

CONSTANTS
  Ops,          \* the operations; the platform sends each once
  Sessions,
  Calls,        \* the workspace calls; nextID never gives two the same id
  Requests,     \* the functions Ops -> [kind, session] to explore
  Pool,         \* maxConcurrentOperations
  SendDepth,    \* sendQueueDepth
  MaxStreams,   \* bound on connections
  MaxAnswers,   \* bound on the platform's workspace results, duplicates included
  Deregister, None   \* a message, no message

\* A command and a harness completion watch their context; a file operation
\* does not.  A CLI round takes no slot, and only commands and file operations
\* belong to a session.
Kinds == {"command", "file", "model", "cli"}
Messages == Ops \cup Calls \cup {Deregister}

ASSUME StreamAssumption ==
  /\ Pool \in Nat \ {0} /\ SendDepth \in Nat \ {0} /\ MaxStreams \in Nat /\ MaxAnswers \in Nat
  /\ IsFiniteSet(Ops) /\ Ops \cap Calls = {}
  /\ Requests \subseteq [Ops -> [kind : Kinds, session : Sessions]]

VARIABLES
  stopping,   \* the daemon's ctx has been cancelled
  serve,      \* the goroutine of Run: where it is, the stream's number, the call it delivers to
  link,       \* the current connection works
  inbound,    \* received, with what the receiver holds
  sendError,  \* sendErrors holds an error
  queue,      \* sendQueue
  writer,     \* runWriter and the message it is sending
  used,       \* the tokens in operationSemaphore
  request,    \* what each operation asks
  op,         \* handleOperation; gaveUpAt is history: where it waited when its context ended
  call,       \* workspaceBridge.call
  pending,    \* workspaceBridge.pending
  channel,    \* what is in each call's resultChan
  heard,      \* the calls the platform has read
  answers     \* how many workspace results it has sent

wire == <<link, inbound, sendError, queue, writer>>
bridge == <<call, pending, channel>>
platform == <<heard, answers>>
vars == <<stopping, serve, wire, used, request, op, bridge, platform>>

-----------------------------------------------------------------------------
Idle == [pc |-> "idle", stream |-> 0, isLate |-> FALSE, hasRun |-> FALSE,
         gaveUpAt |-> "nowhere"]

TypeOK ==
  /\ stopping \in BOOLEAN
  /\ serve \in [pc : {"dialing", "loop", "delivering", "deregister", "grace", "clear",
                      "cancel", "close", "returned"},
                stream : 0..MaxStreams, call : Calls \cup {None}]
  /\ link \in BOOLEAN /\ sendError \in BOOLEAN
  /\ inbound \in Seq(Ops \cup Calls) /\ Len(inbound) <= 2
  /\ queue \in Seq(Messages) /\ Len(queue) <= SendDepth
  /\ writer \in [pc : {"waiting", "sending", "stopped"}, message : Messages \cup {None}]
  /\ used \in 0..Pool
  /\ op \in [Ops -> [pc : {"idle", "sent", "waiting", "check", "noSlot", "lock", "start",
                           "running", "sending", "ended"},
                     stream : 0..MaxStreams, isLate : BOOLEAN,
                     hasRun : BOOLEAN, gaveUpAt : {"nowhere", "slot", "session"}]]
  /\ call \in [Calls -> [pc : {"idle", "sending", "waiting", "forget", "returned"},
                         stream : 0..MaxStreams]]
  /\ pending \subseteq Calls
  /\ channel \in [Calls -> {"empty", "full", "closed"}]
  /\ heard \subseteq Calls /\ answers \in 0..MaxAnswers

Init ==
  /\ stopping = FALSE
  /\ serve = [pc |-> "dialing", stream |-> 0, call |-> None]
  /\ link = FALSE /\ inbound = <<>> /\ sendError = FALSE
  /\ queue = <<>> /\ writer = [pc |-> "stopped", message |-> None]
  /\ used = 0
  /\ request \in Requests
  /\ op = [o \in Ops |-> Idle]
  /\ call = [c \in Calls |-> [pc |-> "idle", stream |-> 0]]
  /\ pending = {} /\ channel = [c \in Calls |-> "empty"]
  /\ heard = {} /\ answers = 0

-----------------------------------------------------------------------------
\* The channel done of a stream and its streamCtx, which serve's deferred calls
\* close and cancel after clearStream; ctx cancels every streamCtx.
IsDone(s) == s < serve.stream \/ serve.pc \in {"dialing", "returned"}
IsCancelled(s) == stopping \/ IsDone(s) \/ serve.pc = "close"

\* operationCtx.Err() # nil
IsExpired(o) == op[o].isLate \/ IsCancelled(op[o].stream)

\* workspaceBridge.send # nil
IsBound == serve.pc \in {"loop", "delivering", "deregister", "grace", "clear"}

isCLIRound(o) == request[o].kind = "cli"
HasSession(o) == request[o].kind \in {"command", "file"}

\* Another operation holds the mutex of o's session.
IsSessionBusy(o) ==
  \E p \in Ops \ {o} : /\ HasSession(p) /\ request[p].session = request[o].session
                       /\ op[p].pc \in {"start", "running"}

\* The operations E after their contexts have ended.
GivingUp(E) ==
  [o \in Ops |->
    IF o \in E /\ op[o].pc = "waiting" THEN [op[o] EXCEPT !.gaveUpAt = "slot"]
    ELSE IF o \in E /\ op[o].pc = "lock" /\ HasSession(o) /\ IsSessionBusy(o)
         THEN [op[o] EXCEPT !.gaveUpAt = "session"]
         ELSE op[o]]

ServeFrom(from, to) == serve.pc = from /\ serve' = [serve EXCEPT !.pc = to]
Goto(o, from, to) == op[o].pc = from /\ op' = [op EXCEPT ![o].pc = to]

\* An operation that has its answer, or has given it, keeps nothing but its stream.
Conclude(o, from, to) ==
  /\ op[o].pc = from
  /\ op' = [op EXCEPT ![o] = [Idle EXCEPT !.pc = to, !.stream = op[o].stream]]
Return(o, from) == op[o].pc = from /\ op' = [op EXCEPT ![o] = [Idle EXCEPT !.pc = "ended"]]

CallFrom(c, from, to) == call[c].pc = from /\ call' = [call EXCEPT ![c].pc = to]

HasSpace == Len(queue) < SendDepth

-----------------------------------------------------------------------------
(***************************************************************************)
(* Run and serve                                                           *)
(***************************************************************************)
\* connectOnce up to setStream; a stream that does not get so far changes
\* nothing.
Connect ==
  /\ serve.pc = "dialing" /\ ~stopping /\ serve.stream < MaxStreams
  /\ serve' = [pc |-> "loop", stream |-> serve.stream + 1, call |-> None]
  /\ link' = TRUE /\ inbound' = <<>> /\ sendError' = FALSE
  /\ queue' = <<>> /\ writer' = [pc |-> "waiting", message |-> None]
  /\ heard' = {}
  /\ UNCHANGED <<stopping, used, request, op, bridge, answers>>

\* Run returns when it finds its ctx cancelled between two streams.
GiveUp ==
  /\ stopping
  /\ ServeFrom("dialing", "returned")
  /\ UNCHANGED <<stopping, wire, used, request, op, bridge, platform>>

\* What was received and not looked at when the loop is left is lost.
Leave(to) ==
  /\ ServeFrom("loop", to)
  /\ inbound' = <<>>
  /\ UNCHANGED <<stopping, link, sendError, queue, writer, used, request, op, bridge,
                 platform>>

SeeStop == stopping /\ Leave("deregister")

\* Recv fails once the receiver has handed on what it holds.
SeeRecvError == (~link \/ stopping) /\ Len(inbound) < 2 /\ Leave("clear")

SeeSendError == sendError /\ Leave("clear")

SeeShutdown == link /\ inbound = <<>> /\ Leave("clear")

TakeOperation(o) ==
  /\ serve.pc = "loop" /\ inbound # <<>> /\ Head(inbound) = o
  /\ inbound' = Tail(inbound)
  /\ op' = [op EXCEPT ![o] =
       [Idle EXCEPT !.pc = IF isCLIRound(o) THEN "lock" ELSE "waiting",
                    !.stream = serve.stream,
                    !.gaveUpAt = IF stopping /\ ~isCLIRound(o) THEN "slot" ELSE "nowhere"]]
  /\ UNCHANGED <<stopping, serve, link, sendError, queue, writer, used, request,
                 bridge, platform>>

\* The call stays pending after its result has come.
MutantTaken(c) == pending

Taken(c) == pending \ {c}

\* deliver up to its unlock: a result nobody waits for is dropped.
TakeResult(c) ==
  /\ serve.pc = "loop" /\ inbound # <<>> /\ Head(inbound) = c
  /\ inbound' = Tail(inbound)
  /\ IF c \in pending THEN /\ serve' = [serve EXCEPT !.pc = "delivering", !.call = c]
                           /\ pending' = Taken(c)
                      ELSE UNCHANGED <<serve, pending>>
  /\ UNCHANGED <<stopping, link, sendError, queue, writer, used, request, op,
                 call, channel, platform>>

Deliver ==
  LET c == serve.call IN
  /\ serve.pc = "delivering" /\ channel[c] = "empty"
  /\ serve' = [serve EXCEPT !.pc = "loop", !.call = None]
  /\ channel' = [channel EXCEPT ![c] = "full"]
  /\ UNCHANGED <<stopping, wire, used, request, op, call, pending, platform>>

\* The one send in serve that does not watch anything else.
SendDeregister ==
  /\ HasSpace
  /\ ServeFrom("deregister", "grace")
  /\ queue' = Append(queue, Deregister)
  /\ UNCHANGED <<stopping, link, inbound, sendError, writer, used, request, op,
                 bridge, platform>>

GraceEnds ==
  /\ ServeFrom("grace", "clear")
  /\ UNCHANGED <<stopping, wire, used, request, op, bridge, platform>>

\* clearStream, the first of serve's deferred calls ...
ClearStream ==
  /\ ServeFrom("clear", "cancel")
  /\ channel' = [c \in Calls |-> IF c \in pending THEN "closed" ELSE channel[c]]
  /\ pending' = {}
  /\ UNCHANGED <<stopping, wire, used, request, op, call, platform>>

\* ... cancelStream, the second ...
CancelStream ==
  /\ ServeFrom("cancel", "close")
  /\ op' = GivingUp({o \in Ops : op[o].stream = serve.stream})
  /\ UNCHANGED <<stopping, wire, used, request, bridge, platform>>

\* ... and close(done), the last.
CloseDone ==
  /\ ServeFrom("close", IF stopping THEN "returned" ELSE "dialing")
  /\ queue' = <<>> /\ writer' = [pc |-> "stopped", message |-> None]
  /\ link' = FALSE
  /\ UNCHANGED <<stopping, inbound, sendError, used, request, op, bridge, platform>>

Serve ==
  \/ GiveUp \/ SeeStop \/ SeeRecvError \/ SeeSendError \/ Deliver
  \/ \E o \in Ops : TakeOperation(o)
  \/ \E c \in Calls : TakeResult(c)
  \/ SendDeregister \/ GraceEnds \/ ClearStream \/ CancelStream \/ CloseDone

-----------------------------------------------------------------------------
(***************************************************************************)
(* runWriter                                                               *)
(***************************************************************************)
TakeMessage ==
  /\ writer.pc = "waiting" /\ queue # <<>>
  /\ writer' = [pc |-> "sending", message |-> Head(queue)]
  /\ queue' = Tail(queue)
  /\ UNCHANGED <<stopping, serve, link, inbound, sendError, used, request, op,
                 bridge, platform>>

SendSucceeds ==
  /\ writer.pc = "sending" /\ link
  /\ writer' = [pc |-> "waiting", message |-> None]
  /\ heard' = heard \cup ({writer.message} \cap Calls)
  /\ UNCHANGED <<stopping, serve, link, inbound, sendError, queue, used, request,
                 op, bridge, answers>>

\* The writer returns with its error, and nobody empties the queue any more.
SendFails ==
  /\ writer.pc = "sending" /\ (~link \/ stopping)
  /\ writer' = [pc |-> "stopped", message |-> None]
  /\ sendError' = TRUE
  /\ UNCHANGED <<stopping, serve, link, inbound, queue, used, request, op,
                 bridge, platform>>

Writer == TakeMessage \/ SendSucceeds \/ SendFails

-----------------------------------------------------------------------------
(***************************************************************************)
(* handleOperation                                                         *)
(***************************************************************************)
TakeSlot(o) ==
  /\ used < Pool
  /\ Goto(o, "waiting", "check")
  /\ used' = used + 1
  /\ UNCHANGED <<stopping, serve, wire, request, bridge, platform>>

WaitExpires(o) ==
  /\ IsExpired(o)
  /\ Conclude(o, "waiting", "noSlot")
  /\ UNCHANGED <<stopping, serve, wire, used, request, bridge, platform>>

WaitAbandoned(o) ==
  /\ IsDone(op[o].stream)
  /\ Return(o, "waiting")
  /\ UNCHANGED <<stopping, serve, wire, used, request, bridge, platform>>

MayRun(o) == ~IsExpired(o)

\* The slot of an operation that is refused after all is not given back.
MutantRefused(o) == used

Refused(o) == used - 1

Check(o) ==
  /\ \/ /\ MayRun(o)
        /\ Goto(o, "check", "lock")
        /\ UNCHANGED used
     \/ /\ ~MayRun(o)
        /\ Conclude(o, "check", "noSlot")
        /\ used' = Refused(o)
  /\ UNCHANGED <<stopping, serve, wire, request, bridge, platform>>

\* dispatch answers at once what policy denies or what has no session.
Reject(o) ==
  /\ Conclude(o, "lock", "sending")
  /\ UNCHANGED <<stopping, serve, wire, used, request, bridge, platform>>

\* dispatch up to the session's mutex, which the operation waits for whatever
\* happens to its context.
LockSession(o) ==
  /\ HasSession(o) => ~IsSessionBusy(o)
  /\ Goto(o, "lock", "start")
  /\ UNCHANGED <<stopping, serve, wire, used, request, bridge, platform>>

\* A file operation is done at once.  A command, a completion or a round is not
\* begun with a context that is over.
Start(o) ==
  /\ \/ /\ request[o].kind = "file" \/ ~IsExpired(o)
        /\ op[o].pc = "start"
        /\ op' = [op EXCEPT ![o].pc = "running", ![o].hasRun = TRUE]
     \/ /\ request[o].kind # "file" /\ IsExpired(o)
        /\ Conclude(o, "start", "sending")
  /\ UNCHANGED <<stopping, serve, wire, used, request, bridge, platform>>

\* It ends by itself or because its context did, and the mutex is unlocked.
Finish(o) ==
  /\ Conclude(o, "running", "sending")
  /\ UNCHANGED <<stopping, serve, wire, used, request, bridge, platform>>

\* An answer is only ever put on a queue, however dead its stream.
MutantMayAbandon(s) == FALSE

MayAbandon(s) == IsDone(s)

\* The answer to o goes on the queue of its stream, or nowhere.
Send(o) ==
  \/ MayAbandon(op[o].stream) /\ UNCHANGED queue
  \/ ~IsDone(op[o].stream) /\ HasSpace /\ queue' = Append(queue, o)

Released(o) == IF isCLIRound(o) THEN used ELSE used - 1

Answer(o) ==
  /\ Return(o, "sending")
  /\ Send(o)
  /\ used' = Released(o)
  /\ UNCHANGED <<stopping, serve, link, inbound, sendError, writer, request,
                 bridge, platform>>

answerNoSlot(o) ==
  /\ Return(o, "noSlot")
  /\ Send(o)
  /\ UNCHANGED <<stopping, serve, link, inbound, sendError, writer, used, request,
                 bridge, platform>>

handleOperation(o) ==
  \/ TakeSlot(o) \/ WaitExpires(o) \/ WaitAbandoned(o) \/ Check(o)
  \/ Reject(o) \/ LockSession(o) \/ Start(o) \/ Finish(o) \/ Answer(o) \/ answerNoSlot(o)

-----------------------------------------------------------------------------
(***************************************************************************)
(* workspaceBridge.call                                                    *)
(***************************************************************************)
NotConnected(c) ==
  /\ ~IsBound
  /\ CallFrom(c, "idle", "returned")
  /\ UNCHANGED <<stopping, serve, wire, used, request, op, pending, channel, platform>>

Register(c) ==
  /\ IsBound /\ call[c].pc = "idle"
  /\ call' = [call EXCEPT ![c] = [pc |-> "sending", stream |-> serve.stream]]
  /\ pending' = pending \cup {c}
  /\ UNCHANGED <<stopping, serve, wire, used, request, op, channel, platform>>

SendCall(c) ==
  /\ ~IsDone(call[c].stream) /\ HasSpace
  /\ CallFrom(c, "sending", "waiting")
  /\ queue' = Append(queue, c)
  /\ UNCHANGED <<stopping, serve, link, inbound, sendError, writer, used, request,
                 op, pending, channel, platform>>

SendAbandoned(c) ==
  /\ IsDone(call[c].stream)
  /\ CallFrom(c, "sending", "forget")
  /\ UNCHANGED <<stopping, serve, wire, used, request, op, pending, channel, platform>>

\* A closed channel reads as not_connected.
ReadResult(c) ==
  /\ channel[c] # "empty"
  /\ CallFrom(c, "waiting", "returned")
  /\ channel' = [channel EXCEPT ![c] = IF @ = "full" THEN "empty" ELSE @]
  /\ UNCHANGED <<stopping, serve, wire, used, request, op, pending, platform>>

CallTimeout(c) ==
  /\ CallFrom(c, "waiting", "forget")
  /\ UNCHANGED <<stopping, serve, wire, used, request, op, pending, channel, platform>>

\* A call that gave up stays in the map.
MutantForgotten(c) == pending

Forgotten(c) == pending \ {c}

forget(c) ==
  /\ CallFrom(c, "forget", "returned")
  /\ pending' = Forgotten(c)
  /\ UNCHANGED <<stopping, serve, wire, used, request, op, channel, platform>>

workspaceCall(c) ==
  \/ NotConnected(c) \/ Register(c) \/ SendCall(c) \/ SendAbandoned(c) \/ ReadResult(c)
  \/ CallTimeout(c) \/ forget(c)

-----------------------------------------------------------------------------
(***************************************************************************)
(* The platform, the network, the clock and SIGTERM                        *)
(***************************************************************************)
Receive(m) ==
  /\ link /\ serve.pc \in {"loop", "delivering"} /\ Len(inbound) < 2
  /\ inbound' = Append(inbound, m)

SendsOperation(o) ==
  /\ Receive(o)
  /\ Goto(o, "idle", "sent")
  /\ UNCHANGED <<stopping, serve, link, sendError, queue, writer, used, request,
                 bridge, platform>>

\* Late, or twice, as it may be.
SendsResult(c) ==
  /\ c \in heard /\ answers < MaxAnswers
  /\ Receive(c)
  /\ answers' = answers + 1
  /\ UNCHANGED <<stopping, serve, link, sendError, queue, writer, used, request, op,
                 bridge, heard>>

Breaks ==
  /\ link
  /\ link' = FALSE
  /\ UNCHANGED <<stopping, serve, inbound, sendError, queue, writer, used, request,
                 op, bridge, platform>>

Deadline(o) ==
  /\ op[o].pc \in {"waiting", "check", "lock", "start", "running"} /\ ~IsExpired(o)
  /\ op' = [GivingUp({o}) EXCEPT ![o].isLate = TRUE]
  /\ UNCHANGED <<stopping, serve, wire, used, request, bridge, platform>>

Signal ==
  /\ ~stopping
  /\ stopping' = TRUE
  /\ op' = GivingUp(Ops)
  /\ UNCHANGED <<serve, wire, used, request, bridge, platform>>

Environment ==
  \/ \E o \in Ops : SendsOperation(o) \/ Deadline(o)
  \/ \E c \in Calls : SendsResult(c)
  \/ SeeShutdown \/ Breaks \/ Signal

Next ==
  \/ Connect \/ Serve \/ Writer \/ Environment
  \/ \E o \in Ops : handleOperation(o)
  \/ \E c \in Calls : workspaceCall(c)

Spec == Init /\ [][Next]_vars

(***************************************************************************)
(* Every goroutine goes on while it can, the platform reads what it is     *)
(* sent, and deadlines pass.  A command need not end before its deadline,  *)
(* no call need reach its 30 s, no stream need come or break.              *)
(***************************************************************************)
Fairness ==
  /\ WF_vars(Serve) /\ WF_vars(Writer)
  /\ \A o \in Ops :
       /\ WF_vars(Deadline(o))
       /\ WF_vars(handleOperation(o)
                    /\ (op[o].pc = "running" => request[o].kind = "file" \/ IsExpired(o)))
  /\ \A c \in Calls : WF_vars(workspaceCall(c) /\ call[c].pc # "idle" /\ ~CallTimeout(c))

FairSpec == Spec /\ Fairness

-----------------------------------------------------------------------------
(***************************************************************************)
(* Safety                                                                  *)
(***************************************************************************)
\* The pool's tokens are those of the operations that got one and have not yet
\* returned, through refusals after the fact and abandoned answers: none leaks,
\* and none is given back twice.
NoSlotLeaked ==
  used = Cardinality({o \in Ops :
           ~isCLIRound(o) /\ op[o].pc \in {"check", "lock", "start", "running", "sending"}})

\* The receive loop is never held up by a call that has its result already, and
\* never sends on a channel clearStream has closed, which would end the
\* process: not with a result that comes twice or late, nor with one that was
\* taken off pending before clearStream closed what is left there.
DeliverNeverBlocks == serve.pc = "delivering" => channel[serve.call] = "empty"

\* Only calls under way are pending, however they ended: by a result, a
\* timeout, or a stream that ended at any of their steps.
NoCallLeftPending ==
  \A c \in pending : call[c].pc \in {"sending", "waiting", "forget"}

-----------------------------------------------------------------------------
(***************************************************************************)
(* Liveness                                                                *)
(***************************************************************************)
\* client.go:325: no operation is held up for ever, by its queue, its session
\* or the writer, except by a daemon stuck in SendDeregister.  An operation is
\* received once: if one were held up, there would never again be none.
EveryOperationEnds ==
  []<>((\A o \in Ops : op[o].pc \in {"idle", "sent", "ended"}) \/ serve.pc = "deregister")

-----------------------------------------------------------------------------
(***************************************************************************)
(* What comments say and the code does not keep                            *)
(***************************************************************************)
\* client.go:128 and 293: a daemon whose ctx is cancelled deregisters, waits
\* briefly and returns.
StopsOnSignal == stopping ~> serve.pc = "returned"

\* client.go:330: an operation must not execute the side effect its caller gave
\* up on while it was queued, here behind another one of its session.
NoLateSideEffect == \A o \in Ops : op[o].hasRun => op[o].gaveUpAt # "session"
=============================================================================
