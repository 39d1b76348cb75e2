----------------------- MODULE OperationStream_proofs -----------------------
(***************************************************************************)
(* Proofs about the operation stream and the workspace bridge for every    *)
(* number of operations, calls, slots and streams.                         *)
(***************************************************************************)
EXTENDS OperationStream, FiniteSetTheorems, TLAPS

-----------------------------------------------------------------------------
(***************************************************************************)
(* The inductive invariant                                                 *)
(***************************************************************************)
ServeRecord ==
  [pc : {"dialing", "loop", "delivering", "deregister", "grace", "clear", "cancel", "close", "returned"},
   stream : 0..MaxStreams, call : Calls \cup {None}]
WriterRecord == [pc : {"waiting", "sending", "stopped"}, message : Messages \cup {None}]
OpRecord ==
  [pc : {"idle", "sent", "waiting", "check", "noSlot", "lock", "start", "running", "sending", "ended"},
   stream : 0..MaxStreams, isLate : BOOLEAN, hasRun : BOOLEAN, gaveUpAt : {"nowhere", "slot", "session"}]
CallRecord == [pc : {"idle", "sending", "waiting", "forget", "returned"}, stream : 0..MaxStreams]

\* The types, in groups that one step seldom all changes.
StreamTypes ==
  /\ stopping \in BOOLEAN /\ link \in BOOLEAN /\ sendError \in BOOLEAN
  /\ serve \in ServeRecord
  /\ inbound \in Seq(Ops \cup Calls) /\ Len(inbound) <= 2
WriterTypes ==
  /\ queue \in Seq(Messages) /\ Len(queue) <= SendDepth
  /\ writer \in WriterRecord
OpTypes ==
  /\ request \in [Ops -> [kind : Kinds, session : Sessions]]
  /\ op \in [Ops -> OpRecord]
CallTypes ==
  /\ call \in [Calls -> CallRecord]
  /\ pending \subseteq Calls
  /\ channel \in [Calls -> {"empty", "full", "closed"}]
  /\ heard \subseteq Calls /\ answers \in 0..MaxAnswers

Typed == StreamTypes /\ WriterTypes /\ OpTypes /\ CallTypes

\* An operation that has been received and not been looked at is there once.
Received ==
  /\ \A i \in 1..Len(inbound) : inbound[i] \in Ops => op[inbound[i]].pc = "sent"
  /\ \A i, j \in 1..Len(inbound) : inbound[i] \in Ops /\ inbound[i] = inbound[j] => i = j

\* The operations that have a token of the pool.
Holding ==
  {o \in Ops : ~isCLIRound(o) /\ op[o].pc \in {"check", "lock", "start", "running", "sending"}}

\* A CLI round never gets near the pool.
Apart == \A o \in Ops : op[o].pc \in {"waiting", "check", "noSlot"} => ~isCLIRound(o)

Slots == Apart /\ used = Cardinality(Holding) /\ used <= Pool

\* What a call has in its channel, and when somebody may still put something in.
Delivery ==
  /\ \A c \in pending : channel[c] = "empty" /\ call[c].pc \in {"sending", "waiting", "forget"}
  /\ \A c \in Calls : call[c].pc = "idle" => channel[c] = "empty"
  /\ serve.pc = "delivering" =>
       /\ serve.call \in Calls \ pending
       /\ channel[serve.call] = "empty" /\ call[serve.call].pc # "idle"

IInv == Typed /\ Received /\ Slots /\ Delivery

-----------------------------------------------------------------------------
(***************************************************************************)
(* Lemmas                                                                  *)
(***************************************************************************)
\* The operations that hold a token can be counted.
LEMMA FiniteHolding == IsFiniteSet(Holding) /\ Cardinality(Holding) \in Nat
BY StreamAssumption, FS_Subset, FS_CardinalityType DEF Holding

\* One operation gets a token, gives one back, or neither.
LEMMA HoldingStep ==
  ASSUME OpTypes, NEW o \in Ops, request' = request,
         \A p \in Ops : p # o => op'[p].pc = op[p].pc
  PROVE  /\ o \in Holding /\ o \notin Holding' => Cardinality(Holding') = Cardinality(Holding) - 1
         /\ o \notin Holding /\ o \in Holding' => Cardinality(Holding') = Cardinality(Holding) + 1
         /\ (o \in Holding <=> o \in Holding') => Holding' = Holding
<1>1. \A p \in Ops : p # o => (p \in Holding' <=> p \in Holding)
  BY DEF Holding, isCLIRound
<1>2. Holding \subseteq Ops /\ Holding' \subseteq Ops
  BY DEF Holding
<1>3. ASSUME o \in Holding, o \notin Holding'
      PROVE  Cardinality(Holding') = Cardinality(Holding) - 1
  <2>1. Holding' = Holding \ {o}
    BY <1>1, <1>2, <1>3
  <2>2. Cardinality(Holding \ {o}) = Cardinality(Holding) - 1
    BY <1>3, FiniteHolding, FS_RemoveElement
  <2> QED BY <2>1, <2>2
<1>4. ASSUME o \notin Holding, o \in Holding'
      PROVE  Cardinality(Holding') = Cardinality(Holding) + 1
  <2>1. Holding' = Holding \cup {o}
    BY <1>1, <1>2, <1>4
  <2>2. Cardinality(Holding \cup {o}) = Cardinality(Holding) + 1
    BY <1>4, FiniteHolding, FS_AddElement
  <2> QED BY <2>1, <2>2
<1>5. ASSUME o \in Holding <=> o \in Holding'
      PROVE  Holding' = Holding
  BY <1>1, <1>2, <1>5
<1> QED BY <1>3, <1>4, <1>5

\* Nobody moves.
LEMMA SlotsKept ==
  ASSUME Slots, UNCHANGED <<request, used>>, \A p \in Ops : op'[p].pc = op[p].pc
  PROVE  Slots'
<1>1. Holding' = Holding
  BY DEF Holding, isCLIRound
<1> QED BY <1>1 DEF Slots, Apart, isCLIRound

\* Contexts end without anybody moving.
LEMMA GivingUpKeeps ==
  ASSUME OpTypes, NEW E
  PROVE  /\ GivingUp(E) \in [Ops -> OpRecord]
         /\ \A o \in Ops : GivingUp(E)[o].pc = op[o].pc
<1>1. ASSUME NEW o \in Ops
      PROVE  /\ [op[o] EXCEPT !.gaveUpAt = "slot"] \in OpRecord /\ [op[o] EXCEPT !.gaveUpAt = "session"] \in OpRecord
             /\ [op[o] EXCEPT !.gaveUpAt = "slot"].pc = op[o].pc
             /\ [op[o] EXCEPT !.gaveUpAt = "session"].pc = op[o].pc
             /\ op[o] \in OpRecord
  BY DEF OpTypes, OpRecord
<1>2. \A o \in Ops : /\ GivingUp(E)[o] \in OpRecord
                     /\ GivingUp(E)[o].pc = op[o].pc
  BY <1>1 DEF GivingUp
<1>3. GivingUp(E) = [o \in Ops |-> GivingUp(E)[o]]
  BY DEF GivingUp
<1> QED BY <1>2, <1>3

\* An empty queue is a queue.
LEMMA NothingQueued == ASSUME NEW S PROVE <<>> \in Seq(S) /\ Len(<<>>) = 0
OBVIOUS

\* The start.
LEMMA InitIInv == Init => IInv
<1> SUFFICES ASSUME Init PROVE IInv
  OBVIOUS
<1> USE StreamAssumption
<1>1. Typed
  <2>1. StreamTypes
    <3>1. serve \in ServeRecord
      BY DEF Init, ServeRecord
    <3>2. inbound \in Seq(Ops \cup Calls) /\ Len(inbound) <= 2
      BY NothingQueued DEF Init
    <3> QED BY <3>1, <3>2 DEF Init, StreamTypes
  <2>4. WriterTypes
    <3>1. writer \in WriterRecord
      BY DEF Init, WriterRecord
    <3>2. queue \in Seq(Messages) /\ Len(queue) <= SendDepth
      BY NothingQueued DEF Init
    <3> QED BY <3>1, <3>2 DEF Init, WriterTypes
  <2>2. OpTypes
    BY DEF Init, OpTypes, OpRecord, Idle
  <2>3. CallTypes
    BY DEF Init, CallTypes, CallRecord
  <2> QED BY <2>1, <2>2, <2>3, <2>4 DEF Typed
<1>2. Received
  BY DEF Init, Received
<1>3. Slots
  <2>1. Holding = {}
    BY DEF Init, Holding, Idle
  <2>2. used = Cardinality(Holding)
    BY <2>1, FS_EmptySet DEF Init
  <2> QED BY <2>2 DEF Init, Slots, Apart, Idle
<1>4. Delivery
  BY DEF Init, Delivery
<1> QED BY <1>1, <1>2, <1>3, <1>4 DEF IInv

-----------------------------------------------------------------------------
(***************************************************************************)
(* Types                                                                   *)
(***************************************************************************)
\* A goroutine goes from one place to another.
LEMMA ServeAt ==
  ASSUME StreamTypes, NEW from, NEW to \in {"loop", "delivering", "deregister", "grace", "clear", "cancel",
                                            "close", "dialing", "returned"}, ServeFrom(from, to)
  PROVE  serve' \in ServeRecord
BY DEF StreamTypes, ServeRecord, ServeFrom

\* What the loop takes from the stream leaves the rest of it.
LEMMA TailTyped ==
  ASSUME NEW S, NEW q \in Seq(S), q # <<>>
  PROVE  /\ Head(q) \in S /\ Tail(q) \in Seq(S) /\ Len(Tail(q)) = Len(q) - 1 /\ Head(q) = q[1]
         /\ \A i \in 1..Len(Tail(q)) : Tail(q)[i] = q[i + 1]
OBVIOUS

\* What the loop, the network and the writer do to the stream.
LEMMA StreamStep == ASSUME StreamTypes, CallTypes, [Next]_vars PROVE StreamTypes'
<1> USE StreamAssumption
<1>1. CASE Connect
  <2>1. serve' \in ServeRecord
    BY <1>1 DEF Connect, StreamTypes, ServeRecord
  <2>2. inbound' \in Seq(Ops \cup Calls) /\ Len(inbound') <= 2
    BY <1>1, NothingQueued DEF Connect
  <2> QED BY <1>1, <2>1, <2>2 DEF Connect, StreamTypes
<1>2. CASE GiveUp \/ SendDeregister \/ GraceEnds \/ ClearStream \/ CancelStream
  <2>1. serve' \in ServeRecord
    BY <1>2, ServeAt DEF GiveUp, SendDeregister, GraceEnds, ClearStream, CancelStream
  <2> QED BY <1>2, <2>1 DEF GiveUp, SendDeregister, GraceEnds, ClearStream, CancelStream, StreamTypes, wire
<1>3. CASE SeeStop \/ SeeRecvError \/ SeeSendError \/ SeeShutdown
  <2>1. serve' \in ServeRecord
    BY <1>3, ServeAt DEF SeeStop, SeeRecvError, SeeSendError, SeeShutdown, Leave
  <2>2. inbound' \in Seq(Ops \cup Calls) /\ Len(inbound') <= 2
    <3>1. inbound' = <<>>
      BY <1>3 DEF SeeStop, SeeRecvError, SeeSendError, SeeShutdown, Leave
    <3> QED BY <3>1, NothingQueued
  <2> QED BY <1>3, <2>1, <2>2 DEF SeeStop, SeeRecvError, SeeSendError, SeeShutdown, Leave, StreamTypes
<1>4. CASE CloseDone
  <2>1. serve' \in ServeRecord
    BY <1>4, ServeAt DEF CloseDone
  <2> QED BY <1>4, <2>1 DEF CloseDone, StreamTypes
<1>5. ASSUME NEW o \in Ops, TakeOperation(o)
      PROVE  StreamTypes'
  BY <1>5, TailTyped DEF TakeOperation, StreamTypes
<1>6. ASSUME NEW c \in Calls, TakeResult(c)
      PROVE  StreamTypes'
  <2>1. serve' \in ServeRecord
    BY <1>6 DEF TakeResult, StreamTypes, ServeRecord
  <2> QED BY <1>6, <2>1, TailTyped DEF TakeResult, StreamTypes
<1>7. CASE Deliver
  <2>1. serve' \in ServeRecord
    BY <1>7 DEF Deliver, StreamTypes, ServeRecord
  <2> QED BY <1>7, <2>1 DEF Deliver, StreamTypes, wire
<1>8. CASE Writer
  BY <1>8 DEF Writer, TakeMessage, SendSucceeds, SendFails, StreamTypes
<1>9. ASSUME NEW m \in Ops \cup Calls, Receive(m)
      PROVE  inbound' \in Seq(Ops \cup Calls) /\ Len(inbound') <= 2
  BY <1>9 DEF Receive, StreamTypes
<1>10. CASE \E o \in Ops : SendsOperation(o)
  BY <1>10, <1>9 DEF SendsOperation, StreamTypes
<1>11. CASE \E c \in Calls : SendsResult(c)
  BY <1>11, <1>9 DEF SendsResult, StreamTypes
<1>12. CASE Breaks \/ Signal \/ \E o \in Ops : Deadline(o)
  BY <1>12 DEF Breaks, Signal, Deadline, wire, StreamTypes
<1>13. ASSUME NEW o \in Ops, handleOperation(o)
       PROVE  StreamTypes'
  BY <1>13 DEF handleOperation, TakeSlot, WaitExpires, WaitAbandoned, Check, Reject, LockSession, Start, Finish,
               Answer, answerNoSlot, wire, StreamTypes
<1>14. ASSUME NEW c \in Calls, workspaceCall(c)
       PROVE  StreamTypes'
  BY <1>14 DEF workspaceCall, NotConnected, Register, SendCall, SendAbandoned, ReadResult, CallTimeout, forget,
               wire, StreamTypes
<1>15. CASE UNCHANGED vars
  BY <1>15 DEF vars, wire, StreamTypes
<1> QED BY <1>1, <1>2, <1>3, <1>4, <1>5, <1>6, <1>7, <1>8, <1>10, <1>11, <1>12, <1>13, <1>14, <1>15
        DEF Next, Serve, Environment

\* What is put on the queue.
LEMMA WriterStep == ASSUME WriterTypes, [Next]_vars PROVE WriterTypes'
<1> USE StreamAssumption
<1>1. CASE Connect \/ CloseDone
  <2>1. writer' \in WriterRecord
    BY <1>1 DEF Connect, CloseDone, WriterRecord
  <2>2. queue' \in Seq(Messages) /\ Len(queue') <= SendDepth
    <3>1. queue' = <<>>
      BY <1>1 DEF Connect, CloseDone
    <3> QED BY <3>1, NothingQueued
  <2> QED BY <2>1, <2>2 DEF WriterTypes
<1>2. ASSUME NEW m \in Messages, HasSpace, queue' = Append(queue, m), writer' = writer
      PROVE  WriterTypes'
  BY <1>2 DEF HasSpace, WriterTypes
<1>3. CASE SendDeregister
  BY <1>3, <1>2 DEF SendDeregister, Messages
<1>4. CASE TakeMessage
  <2>1. writer' \in WriterRecord
    BY <1>4, TailTyped DEF TakeMessage, WriterTypes, WriterRecord
  <2> QED BY <1>4, <2>1, TailTyped DEF TakeMessage, WriterTypes
<1>5. CASE SendSucceeds \/ SendFails
  <2>1. writer' \in WriterRecord
    BY <1>5 DEF SendSucceeds, SendFails, WriterRecord
  <2> QED BY <1>5, <2>1 DEF SendSucceeds, SendFails, WriterTypes
<1>6. ASSUME NEW o \in Ops, Answer(o) \/ answerNoSlot(o)
      PROVE  WriterTypes'
  <2>1. CASE UNCHANGED <<queue, writer>>
    BY <2>1 DEF WriterTypes
  <2>2. o \in Messages
    BY DEF Messages
  <2> QED BY <1>6, <2>1, <2>2, <1>2 DEF Answer, answerNoSlot, Send
<1>7. ASSUME NEW c \in Calls, SendCall(c)
      PROVE  WriterTypes'
  <2>1. c \in Messages
    BY DEF Messages
  <2> QED BY <1>7, <2>1, <1>2 DEF SendCall
<1>8. CASE UNCHANGED <<queue, writer>>
  BY <1>8 DEF WriterTypes
<1>9. ASSUME NEW o \in Ops, handleOperation(o)
      PROVE  WriterTypes'
  BY <1>9, <1>6, <1>8 DEF handleOperation, TakeSlot, WaitExpires, WaitAbandoned, Check, Reject, LockSession, Start,
                          Finish, wire
<1>10. ASSUME NEW c \in Calls, workspaceCall(c)
       PROVE  WriterTypes'
  BY <1>10, <1>7, <1>8 DEF workspaceCall, NotConnected, Register, SendAbandoned, ReadResult, CallTimeout, forget, wire
<1>11. CASE Environment
  BY <1>11, <1>8 DEF Environment, SendsOperation, Deadline, SendsResult, SeeShutdown, Leave, Breaks, Signal, wire
<1>12. CASE Serve
  BY <1>12, <1>1, <1>3, <1>8
     DEF Serve, GiveUp, SeeStop, SeeRecvError, SeeSendError, Leave, Deliver, TakeOperation, TakeResult, GraceEnds,
         ClearStream, CancelStream, wire
<1> QED BY <1>1, <1>4, <1>5, <1>8, <1>9, <1>10, <1>11, <1>12 DEF Next, Writer, vars, wire

\* An operation goes from one place to another.
LEMMA OpAt ==
  ASSUME OpTypes, NEW o \in Ops, NEW from,
         NEW to \in {"idle", "sent", "waiting", "check", "noSlot", "lock", "start", "running", "sending", "ended"},
         Goto(o, from, to) \/ Conclude(o, from, to) \/ (to = "ended" /\ Return(o, from))
  PROVE  /\ op' \in [Ops -> OpRecord] /\ op[o].pc = from /\ op'[o].pc = to
         /\ \A p \in Ops : p # o => op'[p] = op[p]
<1>1. CASE Goto(o, from, to)
  <2>1. [op[o] EXCEPT !.pc = to] \in OpRecord /\ [op[o] EXCEPT !.pc = to].pc = to
    BY DEF OpTypes, OpRecord
  <2>2. op' = [op EXCEPT ![o] = [op[o] EXCEPT !.pc = to]]
    BY <1>1 DEF Goto
  <2> QED BY <1>1, <2>1, <2>2 DEF OpTypes, Goto
<1>2. CASE Conclude(o, from, to)
  <2>1. [Idle EXCEPT !.pc = to, !.stream = op[o].stream] \in OpRecord
        /\ [Idle EXCEPT !.pc = to, !.stream = op[o].stream].pc = to
    BY DEF OpTypes, OpRecord, Idle
  <2> QED BY <1>2, <2>1 DEF OpTypes, Conclude
<1>3. CASE to = "ended" /\ Return(o, from)
  <2>1. [Idle EXCEPT !.pc = "ended"] \in OpRecord /\ [Idle EXCEPT !.pc = "ended"].pc = "ended"
    <3>1. 0 \in 0..MaxStreams
      BY StreamAssumption
    <3>2. Idle \in OpRecord
      BY <3>1 DEF Idle, OpRecord
    <3> QED BY <3>2 DEF OpRecord
  <2> QED BY <1>3, <2>1 DEF OpTypes, Return
<1> QED BY <1>1, <1>2, <1>3

\* An operation is taken from the stream, or started.
LEMMA OpTaken ==
  ASSUME StreamTypes, OpTypes, NEW o \in Ops, TakeOperation(o)
  PROVE  /\ op' \in [Ops -> OpRecord] /\ op'[o].pc \in {"waiting", "lock"}
         /\ op'[o].pc = "waiting" => ~isCLIRound(o)
         /\ op'[o].pc = "lock" => isCLIRound(o)
         /\ \A p \in Ops : p # o => op'[p] = op[p]
<1>1. PICK r : r = [Idle EXCEPT !.pc = IF isCLIRound(o) THEN "lock" ELSE "waiting",
                    !.stream = serve.stream,
                    !.gaveUpAt = IF stopping /\ ~isCLIRound(o) THEN "slot" ELSE "nowhere"]
  OBVIOUS
<1>2. r \in OpRecord
  BY <1>1 DEF OpRecord, Idle, StreamTypes, ServeRecord
<1>3. r.pc = IF isCLIRound(o) THEN "lock" ELSE "waiting"
  BY <1>1 DEF Idle
<1>4. op' = [op EXCEPT ![o] = r]
  BY <1>1 DEF TakeOperation
<1> QED BY <1>2, <1>3, <1>4 DEF OpTypes

\* An operation begins, or is refused at the last moment.
LEMMA OpStarted ==
  ASSUME OpTypes, NEW o \in Ops, Start(o)
  PROVE  /\ op' \in [Ops -> OpRecord] /\ op[o].pc = "start" /\ op'[o].pc \in {"running", "sending"}
         /\ \A p \in Ops : p # o => op'[p] = op[p]
<1>1. CASE op[o].pc = "start" /\ op' = [op EXCEPT ![o].pc = "running", ![o].hasRun = TRUE]
  <2>1. PICK r : r = [op[o] EXCEPT !.pc = "running", !.hasRun = TRUE]
    OBVIOUS
  <2>2. r \in OpRecord
    BY <2>1 DEF OpTypes, OpRecord
  <2>3. r.pc = "running"
    BY <2>1 DEF OpTypes, OpRecord
  <2>4. op' = [op EXCEPT ![o] = r]
    BY <1>1, <2>1 DEF OpTypes
  <2> QED BY <1>1, <2>2, <2>3, <2>4 DEF OpTypes
<1>2. CASE Conclude(o, "start", "sending")
  BY <1>2, OpAt
<1> QED BY <1>1, <1>2 DEF Start

\* Contexts end without anybody moving, the deadline of one operation included.
LEMMA OpExpires ==
  ASSUME OpTypes, CancelStream \/ Signal \/ \E o \in Ops : Deadline(o)
  PROVE  op' \in [Ops -> OpRecord] /\ \A p \in Ops : op'[p].pc = op[p].pc
<1>1. CASE CancelStream \/ Signal
  BY <1>1, GivingUpKeeps DEF CancelStream, Signal
<1>2. ASSUME NEW o \in Ops, Deadline(o)
      PROVE  op' \in [Ops -> OpRecord] /\ \A p \in Ops : op'[p].pc = op[p].pc
  <2>1. PICK g : g = GivingUp({o})
    OBVIOUS
  <2>2. g \in [Ops -> OpRecord] /\ \A p \in Ops : g[p].pc = op[p].pc
    BY <2>1, GivingUpKeeps
  <2>3. op' = [g EXCEPT ![o] = [g[o] EXCEPT !.isLate = TRUE]]
    BY <1>2, <2>1, <2>2 DEF Deadline
  <2>4. [g[o] EXCEPT !.isLate = TRUE] \in OpRecord /\ [g[o] EXCEPT !.isLate = TRUE].pc = g[o].pc
    BY <2>2 DEF OpRecord
  <2> QED BY <2>2, <2>3, <2>4
<1> QED BY <1>1, <1>2

\* The steps that leave the operations alone.
LEMMA OpIdle ==
  ASSUME Connect \/ GiveUp \/ SeeStop \/ SeeRecvError \/ SeeSendError \/ SeeShutdown
         \/ Deliver \/ (\E c \in Calls : TakeResult(c)) \/ SendDeregister \/ GraceEnds \/ ClearStream \/ CloseDone
         \/ Writer \/ Breaks \/ (\E c \in Calls : SendsResult(c) \/ workspaceCall(c)) \/ UNCHANGED vars
  PROVE  UNCHANGED <<op, request, used>>
<1>1. CASE \E c \in Calls : workspaceCall(c)
  BY <1>1 DEF workspaceCall, NotConnected, Register, SendCall, SendAbandoned, ReadResult, CallTimeout, forget
<1>2. CASE Writer
  BY <1>2 DEF Writer, TakeMessage, SendSucceeds, SendFails
<1>3. CASE SeeStop \/ SeeRecvError \/ SeeSendError \/ SeeShutdown
  BY <1>3 DEF SeeStop, SeeRecvError, SeeSendError, SeeShutdown, Leave
<1> QED BY <1>1, <1>2, <1>3
        DEF Connect, GiveUp, Deliver, TakeResult, SendDeregister, GraceEnds, ClearStream, CloseDone, Breaks,
            SendsResult, vars

\* One operation moves.
LEMMA OpMoves ==
  ASSUME OpTypes, NEW o \in Ops, handleOperation(o)
  PROVE  /\ op' \in [Ops -> OpRecord] /\ request' = request
         /\ op[o].pc \notin {"idle", "sent", "ended"}
         /\ \A p \in Ops : p # o => op'[p] = op[p]
<1>1. CASE Start(o)
  BY <1>1, OpStarted DEF Start
<1>2. CASE Answer(o) \/ answerNoSlot(o) \/ WaitAbandoned(o)
  <2>1. Return(o, "sending") \/ Return(o, "noSlot") \/ Return(o, "waiting")
    BY <1>2 DEF Answer, answerNoSlot, WaitAbandoned
  <2> QED BY <1>2, <2>1, OpAt DEF Answer, answerNoSlot, WaitAbandoned
<1>3. CASE Check(o)
  <2>1. Goto(o, "check", "lock") \/ Conclude(o, "check", "noSlot")
    BY <1>3 DEF Check
  <2> QED BY <1>3, <2>1, OpAt DEF Check
<1>4. CASE TakeSlot(o) \/ WaitExpires(o)
  <2>1. Goto(o, "waiting", "check") \/ Conclude(o, "waiting", "noSlot")
    BY <1>4 DEF TakeSlot, WaitExpires
  <2> QED BY <1>4, <2>1, OpAt DEF TakeSlot, WaitExpires
<1>5. CASE Reject(o) \/ LockSession(o) \/ Finish(o)
  <2>1. Conclude(o, "lock", "sending") \/ Goto(o, "lock", "start") \/ Conclude(o, "running", "sending")
    BY <1>5 DEF Reject, LockSession, Finish
  <2> QED BY <1>5, <2>1, OpAt DEF Reject, LockSession, Finish
<1> QED BY <1>1, <1>2, <1>3, <1>4, <1>5 DEF handleOperation

\* What an operation is.
LEMMA OpStep == ASSUME StreamTypes, OpTypes, [Next]_vars PROVE OpTypes'
<1>1. CASE UNCHANGED <<op, request>>
  BY <1>1 DEF OpTypes
<1>2. CASE \E o \in Ops : handleOperation(o)
  BY <1>2, OpMoves DEF OpTypes
<1>3. CASE \E o \in Ops : TakeOperation(o)
  BY <1>3, OpTaken DEF OpTypes, TakeOperation
<1>4. CASE CancelStream \/ Signal \/ \E o \in Ops : Deadline(o)
  BY <1>4, OpExpires DEF OpTypes, CancelStream, Signal, Deadline
<1>5. CASE \E o \in Ops : SendsOperation(o)
  BY <1>5, OpAt DEF OpTypes, SendsOperation
<1> QED BY <1>1, <1>2, <1>3, <1>4, <1>5, OpIdle DEF Next, Serve, Environment

\* A call goes from one place to another.
LEMMA CallAt ==
  ASSUME CallTypes, NEW c \in Calls, NEW from, NEW to \in {"idle", "sending", "waiting", "forget", "returned"},
         CallFrom(c, from, to)
  PROVE  /\ call' \in [Calls -> CallRecord] /\ call[c].pc = from /\ call'[c].pc = to
         /\ \A d \in Calls : d # c => call'[d] = call[d]
<1>1. [call[c] EXCEPT !.pc = to] \in CallRecord /\ [call[c] EXCEPT !.pc = to].pc = to
  BY DEF CallTypes, CallRecord
<1>2. call' = [call EXCEPT ![c] = [call[c] EXCEPT !.pc = to]]
  BY DEF CallFrom
<1> QED BY <1>1, <1>2 DEF CallTypes, CallFrom

\* A call registers with the stream.
LEMMA CallRegisters ==
  ASSUME StreamTypes, CallTypes, NEW c \in Calls, Register(c)
  PROVE  /\ call' \in [Calls -> CallRecord] /\ call[c].pc = "idle" /\ call'[c].pc = "sending"
         /\ \A d \in Calls : d # c => call'[d] = call[d]
<1>1. [pc |-> "sending", stream |-> serve.stream] \in CallRecord
  BY DEF StreamTypes, ServeRecord, CallRecord
<1> QED BY <1>1 DEF CallTypes, Register

\* One call moves; it never comes back to where it began.
LEMMA CallMoves ==
  ASSUME StreamTypes, CallTypes, NEW c \in Calls, workspaceCall(c)
  PROVE  /\ call' \in [Calls -> CallRecord] /\ call'[c].pc # "idle"
         /\ \A d \in Calls : d # c => call'[d] = call[d]
<1>1. CASE NotConnected(c) \/ ReadResult(c) \/ forget(c)
  <2>1. CallFrom(c, "idle", "returned") \/ CallFrom(c, "waiting", "returned") \/ CallFrom(c, "forget", "returned")
    BY <1>1 DEF NotConnected, ReadResult, forget
  <2> QED BY <2>1, CallAt
<1>2. CASE SendCall(c)
  BY <1>2, CallAt DEF SendCall
<1>3. CASE SendAbandoned(c) \/ CallTimeout(c)
  <2>1. CallFrom(c, "sending", "forget") \/ CallFrom(c, "waiting", "forget")
    BY <1>3 DEF SendAbandoned, CallTimeout
  <2> QED BY <2>1, CallAt
<1>4. CASE Register(c)
  BY <1>4, CallRegisters
<1> QED BY <1>1, <1>2, <1>3, <1>4 DEF workspaceCall

\* The steps that leave the calls alone.
LEMMA CallIdle ==
  ASSUME GiveUp \/ SeeStop \/ SeeRecvError \/ SeeSendError \/ SeeShutdown
         \/ SendDeregister \/ GraceEnds \/ CancelStream \/ CloseDone
         \/ TakeMessage \/ SendFails \/ Breaks \/ Signal
         \/ (\E o \in Ops : TakeOperation(o) \/ SendsOperation(o) \/ Deadline(o) \/ handleOperation(o)) \/ UNCHANGED vars
  PROVE  UNCHANGED <<call, pending, channel, heard, answers>>
<1>1. CASE \E o \in Ops : handleOperation(o)
  BY <1>1 DEF handleOperation, TakeSlot, WaitExpires, WaitAbandoned, Check, Reject, LockSession, Start, Finish,
              Answer, answerNoSlot, bridge, platform
<1>2. CASE SeeStop \/ SeeRecvError \/ SeeSendError \/ SeeShutdown
  BY <1>2 DEF SeeStop, SeeRecvError, SeeSendError, SeeShutdown, Leave, bridge, platform
<1> QED BY <1>1, <1>2
        DEF GiveUp, SendDeregister, GraceEnds, CancelStream, CloseDone, TakeMessage, SendFails, Breaks, Signal,
            TakeOperation, SendsOperation, Deadline, bridge, platform, vars

\* What a call is.
LEMMA CallStep == ASSUME StreamTypes, CallTypes, [Next]_vars PROVE CallTypes'
<1>1. CASE UNCHANGED <<call, pending, channel, heard, answers>>
  BY <1>1 DEF CallTypes
<1>2. ASSUME NEW c \in Calls, workspaceCall(c)
      PROVE  CallTypes'
  <2>1. call' \in [Calls -> CallRecord]
    BY <1>2, CallMoves
  <2>2. pending' \subseteq Calls /\ UNCHANGED <<heard, answers>>
    BY <1>2 DEF CallTypes, workspaceCall, NotConnected, Register, SendCall, SendAbandoned, ReadResult, CallTimeout,
                forget, Forgotten, platform
  <2>3. channel' = channel \/ channel' = [channel EXCEPT ![c] = IF @ = "full" THEN "empty" ELSE @]
    BY <1>2 DEF workspaceCall, NotConnected, Register, SendCall, SendAbandoned, ReadResult, CallTimeout, forget
  <2>4. channel' \in [Calls -> {"empty", "full", "closed"}]
    BY <2>3 DEF CallTypes
  <2> QED BY <2>1, <2>2, <2>4 DEF CallTypes
<1>3. CASE ClearStream
  <2>1. channel' \in [Calls -> {"empty", "full", "closed"}]
    BY <1>3 DEF ClearStream, CallTypes
  <2> QED BY <1>3, <2>1 DEF ClearStream, CallTypes, platform
<1>4. CASE Deliver
  BY <1>4 DEF Deliver, CallTypes, platform
<1>5. CASE \E c \in Calls : TakeResult(c)
  BY <1>5 DEF TakeResult, Taken, CallTypes, platform
<1>6. CASE SendSucceeds \/ Connect
  BY <1>6 DEF SendSucceeds, Connect, CallTypes, bridge
<1>7. CASE \E c \in Calls : SendsResult(c)
  BY <1>7, StreamAssumption DEF SendsResult, CallTypes, bridge
<1> QED BY <1>1, <1>2, <1>3, <1>4, <1>5, <1>6, <1>7, CallIdle DEF Next, Serve, Environment, Writer

-----------------------------------------------------------------------------
(***************************************************************************)
(* What has been received                                                  *)
(***************************************************************************)
\* The loop forgets what it has received, or leaves it as it is, while no
\* operation moves that is among it.
LEMMA ReceivedKept ==
  ASSUME Received,
         inbound' = <<>> \/ (/\ inbound' = inbound
                            /\ \A p \in Ops : op[p].pc = "sent" => op'[p].pc = "sent")
  PROVE  Received'
<1>1. CASE inbound' = <<>>
  BY <1>1 DEF Received
<1>2. CASE inbound' = inbound
  BY <1>2 DEF Received
<1> QED BY <1>1, <1>2

\* What is received and not looked at is there once.
LEMMA ReceivedStep == ASSUME StreamTypes, OpTypes, Received, [Next]_vars PROVE Received'
<1>1. CASE inbound' = <<>>
  BY <1>1, ReceivedKept
<1>2. CASE inbound' = inbound /\ \A p \in Ops : op[p].pc = "sent" => op'[p].pc = "sent"
  BY <1>2, ReceivedKept
<1>3. ASSUME NEW o \in Ops \cup Calls, serve.pc = "loop", inbound # <<>>, Head(inbound) = o, inbound' = Tail(inbound),
             \A p \in Ops : p # o => op'[p] = op[p]
      PROVE  Received'
  <2>1. /\ Len(Tail(inbound)) = Len(inbound) - 1 /\ inbound[1] = o
        /\ \A i \in 1..Len(Tail(inbound)) : Tail(inbound)[i] = inbound[i + 1]
    BY <1>3, TailTyped DEF StreamTypes
  <2>2. Len(inbound) \in Nat
    BY DEF StreamTypes
  <2>3. ASSUME NEW i \in 1..Len(inbound')
        PROVE  i + 1 \in 1..Len(inbound) /\ inbound'[i] = inbound[i + 1] /\ i + 1 # 1 /\ 1 \in 1..Len(inbound)
    BY <1>3, <2>1, <2>2
  <2>4. ASSUME NEW i \in 1..Len(inbound'), inbound'[i] \in Ops
        PROVE  op'[inbound'[i]].pc = "sent"
    <3>1. inbound[i + 1] # o
      BY <2>1, <2>3, <2>4 DEF Received
    <3> QED BY <1>3, <2>3, <2>4, <3>1 DEF Received
  <2>5. ASSUME NEW i \in 1..Len(inbound'), NEW j \in 1..Len(inbound'), inbound'[i] \in Ops, inbound'[i] = inbound'[j]
        PROVE  i = j
    <3>1. i + 1 = j + 1
      BY <2>3, <2>5 DEF Received
    <3> QED BY <3>1
  <2> QED BY <2>4, <2>5 DEF Received
<1>4. ASSUME NEW m \in Ops \cup Calls, Receive(m), \A p \in Ops : p # m => op'[p] = op[p],
             m \in Ops => op[m].pc = "idle" /\ op'[m].pc = "sent"
      PROVE  Received'
  <2>1. /\ Len(inbound') = Len(inbound) + 1 /\ inbound'[Len(inbound) + 1] = m
        /\ \A i \in 1..Len(inbound) : inbound'[i] = inbound[i]
    BY <1>4 DEF Receive, StreamTypes
  <2>2. Len(inbound) \in Nat
    BY DEF StreamTypes
  <2>3. ASSUME NEW i \in 1..Len(inbound'), i # Len(inbound) + 1
        PROVE  i \in 1..Len(inbound) /\ inbound'[i] = inbound[i]
    BY <2>1, <2>2, <2>3
  <2>4. ASSUME NEW i \in 1..Len(inbound), m \in Ops
        PROVE  inbound[i] # m
    BY <1>4, <2>4 DEF Received
  <2>5. ASSUME NEW i \in 1..Len(inbound'), inbound'[i] \in Ops
        PROVE  op'[inbound'[i]].pc = "sent"
    BY <1>4, <2>1, <2>3, <2>5 DEF Received
  <2>6. ASSUME NEW i \in 1..Len(inbound'), NEW j \in 1..Len(inbound'), inbound'[i] \in Ops, inbound'[i] = inbound'[j]
        PROVE  i = j
    BY <2>1, <2>3, <2>4, <2>6 DEF Received
  <2> QED BY <2>5, <2>6 DEF Received
<1>5. CASE Connect \/ SeeStop \/ SeeRecvError \/ SeeSendError \/ SeeShutdown
  BY <1>1, <1>5 DEF Connect, SeeStop, SeeRecvError, SeeSendError, SeeShutdown, Leave
<1>6. CASE UNCHANGED <<inbound, op>>
  BY <1>2, <1>6
<1>7. CASE GiveUp \/ Deliver \/ SendDeregister \/ GraceEnds \/ ClearStream \/ CloseDone \/ Breaks \/ UNCHANGED vars
  BY <1>6, <1>7 DEF GiveUp, Deliver, SendDeregister, GraceEnds, ClearStream, CloseDone, Breaks, wire, vars
<1>8. CASE Writer
  BY <1>6, <1>8 DEF Writer, TakeMessage, SendSucceeds, SendFails
<1>9. ASSUME NEW c \in Calls, workspaceCall(c)
      PROVE  Received'
  BY <1>6, <1>9 DEF workspaceCall, NotConnected, Register, SendCall, SendAbandoned, ReadResult, CallTimeout, forget,
                    wire
<1>10. CASE CancelStream \/ Signal \/ \E o \in Ops : Deadline(o)
  <2>1. inbound' = inbound
    BY <1>10 DEF CancelStream, Signal, Deadline, wire
  <2> QED BY <1>2, <1>10, <2>1, OpExpires
<1>11. ASSUME NEW o \in Ops, handleOperation(o)
       PROVE  Received'
  <2>1. inbound' = inbound
    BY <1>11 DEF handleOperation, TakeSlot, WaitExpires, WaitAbandoned, Check, Reject, LockSession, Start, Finish,
                 Answer, answerNoSlot, wire
  <2>2. op[o].pc # "sent" /\ \A p \in Ops : p # o => op'[p] = op[p]
    BY <1>11, OpMoves
  <2> QED BY <1>2, <2>1, <2>2
<1>12. ASSUME NEW o \in Ops, TakeOperation(o)
       PROVE  Received'
  <2>1. \A p \in Ops : p # o => op'[p] = op[p]
    BY <1>12, OpTaken
  <2> QED BY <1>3, <1>12, <2>1 DEF TakeOperation
<1>13. ASSUME NEW c \in Calls, TakeResult(c)
       PROVE  Received'
  <2>1. op' = op
    BY <1>13 DEF TakeResult
  <2> QED BY <1>3, <1>13, <2>1 DEF TakeResult
<1>14. ASSUME NEW o \in Ops, SendsOperation(o)
       PROVE  Received'
  <2>1. op[o].pc = "idle" /\ op'[o].pc = "sent" /\ \A p \in Ops : p # o => op'[p] = op[p]
    BY <1>14, OpAt DEF SendsOperation
  <2> QED BY <1>4, <1>14, <2>1 DEF SendsOperation
<1>15. ASSUME NEW c \in Calls, SendsResult(c)
       PROVE  Received'
  <2>1. op' = op /\ c \notin Ops
    BY <1>15, StreamAssumption DEF SendsResult
  <2> QED BY <1>4, <1>15, <2>1 DEF SendsResult
<1> QED BY <1>5, <1>7, <1>8, <1>9, <1>10, <1>11, <1>12, <1>13, <1>14, <1>15 DEF Next, Serve, Environment

-----------------------------------------------------------------------------
(***************************************************************************)
(* The pool                                                                *)
(***************************************************************************)
\* One operation moves, and the count of tokens follows it.
LEMMA SlotsMove ==
  ASSUME OpTypes, OpTypes', Slots, used \in 0..Pool, NEW o \in Ops, request' = request,
         \A p \in Ops : p # o => op'[p] = op[p],
         op'[o].pc \in {"waiting", "check", "noSlot"} => ~isCLIRound(o),
         \/ o \in Holding /\ o \notin Holding' /\ used' = used - 1
         \/ o \notin Holding /\ o \in Holding' /\ used' = used + 1 /\ used < Pool
         \/ (o \in Holding <=> o \in Holding') /\ used' = used
  PROVE  Slots'
<1>1. Apart'
  BY DEF Slots, Apart, isCLIRound
<1>2. /\ o \in Holding /\ o \notin Holding' => Cardinality(Holding') = Cardinality(Holding) - 1
      /\ o \notin Holding /\ o \in Holding' => Cardinality(Holding') = Cardinality(Holding) + 1
      /\ (o \in Holding <=> o \in Holding') => Holding' = Holding
  BY HoldingStep
<1>3. used' = Cardinality(Holding') /\ used' <= Pool
  BY <1>2, StreamAssumption DEF Slots
<1> QED BY <1>1, <1>3 DEF Slots

\* The pool loses no token, and gets none back twice.
LEMMA SlotsStep ==
  ASSUME StreamTypes, OpTypes, Received, Slots, [Next]_vars
  PROVE  Slots'
<1> USE StreamAssumption
<1>1. OpTypes'
  BY OpStep
<1>2. used \in 0..Pool
  BY FiniteHolding DEF Slots
<1>3. CASE UNCHANGED <<op, request, used>>
  BY <1>3, SlotsKept
<1>4. CASE CancelStream \/ Signal \/ \E o \in Ops : Deadline(o)
  <2>1. UNCHANGED <<request, used>>
    BY <1>4 DEF CancelStream, Signal, Deadline
  <2> QED BY <1>4, <2>1, OpExpires, SlotsKept
<1>5. ASSUME NEW o \in Ops, SendsOperation(o)
      PROVE  Slots'
  <2>1. op[o].pc = "idle" /\ op'[o].pc = "sent" /\ \A p \in Ops : p # o => op'[p] = op[p]
    BY <1>5, OpAt DEF SendsOperation
  <2>2. o \notin Holding /\ o \notin Holding'
    BY <2>1 DEF Holding
  <2> QED BY <1>1, <1>2, <1>5, <2>1, <2>2, SlotsMove DEF SendsOperation
<1>6. ASSUME NEW o \in Ops, TakeOperation(o)
      PROVE  Slots'
  <2>1. /\ op'[o].pc \in {"waiting", "lock"}
        /\ op'[o].pc = "waiting" => ~isCLIRound(o)
        /\ op'[o].pc = "lock" => isCLIRound(o)
        /\ \A p \in Ops : p # o => op'[p] = op[p]
    BY <1>6, OpTaken
  <2>2. op[o].pc = "sent"
    <3>1. Len(inbound) \in Nat /\ Len(inbound) # 0 /\ inbound[1] = o
      BY <1>6, TailTyped DEF StreamTypes, TakeOperation
    <3> QED BY <3>1 DEF Received
  <2>3. request' = request /\ used' = used
    BY <1>6 DEF TakeOperation
  <2>4. o \notin Holding /\ o \notin Holding'
    BY <2>1, <2>2, <2>3 DEF Holding, isCLIRound
  <2> QED BY <1>1, <1>2, <2>1, <2>3, <2>4, SlotsMove
<1>7. ASSUME NEW o \in Ops, handleOperation(o)
      PROVE  Slots'
  <2>1. /\ request' = request /\ \A p \in Ops : p # o => op'[p] = op[p]
    BY <1>7, OpMoves
  <2>2. ASSUME NEW to \in {"check", "noSlot", "lock", "start", "running", "sending", "ended"}, op'[o].pc = to,
               to \in {"check", "noSlot"} => ~isCLIRound(o),
               \/ o \in Holding /\ o \notin Holding' /\ used' = used - 1
               \/ o \notin Holding /\ o \in Holding' /\ used' = used + 1 /\ used < Pool
               \/ (o \in Holding <=> o \in Holding') /\ used' = used
        PROVE  Slots'
    BY <1>1, <1>2, <2>1, <2>2, SlotsMove
  <2> DEFINE Moves(from, to) == op[o].pc = from /\ op'[o].pc = to
  <2>3. CASE TakeSlot(o)
    <3>1. Moves("waiting", "check") /\ ~isCLIRound(o)
      BY <1>7, <2>3, OpAt DEF TakeSlot, Slots, Apart
    <3>2. o \notin Holding /\ o \in Holding'
      BY <3>1, <2>1 DEF Holding, isCLIRound
    <3> QED BY <2>2, <2>3, <3>1, <3>2 DEF TakeSlot
  <2>4. CASE WaitExpires(o)
    <3>1. Moves("waiting", "noSlot") /\ ~isCLIRound(o)
      BY <2>4, OpAt DEF WaitExpires, Slots, Apart
    <3>2. o \notin Holding /\ o \notin Holding'
      BY <3>1 DEF Holding
    <3> QED BY <2>2, <2>4, <3>1, <3>2 DEF WaitExpires
  <2>5. CASE WaitAbandoned(o)
    <3>1. Moves("waiting", "ended")
      BY <2>5, OpAt DEF WaitAbandoned
    <3>2. o \notin Holding /\ o \notin Holding'
      BY <3>1 DEF Holding
    <3> QED BY <2>2, <2>5, <3>1, <3>2 DEF WaitAbandoned
  <2>6. CASE Check(o)
    <3>1. CASE Goto(o, "check", "lock") /\ used' = used
      <4>1. Moves("check", "lock")
        BY <3>1, OpAt
      <4>2. o \in Holding <=> o \in Holding'
        BY <4>1, <2>1 DEF Holding, isCLIRound
      <4> QED BY <2>2, <3>1, <4>1, <4>2
    <3>2. CASE Conclude(o, "check", "noSlot") /\ used' = used - 1
      <4>1. Moves("check", "noSlot") /\ ~isCLIRound(o)
        BY <3>2, OpAt DEF Slots, Apart
      <4>2. o \in Holding /\ o \notin Holding'
        BY <4>1 DEF Holding
      <4> QED BY <2>2, <3>2, <4>1, <4>2
    <3> QED BY <2>6, <3>1, <3>2 DEF Check, Refused
  <2>7. ASSUME NEW from \in {"lock", "start", "running"}, NEW to \in {"start", "running", "sending"},
               Moves(from, to), used' = used
        PROVE  Slots'
    <3>1. o \in Holding <=> o \in Holding'
      BY <2>7, <2>1 DEF Holding, isCLIRound
    <3> QED BY <2>2, <2>7, <3>1
  <2>8. CASE Reject(o)
    <3>1. Moves("lock", "sending")
      BY <2>8, OpAt DEF Reject
    <3> QED BY <2>7, <2>8, <3>1 DEF Reject
  <2>9. CASE LockSession(o)
    <3>1. Moves("lock", "start")
      BY <2>9, OpAt DEF LockSession
    <3> QED BY <2>7, <2>9, <3>1 DEF LockSession
  <2>10. CASE Start(o)
    <3>1. Moves("start", "running") \/ Moves("start", "sending")
      BY <2>10, OpStarted
    <3> QED BY <2>7, <2>10, <3>1 DEF Start
  <2>11. CASE Finish(o)
    <3>1. Moves("running", "sending")
      BY <2>11, OpAt DEF Finish
    <3> QED BY <2>7, <2>11, <3>1 DEF Finish
  <2>12. CASE Answer(o)
    <3>1. Moves("sending", "ended")
      BY <2>12, OpAt DEF Answer
    <3>2. o \notin Holding' /\ (o \in Holding <=> ~isCLIRound(o))
      BY <3>1 DEF Holding
    <3>3. used' = IF isCLIRound(o) THEN used ELSE used - 1
      BY <2>12 DEF Answer, Released
    <3> QED BY <2>2, <3>1, <3>2, <3>3
  <2>13. CASE answerNoSlot(o)
    <3>1. Moves("noSlot", "ended")
      BY <2>13, OpAt DEF answerNoSlot
    <3>2. o \notin Holding /\ o \notin Holding'
      BY <3>1 DEF Holding
    <3> QED BY <2>2, <2>13, <3>1, <3>2 DEF answerNoSlot
  <2> QED BY <1>7, <2>3, <2>4, <2>5, <2>6, <2>8, <2>9, <2>10, <2>11, <2>12, <2>13 DEF handleOperation
<1> QED BY <1>3, <1>4, <1>5, <1>6, <1>7, OpIdle DEF Next, Serve, Environment

-----------------------------------------------------------------------------
(***************************************************************************)
(* The results of the workspace calls                                      *)
(***************************************************************************)
\* Nothing that Delivery speaks of changes, but where the loop is.
LEMMA DeliveryKept ==
  ASSUME Delivery, UNCHANGED <<call, pending, channel>>,
         serve'.pc = "delivering" => UNCHANGED serve
  PROVE  Delivery'
BY DEF Delivery

\* A call that has its result already is never given another one.
LEMMA DeliveryStep ==
  ASSUME StreamTypes, CallTypes, Delivery, [Next]_vars
  PROVE  Delivery'
<1>1. CASE \/ GiveUp \/ SendDeregister \/ GraceEnds \/ CancelStream \/ CloseDone
           \/ SeeStop \/ SeeRecvError \/ SeeSendError \/ SeeShutdown \/ UNCHANGED vars
  <2>1. serve'.pc = "delivering" => UNCHANGED serve
    BY <1>1 DEF GiveUp, SendDeregister, GraceEnds, CancelStream, CloseDone, SeeStop, SeeRecvError, SeeSendError,
                SeeShutdown, Leave, ServeFrom, vars, StreamTypes, ServeRecord
  <2> QED BY <1>1, <2>1, DeliveryKept, CallIdle
<1>2. CASE Writer \/ Breaks \/ Signal
  <2>1. UNCHANGED <<serve, call, pending, channel>>
    BY <1>2 DEF Writer, TakeMessage, SendSucceeds, SendFails, Breaks, Signal, bridge
  <2> QED BY <2>1, DeliveryKept
<1>3. CASE \E o \in Ops : TakeOperation(o) \/ SendsOperation(o) \/ Deadline(o)
  <2>1. UNCHANGED <<serve, call, pending, channel>>
    BY <1>3 DEF TakeOperation, SendsOperation, Deadline, bridge
  <2> QED BY <2>1, DeliveryKept
<1>4. CASE \E o \in Ops : handleOperation(o)
  <2>1. UNCHANGED <<serve, call, pending, channel>>
    BY <1>4 DEF handleOperation, TakeSlot, WaitExpires, WaitAbandoned, Check, Reject, LockSession, Start, Finish,
                Answer, answerNoSlot, bridge
  <2> QED BY <2>1, DeliveryKept
<1>5. CASE \E c \in Calls : SendsResult(c)
  <2>1. UNCHANGED <<serve, call, pending, channel>>
    BY <1>5 DEF SendsResult, bridge
  <2> QED BY <2>1, DeliveryKept
<1>6. CASE Connect
  <2>1. UNCHANGED <<call, pending, channel>> /\ serve'.pc = "loop"
    BY <1>6 DEF Connect, bridge
  <2> QED BY <2>1, DeliveryKept
<1>7. ASSUME NEW c \in Calls, TakeResult(c)
      PROVE  Delivery'
  <2>1. CASE c \in pending
    <3>1. serve'.pc = "delivering" /\ serve'.call = c /\ pending' = pending \ {c} /\ UNCHANGED <<call, channel>>
      BY <1>7, <2>1 DEF TakeResult, Taken, StreamTypes, ServeRecord
    <3> QED BY <2>1, <3>1 DEF Delivery
  <2>2. CASE c \notin pending
    BY <1>7, <2>2, DeliveryKept DEF TakeResult
  <2> QED BY <2>1, <2>2
<1>8. CASE Deliver
  <2>1. PICK c \in Calls \ pending : c = serve.call /\ channel[c] = "empty" /\ call[c].pc # "idle"
    BY <1>8 DEF Deliver, Delivery
  <2>2. channel' = [channel EXCEPT ![c] = "full"] /\ UNCHANGED <<call, pending>> /\ serve'.pc = "loop"
    BY <1>8, <2>1 DEF Deliver, StreamTypes, ServeRecord
  <2> QED BY <2>1, <2>2 DEF Delivery, CallTypes
<1>9. CASE ClearStream
  <2>1. /\ channel' = [c \in Calls |-> IF c \in pending THEN "closed" ELSE channel[c]]
        /\ pending' = {} /\ call' = call /\ serve'.pc = "cancel"
    BY <1>9 DEF ClearStream, ServeFrom, StreamTypes, ServeRecord
  <2> QED BY <2>1 DEF Delivery
<1>10. ASSUME NEW c \in Calls, workspaceCall(c)
       PROVE  Delivery'
  <2>1. serve' = serve
    BY <1>10 DEF workspaceCall, NotConnected, Register, SendCall, SendAbandoned, ReadResult, CallTimeout, forget
  <2>2. call'[c].pc # "idle" /\ \A d \in Calls : d # c => call'[d] = call[d]
    BY <1>10, CallMoves
  <2>3. ASSUME channel' = channel, pending' = pending, c \in pending => call'[c].pc \in {"sending", "waiting", "forget"}
        PROVE  Delivery'
    BY <2>1, <2>2, <2>3 DEF Delivery, CallTypes
  <2>4. CASE Register(c)
    <3>1. call[c].pc = "idle" /\ call'[c].pc = "sending" /\ pending' = pending \cup {c} /\ channel' = channel
      BY <2>4, CallRegisters DEF Register
    <3> QED BY <2>1, <2>2, <3>1 DEF Delivery, CallTypes
  <2>5. CASE forget(c)
    <3>1. pending' = pending \ {c} /\ channel' = channel
      BY <2>5 DEF forget, Forgotten
    <3> QED BY <2>1, <2>2, <3>1 DEF Delivery, CallTypes
  <2>6. CASE ReadResult(c)
    <3>1. channel[c] # "empty" /\ pending' = pending
      BY <2>6 DEF ReadResult
    <3>2. \A d \in Calls : d # c => channel'[d] = channel[d]
      BY <2>6 DEF ReadResult, CallTypes
    <3> QED BY <2>1, <2>2, <3>1, <3>2 DEF Delivery, CallTypes
  <2>7. CASE NotConnected(c)
    <3>1. call[c].pc = "idle" /\ channel' = channel /\ pending' = pending
      BY <2>7 DEF NotConnected, CallFrom
    <3> QED BY <2>3, <3>1 DEF Delivery
  <2>8. CASE SendCall(c) \/ SendAbandoned(c) \/ CallTimeout(c)
    <3>1. call'[c].pc \in {"waiting", "forget"} /\ channel' = channel /\ pending' = pending
      BY <2>8, CallAt DEF SendCall, SendAbandoned, CallTimeout
    <3> QED BY <2>3, <3>1
  <2> QED BY <1>10, <2>4, <2>5, <2>6, <2>7, <2>8 DEF workspaceCall
<1> QED BY <1>1, <1>2, <1>3, <1>4, <1>5, <1>6, <1>7, <1>8, <1>9, <1>10 DEF Next, Serve, Environment

-----------------------------------------------------------------------------
(***************************************************************************)
(* The theorems                                                            *)
(***************************************************************************)
\* The invariant is inductive.
LEMMA IInvStep == IInv /\ [Next]_vars => IInv'
<1> SUFFICES ASSUME IInv, [Next]_vars
             PROVE  IInv'
  OBVIOUS
<1>1. StreamTypes /\ WriterTypes /\ OpTypes /\ CallTypes /\ Received /\ Slots /\ Delivery
  BY DEF IInv, Typed
<1>2. Typed'
  BY <1>1, StreamStep, WriterStep, OpStep, CallStep DEF Typed
<1>3. Received' /\ Slots' /\ Delivery'
  BY <1>1, ReceivedStep, SlotsStep, DeliveryStep
<1> QED BY <1>2, <1>3 DEF IInv

\* It holds all along.
LEMMA Invariance == Spec => []IInv
BY InitIInv, IInvStep, PTL DEF Spec

\* The variables keep their types.
THEOREM TypeCorrect == Spec => []TypeOK
<1>1. IInv => TypeOK
  <2>1. IInv => used \in 0..Pool
    BY FiniteHolding, StreamAssumption DEF IInv, Slots, Typed, OpTypes
  <2> QED BY <2>1 DEF IInv, Typed, StreamTypes, WriterTypes, OpTypes, CallTypes, TypeOK, ServeRecord, WriterRecord,
                      OpRecord, CallRecord
<1> QED BY <1>1, Invariance, PTL

\* The pool's tokens are those of the operations that got one and have not
\* returned, through refusals after the fact and abandoned answers.
THEOREM SlotsAreHeld == Spec => []NoSlotLeaked
<1>1. IInv => NoSlotLeaked
  BY DEF IInv, Slots, Holding, NoSlotLeaked
<1> QED BY <1>1, Invariance, PTL

\* The receive loop never blocks on a call that has its result, and never sends
\* on a closed channel.
THEOREM DeliveryIsFree == Spec => []DeliverNeverBlocks
<1>1. IInv => DeliverNeverBlocks
  BY DEF IInv, Delivery, DeliverNeverBlocks
<1> QED BY <1>1, Invariance, PTL

\* Only calls under way are in the bridge's map.
THEOREM CallsAreForgotten == Spec => []NoCallLeftPending
<1>1. IInv => NoCallLeftPending
  BY DEF IInv, Delivery, NoCallLeftPending
<1> QED BY <1>1, Invariance, PTL
=============================================================================
