----------------------------- MODULE ModBridge -----------------------------
(***************************************************************************)
(* The private socket between the daemon and the mod inside Claude Code:   *)
(* internal/claudepty/bridge.go, the start of the process it belongs to    *)
(* (process.go) and the mod's side of it (register.ts).                    *)
(*                                                                         *)
(* Commands go to the mod through a bounded channel.  The mod asks for one *)
(* at a time, runs it, acknowledges it and asks again; the one it was      *)
(* given stays the unacknowledged one and is served again until it is      *)
(* acknowledged.  Tool results are fetched by the hooks that wait for      *)
(* them.  Any request or reply may be lost; the mod then tries again.      *)
(***************************************************************************)
EXTENDS Naturals, Sequences, FiniteSets

CONSTANTS
  Commands,   \* the commands; each is sent by a goroutine of its own
  Acked,      \* those that are sent with sendAcknowledged
  Calls,      \* the tool calls whose results are fetched
  Polls,      \* the requests for a command the server may be handling at once
  Overlap,    \* whether the mod may ask again while an abandoned request waits
  Capacity,   \* the size of the channel: 64 in the code
  MaxLosses   \* bound on the requests and replies that are lost

None == "none"

ASSUME BridgeAssumption ==
  /\ Acked \subseteq Commands /\ None \notin Commands
  /\ Overlap \in BOOLEAN /\ Capacity \in Nat \ {0} /\ MaxLosses \in Nat

VARIABLES
  starter,   \* startProcess: its state, and what ready and failure hold
  senders,   \* send and sendAcknowledged, a goroutine for each command
  bridge,    \* the channel, the unacknowledged command, sequences and ack waiters
  polls,     \* the handlers of GET /next
  slots,     \* the tool results
  hooks,     \* the tool.call hooks
  mod,       \* the poll loop
  losses,    \* what was lost so far
  ran,       \* history: the commands carried out
  delivered  \* history: the calls whose result was delivered

history == <<ran, delivered>>
vars == <<starter, senders, bridge, polls, slots, hooks, mod, losses, history>>

-----------------------------------------------------------------------------
NoPoll == [pc |-> "none", holds |-> None]

TypeOK ==
  /\ starter \in [pc : {"waiting", "ready", "failed"}, isReady : BOOLEAN, failure : BOOLEAN]
  /\ senders \in [Commands -> {"out", "numbered", "queued", "sent", "failed"}]
  /\ bridge \in [channel : Seq(Commands), unacked : Commands \cup {None}, sequence : Nat,
                 number : [Commands -> Nat], waiters : SUBSET Nat, acked : SUBSET Nat]
  /\ polls \in [Polls -> [pc : {"none", "arrived", "waiting", "took", "replied"},
                          holds : Commands \cup {None}]]
  /\ slots \in [Calls -> {"absent", "waiting", "set", "read"}]
  /\ hooks \in [Calls -> {"out", "asking", "polling", "replied", "answered", "denied"}]
  /\ mod \in [up : BOOLEAN, pc : {"hello", "greeted", "register", "registered", "poll", "waiting",
                                  "run", "ack", "acked", "sleep", "over"},
              poll : Polls \cup {None}, command : Commands \cup {None},
              known : SUBSET Nat, stopped : BOOLEAN, failing : BOOLEAN]
  /\ losses \in 0..MaxLosses
  /\ ran \in Seq(Commands) /\ delivered \subseteq Calls

Init ==
  /\ starter = [pc |-> "waiting", isReady |-> FALSE, failure |-> FALSE]
  /\ senders = [c \in Commands |-> "out"]
  /\ bridge = [channel |-> <<>>, unacked |-> None, sequence |-> 0,
               number |-> [c \in Commands |-> 0], waiters |-> {}, acked |-> {}]
  /\ polls = [p \in Polls |-> NoPoll]
  /\ slots = [c \in Calls |-> "absent"]
  /\ hooks = [c \in Calls |-> "out"]
  /\ mod = [up |-> TRUE, pc |-> "hello", poll |-> None, command |-> None,
            known |-> {}, stopped |-> FALSE, failing |-> FALSE]
  /\ losses = 0 /\ ran = <<>> /\ delivered = {}

-----------------------------------------------------------------------------
(***************************************************************************)
(* Starting: the mod greets the daemon and registers the tools             *)
(***************************************************************************)
\* A list with a tool AgentParley did not grant fails the start: the failure
\* is noted before ready is closed, and the mod is told to stop.
RejectForeign(next) ==
  /\ starter' = [starter EXCEPT !.failure = TRUE, !.isReady = TRUE]
  /\ mod' = [mod EXCEPT !.pc = next, !.stopped = TRUE]

HandleHello ==
  /\ mod.up /\ mod.pc = "hello"
  /\ \/ RejectForeign("register")
     \/ mod' = [mod EXCEPT !.pc = "register"] /\ UNCHANGED starter
  /\ UNCHANGED <<senders, bridge, polls, slots, hooks, losses, history>>

\* schedule: a mod that was told to stop asks for no command.
HandleToolsRegistered ==
  /\ mod.up /\ mod.pc = "register"
  /\ \/ RejectForeign("over")
     \/ /\ starter' = [starter EXCEPT !.isReady = TRUE]
        /\ mod' = [mod EXCEPT !.pc = IF mod.stopped THEN "over" ELSE "poll"]
  /\ UNCHANGED <<senders, bridge, polls, slots, hooks, losses, history>>

\* A greeting that is lost is not sent again: the start runs into its timer.
GreetingLost ==
  /\ mod.up /\ mod.pc \in {"hello", "register"} /\ losses < MaxLosses
  /\ losses' = losses + 1
  /\ mod' = [mod EXCEPT !.pc = "over"]
  /\ UNCHANGED <<starter, senders, bridge, polls, slots, hooks, history>>

AwaitReady ==
  /\ starter.pc = "waiting"
  /\ \/ /\ starter.isReady /\ ~starter.failure
        /\ starter' = [starter EXCEPT !.pc = "ready"] /\ UNCHANGED mod
     \/ \* the failure, the process's exit, the timer or the caller's deadline
        /\ starter' = [starter EXCEPT !.pc = "failed"]
        /\ mod' = [mod EXCEPT !.up = FALSE]
  /\ UNCHANGED <<senders, bridge, polls, slots, hooks, losses, history>>

-----------------------------------------------------------------------------
(***************************************************************************)
(* send and sendAcknowledged                                               *)
(***************************************************************************)
Sender(c, pc) ==
  /\ senders' = [senders EXCEPT ![c] = pc]
  /\ UNCHANGED <<starter, polls, slots, hooks, mod, losses, history>>

\* A command is numbered under the mutex and queued after it.
Numbers(c) ==
  /\ starter.pc = "ready" /\ senders[c] = "out"
  /\ LET n == bridge.sequence + 1 IN
     bridge' = [bridge EXCEPT !.sequence = n, !.number[c] = n,
                              !.waiters = IF c \in Acked THEN @ \cup {n} ELSE @]
  /\ Sender(c, "numbered")

Enqueues(c) ==
  /\ senders[c] = "numbered" /\ Len(bridge.channel) < Capacity
  /\ bridge' = [bridge EXCEPT !.channel = Append(@, c)]
  /\ Sender(c, IF c \in Acked THEN "queued" ELSE "sent")

Acknowledged(c) ==
  /\ senders[c] = "queued" /\ bridge.number[c] \in bridge.acked
  /\ UNCHANGED bridge
  /\ Sender(c, "sent")

\* The caller's deadline, or the exit of the process while the acknowledgement
\* is awaited: nobody waits for it any more, but the command stays queued.
GivesUp(c) ==
  /\ senders[c] \in {"numbered", "queued"}
  /\ bridge' = [bridge EXCEPT !.waiters = @ \ {bridge.number[c]}]
  /\ Sender(c, "failed")

-----------------------------------------------------------------------------
(***************************************************************************)
(* GET /next                                                               *)
(***************************************************************************)
Poll(p, pc, c) ==
  /\ polls' = [polls EXCEPT ![p] = [pc |-> pc, holds |-> c]]
  /\ UNCHANGED <<starter, senders, slots, hooks, losses, history>>

Asks(p) ==
  /\ mod.up /\ mod.pc = "poll" /\ polls[p].pc = "none"
  /\ Overlap \/ \A q \in Polls : polls[q].pc = "none"
  /\ mod' = [mod EXCEPT !.pc = "waiting", !.poll = p]
  /\ UNCHANGED bridge /\ Poll(p, "arrived", None)

\* What was given and not acknowledged is given again.
NextLooks(p) ==
  /\ polls[p].pc = "arrived"
  /\ UNCHANGED <<bridge, mod>>
  /\ IF bridge.unacked # None THEN Poll(p, "replied", bridge.unacked) ELSE Poll(p, "waiting", None)

NextTakes(p) ==
  /\ polls[p].pc = "waiting" /\ bridge.channel # <<>>
  /\ bridge' = [bridge EXCEPT !.channel = Tail(@)]
  /\ UNCHANGED mod /\ Poll(p, "took", Head(bridge.channel))

NextGives(p) ==
  /\ polls[p].pc = "took"
  /\ bridge' = [bridge EXCEPT !.unacked = polls[p].holds]
  /\ UNCHANGED mod /\ Poll(p, "replied", polls[p].holds)

HoldEnds(p) ==
  /\ polls[p].pc = "waiting"
  /\ UNCHANGED <<bridge, mod>> /\ Poll(p, "replied", None)

\* The server notices that a request was abandoned, or replies to nobody.
RequestGone(p) ==
  /\ polls[p].pc \in {"arrived", "waiting", "replied"} /\ mod.poll # p
  /\ UNCHANGED <<bridge, mod>> /\ Poll(p, "none", None)

\* tick, in register.ts: the reply to the mod's own request.
Receives(p) ==
  /\ mod.up /\ mod.pc = "waiting" /\ mod.poll = p /\ polls[p].pc = "replied"
  /\ LET c == polls[p].holds IN
     mod' = [mod EXCEPT !.poll = None, !.command = c, !.failing = FALSE,
               !.pc = IF c = None THEN "poll" ELSE IF bridge.number[c] \in mod.known THEN "ack" ELSE "run"]
  /\ UNCHANGED bridge /\ Poll(p, "none", None)

-----------------------------------------------------------------------------
(***************************************************************************)
(* The mod's loop                                                          *)
(***************************************************************************)
MutantRuns ==
  /\ mod.up /\ mod.pc = "run"
  /\ ran' = Append(ran, mod.command)
  /\ mod' = [mod EXCEPT !.pc = "ack"]
  /\ UNCHANGED <<starter, senders, bridge, polls, slots, hooks, losses, delivered>>

Runs ==
  /\ mod.up /\ mod.pc = "run"
  /\ ran' = Append(ran, mod.command)
  /\ mod' = [mod EXCEPT !.pc = "ack", !.known = @ \cup {bridge.number[mod.command]}]
  /\ UNCHANGED <<starter, senders, bridge, polls, slots, hooks, losses, delivered>>

\* POST /ack reaches handleAck.
Acks ==
  /\ mod.up /\ mod.pc = "ack"
  /\ LET n == bridge.number[mod.command] IN
     bridge' = [bridge EXCEPT !.unacked = IF @ = mod.command THEN None ELSE @,
                              !.waiters = @ \ {n},
                              !.acked = IF n \in bridge.waiters THEN @ \cup {n} ELSE @]
  /\ mod' = [mod EXCEPT !.pc = "acked"]
  /\ UNCHANGED <<starter, senders, polls, slots, hooks, losses, history>>

AckReturns ==
  /\ mod.up /\ mod.pc = "acked"
  /\ mod' = [mod EXCEPT !.pc = "poll", !.failing = FALSE]
  /\ UNCHANGED <<starter, senders, bridge, polls, slots, hooks, losses, history>>

MutantFaults ==
  /\ mod.up /\ mod.pc \in {"waiting", "run", "ack", "acked"} /\ losses < MaxLosses
  /\ losses' = losses + 1
  /\ mod' = [mod EXCEPT !.pc = IF @ = "run" THEN "ack" ELSE "sleep", !.poll = None, !.failing = TRUE]
  /\ UNCHANGED <<starter, senders, bridge, polls, slots, hooks, history>>

\* A request, a reply or the command itself fails: the loop notes the fault
\* and tries again in a second.  A mod whose bridge has been failing for long
\* ends its Claude Code.
Faults ==
  /\ mod.up /\ mod.pc \in {"waiting", "run", "ack", "acked"} /\ losses < MaxLosses
  /\ losses' = losses + 1
  /\ \/ mod' = [mod EXCEPT !.pc = "sleep", !.poll = None, !.failing = TRUE]
     \/ mod.failing /\ mod' = [mod EXCEPT !.up = FALSE, !.stopped = TRUE, !.poll = None]
  /\ UNCHANGED <<starter, senders, bridge, polls, slots, hooks, history>>

Wakes ==
  /\ mod.up /\ mod.pc = "sleep"
  /\ mod' = [mod EXCEPT !.pc = "poll"]
  /\ UNCHANGED <<starter, senders, bridge, polls, slots, hooks, losses, history>>

Dies ==
  /\ mod.up
  /\ mod' = [mod EXCEPT !.up = FALSE, !.poll = None]
  /\ UNCHANGED <<starter, senders, bridge, polls, slots, hooks, losses, history>>

-----------------------------------------------------------------------------
(***************************************************************************)
(* GET /result                                                             *)
(***************************************************************************)
Hook(k, pc) ==
  /\ hooks' = [hooks EXCEPT ![k] = pc]
  /\ UNCHANGED <<starter, senders, bridge, polls, losses, ran>>

ToolCall(k) ==
  /\ mod.up /\ starter.pc = "ready" /\ hooks[k] = "out"
  /\ Hook(k, "asking") /\ UNCHANGED <<slots, mod, delivered>>

\* The handler finds the slot or makes an empty one, and waits at it.
HandleResult(k) ==
  /\ hooks[k] = "asking"
  /\ slots' = [slots EXCEPT ![k] = IF @ = "absent" THEN "waiting" ELSE @]
  /\ Hook(k, "polling") /\ UNCHANGED <<mod, delivered>>

MutantReads(k) ==
  /\ hooks[k] = "polling" /\ slots[k] \in {"set", "read"}
  /\ slots' = [slots EXCEPT ![k] = "absent"]
  /\ Hook(k, "replied") /\ UNCHANGED <<mod, delivered>>

\* A result that was read stays readable.
Reads(k) ==
  /\ hooks[k] = "polling" /\ slots[k] \in {"set", "read"}
  /\ slots' = [slots EXCEPT ![k] = "read"]
  /\ Hook(k, "replied") /\ UNCHANGED <<mod, delivered>>

ResultHoldEnds(k) ==
  /\ hooks[k] = "polling" /\ slots[k] = "waiting"
  /\ Hook(k, "asking") /\ UNCHANGED <<slots, mod, delivered>>

ResultReturns(k) ==
  /\ mod.up /\ hooks[k] = "replied"
  /\ mod' = [mod EXCEPT !.failing = FALSE]
  /\ Hook(k, "answered") /\ UNCHANGED <<slots, delivered>>

ResultLost(k) ==
  /\ mod.up /\ hooks[k] \in {"polling", "replied"} /\ losses < MaxLosses
  /\ losses' = losses + 1
  /\ hooks' = [hooks EXCEPT ![k] = "asking"]
  /\ mod' = [mod EXCEPT !.failing = TRUE]
  /\ UNCHANGED <<starter, senders, bridge, polls, slots, history>>

\* The engine gave up on the call.
Cancelled(k) ==
  /\ mod.up /\ hooks[k] \in {"asking", "polling"}
  /\ Hook(k, "denied") /\ UNCHANGED <<slots, mod, delivered>>

\* A minute after it was first read the result is forgotten: by then a hook
\* that lost a reply has long asked again.
Reaps(k) ==
  /\ slots[k] = "read" /\ hooks[k] \in {"answered", "denied"}
  /\ slots' = [slots EXCEPT ![k] = "absent"]
  /\ UNCHANGED <<starter, senders, bridge, polls, hooks, mod, losses, history>>

\* deliver sets a slot once, whether or not somebody waits at it.
Deliver(k) ==
  /\ starter.pc = "ready" /\ k \notin delivered
  /\ delivered' = delivered \cup {k}
  /\ slots' = [slots EXCEPT ![k] = IF @ \in {"absent", "waiting"} THEN "set" ELSE @]
  /\ UNCHANGED <<starter, senders, bridge, polls, hooks, mod, losses, ran>>

-----------------------------------------------------------------------------
Starting == HandleHello \/ HandleToolsRegistered \/ GreetingLost \/ AwaitReady
Sending(c) == Numbers(c) \/ Enqueues(c) \/ Acknowledged(c) \/ GivesUp(c)
Serving(p) == NextLooks(p) \/ NextTakes(p) \/ NextGives(p) \/ RequestGone(p)
Looping == (\E p \in Polls : Asks(p) \/ Receives(p)) \/ Runs \/ Acks \/ AckReturns \/ Wakes
Fetching(k) == HandleResult(k) \/ Reads(k) \/ ResultReturns(k)

Next ==
  \/ Starting \/ Looping \/ Faults \/ Dies
  \/ \E c \in Commands : Sending(c)
  \/ \E p \in Polls : Serving(p) \/ HoldEnds(p)
  \/ \E k \in Calls : Fetching(k) \/ ToolCall(k) \/ ResultHoldEnds(k) \/ ResultLost(k)
                      \/ Cancelled(k) \/ Reaps(k) \/ Deliver(k)

Spec == Init /\ [][Next]_vars

\* A hook's loop and the handler of its request go on, and a handler that
\* finds the result over and over is one day not timed out.
FairSpec ==
  Spec /\ \A k \in Calls : WF_vars(HandleResult(k)) /\ SF_vars(Reads(k)) /\ WF_vars(ResultReturns(k))

-----------------------------------------------------------------------------
(***************************************************************************)
(* Properties                                                              *)
(***************************************************************************)
\* What is queued and not carried out: the unacknowledged command unless it has
\* been, then the one a handler has taken, then the channel.
NotRun(c) == bridge.number[c] \notin mod.known
Served == IF bridge.unacked # None /\ NotRun(bridge.unacked) THEN <<bridge.unacked>> ELSE <<>>
Holding == {p \in Polls : polls[p].pc = "took"}
Taken == IF Holding = {} THEN <<>> ELSE <<polls[CHOOSE p \in Holding : TRUE].holds>>
Pending == Served \o Taken \o bridge.channel

Promise == INSTANCE CommandQueue WITH queued <- Pending, ran <- ran

\* However requests, replies and acknowledgements are lost and repeated, every
\* command is carried out once and in the order of the channel.
EachRunsOnceInOrder == Promise!Spec

\* A sender that was told its command was acknowledged can rely on it having
\* been carried out: a rebuild's round opens on the whole record.
AckedMeansRun ==
  \A c \in Acked : senders[c] = "sent" => \E i \in 1..Len(ran) : ran[i] = c

\* A delivered result reaches the hook that waits for it, though replies that
\* carry it may be lost, unless the call is cancelled or Claude Code ends.
ResultsArrive ==
  \A k \in Calls : (k \in delivered /\ hooks[k] = "asking") ~> (hooks[k] \in {"answered", "denied"} \/ ~mod.up)
=============================================================================
