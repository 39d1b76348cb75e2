-------------------------- MODULE ModBridge_proofs --------------------------
(***************************************************************************)
(* Proofs about the bridge to the mod for every number of commands, calls  *)
(* and losses, and every size of the channel.                              *)
(***************************************************************************)
EXTENDS ModBridge, TLAPS

-----------------------------------------------------------------------------
(***************************************************************************)
(* The inductive invariant                                                 *)
(***************************************************************************)
StarterRecord == [pc : {"waiting", "ready", "failed"}, isReady : BOOLEAN, failure : BOOLEAN]
BridgeRecord ==
  [channel : Seq(Commands), unacked : Commands \cup {None}, sequence : Nat,
   number : [Commands -> Nat], waiters : SUBSET Nat, acked : SUBSET Nat]
PollRecord == [pc : {"none", "arrived", "waiting", "took", "replied"}, holds : Commands \cup {None}]
ModRecord ==
  [up : BOOLEAN, pc : {"hello", "greeted", "register", "registered", "poll", "waiting",
                       "run", "ack", "acked", "sleep", "over"},
   poll : Polls \cup {None}, command : Commands \cup {None},
   known : SUBSET Nat, stopped : BOOLEAN, failing : BOOLEAN]

\* A command that has been put in the channel, or that nobody puts there any more.
Queued(c) == senders[c] \notin {"out", "numbered"}

\* A number belongs to one command, and the mod knows those of commands that
\* were queued and carried out.
Numbered ==
  /\ \A c \in Commands : bridge.number[c] <= bridge.sequence
  /\ \A c \in Commands : bridge.number[c] = 0 <=> senders[c] = "out"
  /\ \A c, d \in Commands : bridge.number[c] = bridge.number[d] /\ bridge.number[c] # 0 => c = d
  /\ \A n \in mod.known : n <= bridge.sequence
  /\ \A c \in Commands : bridge.number[c] \in mod.known => Queued(c) /\ \E i \in 1..Len(ran) : ran[i] = c

\* Whatever is on its way to the mod was queued.
Traced ==
  /\ \A i \in 1..Len(bridge.channel) : Queued(bridge.channel[i])
  /\ bridge.unacked # None => Queued(bridge.unacked)
  /\ \A p \in Polls : polls[p].holds # None => Queued(polls[p].holds)
  /\ mod.command # None => Queued(mod.command)
  /\ mod.pc \in {"run", "ack"} => mod.command # None

\* What is acknowledged has been carried out.
Honest ==
  /\ mod.pc = "ack" => bridge.number[mod.command] \in mod.known
  /\ bridge.acked \subseteq mod.known
  /\ AckedMeansRun

\* One request at a time: the handler that waits found nothing unacknowledged,
\* the reply and the mod's command are the unacknowledged one ...
OneRequest ==
  /\ \A p, q \in Polls : polls[p].pc # "none" /\ polls[q].pc # "none" => p = q
  /\ \A p \in Polls :
       /\ polls[p].pc # "none" => mod.pc \in {"waiting", "sleep", "poll"}
       /\ polls[p].pc \in {"waiting", "took"} => bridge.unacked = None
       /\ polls[p].pc = "took" => polls[p].holds # None
       /\ polls[p].pc = "replied" /\ polls[p].holds # None => polls[p].holds = bridge.unacked
  /\ mod.pc \in {"run", "ack"} => mod.command = bridge.unacked
  /\ mod.pc = "run" => NotRun(mod.command)

\* ... and what is behind it is there once and has not been carried out.
InLine ==
  /\ \A i \in 1..Len(bridge.channel) : NotRun(bridge.channel[i]) /\ bridge.channel[i] # bridge.unacked
  /\ \A i, j \in 1..Len(bridge.channel) : bridge.channel[i] = bridge.channel[j] => i = j
  /\ \A p \in Polls : polls[p].pc = "took" =>
       NotRun(polls[p].holds) /\ \A i \in 1..Len(bridge.channel) : bridge.channel[i] # polls[p].holds

IInv ==
  /\ TypeOK /\ Numbered /\ Traced /\ Honest
  /\ ~Overlap => OneRequest /\ InLine

-----------------------------------------------------------------------------
(***************************************************************************)
(* Types, and what each step changes                                       *)
(***************************************************************************)
\* The records, by the names they have here.
LEMMA Records ==
  ASSUME TypeOK
  PROVE  /\ starter \in StarterRecord /\ senders \in [Commands -> {"out", "numbered", "queued", "sent", "failed"}]
         /\ bridge \in BridgeRecord /\ polls \in [Polls -> PollRecord] /\ mod \in ModRecord
BY DEF TypeOK, StarterRecord, BridgeRecord, PollRecord, ModRecord

\* No command is called none.
LEMMA NoneIsNone == None \notin Commands
BY BridgeAssumption

\* A sender gets its number.
LEMMA NumbersFields ==
  ASSUME TypeOK, NEW c \in Commands, Numbers(c)
  PROVE  /\ bridge' \in BridgeRecord /\ bridge'.channel = bridge.channel /\ bridge'.unacked = bridge.unacked
         /\ bridge'.sequence = bridge.sequence + 1 /\ bridge'.acked = bridge.acked
         /\ bridge'.number = [bridge.number EXCEPT ![c] = bridge.sequence + 1]
         /\ senders[c] = "out" /\ senders' = [senders EXCEPT ![c] = "numbered"]
<1>1. PICK n : n = bridge.sequence + 1
  OBVIOUS
<1>2. PICK f : f = [bridge.number EXCEPT ![c] = n]
  OBVIOUS
<1>3. PICK w : w = IF c \in Acked THEN bridge.waiters \cup {n} ELSE bridge.waiters
  OBVIOUS
<1>4. bridge' = [bridge EXCEPT !.sequence = n, !.number = f, !.waiters = w]
  BY <1>1, <1>2, <1>3, Records DEF Numbers, BridgeRecord
<1>5. n \in Nat /\ f \in [Commands -> Nat] /\ w \in SUBSET Nat
  BY <1>1, <1>2, <1>3, Records DEF BridgeRecord
<1>6. /\ bridge' \in BridgeRecord /\ bridge'.channel = bridge.channel /\ bridge'.unacked = bridge.unacked
      /\ bridge'.sequence = n /\ bridge'.acked = bridge.acked /\ bridge'.number = f
  BY <1>4, <1>5, Records DEF BridgeRecord
<1> QED BY <1>1, <1>2, <1>6 DEF Numbers, Sender

\* A sender puts its command into the channel.
LEMMA EnqueuesFields ==
  ASSUME TypeOK, NEW c \in Commands, Enqueues(c)
  PROVE  /\ bridge' = [bridge EXCEPT !.channel = Append(bridge.channel, c)]
         /\ bridge' \in BridgeRecord /\ bridge'.channel = Append(bridge.channel, c)
         /\ bridge'.unacked = bridge.unacked /\ bridge'.sequence = bridge.sequence /\ bridge'.acked = bridge.acked
         /\ bridge'.number = bridge.number
         /\ senders[c] = "numbered" /\ senders' = [senders EXCEPT ![c] = IF c \in Acked THEN "queued" ELSE "sent"]
<1>1. PICK q : q = Append(bridge.channel, c)
  OBVIOUS
<1>2. q \in Seq(Commands)
  BY <1>1, Records DEF BridgeRecord
<1>3. bridge' = [bridge EXCEPT !.channel = q]
  BY <1>1 DEF Enqueues
<1>4. /\ bridge' \in BridgeRecord /\ bridge'.channel = q /\ bridge'.unacked = bridge.unacked
      /\ bridge'.sequence = bridge.sequence /\ bridge'.acked = bridge.acked /\ bridge'.number = bridge.number
  BY <1>2, <1>3, Records DEF BridgeRecord
<1> QED BY <1>1, <1>3, <1>4 DEF Enqueues, Sender

\* A sender gives up.
LEMMA GivesUpFields ==
  ASSUME TypeOK, NEW c \in Commands, GivesUp(c)
  PROVE  /\ bridge' \in BridgeRecord /\ bridge'.channel = bridge.channel /\ bridge'.unacked = bridge.unacked
         /\ bridge'.sequence = bridge.sequence /\ bridge'.acked = bridge.acked /\ bridge'.number = bridge.number
         /\ senders[c] \in {"numbered", "queued"} /\ senders' = [senders EXCEPT ![c] = "failed"]
<1>1. PICK w : w = bridge.waiters \ {bridge.number[c]}
  OBVIOUS
<1>2. w \in SUBSET Nat /\ bridge' = [bridge EXCEPT !.waiters = w]
  BY <1>1, Records DEF GivesUp, BridgeRecord
<1>3. /\ bridge' \in BridgeRecord /\ bridge'.channel = bridge.channel /\ bridge'.unacked = bridge.unacked
      /\ bridge'.sequence = bridge.sequence /\ bridge'.acked = bridge.acked /\ bridge'.number = bridge.number
  BY <1>2, Records DEF BridgeRecord
<1> QED BY <1>3 DEF GivesUp, Sender

\* A handler takes a command from the channel.
LEMMA NextTakesFields ==
  ASSUME TypeOK, NEW p \in Polls, NextTakes(p)
  PROVE  /\ bridge' \in BridgeRecord /\ bridge'.channel = Tail(bridge.channel) /\ bridge'.unacked = bridge.unacked
         /\ bridge'.sequence = bridge.sequence /\ bridge'.acked = bridge.acked /\ bridge'.number = bridge.number
         /\ bridge.channel # <<>> /\ Head(bridge.channel) \in Commands
<1>1. PICK q : q = Tail(bridge.channel)
  OBVIOUS
<1>2. q \in Seq(Commands) /\ bridge.channel # <<>> /\ Head(bridge.channel) \in Commands
  BY <1>1, Records DEF NextTakes, BridgeRecord
<1>3. bridge' = [bridge EXCEPT !.channel = q]
  BY <1>1 DEF NextTakes
<1>4. /\ bridge' \in BridgeRecord /\ bridge'.channel = q /\ bridge'.unacked = bridge.unacked
      /\ bridge'.sequence = bridge.sequence /\ bridge'.acked = bridge.acked /\ bridge'.number = bridge.number
  BY <1>2, <1>3, Records DEF BridgeRecord
<1> QED BY <1>1, <1>2, <1>4

\* A handler gives the command it took.
LEMMA NextGivesFields ==
  ASSUME TypeOK, NEW p \in Polls, NextGives(p)
  PROVE  /\ bridge' \in BridgeRecord /\ bridge'.channel = bridge.channel /\ bridge'.unacked = polls[p].holds
         /\ bridge'.sequence = bridge.sequence /\ bridge'.acked = bridge.acked /\ bridge'.number = bridge.number
BY Records DEF NextGives, BridgeRecord, PollRecord

\* The acknowledgement of the mod's command.
LEMMA AcksFields ==
  ASSUME TypeOK, Acks, mod.command \in Commands
  PROVE  /\ bridge' \in BridgeRecord /\ bridge'.channel = bridge.channel
         /\ bridge'.unacked = IF bridge.unacked = mod.command THEN None ELSE bridge.unacked
         /\ bridge'.sequence = bridge.sequence /\ bridge'.number = bridge.number
         /\ bridge'.acked \subseteq bridge.acked \cup {bridge.number[mod.command]}
         /\ mod.pc = "ack" /\ mod' \in ModRecord /\ mod' = [mod EXCEPT !.pc = "acked"]
<1>1. PICK n : n = bridge.number[mod.command]
  OBVIOUS
<1>2. PICK u : u = IF bridge.unacked = mod.command THEN None ELSE bridge.unacked
  OBVIOUS
<1>3. PICK a : a = IF n \in bridge.waiters THEN bridge.acked \cup {n} ELSE bridge.acked
  OBVIOUS
<1>4. bridge' = [bridge EXCEPT !.unacked = u, !.waiters = bridge.waiters \ {n}, !.acked = a]
  BY <1>1, <1>2, <1>3, Records DEF Acks, BridgeRecord
<1>5. u \in Commands \cup {None} /\ a \in SUBSET Nat /\ n \in Nat
  BY <1>1, <1>2, <1>3, Records DEF BridgeRecord
<1>6. /\ bridge' \in BridgeRecord /\ bridge'.channel = bridge.channel /\ bridge'.unacked = u
      /\ bridge'.sequence = bridge.sequence /\ bridge'.number = bridge.number /\ bridge'.acked = a
  BY <1>4, <1>5, Records DEF BridgeRecord
<1>7. mod' \in ModRecord
  BY Records DEF Acks, ModRecord
<1> QED BY <1>1, <1>2, <1>3, <1>6, <1>7 DEF Acks

\* A handler goes on; no other one moves.
LEMMA PollAt ==
  ASSUME TypeOK, NEW p \in Polls, NEW pc \in {"none", "arrived", "waiting", "took", "replied"},
         NEW c \in Commands \cup {None}, Poll(p, pc, c)
  PROVE  /\ polls' \in [Polls -> PollRecord] /\ polls'[p].pc = pc /\ polls'[p].holds = c
         /\ \A q \in Polls : q # p => polls'[q] = polls[q]
<1>1. [pc |-> pc, holds |-> c] \in PollRecord
  BY DEF PollRecord
<1> QED BY <1>1, Records DEF Poll

\* What the handler's request and its reply do to the mod.
LEMMA ModAsks ==
  ASSUME TypeOK, NEW p \in Polls, Asks(p)
  PROVE  /\ mod' \in ModRecord /\ mod.pc = "poll" /\ mod'.pc = "waiting"
         /\ mod'.known = mod.known /\ mod'.command = mod.command
BY Records DEF Asks, ModRecord

LEMMA ModReceives ==
  ASSUME TypeOK, NEW p \in Polls, Receives(p)
  PROVE  /\ mod' \in ModRecord /\ mod.pc = "waiting" /\ polls[p].pc = "replied"
         /\ mod'.known = mod.known /\ mod'.command = polls[p].holds
         /\ mod'.pc = IF polls[p].holds = None THEN "poll"
                      ELSE IF bridge.number[polls[p].holds] \in mod.known THEN "ack" ELSE "run"
<1>1. PICK c : c = polls[p].holds
  OBVIOUS
<1>2. PICK pc : pc = IF c = None THEN "poll" ELSE IF bridge.number[c] \in mod.known THEN "ack" ELSE "run"
  OBVIOUS
<1>3. mod' = [mod EXCEPT !.poll = None, !.command = c, !.failing = FALSE, !.pc = pc]
  BY <1>1, <1>2 DEF Receives
<1>4. c \in Commands \cup {None} /\ pc \in {"poll", "ack", "run"}
  BY <1>1, <1>2, Records DEF PollRecord
<1>5. mod' \in ModRecord /\ mod'.known = mod.known /\ mod'.command = c /\ mod'.pc = pc
  BY <1>3, <1>4, Records DEF ModRecord
<1> QED BY <1>1, <1>2, <1>5 DEF Receives

\* The mod carries a command out.
LEMMA ModRuns ==
  ASSUME TypeOK, Runs, mod.command \in Commands
  PROVE  /\ mod' \in ModRecord /\ mod.pc = "run" /\ mod'.pc = "ack" /\ mod'.command = mod.command
         /\ mod'.known = mod.known \cup {bridge.number[mod.command]}
         /\ ran' = Append(ran, mod.command) /\ ran' \in Seq(Commands)
<1>1. PICK k : k = mod.known \cup {bridge.number[mod.command]}
  OBVIOUS
<1>2. k \in SUBSET Nat
  BY <1>1, Records DEF ModRecord, BridgeRecord
<1>3. mod' = [mod EXCEPT !.pc = "ack", !.known = k]
  BY <1>1, Records DEF Runs, ModRecord
<1>4. mod' \in ModRecord /\ mod'.pc = "ack" /\ mod'.command = mod.command /\ mod'.known = k
  BY <1>2, <1>3, Records DEF ModRecord
<1> QED BY <1>1, <1>4 DEF Runs, TypeOK

\* The steps that touch no command, request, or handler of one.
Quiet ==
  \/ Starting \/ AckReturns \/ Wakes \/ Faults \/ Dies \/ UNCHANGED vars
  \/ \E k \in Calls : Fetching(k) \/ ToolCall(k) \/ ResultHoldEnds(k) \/ ResultLost(k)
                      \/ Cancelled(k) \/ Reaps(k) \/ Deliver(k)

\* The mod may be elsewhere afterwards, but never at a command.
LEMMA QuietFields ==
  ASSUME TypeOK, Quiet
  PROVE  /\ UNCHANGED <<senders, bridge, polls, ran>> /\ mod' \in ModRecord
         /\ mod'.known = mod.known /\ mod'.command = mod.command
         /\ mod'.pc = mod.pc \/ mod'.pc \notin {"run", "ack"}
         /\ mod.pc \in {"waiting", "sleep", "poll"} => mod'.pc \in {"waiting", "sleep", "poll"}
<1>1. mod \in ModRecord
  BY Records
<1>2. CASE \E k \in Calls : ResultReturns(k) \/ ResultLost(k)
  <2>1. UNCHANGED <<senders, bridge, polls, ran>>
    BY <1>2 DEF ResultReturns, ResultLost, Hook, history
  <2>2. mod' = [mod EXCEPT !.failing = FALSE] \/ mod' = [mod EXCEPT !.failing = TRUE]
    BY <1>2 DEF ResultReturns, ResultLost
  <2> QED BY <1>1, <2>1, <2>2 DEF ModRecord
<1>3. CASE \E k \in Calls : HandleResult(k) \/ Reads(k) \/ ToolCall(k) \/ ResultHoldEnds(k) \/ Cancelled(k) \/ Reaps(k)
                            \/ Deliver(k)
  BY <1>1, <1>3 DEF HandleResult, Reads, ToolCall, ResultHoldEnds, Cancelled, Reaps, Deliver, Hook, history
<1>4. CASE HandleHello \/ HandleToolsRegistered \/ GreetingLost
  <2>1. UNCHANGED <<senders, bridge, polls, ran>> /\ mod.pc \in {"hello", "register"}
    BY <1>4 DEF HandleHello, HandleToolsRegistered, GreetingLost, history
  <2>2. \/ \E pc \in {"register", "over", "poll"} : mod' = [mod EXCEPT !.pc = pc]
        \/ \E pc \in {"register", "over"} : mod' = [mod EXCEPT !.pc = pc, !.stopped = TRUE]
    BY <1>4 DEF HandleHello, HandleToolsRegistered, GreetingLost, RejectForeign
  <2> QED BY <1>1, <2>1, <2>2 DEF ModRecord
<1>5. CASE AwaitReady
  <2>1. UNCHANGED <<senders, bridge, polls, ran>>
    BY <1>5 DEF AwaitReady, history
  <2>2. mod' = mod \/ mod' = [mod EXCEPT !.up = FALSE]
    BY <1>5 DEF AwaitReady
  <2> QED BY <1>1, <2>1, <2>2 DEF ModRecord
<1>6. CASE AckReturns \/ Wakes
  <2>1. UNCHANGED <<senders, bridge, polls, ran>> /\ mod.pc \in {"acked", "sleep"}
    BY <1>6 DEF AckReturns, Wakes, history
  <2>2. mod' = [mod EXCEPT !.pc = "poll", !.failing = FALSE] \/ mod' = [mod EXCEPT !.pc = "poll"]
    BY <1>6 DEF AckReturns, Wakes
  <2> QED BY <1>1, <2>1, <2>2 DEF ModRecord
<1>7. CASE Faults
  <2>1. UNCHANGED <<senders, bridge, polls, ran>>
    BY <1>7 DEF Faults, history
  <2>2. \/ mod' = [mod EXCEPT !.pc = "sleep", !.poll = None, !.failing = TRUE]
        \/ mod' = [mod EXCEPT !.up = FALSE, !.stopped = TRUE, !.poll = None]
    BY <1>7 DEF Faults
  <2> QED BY <1>1, <2>1, <2>2 DEF ModRecord
<1>8. CASE Dies
  BY <1>1, <1>8 DEF Dies, history, ModRecord
<1>9. CASE UNCHANGED vars
  BY <1>1, <1>9 DEF vars, history
<1> QED BY <1>2, <1>3, <1>4, <1>5, <1>6, <1>7, <1>8, <1>9 DEF Quiet, Starting, Fetching

\* Every step is one of these.
LEMMA Steps ==
  ASSUME [Next]_vars
  PROVE  \/ Quiet \/ Runs \/ Acks
         \/ \E c \in Commands : Numbers(c) \/ Enqueues(c) \/ Acknowledged(c) \/ GivesUp(c)
         \/ \E p \in Polls : Asks(p) \/ Receives(p) \/ NextLooks(p) \/ NextTakes(p) \/ NextGives(p) \/ RequestGone(p)
                             \/ HoldEnds(p)
BY DEF Next, Quiet, Looping, Sending, Serving

\* A handler of a request for a command goes on.
LEMMA PollMoves ==
  ASSUME TypeOK, Traced, NEW p \in Polls,
         Asks(p) \/ Receives(p) \/ NextLooks(p) \/ NextTakes(p) \/ NextGives(p) \/ RequestGone(p) \/ HoldEnds(p)
  PROVE  /\ polls' \in [Polls -> PollRecord] /\ \A q \in Polls : q # p => polls'[q] = polls[q]
         /\ UNCHANGED <<starter, senders, slots, hooks, losses, ran, delivered>>
         /\ \/ Asks(p) /\ polls[p].pc = "none" /\ polls'[p].pc = "arrived" /\ polls'[p].holds = None
            \/ Receives(p) /\ polls[p].pc = "replied" /\ polls'[p].pc = "none" /\ polls'[p].holds = None
            \/ /\ NextLooks(p) /\ polls[p].pc = "arrived" /\ bridge.unacked # None
               /\ polls'[p].pc = "replied" /\ polls'[p].holds = bridge.unacked
            \/ /\ NextLooks(p) /\ polls[p].pc = "arrived" /\ bridge.unacked = None
               /\ polls'[p].pc = "waiting" /\ polls'[p].holds = None
            \/ /\ NextTakes(p) /\ polls[p].pc = "waiting" /\ polls'[p].pc = "took"
               /\ polls'[p].holds = Head(bridge.channel)
            \/ /\ NextGives(p) /\ polls[p].pc = "took" /\ polls'[p].pc = "replied"
               /\ polls'[p].holds = polls[p].holds
            \/ HoldEnds(p) /\ polls[p].pc = "waiting" /\ polls'[p].pc = "replied" /\ polls'[p].holds = None
            \/ /\ RequestGone(p) /\ polls[p].pc \in {"arrived", "waiting", "replied"}
               /\ polls'[p].pc = "none" /\ polls'[p].holds = None
<1>1. ASSUME NEW pc \in {"none", "arrived", "waiting", "took", "replied"}, NEW c \in Commands \cup {None}, Poll(p, pc, c)
      PROVE  /\ polls' \in [Polls -> PollRecord] /\ \A q \in Polls : q # p => polls'[q] = polls[q]
             /\ polls'[p].pc = pc /\ polls'[p].holds = c
             /\ UNCHANGED <<starter, senders, slots, hooks, losses, ran, delivered>>
  BY <1>1, PollAt DEF Poll, history
<1>2. bridge.unacked \in Commands \cup {None} /\ polls[p].holds \in Commands \cup {None}
  BY Records DEF BridgeRecord, PollRecord
<1>3. CASE Asks(p)
  <2>1. Poll(p, "arrived", None) /\ polls[p].pc = "none"
    BY <1>3 DEF Asks
  <2> QED BY <1>1, <1>3, <2>1
<1>4. CASE Receives(p)
  <2>1. Poll(p, "none", None) /\ polls[p].pc = "replied"
    BY <1>4 DEF Receives
  <2> QED BY <1>1, <1>4, <2>1
<1>5. CASE NextLooks(p)
  <2>1. CASE bridge.unacked # None
    <3>1. Poll(p, "replied", bridge.unacked) /\ polls[p].pc = "arrived"
      BY <1>5, <2>1 DEF NextLooks
    <3> QED BY <1>1, <1>2, <1>5, <2>1, <3>1
  <2>2. CASE bridge.unacked = None
    <3>1. Poll(p, "waiting", None) /\ polls[p].pc = "arrived"
      BY <1>5, <2>2 DEF NextLooks
    <3> QED BY <1>1, <1>5, <2>2, <3>1
  <2> QED BY <2>1, <2>2
<1>6. CASE NextTakes(p)
  <2>1. Poll(p, "took", Head(bridge.channel)) /\ polls[p].pc = "waiting" /\ Head(bridge.channel) \in Commands
    BY <1>6, NextTakesFields DEF NextTakes
  <2> QED BY <1>1, <1>6, <2>1
<1>7. CASE NextGives(p)
  <2>1. Poll(p, "replied", polls[p].holds) /\ polls[p].pc = "took"
    BY <1>7 DEF NextGives
  <2> QED BY <1>1, <1>2, <1>7, <2>1
<1>8. CASE HoldEnds(p)
  <2>1. Poll(p, "replied", None) /\ polls[p].pc = "waiting"
    BY <1>8 DEF HoldEnds
  <2> QED BY <1>1, <1>8, <2>1
<1>9. CASE RequestGone(p)
  <2>1. Poll(p, "none", None) /\ polls[p].pc \in {"arrived", "waiting", "replied"}
    BY <1>9 DEF RequestGone
  <2> QED BY <1>1, <1>9, <2>1
<1> QED BY <1>3, <1>4, <1>5, <1>6, <1>7, <1>8, <1>9

\* The variables keep their types.
LEMMA TypeStep == ASSUME TypeOK, Traced, [Next]_vars PROVE TypeOK'
<1> USE BridgeAssumption
<1>1. ASSUME starter' \in StarterRecord, senders' \in [Commands -> {"out", "numbered", "queued", "sent", "failed"}],
             bridge' \in BridgeRecord, polls' \in [Polls -> PollRecord], mod' \in ModRecord,
             slots' \in [Calls -> {"absent", "waiting", "set", "read"}],
             hooks' \in [Calls -> {"out", "asking", "polling", "replied", "answered", "denied"}],
             losses' \in 0..MaxLosses, ran' \in Seq(Commands), delivered' \subseteq Calls
      PROVE  TypeOK'
  BY <1>1 DEF TypeOK, StarterRecord, BridgeRecord, PollRecord, ModRecord
<1>2. ASSUME UNCHANGED <<starter, slots, hooks, losses, delivered>>, ran' \in Seq(Commands),
             senders' \in [Commands -> {"out", "numbered", "queued", "sent", "failed"}],
             bridge' \in BridgeRecord, polls' \in [Polls -> PollRecord], mod' \in ModRecord
      PROVE  TypeOK'
  BY <1>1, <1>2, Records DEF TypeOK
<1>3. CASE Quiet
  <2>1. UNCHANGED <<senders, bridge, polls, ran>> /\ mod' \in ModRecord
    BY <1>3, QuietFields
  <2>2. starter' \in StarterRecord
    <3>1. \/ starter' = starter \/ starter' = [starter EXCEPT !.failure = TRUE, !.isReady = TRUE]
          \/ starter' = [starter EXCEPT !.isReady = TRUE] \/ starter' = [starter EXCEPT !.pc = "ready"]
          \/ starter' = [starter EXCEPT !.pc = "failed"]
      BY <1>3 DEF Quiet, Starting, HandleHello, HandleToolsRegistered, RejectForeign, GreetingLost, AwaitReady,
                  AckReturns, Wakes, Faults, Dies, Fetching, HandleResult, Reads, ResultReturns, ToolCall,
                  ResultHoldEnds, ResultLost, Cancelled, Reaps, Deliver, Hook, vars
    <3> QED BY <3>1, Records DEF StarterRecord
  <2>3. losses' \in 0..MaxLosses
    <3>1. losses' = losses \/ (losses < MaxLosses /\ losses' = losses + 1)
      BY <1>3 DEF Quiet, Starting, HandleHello, HandleToolsRegistered, RejectForeign, GreetingLost, AwaitReady,
                  AckReturns, Wakes, Faults, Dies, Fetching, HandleResult, Reads, ResultReturns, ToolCall,
                  ResultHoldEnds, ResultLost, Cancelled, Reaps, Deliver, Hook, vars
    <3> QED BY <3>1 DEF TypeOK
  <2>4. /\ slots' \in [Calls -> {"absent", "waiting", "set", "read"}]
        /\ hooks' \in [Calls -> {"out", "asking", "polling", "replied", "answered", "denied"}]
        /\ delivered' \subseteq Calls
    <3>1. CASE UNCHANGED <<slots, hooks, delivered>>
      BY <3>1 DEF TypeOK
    <3>2. ASSUME NEW k \in Calls, Fetching(k) \/ ToolCall(k) \/ ResultHoldEnds(k) \/ ResultLost(k)
                                  \/ Cancelled(k) \/ Reaps(k) \/ Deliver(k)
          PROVE  /\ slots' \in [Calls -> {"absent", "waiting", "set", "read"}]
                 /\ hooks' \in [Calls -> {"out", "asking", "polling", "replied", "answered", "denied"}]
                 /\ delivered' \subseteq Calls
      <4>1. delivered' \subseteq Calls
        BY <3>2 DEF Fetching, HandleResult, Reads, ResultReturns, ToolCall, ResultHoldEnds, ResultLost, Cancelled,
                    Reaps, Deliver, Hook, history, TypeOK
      <4>2. hooks' = hooks \/ \E pc \in {"asking", "polling", "replied", "answered", "denied"} :
                                hooks' = [hooks EXCEPT ![k] = pc]
        BY <3>2 DEF Fetching, HandleResult, Reads, ResultReturns, ToolCall, ResultHoldEnds, ResultLost, Cancelled,
                    Reaps, Deliver, Hook
      <4>3. slots' = slots \/ \E v \in {"absent", "waiting", "set", "read"} : slots' = [slots EXCEPT ![k] = v]
        <5>1. slots[k] \in {"absent", "waiting", "set", "read"}
          BY DEF TypeOK
        <5>2. CASE HandleResult(k)
          BY <5>1, <5>2 DEF HandleResult
        <5>3. CASE Deliver(k)
          BY <5>1, <5>3 DEF Deliver
        <5>4. CASE Reads(k) \/ Reaps(k)
          BY <5>4 DEF Reads, Reaps
        <5>5. CASE ResultReturns(k) \/ ToolCall(k) \/ ResultHoldEnds(k) \/ ResultLost(k) \/ Cancelled(k)
          BY <5>5 DEF ResultReturns, ToolCall, ResultHoldEnds, ResultLost, Cancelled
        <5> QED BY <3>2, <5>2, <5>3, <5>4, <5>5 DEF Fetching
      <4>4. slots' \in [Calls -> {"absent", "waiting", "set", "read"}]
        BY <4>3 DEF TypeOK
      <4>5. hooks' \in [Calls -> {"out", "asking", "polling", "replied", "answered", "denied"}]
        BY <4>2 DEF TypeOK
      <4> QED BY <4>1, <4>4, <4>5
    <3>3. CASE Starting \/ AckReturns \/ Wakes \/ Faults \/ Dies \/ UNCHANGED vars
      BY <3>1, <3>3 DEF Starting, HandleHello, HandleToolsRegistered, RejectForeign, GreetingLost, AwaitReady,
                        AckReturns, Wakes, Faults, Dies, vars, history
    <3> QED BY <1>3, <3>2, <3>3 DEF Quiet
  <2> QED BY <1>1, <2>1, <2>2, <2>3, <2>4, Records DEF TypeOK
<1>4. CASE Runs
  <2>1. mod.command \in Commands
    BY <1>4, Records DEF Runs, Traced, ModRecord
  <2> QED BY <1>2, <1>4, <2>1, ModRuns, Records DEF Runs
<1>5. CASE Acks
  <2>1. mod.command \in Commands
    BY <1>5, Records DEF Acks, Traced, ModRecord
  <2> QED BY <1>2, <1>5, <2>1, AcksFields, Records DEF Acks, TypeOK, history
<1>6. ASSUME NEW c \in Commands, Numbers(c) \/ Enqueues(c) \/ Acknowledged(c) \/ GivesUp(c)
      PROVE  TypeOK'
  <2>1. UNCHANGED <<starter, polls, slots, hooks, mod, losses, ran, delivered>>
    BY <1>6 DEF Numbers, Enqueues, Acknowledged, GivesUp, Sender, history
  <2>2. \E pc \in {"numbered", "queued", "sent", "failed"} : senders' = [senders EXCEPT ![c] = pc]
    BY <1>6 DEF Numbers, Enqueues, Acknowledged, GivesUp, Sender
  <2>3. senders' \in [Commands -> {"out", "numbered", "queued", "sent", "failed"}]
    BY <2>2, Records
  <2>4. bridge' \in BridgeRecord
    BY <1>6, NumbersFields, EnqueuesFields, GivesUpFields, Records DEF Acknowledged
  <2> QED BY <1>2, <2>1, <2>3, <2>4, Records DEF TypeOK
<1>7. ASSUME NEW p \in Polls, Asks(p) \/ Receives(p) \/ NextLooks(p) \/ NextTakes(p) \/ NextGives(p) \/ RequestGone(p)
                              \/ HoldEnds(p)
      PROVE  TypeOK'
  <2>1. polls' \in [Polls -> PollRecord] /\ UNCHANGED <<starter, senders, slots, hooks, losses, ran, delivered>>
    BY <1>7, PollMoves
  <2>2. bridge' \in BridgeRecord
    BY <1>7, NextTakesFields, NextGivesFields, Records DEF Asks, Receives, NextLooks, RequestGone, HoldEnds
  <2>3. mod' \in ModRecord
    BY <1>7, ModAsks, ModReceives, Records DEF NextLooks, NextTakes, NextGives, RequestGone, HoldEnds
  <2> QED BY <1>2, <2>1, <2>2, <2>3, Records DEF TypeOK
<1> QED BY <1>3, <1>4, <1>5, <1>6, <1>7, Steps

-----------------------------------------------------------------------------
(***************************************************************************)
(* The channel                                                             *)
(***************************************************************************)
\* A command more at the end of the channel.
LEMMA AppendElements ==
  ASSUME NEW S, NEW q \in Seq(S), NEW c \in S
  PROVE  /\ Append(q, c) \in Seq(S) /\ Len(Append(q, c)) = Len(q) + 1 /\ Len(q) \in Nat
         /\ \A i \in 1..Len(Append(q, c)) :
              (i \in 1..Len(q) /\ Append(q, c)[i] = q[i]) \/ (i = Len(q) + 1 /\ Append(q, c)[i] = c)
OBVIOUS

\* One less at its front.
LEMMA TailElements ==
  ASSUME NEW S, NEW q \in Seq(S), q # <<>>
  PROVE  /\ Len(Tail(q)) \in Nat /\ Head(q) = q[1] /\ 1 \in 1..Len(q) /\ Head(q) \in S
         /\ \A i \in 1..Len(Tail(q)) : i + 1 \in 1..Len(q) /\ i + 1 # 1 /\ Tail(q)[i] = q[i + 1]
OBVIOUS

\* A command that the mod has carried out stays carried out.
LEMMA RanGrows ==
  ASSUME TypeOK, NEW c \in Commands, ran' = Append(ran, c)
  PROVE  /\ \A d \in Commands : (\E i \in 1..Len(ran) : ran[i] = d) => \E i \in 1..Len(ran') : ran'[i] = d
         /\ \E i \in 1..Len(ran') : ran'[i] = c
<1>1. Len(ran) \in Nat /\ Len(ran') = Len(ran) + 1 /\ ran'[Len(ran) + 1] = c
      /\ \A i \in 1..Len(ran) : ran'[i] = ran[i]
  BY DEF TypeOK
<1>2. Len(ran) + 1 \in 1..Len(ran') /\ \A i \in 1..Len(ran) : i \in 1..Len(ran')
  BY <1>1
<1> QED BY <1>1, <1>2

-----------------------------------------------------------------------------
(***************************************************************************)
(* The invariant, step by step                                             *)
(***************************************************************************)
Rest == Numbered /\ Traced /\ Honest /\ (~Overlap => OneRequest /\ InLine)

\* A step that moves no command.
LEMMA QuietKeeps == ASSUME TypeOK, Rest, Quiet PROVE Rest'
<1>1. /\ UNCHANGED <<senders, bridge, polls, ran>> /\ mod'.known = mod.known /\ mod'.command = mod.command
      /\ mod'.pc = mod.pc \/ mod'.pc \notin {"run", "ack"}
      /\ mod.pc \in {"waiting", "sleep", "poll"} => mod'.pc \in {"waiting", "sleep", "poll"}
  BY QuietFields
<1>2. Numbered'
  BY <1>1 DEF Rest, Numbered, Queued
<1>3. Traced'
  BY <1>1 DEF Rest, Traced, Queued
<1>4. Honest'
  BY <1>1 DEF Rest, Honest, AckedMeansRun
<1>5. ASSUME ~Overlap PROVE OneRequest' /\ InLine'
  <2>1. OneRequest'
    BY <1>1, <1>5 DEF Rest, OneRequest, NotRun
  <2>2. InLine'
    BY <1>1, <1>5 DEF Rest, InLine, NotRun
  <2> QED BY <2>1, <2>2
<1> QED BY <1>2, <1>3, <1>4, <1>5 DEF Rest

\* A command is numbered: nobody has that number, and nobody has heard of the
\* command.
LEMMA NumbersKeeps == ASSUME TypeOK, Rest, NEW c \in Commands, Numbers(c) PROVE Rest'
<1>1. /\ bridge'.channel = bridge.channel /\ bridge'.unacked = bridge.unacked
      /\ bridge'.sequence = bridge.sequence + 1 /\ bridge'.acked = bridge.acked
      /\ bridge'.number = [bridge.number EXCEPT ![c] = bridge.sequence + 1]
      /\ senders[c] = "out" /\ senders' = [senders EXCEPT ![c] = "numbered"]
      /\ UNCHANGED <<polls, mod, ran>>
  BY NumbersFields DEF Numbers, Sender, history
<1>2. /\ bridge.sequence \in Nat /\ bridge.number \in [Commands -> Nat] /\ bridge.channel \in Seq(Commands)
      /\ bridge.unacked \in Commands \cup {None} /\ mod.command \in Commands \cup {None} /\ mod.known \subseteq Nat
      /\ \A p \in Polls : polls[p].holds \in Commands \cup {None}
      /\ senders \in [Commands -> {"out", "numbered", "queued", "sent", "failed"}]
  BY Records DEF BridgeRecord, ModRecord, PollRecord
<1>3. /\ \A d \in Commands : d # c => senders'[d] = senders[d] /\ bridge'.number[d] = bridge.number[d]
      /\ senders'[c] = "numbered" /\ bridge'.number[c] = bridge.sequence + 1
  BY <1>1, <1>2
<1>4. bridge.sequence + 1 \notin mod.known /\ \A d \in Commands : bridge.number[d] # bridge.sequence + 1
  BY <1>2 DEF Rest, Numbered
<1>5. \A d \in Commands : Queued(d) => d # c /\ Queued(d)'
  BY <1>1, <1>3 DEF Queued
<1>6. Numbered'
  <2>1. \A d \in Commands : bridge'.number[d] <= bridge'.sequence
    BY <1>1, <1>2, <1>3 DEF Rest, Numbered
  <2>2. \A d \in Commands : bridge'.number[d] = 0 <=> senders'[d] = "out"
    BY <1>2, <1>3 DEF Rest, Numbered
  <2>3. \A d, e \in Commands : bridge'.number[d] = bridge'.number[e] /\ bridge'.number[d] # 0 => d = e
    BY <1>3, <1>4 DEF Rest, Numbered
  <2>4. \A n \in mod'.known : n <= bridge'.sequence
    BY <1>1, <1>2 DEF Rest, Numbered
  <2>5. \A d \in Commands : bridge'.number[d] \in mod'.known => Queued(d)' /\ \E i \in 1..Len(ran') : ran'[i] = d
    BY <1>1, <1>3, <1>4, <1>5 DEF Rest, Numbered
  <2> QED BY <2>1, <2>2, <2>3, <2>4, <2>5 DEF Numbered
<1>7. \A i \in 1..Len(bridge.channel) : bridge.channel[i] \in Commands
  BY <1>2
<1>8. Traced'
  BY <1>1, <1>2, <1>5, <1>7 DEF Rest, Traced
<1>9. Honest'
  <2>1. mod'.pc = "ack" => bridge'.number[mod'.command] \in mod'.known
    BY <1>1, <1>2, <1>3, <1>5 DEF Rest, Honest, Traced
  <2>2. AckedMeansRun'
    BY <1>1, <1>3, BridgeAssumption DEF Rest, Honest, AckedMeansRun
  <2> QED BY <1>1, <2>1, <2>2 DEF Rest, Honest
<1>10. ASSUME ~Overlap PROVE OneRequest' /\ InLine'
  <2>1. \A d \in Commands : Queued(d) => (NotRun(d)' <=> NotRun(d))
    BY <1>1, <1>3, <1>5 DEF NotRun
  <2>2. mod.pc = "run" => mod.command \in Commands /\ Queued(mod.command)
    BY <1>2 DEF Rest, Traced
  <2>3. OneRequest'
    BY <1>1, <1>10, <2>1, <2>2 DEF Rest, OneRequest
  <2>4. \A p \in Polls : polls[p].pc = "took" => polls[p].holds \in Commands /\ Queued(polls[p].holds)
    BY <1>2, <1>10 DEF Rest, OneRequest, Traced
  <2>5. InLine'
    BY <1>1, <1>7, <1>10, <2>1, <2>4 DEF Rest, InLine, Traced
  <2> QED BY <2>3, <2>5
<1> QED BY <1>6, <1>8, <1>9, <1>10 DEF Rest

\* A sender whose command is queued is told of its acknowledgement.
LEMMA AcknowledgedKeeps == ASSUME TypeOK, Rest, NEW c \in Commands, Acknowledged(c) PROVE Rest'
<1>1. /\ UNCHANGED <<bridge, polls, mod, ran>> /\ senders[c] = "queued" /\ senders' = [senders EXCEPT ![c] = "sent"]
      /\ bridge.number[c] \in bridge.acked
  BY DEF Acknowledged, Sender, history
<1>2. senders \in [Commands -> {"out", "numbered", "queued", "sent", "failed"}]
  BY Records
<1>3. /\ \A d \in Commands : (senders'[d] = "out" <=> senders[d] = "out") /\ (Queued(d)' <=> Queued(d))
      /\ \A d \in Commands : d # c => senders'[d] = senders[d]
  BY <1>1, <1>2 DEF Queued
<1>4. Numbered'
  BY <1>1, <1>3 DEF Rest, Numbered
<1>5. Traced'
  <2>1. /\ \A i \in 1..Len(bridge.channel) : bridge.channel[i] \in Commands
        /\ bridge.unacked \in Commands \cup {None} /\ mod.command \in Commands \cup {None}
        /\ \A p \in Polls : polls[p].holds \in Commands \cup {None}
    BY Records DEF BridgeRecord, ModRecord, PollRecord
  <2> QED BY <1>1, <1>3, <2>1 DEF Rest, Traced
<1>6. Honest'
  <2>1. \E i \in 1..Len(ran) : ran[i] = c
    BY <1>1 DEF Rest, Honest, Numbered
  <2>2. AckedMeansRun'
    BY <1>1, <1>3, <2>1, BridgeAssumption DEF Rest, Honest, AckedMeansRun
  <2> QED BY <1>1, <2>2 DEF Rest, Honest
<1>7. ASSUME ~Overlap PROVE OneRequest' /\ InLine'
  <2>1. OneRequest'
    BY <1>1, <1>7 DEF Rest, OneRequest, NotRun
  <2>2. InLine'
    BY <1>1, <1>7 DEF Rest, InLine, NotRun
  <2> QED BY <2>1, <2>2
<1> QED BY <1>4, <1>5, <1>6, <1>7 DEF Rest

\* A sender gives up; its command stays where it is.
LEMMA GivesUpKeeps == ASSUME TypeOK, Rest, NEW c \in Commands, GivesUp(c) PROVE Rest'
<1>1. /\ bridge'.channel = bridge.channel /\ bridge'.unacked = bridge.unacked
      /\ bridge'.sequence = bridge.sequence /\ bridge'.acked = bridge.acked /\ bridge'.number = bridge.number
      /\ senders[c] \in {"numbered", "queued"} /\ senders' = [senders EXCEPT ![c] = "failed"]
      /\ UNCHANGED <<polls, mod, ran>>
  BY GivesUpFields DEF GivesUp, Sender, history
<1>2. senders \in [Commands -> {"out", "numbered", "queued", "sent", "failed"}]
  BY Records
<1>3. /\ \A d \in Commands : (senders'[d] = "out" <=> senders[d] = "out") /\ (Queued(d) => Queued(d)')
      /\ \A d \in Commands : senders'[d] = "sent" => senders[d] = "sent"
  BY <1>1, <1>2 DEF Queued
<1>4. Numbered'
  BY <1>1, <1>3 DEF Rest, Numbered
<1>5. Traced'
  <2>1. /\ \A i \in 1..Len(bridge.channel) : bridge.channel[i] \in Commands
        /\ bridge.unacked \in Commands \cup {None} /\ mod.command \in Commands \cup {None}
        /\ \A p \in Polls : polls[p].holds \in Commands \cup {None}
    BY Records DEF BridgeRecord, ModRecord, PollRecord
  <2> QED BY <1>1, <1>3, <2>1 DEF Rest, Traced
<1>6. Honest'
  <2>1. AckedMeansRun'
    BY <1>1, <1>3, BridgeAssumption DEF Rest, Honest, AckedMeansRun
  <2> QED BY <1>1, <2>1 DEF Rest, Honest
<1>7. ASSUME ~Overlap PROVE OneRequest' /\ InLine'
  <2>1. OneRequest'
    BY <1>1, <1>7 DEF Rest, OneRequest, NotRun
  <2>2. InLine'
    BY <1>1, <1>7 DEF Rest, InLine, NotRun
  <2> QED BY <2>1, <2>2
<1> QED BY <1>4, <1>5, <1>6, <1>7 DEF Rest

\* A command goes to the end of the channel, where it is new.
LEMMA EnqueuesKeeps == ASSUME TypeOK, Rest, NEW c \in Commands, Enqueues(c) PROVE Rest'
<1>1. /\ bridge'.channel = Append(bridge.channel, c) /\ bridge'.unacked = bridge.unacked
      /\ bridge'.sequence = bridge.sequence /\ bridge'.acked = bridge.acked /\ bridge'.number = bridge.number
      /\ senders[c] = "numbered" /\ senders' = [senders EXCEPT ![c] = IF c \in Acked THEN "queued" ELSE "sent"]
      /\ UNCHANGED <<polls, mod, ran>>
  BY EnqueuesFields DEF Enqueues, Sender, history
<1>2. senders \in [Commands -> {"out", "numbered", "queued", "sent", "failed"}] /\ bridge.channel \in Seq(Commands)
  BY Records DEF BridgeRecord
<1>3. /\ \A d \in Commands : (senders'[d] = "out" <=> senders[d] = "out") /\ (Queued(d) => Queued(d)' /\ d # c)
      /\ Queued(c)' /\ (c \in Acked => senders'[c] = "queued")
      /\ \A d \in Commands : d # c => senders'[d] = senders[d]
  BY <1>1, <1>2 DEF Queued
<1>4. Numbered'
  BY <1>1, <1>3 DEF Rest, Numbered
<1>5. \A i \in 1..Len(bridge'.channel) :
        (i \in 1..Len(bridge.channel) /\ bridge'.channel[i] = bridge.channel[i])
          \/ (i = Len(bridge.channel) + 1 /\ bridge'.channel[i] = c)
  BY <1>1, <1>2, AppendElements
<1>6. /\ \A i \in 1..Len(bridge.channel) : bridge.channel[i] \in Commands
      /\ bridge.unacked \in Commands \cup {None} /\ mod.command \in Commands \cup {None}
      /\ \A p \in Polls : polls[p].holds \in Commands \cup {None}
  BY Records DEF BridgeRecord, ModRecord, PollRecord
<1>7. Traced'
  <2>1. \A d \in Commands : senders[d] \notin {"out", "numbered"} => senders'[d] \notin {"out", "numbered"}
    BY <1>3 DEF Queued
  <2>2. senders'[c] \notin {"out", "numbered"}
    BY <1>3 DEF Queued
  <2>3. \A i \in 1..Len(bridge'.channel) : senders'[bridge'.channel[i]] \notin {"out", "numbered"}
    BY <1>5, <1>6, <2>1, <2>2 DEF Rest, Traced, Queued
  <2> QED BY <1>1, <1>6, <2>1, <2>3 DEF Rest, Traced, Queued
<1>8. Honest'
  <2>1. AckedMeansRun'
    BY <1>1, <1>3, BridgeAssumption DEF Rest, Honest, AckedMeansRun
  <2> QED BY <1>1, <2>1 DEF Rest, Honest
<1>9. ASSUME ~Overlap PROVE OneRequest' /\ InLine'
  <2>1. OneRequest'
    BY <1>1, <1>9 DEF Rest, OneRequest, NotRun
  <2>2. NotRun(c) /\ c # bridge.unacked /\ \A i \in 1..Len(bridge.channel) : bridge.channel[i] # c
    BY <1>1, <1>3, <1>6, NoneIsNone DEF Rest, Numbered, Traced, NotRun, Queued
  <2>3. \A p \in Polls : polls[p].pc = "took" => polls[p].holds # c
    BY <1>3, <1>6, <1>9 DEF Rest, OneRequest, Traced
  <2>5. \A i \in 1..Len(bridge'.channel) :
          bridge.number[bridge'.channel[i]] \notin mod.known /\ bridge'.channel[i] # bridge.unacked
    BY <1>5, <1>9, <2>2 DEF Rest, InLine, NotRun
  <2>6. \A i, j \in 1..Len(bridge'.channel) : bridge'.channel[i] = bridge'.channel[j] => i = j
    BY <1>5, <1>9, <2>2 DEF Rest, InLine
  <2>7. \A p \in Polls : polls[p].pc = "took" =>
          /\ bridge.number[polls[p].holds] \notin mod.known
          /\ \A i \in 1..Len(bridge'.channel) : bridge'.channel[i] # polls[p].holds
    BY <1>5, <1>9, <2>3 DEF Rest, InLine, NotRun
  <2>8. InLine'
    BY <1>1, <2>5, <2>6, <2>7 DEF InLine, NotRun
  <2> QED BY <2>1, <2>8
<1> QED BY <1>4, <1>7, <1>8, <1>9 DEF Rest

\* The mod carries out its command, whose number is nobody else's.
LEMMA RunsKeeps == ASSUME TypeOK, Rest, Runs PROVE Rest'
<1>1. PICK c : c = mod.command
  OBVIOUS
<1>2. c \in Commands /\ senders[c] \notin {"out", "numbered"} /\ mod.pc = "run"
  BY <1>1, Records DEF Runs, Rest, Traced, Queued, ModRecord
<1>3. /\ UNCHANGED <<senders, bridge, polls>> /\ mod'.pc = "ack" /\ mod'.command = c
      /\ mod'.known = mod.known \cup {bridge.number[c]} /\ ran' = Append(ran, c)
  BY <1>1, <1>2, ModRuns DEF Runs
<1>4. /\ \A d \in Commands : (\E i \in 1..Len(ran) : ran[i] = d) => \E i \in 1..Len(ran') : ran'[i] = d
      /\ \E i \in 1..Len(ran') : ran'[i] = c
  BY <1>2, <1>3, RanGrows
<1>5. \A d \in Commands : bridge.number[d] = bridge.number[c] => d = c
  BY <1>2 DEF Rest, Numbered
<1>6. Numbered'
  <2>1. \A n \in mod'.known : n <= bridge.sequence
    BY <1>2, <1>3 DEF Rest, Numbered
  <2>2. \A d \in Commands : bridge.number[d] \in mod'.known =>
          senders[d] \notin {"out", "numbered"} /\ \E i \in 1..Len(ran') : ran'[i] = d
    BY <1>2, <1>3, <1>4, <1>5 DEF Rest, Numbered, Queued
  <2> QED BY <1>3, <2>1, <2>2 DEF Rest, Numbered, Queued
<1>7. Traced'
  BY <1>2, <1>3, NoneIsNone DEF Rest, Traced, Queued
<1>8. Honest'
  <2>1. AckedMeansRun'
    BY <1>3, <1>4, BridgeAssumption DEF Rest, Honest, AckedMeansRun
  <2> QED BY <1>3, <2>1 DEF Rest, Honest
<1>9. ASSUME ~Overlap PROVE OneRequest' /\ InLine'
  <2>1. \A p \in Polls : polls[p].pc = "none"
    BY <1>2, <1>9 DEF Rest, OneRequest
  <2>2. c = bridge.unacked
    BY <1>1, <1>2, <1>9 DEF Rest, OneRequest
  <2>3. OneRequest'
    BY <1>3, <2>1, <2>2 DEF OneRequest
  <2>4. \A i \in 1..Len(bridge.channel) : bridge.channel[i] \in Commands
    BY Records DEF BridgeRecord
  <2>5. \A i \in 1..Len(bridge.channel) : bridge.number[bridge.channel[i]] \notin mod'.known
    BY <1>3, <1>5, <1>9, <2>2, <2>4 DEF Rest, InLine, NotRun
  <2>6. InLine'
    BY <1>3, <1>9, <2>1, <2>5 DEF Rest, InLine, NotRun
  <2> QED BY <2>3, <2>6
<1> QED BY <1>6, <1>7, <1>8, <1>9 DEF Rest

\* The acknowledgement reaches the bridge; what it acknowledges was carried out.
LEMMA AcksKeeps == ASSUME TypeOK, Rest, Acks PROVE Rest'
<1>1. PICK c : c = mod.command
  OBVIOUS
<1>2. c \in Commands /\ mod.pc = "ack" /\ bridge.number[c] \in mod.known
  BY <1>1, Records DEF Acks, Rest, Traced, Honest, ModRecord
<1>3. /\ bridge'.channel = bridge.channel /\ bridge'.unacked = IF bridge.unacked = c THEN None ELSE bridge.unacked
      /\ bridge'.sequence = bridge.sequence /\ bridge'.number = bridge.number
      /\ bridge'.acked \subseteq bridge.acked \cup {bridge.number[c]}
      /\ mod'.pc = "acked" /\ mod'.known = mod.known /\ mod'.command = c
      /\ UNCHANGED <<senders, polls, ran>>
  BY <1>1, <1>2, AcksFields, Records DEF Acks, history, ModRecord
<1>4. Numbered'
  BY <1>3 DEF Rest, Numbered, Queued
<1>5. Traced'
  BY <1>1, <1>3 DEF Rest, Traced, Queued
<1>6. Honest'
  <2>1. AckedMeansRun'
    BY <1>3 DEF Rest, Honest, AckedMeansRun
  <2> QED BY <1>2, <1>3, <2>1 DEF Rest, Honest
<1>7. ASSUME ~Overlap PROVE OneRequest' /\ InLine'
  <2>1. \A p \in Polls : polls[p].pc = "none"
    BY <1>2, <1>7 DEF Rest, OneRequest
  <2>2. OneRequest'
    BY <1>3, <2>1 DEF OneRequest
  <2>3. \A i \in 1..Len(bridge.channel) : bridge.channel[i] \in Commands
    BY Records DEF BridgeRecord
  <2>4. \A i \in 1..Len(bridge.channel) : bridge.channel[i] # bridge'.unacked
    BY <1>3, <1>7, <2>3, NoneIsNone DEF Rest, InLine
  <2>5. InLine'
    BY <1>3, <1>7, <2>1, <2>4 DEF Rest, InLine, NotRun
  <2> QED BY <2>2, <2>5
<1> QED BY <1>4, <1>5, <1>6, <1>7 DEF Rest

\* The mod asks, and it is the only request there is.
LEMMA AsksKeeps == ASSUME TypeOK, Rest, NEW p \in Polls, Asks(p) PROVE Rest'
<1>1. /\ UNCHANGED <<senders, bridge, ran>> /\ mod.pc = "poll" /\ mod'.pc = "waiting"
      /\ mod'.known = mod.known /\ mod'.command = mod.command
  BY ModAsks DEF Asks, Poll, history
<1>2. /\ polls'[p].pc = "arrived" /\ polls'[p].holds = None
      /\ \A q \in Polls : q # p => polls'[q] = polls[q]
  BY PollAt DEF Asks
<1>3. Numbered'
  BY <1>1 DEF Rest, Numbered, Queued
<1>4. Traced'
  BY <1>1, <1>2 DEF Rest, Traced, Queued
<1>5. Honest'
  BY <1>1 DEF Rest, Honest, AckedMeansRun
<1>6. ASSUME ~Overlap PROVE OneRequest' /\ InLine'
  <2>1. \A q \in Polls : q # p => polls'[q].pc = "none"
    BY <1>2, <1>6 DEF Asks
  <2>2. OneRequest'
    BY <1>1, <1>2, <2>1 DEF OneRequest
  <2>3. InLine'
    BY <1>1, <1>2, <1>6, <2>1 DEF Rest, InLine, NotRun
  <2> QED BY <2>2, <2>3
<1> QED BY <1>3, <1>4, <1>5, <1>6 DEF Rest

\* The mod has its reply, and goes on to what it was given.
LEMMA ReceivesKeeps == ASSUME TypeOK, Rest, NEW p \in Polls, Receives(p) PROVE Rest'
<1>1. PICK c : c = polls[p].holds
  OBVIOUS
<1>2. /\ UNCHANGED <<senders, bridge, ran>> /\ mod.pc = "waiting" /\ polls[p].pc = "replied"
      /\ mod'.known = mod.known /\ mod'.command = c
      /\ mod'.pc = IF c = None THEN "poll" ELSE IF bridge.number[c] \in mod.known THEN "ack" ELSE "run"
  BY <1>1, ModReceives DEF Receives, Poll, history
<1>3. /\ polls'[p].pc = "none" /\ polls'[p].holds = None
      /\ \A q \in Polls : q # p => polls'[q] = polls[q]
  BY PollAt DEF Receives
<1>4. c # None => senders[c] \notin {"out", "numbered"}
  BY <1>1 DEF Rest, Traced, Queued
<1>5. Numbered'
  BY <1>2 DEF Rest, Numbered, Queued
<1>6. Traced'
  BY <1>2, <1>3, <1>4 DEF Rest, Traced, Queued
<1>7. Honest'
  BY <1>2 DEF Rest, Honest, AckedMeansRun
<1>8. ASSUME ~Overlap PROVE OneRequest' /\ InLine'
  <2>1. \A q \in Polls : polls'[q].pc = "none"
    BY <1>2, <1>3, <1>8 DEF Rest, OneRequest
  <2>2. c # None => c = bridge.unacked
    BY <1>1, <1>2, <1>8 DEF Rest, OneRequest
  <2>3. OneRequest'
    BY <1>2, <2>1, <2>2 DEF OneRequest, NotRun
  <2>4. InLine'
    BY <1>2, <1>8, <2>1 DEF Rest, InLine, NotRun
  <2> QED BY <2>3, <2>4
<1> QED BY <1>5, <1>6, <1>7, <1>8 DEF Rest

\* A handler looks, is timed out, or is left by its request.
LEMMA WaitingKeeps ==
  ASSUME TypeOK, Rest, NEW p \in Polls, NextLooks(p) \/ HoldEnds(p) \/ RequestGone(p)
  PROVE  Rest'
<1>1. UNCHANGED <<senders, bridge, mod, ran>>
  BY DEF NextLooks, HoldEnds, RequestGone, Poll, history
<1>2. /\ polls[p].pc # "none" /\ \A q \in Polls : q # p => polls'[q] = polls[q]
      /\ \/ polls'[p].pc = "replied" /\ polls'[p].holds \in {bridge.unacked, None}
         \/ polls'[p].pc = "waiting" /\ polls'[p].holds = None /\ bridge.unacked = None
         \/ polls'[p].pc = "none" /\ polls'[p].holds = None
  <2>1. ASSUME NEW pc \in {"none", "arrived", "waiting", "took", "replied"}, NEW c \in Commands \cup {None},
               Poll(p, pc, c)
        PROVE  polls'[p].pc = pc /\ polls'[p].holds = c /\ \A q \in Polls : q # p => polls'[q] = polls[q]
    BY <2>1, PollAt
  <2>2. bridge.unacked \in Commands \cup {None}
    BY Records DEF BridgeRecord
  <2>3. polls[p].pc # "none"
    BY DEF NextLooks, HoldEnds, RequestGone
  <2>4. CASE NextLooks(p) /\ bridge.unacked # None
    BY <2>1, <2>2, <2>3, <2>4 DEF NextLooks
  <2>5. CASE NextLooks(p) /\ bridge.unacked = None
    BY <2>1, <2>3, <2>5 DEF NextLooks
  <2>6. CASE HoldEnds(p)
    BY <2>1, <2>3, <2>6 DEF HoldEnds
  <2>7. CASE RequestGone(p)
    BY <2>1, <2>3, <2>7 DEF RequestGone
  <2> QED BY <2>4, <2>5, <2>6, <2>7
<1>3. Numbered'
  BY <1>1 DEF Rest, Numbered, Queued
<1>4. Traced'
  <2>1. polls'[p].holds # None => senders[polls'[p].holds] \notin {"out", "numbered"}
    BY <1>2 DEF Rest, Traced, Queued
  <2> QED BY <1>1, <1>2, <2>1 DEF Rest, Traced, Queued
<1>5. Honest'
  BY <1>1 DEF Rest, Honest, AckedMeansRun
<1>6. ASSUME ~Overlap PROVE OneRequest' /\ InLine'
  <2>1. OneRequest'
    BY <1>1, <1>2, <1>6 DEF Rest, OneRequest, NotRun
  <2>2. InLine'
    BY <1>1, <1>2, <1>6 DEF Rest, InLine, NotRun
  <2> QED BY <2>1, <2>2
<1> QED BY <1>3, <1>4, <1>5, <1>6 DEF Rest

\* A handler takes the first command of the channel, which is there only once.
LEMMA NextTakesKeeps == ASSUME TypeOK, Rest, NEW p \in Polls, NextTakes(p) PROVE Rest'
<1>1. PICK c : c = Head(bridge.channel)
  OBVIOUS
<1>2. /\ bridge'.channel = Tail(bridge.channel) /\ bridge'.unacked = bridge.unacked
      /\ bridge'.sequence = bridge.sequence /\ bridge'.acked = bridge.acked /\ bridge'.number = bridge.number
      /\ bridge.channel # <<>> /\ c \in Commands /\ polls[p].pc = "waiting" /\ UNCHANGED <<senders, mod, ran>>
  BY <1>1, NextTakesFields DEF NextTakes, Poll, history
<1>3. /\ polls'[p].pc = "took" /\ polls'[p].holds = c
      /\ \A q \in Polls : q # p => polls'[q] = polls[q]
  BY <1>1, <1>2, PollAt DEF NextTakes
<1>4. bridge.channel \in Seq(Commands)
  BY Records DEF BridgeRecord
<1>5. /\ c = bridge.channel[1] /\ 1 \in 1..Len(bridge.channel)
      /\ \A i \in 1..Len(bridge'.channel) :
           i + 1 \in 1..Len(bridge.channel) /\ i + 1 # 1 /\ bridge'.channel[i] = bridge.channel[i + 1]
  BY <1>1, <1>2, <1>4, TailElements
<1>6. Numbered'
  BY <1>2 DEF Rest, Numbered, Queued
<1>7. Traced'
  <2>1. senders[c] \notin {"out", "numbered"}
    BY <1>5 DEF Rest, Traced, Queued
  <2>2. \A i \in 1..Len(bridge'.channel) : senders[bridge'.channel[i]] \notin {"out", "numbered"}
    BY <1>5 DEF Rest, Traced, Queued
  <2> QED BY <1>2, <1>3, <2>1, <2>2 DEF Rest, Traced, Queued
<1>8. Honest'
  BY <1>2 DEF Rest, Honest, AckedMeansRun
<1>9. ASSUME ~Overlap PROVE OneRequest' /\ InLine'
  <2>1. OneRequest'
    BY <1>2, <1>3, <1>9, NoneIsNone DEF Rest, OneRequest, NotRun
  <2>2. bridge.number[c] \notin mod.known /\ \A i \in 1..Len(bridge'.channel) : bridge'.channel[i] # c
    BY <1>5, <1>9 DEF Rest, InLine, NotRun
  <2>3. \A q \in Polls : q # p => polls[q].pc # "took"
    BY <1>2, <1>9 DEF Rest, OneRequest
  <2>4. \A i \in 1..Len(bridge'.channel) :
          bridge.number[bridge'.channel[i]] \notin mod.known /\ bridge'.channel[i] # bridge.unacked
    BY <1>5, <1>9 DEF Rest, InLine, NotRun
  <2>5. \A i, j \in 1..Len(bridge'.channel) : bridge'.channel[i] = bridge'.channel[j] => i = j
    <3>1. SUFFICES ASSUME NEW i \in 1..Len(bridge'.channel), NEW j \in 1..Len(bridge'.channel),
                          bridge'.channel[i] = bridge'.channel[j]
                   PROVE  i = j
      OBVIOUS
    <3>2. i + 1 = j + 1
      BY <1>5, <1>9, <3>1 DEF Rest, InLine
    <3> QED BY <3>2
  <2>6. InLine'
    BY <1>2, <1>3, <2>2, <2>3, <2>4, <2>5 DEF InLine, NotRun
  <2> QED BY <2>1, <2>6
<1> QED BY <1>6, <1>7, <1>8, <1>9 DEF Rest

\* What a handler took becomes the unacknowledged command.
LEMMA NextGivesKeeps == ASSUME TypeOK, Rest, NEW p \in Polls, NextGives(p) PROVE Rest'
<1>1. PICK c : c = polls[p].holds
  OBVIOUS
<1>2. /\ bridge'.channel = bridge.channel /\ bridge'.unacked = c
      /\ bridge'.sequence = bridge.sequence /\ bridge'.acked = bridge.acked /\ bridge'.number = bridge.number
      /\ polls[p].pc = "took" /\ UNCHANGED <<senders, mod, ran>>
  BY <1>1, NextGivesFields DEF NextGives, Poll, history
<1>3. /\ polls'[p].pc = "replied" /\ polls'[p].holds = c
      /\ \A q \in Polls : q # p => polls'[q] = polls[q]
  <2>1. c \in Commands \cup {None}
    BY <1>1, Records DEF PollRecord
  <2> QED BY <1>1, <2>1, PollAt DEF NextGives
<1>4. Numbered'
  BY <1>2 DEF Rest, Numbered, Queued
<1>5. Traced'
  BY <1>1, <1>2, <1>3 DEF Rest, Traced, Queued
<1>6. Honest'
  BY <1>2 DEF Rest, Honest, AckedMeansRun
<1>7. ASSUME ~Overlap PROVE OneRequest' /\ InLine'
  <2>1. \A q \in Polls : q # p => polls[q].pc = "none"
    BY <1>2, <1>7 DEF Rest, OneRequest
  <2>2. mod.pc \in {"waiting", "sleep", "poll"}
    BY <1>2, <1>7 DEF Rest, OneRequest
  <2>3. OneRequest'
    BY <1>2, <1>3, <2>1, <2>2 DEF OneRequest
  <2>4. InLine'
    BY <1>1, <1>2, <1>3, <1>7, <2>1 DEF Rest, InLine, NotRun
  <2> QED BY <2>3, <2>4
<1> QED BY <1>4, <1>5, <1>6, <1>7 DEF Rest

-----------------------------------------------------------------------------
(***************************************************************************)
(* The invariant                                                           *)
(***************************************************************************)
\* At first nothing is numbered, queued or asked for.
LEMMA InitIInv == Init => IInv
<1> USE DEF Init
<1>1. Init => TypeOK
  BY BridgeAssumption DEF TypeOK, NoPoll
<1>2. Init => Numbered
  BY DEF Numbered
<1>3. Init => Traced
  BY DEF Traced, NoPoll
<1>4. Init => Honest
  BY BridgeAssumption DEF Honest, AckedMeansRun
<1>5. Init => OneRequest /\ InLine
  BY DEF OneRequest, InLine, NoPoll
<1> QED BY <1>1, <1>2, <1>3, <1>4, <1>5 DEF IInv

\* Every step keeps it.
LEMMA Invariance == IInv /\ [Next]_vars => IInv'
<1>1. SUFFICES ASSUME IInv, [Next]_vars PROVE IInv'
  OBVIOUS
<1>2. TypeOK /\ Rest
  BY <1>1 DEF IInv, Rest
<1>3. TypeOK'
  BY <1>1, <1>2, TypeStep DEF Rest
<1>4. Rest'
  <2>1. ASSUME NEW c \in Commands, Numbers(c) \/ Enqueues(c) \/ Acknowledged(c) \/ GivesUp(c)
        PROVE  Rest'
    BY <1>2, <2>1, NumbersKeeps, EnqueuesKeeps, AcknowledgedKeeps, GivesUpKeeps
  <2>2. ASSUME NEW p \in Polls, Asks(p) \/ Receives(p) \/ NextLooks(p) \/ NextTakes(p) \/ NextGives(p)
                                \/ RequestGone(p) \/ HoldEnds(p)
        PROVE  Rest'
    BY <1>2, <2>2, AsksKeeps, ReceivesKeeps, WaitingKeeps, NextTakesKeeps, NextGivesKeeps
  <2> QED BY <1>1, <1>2, <2>1, <2>2, Steps, QuietKeeps, RunsKeeps, AcksKeeps
<1> QED BY <1>3, <1>4 DEF IInv, Rest

\* The variables have their types.
THEOREM TypeCorrect == Spec => []TypeOK
<1>1. IInv => TypeOK
  BY DEF IInv
<1> QED BY InitIInv, Invariance, <1>1, PTL DEF Spec

\* A sender that was told its command was acknowledged can rely on it having
\* been carried out, also when abandoned requests still wait: sendAcknowledged
\* returns once handleAck has closed the waiter of the command's number.
THEOREM AcknowledgedWasRun == Spec => []AckedMeansRun
<1>1. IInv => AckedMeansRun
  BY DEF IInv, Honest
<1> QED BY InitIInv, Invariance, <1>1, PTL DEF Spec

-----------------------------------------------------------------------------
(***************************************************************************)
(* While there is one request at a time the bridge implements the queue.   *)
(***************************************************************************)
TakenOf(f) ==
  LET H == {p \in Polls : f[p].pc = "took"} IN IF H = {} THEN <<>> ELSE <<f[CHOOSE p \in H : TRUE].holds>>

\* The command taken is that of the only handler that has taken one.
LEMMA TakenByOne ==
  ASSUME NEW f, NEW p \in Polls, f[p].pc = "took", \A q \in Polls : f[q].pc = "took" => q = p
  PROVE  TakenOf(f) = <<f[p].holds>>
<1>1. {q \in Polls : f[q].pc = "took"} = {p}
  OBVIOUS
<1>2. (CHOOSE q \in {p} : TRUE) = p
  OBVIOUS
<1> QED BY <1>1, <1>2 DEF TakenOf

\* With no such handler there is none.
LEMMA TakenByNone ==
  ASSUME NEW f, \A q \in Polls : f[q].pc # "took"
  PROVE  TakenOf(f) = <<>>
BY DEF TakenOf

\* It depends on those handlers only.
LEMMA TakenAlike ==
  ASSUME NEW f, NEW g,
         \A q \in Polls : (f[q].pc = "took" <=> g[q].pc = "took") /\ (f[q].pc = "took" => f[q].holds = g[q].holds)
  PROVE  TakenOf(f) = TakenOf(g)
<1>1. PICK H : H = {q \in Polls : f[q].pc = "took"}
  OBVIOUS
<1>2. H = {q \in Polls : g[q].pc = "took"}
  BY <1>1
<1>3. CASE H = {}
  BY <1>1, <1>2, <1>3 DEF TakenOf
<1>4. CASE H # {}
  <2>1. PICK p : p = CHOOSE q \in H : TRUE
    OBVIOUS
  <2>2. p \in H
    BY <1>4, <2>1
  <2>3. f[p].holds = g[p].holds
    BY <1>1, <2>2
  <2>4. TakenOf(f) = <<f[p].holds>> /\ TakenOf(g) = <<g[p].holds>>
    BY <1>1, <1>2, <1>4, <2>1 DEF TakenOf
  <2> QED BY <2>3, <2>4
<1> QED BY <1>3, <1>4

\* The parts of what is pending, before and after a step.
LEMMA PendingParts ==
  /\ Pending = Served \o TakenOf(polls) \o bridge.channel
  /\ Pending' = Served' \o TakenOf(polls') \o bridge'.channel
BY DEF Pending, Taken, Holding, TakenOf

\* What is pending is a sequence of commands.
LEMMA QueuesAreSequences ==
  ASSUME TypeOK, OneRequest
  PROVE  /\ Served \in Seq(Commands) /\ TakenOf(polls) \in Seq(Commands) /\ bridge.channel \in Seq(Commands)
<1>1. Served \in Seq(Commands)
  BY Records DEF Served, BridgeRecord
<1>2. TakenOf(polls) \in Seq(Commands)
  <2>1. CASE \E p \in Polls : polls[p].pc = "took"
    <3>1. PICK p \in Polls : polls[p].pc = "took"
      BY <2>1
    <3>2. TakenOf(polls) = <<polls[p].holds>> /\ polls[p].holds \in Commands
      BY <3>1, TakenByOne, Records DEF OneRequest, PollRecord
    <3> QED BY <3>2
  <2>2. CASE \A p \in Polls : polls[p].pc # "took"
    <3>1. TakenOf(polls) = <<>>
      BY <2>2, TakenByNone
    <3> QED BY <3>1
  <2> QED BY <2>1, <2>2
<1> QED BY <1>1, <1>2, Records DEF BridgeRecord

\* Where a command is in the queue.
LEMMA Appended ==
  ASSUME NEW S, NEW t \in Seq(S), NEW q \in Seq(S), NEW c \in S
  PROVE  t \o Append(q, c) = Append(t \o q, c)
OBVIOUS

LEMMA Advanced ==
  ASSUME NEW S, NEW q \in Seq(S), q # <<>>
  PROVE  <<>> \o <<Head(q)>> \o Tail(q) = <<>> \o <<>> \o q
<1>1. <<>> \o <<Head(q)>> \o Tail(q) \in Seq(S) /\ <<>> \o <<>> \o q \in Seq(S)
  OBVIOUS
<1>2. Len(<<>> \o <<Head(q)>> \o Tail(q)) = Len(q) /\ Len(<<>> \o <<>> \o q) = Len(q)
  OBVIOUS
<1>3. \A i \in 1..Len(q) : (<<>> \o <<Head(q)>> \o Tail(q))[i] = (<<>> \o <<>> \o q)[i]
  OBVIOUS
<1> QED BY <1>1, <1>2, <1>3

LEMMA Given ==
  ASSUME NEW S, NEW q \in Seq(S), NEW c \in S
  PROVE  <<c>> \o <<>> \o q = <<>> \o <<c>> \o q
OBVIOUS

LEMMA CarriedOut ==
  ASSUME NEW S, NEW q \in Seq(S), NEW c \in S
  PROVE  /\ <<c>> \o <<>> \o q # <<>> /\ Head(<<c>> \o <<>> \o q) = c
         /\ Tail(<<c>> \o <<>> \o q) = <<>> \o <<>> \o q
OBVIOUS

\* The unacknowledged command, while it has not been carried out, and after a step.
LEMMA ServedIs ==
  /\ bridge.unacked = None => Served = <<>>
  /\ bridge'.unacked = None => Served' = <<>>
  /\ bridge.number[bridge.unacked] \in mod.known => Served = <<>>
  /\ bridge'.number[bridge'.unacked] \in mod'.known => Served' = <<>>
  /\ bridge.unacked # None /\ bridge.number[bridge.unacked] \notin mod.known => Served = <<bridge.unacked>>
  /\ bridge'.unacked # None /\ bridge'.number[bridge'.unacked] \notin mod'.known => Served' = <<bridge'.unacked>>
BY DEF Served, NotRun

\* Steps that leave the three parts alone.
LEMMA QueueStays ==
  ASSUME TypeOK, Rest, UNCHANGED ran, bridge'.channel = bridge.channel, bridge'.unacked = bridge.unacked,
         mod'.known = mod.known, bridge.unacked # None => bridge'.number[bridge.unacked] = bridge.number[bridge.unacked],
         \A q \in Polls : (polls'[q].pc = "took" <=> polls[q].pc = "took")
                          /\ (polls'[q].pc = "took" => polls'[q].holds = polls[q].holds)
  PROVE  UNCHANGED <<Pending, ran>>
<1>1. Served' = Served
  <2>1. CASE bridge.unacked = None
    BY <2>1, ServedIs
  <2>2. CASE bridge.unacked # None /\ bridge.number[bridge.unacked] \in mod.known
    BY <2>2, ServedIs
  <2>3. CASE bridge.unacked # None /\ bridge.number[bridge.unacked] \notin mod.known
    BY <2>3, ServedIs
  <2> QED BY <2>1, <2>2, <2>3
<1>2. TakenOf(polls') = TakenOf(polls)
  BY TakenAlike
<1> QED BY <1>1, <1>2, PendingParts

QueueMove ==
  \/ \E c \in Commands : Pending' = Append(Pending, c) /\ UNCHANGED ran
  \/ Pending # <<>> /\ ran' = Append(ran, Head(Pending)) /\ Pending' = Tail(Pending)
  \/ UNCHANGED <<Pending, ran>>

\* Only a sender that queues its command, and the mod that carries one out,
\* move the queue.
LEMMA QueueMoves == ASSUME TypeOK, Rest, ~Overlap, [Next]_vars PROVE QueueMove
<1>1. /\ bridge.channel \in Seq(Commands) /\ bridge.unacked \in Commands \cup {None}
      /\ bridge.number \in [Commands -> Nat]
  BY Records DEF BridgeRecord
<1>2. OneRequest /\ InLine
  BY DEF Rest
<1>3. CASE Quiet
  BY <1>3, QuietFields, QueueStays DEF QueueMove
<1>4. ASSUME NEW c \in Commands, Numbers(c) PROVE QueueMove
  <2>1. bridge.unacked # None => bridge.unacked # c
    BY NumbersFields, <1>4 DEF Rest, Traced, Queued
  <2>2. /\ bridge'.channel = bridge.channel /\ bridge'.unacked = bridge.unacked
        /\ bridge'.number = [bridge.number EXCEPT ![c] = bridge.sequence + 1] /\ UNCHANGED <<polls, mod, ran>>
    BY <1>4, NumbersFields DEF Numbers, Sender, history
  <2>3. bridge.unacked # None => bridge'.number[bridge.unacked] = bridge.number[bridge.unacked]
    BY <1>1, <2>1, <2>2
  <2> QED BY <2>2, <2>3, QueueStays DEF QueueMove
<1>5. ASSUME NEW c \in Commands, Acknowledged(c) \/ GivesUp(c) PROVE QueueMove
  <2>1. /\ bridge'.channel = bridge.channel /\ bridge'.unacked = bridge.unacked /\ bridge'.number = bridge.number
        /\ UNCHANGED <<polls, mod, ran>>
    BY <1>5, GivesUpFields DEF Acknowledged, GivesUp, Sender, history
  <2> QED BY <2>1, QueueStays DEF QueueMove
<1>6. ASSUME NEW c \in Commands, Enqueues(c) PROVE QueueMove
  <2>1. /\ bridge'.channel = Append(bridge.channel, c) /\ bridge'.unacked = bridge.unacked
        /\ bridge'.number = bridge.number /\ UNCHANGED <<polls, mod, ran>>
    BY <1>6, EnqueuesFields DEF Enqueues, Sender, history
  <2>2. Served' = Served
    BY <2>1 DEF Served, NotRun
  <2>3. Pending' = Served \o TakenOf(polls) \o Append(bridge.channel, c)
    BY <2>1, <2>2, PendingParts
  <2>4. Served \in Seq(Commands) /\ TakenOf(polls) \in Seq(Commands)
    BY <1>2, QueuesAreSequences
  <2>5. PICK t \in Seq(Commands) : t = Served \o TakenOf(polls)
    <3>1. PICK s \in Seq(Commands), r \in Seq(Commands) : s = Served /\ r = TakenOf(polls)
      BY <2>4
    <3>2. s \o r \in Seq(Commands)
      OBVIOUS
    <3> QED BY <3>1, <3>2
  <2>6. PICK q \in Seq(Commands) : q = bridge.channel
    BY <1>1
  <2>7. t \o Append(q, c) = Append(t \o q, c)
    BY Appended
  <2>8. Pending' = Append(Pending, c)
    BY <2>3, <2>5, <2>6, <2>7, PendingParts
  <2> QED BY <2>1, <2>8 DEF QueueMove
<1>7. ASSUME NEW p \in Polls, Asks(p) \/ Receives(p) \/ NextLooks(p) \/ RequestGone(p) \/ HoldEnds(p)
      PROVE  QueueMove
  <2>1. UNCHANGED bridge /\ mod'.known = mod.known /\ UNCHANGED ran
    BY <1>7, ModAsks, ModReceives DEF Asks, Receives, NextLooks, RequestGone, HoldEnds, Poll, history
  <2>2. polls[p].pc # "took" /\ polls'[p].pc # "took" /\ \A q \in Polls : q # p => polls'[q] = polls[q]
    <3>1. /\ polls[p].pc # "took"
          /\ \E pc \in {"none", "arrived", "waiting", "replied"} : \E c \in Commands \cup {None} : Poll(p, pc, c)
      BY <1>1, <1>7 DEF Asks, Receives, NextLooks, RequestGone, HoldEnds
    <3> QED BY <3>1, PollAt
  <2> QED BY <2>1, <2>2, QueueStays DEF QueueMove
<1>8. ASSUME NEW p \in Polls, NextTakes(p) PROVE QueueMove
  <2>1. /\ bridge'.channel = Tail(bridge.channel) /\ bridge'.unacked = bridge.unacked
        /\ bridge.channel # <<>> /\ Head(bridge.channel) \in Commands /\ polls[p].pc = "waiting" /\ UNCHANGED ran
    BY <1>8, NextTakesFields DEF NextTakes, Poll, history
  <2>2. /\ polls'[p].pc = "took" /\ polls'[p].holds = Head(bridge.channel)
        /\ \A q \in Polls : q # p => polls'[q] = polls[q]
    BY <1>8, <2>1, PollAt DEF NextTakes
  <2>3. bridge.unacked = None /\ \A q \in Polls : q # p => polls[q].pc = "none"
    BY <1>2, <2>1 DEF OneRequest
  <2>4. Served = <<>> /\ Served' = <<>>
    BY <2>1, <2>3, ServedIs
  <2>5. TakenOf(polls) = <<>>
    BY <2>1, <2>3, TakenByNone
  <2>6. TakenOf(polls') = <<Head(bridge.channel)>>
    BY <2>2, <2>3, TakenByOne
  <2>7. Pending' = Pending
    BY <1>1, <2>1, <2>4, <2>5, <2>6, Advanced, PendingParts
  <2> QED BY <2>1, <2>7 DEF QueueMove
<1>9. ASSUME NEW p \in Polls, NextGives(p) PROVE QueueMove
  <2>1. /\ bridge'.channel = bridge.channel /\ bridge'.unacked = polls[p].holds /\ bridge'.number = bridge.number
        /\ polls[p].pc = "took" /\ UNCHANGED <<mod, ran>>
    BY <1>9, NextGivesFields DEF NextGives, Poll, history
  <2>2. polls[p].holds \in Commands /\ polls[p].holds # None
    BY <1>2, <2>1, Records DEF OneRequest, PollRecord
  <2>3. polls'[p].pc = "replied" /\ \A q \in Polls : q # p => polls'[q] = polls[q]
    BY <1>9, <2>2, PollAt DEF NextGives
  <2>4. bridge.unacked = None /\ \A q \in Polls : q # p => polls[q].pc = "none"
    BY <1>2, <2>1 DEF OneRequest
  <2>5. bridge.number[polls[p].holds] \notin mod.known
    BY <1>2, <2>1 DEF InLine, NotRun
  <2>6. Served = <<>> /\ Served' = <<polls[p].holds>>
    BY <2>1, <2>2, <2>4, <2>5, ServedIs
  <2>7. TakenOf(polls) = <<polls[p].holds>>
    BY <2>1, <2>4, TakenByOne
  <2>8. TakenOf(polls') = <<>>
    BY <2>3, <2>4, TakenByNone
  <2>9. Pending' = Pending
    BY <1>1, <2>1, <2>2, <2>6, <2>7, <2>8, Given, PendingParts
  <2> QED BY <2>1, <2>9 DEF QueueMove
<1>10. CASE Runs
  <2>1. PICK c : c = mod.command
    OBVIOUS
  <2>2. c \in Commands /\ mod.pc = "run"
    BY <1>10, <2>1, Records DEF Runs, Rest, Traced, ModRecord
  <2>3. UNCHANGED <<bridge, polls>> /\ mod'.known = mod.known \cup {bridge.number[c]} /\ ran' = Append(ran, c)
    BY <1>10, <2>1, <2>2, ModRuns DEF Runs
  <2>4. bridge.unacked = c /\ bridge.number[c] \notin mod.known /\ \A q \in Polls : polls[q].pc = "none"
    BY <1>2, <2>1, <2>2 DEF OneRequest, NotRun
  <2>5. Served = <<c>> /\ Served' = <<>>
    BY <2>2, <2>3, <2>4, NoneIsNone, ServedIs
  <2>6. TakenOf(polls) = <<>> /\ TakenOf(polls') = <<>>
    BY <2>3, <2>4, TakenByNone
  <2>7. Pending = <<c>> \o <<>> \o bridge.channel /\ Pending' = <<>> \o <<>> \o bridge.channel
    BY <2>3, <2>5, <2>6, PendingParts
  <2>8. Pending # <<>> /\ Head(Pending) = c /\ Pending' = Tail(Pending)
    BY <1>1, <2>2, <2>7, CarriedOut
  <2> QED BY <2>3, <2>8 DEF QueueMove
<1>11. CASE Acks
  <2>1. PICK c : c = mod.command
    OBVIOUS
  <2>2. c \in Commands /\ mod.pc = "ack" /\ bridge.number[c] \in mod.known
    BY <1>11, <2>1, Records DEF Acks, Rest, Traced, Honest, ModRecord
  <2>3. bridge.unacked = c
    BY <1>2, <2>1, <2>2 DEF OneRequest
  <2>4. bridge'.channel = bridge.channel /\ bridge'.unacked = None /\ UNCHANGED <<polls, ran>>
    BY <1>11, <2>1, <2>2, <2>3, AcksFields DEF Acks, history
  <2>5. Served = <<>> /\ Served' = <<>>
    BY <2>2, <2>3, <2>4, ServedIs
  <2>6. Pending' = Pending
    BY <2>4, <2>5, PendingParts
  <2> QED BY <2>4, <2>6 DEF QueueMove
<1> QED BY <1>3, <1>4, <1>5, <1>6, <1>7, <1>8, <1>9, <1>10, <1>11, Steps

\* At first nothing is queued.
LEMMA QueueStarts == Init => Promise!Init
<1>1. SUFFICES ASSUME Init PROVE Promise!Init
  OBVIOUS
<1>2. bridge.channel = <<>> /\ bridge.unacked = None /\ ran = <<>> /\ \A p \in Polls : polls[p].pc # "took"
  BY <1>1 DEF Init, NoPoll
<1>3. Served = <<>> /\ TakenOf(polls) = <<>>
  BY <1>2, ServedIs, TakenByNone
<1>4. Pending = <<>>
  BY <1>2, <1>3, PendingParts
<1> QED BY <1>2, <1>4 DEF Promise!Init

\* However requests, replies and acknowledgements are lost and repeated, every
\* command is carried out once and in the order of the channel: what nextCommand
\* serves again, and what the mod asks for again, never passes over or repeats
\* a command, as long as the handler of an abandoned request is gone when the
\* mod asks again.
THEOREM OnceAndInOrder == ~Overlap => (Spec => EachRunsOnceInOrder)
<1>1. SUFFICES ASSUME ~Overlap PROVE Spec => EachRunsOnceInOrder
  OBVIOUS
<1>2. IInv /\ [Next]_vars => [Promise!Next]_Promise!vars
  <2>1. SUFFICES ASSUME IInv, [Next]_vars PROVE [Promise!Next]_Promise!vars
    OBVIOUS
  <2>2. QueueMove
    BY <1>1, <2>1, QueueMoves DEF IInv, Rest
  <2> QED BY <2>2 DEF QueueMove, Promise!Next, Promise!Queue, Promise!Run, Promise!vars
<1> QED BY <1>2, InitIInv, Invariance, QueueStarts, PTL DEF Spec, EachRunsOnceInOrder, Promise!Spec
=============================================================================
