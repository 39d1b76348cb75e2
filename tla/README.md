# Formal models of the AgentParley tunnel daemon

The tunnel daemon runs on a machine its owner controls, keeps one outgoing gRPC stream to the platform, and carries out
what the platform asks: shell commands and file operations, completions of a local model server, and "rounds" of a
conversation with a coding CLI (Claude Code, Codex) that it keeps warm between rounds. This directory holds TLA+ models
of the parts of it where goroutines, timers and failures meet, the TLC configurations that check them, and TLAPS proofs.

Paths below are relative to `src/`. Every definition that stands for code is listed with its lines in `PROJECT.json`
("map").

## 1. The system

| Component | State | Operations | Talks to |
|---|---|---|---|
| Warm session manager (`internal/cliround/manager.go`) | per harness: table of entries by conversation, `live`, `reserved`, `slotFreed`; per entry: lock, runner, highest fence, `cancelRound`, carried usage; `closed` | `Round`, `Sweep`, `Close` | called by dispatch and the sweep timer; calls a `Runner` (Codex thread or Claude Code session) and a `Factory` |
| Reconciliation (`reconcile.go`, `wire.go`, `transcript.go`) | none | `Reconcile`, validation, transcript chunks | pure; called by the manager and the drivers |
| Codex thread (`internal/codexrpc/thread.go`, `events.go`, `items.go`) | state, open round, turn, waiting tool calls, carried usage | `Extend`, `Rebuild`, `Close`, notifications of the app-server | app-server client below; the manager above |
| Codex app-server client (`client.go`, `appserver.go`) | pending RPC calls, registered threads, the process | `call`, `respond`, read loop | the child process |
| Claude Code session (`internal/claudepty/session.go`, `process.go`, `rebuild.go`) | state, current round, replay, carried usage | `Extend`, rebuild, `Close`, reports of the mod | the bridge |
| Claude Code bridge (`bridge.go`, `claudemod/`) | command queue, the unacknowledged command, result slots, completions | HTTP handlers on a private socket, `deliver`, `send` | the mod inside Claude Code |
| One-shot utility process (`oneshot.go`) | the shared process, its holds, its idle timer | `OneShot`, `utilityFor`, `releaseUtility`, `dropUtility` | the bridge |
| Operation stream (`internal/client/client.go`) | current stream: send queue, `done`, `streamCtx`; operation semaphore | `Run`, `serve`, `runWriter`, `handleOperation` | the platform; dispatch |
| Workspace bridge (`internal/client/workspace.go`) | bound stream, pending calls, a result channel each | `setStream`, `clearStream`, `deliver`, `call` | local `agentparley ws` processes; the stream |
| Session ledger and dispatch (`internal/sessions/ledger.go`, `internal/client/dispatch.go`) | marker files, a mutex per session | `Lock`, `MarkServed`, `Sweep` | shell state directories |
| Enrolment and credentials (`client/tokenlogin.go`, `refresh.go`, `credstore/`, `login/`) | saved credentials, hash of a refused token | `enrolFromTokenFile`, `refreshAccessToken` | the platform's HTTP API |
| Managed CLI pins (`internal/managedcli`) | current manifest, `pins.json` and its signature, installed versions | refresh, install, prune | the update server |
| Managed CLI installs (`internal/managedcli/install.go`) | a folder per version, a staging folder per install | `Ensure`, `PruneOldVersions`, `RemoveInstalled` | the app-server's start; `register`, `unregister` |
| Self-update (`internal/selfupdate`) | the installed binary and the partial one | `Check`, `applyUpdate` | the update server; the unit of the service manager |
| Policy, files, shell, harness detection, CLI logins, command line, packaging | little or none | sequential | the operating system |

How they interact. `Daemon.Run` connects and `serve` starts a goroutine per operation, which waits for a slot of the
pool (CLI rounds do not), goes through `dispatch`, and puts its answer on the queue of the stream it came from. Commands
and file operations hold their session's mutex and mark the session in the ledger; CLI rounds go to `Manager.Round`.
The manager drives a runner through its interface and knows nothing of the CLI behind it; the runner is told of the
CLI's progress by callbacks on goroutines of their own. Two timers run `Manager.Sweep` and `Ledger.Sweep` next to all
that. Everything that belongs to a stream ends with it: its context is cancelled and its `done` channel closed.

What is hard here, and what makes each part correct:

- *Manager.* Three locks' worth of state (the manager's mutex, an entry's lock, a round's context) with blocking calls
  in between. Limits must hold through evictions, failed starts and retries; a conversation must have one round at a
  time though the sweep may replace the entry whose lock guarantees it; results must come in fence order; usage must be
  billed once; `Close` must leave nothing running, also what is being started meanwhile.
- *Ledger.* Files outlive the process, mutexes do not, and the sweep deletes what operations rely on. `is_fresh_shell`
  must tell the truth about the state a command restores.
- *Stream.* An operation's queue wait, its deadline and the end of its stream race, and answers need room on a queue
  that somebody may have stopped emptying. A workspace call's result, timeout and stream end race too.
- *Runners and bridge.* The end of a round, a deadline, a quiet-batch timer, notifications and process exit race;
  commands must not be lost, and results may come twice.
- *Conversation.* The platform's history and what a warm CLI has taken in are compared by positions and keys, and a
  session that is rebuilt gets the history split three ways. A row told twice, dropped or moved is seen by nobody.
- *Enrolment, pins, installs, updates.* Steps that a crash can separate, on files several processes write.

`PROJECT.json` ("hazards") lists these one by one, at the line where each bites, with the properties that watch it.

## 2. The modules

| Module | Models |
|---|---|
| `CLIRounds` | `Manager` of one harness: `Round` (enter, entry lock, fence check, begin, plan, extend, rebuild, retry, reserve/evict/wait, install, deliver, settle), `Sweep`, `Close` |
| `WarmPool` | abstract: a pool of slots, held by rounds or by warm sessions, until it is closed; `CLIRounds` implements it |
| `CLIRounds_proofs` | theorems about `CLIRounds`, and that it implements `WarmPool` |
| `Conversation` | `Reconcile`, the plan and the record of a round, `planRebuild`, `armReplay`, `historyItems`: what a CLI is told |
| `CodexThread` | `Thread` on its app-server: rounds, notifications, the batch timer, deadline, interrupt, exit, `Close` |
| `ClaudeSession` | `Session` on its process: rounds, the replay of a rebuild, reports of steps and turns, deadline, exit, `Close` |
| `ModBridge` | the socket between daemon and mod: the queue of commands, polls, acknowledgements, result slots |
| `CommandQueue` | abstract: commands are carried out once and in order; `ModBridge` implements it |
| `UtilityProcess` | the process one-shot calls share: admission, holds, retirement, prompts in parts, answers, `Shutdown` |
| `SessionLedger` | `Ledger` under the operations of `dispatch`, the hourly sweep, restarts |
| `OperationStream` | `Run`, `serve`, `runWriter`, `handleOperation`, `workspaceBridge` |
| `ManagedCLI` | the pin list, its refresh and its files; installs, pruning and removal by several processes; the one app-server |
| `DaemonLife` | self-update, the saved login, the token file and its refusals, reconnecting, `login`, `logout`, `update` |
| `OperationStream_proofs`, `ManagedCLI_proofs`, `CodexThread_proofs`, `ClaudeSession_proofs` | theorems about the modules they are named after |
| `Prompts_proofs` | theorems about what a CLI is prompted with: `UtilityProcess` and `Conversation` |
| `Disk_proofs` | theorems about what the daemon keeps on the disk: `SessionLedger` and `DaemonLife` |
| `ModBridge_proofs` | theorems about `ModBridge`, and that it implements `CommandQueue` |
| `MC...` | the small instances TLC checks |

How they fit together. `CLIRounds` sees a runner as what its interface says; `CodexThread` and `ClaudeSession` are the
two runners, and their callers behave as the manager of `CLIRounds` does. `ClaudeSession` takes the bridge for the
reliable queue that `ModBridge` is shown to be (`CommandQueue`). `Conversation` has the data of a round that the other
three leave open, and one round at a time, which `CLIRounds` shows (`OneRoundPerConversation`). `OperationStream` starts
where `DaemonLife` is connected. `ManagedCLI` hands the builds to the app-server of `CodexThread`.

Operators whose name begins with `Mutant` are wrong versions of the definition that follows them. No action uses them:
they are there so that it can be checked that a property notices the mistake ("mutants" in `PROJECT.json`).

### 2.1 CLIRounds

A member of `Rounds` is a goroutine inside `Manager.Round`; `round[r].pc` is where it is, and one action is one critical
section of `m.mutex` or of an entry's lock. Steps that touch only what the holder of an entry's lock owns are folded
into their neighbour. `entry[e]` is an entry object (with what its runner carries), `table[c]` the entry of a
conversation, `live`/`reserved`/`woken` the table's counters and the closed `slotFreed` channels, `cause[r]` what
`context.Cause` would say, `sweep` the sweep goroutine, `dying` the entries whose runner `Close` has taken and not
closed yet.

- The fence check (169-172) and the registration of `cancelRound` (290-291) are different critical sections in the code
  and different actions here (`Check`, `BeginRound`).
- `Reconcile`'s verdict is a choice: a warm session is kept (`PlanRound`) or replaced (`Replace`). A runner is what its
  interface says: a state, a result or an error, usage that `TakeCarried` or `Close` hand over.
- A failed delivery is one whose result cannot be encoded (`harness/clidrivers.go` 96-117).
- Usage is a set of indivisible units spent outside rounds; it is where an entry's `carried`
  and `gathered` say, and `spent` and `billed` are history. A round's own usage travels inside its result and needs no
  model. `Forgotten` is the carry of entries the sweep has removed: `Sweep`'s comment says that it is forgotten (590-591),
  and `UsageKept` says that nothing else is lost. When a start fails or finds the manager closed, the manager drops what
  that runner's `Close` returns; this loss is outside the model, which follows usage up to `Close`.
- `Close` runs when the daemon ends: its guard is that every round has returned or has a cancelled context, since
  `Run` defers it and every stream's context is a child of the one that ended.
- The sweep starts once per tick (`sweep.now < now`); callers that may leave are the set `Impatient`.
- One-shot rounds (189-221) are a separate semaphore; `UtilityProcess` has it (`Admit`, `Busy`, `Leaves`).

`WarmPool` says what callers of the manager rely on: `warm` and `held` never exceed the limit together, a slot is
taken, given back, turned into a session, or freed by a session's end, and nothing becomes warm once closed.
`ImplementsWarmPool` is the refinement, with `warm` the entries that have a runner and `held` the rounds that hold a
slot.

### 2.2 SessionLedger

An operation goes through `GetMutex` (the map, under its guard), `Acquire` (the mutex, outside it), `Stat`, `Write` or
`Touch`, `Start`, `Finish`. `MarkingFails` is the error path of `markSessionServed`. The sweep reads the directory,
looks at one marker after another, tries the session's mutex (`SweepTries`: no mutex in the map means it goes on with
none), removes the state and then the marker, each of which may fail unnoticed. `Restart` empties the mutexes and loses
the operations under way; files stay. The shell state is written by shell text the platform sends and is external: a
command captures its state when it ends, or not when it is killed.

The variables `captured` and `spoiled` are history. `spoiled` names the keys of which ledger and state may disagree, for
one of four reasons the code has: a marker could not be written, one of the two could not be removed, the daemon died
between the removals, or they were removed without a mutex under the first operation of a new process.
`FreshMeansNoState` and `ResumedFindsState` say that there is no fifth reason.

### 2.3 OperationStream

`serve` is the goroutine of `Run`: dialing, the receive loop, `deliver`'s send, `Deregister`, the grace period, and the
three deferred calls in their order (`clearStream`, `cancelStream`, `close(done)`), between which operations and calls
go on. `IsDone`, `IsCancelled` and `IsBound` say what that place means for a stream's `done`, its context, and the
bridge's `send`. The receiver with its channel is one sequence of at most two messages, and what it holds when the loop
is left is lost. Only the queue of the current stream is kept; an answer to an earlier stream goes nowhere, as in the
code, where `done` lets the sender go.

An operation takes a slot (unless it is a CLI round), looks at its context again, may be rejected, waits for its
session's mutex, starts (a command, a completion or a round not with an ended context; a file operation always),
finishes, answers, and returns its slot. `gaveUpAt` is history: where it was waiting when its context ended.

A workspace call registers, sends, waits, and is answered, times out, or is failed by `clearStream`; the platform may
answer late or twice.

### 2.4 Conversation

`conversation` is the platform's side: its rows, the frame of a request (model, system prompt and tools, as a number),
the output of the last round it has not stored yet. `runner` is `Consumed` with the frame and whether the session is
dirty, `context` all that the CLI of that session has been told and has said. The platform's actions are external: a
user writes or edits, the closed turns are compacted, a result arrives, an answer is stored (without its stage
directions, or changed by a reviewer), an output is lost. Texts and calls are numbers, never used twice; a key names a
row as it was last written, and 0 is a row without one.

`Reconcile` with all it calls, `PlanRebuild`, `ArmReplay` and `SplitTrailingUser` are operators; `PlanRound`, `Extends`,
`Rebuilds`, `RebuildsOnce`, `FinishRound` and `FailRound` are the round around them. The rendering of the record and its
splitting into chunks change no row's place and are left out. As `Prompts_proofs` is about this module and
`UtilityProcess`, the specification, its initial states and its variables have the module's name in theirs
(`ConversationSpec`).

### 2.5 CodexThread

The goroutines are `caller` (`Factory`, `OneShot`, `Extend`), the reader (the actions that take a line of `wire`), the
batch timer (`rounds[r].armed`, and the fired one that waits for the mutex), `closer`, and `stopper` for
`interruptTurn`. Every handler of `events.go` is an action: usage, declined native requests, a turn's start and end,
items, tool calls, unreadable frames. `server` is the child process, external: it starts a turn when it is asked to,
makes calls and waits for their results, ends the turn in one of its ways, or dies, and what it wrote before it died is
still read. `client.held` is a thread the reader has looked up and not called yet. The results of a round are a set, so
they are answered in every order, the code's included; `takeWaiting` takes the first call of that id. A call of the
client that gives up takes its response off `wire`, where there is at most one. `billed`, `dropped`, `told`, `answered`
and `misread` are history.

`Reports` are what the thread gathers for a round's result: usage updates, and, as `Declines`, events of native requests
it declines. The manager's `detachRunner` is two steps with the reader between them, `ManagerTakes` (`TakeCarried`: usage
and events) and `ManagerReplaces` (`Close`, which returns the usage alone). What `Close` does not return is `Lost`;
section 5 says which events that are.

### 2.6 ClaudeSession

`caller` is the goroutine in `Factory` or `Extend`, `closer` the one in `Close`, `failers` those of `failTurn`, which
watch the screen for the reason of a failed turn. `post` is a request of the mod whose handler waits for the session's
mutex; `OnStepStart`, `OnStepEnd`, `OnTurnComplete` and `OnEvent` are the handlers. `cli` is the process with the hooks of
`register.ts` and, external, the engine: it runs a prompt as a turn of steps, calls tools, and may start a turn of its
own (`Strays`) or die. A turn is known by the round whose prompt started it, which the reports do not say: that is what
`serves` and `endedBy`, history, are for.

### 2.7 ModBridge

Each command has a goroutine that numbers it, puts it on the bounded channel and, when it is to be acknowledged, waits.
A poll is a handler of its own: it serves the unacknowledged command again, or takes one from the channel, which then is
the unacknowledged one. The mod polls, runs what it has not run, acknowledges and polls again; `Faults` are requests and
replies that get lost, polls the mod abandons, acknowledgements that do not arrive. Results are fetched by a loop of
their own per call, from a slot that is forgotten a minute after it was read. The queue that implements `CommandQueue`
is the unacknowledged command, then the one a handler has taken, then the channel, without those the mod has run.

### 2.8 UtilityProcess

`utilities[u]` is a process with its holds, its version, whether it is retired and whether its idle timer is armed;
`driver` the shared one and `utilityMutex`, held while a process starts; `callers` the calls with their place in
`OneShot`; `admitted` the slots of the manager. `mod[u][i]` is what the mod has collected for one id: a prompt is sent in
parts under an id the process counts, and a call may leave at any of them.

### 2.9 ManagedCLI

Processes share files and nothing else: the lock of `Ensure` and the list in force (`pins[p]`) are each process's own.
The published list and its signature are two objects that are replaced one after the other, fetched one after the other
and saved one after the other; the signature a refresh has fetched goes with the list from the check (`Accepted`) to the
disk and into force. A round of the daemon finds the running app-server or installs a build, and looks again
under the mutex; a command installs (`register`) or removes (`unregister`) beside it. An archive is good or bad.

### 2.10 DaemonLife

Its specification is `LifeSpec`, and so on, because `Disk_proofs` reasons about it beside `SessionLedger`. `updates` are
processes that fetch, open the partial file, write, rename and restart, killed anywhere; `file` says which name the open file has by now. `daemon` goes from the unit's update through the saved login or the token file to `refresh`,
`up` and `wait`. `rejected` is the record of a refused token with the boot it belongs to. `commands` are `login` and
`logout` beside the daemon. What the platform makes of a token or a login is external.

## 3. What the runs check

All runs use 2 workers and finish within a few minutes. `CHECK_DEADLOCK FALSE` everywhere: rounds, calls, crashes and
lists of an instance are bounded, and when all are used up the system rightly stops. That nobody waits for ever is what
the liveness properties are for.

| Run | Question | Bounds |
|---|---|---|
| `contention` | Do the limit and the refinement of `WarmPool` hold, does no round lose its session to an eviction, does every round return, through evictions, waits, retries, failed starts, callers leaving, and `Close` anywhere? | 2 rounds, 2 conversations, 1 slot; both callers may leave; the clock stands, so no sweep |
| `rounds` | Does a conversation run one round at a time, with results in fence order, usage billed once, kept, or forgotten with the conversation, and every slot given back, while the sweep drops its session, but never under a running round, and forgets it? | an older round and two newer ones, 2 entry objects, 1 unit of usage, clock to 1 |
| `conversation` | Is a CLI told the history, once and in order, whether its session was extended or rebuilt, and does a conversation that only went on keep its session? | both CLIs, a window of 1 step, 2 calls in a step, 6 rows, 6 texts and calls |
| `conversation_open` (violated) | README.md:341: does a rebuilt Claude Code receive all of a history, also one with a call that got no result? | the same |
| `codex` | Does a Codex round end once, is what it gathered in one place, and lost at a close only if it is an event, are calls held until answered, and has each batch a timer? | 2 rounds, 2 calls, a usage update or a declined request, 1 turn, 2 lines on the pipe |
| `claude` | Is usage of a Claude Code session conserved, a round ended by its own turn, and does every round end? | 3 rounds, a window of 2 steps, 2 model steps, turns of its own |
| `bridge` | Is each command carried out once and in order, acknowledged only then, and does every result arrive, though requests and replies get lost? | 2 commands, 1 of them acknowledged, 1 call, 2 polls one after the other, a channel of 1, 2 losses |
| `utility` | Is the shared process never closed under a call, never left running, and does each call get the reply to its own prompt? | 2 calls, prompts of 2 parts, 2 versions, 3 processes |
| `ledger` | Is `is_fresh_shell` true, with sweep, failing files and a restart? | 3 operations, 1 session, 2 generations, TTL 0, clock to 2, 1 restart |
| `stream` | Does the pool leak no slot, is the bridge safe against every late, double or lost result, does every operation end? | 2 operations of a session, pool 1, queue 1, 1 call, 2 results, 1 stream |
| `machine` | Did the list in force come with its own signature, does the app-server run a verified build, is there one, does a daemon that stays up catch up? | 2 rounds, 1 command, 2 lists, 2 app-servers, 1 crash |
| `life` | Is a whole binary installed wherever an update is killed, is the token refused last left alone, does a fresh one enrol, does the daemon connect with the login on disk? | 2 tokens, 1 of them spent, 1 command, 1 update by hand, 2 logins, 2 boots, 1 crash |

Further instances, each for `tlc -config` by hand: `OperationStream_streams.cfg` checks the invariants of `stream` with
two streams (3 million states), `CodexThread_reports.cfg` checks `ReportsConserved` with a usage update and a declined
request together and one call, so that more than one report may be left behind (1.5 million states), and
`ClaudeSession_replay.cfg` checks `ReplayedInOrder`. These three pass. The others end with the counterexamples of
section 5.

Why the bounds are enough. One slot and two conversations are the smallest instance in which rounds evict each other and
wait; an older round and two newer ones of one conversation have one that runs, one that holds the lock next and one the
sweep may strand on a forgotten entry, and two entry objects let a conversation be forgotten and come back once. One
queue place makes every queue full at the first message, as 32 or 64 would at the next. TTL 0 with three clock values
makes a marker young, old, and touched again. A window of one step has a step before it, in it, and after it in a
history of six rows, which also holds two turns with a summary. Two Codex calls are one that is reported and one that
comes after; two rounds are one that leaves something behind and one that finds it; one report, of either kind, can be in
two places or in none. Three Claude rounds are a rebuild,
an extension with results and one with a prompt. Two losses lose a request and the reply of its repetition. Two one-shot
calls and three processes are one call that retires what another holds, and a successor that is retired in turn. Two
lists and two files make every torn pair. Two tokens are one that is refused and one that is not; two boots, one in
which a refusal holds and one in which it does not.

Fairness. `CLIRounds`: every goroutine goes on while it can (weak fairness per round, the sweep, and `Close`'s calls),
and a round is not overtaken for ever at an entry's lock (strong fairness of `Acquire`): the lock is a channel, and Go
serves channel waiters in order. A CLI is assumed to answer or to be cut off, as its caller's deadline ends every call.
`OperationStream`: every goroutine goes on, deadlines pass, the platform reads what is sent; a command need not end
before its deadline, a call need not reach its 30 s, and no stream need come or break. `ClaudeSession`: the daemon's
goroutines, the mod and the engine go on; no deadline need pass, no process die, no caller come back. `ModBridge`: a
hook's loop and its handler go on, and a handler that finds the result again and again is one day in time (strong
fairness of `Reads`); nothing is assumed of losses but their bound. `ManagedCLI`: the refresh goes on, every six hours,
and one of the fetches succeeds (strong fairness of `FetchesSignature`). `DaemonLife`: the daemon and the unit's update
go on, and a fresh token that is presented again and again is one day accepted (strong fairness of `Accepted`).

## 4. What is proved

Each proof module proves its theorems for every value of the constants that satisfies the module's named assumption: any
number of rounds, operations, calls, commands, processes, streams, restarts and losses. The assumptions say that limits
are numbers (positive, where the code's are), that what is counted is finite, and that special values (`None`, `Free`,
`Sweeper`, `Never`, 0) are no members of the sets they stand beside. Every argument has the same form: an inductive
invariant holds at the start, every action keeps it (one step of the proof per action), and it implies the property. Each
invariant was checked by TLC on the module's run before it was proved.

### 4.1 CLIRounds

| Theorem | States |
|---|---|
| `TypeCorrect` | `Spec => []TypeOK`: the counters never become negative |
| `LimitHolds` | `Spec => []WithinLimit` |
| `SlotsComeBack` | `Spec => []NoSlotLeaked` |
| `SessionsStay` | `Spec => []SessionStaysWithRound`: evictions and the sweep |
| `CloseIsFinal` | `Spec => []NothingWarmAfterClose` |
| `PoolImplemented` | `Spec => ImplementsWarmPool` |
| `OneRoundAtATime` | `Spec => []OneRoundPerConversation` |
| `FencesHold` | `Spec => []DeliveredInFenceOrder` |
| `BilledOnce` | `Spec => []NeverBilledTwice` |
| `NothingLost` | `Spec => []UsageKept` |

The inductive invariant has two parts. `IInv`, for the first six theorems, has four layers, each needed by the next.

1. `WellTyped`: `TypeOK`, and every entry or victim a round or the sweep is about to follow is one, not `None`.
2. `Locked`: an entry's lock is held by the round whose program counter says so, and by no other; a round that evicts
   holds the victim's. Without it a step of one round could disturb what another relies on.
3. `Staged`: what a round's locals say at each place: where it may hold a slot, that it has none while it has a session,
   that its entry has no runner when it is about to install one.
4. `Counted`: `live` is the number of entries with a runner, `reserved` the number of rounds that hold a slot, and
   together they do not exceed the limit. `NoSlotLeaked` alone is not inductive: it says nothing while a
   round is under way.

The proof that a step preserves `Counted`, and that it is a step of `WarmPool` or a stutter, goes over the seven ways an
action of the manager changes the pool (`PoolChange`: reserve a slot, give it up, install a session in it, drop a
session, swap a session for a reserved slot, shut down, nothing): each action is shown to be one of them, and each of
them is shown once to keep the count and to refine `WarmPool`.

`UsageInv` adds, on the first two layers:

5. `Housed`: a conversation has one entry in the table until the sweep removes it; whoever has an entry finds it there or
   removed, and whoever has begun finds it there. That two rounds of one conversation then hold the same lock is
   `OneRoundPerConversation`. The check of `removed` after the lock was taken (`Check`) is what makes it inductive.
6. `Fenced`: an entry's highest fence is at least that of every round that came to it or delivered on it, and whoever has
   begun is not below a delivered one: the round looked at the highest fence with the lock in hand, and nobody delivers
   without that lock.
7. `Accounted` and `Whole`: a unit of usage is in one entry at most, carried or gathered but not both; what is billed is
   in no entry, but for the carry of a round between its delivery and `SettleCarry`; what was spent is billed or in an
   entry, until `Close`. `NeverBilledTwice` looks at the moment of delivery only, so it is not inductive.
8. `Filed` and `Emptied`, which turn "in an entry" into `UsageKept`: a session, and what an eviction or the sweep works
   on, is in the table; what a runner had gathered is with it or with whoever is closing it, so a removed entry has
   nothing gathered; and an entry nobody uses carries nothing.

Here too the steps are first sorted into a few ways (`RoundWay`, `OutsideWay`: onward, carrying over, finishing,
delivering, settling, entering; gathering, removing, shutting), and each layer is shown to survive each way.

### 4.2 OperationStream

| Theorem | States |
|---|---|
| `TypeCorrect` | `Spec => []TypeOK` |
| `SlotsAreHeld` | `Spec => []NoSlotLeaked` |
| `DeliveryIsFree` | `Spec => []DeliverNeverBlocks` |
| `CallsAreForgotten` | `Spec => []NoCallLeftPending` |

`NoSlotLeaked` speaks of moments when no operation is under way. `Slots` says of every moment that the tokens taken from
the pool are as many as the operations that are past the pool's gate (`Holding`), which a step changes by one member at
most; for this `Received` says that an operation is in the receiver's channel once, so that it is not started
twice. `Delivery` is about a call's channel: whoever is pending has an empty one, and between `deliver`'s removal of a call
from the map and its send nobody else can put a result in, because the call is not in the map any more.

### 4.3 SessionLedger

In `Disk_proofs`.

| Theorem | States |
|---|---|
| `TypeCorrect` | `Spec => []TypeOK` |
| `FreshIsFresh` | `Spec => []FreshMeansNoState` |
| `ResumedResumes` | `Spec => []ResumedFindsState` |

`Excluded` says that a session's mutex belongs to the one operation past it, or to the sweep. The sweep may work without
one, when the process is new; `Undermined` says that the key it works on is then one of the spoiled ones. `Marked` and
`Kept` relate marker and state on the disk for all other keys: no state without a marker, and what was captured
stays until the sweep has removed it and is about to remove the marker. The properties are about the keys that are not
spoiled, for the four reasons of section 2.2.

### 4.4 ModBridge

| Theorem | States |
|---|---|
| `TypeCorrect` | `Spec => []TypeOK` |
| `AcknowledgedWasRun` | `Spec => []AckedMeansRun` |
| `OnceAndInOrder` | `~Overlap => (Spec => EachRunsOnceInOrder)` |

`AcknowledgedWasRun` needs that a number is one command's (`Numbered`), that whatever is on its way to the mod was queued
(`Traced`) and that what is acknowledged is known to the mod (`Honest`); it holds however requests overlap. The
refinement of `CommandQueue` needs one request at a time, as the mod sends them (`OneRequest`, `InLine`): with `Overlap` the
handler of an abandoned request may take the next command while the mod's new request is served the old one.
`QueueMove` is the heart: only a sender that queues its command and the mod that runs one move the abstract queue, the
others leave it alone, the unacknowledged command, the one a handler has in hand and the channel passing over to each
other. To reason about it, `ModBridge` states what is still to be run (`Served`) without a filter on sequences, which the
provers cannot unfold.

### 4.5 UtilityProcess

In `Prompts_proofs`.

| Theorem | States |
|---|---|
| `TypeCorrect` | `Spec => []TypeOK` |
| `NotClosedUnderACall` | `Spec => []NeverClosedUnderACall` |
| `NoneForgotten` | `Spec => []NoneLeftRunning` |
| `OwnPromptAnswered` | `Spec => []AnswersOwnPrompt` |

No property is inductive. For the process, `Pool` adds what the code's `holds` stands for: `Counted` says that it is the number of calls that
hold the process (`Holders`, an induction over steps with the cardinality lemmas of `FiniteSetTheorems`), so that zero
means nobody; `Abandoned`, that a process some call is about to close is held by nobody and can no longer be found;
`Unborn`, that nobody knows a process that was not started. `Placed` says where a call holds a process and that the mutex
is held by the call that starts one, so that two starts never meet and no shared process is overwritten.

For the prompts, `Owned` says that an id of a process is one call's: nobody else sends under it, waits for it or has parts
in the mod under it, and no id beyond the process's count is anybody's. What runs under an id that a call waits for is
that call's prompt, whole (`Underway` has the parts of a prompt that is being sent). `Counts` bounds a process's count by the
number of calls that got an id, which the types need: a call takes at most one.

### 4.6 ManagedCLI

| Theorem | States |
|---|---|
| `TypeCorrect` | `Spec => []TypeOK` |
| `OnlySignedPins` | `Spec => []PinsAreSigned` |
| `OnlyVerifiedBuilds` | `Spec => []RunsVerifiedBuild` |
| `OneServerRuns` | `Spec => []OneServer` |

`PinsAreSigned` needs `Fetched`: while a refresh saves, in two writes with a crash possible between them, the list and the
signature it has in hand were verified together; both then go into force as they were fetched.
`RunsVerifiedBuild` needs what is on the disk: `Compared`, that an install is about to move only what it compared, or
nothing when a prune took its staging folder; and `NoneBad`, that therefore no bad build is in its place, whatever is
pruned or removed in between. `OneServer` needs `Starting`, that the round at its start holds the mutex and saw no server
alive, and `Known`, that a live server is the one the driver knows.

### 4.7 DaemonLife

In `Disk_proofs`.

| Theorem | States |
|---|---|
| `LifeTypeCorrect` | `LifeSpec => []LifeTypeOK` |
| `SavedBeforeUse` | `LifeSpec => []ConnectsAsSaved` |
| `WholeBinary` | `LifeSpec => [](~Overlap => InstalledIsWhole)` |
| `RefusedOnce` | `LifeSpec => NotPresentedAgain` |

`RefusedOnce` is an action property: it follows from `Remembers`, that a daemon about to enrol knows the token whose
refusal was recorded last in this boot, or none was. It is no more than that: of two tokens refused in turn the first is
forgotten, and of a refusal that could not be recorded a restarted daemon knows nothing (section 5). `WholeBinary` needs `OneWriter`: the one update between its fetch and its rename has the
partial file for itself, and no open file is the installed one. It is stated for updates that do not overlap; two that
do write the same partial file, and section 5 has what happens then. `ConnectsAsSaved` is inductive once the variables are
typed: it is proved step by step like the others, but needs no strengthening.

### 4.8 CodexThread

| Theorem | States |
|---|---|
| `TypeCorrect` | `Spec => []TypeOK` |
| `EndedOnce` | `Spec => []EndsOnce` |
| `ReportsAreConserved` | `Spec => []ReportsConserved` |
| `CallsAreHeld` | `Spec => []CallsHeld` |
| `BatchesHaveTimers` | `Spec => []BatchHasTimer` |

One inductive invariant serves all. `Placed` says that the thread has a round open exactly while its caller is in one, that
it is the caller's, and that nothing has happened in the rounds to come; without it a step of the reader could credit a
round that has gone. `Ended`: a round that was given its end is marked finished. `Timed` is `BatchHasTimer` made inductive:
it also covers a new thread's caller on its way to wait. `Conserved(x)` follows a report: it
is on the output once, and once it is read it is with a round that has not settled or at one of three places after it.
`ClosedOnce`, on top of these, is about the end: who closes the thread to keep its usage comes when its caller has quit for
good (`Quit`), so no round hands anything over any more, and once the thread is unregistered the reader has at most the one
line it had looked up before. From it follow the two halves of `ReportsConserved` about the close.
`Followed(c)` follows a tool call from the line that asks for it to the list of the thread and to its answer: it is never at
two of them, and it was told as often as it is marked reported.

The model has some fifty kinds of step, most of which concern none of these parts. They are called `Ordinary`, by what
they leave alone, and handled by one lemma per part. Those that remain have a lemma each: a round opens, fails or
completes, a report is gathered, one is written, the app-server asks for a call, the thread takes it, refuses
it or answers it. The model states what is taken off a list (`Cut`) without a filter on sequences, for the same reason as
`ModBridge`.

### 4.9 ClaudeSession

| Theorem | States |
|---|---|
| `TypeCorrect` | `Spec => []TypeOK` |
| `UsageIsConserved` | `Spec => []UsageConserved` |
| `TheWindowComesFirst` | `Spec => []ReplayedInOrder` |
| `RoundsEndByTheirTurn` | `Spec => []EndedByItsOwnTurn` |

The session, its caller and the process in which the mod runs know of each other by what they send, and a report may be
handled long after it was posted. `Placed` and `Ended` say of the daemon's side what they say in `CodexThread`.
`Answerable`: a session that waits for results waits for those of calls its last round made. `Reported` and `Counted` are
about the other side: while a report is with its handler the process stands where it posted it, dead or alive, and a step
is reported once. `Conserved(s)` follows the usage of a step: it is in one round, or has left it once. That it is billed in
the end is not claimed: what a closed session carries, or the round of a failed rebuild has, stays there.

`ReplayedInOrder` needs two phases (`Windowed`): while a session starts (`Quiet`) nothing was submitted, so no turn runs
and no report can come; from then on (`Armed`) the steps given and the steps to give are the window, and none is left to
give once the model has made one of its own.

`EndedByItsOwnTurn` is about what the code cannot see, as no report names the round it is for. `Doing(T)` says that what
the engine does, has posted or is about to do is one thing, and for a turn of `T`. `Attributed` says which `T` fits each
state of the session: while a round is open, the turns that serve it; when it ended with calls, the turn it was left with,
which the next round goes on with; when it was answered, and whenever a prompt is still to be sent, none. A dirty session
is left out: late reports may come, and no round is opened on it. The part holds until Claude Code starts a turn
of its own (`strayed`), which is what the property allows.

As the model has many steps and the invariant many parts, each part has a lemma (`TypesKept` to `AttributedKept`) that
takes the steps by kind: the handlers, the caller's moves, what it sends, the steps of the engine, the steps that close.

### 4.10 Conversation

In `Prompts_proofs`.

| Theorem | States |
|---|---|
| `AWarmConversationStaysWarm` | `ConversationSpec => StaysWarm` |

The property is about one step, and why it holds is spread over all those before it. `GoesOn` collects them. `InTurn`:
while a round is under way its rows are Platform's, nothing waits to be stored, and a round that goes on with the session
has the session's frame. `Follows` is about a warm session of an untouched conversation, one that Platform has only added
to since the session's last round: the keys it has taken in are those of the first rows, and what it said last is still to be
stored, or is the next row, with the text and calls it had and a key. After a reply come the user's rows; after calls come
results, each of another of these calls, and then the user's rows (`GoesOnFromCalls`). `Settled` is what makes this
inductive: a result arrives only for a step that is stored and not answered in full, so it is none of an earlier step.

`WarmIsExtended` takes `Reconcile` through its branches. Its hard part is `AnswersCalls`: Platform asks for a round when no
call is unanswered, so the results it stored and the calls are the same set; as no result comes twice and no call is twice
in a step, they are as many, in whatever order they were stored. The searches in a sequence that `Reconcile` is
written with take the least or the greatest member of a set of positions; that a set of positions has one
(`Least`, `Greatest`) comes from the well-foundedness of the order on the natural numbers, which needs no theorem
with an operator parameter.

### 4.11 What only TLC checks

`ContextIsHistory`: it is about sequences that `FlattenSeq` and `SelectSeq` put together from those of the rows, and what these
compute would need an induction over data for each of them. Liveness under fairness is out of the prover's reach, and so
is `ENABLED`. Where the code breaks what its documents say (section 5), TLC's counterexample is the result.

## 5. Where code and documents differ

One is a run and an entry in "findings".

- `conversation_open`: a step whose calls never got a result leaves `armReplay` no result for the user rows after it to
  ride on (`rebuild.go` 131). `Reconcile` rebuilds for such a step (`reconcile.go` 136), and what the user wrote after it
  is neither in the record nor in the prompt nor in the window. When the window holds an earlier result, the row rides
  on that one and is read before the calls it came after. That a result may be missing is expected (`rebuild.go` 139-145).

Others are further instances, each with a configuration that TLC ends with a counterexample.

- `CLIRounds_supersede.cfg` (`manager.go` 148): a higher fence that enters between a round's fence check and its
  `beginRound` finds no `cancelRound` and aborts nothing. The results still come in order (`DeliveredInFenceOrder`), but
  the older round runs to its end first.
- `CLIRounds_busy.cfg` (`manager.go` 149): a session that becomes idle wakes nobody who waits for a slot, so a round can
  be told `ErrBusy` after 30 s beside an idle session it could evict.
- `SessionLedger_restart.cfg` (`ledger.go` 124): in a process that has not served a session yet the sweep removes its old
  state without a lock, and the first command of that session may be running by then.
- `OperationStream_stop.cfg` (`client.go` 128): `serve` puts `Deregister` on the queue without watching anything else.
  When the writer has stopped with the queue full, the daemon does not return from SIGTERM.
- `OperationStream_late.cfg` (`client.go` 330): a file operation whose deadline passes while it waits for its session's
  mutex is carried out.
- `CodexThread_dirty.cfg` (`thread.go` 315): `completeRound` sets the state after the round ended. What made the session
  dirty meanwhile is overwritten, and a thread with an unreadable frame passes for a clean one.
- `ModBridge_overlap.cfg` (`bridge.go` 323): of two polls that overlap the second to take a command passes the first one
  over. The mod has one poll at a time, but one it abandoned may still wait in the daemon.
- `DaemonLife_overlap.cfg` (`selfupdate.go` 148): an update by hand beside the unit's shares the partial file, and a torn
  binary may be installed.

Stated in the modules, with a constant or a property changed:

- `ClaudeSession`, `StrayTurnsEndNoRound`: a turn Claude Code starts on its own may end the next round, if its report
  comes after that round has opened. `EndedByItsOwnTurn` shows that it takes such a turn.
- `ManagedCLI`, `PruneSparesInstalls`: pruning at the start of the daemon deletes the staging folder of a command that
  installs. The install fails; no bad build is run.
- `DaemonLife`, `EnrolsUntilStopped`: a login that cannot be saved ends the daemon and the token is spent.

Seen while modelling, and excepted by the property that would otherwise forbid it:

- `Thread.Close` (`thread.go` 422-424) returns the carried usage and not the carried events. An event of a declined native
  request, or of another kind, that comes after `TakeCarried`, or after the end of a one-shot round (547-551), is lost.
  `ReportsConserved` excepts events (`LosesEventsOnly`) and shows that usage is not lost so.
- `enrolFromTokenFile` says that a refused token is not presented again until the next boot (`tokenlogin.go` 41-43). One
  hash is kept, so of two tokens refused in turn each is presented again when the file goes back to it.
  `NotPresentedAgain` speaks of the last one.

## 6. Not modelled

- Detection of harnesses and their HTTP servers (`harness/discovery.go`, `harness/claude.go`, `codex.go`): programs are
  looked for and asked for their version, and nothing is kept between two looks.
- Policy (`policy/`), file and shell operations (`files/`, `shellprocess/`): one call of the operating system each, under
  the session's mutex that `SessionLedger` has; the properties of paths and patterns are matters of the file system.
- The validation of a request (`cliround/wire.go`), which accepts or rejects it whole before anything happens, and the
  splitting of transcripts, whose lengths matter and whose order does not change.
- Device login over the network, proofs of possession, dialling, and the lengths of backoffs: what they return is an
  input of `DaemonLife`.
- The command line beyond the processes above (`doctor.go`, `ws.go`, `bench.go`), configuration, packaging, the tool that
  writes pins (`cmd/clipins`), and generated protocol code.
- Within modelled components: several conversations on one app-server, terminal rejections of the stream, markers with
  malformed names, the encoding of every message.

## 7. Plan

Models: several conversations on one app-server, and the chunks of a transcript on the stream.
