# Formal model of Autoplan

Autoplan plans and runs coding work for projects on a developer's machine: an
intake (a requirement or a piece of feedback) becomes a plan with tasks, agents
work on the tasks, a validation accepts the result. The desktop application
(Electron, `src/src`) does all of it in its main process; a Go daemon
(`src/backend`) takes the same work over, behind HTTP and MCP, with commands
persisted as *operations* in SQLite and run on a per-project actor over a shared
worker pool. Both are in use. This directory holds TLA+ models of their core,
TLC configurations that check them on small instances, and theorems checked by
TLAPS.

Go paths below are relative to `src/backend/internal`, desktop paths to
`src/src`, unless they start with `src/`.

## 1. The system

| Part | State it keeps | Operations | Hard behaviour | What makes it correct |
|---|---|---|---|---|
| Fair queue (`runtime/scheduler/queue.go`) | a ring of projects and a FIFO per project | Push, Pop, Remove, Drain | removal in the middle of a turn | ring and FIFOs agree; nobody is overtaken twice |
| Worker pool (`worker_pool.go`) | queue, active items, counters `reserved`, `inFlight`, condition variable | Reserve, Release, Start, Cancel, Close, the workers | lost wake-ups, cancel against take, close against everything | capacity, one owner, one result, cancelled work never runs |
| Actors and manager (`actor.go`, `manager.go`) | a bounded mailbox, the active commands, the actors of the projects | Submit, Cancel, callbacks, launch, completion, Close, RemoveProject | cancellation at every point, removal and replacement, shutdown | the callback contract; every command answered; actors end |
| Loop service (`application/loop`, `domain/loop`) | active run, plan-stop intents, timers; the loop row | Execute start, stop, run; timers; cancellation of a run or a plan | callbacks against clients, timers and callers that leave | one run at a time, timers follow the row, no fake running operation |
| Operation store (`domain/operation`, `application/operations`, `repository/sqlite/operations.go`) | one versioned row per operation | create or reuse, claim, complete, request and confirm cancellation, recovery | stale versions, crash and restart | one terminal status; recovery leaves nothing running |
| Event outbox and bus (`runtime/eventbus`, `repository/sqlite/event_outbox.go`) | committed events, publication marks, watermarks, subscriptions | append, dispatch, acknowledge, prune, subscribe, deliver | crash between publish and acknowledge, replay/live boundary, slow consumers | nothing lost, repeated or reordered at a subscriber |
| Renderer event client (`renderer/lib/api/eventStream.ts`, `renderer/hooks/useSnapshot.ts`) | watermark, resync flag, retry and refresh timers, the snapshot shown | connect, receive, resync, refresh | events that arrive while a snapshot is read | every change reaches the view |
| Desktop loop (`loopService.js`, `loop/`) | busy flag, list of operations with their child processes; rows of plans, tasks, intakes; plan files | run, single task, batch; stop, interrupt, resume, redo, re-execute, delete, recreate, restart | every await of a run against every request of the user | one agent at a time in a workspace, no row that runs without a function, nothing runs for what was deleted |
| Desktop chat (`chat/chatController.js`, `chat/chatQueue.js`, `main.js`) | a controller per conversation with its queue; rows of messages | send, stop, clear, cancel, edit, delete | a turn that awaits against all of them, restart | one turn at a time, in order, once; none left waiting |
| Chat view (`renderer/hooks/useChat.ts`) | messages, streaming state | send, stop, clear; chunk and done events | events of one turn against the state of the next | what is stored is shown |
| Go chat (`application/chat`), processes (`runtime/process`), terminals (`runtime/terminal`) | messages; leases, processes | claim, stop, recover; acquire, run, stop, close a project | kill against exit, shutdown against acquire | FIFO; bounded leases, no orphan |
| Lifecycle, instance lock (`runtime/lifecycle`, `platform/instance`) | resources, owner ports | shutdown in reverse order, acquire, close | two daemons on one database | one owner |
| Executors, scripts, daemon supervisor, updates (`executors`, `terminal`, `daemon`, `updateChecker.js` and the Go services) | runs, child processes | start, watch, stop | processes that exit by themselves | one run, no orphan |
| Other services, HTTP, MCP, tools, configuration, migration, views | rows, none, or one-shot | single transactions, translation, presentation | | |

How they interact. In the daemon, `httpapi` and `mcp` call the application
services. The loop service hands `Manager.Submit` a command with callbacks
`Start`, `Work`, `Cancel`, `Complete`; the project's actor calls `Start`, reserves
a slot of the pool before it, hands `Work` to the pool, and gets the result back
through its mailbox to call `Complete`. The callbacks write the operation and the
loop row; each such transaction appends to the outbox, which the dispatcher
publishes to subscribers. The renderer holds one event stream per project and
reads a new snapshot when events arrive.

On the desktop, IPC handlers of `main.js` call `LoopService` and the chat
controllers directly. Everything runs on one thread: two pieces of code interleave
only where one awaits a child process, a hook, a model or a timer. Rows and plan
files are written synchronously, so a crash falls between two such pieces.

## 2. Modules

| Module | Models | State and actions |
|---|---|---|
| `FairQueue` | `queue.go` | pure operators over `[turns, waiting]` |
| `FairTurns` | the promise of round-robin | history of turns beside a `WorkerPool` |
| `WorkerPool` | `worker_pool.go` | one action per critical section of the mutex; the condition variable is the set of workers waiting on it |
| `CommandContract` | what the scheduler promises its users (abstract specification) | which callbacks were called, where a command is, its answer |
| `ProjectActor` | `actor.go`, `manager.go` over `WorkerPool` | one action per critical section or callback; implements `CommandContract` |
| `Operation` | the transactions on one operation row | operators that return the row and whether they succeeded |
| `LoopRuntime` | `application/loop` over `Operation` and `CommandContract` | one action per store transaction, mutex section or callback boundary |
| `EventDelivery` | `runtime/eventbus`, `event_outbox.go`, `eventStream.ts`, `useSnapshot.ts` | the outbox, one subscription, one stream and one hook; one action per critical section, response or timer |
| `NodeLoop` | `loopService.js`, `loop/` | rows, plan lines and what each function awaits; one action per piece of code between two awaits |
| `ChatController` | `chatController.js`, `chatQueue.js`, the chat requests of `main.js` | rows, the controller with its queue, what each turn awaits; one action per piece between two awaits |
| `ChatView` | `useChat.ts` over `ChatController` | the view and the two ordered channels of the IPC |
| `WorkerPoolProofs` | theorems about `FairQueue` and `WorkerPool` | |
| `FairTurnsProofs` | theorems about `FairTurns`, over `WorkerPoolProofs` | |
| `ProjectActorProofs` | the actors use the pool as its clients, their types | |
| `ActorContractProofs` | the actors' invariants and the refinement of `CommandContract`, over `ProjectActorProofs` | |
| `LoopRuntimeProofs`, `NodeLoopProofs`, `EventDeliveryProofs`, `ChatControllerProofs` | theorems about the module they are named for | |
| `MC*` | instances for TLC | |

`ProjectActor` extends `WorkerPool`, which extends `FairQueue`: the composition
is by conjunction, the actors call the pool's actions. `LoopRuntime` does not
extend `ProjectActor`: it uses the *contract*, instantiated with its own
variables, so that each callback of the loop is a step the contract allows. That
`ProjectActor` keeps the contract is the property `KeepsContract`. The two
together are an assume-guarantee argument: what is checked of the loop service
holds over any scheduler that keeps the contract and runs one callback of a
project at a time. `ChatView` extends `ChatController` and takes its steps as the
main process's side of the two channels.

Operators whose comment begins with *Fault* are seeded faults. No specification
uses them; each is a plausible error that must break a property when it
replaces the operator after it, which shows that the property can fail.

### Correspondence and abstractions

Scheduler.

- An item of the pool is a command with work; contexts are the flags
  `callerDone` (the caller's or the handle's cancellation) and the state
  `cancelling`.
- `releaseReservation` and `finishLocked` clamp counters at zero; the model does
  not, and `TypeOK` and `CountersRight` show that the clamps never apply.
- In `startReserved` the test of the context and the critical section are one
  step: a cancellation between them is the same as one after it. The two reads
  of the context in `Actor.execute` are one for the same reason.
- `Actor.finish` removes the command and sends the result in one step, since
  nobody can see the state between them but through the result.
- `Actor.Close` reads `request.work` without the lock under which `execute` sets
  it; the model lets it see either value.

Loop service.

- The actor's callback is a sequence of steps labelled by `at`; another callback
  of the project cannot begin in between (`Busy`), everything else can.
- Every store call may fail: always on a cancelled context (`gone`), and at most
  `MaxFaults` times for other reasons. A version conflict on the loop row behaves
  like a failed call. Reading and saving that row is one step.
- `cancelActiveOperation` is three steps: look up the active run, run the
  transaction, mark the run and cancel its context. The version it gives the
  transaction is read with the lookup. The code reads it just after the unlock,
  without synchronisation; in that window the version only changes when another
  cancellation was recorded or the run ended, and then the transaction is an
  accepted no-op whatever the version.
- `complete` runs on a context without cancellation, so its calls fail only by a
  fault. The loop's `Cancel` callback is empty and is left out.
- `request.submission` is assigned after the actor may have started: `Mark` finds
  it or not (`exec = "accepted"`).
- The runner is external: it may claim any plans and return success, an error,
  or, once its context is cancelled, a cancellation.
- Validation, digests, authorisation, timestamps, results and wording are left
  out: no property tells them apart. The loop's interval is taken as positive.

Event delivery.

- One project, whose event ids are its revisions: the code compares both, and
  they differ only by a gap other projects make.
- An event is its number; a snapshot is the number of the newest change in it,
  read when the daemon answers, shown when the response arrives.
- A replay is written as the interval that begins after the cursor: the
  subscription is offered the stored rows after the cursor and resyncs at a gap
  (`acceptPersistentLocked`), so what it accepts is such an interval.
- A cursor may be absent, valid or older than what retention kept. Retention is
  one transaction of a batch; rows too old are some of those committed before the
  view was opened.
- A crash of the daemon closes the subscription and forgets what the dispatcher
  had in hand. Lost connections, failed reads and failed acknowledgements count
  against `MaxFaults`. Errors after which the stream is not retried, and a first
  snapshot that fails (it is not retried, `useSnapshot.ts:199`), are left out.

Desktop loop.

- A *worker* is a plan or a task: `job[w]` says what the function at work for it
  awaits, whether its child process was sent a signal, the attempts made.
- A plan file is the mark of each of its lines: absent, open or done. Scans and
  refreshes read it, agents and the application write it, the plan guard restores
  it. Texts, prompts, sessions, logs and events are left out.
- A stop sends a signal: the child may still end with any exit code, or well.
- `Apart` holds the pairs of tasks whose scopes do not meet: a batch takes two
  tasks at once only when they are such a pair.
- Resuming a plan is possible whatever its status, as `resumePlan` asks for none. A
  task is redone when it is completed; that an accepted one may be redone too goes
  with the acceptance marks, which are left out. An intake has one link at a time:
  phased plans, whose links are many, are left out.
- Ids of plans grow. `Spare` gives a model id again only when nothing works for
  the former plan; the hook after a generation ends before the validation of a
  plan recreated under it.

Desktop chat.

- A message is the id of its row; its content is *as sent* or *edited*. The rows
  of answers are kept in order with the turn they belong to and their status;
  of tool and error rows only that a turn has some.
- Rows are restored in the order of their numbers, as the statement that reads
  them orders them by id (`Ascending`).
- The provider is chosen at each turn: the cached configuration is dropped
  whenever the user changes it. The tool calls of one answer run as one. Without
  an API key a turn fails before its first await, inside `pump`.
- The checks of `active` after each await are left out: with one turn they never
  fire, which is what `QueueServed` shows.
- `ChatView` leaves chunks out: they change what is shown of a turn while the
  view streams, and are dropped when it does not.

## 3. Runs

| Run | Instance | Question |
|---|---|---|
| `pool` | 2 workers, 3 items, 2 projects, with fairness | all safety of the pool, close included; overtaking is bounded; every queued item finishes, `Close` ends |
| `actor` | 1 actor, 1 worker, a command with work and one without, with fairness | the actors implement the contract; mailbox; queued cancellation; every command is answered, closed actors end |
| `actor_remove` | a project removed and used again: 2 actors, 1 slot | capacity, reservations, active commands; an actor that ended leaves nothing behind |
| `loop` | 2 starts, a stop, a tick | timers follow the row, nothing is left running |
| `loop_cancel` | 2 runs, a plan stop, an endpoint cancellation, a caller that leaves, a store fault | one run; who may settle an operation |
| `loop_live` | a run, its retry, a stop, with fairness | operations end, callers return |
| `events` | 3 events, 1 fault, 1 later mount, a buffer of one, with fairness | nothing lost at the boundary; a resync is covered by its snapshot; every change reaches the view |
| `resync_ends` | 3 events, retention that keeps one | *violated*: see findings |
| `node_loop` | an intake, a plan of two tasks, a second plan it can be given, all requests | no row runs without a function, one agent at a time, nothing runs for what was deleted |
| `node_live` | one task fewer, with fairness | the busy flag of a project falls |
| `chat` | 3 messages, 2 rounds, 1 crash, with fairness | one turn at a time, in order and once; every message gets its turn |
| `chat_view` | 2 messages and no button pressed, with fairness | *violated*: see findings |

Why the bounds are enough. The pool needs a worker that waits, one that works
and an item in the queue at once; two workers and three items of two projects
give each of these with every order of cancellation and close around it, and a
queue in which a project has two items. The hazards of the actors lie between one
command with work and its neighbour in the mailbox, and, for removal, between two
actors that want one slot. The loop service serialises its callbacks, so a
hazard involves a callback and one or two of: a client, a timer, a stop, a second
run. For the events, three are what it takes to have one delivered, one on its
way and one that the buffer, the replay limit or retention leaves out; one fault
may fall anywhere, a crash between publication and acknowledgement included; a
view opened later has events from before it. The desktop loop needs two tasks of one plan for
a batch and for a retry beside a sibling, and a second plan for what
interruption, deletion and recreation leave behind; one retry, one repair and one
failed generation each reach the step after the last attempt. The chat needs a
turn that runs, one that waits behind it and one that is sent, cleared or
cancelled while the second begins; two rounds are a round that is the last one
and one that is not; a crash may fall at any await.

Bounds by name: the sets of requests (`Command`, `Automatic`, `Item`), `MaxRest`,
`MaxFaults`, `MaxAsks` in the scheduler and the loop service; `MaxEvents`,
`MaxFaults`, `MaxMounts` in `EventDelivery`, whose `Buffer`, `ReplayLimit`, `Keep`
and `Batch` are constants of the code made small; `Spare`, `MaxFails`, `Retries`
and `Repairs` in `NodeLoop`, where only the first bounds what the code does not;
`MaxMessages`, `MaxFaults`, `MaxPresses` in the chat, where `MaxRounds` is the code's.
Deadlock checking is off where the system comes to rest when its requests are used
up or it is shut down; the properties under fairness say that it does not rest early.
The desktop loop never rests, and there it is on.

Fairness. Goroutines are scheduled: weak fairness on each worker, actor,
closer, `Execute` and timer goroutine. `Work` and the runner return, because the
code gives them a context and waits for them without limit. For the callbacks of a
project, fairness is on their disjunction: they share one goroutine. The
dispatcher goroutine runs, the stream's timers fire, and connections, responses
and snapshot reads complete or fail, with finitely many failures. On the desktop,
child processes and hooks end (each has a timeout), model streams, tools and the
title request end, and IPC messages are delivered; a daemon that crashed is started again, which is the
user's doing; the chat sets no timeout on a
stream, so that a stream ends is an assumption about the provider's connection. Nobody has to submit, cancel,
send, leave, stop, delete or close, and nothing has to crash.

`PlanStopHonoured` speaks of executions without a store fault: the code drops
the error of that cancellation. It covers both orders: a stop that finds the run
without a plan leaves word, one that finds the run at its plan cancels it, and `aim`
remembers which run a stop found. A stop that finds the run at another plan does
nothing, in the code as here, and the property asks nothing for it. `loop`, `loop_live` take callers that wait and a
store that works, for the reason section 4 gives; `CancelledNeverSucceeds` is
stronger than `src/docs/migration/p10/protocol.md:32`, which allows a completion
that commits first to end as succeeded. `EveryMessageTurns` speaks of a message
whose controller lives: after a crash, a queued message waits for the next one sent
to its conversation.

## 4. Findings

1. **A resynchronised stream can be sent to resync again for ever**
   (`resync_ends`). `completeResync` forgets the cursor and reconnects at once. A
   stream without a cursor is served from the retained history, and the
   subscription refuses a history whose first event is not revision 1. Once
   retention (30 days, 2000 events a project) deleted the first event of a
   project, its renderer alternates between connection and snapshot without
   delay. The view stays right, by snapshots alone; `EventsReachTheView` holds.
2. **The answer of a queued message is not shown** (`chat_view`). The controller
   starts the next turn before it tells the end of the last one. The view takes
   that end for the end of everything: it drops the chunks of the next turn and
   ignores its `chat:done`, and so never reloads the history that holds the answer.
   The run lets the user do nothing but send two messages.

### Known disagreements, not kept as runs

TLC shows each with the constants given; the definitions are in the modules.

- `NoFakeRunning` of `LoopRuntime` fails with `Command = {run}`, `Impatient = {run}`,
  no faults: a caller that leaves while the start callback works cancels the
  context of its store calls, the one that would fail the operation included; a
  little later it makes the actor drop the work without `Complete`, and the run
  owns the project for ever. `src/docs/plan/plan_requirement_18_20260711-140755.md:38`
  promises one definite end and "失败不会留下假 running" (a failure leaves no fake
  running). `TimerFollowsLoop` fails for the same reason with `Impatient = {start}`.
  `NoFakeRunning` also fails with `Stopper = {g1}` and no impatient caller: the stop
  of a plan that falls between the copy `complete` makes and its last call moves the
  version, and that call meets a conflict. The hypotheses of `TimerIsRight` and
  `NothingIsLeftRunning` (section 5) exclude these cases and nothing else.
- `CancellationIsDecided` of `LoopRuntime` fails with `Command = {run}`,
  `MaxRest = 1`: a cancellation through the operations endpoint records the
  request, which moves the row's version, and tells nobody; the run settles with
  the version it knew, meets a conflict and drops it.
  `src/docs/migration/p10/protocol.md:30` says that the context is cancelled too.
  It also fails with `Stopper = {g1}`, `MaxRest = 0`, when the cancellation of a
  plan falls between the copy `complete` makes and its last call.
- `CallersReturn` fails with `MaxFaults = 1`: an actor that has no slot answers
  without the callback that fills the reply, and the timer goroutine waits without
  a deadline.
- `AnswersShown` of `ChatView` fails in another way with one message and
  `MaxPresses = 1`: the reply to a clear that was asked before the message, or during
  its turn, ends the streaming state of the view (`renderer/hooks/useChat.ts:650`),
  and the `chat:done` of the turn is ignored for the same reason as in finding 2.
- `StopHonoured` of `NodeLoop` fails with the constants of `MCNodeLoop.cfg`: after
  the pause before a retry only the existence of the task is asked
  (`loop/taskExecution.js:207`), so a plan stopped in that pause has its blocked
  task run again, against
  `src/docs/plan/plan_requirement_50_20260703-173547.md:29`.

### Seen on the way

Daemon: `Recover` lists at most 200 operations of a project; a crash after its
commit loses the claims; `Service.RemoveProject` of the loop has no caller outside
tests, so a late tick can create an actor for a deleted project; a run cancelled by
a plan stop skips `FinishRun` and leaves the phase at `scan`.

Desktop loop: a child that ends by a signal has exit code `null`, which
`waitForChild` takes for 0 (`loop/runtime.js:552`), so on POSIX a killed or
timed-out agent can count as done; a redone task is completed again when its line in the
file is still ticked; a stop while the hook before a validation runs does not keep the
check from starting; recreating a plan generates beside a run that is busy, against the
comment at `loopService.js:461`; an intake deleted while its plan is generated
leaves a plan without an intake; agents of a crashed process are forgotten and may
still write (`loop/runtime.js:147`).

Desktop chat: a tool call that ends after its conversation was deleted stores its
result for a conversation that is gone, which the stop at `main.js:1890` is there
to prevent; `stop` marks the newest finished answer as aborted even when it belongs
to an earlier turn, and a second stop marks yet another
(`chat/chatController.js:594`); `chat:clear` deletes the rows of messages whose
items still wait, and their turns then run without them; a crash loses the turn in
progress, whose row is already done.

Views: the shown revision may go back when the responses of two snapshot requests
cross, until the next one.

## 5. Proofs

Proved by TLAPS for every value of the constants. Every invariant and every
action property of the passing runs is stated by a theorem; each inductive
invariant was checked by TLC on the instance of its run too.

- **The pool** (`WorkerPoolProofs`). `PoolInvariant` proves the inductive
  invariant `PoolInv`: the types and counters, ownership, results, the queue. The
  counters alone are not inductive: that a give-back never goes below zero needs
  that the counters are the cardinalities of the sets of items in certain states,
  and that an item in a worker's hands is in one of them; that an item is not
  taken twice needs that the ring and the per-project lists represent a set
  without duplicates. The queue's share is proved first (`Represents` is kept by
  Push, Pop, Remove and Drain), so that the pool's proof never opens a sequence.
  The pool's safety properties follow from it, with four that no run repeats: a
  result says started exactly if the work was called (`PoolStartedIsTrue`), work
  is never called once it was cancelled (`PoolCancelledNeverInvoked`), no worker
  ends before Close, and nothing waits in a closed pool.
- **Its turns** (`FairTurnsProofs`). `TurnsAreFair`: no project gets two turns while
  another waits. The bound says nothing of what comes next; what a step needs is
  `Turned`, that a project that had its turn while another waits stands behind it in
  the ring, however often it left the queue and came back.
- **The scheduler uses the pool** (`ProjectActorProofs`). `ActorsUsePool`: every
  step of the actors, their closers and the manager is a step of the pool's
  clients or leaves the pool alone. It rests on `ActorsHandCommands`, that actors
  hand the pool only commands they hold. The pool's theorems then hold of the
  composed system (`SchedulerBounded`, `SchedulerOneOwner`, `SchedulerOneResult`),
  and `ActorsTyped` adds its own types.
- **The actors** (`ActorContractProofs`). `ActorsInvariant` proves `Whole`: to the
  types and `PoolInv` it adds that a command belongs to the actor it was routed to
  (`Ours`), that an actor's commands carry different numbers and stand in its
  inbox in their order (`Numbered`, `InLine`), that the place of a command, the
  callbacks made for it and what the pool holds for it tell one story (`Stories`),
  that at most one completion is on its way (`Once`), and that a goroutine that
  ends has answered everything (`Ended`). `ReservationsAreOwned`, `ActiveIsRight`
  and `ExitLeavesNothing` follow; `MailboxBounded` needs the types only.
- **The contract.** `ActorsKeepContract`: the scheduler implements
  `CommandContract`, which is what `LoopRuntime` assumes of it. Initial states map to
  initial states, and each action to the contract's step of that callback, answer or
  cancellation, or to a stutter. `Whole` is needed for the guards of the contract's
  steps: a callback is made once, in order, and never after the answer.
  `QueuedNeverStarts` is a consequence within the same invariant: a command cancelled
  in the mailbox calls no callback.
- **The loop service** (`LoopRuntimeProofs`). `FirstOutcomeStays`: the first
  terminal status of an operation is its last, for any requests, retries,
  cancellations and failures; each transaction keeps a terminal row, each action
  changes one row by one transaction. `OneRunWorks` and the theorems after it rest on
  a chain of parts, each proved with those before it. `Placed`: where each callback
  is, and that `service.active` names the run that owns the project. `OneHolder`,
  `HoldersRun`: of the requests for one operation only its creator works on it, and
  the row is running while it does (`RunsWorkOnRunning`). `Known`: the version a run
  will settle with is that of its row unless somebody recorded a cancellation, which
  is why a late success meets a conflict (`CancelledDoesNotSucceed`). `Stopping`: a
  run that claims a plan whose stop was asked before cancels itself. `Heeding`: a plan
  stop that found the run has left word for its claim or goes on cancelling it, and
  its transaction is accepted, because it knows the version of that run. Together
  they cover a stop before the claim and one after it (`PlanStopIsHonoured`).
- **The loop's timer and its rows, when nothing interferes.** Two promises do not
  hold without conditions (section 4), and the theorems name these conditions.
  `TimerIsRight`, for a store that works, clients that do not use the operations
  endpoint and starts whose callers wait: a schedule is armed exactly if the row says
  running, but for the callback between the two (`Timed`; `Quiet` says that one
  callback runs at a time, only runs are cancelled, and a start keeps its operation
  and its context). `NothingIsLeftRunning`, for callers that all wait
  and no plan stops besides: whenever an operation is running, somebody will settle
  it (`Calm`). Its parts say that the active run owns the project, that a
  stop aims at it while it works and waits for it, and that a run knows its version
  or is about to be told. Starts, stops, runs, retries, ticks and every interleaving
  of them remain.
- **The desktop loop** (`NodeLoopProofs`). `NodeTypesHold` needs `Rooted`: task rows
  live no longer than their plan and links no longer than both their ends, which is
  what makes a deleted id mean nothing to a function that still waits.
  `NothingForDeleted` (`AllWanted`): a child that works for a plan that is gone was
  sent a signal. `RunningRowsWorked` (`Backed`): a row that says running has a
  function at work on it, through stops, redos, deletions and restarts.
  `OneCallerWrites` (`Awaits`): what each stage of the busy run awaits; two agents at
  once are the two of a pair whose scopes do not meet.
- **Event delivery** (`EventDeliveryProofs`). `EventsInvariant` proves `EventInv`.
  `BoundaryIsKept`: what a subscription still has to deliver is the interval from the
  client's watermark to the newest event offered, so that nothing is lost, repeated
  or reordered at the boundary of replay and live events. That is inductive with
  `InOrder` (the dispatcher offers in the order of the outbox, and published rows
  have no gap before them) and `Connected` (whose events the open connection
  carries). `ResyncIsCovered`: a stream resumes over a snapshot at least as new as
  what it missed; it needs `Resyncing`, which request may complete a resync.
- **The desktop chat** (`ChatControllerProofs`). `ChatInvariant` proves `ChatInv`:
  one agent loop runs and it is that of the newest message started (`OneLoop`); the
  queue is in line and its processing item is that turn's (`Ordered`); a
  conversation has its controller exactly while a turn runs (`Controlled`); every
  queued row is a waiting item of the live controller (`Restored`). `QueueIsServed`
  is that a controller with waiting items has a turn, `TurnsAreInOrder` that turns
  come in the order of sending and at most once.

Assumptions: those named in the modules (`PoolAssumption`, `ItemAssumption`,
`ActorAssumption`, `LoopAssumption`, `NodeAssumption`, `DeliveryAssumption`,
`ChatAssumption`), on the constants only: limits are naturals, keys name operations of
one kind, markers are outside the sets they mark, plans are not tasks, a pair of
`Apart` is two tasks. The two conditional theorems of the loop service add what they
say.

Model-checked only: what is stated under fairness (`EveryItemFinishes`,
`CloseCompletes`, `EveryCommandAnswered`, `ClosedActorEnds`, `EveryCommandSettles`,
`CallersReturn`, `RunEnds`, `EventsReachTheView`, `EveryMessageTurns`), since the
prover has no ENABLED; the chat view, of which only a violated property is stated;
the other finding.

## 6. Not modelled

The parts that PROJECT.json lists as `not_modelled`, with the reason. Of the
modelled ones: closing the loop service, startup recovery, its `RemoveProject` and
command bridge; event streams filtered by operation, chat streams, ephemeral
events and the snapshots the local desktop pushes; of the desktop loop several
batches in a sequence, the serial and builtin generation paths, phased plans,
session resumption, acceptance marks, reordering, scheduled scripts, two projects
in one workspace and the life of processes after a crash; of the chat, exceptions
of the database inside `pump`, the resumption of Codex sessions (that it may end an
aborted turn with an answer, `chat/codexChatBackend.js:72`, is allowed at any turn), the maintenance mode, chunks and switching
conversations. Waits of real time, sizes and contents of data are outside all
models.

The larger part of the source is views, translation, prompts, configuration,
statements and tests, in which no two steps interleave; the map covers the control
of the parts above and stays a small share of all lines for that reason.

## 7. Plan

Done: the scheduler with its refinement, the loop service over the contract, event
delivery, the desktop loop, the desktop chat and its view, and the proofs of every
safety property of these. Left, in this order:

1. Proofs: that each callback of `LoopRuntime` is a step `CommandContract` allows,
   so that the two halves of the assume-guarantee argument meet in theorems; the
   invariants of `ChatView` that its run does not state; the terminal statuses of a
   claim that is retried after recovery.
2. `StartupRecovery` over `Operation`: crash at every step, claims, resumption.
3. Runs and processes: executors, scripts, the process runner and terminals.
4. The daemon supervisor of the desktop process and the update checker.
5. The Go chat queue.
