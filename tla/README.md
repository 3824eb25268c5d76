# Verification of hesper

Hesper is an Electron desktop application (`src/hesper-desktop`) in which a user talks to
LLM agents. This directory holds TLA+ models of the parts of it whose correctness depends on
what happens between two `await`s, the TLC configurations that check them, and TLAPS proofs
of the properties that matter most. Paths below are relative to `src/hesper-desktop` and line
numbers refer to the commit the models were written from.

| Module | What it is |
|---|---|
| `AgentRuntime` | one session of the run queue: enqueue, executeRun, stop calls |
| `RunService` | abstract: what the users of a session are promised |
| `AgentRuntimeProofs` | types, one active run, bounded adapter calls, silence after a stop |
| `AgentRuntimeOutcomeProofs` | start order, ownership of queued runs, terminal outcomes |
| `AgentRuntimeServiceProofs` | that the session implements `RunService`; nobody is stranded |
| `WorkerAgents` | the workers of one parent run: spawn, execution, cancellation |
| `WorkerAgentsProofs` | types, the limit, one outcome, drained registries, cancels that arrive |
| `SerialStore` | abstract: what callers of the database are promised |
| `SqliteGate` | the shared connection, its gate, transactions, maintenance, quitting |
| `SqliteGateProofs` | types, call order, quit, no self-deadlock, and that the gate implements `SerialStore` |
| `SshExecution` | one SSH execution: rows, ssh2 adapter, callback queue, operation queue, timer |
| `SshExecutionProofs` | types, stop on error, settled results, complete output, what may be late |
| `CodexOAuth` | connecting an account: dialog, IPC handler, gateway flows, saved connection |
| `CodexOAuthProofs` | types, the callback port, the dialog, all-or-nothing saves, timers |
| `SessionView` | one conversation in the window: sends, events, answers, history loading |
| `SessionViewProofs` | types, the history, and that the window ends up showing the database |
| `MC*` and `*.cfg` | the instances TLC checks |

## 1. Inventory

### How the parts interact

The renderer (React) calls the main process over IPC. `ipc-handlers.ts` validates a call and
dispatches it to the services of `packages/app-core`, to the `AgentRuntime`
(`packages/agent-runtime`) or to OS-facing helpers. The runtime drives an adapter around the
third-party `pi` agent core, which emits events and executes tools through
`packages/tools`; a tool may spawn worker agents through the `WorkerAgentService`, which has
its own child runs. Everything persistent goes through the repositories of
`packages/persistence` to a single SQLite connection. Events are stored and then broadcast to
the renderer by a listener that itself awaits the database (`ipc-handlers.ts` 225-231).

All of this is one JavaScript thread. Interleaving happens only at an `await`, but there are
many of them, and the order in which independent callers resume is nobody's intention.

### Components

| Component | State | Operations | What makes it correct | Modelled |
|---|---|---|---|---|
| **AgentRuntime** (`runtime.ts`, `retry-policy.ts`) | per-session lock chain, `SessionState` (running, active run, queue, waiters), `cancelledRuns`, `terminatedRuns`, abort controllers; persisted runs and events | `enqueue`, `executeRun`, `finishRun`, `cancelRun`, `failRun`, `waitForIdle` | one run at a time, FIFO, every accepted run is executed or stopped, a stop wins and silences the run, retries stay in budget | `AgentRuntime` |
| **WorkerAgentService** | spawn chains, `activeWorkers`, `finalizedChildRuns`, abort controllers; persisted invocations and child runs | `spawn`, `executeChildRun`, `handleChildEvent`, `cancel`, `wait`, `list` | limit per parent run, one outcome per child, registries drain, cancellation ends the child | `WorkerAgents` |
| **SQLite gate** (`sqlite-adapter.ts`, `node-sqlite-adapter.ts`) | promise tail, active transaction token, async-local store | `run/get/all`, `transaction`, `checkpoint`, `vacuum`, `close` | statements of others never join a transaction, call order, no self-deadlock | `SqliteGate` |
| **Quit and maintenance** (`main.ts`, `before-quit.ts`, `database-maintenance-scheduler.ts`) | flags of the quit sequence, timers, `maintenanceRunning` | before-quit, checkpoint, vacuum | nothing acknowledged is lost, tasks do not overlap | `SqliteGate` (start-up is not) |
| **Repositories and schema** | tables | CRUD, multi-statement saves | multi-statement changes are atomic | only as the calls of `SqliteGate` |
| Save queue and scheduler | — | — | — | dead in the application: `main.ts` 55-65 replaced every use by a no-op; tests only |
| Sessions, conversations, categories | session rows | read-modify-write updates, `deleteGraph`, mark read | no lost update, no resurrection after delete | messages and run lists in `SessionView`; the rows are not |
| IPC handlers, preload, service container | listener lists | validation, dispatch, wiring | ordering of message save and enqueue, compensation by `failRun` | the agent handlers in `AgentRuntime` and `SessionView`, the OAuth handlers in `CodexOAuth` |
| Codex OAuth gateway | authorizations, loopback server, timers | start, callback, poll, cancel, consume | the port is given back, no flow waits for ever, the dialog shows its own session, a connection is saved whole | `CodexOAuth` |
| SSH configuration and execution | keys, servers, executions, operation queue per execution | create, delete, execute, output, exit, timeout, cancel | one terminal status, output in order, nothing after a failed command, no server without its key | `SshExecution`; keys and servers are not |
| Skill files | in-flight refresh, scan state | refresh, auto-scan, save | a change is seen by a later refresh | no |
| Tool runner, builtin tools, pi adapter | step maps | event mapping, tool start and end | a step that starts ends once | no; the adapter is the environment of both runtime modules |
| Context assembly and compaction | none (pure) | compact, budget | output fits the budget | outcome only, in `AgentRuntime` |
| Providers and credentials | provider, model and credential rows | CRUD, save an OAuth connection with rollback | a connection is whole or absent | the OAuth connection in `CodexOAuth` |
| Git service, roles, settings, prompts, attachments, previews, titles, model resolution | none between calls beyond their rows | CRUD, processes, files, text | sequential | no |
| Renderer and UI | the store (`app-store.tsx`), effects and refs of the panels | reduce events and answers, load histories, send, stop, authorize | the window ends up showing what the database holds | the conversation in `SessionView`, the authorization dialog in `CodexOAuth` |
| Shared domain and schemas | none | types, validation | — | no |

### Where it is hard

* **enqueue against the end of a run.** `enqueue` claims or captures the session state, then
  awaits a save and the listeners of `run.created` before it pushes (`runtime.ts` 218-229);
  `finishRun` hands over or deletes that state (349-379).
* **stop calls.** `cancelRun` and `failRun` read, set a flag, save, broadcast and abort, with
  an `await` after each, against an `executeRun` that saves whole rows from local copies
  (643-800) and may be between two adapter calls, where there is nothing to abort.
* **retries.** Two kinds with two budgets, and a save of `running` in the middle.
* **workers.** The end of a child and any number of cancel calls race to finalize it; the
  invocation record is read, awaited and written back (`worker-agent-service.ts` 489-500).
* **one connection.** A transaction's statements go past the gate, everybody else's must not;
  quitting closes the connection without asking the gate.
* **SSH output against a timeout.** Output waits in the `callbackQueue` of its command and then in
  the `operationQueue` of the execution; a timeout cuts across both
  (`ssh-configuration-service.ts` 303-474, `ssh-client-adapter.ts` 29-275).
* **authorizations that overlap.** A flow has a server, a timeout and a retention timer of its own;
  the dialog may be closed, reopened and retried while any request is on its way.
* **the window.** Events arrive in order, answers of IPC calls in any, and a history read
  before either of them may be merged after both (`App.tsx` 798, `app-store.tsx` 500).
* **persistence that rejects** in the middle of any of these.

`PROJECT.json` lists each hazard with its line and the properties that cover it.

## 2. Plan

Done, in this order:

1. `AgentRuntime`, the core logic, with `AgentRuntimeProofs` and `AgentRuntimeOutcomeProofs`; then
   `RunService`, its abstract specification, and the refinement in `AgentRuntimeServiceProofs`.
2. `WorkerAgents`, the second place where runs are executed, with `WorkerAgentsProofs`.
3. `SerialStore` and `SqliteGate` with its refinement and `SqliteGateProofs`. They justify what
   the other modules assume of persistence (section 5).
4. `SshExecution` and `SshExecutionProofs`.
5. `CodexOAuth` and `CodexOAuthProofs`.
6. `SessionView`: renderer, IPC handler and a reduced runtime composed into one state machine,
   with `SessionViewProofs`.

Left, in order of value:

1. Step identity across the pi event mapper and the tool runner: both count reuses of a call
   id, at different moments, and a worker is linked to the step of the call that spawned it.
2. Session rows under concurrent read-modify-write, `deleteGraph` against the saves of a run
   that still executes, `markUnreadCompleted`, and `settings.save`, which deletes and inserts
   without a transaction. Abstract specification: each update applied whole to the row it read.
3. SSH key deletion against server creation; the single-flight refresh of skills.
4. An abstract specification of the workers of a parent run, as `RunService` is one of a session, and the
   refinement; the invariants of `WorkerAgentsProofs` are most of what its proof needs.

The modules are not composed with `SqliteGate` as one state machine:
the product is out of TLC's reach, and theorem `CallsSettleInOrder` together with
`ImplementsStore` states exactly the interface they rely on.

## 3. Modules

### Grain of the actions

An action is the code from one `await` to the next. If it ends in a call of the database, the
action takes the effect of that call at once, and the caller resumes in a later action. That
is sound because calls take effect in call order (proved of `SqliteGate`), and nobody reads
the row other than through the same queue. Callers resume in **any** order. Real promises
resume in the order in which the calls settled, so the models allow a little more than the
program; both counterexamples of `AgentRuntime` are also executions with in-order resumption.

Three places of `AgentRuntime` are coarser or ordered, each for a reason of its own:

* *The check before the adapter call* (`runtime.ts` 678-686). The flags are read (`CheckLoop`), the
  answers are awaited, and the adapter is called without another look (`CallAdapter`); the continuation
  of a stop call may mark the run in between, so the adapter can be started for a stopped run. The two flags are read
  one tick apart and at once in the model: only when a cancel and a fail both arrive in that tick does the
  code write back *failed* where the model writes *cancelled*, and both are a stop. `StopReturn` waits while its
  run is at `calling`: the stop call still has its save and its event to await when it marks the run (at
  least four ticks), the run has at most two to go.
* *The end of an execution.* The `finally` of `executeRun`, which drops the flags, and `finishRun` one tick later
  are one action, `FinishRun`. A stop call whose continuation runs in that tick does what it would have done just before the
  `finally`: the row has ended or is written by the stop as before, nothing reads the flag again, and the stop call drops it.
* The `lateQueued` branch of `finishRun` (366-376) has no action: nothing is awaited between its
  `shift` and the one before it.

A save is two calls of the database, a `SELECT` of the row's `sort_seq` and the `INSERT` (`upsert` in
`repositories.ts`). `SshExecution`, which counts turns at the gate, has both. Elsewhere they are one: the `SELECT` reads a
number that never changes, the values to be written are fixed when `save` is called, saves keep their order since
each of them takes the same two turns, and a read served between the two returns what it would have returned before the save.

### AgentRuntime

Sessions share no state, so one is modelled. Its runs are the elements of `Runs`.

| Variables | Code |
|---|---|
| `arrivals`, `enq` | `enqueueChains` (318-337) and where each `enqueue` call stands |
| `running`, `activeRun`, `queue`, `waiting` | `SessionState` |
| `orphans` | runs whose `enqueue` call holds a `SessionState` that is no longer in `sessionStates` |
| `exec`, `retry`, `aborted` | where `executeRun` stands, its locals, the `AbortController` |
| `flagged` | `cancelledRuns` and `terminatedRuns` |
| `stop` | where the `cancelRun` and `failRun` call on a run stands |
| `status`, `events`, `messages` | persisted run status, run events and completed messages |
| `stopped` | history: runs a stop call marked while they were active |

`Enqueue` ... `StartRun` are `enqueue`; `SessionMissing` its exception. `CheckEntry` ...
`EmitFailed` are `executeRun` in order, with `ApplyStop` for the `applyStop...` exits,
`WriteThrows` for a rejected save inside the `try` (it is not retryable, hence fatal) and
`ExecutionEscapes` for one outside it. `FinishRun` hands over (`HandOver`) or deletes the
state (`GoIdle`). `AdapterMessage`, `AdapterReturns` and `AdapterThrows` are the adapter: it
may emit any number of messages, return, or throw an overflow, transient or fatal error at
any time, also after its controller was aborted. Compaction is abstract: it yields a shorter
history at some tier, or does not. `StopLookup`, `StopMark`, `StopEmit`, `StopReturn` are
the stop calls; `cancelRun` and `failRun` differ in the persisted statuses they accept.
Persistence calls made for a run in `Faulty` may reject, each of them.

`RunService` is the session as its users see it. Runs wait, execute or have ended; they
execute one at a time, each after those requested earlier have had their turn; an execution makes at most
`MaxCalls` adapter calls; after it was stopped it decides on no further one (`Decide`), though the call it has decided
on may still be made (`Call`), and it takes no message; it ends with its row ended,
and stopped if it was stopped; and when the session becomes idle it tells all waiters and leaves no
run waiting, except one it loses while that is being enqueued (finding 1). `Service` in `AgentRuntime` maps
`phase` to the position of `executeRun`, `dropped` to the refused and the orphaned runs, `calls` to the
counter of the current execution, `due` to the runs between `CheckLoop` and `CallAdapter`, and `requests` to the order of arrival; the lock, the queue, the claim,
the flags and the stop calls have no counterpart.

### WorkerAgents

The workers of one parent run; the others share nothing with it but the database.
`chain`/`spawn` are the spawn lock and the `spawn` calls, `inv`/`run`/`outcomes` the persisted
invocation, the persisted child run and the terminal events broadcast for it,
`active`/`finalized`/`aborted` the three registries, `exec` is `executeChildRun`, `touch` is
`handleChildEvent`, `seen` what an update of the invocation record has read before it writes
back, `cancel` each caller of `cancel`, `held` whether that caller found the worker active.
Two callers are the `cancel` tool and `wait` with `cancelOnTimeout`. Environment
assumption: an invocation id is known to nobody before the `spawn` call that made it
returns, so a cancel call starts only then (`LoadForCancel`).

### SerialStore and SqliteGate

`SerialStore` promises that a call takes effect whole, at one instant, when it is acknowledged; that a call
which throws or is cut short leaves nothing behind; and that a read sees acknowledged rows only.

`SqliteGate` has the promise tail (`gate`), the operations that pass it by (`direct`), the
transaction token, the position of each call, the rows the connection sees (`db`) and those
saved at `BEGIN`. `Enter` is `run` of `sqlite-adapter.ts` (45-55): the owner of the
transaction, recognised by its async context, passes by. Each of `Callers` makes one call; a
transaction's body awaits up to `MaxCalls` statements and commits or rolls back. `Tick`
is a maintenance timer with its non-overlapping runner, `Quit`, `QuitCheckpoint`, `Close` and
`Exit` are the quit sequence; `Exit` is also a crash at any time. SQLite itself is external:
commit is atomic, and closing or dying with an open transaction rolls it back. The refinement
maps `rows` to the committed rows (`Committed`), `acked` to the resolved calls.

### SshExecution

| Variables | Code |
|---|---|
| `input` | `stopOnError` and `timeoutMs > 0` of the request |
| `exec`, `result` | the persisted execution and its command results |
| `fin`, `copy`, `todo` | `runCommands`, then the asynchronous part of `startExecution` (`ssh-configuration-service.ts`), what it has read, the results its loops still have to save |
| `adapter`, `at`, `received`, `chunks`, `timedOut` | `runCommands` of `ssh-client-adapter.ts`: its position, the current command, what the channel has delivered, the `callbackQueue`, the abort |
| `ops`, `opAt`, `opRead`, `cbError` | `operationQueue`, the operation at work and what it has read, `firstCallbackError` |
| `waiting` | the persistence calls of the operation and of `startExecution`, in call order |
| `selected` | which of the two has had the `SELECT` of its save and waits for the `INSERT` |

Unlike the other modules this one has persistence calls that wait: whether an operation and the
finalization can save over each other is the question, so their calls are queued and served
first in, first out, as `CallsSettleInOrder` promises. The remote side is
external: a command writes output, exits with either code, breaks its channel, or never answers.

### CodexOAuth

A session is one call of `startAuthorization`. `started`, `current`, `panel` are
`provider-settings-panel.tsx` (its request refs, its dialog), `start`, `poll`, `save` the calls on their
way through the IPC handlers, `flow` the gateway (`codex-oauth-gateway.ts`: the map
of flows, their servers, timers and codes), `svc`, `previous` and `rows` the model
provider service with its persisted connection. Another program may take the callback port before any flow
binds it, and give it back (`PortTaken`). `failures` counts the writes of a save or its rollback that have
rejected. `saveOAuthConnection` step by step: validation and three reads outside the `try` (`ReadPrevious`, which may
throw with nothing to undo), five writes inside it (`WriteRow`, `WriteThrows`), `Rollback`, and at last
the read of the credential's status, whose promise the `try` returns without awaiting it
(`model-provider-service.ts` 694): `Saved`, or `StatusThrows`, which the `catch` does not see.
Three variables are histories for the properties' exceptions: `overtaken` (a session replaced while its server
was still binding: it does not listen yet, so `closeServer` lets it go), `disturbed` (two saves or a
deletion of the provider overlapped) and `wanted` (the owner the rows should have: the last save that wrote
all of them, or nobody after a deletion).

### SessionView

`handler`, `saved`, `replies` are `agentEnqueue`, `queue`, `exec`, `status` the runtime reduced
to what the window can tell, `wire` the forwarded events, `sent`, `users`, `link`, `shown`
what `App.tsx` and the reducer of `app-store.tsx` hold, `active`, `history`, `snapshot` the
selected session and the effect that loads its history. `Old` is a run a previous process left
`running`; the reducer shows it as failed (`runForHistory`). `missed` and `stale` are histories. `missed`: a session was
selected while an abandoned load was still ending. `stale`: a snapshot was merged that says otherwise of a run shown as
ended. That is a snapshot older than the end; but also a current one, when the window showed a live run as failed
(`runForHistory` takes a `running` row it has not heard of for one left behind) and a later load corrects it.
The exception is so a little wider than the defect.

## 4. What the runs check

| Run | Instance | States | Shows |
|---|---|---|---|
| `runtime_core` | 3 runs, one of which may be cancelled and failed, no retries, no failing saves | 1.6 M | `OneActiveRun`, `FifoStart`, `StoppedNeverSucceeds`, `QueuedHasOwner` |
| `runtime_faults` | 2 runs, one cancelled, the other failed with rejecting saves, 1 retry of each kind, no waiter | 1.3 M | refinement of `RunService`, `NoMessageAfterStop`, `FinishedIsTerminal` |
| `runtime_live` | 2 runs, 1 waiter, both budgets 1, fairness | 0.1 M | `StopEndsRun`, `EnqueueReturns`, `WaitersProgress` |
| `workers_core` | 2 workers, one of them with rejecting saves, limit 1, 2 cancel callers, fairness | 70 k | limit, one outcome, drained registries, active means executing, cancel ends a worker |
| `sqlite_gate` | 2 transactions, 1 statement, 2 statements per body, 2 timers | 0.54 M | order, quit, maintenance, refinement, progress |
| `ssh_core` | 3 commands, 3 chunks each, failing channels and saves, fairness | 0.26 M | `StopOnErrorHolds`, `ResultsSettle`, `SucceededIsComplete`, `ExecutionEnds` |
| `codex_oauth` | 2 authorizations, 1 rejected write, fairness | 0.51 M | `PortReleased`, `PanelFollowsLatest`, `SaveAllOrNothing`, `FlowsReaped`, `PanelSettles` |
| `session_view` | 2 messages, 1 old run, 2 loads, 2 events on the way | 5.4 M | `ShownAsPersisted`, `LinksSettle`, `ScreenIsDatabase`, `HistoryNotForgotten` |
| `runtime_queue` | 2 runs | violation | a queued run is orphaned |
| `runtime_terminal` | 1 run, cancelled | violation | two terminal events |
| `workers_final` | 1 worker, 1 cancel caller | violation | a succeeded worker is rewritten |
| `ssh_late` | 1 command, 3 chunks, nothing fails | violation | late output writes `running` over `failed` |

**Bounds.** Three runs are what the queue needs: one executing, one in the queue, one in the
window between the claim and the push. In `runtime_core` the other two runs are symmetric
(no liveness is checked there); the order of the queue does not depend on retries. In `runtime_faults` one retry of each kind shows both the retry and its exhausted
budget, and the two interleaved; more only repeats the loop. `runtime_faults` has no waiter, `runtime_live` has one,
and the theorem `ImplementsService` covers both together. Two cancel callers are the
fewest that race with each other as well as with the end of the child; a limit of one with two spawns is the smallest that can be exceeded.
Two transactions and a statement give a queue behind an open transaction; two ticks let a
second timer fire while the first task runs. Of three commands one can have ended, one run and one
be skipped; a third chunk can wait in the callback queue behind one at work and one queued.
Two authorizations are a flow and the one that replaces it; one rejected write hits each of the five writes of a
save; a write of the rollback rejects where the rollback runs because the provider is gone. The reads before
the first write and after the last may reject at any time and are not counted. Two messages are
a run that executes and one that waits, two loads a history that is abandoned and its
successor; the two messages are symmetric (`Swap`; no liveness is checked there). An event
more on the wire adds no new order: events arrive in the order they were sent. Deadlock checking is off because each instance
ends: every call has been made, or the process has exited.

**Faults.** `OneActiveRun` needs a third run to be put at risk, too many states with failing
saves; the theorem of section 5 covers them. `StoppedNeverSucceeds`, `FinishedIsTerminal`,
`QueuedHasOwner`, and the outcome properties of the workers are stated of runs whose own saves
do not reject: with them the code does leave rows running (the hazard list gives the lines), and
the repository says nothing to the contrary. `Faulty` names the runs, or workers, whose persistence
calls may reject, so that a sound one is checked, and proved about, beside any number of faulty ones. In `SshExecution` a
rejected call at any point is part of every run but `ssh_late`; in `CodexOAuth` any read and at most
`MaxFailures` writes reject.

**Fairness.** In every module a function that has started keeps running (weak fairness of its
next step), because the event loop runs every settled promise. Nothing is assumed of users:
no fairness for `Enqueue`, stop calls, `spawn`, `cancel` before they are made, or for the quit sequence. An
adapter call is not assumed to end; only once its controller is aborted, which is the contract
the code itself relies on. In `SqliteGate` SQLite finishes each statement, and a
transaction's body ends. In `SshExecution` the timer fires, but the remote side may never
answer, so `ExecutionEnds` is about executions that were given a timeout. In
`CodexOAuth` timers fire, the network and the database answer, and the effects of an open dialog
run; the user owes nothing, and device polling may say *pending* for ever. `SessionView` has only
safety properties: they speak of the states in which nothing is on its way.

**Exceptions.** Some properties name the cases in which the code does break them; the
case is a history variable, set by exactly that interleaving. `QueuedHasOwner` excepts `orphans` (finding 1),
`PortReleased` the sessions `overtaken` while binding, `SaveAllOrNothing` a `disturbed`
connection, `ShownAsPersisted` the runs that are `stale`, `HistoryNotForgotten` a `missed`
selection.

**Known defects without a run.** The following are real, too, but no document, comment or test promises
otherwise, so they are exceptions of the properties and not findings:

* `overtaken`: startAuthorization replaces a flow whose server is still binding. `closeServer` returns at once, since the
  server does not listen yet (`codex-oauth-gateway.ts` 100-106); then it listens for a flow nobody holds, whose timeout
  finds it no longer pending (424-427), and as long as it does, later authorizations find the port taken and use the device flow.
* `missed`: a session selected again before its abandoned load has ended gets no history and no error until it is left and selected again
  (`App.tsx` 798: the effect sees the session as loading, and nothing runs it again).
* `stale`: a history read before a run ended and merged after its end was shown wins over the newer status
  (`app-store.tsx` 262-264, 392-395). A run read as `running` is taken for one left behind, so a run that has succeeded
  is shown as failed; one read as queued is shown as queued. Nothing corrects it: a loaded history is not loaded again.
* `StatusThrows`: when the last read of a save rejects, the dialog reports a failure although the new connection is
  saved, and nothing is rolled back (`model-provider-service.ts` 694 lacks an `await`). `SaveAllOrNothing` holds,
  since the rows are of one connection; the report is wrong.

**Findings.** Four runs show disagreements of the code with its tests and documents:

1. `runtime_queue`: run *a* executes, `enqueue(b)` sees the session busy and awaits the save of *b*;
   *a* finishes, the queue is empty, `finishRun` deletes the session state; `enqueue(b)`
   pushes onto the deleted state. *b* is `queued` for ever. `QueuedHasOwner`
   holds in all other cases: it is the same statement with exactly this exception.
2. `runtime_terminal`: `cancelRun` reads `running`, `executeRun` saves `failed`, then both
   broadcast. The success path looks at the flags again after its save, the failure path
   does not.
3. `workers_final`: `cancel` on a worker that has already succeeded finds no mark in
   `finalizedChildRuns`, which has been cleared, and saves and broadcasts `cancelled`.
4. `ssh_late`: the timer fires with output in the callback queue. `startExecution` waits for the
   operation at work, fails the execution, and the remaining chunks, each an operation of its own, then
   write `running` over `failed`. Nothing corrects the row afterwards. In the same window
   `failExecution` writes back a result it listed before the chunk at work was saved, and the chunk is lost.

## 5. What is proved

For every value of the constants that meets the named assumptions (`RunsAssumption`,
`BoundsAssumption`, `CallersAssumption`, `SshAssumption`, `OAuthAssumption`, `SessionViewAssumption` and the like: budgets are naturals, stop calls name runs of the
session, `NoRun` and `NoCaller` are no run and no caller, `"maintenance"` and `"quit"` are
not callers).

`AgentRuntimeProofs`, for every set `Faulty` of runs with rejecting persistence:

* `TypeCorrect`. `TypeOK` bounds the retry counters, which is not inductive: `TypeInv` adds that the
  two retry states are entered only while their budget lasts (`BudgetOK`).
* `OneActive`. `ClaimInv`: whoever executes is `activeRun`, an active run implies `running`, and at
  most one `enqueue` call is in the window before `StartRun`, during which nobody is
  active. The claim is made before the first `await`; that is why the race is safe.
* `CallsStayBounded` (no run checks `CallsBounded` by itself: the refinement implies it). `CallsInv`: the adapter calls are at most one more than the retries
  counted so far, and not even that in the states before a call.
* `StoppedIsSilent`. `StopInv`: a run that has been marked while active is not in the queue
  (`QueueInv`, with the queue free of duplicates) and stays flagged while it executes (`FlagInv`).

`AgentRuntimeOutcomeProofs`, about the runs outside `Faulty`, whatever happens to the others: `RunsStartInOrder`,
`QueuedIsOwned`, `EndedIsTerminal`, `StoppedIsNotSucceeded` from `OutcomeInv`. Its parts:
`StartedInv` (execution begins only after `enqueue` has returned), `RowInv` (a settled
execution has a terminal row, and the row of its stop call if it was stopped), `ArriveInv` and `OrderInv` (queue,
active run and calls under way are in the order of arrival), `IdleInv` (a session that is not running has
nothing queued). Of a run whose own saves reject they are false, as the hazard list says; `OrderInv`
therefore lets such a run be passed over, and nothing more.

`AgentRuntimeServiceProofs`: `ImplementsService`, the refinement of `RunService`. `RuntimeInv` is all of the
above with `ServiceInv`, which the mapping needs: runs in the queue or lost with a deleted state have not
executed (`UnstartedInv`: starting one is a step from *waiting*), a run has a row once it is saved and only
such a run is stopped (`SavedInv`: the first save and a stop are different steps of the service), and an active run
executes (`OwnerInv`: a hand-over ends one execution and begins another at once). There is a lemma for each
kind of step. The service's guard on the order of starts is not read off the state before the step but
off `RunsStartInOrder` after it. The orphaned run of finding 1 appears in the service as the run that `GoIdle`
may lose; without that disjunct TLC finds the refinement violated by exactly that race.

`WorkerAgentsProofs`, for any number of workers and callers: `TypeCorrect`, `LimitAlwaysHolds`, `ActiveIsOwned`, `OneOutcome`,
`DoneMeansTerminal`, `RegistriesAreDrained`. The invariant is built from `ChainInv` (one spawn
holds the lock), `LockInv` and `LimitInv` (the count and the save are one critical section: what
was counted is what exists), `MarkInv` and `RecordInv` (who has marked a child as finalized, and what
the record then says) and `OutcomeInv`. The outcome theorems are about `Sound` workers, those
outside `Faulty`.

`SshExecutionProofs`, for every number of commands and chunks, with failing channels and saves:
`TypeCorrect`, `StopsOnError`, `EveryResultSettles`, `SuccessIsComplete`. `SshInv` adds to the
properties where each function stands relative to the others (`ControlInv`, `OpInv`), what the rows of
commands behind and ahead of the current one say (`RowInv`, `SkipInv`, `CountInv`, `CompleteInv`), and
`FreshInv`, `FailInv`: the persistence calls of an operation and of `startExecution` alternate in
the queue, the two of each save among them (`SelectInv`), so an operation that has read a row before `failExecution`
saved it never writes that row back.

`SessionViewProofs`, for every set of messages and old runs and every bound on loads and events:
`TypeCorrect`, `HistoryIsNotForgotten`, `ScreenShowsPersisted`, `LinksAreSettled`, `ScreenAgreesWithDatabase`. The last three speak of
states in which nothing is on its way, so their invariants account for all that can be on its way. `Progress` and
`Unheard` say which events of a run the window still has to hear, given where the run stands; `ShownRun`
and `OldShown` say what the window shows of a run in terms of its row, those events and the snapshot that may
still be merged; `MessageOf` and `OldMessages` do the same for its messages and their links, through the handler, the
answer and the snapshot. `HistoryInv` ties the three sets of the loading effect to the load that is
under way. In a quiescent state each of them leaves one case, which is the property.

`CodexOAuthProofs`, for every number of starts and failures: `TypeCorrect`, `PortIsReleased`, `PanelIsCurrent`,
`SaveIsAllOrNothing`. `OAuthInv` is `TypeOK` with `CurrentInv` (which calls the dialog still listens
to), `SessionInv` (sessions are handed out in order and known where they are used), `BindInv` (which flows
own a server) and `WriteInv` (which rows a save in progress and its rollback have written).

`SqliteGateProofs`:

* `GateInvariant`. `GateInv` is `TypeOK` with `TurnInv` (who waits is what `pc` says; an open
  transaction is at the head of the queue; only its own statements pass by) and `CountInv`.
* `MaintenanceStaysOutside` follows from `TurnInv`.
* `CallsSettleInOrder`. `FifoInv`: of two calls, the earlier has settled or is ahead in the queue.
* `QuitWaits`. `QuitInv`: while the quit checkpoint waits, every call made before it has
  settled or is ahead of it.
* `ImplementsStore`. `StoreInv`: the rows of the open connection are the saved rows and the
  statements of the open transaction. Each step is a `Write`, a `Read` or a stutter of `SerialStore`.

`CallsSettleInOrder` and `ImplementsStore` are why the runtime modules may give a database call its effect
when it is made: nothing made later is seen before it.

**The safety halves of progress.** A liveness property fails in one of two ways: nobody is left to take the next
step, or the step is there and not taken. Fairness is about the second. The first is an invariant,
and is proved, so that only the second rests on a bounded instance:

| Theorem | Says | Liveness it supports |
|---|---|---|
| `LockIsHeld` | an `enqueue` call that waits for the lock waits for a call that holds it | `EnqueueReturns` |
| `NobodyIsStranded` | a queued run or a waiter waits for a run that executes or is about to be started, unless the `enqueue` that claimed the session was rejected (`HolderInv`: the claim has an owner) | `WaitersProgress` |
| `AbortsReachTheAdapter` | a stopped run in an adapter call, or about to make the one it has decided on, has been aborted or has a stop call that will | `StopEndsRun` |
| `SpawnLockIsHeld`, `CancelsReachTheAdapter` | the same for spawns and for cancelled workers | `CancelEndsWorker` |
| `GateNeverBlocks` | the head of the gate can run, and every call is in the gate or inside | `EveryCallSettles` |
| `EveryFlowIsTimed` | each flow in the gateway's map has a timer that ends or removes it | `FlowsReaped` |

The two locks need the *first* of the calls that have not returned, from well-founded induction over positions.
`OnlyOutputIsLate` of `SshExecutionProofs` bounds finding 4: once an execution is finished, no result changes
its status, and the row of the execution changes only by output left behind by an adapter that threw.

**Only model-checked:** the liveness properties themselves, as fairness is out of the prover's reach (`StopEndsRun`,
`EnqueueReturns`, `WaitersProgress`, `CancelEndsWorker`, `EveryCallSettles`, `ExecutionEnds`,
`FlowsReaped`, `PanelSettles`). Every safety property a passing run checks is a theorem.

## 6. What is not modelled, and why

Text, prompts, compaction arithmetic, SQL and column conversion, files, git and shell
processes, the network and the layout of the renderer have no interleaved state of their own; where they
matter to the control, their outcomes are nondeterministic choices. They are most of the
source by lines: the largest files are React components, repositories of SQL text, and built-in tools
that wrap one file or process call each. Worker `wait` and `list` only
read; the wait that cancels is one of the cancel callers. Bootstrap repairs nothing after a
crash, so there is no recovery to model; the crash itself is `Exit` in `SqliteGate`. The list under
*Left* in section 2 names what has control of its own and is not modelled yet.
