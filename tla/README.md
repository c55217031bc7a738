# Coco harness in TLA+

Coco is a TypeScript agent harness built from Cordis plugins. A *session* is an
append-only event log. An *agent* owns one session, an *inbox* of messages that
wait for the model, and a *driver* that turns those messages into turns, steps,
model requests and tool calls. Everything runs on one JavaScript event loop, so
there is no data race; the difficulty is that every `await` lets other tasks run,
that a cancel, a disposal or a new message may arrive at each of them, and that
the process may stop between any two durable writes.

The modules here model that core: the driver, its tool-call batches, its inbox,
the execution trace its log must follow, the batching of its writes, the repair of
a log after a crash, the
sharing of stored sessions between the callers that resume them, the creation
and teardown of agents, and two services that wake an agent by themselves:
background jobs and goals. Source paths below are relative to `packages/` of the
repository.

## 1. Inventory

### The parts modelled so far

**Agent driver** (`core/agent-loop/src/agent.ts`).
State: the phase (idle, maintenance, running, with turn and step numbers, the
abort controller and the `wakeRequested` latch), the activity promise, the inbox,
the local variables of the async frames `kick`, `turn`, `preStep` and `step`.
Operations: `send`/`followup`, `cancel` with and without `keepInbox`,
`startMaintenanceJob`, `whenIdle`, and the frames themselves. It appends to the
session log, dispatches `agent/*` events whose listeners it awaits, streams a
model request, and runs a batch of tool calls.
Hard: a message that arrives on an activity already aborted; the first abort
reason winning over later ones; decisions read before an `await` and used after;
`step/end` and `turn/end` on every exit; `whenIdle` awaiting a promise that is
replaced.
Correct when: no message is lost or run twice, the log stays well formed, an
abort stops the work, a late wake is replayed, parked work stays parked, and
`whenIdle` resolves only when nothing runs.

**Tool-call scheduler** (`core/agent-loop/src/tool-calls.ts`).
State: calls started and committed, the pool of running bodies, ordered result
slots, first failure. Operations: grouping by mode, starting, committing, draining
on failure, answering skipped calls on abort.
Hard: bodies settle in any order, a call's mode may change while a pool runs, a
body fails while the next call is being prepared.
Correct when: results are committed in model order, each call of a batch that
did not fail is answered once, exclusive calls run alone, and nothing is left
running.

**Inbox** (`core/agent/src/inbox.ts`).
State: two lists of messages and the durable splices that rebuild them.
Operations: append, prepend, replace, remove, splice, claim, clear, replay.
Hard: coordinates out of range, two-splice operations and a stop between them,
validation before the durable commit.
Correct when: the log rebuilds the lists and each message is pending once and
notified once per fate.

**Session execution trace** (`core/session/src/invariant.ts`).
State: open turn and step, next numbers, unanswered calls. It vetoes an event
that does not fit. It is the abstract specification of what a driver writes.

**Write-behind** (`session/session-persistence/src/write-behind.ts`, and `flush` in
`coordinator.ts`).
State: the pending events, the batching timer, the active write, the flush
barrier, two flags (deadline passed, automatic path paused), the session's init.
Operations: `enqueue`, the deadline, background writes, failure retention,
`flush`, `cancelAutomaticWait`.
Hard: flushes that join one another while events arrive and writes fail; a
deadline that passes during a write; an init that stores events which are
pending as well.
Correct when: the store holds every event once and in order, a flush that
resolves covers what was logged before it, and nothing waits for ever.

**Interrupted-turn repair and its store** (`core/session/src/repair.ts`,
`session/session-checkpoint-policy/src/index.ts`,
`session/session-persistence-jsonl/src/index.ts`).
State: the live log, batches under way, the file with a possible torn tail.
Hard: a crash at any event, inside a batch, and inside a repair.
Correct when: a loaded log is balanced, keeps what was acknowledged, and does not
claim that a tool that ran was never started.

**Session preparations and the persistence coordinator**
(`session/session-persistence/src/preparations.ts`, `coordinator.ts`).
State: a pool of entries (loading, ready, committing, reserved) kept as an LRU of
the ready ones, a chain of storage operations per session, a tracked state with a
cursor and an owner, the write-behind of each live session.
Operations: `prepare`, `load`, `inspect`, `append`, publication, release,
retirement, each caller's abort.
Hard: one read shared by callers that abort at different times; a commit that is
overtaken by an append; a publication between two microtasks; a waiter whose
holder goes away.
Correct when: a reservation has one holder and is current, a live session is
never locked against its own writes, and no waiter is forgotten.

**Agent factory and lifecycle** (`core/agent-loop/src/index.ts`).
State: for each call of `create`, `createAgent` or `resume` its continuation, the
`PreparedAgent` with its memoized `dispose()`, the preparation a resume holds,
the registries of agents and sessions, `FactoryOwnership`, and the effect by
which the owner's fiber follows the call.
Operations: the three calls with setup, publication and rollback; `dispose` by
handle, by the owner's unload, by the provider's unload, by a failed publication.
Hard: four independent parties tear one agent down, each at any await of a call
that is still building it; a load that answers after nobody waits for it; an
effect that waits for a teardown that retires the effect.
Correct when: nothing unwinds under a driver at work, an identity names the agent
that runs under it, no agent is left to nobody, a stored session is reserved as
long as an agent built on it exists, and every teardown ends.

**Background jobs** (`jobs/jobs-local/src/index.ts`).
State: the job records with their waiter counts and `reported` flags, the owners
with an attached cleanup, the completion listeners.
Operations: `start`, `read`, `kill`, `wait` with deadline and abort, settlement,
`disposeOwned`, `disposeAll`.
Hard: a deadline, an abort and a settlement in one microtask queue; two teardowns
that wait for the same jobs, one inside the other; cancels that throw.
Correct when: a completion reaches its caller once, an owner leaves nothing
behind, a teardown is silent and ends.

**Goals** (`goal/goal/src/index.ts`, `fold.ts`, `goal/goal-round-driver/src/index.ts`).
State: the folded goal and its in-memory activation; the round driver's attempt
(queued, claimed, admitted; cancelled, stale), its competing and checkpoint flags,
and its loop.
Operations: the goal's mutations, each a compare-and-set; idle edges, inbox
notifications, turn ends and errors that the driver listens to; its pre-step
fence; unload and reload of the plugin.
Hard: a round is reserved, awaited over, claimed, awaited over and logged, while
people edit the goal, prompt, cancel or unload.
Correct when: one round is reserved at a time, a cancel stops the goal, nothing
is admitted behind an unload or a change of the goal, and an armed goal goes on.

### How they interact

```
 callers --send/cancel/whenIdle--> driver --splices--> inbox
                                     |  \--batch--> tool-call scheduler
                                     | append (vetoed by the trace)
                                     v
                                session log --> write-behind --> coordinator --> store
                                     ^        checkpoint before a tool body
                                     |                            |
                     prepare/publish + repair closers <-- preparations (cold sessions)
                                     ^
 owners --create/resume/dispose--> factory --builds, publishes, disposes--> agent
 goal changes, idle edges --> round driver --followup--> agent; pre-step fence <-- driver
 tool bodies --start/kill/wait--> jobs --completion--> listeners (a followup to the owner)
```

The driver calls the inbox and the scheduler synchronously or awaits them. The
log notifies write-behind, which reaches the store through the session's chain in
the coordinator. A cold session is prepared, repaired, reserved, and published as
the session of a new agent; the factory holds the reservation until it has
published the agent or unwound it. The factory's `dispose` calls the driver's
`cancel` and waits for `whenIdle`. The round driver and the jobs' listeners are
callers of `followup` that decide by what the driver tells them.

### The parts not modelled yet, or not at all

`PROJECT.json` lists every component with its sources. In short:

- open: schedules, approvals, model retries, subagent continuation, the message
  surface, projections and their caches, and the rest of the coordinator
  (creation, hot reload). Their core is a race of one listener or timer with an
  abort, of the kind modelled for jobs and goals;
- left out: operating-system and network I/O behind tool bodies and model
  adapters, transports (gateway, SDK, ACP), user interface, settings and
  credentials (single-record stores), composition and build-time code, the
  vendored Cordis runtime. They reach the core through the operations that the
  driver model lets any caller make at any time.

## 2. Modules

| Module | Models | Composed with |
|---|---|---|
| `SessionTrace` | `invariant.ts`, as a specification of its own | abstract to `AgentDriver`, used by `SessionRepair` |
| `AgentDriver` | `agent.ts` | `INSTANCE SessionTrace`; a batch is `ToolCalls`, list operations are detailed in `Inbox` |
| `ToolCalls` | `tool-calls.ts` | |
| `Inbox` | `inbox.ts` | |
| `SessionRepair` | repair, checkpoint, JSONL frames, and batches as a crash sees them | `INSTANCE SessionTrace` |
| `DurableQueue` | what a session's write path promises, as a specification of its own | abstract to `WriteBehind` |
| `WriteBehind` | `write-behind.ts` and the coordinator's `flush` | `INSTANCE DurableQueue`; `SessionRepair` relies on its promise that a flush covers what was logged before it |
| `SessionPreparations` | `preparations.ts`, the coordinator's cold and live paths | |
| `AgentLifecycle` | `agent-loop/src/index.ts` | its `driver` is the activity of `AgentDriver`, its `prep` the reservation of `SessionPreparations` |
| `LocalJobs` | `jobs-local/src/index.ts` | |
| `GoalRounds` | `goal`, `goal-round-driver`, and the turns of the agent they drive | composes the three in one step; its agent is the part of `AgentDriver` that the round driver observes |
| `AgentDriver_proofs`, `ToolCalls_proofs`, `SessionRepair_proofs`, `SessionPreparations_proofs`, `AgentLifecycle_proofs`, `LocalJobs_proofs`, `GoalRounds_proofs` | theorems about the module each is named after | extend it |
| `SessionQueues_proofs` | theorems about `WriteBehind` and `Inbox`, the queues a session keeps beside its log | extends both |
| `MC*` | constants of the runs | |

### AgentDriver

One action is the code between two suspension points. `driver.pc` is the place
where the async frames are suspended:

| Place | In the code |
|---|---|
| `off`, `enter`, `exit` | no driver; `kick()` entered; `kick()`'s `finally` due |
| `top`, `preStep`, `decided` | `turn()`'s loop; prompt assembly awaited in `preStep()`; `preStep()` returned but `turn()` has not resumed |
| `open`, `model`, `retry`, `tools`, `close` | `step()`: opened, streaming (with `buildRequest`'s awaits), listeners of `agent/request-error`, the tool batch, `step/end` due |
| `after`, `stopping` | the end of a loop round; listeners of `agent/stopping` |
| `catch`, `turnEnd`, `ended` | an exception caught; `turn/end` due; `turn()` returned |

`Driver` is the disjunction of the frames' steps and of the microtasks they leave
behind; `Callers` are the operations that any other task may make at every
suspension point, also from inside a listener (`delivering`) where the code
dispatches one. `phase.abort` is the first abort reason, as `AbortSignal.reason`
keeps it. `history` variables record what became of each message.

Abstracted: message contents, the request's composition and its header
bookkeeping, an append vetoed by an invariant companion, nested sends in
listeners. Staging tool context into the inbox is the `inject` of a step.

### ToolCalls

One batch of `N` calls. `pc` follows the scheduler: choose a group, start, fill
the pool, race, commit in order, skip, flush, fail. The variable
`registry` holds the mode each call has by the tools registered now, and
`Reclassify` changes it at any await. A group takes the mode its first call has when
it is formed (`NextGroup`); each later call of a pool is looked up again before it
starts (`StaysParallel`, line 203), and one that has become exclusive waits for its
own group. `BodySettles` and `Abort` run at any time.

### Inbox

Each operation is one action of one splice (`Mutate`) or of two (`MutateBoth`: `clear`
and `claim` at a turn boundary, where the second splice is validated against what the
first has left), with JavaScript's coordinate normalization. Coordinates are drawn from a small range that includes negative
and oversized ones. `Replay` is a recursive function of the log's length. `Restart` replays any prefix of the log, as a process that
stops between two durable splices would.

### SessionTrace and SessionRepair

`SessionTrace` has one action per event kind, with the guard under which the
companion accepts it, and operators (`OpenTurn`, `CanOpenTurn`, ...) that both
other modules use. `SessionRepair` writes a log event by event, takes batches,
crashes with any prefix of the batch under way left in the file (complete
frames, then perhaps a torn one), loads, and runs `interruptedTurnClosers` over
what it read. `TraceOf` replays the companion over a log and `Scan` is the repair's
own reading of it; both are recursive functions of its length. The repair is two steps (truncate, then append), and may crash
between them. A crash is a stop of the process: what was written survives.

### DurableQueue and WriteBehind

`DurableQueue` has a log of numbered events, a store that holds a prefix of it,
and calls of flush: an event is accepted, some more of the log is stored, a
flush is called, and resolves if everything logged before its call is stored, or
rejects at any time. `WriteBehind` has the fields of `SessionWriteBehind`
(`pending`, `timer`, `deadlineExpired`, `automaticPaused`) and what its promises
stand for:

| Variable | Values |
|---|---|
| `active` | `none`, `writing`, and settled as `written` or `failed` with the reactions still to run |
| `barrier` | `none`; `overlap`: it awaits the write it found; `own`: it awaits its own write; `overlapped`, `written`, `failed`: `drainBarrier` is about to resume |
| `flushes[f].at` | `init`: `coordinator.flush` awaits the init; `joined`: the barrier; `resolved`, `rejected` |
| `ready` | the session's `live.init` |

The reactions to a settled write (`WriteEnds`, `continueAutomatic`,
`BarrierResumes`, `FlushResumes`) are steps of their own in any order, which
includes the order of the microtask queue; callers may come between them. The
timer's callback is a task and runs when they are drained. A session that is
created by its first event has that event in its seed and in the queue
(`WriteInit`), and `appendLiveBatch` leaves it out of the batch. A failed write
stores nothing (the store's rollback is in `SessionRepair`). The refinement maps
`init` and `joined` to a waiting call.

### SessionPreparations

`pool.entry[i]` is the entry of session `i`, `token` its identity, since the code
compares entries by reference; `pool.before` holds the pairs of keys
of which the first comes earlier in the `Map`.
`chain[i]` holds the storage operations in order, `running[i]` says whether the
first has begun. `callers[c].pc` is where a call stands:

| Place | In the code |
|---|---|
| `entering` | after `waitForRetirement` (or in it: `waits`) |
| `loading`, `loaded`, `woken` | awaiting the shared read; the read is settled, and the operation queued before the await runs first; about to look at the entry |
| `settling` | awaiting another's reservation |
| `committing`, `committed` | `commitPrepared` queued or running; its answer not yet looked at |
| `checking`, `checked` | the same for `inspect`'s revision check |
| `reserved` | a `SessionPreparation` in the caller's hands |

A log is its number of events and two flags. The number stands for the backend's
revision: the coordinator is the only writer. I/O ends only when the microtasks
are drained (`Drained`), because a storage answer is a task of its own; the
JSONL backend is asynchronous in this way, while SQLite answers within
microtasks, which are some of the same interleavings with fewer callers between.
A read of a corrupt log fails, or succeeds when the reader drops the odd row as a
torn tail; the model keeps the failing outcome only.

Not modelled there: creation of a new session, adoption by a live session after a
hot reload, `readFrom`, legacy formats, and the teardown of a backend, which
retries retirements that failed.

### AgentLifecycle

`call[c]` is the continuation of a call, `life[c]` its `PreparedAgent`:

| Place | In the code |
|---|---|
| `loading`, `loaded` | `resumeWith` races `persistence.prepare()`; its result is settled and not yet seen |
| `setup`, `set` | the same for the setup callback |
| `failing` | `setupAndPublish` awaits `dispose()` before it throws |
| `live`, `over` | the handle was returned; the call threw |

`life[c].dispose` is the memoized teardown: `draining` awaits `whenIdle()`,
`unwinding` the scope, `done` has detached. `followed` says that the owner's
effect is registered, `joined` that the owner's unload waits. `create` runs in
one span; `createAgent` and `resume` are cut at their awaits. An announcement may
veto the publication, send work to the agent, or abort the caller's signal, so
`publish` has those outcomes. A microtask that follows a settlement at once is a
step of its own (`loaded`, `set`), because an abort or an unload may lie between.

Not modelled: agents started or reloaded by configuration
(`restoreOrCreateConfigured`), option checks, sends to an agent whose teardown
has begun, which the source calls the sender's bug.

### LocalJobs

`job[j]` is the `TrackedTask`, `producer[j]` the work behind it: `told` has
accepted a cancel, `released` has settled `hooks.done` and its reaction is
queued. A `wait()` that was resolved or rejected resumes one step later
(`released`, `expired`, `rejected`); the count of waiters is taken back by the
abort at once and by the `finally` otherwise. `cancelForTeardown` is one step for
all jobs, since the loop has no await; `throwing` are the jobs whose cancel
throws. `kill` and `read` by a caller without access change nothing and are left
out with the check.

### GoalRounds

Goal service, round driver and agent hand over to one another synchronously:
`pause()` notifies the driver, an idle edge drives, a drive sends, a send starts
the agent, which claims before the first caller returns. A step is therefore a
function from worlds (`[agent, goal, driver]`) to worlds, composed of the parts'
functions (`Changed`, `requestDrive`, `Drive`, `Woken`, `Claim`, `OnIdle`, ...),
and the actions are the points where all three are suspended:

| Place of the agent | In the code |
|---|---|
| `assembling` | claimed; assembly and the pre-step listeners in front of the fence are awaited |
| `deciding` | the fence has checked and awaits the listeners behind it |
| `decided` | the fence has checked again; the listeners in front are awaited on the way back |
| `step` | the batch is logged, its steps run |
| `leaving` | the turn is over; `kick()`'s `finally` is due |
| `maintenance` | a maintenance task, which reads as idle from outside |

`driver.flushing` counts the loops that await a checkpoint, `driver.looping`
those about to look for requests; there may be two (section 6). `goal.broken`
says that the log holds an event that the fold refuses.

Not modelled: a session that starts again (`agent/session-start`), a disposed
agent, a `followup` that throws, the decoding of stored goal changes.

## 3. Runs

| Run | Instance | Distinct states | Shows |
|---|---|---|---|
| `driver` | 3 messages, `MaxStep` 1 | 1,213,935 | safety, refinement of `SessionTrace`, and convergence of the driver against every caller |
| `tool_calls` | 4 calls, pool of 2 | 274,576 | order, answers, overlap under a changing registry, quiescence, termination |
| `inbox` | 3 messages, 4 splices | 32,117 (up to symmetry) | replay and identity |
| `repair` | 2 call ids, 7 events, 2 crashes | 123,953 | a repaired log, whatever the crash |
| `preparations` | 2 sessions, 2 callers, capacity 1 | 3,135,634 | reservations, locks, waiters |
| `lifecycle` | 2 calls, 2 identities, 1 owner | 288,928 | registration, order and end of teardowns, against aborts and unloads at every await |
| `jobs` | 2 jobs, 1 owner (or none), 2 waits, limit 1 | 415,100 | reporting, and the two teardowns |
| `goals` | 1 prompt, 3 revisions, 2 rounds | 1,094,492 | reservations, cancels, unloads, and continuation |
| `write_behind` | 4 events, 2 flushes, 2 failing writes | 74,374 | refinement of `DurableQueue`, and that writes and flushes end |
| `stale_cursor`, `disposal`, `stale_round` | as above | until violated | the findings of section 6 |

### Properties

- `driver`
  - `OneFate`: each sent message is pending, logged once, discarded or dropped,
    and only one of these.
  - `TraceAccepts`: every turn or step boundary the driver appends is a step of
    `SessionTrace`; its other steps leave the trace alone.
  - `LateWakeIsLatched`, `LatchedWakeReplays`: a wake sent to a dying activity is
    latched unless that activity was disposed, and a latched wake starts a driver
    unless it is withdrawn.
  - `ParkedWorkWaits`: what a `keepInbox` cancel parked is claimed only after a
    later wake.
  - `WhenIdleIsQuiet`: a waiter resumes only while the agent is idle.
  - `AbortStopsWork`: after an abort no step is opened and no request made.
  - `CancelConverges`: an aborted driver reaches idle or a fresh controller.
- `tool_calls`: `ModelOrder`, `EveryCallAnswered`, `OverlapIsLimited`,
  `NothingLeftRunning`, `StopsStarting` (nothing starts after an abort or a
  failure), `Terminates`.
- `inbox`: `ReplayRebuilds`; `PendingAsNotified` (a consumer that only follows
  the notifications of a message knows whether it is pending, and it is pending
  once).
- `repair`: `RepairBalances` (the trace accepts the rebuilt log and nothing is
  open), `InterruptedCallsAnswered`, `RanIsNeverNotStarted`, `AckedSurvives`,
  `LoadCompletes`.
- `preparations`: `ReservationHolds`, `LiveIsNotLocked`, `WaiterHasHolder`.
- `lifecycle`
  - `RegisteredWhileAtWork`: an identity names its live agent until that agent's
    own teardown detaches it, also when another call with the same identity is
    rolled back.
  - `DriverBeforeScope`: a scope does not unwind under a driver at work, as long
    as the provider has not begun its teardown (section 6).
  - `PreparationOutlivesUse`: a preparation is released only when the agent
    built on it is published or unwound, and no call that ended keeps one.
  - `ProviderGoneIsQuiet`, `NoOrphan`: what an unloaded provider and an unloaded
    owner leave behind.
  - `TeardownSettles`: both unloads end and an aborted call returns, with no
    assumption on loads and setups.
- `jobs`
  - `ReportedOnce`: a completion withheld because somebody waited is returned by
    a wait, and what a wait returned was not announced as well.
  - `GoneOwnsNothing`, `TeardownIsSilent`, `TeardownCompletes`.
- `goals`
  - `OneReservation`: one round of the present revision is queued or claimed.
  - `CancelStopsGoal`: after a cancelled turn no round is reserved until somebody
    changes the goal.
  - `GoalContinues`: an active and armed goal does not rest at an idle agent. This
    and `OneReservation` speak of executions without a maintenance task, for the
    reasons of section 6.
  - `NoRoundAfterUnload`: an unload that finds its round at a running agent cancels
    it: nothing is admitted while it drains, and no round is left behind.

- `write_behind`
  - `KeepsTheQueue`: the controller implements `DurableQueue`.
  - `WorkIsWritten`: an event is written although nobody flushes, unless a failed
    write has paused the automatic path (the next event or flush resumes it) or
    the init has failed; every flush settles.

Each module has a type invariant, except `SessionTrace` and `DurableQueue`, whose
implementations carry theirs. They document the modules and were checked while these
were written; all but `GoalsTypeOK` are proved. Each property of a passing run has a
mutant in `PROJECT.json`: an operator of the module, named after the
definition it changes, with which TLC finds that property violated.

### Bounds and why they are enough

- *Driver.* Three messages fill both lists, leave one to arrive late, and one to
  be parked. A step whose number exceeds `MaxStep` is not entered for context
  alone and its tool round concludes the turn, so that turns end. At `MaxStep` 1 a
  tool round of the first step goes on to a second step, whose own tool round, if it
  has one, concludes; only pending messages lead to further steps. A
  turn that continues twice because of its tools is therefore not in this run: the
  safety proofs hold for every `MaxStep`, while `CancelConverges` and
  `LatchedWakeReplays` are checked at this bound only. Turn numbers are bounded by
  the messages.
- *Tool calls.* Four calls make a parallel group larger than the pool of two next
  to an exclusive call on either side. The registry starts with any modes and may
  change between any two steps, any number of times.
- *Inbox.* Four splices allow every pair of the two-splice operations, and three
  messages both lists with a duplicate attempt.
- *Repair.* Seven events hold a turn with a step of two calls, partly answered;
  two crashes put one inside the repair of the other.
- *Preparations.* Two callers of one session make a holder and a waiter, and the
  waiter's retry makes it a holder; the second session is there for the LRU,
  which at capacity 1 evicts at every second release. `MaxLen` 3 allows a repair
  and an append in either order, twice one of them. `MaxToken` counts references
  to entries that exist at once: an entry per caller, per queued read, and one in
  the pool. A call enters only when a token is free; at 6 one always is.

- *Lifecycle.* Two calls with the same identity meet in the registry and at the
  persistence, with different ones they are torn down side by side; one owner
  makes both or unloads between them. Properties of two owners are properties of
  each.
- *Jobs.* Two jobs make a limit of one bite, let one throw while the other is
  cancelled, and let an owned one drain beside an unowned one; two waits on one
  job make its count exceed one.
- *Goals.* Two rounds make a first, a last and a refused third. Three revisions
  are a creation and two changes, one to invalidate a reservation and one while
  its successor is pending. `MaxRevision` bounds the callers' mutations only: the
  round driver's own pause or block may make one more. `Copy` distinguishes round
  messages of equal content; the copies that exist at once are few, and a copy is
  used again when it is gone.

- *Write-behind.* Four events give a batch under way, one that waits behind it,
  and one that arrives for each of two flushes. Two flushes make one that begins a
  barrier and one that joins it, or that waits for the init behind it; each call
  may be repeated. Two failures let a batch fail, be retried by a flush, and fail
  again.

`CHECK_DEADLOCK FALSE` is used where the system does stop: a finished batch, a
repair run whose bounds are reached, jobs, calls, events and revisions that are used up.

### Fairness

- *Driver*: `WF` on `Driver`, `Deliver` and `EndMaintenance`. The frames resume
  because the event loop runs them; an awaited model stream, tool batch or
  listener settles because it is given the abort signal, or because its work
  ends; a maintenance job ends. No fairness is assumed of callers. A tool or a
  listener that ignores its signal and never settles stalls the real driver too;
  `docs/subsystems/tools.md` ("Async work must observe or forward `exec.signal`")
  and `docs/subsystems/llm-streaming.md` ("implementations must honor
  `options.signal`") make it their obligation.
- *Tool calls*: `WF` of the scheduler and of the settlement of each body.
- *Repair*: `WF` of `Recovery` (load, commit, go live), so that `LoadCompletes`
  says that the bounded number of crashes is the only thing that delays a load.
- *Preparations*: none. `WaiterHasHolder` is the safety form of "waiters are
  woken": nobody waits for an entry without a holder, and a holder's every exit
  wakes them. Whether the holder of a reservation ever lets go is up to it.

- *Lifecycle*: `WF` of the continuations, of the effects of unloading fibers, of a
  scope's unwinding, and of the exit of a driver whose agent is being disposed,
  which is what `CancelConverges` says of `AgentDriver`. A load that does not
  answer and a setup that does not return are allowed: the code races them
  against an abort, and that race is fair.
- *Jobs*: `WF` of microtasks, deadlines and awaits, and of `Release` of a job that
  has accepted a cancel: the contract of `JobHooks`, without which, as the source
  says, a teardown waits for ever. Nothing is assumed of a job that was not
  cancelled or whose cancel threw.
- *Goals*: `WF` of the agent's turns and maintenance, of the checkpoint's
  settlement and of the loop. Nothing is assumed of callers and of unloads.

- *Write-behind*: `WF` of each microtask and of the timer, which the event loop
  runs, and of the answers of the store and of the init: an append that never
  settles blocks the session's chain in the coordinator as well.

Symmetry is used in `inbox` alone, which checks no liveness.

## 4. Proofs

### The driver

`AgentDriver_proofs` proves, for every set `Msg` and every `MaxStep \in Nat`
(the module's only assumption):

| Theorem | Statement |
|---|---|
| `TypeInvariant` | `Spec => []TypeOK` |
| `Invariance` | `Spec => []IInv` |
| `LateWakeLatched` | the invariant `LateWakeIsLatched` |
| `DisposedNeverLatches`, `OverrunKept` | the invariants `DisposedCauseNeverLatches` (an activity aborted as disposed never holds a latch) and `OverrunIsKept` (a turn that hit the output ceiling is not recorded as completed), which no run lists: each follows from the place alone |
| `IdleIsQuiet`, `AbortStops`, `ParkedWaits` | the action properties `WhenIdleIsQuiet`, `AbortStopsWork`, `ParkedWorkWaits` |
| `DriverImplementsTrace` | `Spec => TraceAccepts`: the driver implements `SessionTrace` in its turn and step boundaries (it is instantiated with no calls; tool events are those of `ToolCalls`) |

None of these is inductive alone, because what a caller may do depends on where
the driver is suspended. `IInv` is the conjunction of

- `PhaseAtPlace`: the phase is running exactly when a frame exists, an idle
  phase is clean, and a fulfilled activity promise means idle;
- `EndsAtPlace`: which outcomes a turn may have at each place;
- `TraceAtPlace`: the open turn and step of the log, and its next numbers, at
  each place;
- `WakeAtPhase`: a latch is held only by an activity that cannot deliver the
  wake itself;
- `OwedIsLatched`: a late wake still pending is latched, being delivered, or
  being replayed;
- `ParkedIsSafe`: parked messages are out of reach of the frames that could
  claim them;

together with `TypeOK`. Each part has a lemma for `Init` and one for a step,
with a case per action; a part may use the parts before it. `Invariance` combines
them. The action properties follow from `IInv` at the step's first state. For the
refinement, `TraceAtPlace` gives at each appending place the guard under which
the trace accepts the event, and every other action leaves the trace alone.

`OneFateHolds` is `Spec => []OneFate`: no message is lost and
none is run twice. It needs one more part, `BatchAtPlace`: a claimed batch is under
way only while `preStep()` is awaited or its decision waits for `turn()`, and only an
entering decision carries one. So a claim overwrites no batch, and a rejected or
emptied step strands none. A step that moves messages moves each from one of six
sets to another; `DistinctTail` and `RemoveTakesOne` say that a claim and a removal
take one message out of a list, and leave the list without duplicates.

### The agent factory

`AgentLifecycle_proofs` proves, for every set of calls, owners and identities,
with `None` not a call (the module's only assumption):

| Theorem | Statement |
|---|---|
| `LifecycleTypes` | `LifecycleSpec => []LifecycleTypeOK` |
| `LifecycleInvariance` | `LifecycleSpec => []IInv` |
| `StaysRegistered`, `ScopesOutliveDrivers`, `PreparationsOutliveUse`, `ProvidersLeaveNothing`, `NoAgentIsOrphaned` | `RegisteredWhileAtWork`, `DriverBeforeScope`, `PreparationOutlivesUse`, `ProviderGoneIsQuiet`, `NoOrphan` |

The properties relate a call to what it has built, so the induction needs what a
call has at each of its places. `IInv` is `LifecycleTypeOK` and

- `LifeAtPlace`: which resources exist at each place, and that a call that ended
  without a handle has begun to tear down what it had;
- `DisposeInOrder`: a teardown waits for its driver, then for its scope, and the
  call's signal is aborted by then;
- `PrepAtPlace`: where the preparation is at each place, and that a released one
  without a live agent means a finished teardown;
- `RegistryNames`: a name and its agent point to each other from publication to
  detachment;
- `OwnerFollows`: an agent whose teardown has not begun has its owner's effect,
  and an owner that is gone has none;
- `GoneIsDone`: a provider that is gone has nothing under way.

Lemmas say what the record operators do (`Disposed`, `Unwound`, `Goes`, and what a
publication and the provider's teardown do to every call); then each part has a
lemma with a case per action.

### The tool-call scheduler

`ToolCalls_proofs` proves, for every number of calls `N` and every limit
`MaxParallel` that is not zero (the module's assumption; the code refuses others):

| Theorem | Statement |
|---|---|
| `TypeCorrect` | `Spec => []TypeOK` |
| `Invariant` | `Spec => []IInv` |
| `LogsInModelOrder`, `AnswersEveryCall`, `LimitsOverlap`, `LeavesNothingRunning` | the invariants `ModelOrder`, `EveryCallAnswered`, `OverlapIsLimited`, `NothingLeftRunning` |
| `StartsNothingMore` | the action property `StopsStarting` |

A body may settle, an abort may arrive and a part may fail at any await, so that no
property follows from the last step alone. `IInv` is `TypeOK` and

- `LogAtPlace`: the log is a `Transcript` of the calls started and the results
  committed: those calls, those results, in model order, a result behind its call.
  A result that was logged when its context could not be staged is the one
  exception. An append extends a transcript by one; that is a chain of lemmas over
  sequences that needs no induction, because it speaks of the places of a log;
- `GroupAtPlace`: what the cursors of a group have passed, that a group begins
  and ends with everything committed and its pool empty, and that its calls were
  started in its mode. The first gave the group its mode and is started before the
  registry can change; each later one passed `StaysParallel`;
- `CallsAccounted`: each started call is being prepared, runs, waits in a slot, or
  is committed. `EveryCallAnswered` and `NothingLeftRunning` come from it;
- `SchedulerAtPlace`: what the scheduler knows of aborts, failures and the size of
  its pool at each place. `LimitsOverlap` takes the limit from it and the exclusive
  body's solitude from `GroupAtPlace`.

### The write path

`SessionQueues_proofs` proves, for every set of flushes and every bound on events (at
least one) and failures:

| Theorem | Statement |
|---|---|
| `WriteTypeCorrect` | `WriteSpec => []WriteTypeOK` |
| `WriteInvariant` | `WriteSpec => []WriteInv` |
| `ImplementsDurableQueue` | `WriteSpec => KeepsTheQueue`: the write path implements `DurableQueue` |

`WriteInv` is `WriteTypeOK` and

- `QueueAtPlace`: the batch under way and the queue behind it are the latest events,
  in order, also after a failed batch was put back in front;
- `StoreAtPlace`: the store holds a prefix of the events that covers all that left
  the queue. Seed and queue may overlap while the init is pending, which is why the
  two parts do not simply add up to the log;
- `BarrierAtPlace`: a joined flush is behind a barrier, a barrier behind a ready
  init, and no write is in the works when a barrier or the automatic path looks at
  the queue. Without it a second write could take the queue over a batch that is
  still to fail, and the restored batch would be out of order.

`FreshIsSuffix` says that the filter of `appendLiveBatch` keeps a suffix of a batch
in log order, whatever part of it the init has stored. The refinement maps
`enqueue` to `Accept`, a stored write and the init to `Persist` (or to a stutter,
when they store nothing new), a call of flush to `Ask`, and the end of a barrier to
`Resolve` of all flushes behind it, whose guard is that the queue is empty; every
other step cannot be seen (`View`).

### The inbox

`SessionQueues_proofs` also proves, for every set of messages and every length of the
log:

| Theorem | Statement |
|---|---|
| `InboxTypeCorrect` | `Spec => []TypeOK` |
| `RestartRebuilds` | the invariant `ReplayRebuilds` |
| `NotifiedAsPending` | the invariant `PendingAsNotified` |

`InboxInv` is `PendingAsNotified`, the range of the counts, and `LogReplays`: every
prefix of the log replays to lists in which no message is twice (`Replays`), the next
splice is valid for them and changes something, and the whole replays to the live
lists. It speaks of every prefix because a restart may keep any; with the live lists
alone a `Restart` would lead out of it. Identities have to be distinct across both
lists, and at every prefix, for a splice's removals to be counted once.

The argument goes through what one splice does to the set of pending messages and to
their distinctness (`SplicedElements`): the removed ones leave, the inserted ones,
which no other position holds, come. `MutateBothStep` uses it twice, and
`TwoListsStep` adds that taking out all of `next-step` leaves `next-turn` as the second
splice finds it.

### Recursion over the log

`Replay`, `TraceOf` and `Scan` recurse over a log's length. The library's induction
theorem takes the predicate as an operator parameter, which the provers cannot
instantiate. Two facts replace it, in both modules that need them: `LeastElement`, that
a set of naturals that is not empty has a least one, from the library's theorem that
strict inclusion is well founded on the finite subsets of a set; and `SetInduction`, that
a set with 0 and all successors is `Nat`. With it a function that solves the
recursion's equation exists (`RunExists`), two of them agree as far as their logs do
(`RunsAgree`), and the recursion applies the last event last (`ReplayAppend`,
`TraceOfAppend`, `ScanAppend`). Everything else about a log follows from these, one
event after another.

### The repair of an interrupted turn

`SessionRepair_proofs` proves, for every set of calls, any length of the log and any
number of crashes:

| Theorem | Statement |
|---|---|
| `TypeCorrect` | `Spec => []TypeOK` |
| `FlushedSurvives` | the invariant `AckedSurvives` |
| `StartedIsReported` | the invariant `RanIsNeverNotStarted` |
| `RepairedIsAccepted` | the invariant `RepairBalances` |
| `InterruptedIsAnswered` | the invariant `InterruptedCallsAnswered` |
| `TraceIsBalanced` | `Log!Spec => []Balanced`, for the companion alone |

A crash forgets everything but the file, and what is in the file is some prefix of a
log, perhaps with some closers of an earlier repair. An invariant that says where the
loop is would therefore be lost at every crash. Instead a log is `Legal` when each of
its events fits where it stands: the companion accepts it, a message is the first event
of its step and names no call twice, calls start in the order of their message and
never behind a synthetic result, and results come in that order. A prefix of a legal
log is legal, and one more event that fits keeps it so. `IInv` is

- `LogsLegal`: the log in memory, and what a load would read (`stored \o recovered`), are
  legal, and the live trace is the log's;
- `StoreKnown`: acknowledged events are a prefix of the store, the store with the write
  in flight is a prefix of a live log, and a loaded log is what was read and its closers;
- `LiveStep`: the open step of a live log has no synthetic result, so that the loop may
  start calls in it;
- `RanKnown`: a body ran only for a `tool/call` that was acknowledged;
- `Sequences`, the types.

What is `Known` of a legal log is proved by induction over its length (`LegalKnown`):
the scan's cursor and the companion's trace agree on what is open (`Places`), numbers
are not used again (`Numbered`), the message of a step that has not ended is of the
open step (`MessagesOpen`), no call is both started and reported as not started
(`NeverBoth`), and `StepKnown`: in an open step either there is no message yet, or there
is one whose first `k` calls are answered in order and whose first `c` were started,
the scan's pending calls being the others with that mark. `StepKnown` also covers a
step that is part answered by the loop and part by an earlier repair that was
interrupted itself, where `k` may exceed `c`.

From there each synthetic result fits behind the one before it (`ResultsFit`), then
`step/end` and `turn/end` do (`RepairFits`), so that a loaded log is legal and nothing is
open in it: `RepairedIsAccepted`. The results since the message being the first `k`
for `k` the number of its calls is `InterruptedIsAnswered`. `StartedIsReported` is
`NeverBoth` at a log that `FlushedSurvives` says the acknowledged call is in.

`TraceIsBalanced` is about the companion by itself, `SessionTrace!Spec`: between its
events a step is open only in a turn, calls pend only in a step, and what is open is
what the next event counts. The boundaries the driver appends are steps of it (`DriverImplementsTrace`).

### Session preparations

`SessionPreparations_proofs` proves, for all sets of sessions and callers, whatever
they ask for, and every capacity that is not zero:

| Theorem | Statement |
|---|---|
| `TypeCorrect` | `Spec => []TypeOK` |
| `Invariant` | `Spec => []IInv` |
| `ReservationsHold`, `NoLiveLocks`, `WaitersHaveHolders` | the invariants `ReservationHolds`, `LiveIsNotLocked`, `WaiterHasHolder` |
| `CacheIsBounded` | no more entries are ready at once than the capacity; no run has this as a property |

The module assumes that the constants have their types and that `None` is none of the
values it stands in for. `IInv` is `TypeOK`, that a call under way has an identity and
a kind, and, for each session,

- `OpsAtPlace`, `HeadAtPlace`, `LoadsAtPlace`: a queued commit or check belongs to
  a caller that awaits it and has no other, what runs is at the head, and the read of
  an entry stands behind every commit of an earlier entry;
- `CommitsAtPlace`: a commit that is queued once the entry has been read is for that
  entry. So a commit that outlived its entry's removal cannot run under the lock of
  the next one;
- `HoldersAtPhase`: an entry is locked exactly as long as one caller has it for a
  commit or as a reservation;
- `WaitersAtPhase`, `ReadersAtPhase`: a reservation is never lost to its caller, who
  waits does so for a lock, and who is about to look at an entry finds it read;
- `AppendsFirst`, `SourceIsCurrent`: an append that has begun ends before the holder's
  commit, and so what a commit returned is still what is stored. It follows that an
  entry with a bound holder is not invalidated by a writer;
- `LiveIsUnpooled`: the entry of a live session has left the pool.

A step acts on one session and reaches others by evicting their ready entry, so each
action has one lemma about its own session; `OthersKeep` says for all of them that a
session whose ready entry goes, and whose callers stay as they were, keeps its part.
What the pool's operations do is stated once each (`Evicts`, `FreesEntry`), and so is
what wakes callers (`Woken`). `CallerRoams`, `ReserveWaits`, `WaiterLeaves`,
`HolderLeaves` and `StrangerLeaves` are the ways of a caller through its call, and the
actions are cases of them.

`CacheIsBounded` has an invariant of its own, `Fits`, about the pool as a whole: its
keys are finitely many, `pool.before` orders them totally, and the ready ones are within
the capacity. `touch()` removes at most one entry, so it matters that one ready entry
is the oldest. `OneIsOldest` finds it without induction: among the sets of those before
a ready entry, one contains no other, since strict inclusion of finite sets is well
founded. `PoolSteps` says that a step uses the pool only by its operations and on
entries that are there, which rests on `IInv`: a reservation given back still has its
entry.

`AppendContinuesLog`, which finding 1 refutes, is not part of it: a log with two
events at one place is a state of the model, and the theorems hold there too.

### Background jobs

`LocalJobs_proofs` proves, for every set of jobs (not empty) and owners, every
finite set of waits and every limit that is not zero:

| Theorem | Statement |
|---|---|
| `TypeCorrect` | `JobsSpec => []JobsTypeOK` |
| `Invariant` | `JobsSpec => []IInv` |
| `ReportsOnce`, `GoneLeavesNothing` | the invariants `ReportedOnce`, `GoneOwnsNothing` |
| `TeardownAnnouncesNothing` | the action property `TeardownIsSilent` |

Waits are finite because a record counts them. `IInv` is `JobsTypeOK` and

- `WaitsAtPlace`: a wait is counted from its await to its `finally` or its abort, and
  a record holds the number of its counted waits;
- `EndsAtPlace`: what was announced had nobody waiting, and a suppressed notice is
  owed by a wait that is about to return it. `ReportedOnce` is its consequence;
- `JobsAtPlace`: a live job is known to the registry, and only one whose cancel threw
  is over before its producer is;
- `OwnersAtPlace`: an owner of a job has its cleanup attached while it lives, has all
  of its jobs under its drain, with their reports claimed, while it drains, and none
  when it is gone. The claimed reports make a teardown silent.

What the operations do to a record is stated field by field, in a lemma for each.

### Goals

`GoalRounds_proofs` proves, for every set of prompts, every set of limits that are
not zero, and every `MaxRevision`:

| Theorem | Statement |
|---|---|
| `Invariant` | `GoalsSpec => []IInv` |
| `OneRoundAtATime` | the invariant `OneReservation` |
| `CancelIsHeeded`, `UnloadDrains` | the action properties `CancelStopsGoal`, `NoRoundAfterUnload` |

A step is a function from worlds to worlds, so the invariant is a predicate of a
world. `IInv` is `Good(World, ~maintained, halted)`, which says that the world is
typed and

- `RoundsAtPlace`: no round steers a step, a batch has one at most, none is of a
  revision to come, and a batch is under way only before its step;
- `DrainIsClean`: while an unload drains no round waits and a claimed one is
  aborted. `NoRoundAfterUnload` is its consequence;
- `AtMostOne` and `PresentIsReserved`, while no maintenance task has run: a round of
  the present revision is alone, and is the one the driver has reserved as long as
  the goal may continue. Without the second, a drive at an idle agent could reserve
  again behind a round that the driver had forgotten;
- `HaltHolds`, once a turn was cancelled: an armed goal that the driver listens to is
  still in that turn, aborted, or about to lose its authority in `finally`.

The parts' functions compose deeply (`pause()` inside an idle edge inside a turn's
exit), so none is expanded twice. A lemma for each function says by a relation
what it does to the fields these predicates read (`Alike`: nothing; `Shed`: the goal
stops; `Dropped`: the reservation goes, with its queued round; `Reserved`, `Claimed`,
`Prompted`, `ClearedFrom`), a lemma for each relation says that it keeps `Good`, and
the ways out of a turn have a weaker predicate (`Ending`) because they leave the
batch. A lemma for each action composes them.

### Checked by TLC only

- The liveness properties: fairness and ENABLED are out of the prover's reach.
  They are `CancelConverges` and `LatchedWakeReplays` (driver), `Terminates`
  (tool_calls), `LoadCompletes` (repair), `TeardownCompletes` (jobs), `GoalContinues`
  (goals), `TeardownSettles` (lifecycle) and `WorkIsWritten` (write_behind).
- `GoalsTypeOK`, and with it that the bound `Copy` leaves a copy for each round
  message: that is about the bound. The proofs of `GoalRounds` type a message with
  any copy.
- What the three runs of section 6 show, since a counterexample is one.

Every invariant and every action property that a passing run checks is stated by a
theorem, and so are both refinements.

## 5. Hazards

`PROJECT.json` lists what is hard to test in this code, each at its line with
the properties that cover it. Those that remain without a property, and what else
the models do not reach:

- A send in the microtasks between the driver's last look at the queue and its
  exit (`agent.ts:324`) is neither claimed nor latched. The repository's notes on
  cancellation accept this; `LateWakeIsLatched` therefore speaks of aborted and
  maintenance activities.
- A cancel without `keepInbox` from inside a `session/event` listener throws in
  `clear()`, whose append may not be re-entered, before it aborts
  (`agent.ts:136`). The model takes no caller's step there (`InsideAppend`).
- A `keepInbox` cancel made by a `turn/end` listener comes too late for the
  driver to keep the work parked, and one made in maintenance keeps an earlier
  latched wake.
- A failure of the scheduler itself leaves recorded calls without a result in a
  step that closes normally, as documented.
- A failed JSONL append whose rollback fails too leaves a torn frame in front of
  the retried batch. A crash between the truncation and the append of a repair
  loses events decoded from the torn tail, none of which was acknowledged.
- A `prepare` or `load` made in the same job as a session's disposal can reach
  `committing` before the final drain's append begins; `assertWritable` then
  refuses that append and the retirement fails, until the teardown of the
  backend retries it. `LiveIsNotLocked` is stated for sessions that are live.

## 6. Findings

Each is a run that TLC ends with a counterexample.

1. `stale_cursor` / `AppendContinuesLog`
   (`session/session-persistence/src/coordinator.ts:945`). A session that is
   tracked without an owner is left with an open turn. `load` repairs it:
   `commitPrepared` writes the closers and returns `undefined`, so that the log is
   read again, but the tracked cursor stays. An append queued behind the repair
   passes `assertWritable`, matches the stale cursor, and is written at the
   place of the first closer. The comment at line 697 states the contract that
   this breaks.
2. `disposal` / `DisposalStartsNoDriver` (`core/agent-loop/src/agent.ts:178`).
   The first abort reason wins. After a user cancel, the disposal's cancel does
   not change it, so that a waking send still latches and a fresh driver is
   started, which teardown then waits for. The comment above says that disposal
   never latches.
3. `stale_round` / `AdmittedRoundIsReplayable`
   (`goal/goal-round-driver/src/index.ts:401`). The fence's second check is made
   when the listeners behind it have returned; the round is logged when those in
   front of it have returned too, and the base bundle registers two that await
   there. A change of the goal in between puts a round into the log that the
   goal fold refuses, at once and at every replay.

### Divergences without a run

They were met while reading; the properties are stated so as not to depend on
them.

- The signal is not looked at between `preStep`'s return and the exits of `turn` for
  a rejected or empty step (`agent.ts:267`), so that a turn aborted there is
  recorded as blocked or completed. `core/agent/src/runtime-types.ts:36` says that
  the active turn "is still aborted"; its signal is.
- `agent/request-error` is dispatched inside the open step (`agent.ts:355`);
  `docs/subsystems/core.md:226` says that it runs after the failed step closes.
- *Goals and maintenance.* A maintenance task does not show in `agent.status`. While
  one runs, `drive` takes a reservation that is still queued for a finished one
  and queues a second (the comment at `goal-round-driver/src/index.ts:137` says
  at most one); an edit of the goal pauses it; and a prompt withdrawn meanwhile
  leaves the competing flag set with no idle edge to clear it, so that the goal
  rests. `OneReservation` and `GoalContinues` are conditioned on `~maintained`.
- *A round behind a prompt.* The teardown of the round driver cancels a reservation
  only when `agent.status` is `running`
  (`goal/goal-round-driver/src/index.ts:434`). A round can also wait in the inbox of
  an agent that reads as idle: behind a maintenance task, or behind a prompt whose
  turn failed, which disarmed the goal, so that the idle edge did not pause it. The
  fence goes, the round stays, and a later turn admits it, although the package's
  README says that "no later round starts". `NoRoundAfterUnload` therefore speaks of
  an unload that has cancelled.
- *Two loops.* `requestDrive` assigns `state.run` after its first synchronous
  part, so a mutation made by that part starts a second loop beside the first
  (the comment at line 207 speaks of one). The model has both.
- *Provider unload.* Agent scopes are children of the loop's fiber, whose unload
  disposes them beside `ownership.dispose()`, while drivers still drain. The
  README of `core/agent-loop` and a comment in `agent.ts` say that a scope
  outlives its driver; `DriverBeforeScope` is conditioned on the provider.
- *Owner unload.* The owner's effect returns nothing when a `dispose()` has begun
  already (`index.ts:530`), so that this unload does not wait for it, although
  the comment above says so.
- `dispose()` assigns its memo after its synchronous part, so a re-entrant call
  runs that part twice, without harm.
- A job's completion notice (`tools/tool-jobs/src/index.ts:279`) can be stranded
  when the turn it was sent to is aborted. Notices are not modelled.

## 7. What is done and what is left

The first ten are done.

1. `SessionTrace`, `AgentDriver`, `AgentDriver_proofs`
2. `ToolCalls`, `ToolCalls_proofs`
3. `Inbox`, its proofs in `SessionQueues_proofs`
4. `SessionRepair`, `SessionRepair_proofs`
5. `SessionPreparations`, `SessionPreparations_proofs`
6. `AgentLifecycle`, `AgentLifecycle_proofs`
7. `LocalJobs`, `LocalJobs_proofs`
8. `GoalRounds`, `GoalRounds_proofs`
9. Runs that show the findings
10. `DurableQueue`, `WriteBehind`, its proofs in `SessionQueues_proofs`
11. `ScheduleRuntime`, `UserApproval`, `LlmRetry`, subagent continuation: each one
    listener of the driver's events with a race of its own.
12. Creation and hot-reload adoption in the coordinator; configured agents in the
    factory.
13. `ConsumedWork`: the fold over the log against a reference definition.

### Not modelled

Most of the repository's code is not of the kind that a state machine says
something about: the web client, the transports of the host (gateway, SDK, ACP),
generated catalogs and the type registry's generator, adapters of model
protocols, and the tools' operating-system I/O. They hold no state that the
core's properties depend on, and they reach it through the operations that the
models let any caller make at any time. The modules therefore cover the
coordination core densely and only a small share of all lines, which is a limit
of this development and not an estimate of what was verified elsewhere.
