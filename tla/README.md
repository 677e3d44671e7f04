# KaryaKram in TLA+

A model of the durable workflow engine in this repository: what its task queue,
its event store and its handlers do, step by step, model-checked with TLC on
small instances and, for their safety properties, proved with TLAPS for instances
of any size.

Read in this order: `TaskRows`, `TaskQueue`, `AtLeastOnceQueue`, `Engine`, `Replay`,
`StepHandlers`, `DurableStep`, `ChaosRun`, `Worker`, `LeaderElection`, `EventStream`; then
the `*_proofs`, of which `TaskQueue_proofs` is the easiest. `MC*.tla` and `*.cfg` only give
values to constants.

## The system

One Postgres database holds all the state that survives; processes share
nothing else.

| component | state | operations | modelled in |
| --- | --- | --- | --- |
| task queue (`db/queue.ts`, `db/dlq.ts`, the `tasks` migration) | table `tasks`, the unique index `one_workflow_task_per_wf` | enqueue, dequeue, heartbeat, complete, fail, reclaimExpired, isLeaseOwned, requeueDeadTask | `TaskRows`, `TaskQueue` |
| worker (`worker-sdk/worker.ts`) | `running` map, poll and heartbeat timers | pollOnce, dispatch, sendHeartbeats, stop | `Worker` (one process from the inside), `TaskQueue` (several around the table) |
| reaper (`worker-sdk/reaper.ts`) | a timer, `stopped` | start, tick, stop | `LeaderElection`, `TaskQueue` (what a tick does) |
| event store (`db/eventStore.ts`) | `workflow_events`, `workflow_executions.status` | appendEvents, getEvents | `Engine` |
| state machine (`core/workflow.ts`) | none, a fold | foldEvents | `Engine` (status), `Replay` (steps) |
| replay (`core/replay.ts`, `core/llm.ts`) | none, a function of history | replay | `Replay` (all of it), `Engine` (activities, timers and signals among interleaved passes) |
| handlers (`worker-sdk/*Handler.ts`) | what they read before they write | workflow, activity, timer; llm, tool | `Engine` (the first three), `StepHandlers` (the others), `Replay` (storing and recovering an LLM request) |
| callers (`startWorkflow`, `sendSignal`, `cancelWorkflow`) | none | one append each, startWorkflow two transactions | `Engine` |
| leader election, scheduler (`scheduler/`) | advisory lock, connection, `leader`, timers | connect, attemptAcquire, handleDisconnect, stop | `LeaderElection` |
| API and SSE (`api/server.ts`, `api/bin/serve.ts`) | `lastSeq` and an interval per stream | history, stream, poll, shutdown | `EventStream` |
| debugger (`web/`) | the page's events, its EventSource | useWorkflowEvents, replayedStepSeqs | `EventStream`, `Replay` |
| chaos harness (`worker-sdk/chaos`, `faults.ts`, `examples/supportTriage.ts`) | evidence in `provider_call_audit`, `side_effects` | one run: kill, recover, audit | `ChaosRun` |
| LLM provider client, observability, benchmarks, demos, deployment | - | - | not modelled |

How they interact. A caller or a handler appends events; `appendEvents` locks
the workflow's row, so that appends to one workflow are serial, and in the same
transaction inserts one task per scheduling event and one workflow task, unless
the index refuses it because one is pending or leased. Workers poll, lease rows
and run handlers; a handler reads the history in one statement and appends in a
later transaction. After the handler settles, `dispatch` calls `complete` or
`fail`. The reaper puts rows whose lease ran out back to pending.

What is hard: a handler works on a history that others extend meanwhile; a
worker that is slow and not dead runs on after its lease was given away; a
process dies anywhere; a transaction commits and its response is lost; a wakeup
is dropped because one is under way. `PROJECT.json` lists these hazards at
their lines.

## TaskRows, TaskQueue, AtLeastOnceQueue

`TaskRows` is one row of `tasks` and what each SQL statement does to it, one
operator per statement (`LeasedTo`, `Completed`, `Failed`, ...). Both state
machines use it. Time is reduced to what the statements compare with `now()`:
`due` (`run_after <= now()`) and `overdue` (`lease_expires_at < now()`) become
true by steps of their own, so nothing is assumed about how long anything takes
relative to a lease.

`TaskQueue` is the table with the workers, the reaper and the operator around
it. `invs` holds the running handler invocations: `dispatch`'s closure, with the
attempt it was handed, and where it stands (`running`, `returned`, `threw`).

| action | code |
| --- | --- |
| `Enqueue`, `RequeueDead`, `Reclaim` | the statements, with the unique index |
| `Dequeue`, `DequeueLost` | `pollOnce`, with the response arriving or not |
| `Heartbeat`, `LeaseRunsOut` | `sendHeartbeats`, and what happens without it |
| `HandlerReturns`, `HandlerThrows`, `CompleteTask`, `CompleteErrors`, `FailTask` | `dispatch` |
| `Crash` | the process ends (killed, or `drainTimeoutMs` exceeded) |

`complete` and `fail` are guarded by the worker only, `isLeaseOwned` by the
attempt too, as in the code. `epoch`, `fails`, `reclaims` and `handled` are
history variables; no guard but a bound reads them. A worker id may return after
a crash, which covers a configured `workerId`.

`AtLeastOnceQueue` is what a user of the queue may rely on: a task stays open
until it is completed or dead, is completed only after a handler has returned
for it at least once, and completed is final.

### What is checked

`queue` (`MCTaskQueue.cfg`): two rows, two workers, one workflow, two attempts,
one fault (a crash, a lost response or a lease lost by a live worker), one
requeue per row; 301,353 states. Two rows are what it takes to contend for the
index; two workers for a zombie and its successor; two attempts for both
branches of `fail`.

| property | says |
| --- | --- |
| `OneLiveWorkflowTask` | never two live workflow tasks of a workflow |
| `AttemptAccounting` | attempt = failures + reclaims + the current or completed lease |
| `FailureBudget` | at most `max_attempts` failures, and dead once they are used up |
| `OneFencedInvocation` | the fence accepts one invocation between two requeues |
| `LiveLeaseIsRespected` | a lease that has not run out ends only by its owner's worker settling |
| `EveryTaskEnds` | every live task ends completed or dead |
| `ImplementsAtLeastOnce` | refinement of `AtLeastOnceQueue` |

`EveryTaskEnds` assumes weak fairness of what the code reschedules on every
path: the poll loop, the reaper's timer, handlers settling and `dispatch` going
on, clocks. Dequeueing is fair per task because candidates are taken oldest
first. Nothing is assumed of faults and operators, which the bounds make finite.

The run `queue_max_attempts` shows where the code and a comment part:
`reclaimExpired`'s comment promises that a crash-looping task dead-letters after
exactly `max_attempts` dequeues. Only `fail` looks at `max_attempts`, so such a task is
dequeued for ever.

`OneFencedInvocation` speaks of one `epoch`, the time between two requeues, because
`requeueDeadTask` resets `attempt`: a fence from before the requeue can be valid again
for the same worker id, although `queue.ts:381-383` calls the pair a fencing token.

### What is proved

`TaskQueue_proofs` proves every safety property above for `Spec`, for any sets
of tasks, workers and workflows and any bounds (assuming only that
`NoWorker` is no worker, and that the bounds are naturals, `MaxAttempts` positive):
`TypeCorrect`, `WorkflowTaskIsUnique`, `AttemptsAreAccounted`,
`FailuresAreBudgeted`, `FenceAcceptsOne`, `LeasesAreRespected` and the refinement
`QueueIsAtLeastOnce`.

- `OneLiveWorkflowTask` is inductive by itself: only `Enqueue` and `RequeueDead`
  make a row live, under the index's guard, and no statement changes `type` or `wf`.
- `AttemptAccounting` is inductive with the type invariant. `FailureBudget` needs
  it: `fail` compares `attempt`, not the number of failures, so that `fails`
  stays below `MaxAttempts` has to be derived from the accounting, with every
  row's `max` equal to `MaxAttempts`.
- `OneFencedInvocation` needs that an invocation's attempt is at most its row's
  within the epoch, and that two invocations of a task, epoch and attempt are the
  same one: `dequeue` increments `attempt` under the row's lock.
- The refinement needs that an invocation that returned marks its task `handled`.

`EveryTaskEnds` is liveness and is model-checked only.

## Engine

One workflow: its history, its rows of `tasks`, the handlers, the callers.

- `hist`, `tasks`, `exec` are the three tables; `AppendEvents` is the whole
  transaction of `appendEvents`, and event `n` of a history has seq `n`.
- The workflow function is `program`, a sequence of calls in stages: the calls of
  one stage are issued together (`Promise.all`) and all awaited before the next.
  `Matched`, `Answer`, `Commands` and `Decision` are `replay` and the cancellation
  branch before it: calls are paired with events of their lane by position.
- `ReadHistory` and `AppendDecision` are the two halves of the workflow handler.
  `seen` is how much of the history it read; it decides from that prefix, however
  long the history is when it appends. `ReadForActivity` and `AppendOutcome` are the
  activity handler; the timer handler does not read.
- An append commits and its response may be lost (`AppendAndReturn`); a query may
  fail before anything is committed (`HandlerErrors`); a process may die (`Crash`).

Leases are coarser than in `TaskQueue`: a lost lease is reclaimed in the step that
loses it and a delayed row is dequeued whenever its time has come. Left out are
values, LLM and tool steps, and several workflows, which share only the workers.

### What is checked

| run | programs and environment | properties |
| --- | --- | --- |
| `engine` | `waitForSignal(); a()` with a call and a fault; `Promise.all([a(), waitForSignal()]); b()` with a call; `Promise.all([a(), sleep()])` with a call or a fault; an activity or a timer with a lease lost by a live worker; 914,507 states | `OneTaskPerStep`, `OneOutcomePerActivity`, `LanesFollowProgram`, `OnlyMissedWakeupsStrand`, `EndedStaysEnded`, `EveryStepSettles` |
| `engine_stranded` | no fault at all | `NeverStranded`, refuted |
| `engine_final_outcome` | one cancellation | `FinalOutcomeStands`, refuted |

A call is a signal or a cancellation, at any time after the row exists, the gap
between startWorkflow's two transactions included. A fault is a crash, a failed
query or a lost response.

- `OneOutcomePerActivity` and `LanesFollowProgram` hold as long as no live worker
  loses a lease, through any crash or redelivery: the activity handler's guard and
  the index are then enough. With a stall neither holds, because neither handler
  fences its append; the code documents this for activities
  (`docs/01-task-queue.md:173-190`).
- `OnlyMissedWakeupsStrand` says what can leave a workflow running with nothing to
  wake it: only an event appended between a workflow handler's read and its
  `complete`. `engine_stranded` shows that this does happen, without any fault. `Stranded`
  speaks of workflows whose tasks are all completed: one that waits behind a dead task
  is the operator's, who may requeue it, and is outside the property. So is a workflow
  whose `startWorkflow` was cut short.
- `AppendEvents` is one action because it is one transaction: a half of it is not explored.
- `EveryStepSettles` is checked under weak fairness of polling, handlers and the
  reaper, with `Orphaned` rows reclaimed. Symmetry is not used there.
- `engine_final_outcome`: an activity outcome that arrives after `WorkflowCanceled`
  wakes the workflow, which replays to its end and appends `WorkflowCompleted`.

### What is proved

`Engine_proofs` proves `TypeOK`, `OneTaskPerStep`, `OneOutcomePerActivity` and
`EndedStaysEnded` for any workflow function, any workers and any bounds on the
environment, from `ScenariosAssumption` (programs list their calls by stage, budgets are
naturals) and `NoWorkerAssumption`.

- `OneTaskPerStep` is `StepTasks`, inductive with the types: `StepRows` of a batch are in
  bijection with its scheduling events, whose seqs are new, and the statements on a
  row keep its type and its seq.
- `OneOutcomePerActivity` is not inductive. While no live worker has lost a lease, a
  task has one invocation, whose worker holds the lease (`Alone`: a pending row has
  none, and a row is reclaimed only when its invocation is gone). An activity function
  that runs, or has settled unrecorded, is one without an outcome (`Undecided`), because
  only its own invocation could have recorded one since it looked, and `StepTasks` says
  that no other task records for the same event. So an append adds a first outcome
  (`Single`).
- `EndedStaysEnded` needs that a final status has its event in the history
  (`EndIsRecorded`): `foldEvents` finds it wherever it stands.

The second half of the module proves `LanesFollowProgram` and `OnlyMissedWakeupsStrand`, from
the same assumptions. Sorted lanes are inconvenient to reason about, so both proofs speak of
ranks: the rank of an event in its lane is its position there (`RanksOrder`, `Follows`).

- A handler decides from the prefix that it has read, and appends to a history
  that may have grown. `LanesFollowProgram` therefore needs that nothing was scheduled in
  between (`DecidedOnLanes`), which the index gives: one live workflow task
  (`OneWorkflowTask`) and, while no live worker has lost a lease, one invocation of it.
  Then the new steps take the next ranks of their lanes (`StepsTakePlace`).
- `OnlyMissedWakeupsStrand` needs to know when a replay would append nothing (`Settled`).
  While no wakeup was missed, a workflow task is pending, leased or dead, or nothing is
  left to decide (`Awake`); a handler about to append has read all there is, and one that
  has returned left nothing to decide (`UpToDate`). The last is a fact about `Decision`:
  after its own events it is empty, because a call just scheduled is unanswered.

`EveryStepSettles` is model-checked only.

## Replay

`replay` in full, with the code that feeds and reads it. A program is a set of branches
that run concurrently, each a sequence of awaits; a workflow without `Promise.all` has
one. `Made(h, p)` is the set of calls that one `replay` makes on history `h`: each branch
takes a turn per microtask tick (`TakeTurn`), up to `MAX_DRAIN_TICKS`; `MakeCall` pairs a
call with the event of its lane at the same position; `Answer` is what the call's promise
does. `Decision` adds what `createWorkflowReplayHandler` appends: nothing for a
`NonDeterminismError`, which is thrown and retried, `WorkflowFailed` for a
`StepRequestMismatchError`.

| action | code |
| --- | --- |
| `ReadHistory`, `AppendDecision`, `PassDies` | the workflow handler's two halves, and a crash in between |
| `StepSettles`, `LlmSettles`, `SendSignal` | outcomes and signals |
| `Deploy`, `Retire` | workers of the next version of the function start, those of the oldest stop |

`BuildStoredRequest` decides what of a prompt is stored, `ResolveRequest` recovers the
request from a full copy or by replaying, and compares hashes. A request is a name and
a spelling (optional fields absent or given), and `Canonical` is what the hash sees of it.
`FoldEvents` and `ReplayedSteps` are the debugger's reading of the same events.

The run `replay` (`MCReplay.cfg`) takes seven programs of one or two branches
with two signals and an activity that may run twice; one program longer than the
draining, one whose failure stops the draining of another branch, and one whose activity
fails after the workflow went on from its answer; and pairs of versions with each way of
storing prompts. `DrainTicks` is 7,
so that three awaits in a row are drained in any case and five are not; the code's 1000 is as far from a
program's length as 7 is from these.

| property | says |
| --- | --- |
| `DecisionsAreRederived` | every recorded step is paired with the call that asked for it, on every later history |
| `AnswersMatchRequests` | what the running code sees answered was asked of a provider as this code asks it, and nothing else was |
| `NeverStuck` | a workflow that waits for nothing has a next decision |
| `DebuggerAgrees` | the debugger shows each step as replay sees it, and marks as replayed what a decision was made from |

Their exceptions are what the code does:

- `docs/03-replay.md:53-56` says that a fresh pass re-derives every earlier decision. Two
  branches that each make later calls of one lane (`Promise.all` of two chains of
  activities) race: which one schedules first depends on whose first step is
  answered first, and a pass that sees both answers pairs them the other way round.
  The workflow then diverges from itself. An activity that ran twice may change its
  outcome, since the last one wins: the calls made after its success are not made again
  when a failure follows. And a workflow that fails stops the draining, so that steps of
  other branches are not asked for again.
- `NeverStuck` leaves out a changed activity type, whose error is retried to the dead-letter
  queue by design, and programs longer than the draining, which get `RUNNING` for
  ever.
- The `replayed` mark of `llmView.ts:41-61` is exact for a workflow with one branch. With
  several steps in flight, a completion that no pass has read is marked as soon as
  a decision made from an older history is appended.

There is no fairness and no liveness here: `Engine` has that.

### What is proved

`Replay_proofs` proves the type invariant and all four properties for any programs and
versions, any number of branches, signals and repeated activities and any
`MAX_DRAIN_TICKS`, from `ReplayAssumption`.

- `Made` is a recursive function on turns. That it exists is shown by induction (`UpTo`,
  from the well-foundedness of the natural numbers), and from then on it is known by
  what it returns (`MadeTurnByTurn`): a call is made at a turn exactly when the calls
  before it let its branch go on, and is paired by the number of those in its lane.
- `AnswersMatchRequests` needs `IInv`: events are of the form that the handlers give them
  (`HistoryFits`), providers were asked what the history says (`SentTruly`), and every
  completion is one of theirs (`Asked`). That the running code asks the same is what
  `Differs` compares.
- `NeverStuck` is a fact about `Decision` on any history: the calls of a branch are made one
  after another (`CallIsMade`), so that if all are answered the function has returned.
- `DecisionsAreRederived` needs `Follows`: each request is the call of some turn, has
  the place of that turn in its lane, and was recorded when the earlier calls of its branch
  had been answered. When only one branch goes on in a lane, the place of a turn
  does not depend on what has been answered (`PlaceOfCall`), so a request is paired
  with its call on every later history (`PairedAsAsked`, `AskedAgain`). That a decision
  keeps it so (`FollowsAfterDecision`) needs `Quiet`: nothing was decided between a pass's
  read and its append, and what else arrives leaves the lanes of steps alone. The model has
  one pass at a time; that the engine has no other either, while no live worker loses
  a lease, is proved of `Engine` (`DecidedOnLanes`).
- `DebuggerAgrees`: the fold shows the last outcome of each step (`FoldShows`, by
  induction over the events). Of the marks it needs that a pass that will decide
  has read every completion (`DInv`): with one branch nothing is decided while a step is in
  flight (`OneStepInFlight`).

## StepHandlers

One LLM or tool step, and the invocations of its handler. Here a transaction is
several steps, because what the handlers promise rests on locks:

- `Locked`: `isLeaseOwned` takes the row lock, which an invocation keeps from
  `Fence` to `Commit`. Meanwhile `complete`, `fail` and other fences wait, and the
  reaper skips the row.
- `claimed`: the ledger entry of `claimToolExecution`, kept from `Claim` to the end
  of the transaction; every other claim waits.

| action | code |
| --- | --- |
| `ReadHistory`, `Refuse` | both handlers up to the call or the transaction |
| `CallProvider`, `Succeeds`, `Fails` | `provider.complete`; the tool's handler |
| `BeginTool`, `Claim` | `executeAtomically` up to the tool's handler |
| `Fence`, `Commit` | `appendStepOutcome`, the end of `executeAtomically` |
| `QueryErrors`, and the second half of `Commit` | a failed query, a lost response |
| the queue's actions | as in `TaskQueue`, leases as coarse as in `Engine` |

`Failure` is the policy of both handlers: retry what may be retried, else record the
failure, and throw too when the attempts are used up. In a tool step any error
inside the transaction but a lost lease counts as a failure of the tool that cannot be
retried, a failed query too (`Interrupted`, `toolHandler.ts:122-146`).

The run `steps` (299,022 states) takes two workers, two attempts and pairs or
triples of faults: crashes, failed queries, leases lost by a live worker, requeues.

| property | says |
| --- | --- |
| `EffectIsReported` | a tool's effect at most once, with an outcome, and the one that is reported |
| `CompletedIsAnswered` | a completed task has an outcome |
| `DeadIsAnswered` | a dead one too, unless a query failed or a live worker lost its lease |
| `NoCallOnceAnswered` | no call for an answered step, unless a live worker lost its lease |
| `ImplementsDurableStep` | the step behaves as `DurableStep` says: among others it has one outcome (`OneOutcome`), even with zombies of a former life whose fence is valid again |
| `StepEnds` | nothing waits for a lock for ever |

`DurableStep` is the step as a workflow sees it, without tasks, leases, workers or
transactions: calls may be many; one of those that were made answers the step, or a
failure does, once and for good; a tool's effect appears in the same step as the answer
that reports it. The refinement maps its answer to `outcomes`, its effect to the ledger
entry once for each of `effects`, and its reopening to a requeue, after which an
effect may follow a recorded failure.

`OneOutcome` needs the lock and the second look at the outcomes, not the token: it holds
although the token repeats after a requeue. After a requeue, a tool's effect may
be committed although TOOL_FAILED was recorded in the former life, which
`EffectIsReported` leaves out.

What `DeadIsAnswered` leaves out does happen: `fail` compares the worker and not the
attempt, so an invocation that lost its lease and throws kills the task under the last
attempt, whose outcome is then refused by the fence. The task is dead and the workflow
waits for an outcome that does not come (`fencing.ts:14-15` takes this `fail` to be
harmless).

`StepHandlers_proofs` proves every safety property above for any workers,
`max_attempts` and bounds on the faults, from `NoWorkerAssumption` and
`LimitsAssumption`; `StepEnds` is model-checked only. None is inductive.

- `OneOutcome`: an invocation past its fence appends if its look found nothing, so the
  invariant adds that the row lock has one holder (`OneFenced`) and that what the
  holder saw still holds (`LookHolds`). The token is not used, which proves the remark
  above.
- `CompletedIsAnswered`: a handler returns only from an answered step
  (`ReturnedIsAnswered`).
- `EffectIsReported` (`Accounted`): a claim is made before there is a ledger entry and
  excludes other claims, what a later invocation reuses is the entry, and the fence
  accepts who holds the lease. In the first life the token of anyone late is too old.
- `DeadIsAnswered` and `NoCallOnceAnswered` (`Alone`): while no live worker has lost
  a lease there is one invocation, and it has the lease.
- `ImplementsDurableStep` (`Traceable`): what an invocation is about to record, and the
  ledger, are answers of calls that were made. With `Accounted`, a `Commit` is
  a `Complete`, a `GiveUp`, a `CommitLate` or a stutter.

Most steps change none of this, and `QuietStep` deals with them at once; `Fence` and
`Commit` have lemmas of their own.

## ChaosRun

One run of the chaos harness, which is the system in small: a workflow worker, an LLM
worker and a tool worker in one process (`llm-agent-app.ts`), the triage workflow
(LLM, tool, LLM, tool), a kill at an armed point, a second process, the reaper, and an
audit by evidence that the engine does not write. This module composes the queue, the
replay handler and the step handlers; each is coarser than in its own module, because
here a lease is lost by death only.

- `rows` and `pcs` are the tasks and where the running process is with each. The points
  of `faults.ts` lie between the steps of a handler: `MaybeFault`.
- A killed process has queries on their way. `ghosts` are those that Postgres
  may still execute: any subset of what the handlers had sent, before the leases run
  out. A COMMIT may so take effect after the harness has looked at the clock.
- `Window` and `Violations` are the harness's classification of provider calls and its
  checks: `killedAt` records what its timestamp comparisons will say (an event's
  `created_at` is the time its transaction began).

The run `chaos` (208,790 states) takes the four steps and every fault point, at the
first and the second hit, as the harness draws them.

| property | says |
| --- | --- |
| `RunIsClean` | wherever the kill falls: completed, effects once, provider calls as promised for their window |
| `RunEnds` | the run comes to its audit |

`RunIsClean` has two exceptions, both needed. A wakeup may be missed (the finding of
`engine_stranded`; it needs no fault): the workflow then stands still, and the run reports a
`TIMEOUT` with whatever it did not come to, the fault point, effects and calls. This
excuses every violation the audit reports, so the property says apart from it that nothing
is there twice (`NothingTwice`). And an audit row of the dead process may be
inserted after the harness took its timestamp: two calls of a step that looks as if it was
first called after the crash.

`ChaosRun_proofs` proves `RunIsClean` for any sequence of LLM and tool steps, any points
and any hits, from `ChaosAssumption` and `FaultsAreReached`: the harness arms a hit that
the workflow comes to. Without that it reports that the fault never fired, as it
should; its own choice, the first or second hit in a workflow of two LLM and two tool
steps (`chaosRunner.ts:243`), satisfies it. The invariant follows the one step that may
be under way:

- requests and outcomes alternate, a handler that is about to answer is that step's
  (`HandlersFollow`), and so is a query of the dead process (`GhostsFollow`), which finds
  the row leased and no handler on it: the reaper waits for the lease to run out;
- until the harness looks at the clock a provider has been called at most once
  (`FirstCalls`), after that at most once more by the second process, and only if the
  first call's answer was not committed (`SecondCalls`);
- unless a wakeup was missed there is a workflow task while something can be decided
  (`Awake`), so that a process with nothing left to do has ended its workflow;
- the hits are as many as the steps that have passed the armed point (`HitsCounted`). A
  process that the harness has to kill has therefore missed a wakeup (`KilledInVain`),
  or the fault would have fired.

`RunEnds` is model-checked only.

Fairness: workers poll, handlers and queries settle, the reaper ticks, a query of the
dead process is executed or lost, and the harness goes on. Its timeouts, 15 to 40
seconds, pass only when nothing else can happen. Outputs are not
compared: they are functions of the input, as the mock provider and the two tools are.

## Worker

One `Worker` process from the inside. Node runs it without interruption between two
awaits, so there is one action per await, timer and event; a query is two, since it takes
effect in the database before its response arrives, and queries on other connections
of the pool come in between.

| state | code |
| --- | --- |
| `chains` | the poll loops: `pollOnce` schedules the next poll, and a notification that arrives while a dequeue is pending starts a loop of its own |
| `invs` | the runs of `dispatch`, from the handler to the `finally` block |
| `running` | the map from task to promise |
| `phase`, `awaited` | how far `stop()` is, and the promises it took from the map |
| `overtaken` | a history variable: tasks dispatched again before their `fail()` had returned |

| action | code |
| --- | --- |
| `PollOnce`, `DequeueRuns`, `DequeueReturns`, `DequeueErrors` | `pollOnce` up to the query; the query; the dispatch of what it brought; its failure |
| `Notify` | `startListening`'s callback |
| `HandlerSettles`, `CompleteRuns`, `CompleteErrors`, `FailRuns`, `DispatchEnds` | `dispatch`: the two queries, and the response with the `finally` block, which deletes the map's entry whoever's it is |
| `FailRejects` | an error of `fail()`, which nothing handles: Node ends the process |
| `Reclaim` | the reaper, when a lease ran out |
| `StopBegins`, `StopAwaits`, `StopEnds`, `Exit` | `stop()`: the notification client ends (`stopping`), the promises in the map are awaited (`draining`), then the process exits |
| `SecondSignal` | another signal before that: `stop()` returns at once, and the process exits |

### What is checked

The environment is bounded by `Limits`: notifications, failed queries, leases that run out in
spite of heartbeats (`stalls`) and without any (`lapses`). The run `worker` (201,119 states)
takes three tasks, one of which may be tried a second time, room for one, and a
notification; or a failed query, a stall and a lapse; or two failed queries and a lapse.
Three tasks are what it takes for two polls to dispatch and a third to be left.

| property | says |
| --- | --- |
| `CapacityKept` | `maxConcurrency` holds per poll chain: one more for every notification during a dequeue |
| `Tracked` | every invocation has its entry in the map, and no entry is left over |
| `Drained` | `stop()` returns early only when what it found running has settled |
| `TaskIsTaken` | the worker polls for ever |
| `StopEndsProcess` | `stop()` ends, even if a handler hangs |

The three invariants leave out two things that the code does:

- A lease lost in spite of heartbeats: the worker may lease the task again while its zombie
  runs, and the zombie's `finally` deletes the new entry.
- A task that is leased again before its `fail()` has returned (`overtaken`). The row is
  pending as soon as `fail` has committed, and its jitter may be near zero; a dequeue
  pending on another connection takes it and sets the new entry, which the older
  `finally` then deletes. The new invocation is not heartbeated, counted or drained. This
  takes no fault and no notification.

`CapacityKept` and `Drained` are therefore less than comments of the code promise. The promises
are definitions of `Worker` too, and each has a configuration of `MCWorker` in which
nothing else happens and TLC refutes it:

| configuration | claim | refuted by |
| --- | --- | --- |
| `MCNotified.cfg` | `NeverOverCapacity`: "never lease more than we have room to run" (`worker.ts:98`) | a notification during a dequeue: two polls compute their capacity from the same map |
| `MCOvertaken.cfg` | the same | a handler that throws: its task overtakes its `fail()`, and three handlers run with room for two |
| `MCDrain.cfg` | `DrainLeavesNothing`: "waits for in-flight tasks to finish [...] Without this, every deploy strands whatever a worker was holding" (`worker.ts:220-222`) | a stop during a dequeue: what it returns is dispatched, not awaited, and left leased |
| `MCSecondSignal.cfg` | `ExitsDrained`: "a graceful drain-then-exit" (`worker.ts:259`) | a second signal, which exits at once |

Once heartbeats have stopped, a drain longer than a lease lets the reaper give the tasks away
while they run.

Fairness: timers fire, queries return, `dispatch` and `stop()` go on, the reaper
ticks. Handlers may hang.

### What is proved

`Worker_proofs` proves `TypeOK`, `CapacityKept`, `Tracked` and `Drained` for any tasks,
`maxConcurrency`, notifications and faults, from `WorkerAssumption`. The invariant has
three parts:

- `Exclusive`: a leased task that was not overtaken is in one place, on its way to one chain
  or with the invocation that has the map's entry. `Tracked` follows: `Finished`
  deletes an entry whoever's it is, which is right only where nobody else's can be. An
  invocation whose `fail` has committed does not hold the lease any more, and its
  task is overtaken if it is dispatched again.
- `Awaiting`: whatever runs while `stop()` drains is awaited by it, was returned by a
  dequeue after it had looked, or was overtaken.
- `Budget`: the invocations that count, and the slots that pending dequeues have asked for,
  fit in `maxConcurrency` for each chain.

`TaskIsTaken` and `StopEndsProcess` are model-checked only.

## LeaderElection

The scheduler's replicas, the sessions of their election connections on the
server, the advisory lock, and the reaper that `onAcquire` and `onLose` start and
stop. A connection that breaks is noticed by the server, which then frees the
lock, and by the replica, which then calls `handleDisconnect`, in either order. A
replica's pending queries are rejected right after that, before any timer runs
(`Rejected`), as `pg` does. `loops` are the runs of `attemptAcquire`; there may be
several, because the timer of an attempt that fails after the disconnect is set
after `handleDisconnect` cleared it.

The run `leader` (120,423 states) takes two replicas and two faults: a dropped
connection, a crash with a restart, a failed query or connection attempt, a stop.

| property | says |
| --- | --- |
| `ElectedWithLock` | who becomes leader holds the lock, or its connection broke during `recordLeadership` |
| `StoppedStaysOut`, `StopReleases` | after `stop()` at any await: never leader, no session left |
| `RowNamesLeader` | no late write overwrites the successor's leadership row |
| `SomeoneLeads` | once faults end, a leader with the lock, for good |
| `ReapersFade` | a reaper whose replica does not lead stops, double starts included |
| `OverdueIsReaped` | overdue leases are reclaimed, unless a replica leads that has led before |

- `ElectedWithLock` has an exception because the code has: when the connection breaks
  during `recordLeadership`, `handleDisconnect` runs first, and `attemptAcquire` then sets
  `leader` on a replica without a connection. Two replicas may then lead at once
  until the first one's next connection breaks. Reaping twice is harmless.
- `leader_reaps`: `Reaper.stop` is for good, and the scheduler reuses the object. A
  replica that acquires the lock a second time leads without reaping.

Fairness: timers fire, queries and connection attempts settle, and both ends notice
a broken connection. Restarts are possible and not promised.

Two drops in one behaviour are left out of the run, for the size of the state space.

`LeaderElection_proofs` proves `TypeOK`, `StoppedStaysOut`, `RowNamesLeader` and
`ElectedWithLock` for any replicas and any number of faults of each kind, two drops
included, from `LimitsAssumption`. The invariant says that a connection's number is never
used again, that a run of `attemptAcquire` past the lock query has the lock while its
session is known to the server (`RecordingHasLock`), and that who holds the lock on its
present connection has written the row or is about to, unless a query failed
(`RowIsWritten`). The lock is what makes the late write harmless: a
successor gets it only when the server has ended the session that would write. The
liveness properties are model-checked only.

## EventStream

The live view of a workflow: `useWorkflowEvents` fetches the history, then opens an
EventSource after its last event; the server polls the event store by
`setInterval`. A page is mounted and left at any time; `fetches` may return after that
(`Cancelled`). A stream has several `polls` under way, because the timer does not wait
for a query: both read after the same `lastSeq`, both write, and `lastSeq` may go back.
The browser reconnects with the URL it was given, so with the first `since`.

| action | code |
| --- | --- |
| `Mount`, `Unmount`, `FetchReturns`, `FetchFails`, `Receive` | `useWorkflowEvents.ts`, `api.ts` |
| `AnswerFetch`, `Connect`, `Tick`, `PollReads`, `PollReturns`, `HandleClose` | `server.ts` |
| `PollRejects` | a query fails: nothing handles the rejection, and Node ends the process |
| `Refuse` | a request for a stream while the server closes is answered 503 |
| `Terminate`, `Exit`, `Restart`, `Drop` | `serve.ts`; the environment |

An EventSource reconnects when its connection breaks, but one that gets another answer than
a stream it may read is closed for good: the page is `refused`. That happens while the
server closes, and always when page and API are of different origins (`origin`), because
`server.ts:49` writes the head past the headers of `@fastify/cors`.

The run `stream` (459,154 states) takes a page with three events and two polls at once; a page
with overlapping polls and a fault; one with two faults; two pages with a fault; and
two pages of another origin with a fault. A fault is a failed query, a broken connection
or a shutdown.

| property | says |
| --- | --- |
| `ShownIsPrefix` | the page has the first events of its workflow, in order, none missing, none twice |
| `CatchesUp` | a page that stays open has all of them, time and again |
| `StreamsEnd` | no interval polls for a page that is gone; a server that was told to stop does, unless a page stays open |

`ShownIsPrefix` is what `WorkflowDetail` relies on when it takes positions for seqs. It
holds without any care for `lastSeq` on the server, because every poll's answer starts
at or before what the page has, and the page drops what it knows and sorts the rest.
`CatchesUp` leaves out a page whose first request failed, which is not repeated (after
an error response `events` is undefined), and a page whose stream was refused. `StreamsEnd` has its exception because
`app.close()` waits for streams, which browsers keep open.

`CatchesUp` is therefore less than the comment of `useWorkflowEvents` says ("Fetches full
history once, then appends live events via SSE"). `MCCrossOrigin.cfg` checks that claim
(`AppendsLive`, which does not exempt refused pages) with a page of another origin and no
fault at all, as in every configuration of the repository: Vite's port 5173 with the API's
3001, and the web image with the API's 8081. TLC refutes it: the page stays as
it was first fetched.

Fairness: requests and queries return, intervals tick, the browser reconnects, a broken
connection is noticed, a server that is down is started again. Nothing is assumed of
users, who may leave a page or not.

`EventStream_proofs` proves `ShownIsPrefix` for any pages, workflows, histories, polls at
once and faults, from `StreamAssumption`. The invariant (`IInv`) follows an event on its
way: a stream belongs to the page that opened it (`SourceFollows`, `FetchesAreOwn`), on
the wire an event's predecessor is before it or already on the page, and a poll starts
from events that are at least on their way. `CatchesUp` and `StreamsEnd` are
model-checked only.

## Bounds, and what is not modelled

Every bound is a constant or a field of `Limits`, `budget` or `Scenarios`, read only by
guards of the environment's actions. The type invariants of the modules with proofs are
proved (that of `EventStream` as part of its invariant); runs do not repeat them.

What TLAPS cannot reach stays with TLC: liveness, which needs `ENABLED`. Every safety
property of a passing run is proved. The library's induction theorems take operators as
parameters, which the provers cannot instantiate; where induction is needed, it is
on a set of numbers that has a least element (`Least`, `UpTo` in `Replay_proofs`).

The SMT encoding of `Len` in tlapm 1.4.5 takes every function for a sequence, so that a
function with another domain (one on tasks, say) next to a `Len` can make hypotheses
contradictory. The proofs keep them apart where that would matter: in `ChaosRun` the
number of steps has a name, `Last`, which only `StepNumbers` expands. The other leaves
that mention `Len` were verified again with that axiom replaced by its sound half.

Not modelled: metrics and traces, which nothing reads; the Anthropic client, an external
call with the outcomes of `LlmProviderError`; prices and texts; the benchmarks and demos,
which start workers and print; rendering in the browser, and the list of workflows;
`POST /workflows`, which is `startWorkflow`; backoff durations, which are `due` in the
queue. Memory, pools and connections of a worker are unbounded.

## Plan

1. Relate the two models of replay: the `Decision` of `Engine` on a workflow of activities,
   timers and signals is the one of `Replay` without its draining.
2. `StepHandlers` and `TaskQueue` both model `isLeaseOwned`; a proof that the first's row
   behaves as a row of the second would let the chaos run rest on one of them.
