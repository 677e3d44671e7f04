------------------------------- MODULE Worker -------------------------------
(***************************************************************************)
(* Class Worker of the worker SDK: one process, its poll chains, its       *)
(* `running` map, and stop() with its drain.  The process is single        *)
(* threaded, so there is one action per await, timer and event.            *)
(*                                                                         *)
(* pollOnce keeps itself going through pollTimer.  A notification starts   *)
(* another chain when the last timer has fired already, that is, while     *)
(* its dequeue is pending; pollTimer holds the timer set last, so that     *)
(* only its chain can be cleared.  Heartbeats cover the tasks in `running` *)
(* until stop(): what they cover keeps its lease, or else a stall is       *)
(* counted.  Backoff delays are left out: a failed task is due at once or  *)
(* later, since the jitter may draw a delay near zero (backoff.ts:19).     *)
(*                                                                         *)
(* A query takes effect in one step (DequeueRuns, CompleteRuns, FailRuns)  *)
(* and its response is handled in another; queries of different chains and *)
(* invocations run on different connections of the pool, so that what one  *)
(* commits may reach another before its own response arrives.              *)
(*                                                                         *)
(* A definition marked "Mutant" is a plausible bug in the one after it.    *)
(***************************************************************************)
EXTENDS TaskRows, FiniteSets

CONSTANTS
  Self,            \* config.workerId
  TaskIds,         \* rows of the queue
  Wf,              \* the workflow they belong to
  MaxAttempts,     \* max_attempts of each row
  MaxConcurrency,  \* config.maxConcurrency
  Limits           \* bounds of the environment: how many notifications arrive, queries
                   \* fail, and leases run out in spite of heartbeats (stalls) and
                   \* without any (lapses)

Events == {"notifies", "errors", "stalls", "lapses"}

ASSUME WorkerAssumption ==
  /\ Self \in Workers
  /\ MaxAttempts \in [TaskIds -> Nat \ {0}] /\ MaxConcurrency \in Nat \ {0}
  /\ IsFiniteSet(TaskIds)
  /\ Limits \subseteq [Events -> Nat]

VARIABLES
  tasks,      \* the table
  invs,       \* handler invocations of this process
  running,    \* the map: the attempt whose promise it holds for a task, 0 for none
  chains,     \* what keeps polling
  pollTimer,  \* the chain that set the timer last
  phase,      \* how far the process is on its way out
  awaited,    \* the invocations stop() waits for
  overtaken,  \* tasks dispatched again before the fail() that gave them back had returned:
              \* a history variable, which no guard reads
  limits,     \* what bounds this behaviour
  spent       \* what of it has happened

vars == <<tasks, invs, running, chains, pollTimer, phase, awaited, overtaken, limits, spent>>

\* From the handler to the finally block: "completed" and "failed" have their query executed
\* and its response on its way.  `late` is whether it was dispatched after stop() had looked
\* at the map.
Invocation ==
  [task : TaskIds, attempt : Nat, late : BOOLEAN,
   pc : {"running", "returned", "threw", "completed", "failed"}]

\* `got` is what dequeue leased for the poll, with the attempts.
Chain ==
  [id : Nat, pc : {"timer", "asking", "answered"}, capacity : 0 .. MaxConcurrency,
   got : SUBSET (TaskIds \X Nat)]

Phase == {"up", "stopping", "draining", "drained", "timed out", "exited"}

TypeOK ==
  /\ tasks \in [TaskIds -> RowOf({Wf})]
  /\ invs \subseteq Invocation
  /\ running \in [TaskIds -> Nat]
  /\ chains \subseteq Chain /\ pollTimer \in Nat
  /\ phase \in Phase
  /\ awaited \subseteq TaskIds \X Nat
  /\ overtaken \subseteq TaskIds
  /\ limits \in [Events -> Nat] /\ spent \in [Events -> Nat]

NextPoll(id) == [id |-> id, pc |-> "timer", capacity |-> 0, got |-> {}]

Init ==
  /\ tasks = [t \in TaskIds |-> NewRow("activity", Wf, 1, MaxAttempts[t], TRUE)]
  /\ invs = {} /\ running = [t \in TaskIds |-> 0]
  /\ chains = {NextPoll(1)} /\ pollTimer = 1
  /\ phase = "up" /\ awaited = {} /\ overtaken = {}
  /\ limits \in Limits
  /\ spent = [kind \in Events |-> 0]

Spend(kind) ==
  /\ spent[kind] < limits[kind]
  /\ spent' = [spent EXCEPT ![kind] = @ + 1]

Stopped == phase # "up"

-----------------------------------------------------------------------------
(***************************************************************************)
(* Polling.                                                                *)
(***************************************************************************)
\* scheduleNextPoll, at the end of a poll of chain c.
ScheduleNextPoll(c) ==
  IF Stopped
  THEN chains' = chains \ {c} /\ UNCHANGED pollTimer
  ELSE chains' = (chains \ {c}) \cup {NextPoll(c.id)} /\ pollTimer' = c.id

\* Mutant: the limit is the whole pool.
RoomForAll == MaxConcurrency

Room == MaxConcurrency - Cardinality({t \in TaskIds : running[t] # 0})

\* Mutant: at capacity the chain ends.
PollWhileRoom(c) ==
  /\ c.pc = "timer"
  /\ chains' = (chains \ {c}) \cup
                  (IF Stopped \/ Room <= 0 THEN {}
                   ELSE {[c EXCEPT !.pc = "asking", !.capacity = Room]})
  /\ UNCHANGED <<tasks, invs, running, pollTimer, phase, awaited, overtaken, limits, spent>>

\* pollOnce, up to the dequeue.
PollOnce(c) ==
  /\ c.pc = "timer"
  /\ IF Stopped \/ Room <= 0
     THEN ScheduleNextPoll(c)
     ELSE /\ chains' = (chains \ {c}) \cup {[c EXCEPT !.pc = "asking", !.capacity = Room]}
          /\ UNCHANGED pollTimer
  /\ UNCHANGED <<tasks, invs, running, phase, awaited, overtaken, limits, spent>>

\* What dequeue may lease: as many as the limit allows.
Batches(limit) ==
  LET pending == {t \in TaskIds : tasks[t].status = "pending"}
  IN  {b \in SUBSET pending : Cardinality(b) = limit \/ (b = pending /\ Cardinality(b) < limit)}

Leased(batch) ==
  [t \in TaskIds |-> IF t \in batch THEN LeasedTo([tasks[t] EXCEPT !.due = TRUE], Self)
                                   ELSE tasks[t]]

DequeueRuns(c) ==
  /\ c.pc = "asking"
  /\ \E batch \in Batches(c.capacity) :
       /\ tasks' = Leased(batch)
       /\ chains' = (chains \ {c}) \cup {[c EXCEPT !.pc = "answered",
                                         !.got = {<<t, tasks'[t].attempt>> : t \in batch}]}
  /\ UNCHANGED <<invs, running, pollTimer, phase, awaited, overtaken, limits, spent>>

\* The query fails, or its response is lost.
DequeueErrors(c) ==
  /\ c.pc \in {"asking", "answered"}
  /\ Spend("errors")
  /\ ScheduleNextPoll(c)
  /\ UNCHANGED <<tasks, invs, running, phase, awaited, overtaken, limits>>

\* The rest of pollOnce: dispatch what was leased.
DequeueReturns(c) ==
  /\ c.pc = "answered"
  /\ invs' = invs \cup {[task |-> lease[1], attempt |-> lease[2], pc |-> "running",
                         late |-> phase \notin {"up", "stopping"}] : lease \in c.got}
  /\ running' = [t \in TaskIds |-> IF \E lease \in c.got : lease[1] = t
                                  THEN (CHOOSE lease \in c.got : lease[1] = t)[2]
                                  ELSE running[t]]
  /\ overtaken' = overtaken \cup
       {i.task : i \in {j \in invs : j.pc = "failed" /\ \E lease \in c.got : lease[1] = j.task}}
  /\ ScheduleNextPoll(c)
  /\ UNCHANGED <<tasks, phase, awaited, limits, spent>>

\* startListening's callback: the timer set last is replaced by one that fires at once.
Notify ==
  /\ phase = "up"
  /\ Spend("notifies")
  /\ \A c \in chains : ~(c.id = pollTimer /\ c.pc = "timer")
  /\ LET id == spent'.notifies + 1
     IN  chains' = chains \cup {NextPoll(id)} /\ pollTimer' = id
  /\ UNCHANGED <<tasks, invs, running, phase, awaited, overtaken, limits>>

-----------------------------------------------------------------------------
(***************************************************************************)
(* dispatch, for an invocation i.                                          *)
(***************************************************************************)
HandlerSettles(i) ==
  /\ i.pc = "running"
  /\ \E pc \in {"returned", "threw"} : invs' = (invs \ {i}) \cup {[i EXCEPT !.pc = pc]}
  /\ UNCHANGED <<tasks, running, chains, pollTimer, phase, awaited, overtaken, limits, spent>>

\* Mutant: no finally block.
Kept(i) == running

\* The finally block deletes the map's entry for the task, whoever's it is.
Finished(i) == [running EXCEPT ![i.task] = 0]

\* complete()
CompleteRuns(i) ==
  /\ i.pc = "returned"
  /\ tasks' = [tasks EXCEPT ![i.task] = IF OwnedBy(@, Self) THEN Completed(@) ELSE @]
  /\ invs' = (invs \ {i}) \cup {[i EXCEPT !.pc = "completed"]}
  /\ UNCHANGED <<running, chains, pollTimer, phase, awaited, overtaken, limits, spent>>

\* complete() throws, applied or not, and dispatch goes on to fail().
CompleteErrors(i) ==
  /\ i.pc \in {"returned", "completed"}
  /\ Spend("errors")
  /\ invs' = (invs \ {i}) \cup {[i EXCEPT !.pc = "threw"]}
  /\ UNCHANGED <<tasks, running, chains, pollTimer, phase, awaited, overtaken, limits>>

\* fail(): from here on the row may be leased again, also by this process.
FailRuns(i) ==
  /\ i.pc = "threw"
  /\ tasks' = [tasks EXCEPT ![i.task] = IF OwnedBy(@, Self) THEN Failed(@) ELSE @]
  /\ invs' = (invs \ {i}) \cup {[i EXCEPT !.pc = "failed"]}
  /\ UNCHANGED <<running, chains, pollTimer, phase, awaited, overtaken, limits, spent>>

\* The response arrives, and the finally block runs.
DispatchEnds(i) ==
  /\ i.pc \in {"completed", "failed"}
  /\ invs' = invs \ {i} /\ running' = Finished(i)
  /\ UNCHANGED <<tasks, chains, pollTimer, phase, awaited, overtaken, limits, spent>>

Exits ==
  /\ phase' = "exited"
  /\ invs' = {} /\ running' = [t \in TaskIds |-> 0] /\ chains' = {} /\ awaited' = {}

\* fail() throws, applied or not: nobody handles the rejection, and Node exits.
FailRejects(i) ==
  /\ i.pc \in {"threw", "failed"}
  /\ Spend("errors")
  /\ Exits
  /\ UNCHANGED <<tasks, pollTimer, overtaken, limits>>

\* sendHeartbeats covers the map until stop(); the last leases and the last extension
\* outlast what stop() does before it drains, and a dequeue's answer on its way.
Heartbeated(t) ==
  /\ OwnedBy(tasks[t], Self) /\ phase \in {"up", "stopping"}
  /\ running[t] # 0 \/ \E c \in chains : \E lease \in c.got : lease[1] = t

\* The lease runs out and the reaper puts the task back.
Reclaim(t) ==
  /\ tasks[t].status = "leased"
  /\ Spend(IF Heartbeated(t) THEN "stalls" ELSE "lapses")
  /\ tasks' = [tasks EXCEPT ![t] = Reclaimed(@)]
  /\ UNCHANGED <<invs, running, chains, pollTimer, phase, awaited, overtaken, limits>>

-----------------------------------------------------------------------------
(***************************************************************************)
(* stop().                                                                 *)
(***************************************************************************)
\* Up to the end of the notification client.
StopBegins ==
  /\ phase = "up"
  /\ phase' = "stopping"
  /\ chains' = {c \in chains : ~(c.id = pollTimer /\ c.pc = "timer")}
  /\ UNCHANGED <<tasks, invs, running, pollTimer, awaited, overtaken, limits, spent>>

\* Mutant: the map's keys are taken, which resolve at once.
StopAwaitsKeys ==
  /\ phase = "stopping"
  /\ phase' = "draining"
  /\ awaited' = {}
  /\ UNCHANGED <<tasks, invs, running, chains, pollTimer, overtaken, limits, spent>>

\* The promises in the map are taken.
StopAwaits ==
  /\ phase = "stopping"
  /\ phase' = "draining"
  /\ awaited' = {<<t, running[t]>> : t \in {u \in TaskIds : running[u] # 0}}
  /\ UNCHANGED <<tasks, invs, running, chains, pollTimer, overtaken, limits, spent>>

Pending == {i \in invs : <<i.task, i.attempt>> \in awaited}

\* Mutant: no timeout.
StopEndsDrained ==
  /\ phase = "draining" /\ Pending = {}
  /\ phase' = "drained"
  /\ UNCHANGED <<tasks, invs, running, chains, pollTimer, awaited, overtaken, limits, spent>>

\* All of them have settled, or drainTimeoutMs are over.
StopEnds ==
  /\ phase = "draining"
  /\ \/ Pending = {} /\ phase' = "drained"
     \/ Pending # {} /\ phase' = "timed out"
  /\ UNCHANGED <<tasks, invs, running, chains, pollTimer, awaited, overtaken, limits, spent>>

\* installGracefulShutdown, once stop() has returned.
Exit ==
  /\ phase \in {"drained", "timed out"}
  /\ Exits
  /\ UNCHANGED <<tasks, pollTimer, overtaken, limits, spent>>

\* Another signal before that: stop() returns at once, and the process exits.
SecondSignal ==
  /\ phase \in {"stopping", "draining"}
  /\ Exits
  /\ UNCHANGED <<tasks, pollTimer, overtaken, limits, spent>>

-----------------------------------------------------------------------------
InvocationStep(i) == HandlerSettles(i) \/ CompleteRuns(i) \/ FailRuns(i) \/ DispatchEnds(i)

PollStep(c) == PollOnce(c) \/ DequeueRuns(c) \/ DequeueReturns(c)

Next ==
  \/ \E c \in chains : PollStep(c) \/ DequeueErrors(c)
  \/ \E i \in invs : InvocationStep(i) \/ CompleteErrors(i) \/ FailRejects(i)
  \/ \E t \in TaskIds : Reclaim(t)
  \/ Notify
  \/ StopBegins \/ StopAwaits \/ StopEnds \/ Exit \/ SecondSignal

\* Timers fire, queries return, dispatch and stop() go on, and the reaper ticks.  Handlers
\* may hang; nothing is promised of notifications, faults and the operator.
Fairness ==
  /\ WF_vars(\E c \in chains : PollOnce(c))
  /\ WF_vars(\E c \in chains : DequeueRuns(c))
  /\ WF_vars(\E c \in chains : DequeueReturns(c))
  /\ WF_vars(\E i \in invs : CompleteRuns(i) \/ FailRuns(i) \/ DispatchEnds(i))
  /\ \A t \in TaskIds : WF_vars(~Heartbeated(t) /\ Reclaim(t))
  /\ WF_vars(StopAwaits) /\ WF_vars(StopEnds) /\ WF_vars(Exit)

Spec == Init /\ [][Next]_vars

FairSpec == Spec /\ Fairness

-----------------------------------------------------------------------------
(***************************************************************************)
(* Properties                                                              *)
(***************************************************************************)

\* No more than maxConcurrency invocations run for every poll chain, and each notification
\* during a dequeue adds one chain.  Not counted are those of a task that was leased again
\* before its fail() had returned, whose entry in the map the older finally deletes.
CapacityKept ==
  spent.stalls = 0 =>
    Cardinality({i \in invs : i.task \notin overtaken}) <= MaxConcurrency * (1 + spent.notifies)

\* worker.ts:98: "never lease more than we have room to run".
NeverOverCapacity == Cardinality({i \in invs : i.pc = "running"}) <= MaxConcurrency

\* Until stop() drains, without heartbeats, every invocation has its entry in the map: it is
\* heartbeated and counted, a task runs once in a process, and no entry is left over.  Two
\* things break this, for one task each: a lease lost in spite of heartbeats, and a task
\* that was leased again before its fail() had returned.
Tracked ==
  spent.stalls = 0 /\ phase \in {"up", "stopping"} =>
    \A t \in TaskIds \ overtaken :
      IF \E i \in invs : i.task = t
      THEN \A i \in invs : i.task = t => running[t] = i.attempt
      ELSE running[t] = 0

\* stop() returns before its timeout only when all it leased has settled, but for what a
\* dequeue that was pending returned to it after it had looked, and for tasks that were
\* leased again before their fail() had returned.
Drained ==
  spent.stalls = 0 /\ phase = "drained" => \A i \in invs : i.late \/ i.task \in overtaken

\* worker.ts:220-222: stop() "waits for in-flight tasks to finish (up to drainTimeoutMs), then
\* returns.  Without this, every deploy strands whatever a worker was holding".
DrainLeavesNothing ==
  phase = "drained" => \A t \in TaskIds : tasks[t].status # "leased"

\* worker.ts:259: signals are wired "to a graceful drain-then-exit".
ExitsDrained ==
  [][phase # "exited" /\ phase' = "exited" => invs = {} \/ phase = "timed out"]_vars

\* A pending task is leased, unless the worker is stopped or full: polling survives failed
\* queries, full capacity and every order of timers and notifications.
TaskIsTaken ==
  \A t \in TaskIds :
    tasks[t].status = "pending" ~> tasks[t].status # "pending" \/ Stopped \/ Room <= 0

\* A process that was told to stop exits, even if a handler hangs.
StopEndsProcess == phase = "stopping" ~> phase = "exited"
=============================================================================
