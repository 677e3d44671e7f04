----------------------------- MODULE TaskQueue -----------------------------
(***************************************************************************)
(* The task queue: the table `tasks` (queue.ts, dlq.ts), the workers that  *)
(* lease rows from it and run handlers (worker.ts, dispatch), the reaper   *)
(* (reaper.ts, reclaimExpired) and the operator who requeues dead tasks.   *)
(*                                                                         *)
(* An invocation is one run of a handler for one lease: dispatch's async   *)
(* closure with the Task that dequeue returned.  It outlives its lease: a  *)
(* worker whose lease was reclaimed keeps running the handler, as the code *)
(* does (worker.ts, sendHeartbeats).  A crash ends a worker's invocations  *)
(* and leaves its rows leased.                                             *)
(*                                                                         *)
(* dequeue and reclaimExpired take several rows in one statement; a batch  *)
(* is here a run of single-row steps, which only adds states between them  *)
(* that a limit of 1 also reaches.                                         *)
(***************************************************************************)
EXTENDS TaskRows

CONSTANTS
  TaskId,        \* ids of the rows that may be inserted
  Workflows,     \* workflow ids
  MaxAttempts,   \* max_attempts of every row
  MaxFaults,     \* bound: crashes, lost responses and leases lost by a live worker
  MaxRequeues    \* bound: operator requeues of one dead task

ASSUME BoundsAssumption ==
  /\ MaxAttempts \in Nat \ {0}
  /\ MaxFaults \in Nat
  /\ MaxRequeues \in Nat

VARIABLES
  tasks,      \* the table
  invs,       \* the invocations in progress
  \* history variables, read by no guard but those of the bounds
  epoch,      \* per task, how often it was requeued from the dead
  fails,      \* per task, failures recorded in this epoch
  reclaims,   \* per task, leases reclaimed in this epoch
  handled,    \* per task, a handler has returned without throwing
  faults      \* faults so far

history == <<epoch, fails, reclaims, handled>>
vars == <<tasks, invs, epoch, fails, reclaims, handled, faults>>

Row == RowOf(Workflows)

Invocation ==
  [task : TaskId, worker : Workers, attempt : Nat, epoch : Nat,
   pc : {"running", "returned", "threw"}]

TypeOK ==
  /\ tasks \in [TaskId -> Row]
  /\ invs \in SUBSET Invocation
  /\ epoch \in [TaskId -> Nat]
  /\ fails \in [TaskId -> Nat]
  /\ reclaims \in [TaskId -> Nat]
  /\ handled \in [TaskId -> BOOLEAN]
  /\ faults \in Nat

Init ==
  /\ \E wf \in Workflows :
       tasks = [t \in TaskId |->
                  [NewRow("workflow", wf, 0, MaxAttempts, TRUE) EXCEPT !.status = "absent"]]
  /\ invs = {}
  /\ epoch = [t \in TaskId |-> 0]
  /\ fails = [t \in TaskId |-> 0]
  /\ reclaims = [t \in TaskId |-> 0]
  /\ handled = [t \in TaskId |-> FALSE]
  /\ faults = 0

Fault ==
  /\ faults < MaxFaults
  /\ faults' = faults + 1

-----------------------------------------------------------------------------
\* Mutant: a leased workflow task does not hold the slot.
IndexRefusesPending(t, type, wf) ==
  /\ type = "workflow"
  /\ \E u \in TaskId \ {t} :
       tasks[u].type = "workflow" /\ tasks[u].wf = wf /\ tasks[u].status = "pending"

\* Another row already holds the one_workflow_task_per_wf slot of t's workflow.
IndexRefuses(t, type, wf) ==
  /\ type = "workflow"
  /\ \E u \in TaskId \ {t} : LiveWorkflowTask(tasks[u], wf)

\* enqueue: inserts a row, or returns null when the index refuses it.
Enqueue(t, type, wf, due) ==
  /\ tasks[t].status = "absent"
  /\ ~IndexRefuses(t, type, wf)
  /\ tasks' = [tasks EXCEPT ![t] = NewRow(type, wf, 0, MaxAttempts, due)]
  /\ UNCHANGED <<invs, history, faults>>

\* run_after passes.
BecomeDue(t) ==
  /\ tasks[t].status = "pending"
  /\ ~tasks[t].due
  /\ tasks' = [tasks EXCEPT ![t].due = TRUE]
  /\ UNCHANGED <<invs, history, faults>>

\* dequeue, and dispatch of the row it returns.
Dequeue(w, t) ==
  /\ Candidate(tasks[t])
  /\ tasks' = [tasks EXCEPT ![t] = LeasedTo(@, w)]
  /\ invs' = invs \cup {[task |-> t, worker |-> w, attempt |-> tasks'[t].attempt,
                         epoch |-> epoch[t], pc |-> "running"]}
  /\ UNCHANGED <<history, faults>>

\* dequeue commits but its response never arrives: pollOnce logs and goes on.
DequeueLost(w, t) ==
  /\ Candidate(tasks[t])
  /\ Fault
  /\ tasks' = [tasks EXCEPT ![t] = LeasedTo(@, w)]
  /\ UNCHANGED <<invs, history>>

\* sendHeartbeats: the worker extends the lease of a task it is still running.
Heartbeat(w, t) ==
  /\ \E i \in invs : i.worker = w /\ i.task = t
  /\ OwnedBy(tasks[t], w)
  /\ tasks[t].overdue
  /\ tasks' = [tasks EXCEPT ![t] = Extended(@)]
  /\ UNCHANGED <<invs, history, faults>>

\* The handler's promise settles.
HandlerReturns(i) ==
  /\ i.pc = "running"
  /\ invs' = (invs \ {i}) \cup {[i EXCEPT !.pc = "returned"]}
  /\ handled' = [handled EXCEPT ![i.task] = TRUE]
  /\ UNCHANGED <<tasks, epoch, fails, reclaims, faults>>

HandlerThrows(i) ==
  /\ i.pc = "running"
  /\ invs' = (invs \ {i}) \cup {[i EXCEPT !.pc = "threw"]}
  /\ UNCHANGED <<tasks, history, faults>>

\* dispatch calls complete(), which applies only if the worker owns the row.
CompleteTask(i) ==
  /\ i.pc = "returned"
  /\ tasks' = [tasks EXCEPT ![i.task] = IF OwnedBy(@, i.worker) THEN Completed(@) ELSE @]
  /\ invs' = invs \ {i}
  /\ UNCHANGED <<history, faults>>

\* complete() throws, before or after it applied: dispatch's catch goes on to fail().
CompleteErrors(i) ==
  /\ i.pc = "returned"
  /\ Fault
  /\ invs' = (invs \ {i}) \cup {[i EXCEPT !.pc = "threw"]}
  /\ \/ UNCHANGED tasks
     \/ /\ OwnedBy(tasks[i.task], i.worker)
        /\ tasks' = [tasks EXCEPT ![i.task] = Completed(@)]
  /\ UNCHANGED history

\* dispatch calls fail(), under the same guard as complete().
FailTask(i) ==
  /\ i.pc = "threw"
  /\ LET applies == OwnedBy(tasks[i.task], i.worker)
     IN  /\ tasks' = [tasks EXCEPT ![i.task] = IF applies THEN Failed(@) ELSE @]
         /\ fails' = [fails EXCEPT ![i.task] = IF applies THEN @ + 1 ELSE @]
  /\ invs' = invs \ {i}
  /\ UNCHANGED <<epoch, reclaims, handled, faults>>

\* The worker process dies; its rows stay leased.
Crash(w) ==
  /\ \E i \in invs : i.worker = w
  /\ Fault
  /\ invs' = {i \in invs : i.worker # w}
  /\ UNCHANGED <<tasks, history>>

\* Nobody heartbeats t: its lease's holder is gone.
Orphaned(t) == \A i \in invs : i.task = t => ~OwnedBy(tasks[t], i.worker)

\* lease_expires_at passes.  With a live holder this takes a fault: a stalled event
\* loop, heartbeats that fail, or a drain after stop() cleared the heartbeat timer.
LeaseRunsOut(t) ==
  /\ tasks[t].status = "leased"
  /\ ~tasks[t].overdue
  /\ IF Orphaned(t) THEN UNCHANGED faults ELSE Fault
  /\ tasks' = [tasks EXCEPT ![t].overdue = TRUE]
  /\ UNCHANGED <<invs, history>>

\* The reaper's tick.
Reclaim(t) ==
  /\ Expired(tasks[t])
  /\ tasks' = [tasks EXCEPT ![t] = Reclaimed(@)]
  /\ reclaims' = [reclaims EXCEPT ![t] = @ + 1]
  /\ UNCHANGED <<invs, epoch, fails, handled, faults>>

\* requeueDeadTask; the unique index makes it throw while the slot is taken.
RequeueDead(t) ==
  /\ epoch[t] < MaxRequeues
  /\ tasks[t].status = "dead"
  /\ ~IndexRefuses(t, tasks[t].type, tasks[t].wf)
  /\ tasks' = [tasks EXCEPT ![t] = Requeued(@)]
  /\ epoch' = [epoch EXCEPT ![t] = @ + 1]
  /\ fails' = [fails EXCEPT ![t] = 0]
  /\ reclaims' = [reclaims EXCEPT ![t] = 0]
  /\ UNCHANGED <<invs, handled, faults>>

-----------------------------------------------------------------------------
Next ==
  \/ \E t \in TaskId :
       \/ \E type \in {"workflow", "activity"}, wf \in Workflows, due \in BOOLEAN :
            Enqueue(t, type, wf, due)
       \/ BecomeDue(t)
       \/ LeaseRunsOut(t)
       \/ Reclaim(t)
       \/ RequeueDead(t)
       \/ \E w \in Workers :
            \/ Dequeue(w, t)
            \/ DequeueLost(w, t)
            \/ Heartbeat(w, t)
  \/ \E i \in invs :
       \/ HandlerReturns(i)
       \/ HandlerThrows(i)
       \/ CompleteTask(i)
       \/ CompleteErrors(i)
       \/ FailTask(i)
  \/ \E w \in Workers : Crash(w)

\* Workers poll (worker.ts, pollOnce reschedules itself on every path) and the oldest
\* due row is taken first; handlers settle and dispatch then calls complete() or fail();
\* the reaper ticks; clocks advance.  Faults and operators promise nothing.
Fairness ==
  /\ \A t \in TaskId :
       /\ WF_vars(BecomeDue(t))
       /\ WF_vars(\E w \in Workers : Dequeue(w, t))
       /\ WF_vars(Orphaned(t) /\ LeaseRunsOut(t))
       /\ WF_vars(Reclaim(t))
       /\ WF_vars(\E i \in invs : i.task = t /\ (HandlerReturns(i) \/ HandlerThrows(i)))
       /\ WF_vars(\E i \in invs : i.task = t /\ (CompleteTask(i) \/ FailTask(i)))

Spec == Init /\ [][Next]_vars

FairSpec == Spec /\ Fairness

-----------------------------------------------------------------------------
(***************************************************************************)
(* Properties                                                              *)
(***************************************************************************)

\* A workflow has at most one workflow task pending or leased, whatever enqueue,
\* retries, the reaper and requeued dead tasks do (one_workflow_task_per_wf).
OneLiveWorkflowTask ==
  \A wf \in Workflows, t, u \in TaskId :
    LiveWorkflowTask(tasks[t], wf) /\ LiveWorkflowTask(tasks[u], wf) => t = u

\* Every attempt dequeue counted is accounted for once: it ended in a recorded failure
\* or a reclaim, or it is the one being run or completed.  So a lease lost to the
\* reaper uses up an attempt, as reclaimExpired's comment wants it to.
AttemptAccounting ==
  \A t \in TaskId :
    tasks[t].attempt = fails[t] + reclaims[t]
                       + (IF tasks[t].status \in {"leased", "completed"} THEN 1 ELSE 0)

\* The failures recorded for a task stay within max_attempts, and a task that has used
\* them up is dead: no path leads it back to pending but an operator's requeue.
FailureBudget ==
  \A t \in TaskId :
    /\ fails[t] <= MaxAttempts
    /\ fails[t] = MaxAttempts => tasks[t].status = "dead"

\* isLeaseOwned is a fencing token between two requeues: of the invocations of one task
\* in one epoch, zombies of the same worker included, it accepts at most one.
OneFencedInvocation ==
  \A i, j \in invs :
    /\ i.task = j.task
    /\ i.epoch = j.epoch
    /\ FenceAccepts(tasks[i.task], i.worker, i.attempt)
    /\ FenceAccepts(tasks[j.task], j.worker, j.attempt)
    => i = j

\* No worker takes a task from another whose lease is still good: a lease ends by its
\* owner's own complete() or fail(), or after it ran out.
LiveLeaseIsRespected ==
  [][ \A t \in TaskId :
        /\ tasks[t].status = "leased"
        /\ ~tasks[t].overdue
        /\ <<tasks'[t].status, tasks'[t].owner>> # <<"leased", tasks[t].owner>>
        => \E i \in invs :
             /\ i.task = t
             /\ i.worker = tasks[t].owner
             /\ i.pc # "running" ]_vars

\* Every task that is inserted, or requeued, ends completed or dead, if only finitely
\* many faults happen: nothing is stranded by a crash, a lost response or a lost lease.
EveryTaskEnds ==
  \A t \in TaskId : Live(tasks[t]) ~> tasks[t].status \in {"completed", "dead"}

\* The queue promises what AtLeastOnceQueue says: a task is completed only after a
\* handler has returned for it, and completed is final.
Abstract ==
  INSTANCE AtLeastOnceQueue
    WITH state <- [t \in TaskId |-> IF Live(tasks[t]) THEN "open" ELSE tasks[t].status]

ImplementsAtLeastOnce == Abstract!Spec

\* queue.ts:321-327 says a crash-looping task "still dead-letters after exactly
\* `max_attempts` dequeues".
DeadAfterMaxAttempts == \A t \in TaskId : tasks[t].attempt <= MaxAttempts
=============================================================================
