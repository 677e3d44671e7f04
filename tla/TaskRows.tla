------------------------------ MODULE TaskRows ------------------------------
(***************************************************************************)
(* One row of the Postgres table `tasks`, and what each SQL statement of   *)
(* packages/db/src/queue.ts and dlq.ts does to it.  The modules that hold  *)
(* a table (TaskQueue, Engine, StepHandlers) apply these operators to its  *)
(* rows; a statement is one atomic step there, as it is in Postgres.       *)
(*                                                                         *)
(* Time is abstracted to what the statements compare with now():           *)
(*   due     <=> run_after <= now()                                        *)
(*   overdue <=> lease_expires_at < now()                                  *)
(* so a row becomes due, or its lease overdue, by the mere passage of      *)
(* time, and no relation between two durations is assumed.  The columns    *)
(* queue, last_error, created_at and trace_context are left out.           *)
(*                                                                         *)
(* An operator marked "Mutant" is a plausible bug in the one after it; it  *)
(* is used by no behaviour, only to show that the properties notice it.    *)
(***************************************************************************)
EXTENDS Naturals

CONSTANTS
  Workers,     \* worker ids, one per worker process (workerId.ts)
  NoWorker     \* leased_by IS NULL

ASSUME NoWorkerAssumption == NoWorker \notin Workers

TaskType == {"workflow", "activity", "timer", "llm", "tool"}

\* "absent" stands for a row that was never inserted.
Status == {"absent", "pending", "leased", "completed", "dead"}

\* `ref` is scheduled_event_seq, 0 for NULL.
RowOf(Wf) ==
  [status : Status, type : TaskType, wf : Wf, ref : Nat, owner : Workers \cup {NoWorker},
   attempt : Nat, max : Nat, due : BOOLEAN, overdue : BOOLEAN]

-----------------------------------------------------------------------------
\* INSERT INTO tasks.  run_after is now() unless a timer asks for later.
NewRow(type, wf, ref, max, due) ==
  [status |-> "pending", type |-> type, wf |-> wf, ref |-> ref, owner |-> NoWorker,
   attempt |-> 0, max |-> max, due |-> due, overdue |-> FALSE]

\* What the partial unique index one_workflow_task_per_wf counts.
Live(row) == row.status \in {"pending", "leased"}

LiveWorkflowTask(row, wf) == row.type = "workflow" /\ row.wf = wf /\ Live(row)

\* The candidates of dequeue's FOR UPDATE SKIP LOCKED query.
Candidate(row) == row.status = "pending" /\ row.due

\* dequeue's UPDATE: a fresh lease and a new attempt.
LeasedTo(row, w) ==
  [row EXCEPT !.status = "leased", !.owner = w, !.overdue = FALSE, !.attempt = @ + 1]

\* Mutants: the guard forgets leased_by; the guard forgets the status.
OwnedByAnyone(row, w) == row.status = "leased"
OwnedByFormerly(row, w) == row.owner = w

\* The ownership guard of heartbeat, complete and fail: the worker, not the attempt.
OwnedBy(row, w) == row.status = "leased" /\ row.owner = w

\* heartbeat's UPDATE.
Extended(row) == [row EXCEPT !.overdue = FALSE]

\* complete's UPDATE touches the status alone.
Completed(row) == [row EXCEPT !.status = "completed"]

\* Mutant: one attempt too many.
FailedPastMax(row) ==
  [row EXCEPT !.status = IF row.attempt > row.max THEN "dead" ELSE "pending",
              !.owner = NoWorker, !.overdue = FALSE]

\* fail's UPDATE: dead at max_attempts, else pending again after a backoff.
Failed(row) ==
  LET exhausted == row.attempt >= row.max
  IN  [row EXCEPT !.status = IF exhausted THEN "dead" ELSE "pending",
                  !.due = exhausted /\ @,
                  !.owner = NoWorker, !.overdue = FALSE]

\* Mutant: the reaper passes over a task that has used up its attempts.
ExpiredWithAttemptsLeft(row) == row.status = "leased" /\ row.overdue /\ row.attempt < row.max

\* What reclaimExpired selects, and its UPDATE: the attempt is left as it is.
Expired(row) == row.status = "leased" /\ row.overdue

Reclaimed(row) == [row EXCEPT !.status = "pending", !.owner = NoWorker, !.overdue = FALSE]

\* Mutant: the attempts of the former life count on.
RequeuedKeepingAttempt(row) == [row EXCEPT !.status = "pending", !.due = TRUE]

\* requeueDeadTask's UPDATE.
Requeued(row) == [row EXCEPT !.status = "pending", !.attempt = 0, !.due = TRUE]

\* Mutant: the worker alone.
FenceAcceptsOwner(row, w, attempt) == OwnedBy(row, w)

\* isLeaseOwned: the worker and the attempt it was handed.
FenceAccepts(row, w, attempt) == OwnedBy(row, w) /\ row.attempt = attempt
=============================================================================
