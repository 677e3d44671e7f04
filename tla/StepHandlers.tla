---------------------------- MODULE StepHandlers ----------------------------
(***************************************************************************)
(* One LLM or tool step: its row of the task queue, its outcome in the     *)
(* history, the tool ledger, and the invocations of createLlmCallHandler   *)
(* or createToolCallHandler that work on it.  Steps share nothing but      *)
(* workers, so one step is the whole story.                                *)
(*                                                                         *)
(* A transaction is several steps here, so that others can run between its *)
(* statements, and its locks are what it keeps them from:                  *)
(*   the row lock of isLeaseOwned (FOR UPDATE), held by an invocation that *)
(*   is "fenced", blocks or is skipped by every statement on the row;      *)
(*   the ledger entry of claimToolExecution, held while `claimed`, blocks  *)
(*   every other claim until it commits or rolls back.                     *)
(* What a transaction wrote is visible when it commits.                    *)
(*                                                                         *)
(* Leases are as coarse as in Engine.  A definition marked "Mutant" is a   *)
(* plausible bug in the one after it, used by no behaviour.                *)
(***************************************************************************)
EXTENDS TaskRows, Sequences

CONSTANTS
  Wf,           \* the workflow's id
  MaxAttempts,  \* max_attempts of the row
  Limits        \* bounds of the environment, records of how many crashes, database
                \* errors, leases lost by a live worker and operator requeues happen

Faults == {"crashes", "errors", "stalls", "requeues"}

ASSUME LimitsAssumption ==
  /\ MaxAttempts \in Nat \ {0}
  /\ Limits \subseteq [Faults -> Nat]

VARIABLES
  task,      \* the step's row
  outcomes,  \* the outcomes recorded for the step, in order
  ledger,    \* the result in tool_executions, 0 while there is no row
  effects,   \* how often the tool's effect was committed
  calls,     \* provider calls, or tool executions, that were started
  invs,      \* handler invocations in progress
  limits,    \* what bounds this behaviour
  spent      \* what of it has happened

vars == <<task, outcomes, ledger, effects, calls, invs, limits, spent>>

Outcome == [type : {"completed", "failed"}, answer : Nat]

\* `life` is the number of requeues before the lease, which tells apart invocations with
\* the same fence; the handlers do not know it.  `event` and `answer` are what the
\* invocation is about to record, `write` whether it found nothing recorded yet, and
\* `rethrow` whether it throws after recording.
Invocation ==
  [worker : Workers, attempt : Nat, life : Nat,
   pc : {"start", "ready", "calling", "claiming", "executing", "recording", "fenced",
         "returned", "threw"},
   event : {"none", "completed", "failed"}, answer : Nat,
   claimed : BOOLEAN, write : BOOLEAN, rethrow : BOOLEAN]

TypeOK ==
  /\ task \in RowOf({Wf})
  /\ outcomes \in Seq(Outcome)
  /\ ledger \in Nat /\ effects \in Nat /\ calls \in Nat
  /\ invs \in SUBSET Invocation
  /\ limits \in [Faults -> Nat] /\ spent \in [Faults -> Nat]

Init ==
  /\ \E type \in {"llm", "tool"} : task = NewRow(type, Wf, 1, MaxAttempts, TRUE)
  /\ outcomes = <<>>
  /\ ledger = 0 /\ effects = 0 /\ calls = 0
  /\ invs = {}
  /\ limits \in Limits
  /\ spent = [kind \in Faults |-> 0]

Spend(kind) ==
  /\ spent[kind] < limits[kind]
  /\ spent' = [spent EXCEPT ![kind] = @ + 1]

Becomes(i, j) == invs' = (invs \ {i}) \cup {j}

\* Mutants: a fence that does not lock; a transaction that stays open until complete().
Unlockable == FALSE
LockedUntilEnd == \E i \in invs : i.pc \in {"fenced", "returned"}

\* The row is locked by a transaction that has passed its fence.
Locked == \E i \in invs : i.pc = "fenced"

-----------------------------------------------------------------------------
(***************************************************************************)
(* The queue, as the handlers see it.                                      *)
(***************************************************************************)
Dequeue(w) ==
  /\ task.status = "pending"
  /\ task' = LeasedTo([task EXCEPT !.due = TRUE], w)
  /\ invs' = invs \cup {[worker |-> w, attempt |-> task'.attempt, life |-> spent.requeues,
                         pc |-> "start", event |-> "none", answer |-> 0,
                         claimed |-> FALSE, write |-> FALSE, rethrow |-> FALSE]}
  /\ UNCHANGED <<outcomes, ledger, effects, calls, limits, spent>>

\* Mutant: complete() in a finally block.
CompleteFinally(i) ==
  /\ i.pc \in {"returned", "threw"}
  /\ ~Locked
  /\ task' = IF OwnedBy(task, i.worker) THEN Completed(task) ELSE task
  /\ invs' = invs \ {i}
  /\ UNCHANGED <<outcomes, ledger, effects, calls, limits, spent>>

CompleteTask(i) ==
  /\ i.pc = "returned"
  /\ ~Locked
  /\ task' = IF OwnedBy(task, i.worker) THEN Completed(task) ELSE task
  /\ invs' = invs \ {i}
  /\ UNCHANGED <<outcomes, ledger, effects, calls, limits, spent>>

\* complete() throws, applied or not, and dispatch goes on to fail().
CompleteErrors(i) ==
  /\ i.pc = "returned"
  /\ ~Locked
  /\ Spend("errors")
  /\ task' \in {task} \cup {row \in {Completed(task)} : OwnedBy(task, i.worker)}
  /\ Becomes(i, [i EXCEPT !.pc = "threw"])
  /\ UNCHANGED <<outcomes, ledger, effects, calls, limits>>

FailTask(i) ==
  /\ i.pc = "threw"
  /\ ~Locked
  /\ task' = IF OwnedBy(task, i.worker) THEN Failed(task) ELSE task
  /\ invs' = invs \ {i}
  /\ UNCHANGED <<outcomes, ledger, effects, calls, limits, spent>>

\* The process dies: its open transactions roll back, its locks are gone.
Crash(w) ==
  /\ \E i \in invs : i.worker = w
  /\ Spend("crashes")
  /\ invs' = {i \in invs : i.worker # w}
  /\ UNCHANGED <<task, outcomes, ledger, effects, calls, limits>>

Orphaned == \A i \in invs : ~OwnedBy(task, i.worker)

\* reclaimExpired, which skips a locked row.
Reclaim ==
  /\ task.status = "leased"
  /\ ~Locked
  /\ IF Orphaned THEN UNCHANGED spent ELSE Spend("stalls")
  /\ task' = Reclaimed(task)
  /\ UNCHANGED <<outcomes, ledger, effects, calls, invs, limits>>

RequeueDead ==
  /\ task.status = "dead"
  /\ Spend("requeues")
  /\ task' = Requeued(task)
  /\ UNCHANGED <<outcomes, ledger, effects, calls, invs, limits>>

-----------------------------------------------------------------------------
(***************************************************************************)
(* The handlers.                                                           *)
(***************************************************************************)
\* Rolls back, and the handler throws.
Thrown(i) == [i EXCEPT !.pc = "threw", !.claimed = FALSE]

Recording(i, event, answer) ==
  [i EXCEPT !.pc = "recording", !.event = event, !.answer = answer]

\* Mutant: an off-by-one in `exhausted`.
FailureKeepsTrying(i, retryable) ==
  IF retryable /\ i.attempt <= task.max
  THEN Thrown(i)
  ELSE [Recording(i, "failed", 0) EXCEPT !.claimed = FALSE, !.rethrow = retryable]

\* The step failed: try again while it may help, else record the failure, and throw
\* after that if the attempts are used up.
Failure(i, retryable) ==
  IF retryable /\ i.attempt < task.max
  THEN Thrown(i)
  ELSE [Recording(i, "failed", 0) EXCEPT !.claimed = FALSE, !.rethrow = retryable]

\* Mutant: no look at the outcome there is.
StartAgain(i) ==
  /\ i.pc = "start"
  /\ Becomes(i, [i EXCEPT !.pc = "ready"])
  /\ UNCHANGED <<task, outcomes, ledger, effects, calls, limits, spent>>

\* getEvents: a step that has an outcome is served from it.
ReadHistory(i) ==
  /\ i.pc = "start"
  /\ Becomes(i, [i EXCEPT !.pc = IF outcomes = <<>> THEN "ready" ELSE "returned"])
  /\ UNCHANGED <<task, outcomes, ledger, effects, calls, limits, spent>>

\* The request cannot be recovered, the tool is unknown or its arguments are invalid.
Refuse(i) ==
  /\ i.pc = "ready"
  /\ Becomes(i, Recording(i, "failed", 0))
  /\ UNCHANGED <<task, outcomes, ledger, effects, calls, limits, spent>>

\* provider.complete is called.
CallProvider(i) ==
  /\ task.type = "llm" /\ i.pc = "ready"
  /\ calls' = calls + 1
  /\ Becomes(i, [i EXCEPT !.pc = "calling", !.answer = calls'])
  /\ UNCHANGED <<task, outcomes, ledger, effects, limits, spent>>

\* executeAtomically begins: the lease is checked without a lock.
BeginTool(i) ==
  /\ task.type = "tool" /\ i.pc = "ready"
  /\ Becomes(i, IF FenceAccepts(task, i.worker, i.attempt)
                THEN [i EXCEPT !.pc = "claiming"] ELSE Thrown(i))
  /\ UNCHANGED <<task, outcomes, ledger, effects, calls, limits, spent>>

\* claimToolExecution: execute, or reuse the result of who did.
Claim(i) ==
  /\ i.pc = "claiming"
  /\ \A j \in invs : ~j.claimed
  /\ IF ledger = 0
     THEN /\ calls' = calls + 1
          /\ Becomes(i, [i EXCEPT !.pc = "executing", !.claimed = TRUE, !.answer = calls'])
     ELSE /\ UNCHANGED calls
          /\ Becomes(i, Recording(i, "completed", ledger))
  /\ UNCHANGED <<task, outcomes, ledger, effects, limits, spent>>

\* The provider answers, or the tool's handler returns.
Succeeds(i) ==
  /\ i.pc \in {"calling", "executing"}
  /\ Becomes(i, Recording(i, "completed", i.answer))
  /\ UNCHANGED <<task, outcomes, ledger, effects, calls, limits, spent>>

Fails(i, retryable) ==
  /\ i.pc \in {"calling", "executing"}
  /\ Becomes(i, Failure(i, retryable))
  /\ UNCHANGED <<task, outcomes, ledger, effects, calls, limits, spent>>

\* assertLeaseOwned takes the row lock, hasStepOutcome looks once more.
Fence(i) ==
  /\ i.pc = "recording"
  /\ ~Locked
  /\ Becomes(i, IF FenceAccepts(task, i.worker, i.attempt)
                THEN [i EXCEPT !.pc = "fenced", !.write = (outcomes = <<>>)]
                ELSE Thrown(i))
  /\ UNCHANGED <<task, outcomes, ledger, effects, calls, limits, spent>>

\* An error of executeAtomically counts as a failure of the tool, any other is thrown.
Interrupted(i) ==
  IF task.type = "tool" /\ i.pc # "start" /\ i.event # "failed"
  THEN Failure(i, FALSE) ELSE Thrown(i)

\* Mutant: the effect goes through a connection of its own.
CommitApart(i) ==
  /\ i.pc = "fenced"
  /\ outcomes' = IF i.write THEN Append(outcomes, [type |-> i.event, answer |-> i.answer])
                            ELSE outcomes
  /\ ledger' = IF i.claimed THEN i.answer ELSE ledger
  /\ effects' = calls
  /\ \/ /\ Becomes(i, [i EXCEPT !.pc = IF i.rethrow THEN "threw" ELSE "returned",
                               !.claimed = FALSE])
        /\ UNCHANGED spent
     \/ Becomes(i, Interrupted(i)) /\ Spend("errors")
  /\ UNCHANGED <<task, calls, limits>>

\* The outcome, and for a tool its effect and ledger entry, become real together; the
\* response may be lost.
Commit(i) ==
  /\ i.pc = "fenced"
  /\ outcomes' = IF i.write THEN Append(outcomes, [type |-> i.event, answer |-> i.answer])
                            ELSE outcomes
  /\ ledger' = IF i.claimed THEN i.answer ELSE ledger
  /\ effects' = IF i.claimed THEN effects + 1 ELSE effects
  /\ \/ /\ Becomes(i, [i EXCEPT !.pc = IF i.rethrow THEN "threw" ELSE "returned",
                               !.claimed = FALSE])
        /\ UNCHANGED spent
     \/ Becomes(i, Interrupted(i)) /\ Spend("errors")
  /\ UNCHANGED <<task, calls, limits>>

\* A query fails and nothing is committed.
QueryErrors(i) ==
  /\ \/ i.pc \in {"start", "claiming", "recording", "fenced"}
     \/ task.type = "tool" /\ i.pc = "ready"
  /\ Spend("errors")
  /\ Becomes(i, Interrupted(i))
  /\ UNCHANGED <<task, outcomes, ledger, effects, calls, limits>>

-----------------------------------------------------------------------------
HandlerStep(i) ==
  \/ ReadHistory(i)
  \/ Refuse(i)
  \/ CallProvider(i)
  \/ BeginTool(i)
  \/ Claim(i)
  \/ Succeeds(i)
  \/ \E retryable \in BOOLEAN : Fails(i, retryable)
  \/ Fence(i)
  \/ Commit(i)

Next ==
  \/ \E w \in Workers : Dequeue(w) \/ Crash(w)
  \/ Reclaim
  \/ RequeueDead
  \/ \E i \in invs :
       \/ HandlerStep(i)
       \/ QueryErrors(i)
       \/ CompleteTask(i)
       \/ CompleteErrors(i)
       \/ FailTask(i)

\* Some worker polls; handlers go on, so providers and tools answer or fail; dispatch
\* calls complete() or fail(); the reaper ticks.  Faults and operators promise nothing.
Fairness ==
  /\ WF_vars(\E w \in Workers : Dequeue(w))
  /\ WF_vars(\E i \in invs : HandlerStep(i) \/ CompleteTask(i) \/ FailTask(i))
  /\ WF_vars(Orphaned /\ Reclaim)

Spec == Init /\ [][Next]_vars

FairSpec == Spec /\ Fairness

-----------------------------------------------------------------------------
(***************************************************************************)
(* Properties                                                              *)
(***************************************************************************)

\* A step has at most one recorded outcome, with zombies, lost responses and requeued
\* tasks whose fencing token repeats: the row lock makes the fence, the second look
\* and the append one.
OneOutcome == Len(outcomes) <= 1

\* A tool's effect is committed at most once and never without the step's outcome; a
\* completed outcome reports the execution whose effect it was.  Unless an operator
\* requeued the task, an effect is never reported as a failure either.
EffectIsReported ==
  /\ effects <= 1
  /\ effects = 1 => outcomes # <<>>
  /\ task.type = "tool" =>
       \A n \in DOMAIN outcomes :
         IF outcomes[n].type = "completed"
         THEN effects = 1 /\ outcomes[n].answer = ledger
         ELSE effects = 1 => spent.requeues > 0

\* A step's task is completed only when the workflow has an outcome to go on with.
CompletedIsAnswered == task.status = "completed" => outcomes # <<>>

\* Exhausted retries leave an outcome too, unless a database call failed or a live
\* worker lost its lease: crashes alone, even at every attempt, do not lose it.
DeadIsAnswered ==
  task.status = "dead" /\ spent.errors = 0 /\ spent.stalls = 0 => outcomes # <<>>

\* No provider call or tool execution starts for a step that is answered, unless a
\* live worker has lost a lease.
NoCallOnceAnswered ==
  [][ calls' # calls => outcomes = <<>> \/ spent.stalls > 0 ]_vars

\* The step is what DurableStep says: answered once and for good, by a call that was made
\* for it, and the effect of a tool is that of the call which is reported.
Durable ==
  INSTANCE DurableStep
    WITH type <- task.type, answers <- outcomes,
         committed <- [n \in 1..effects |-> ledger], reopened <- spent.requeues > 0

ImplementsDurableStep == Durable!Spec

\* The step's task comes to rest: no invocation waits for ever for a claim or a lock.
StepEnds == <>[](task.status \in {"completed", "dead"} /\ invs = {})
=============================================================================
