------------------------------- MODULE Engine -------------------------------
(***************************************************************************)
(* The workflow engine: one workflow's event history (eventStore.ts), its  *)
(* rows of the task queue, the handlers that replay the workflow and run   *)
(* its steps (packages/worker-sdk), and the callers who start, signal and  *)
(* cancel it.                                                              *)
(*                                                                         *)
(* appendEvents is one transaction and one step here.  What a handler does *)
(* between two statements is not: it reads the history in one step and     *)
(* appends what it decided from it in a later one, with any steps of other *)
(* handlers in between.                                                    *)
(*                                                                         *)
(* The workflow function is a program of stages: it issues the calls of a  *)
(* stage together and awaits them all before the next one (a sequence of   *)
(* awaits has one call per stage, a Promise.all several).                  *)
(*                                                                         *)
(* Leases are coarser than in TaskQueue, which studies them: a lost lease  *)
(* is reclaimed in the step that loses it, and a delayed row is dequeued   *)
(* whenever its time has come.  Both skip states no handler can observe.   *)
(*                                                                         *)
(* A definition marked "Mutant" is a plausible bug in the one after it; it *)
(* is used by no behaviour, only to show that the properties notice it.    *)
(***************************************************************************)
EXTENDS TaskRows, Sequences, FiniteSets, FiniteSetsExt

CONSTANTS
  Wf,            \* the workflow's id
  Signals,       \* names that callers may signal
  MaxAttempts,   \* max_attempts of every row
  Scenarios,     \* what a run starts from, records of a program and of the bounds of the
                 \* environment: how many signals and cancellations are sent (calls), how
                 \* many crashes and database errors (faults) and how many leases lost by
                 \* a live worker (stalls) happen
  None           \* the name of an event that has none

\* The calls of the workflow function, in the order it issues them.
Call == [kind : {"activity", "timer", "signal"}, name : STRING, stage : Nat]

Program == {p \in Seq(Call) : \A j, k \in DOMAIN p : j <= k => p[j].stage <= p[k].stage}

Budget == [calls : Nat, faults : Nat, stalls : Nat]

ASSUME ScenariosAssumption ==
  /\ MaxAttempts \in Nat \ {0} /\ Signals \subseteq STRING
  /\ \A s \in Scenarios : s.program \in Program /\ s.budget \in Budget

VARIABLES
  program,   \* the registered workflow function
  hist,      \* workflow_events, in seq order
  tasks,     \* the workflow's rows of tasks, in the order of insertion
  exec,      \* workflow_executions.status, "none" before the row exists
  invs,      \* handler invocations in progress
  budget,    \* what is left of the scenario's bounds
  \* history variables
  stalled,   \* a live worker has lost a lease
  missed     \* an event was appended while the workflow task was leased by a handler
             \* that had read the history already, and none has read it since

vars == <<program, hist, tasks, exec, invs, budget, stalled, missed>>

FinalEvent == {"WorkflowCompleted", "WorkflowFailed", "WorkflowCanceled"}
StepEvent == {"ActivityScheduled", "TimerScheduled"}
OutcomeEvent == {"ActivityCompleted", "ActivityFailed", "TimerFired"}
EventType ==
  FinalEvent \cup StepEvent \cup OutcomeEvent
  \cup {"WorkflowStarted", "SignalReceived", "CancellationRequested"}

\* `ref` is scheduledEventSeq; payloads are left out.
Event == [type : EventType, name : STRING \cup {None}, ref : Nat]

Of(type, name, ref) == [type |-> type, name |-> name, ref |-> ref]
Plain(type) == Of(type, None, 0)

Running == {"start", "decided"}

Invocation ==
  [task : Nat, worker : Workers, attempt : Nat, seen : Nat,
   pc : Running \cup {"returned", "threw"}]

WorkflowStatus == {"RUNNING", "COMPLETED", "FAILED", "CANCELED"}

TypeOK ==
  /\ program \in Program
  /\ hist \in Seq(Event)
  /\ tasks \in Seq(RowOf({Wf}))
  /\ exec \in WorkflowStatus \cup {"none"}
  /\ invs \in SUBSET Invocation
  /\ \A i \in invs : i.task \in DOMAIN tasks /\ i.seen <= Len(hist)
  /\ budget \in Budget
  /\ stalled \in BOOLEAN /\ missed \in BOOLEAN

Init ==
  /\ \E s \in Scenarios : program = s.program /\ budget = s.budget
  /\ hist = <<>>
  /\ tasks = <<>>
  /\ exec = "none"
  /\ invs = {}
  /\ stalled = FALSE /\ missed = FALSE

Spend(kind) ==
  /\ budget[kind] > 0
  /\ budget' = [budget EXCEPT ![kind] = @ - 1]

-----------------------------------------------------------------------------
(***************************************************************************)
(* foldEvents, as far as the status: the last final event wins.            *)
(***************************************************************************)
StatusAfter(type) ==
  CASE type = "WorkflowCompleted" -> "COMPLETED"
    [] type = "WorkflowFailed" -> "FAILED"
    [] type = "WorkflowCanceled" -> "CANCELED"

Has(h, types) == \E s \in DOMAIN h : h[s].type \in types

\* Mutant: the last event alone decides.
StatusOfLast(h) ==
  IF Has(SubSeq(h, Len(h), Len(h)), FinalEvent) THEN StatusAfter(h[Len(h)].type) ELSE "RUNNING"

StatusOf(h) ==
  IF Has(h, FinalEvent)
  THEN StatusAfter(h[Max({s \in DOMAIN h : h[s].type \in FinalEvent})].type)
  ELSE "RUNNING"

-----------------------------------------------------------------------------
(***************************************************************************)
(* replay: the workflow function run against a history h.                  *)
(***************************************************************************)

\* The event that answers, in order, the calls of call's lane.
InLane(event, call) ==
  CASE call.kind = "activity" -> event.type = "ActivityScheduled"
    [] call.kind = "timer" -> event.type = "TimerScheduled"
    [] call.kind = "signal" -> event.type = "SignalReceived" /\ event.name = call.name

SameLane(c, d) == c.kind = d.kind /\ (c.kind = "signal" => c.name = d.name)

\* The n-th call of a lane is paired with the lane's n-th event; 0 if there is none.
Matched(h, k) ==
  LET n == Cardinality({j \in 1..k : SameLane(program[j], program[k])})
      lane == {s \in DOMAIN h : InLane(h[s], program[k])}
      nth == {s \in lane : Cardinality({r \in lane : r <= s}) = n}
  IN  IF nth = {} THEN 0 ELSE Max(nth)

Outcomes(h, s) == {r \in DOMAIN h : h[r].type \in OutcomeEvent /\ h[r].ref = s}

\* How call k stands; of several outcomes of one step the last wins.
Answer(h, k) ==
  LET s == Matched(h, k)
  IN  CASE s = 0 -> "new"
        [] s # 0 /\ program[k].kind = "signal" -> "completed"
        [] OTHER -> IF Outcomes(h, s) = {} THEN "waiting"
                    ELSE IF h[Max(Outcomes(h, s))].type = "ActivityFailed" THEN "failed"
                    ELSE "completed"

\* Every call of the earlier stages has been answered.
Reached(h, k) ==
  \A j \in DOMAIN program : program[j].stage < program[k].stage => Answer(h, j) = "completed"

\* NonDeterminismError: the paired event schedules another activity.
NonDeterministic(h) ==
  \E k \in DOMAIN program :
    /\ Reached(h, k)
    /\ program[k].kind = "activity"
    /\ Matched(h, k) # 0 /\ h[Matched(h, k)].name # program[k].name

\* The numbers of S, from the least to the greatest.
Ordered(S) == [n \in 1..Cardinality(S) |-> CHOOSE k \in S : Cardinality({j \in S : j <= k}) = n]

\* The new calls of this pass, in program order, as the events commandToEvent makes.
NewSteps(h) ==
  LET new == {k \in DOMAIN program :
                Reached(h, k) /\ program[k].kind # "signal" /\ Answer(h, k) = "new"}
      ks == Ordered(new)
  IN  [n \in DOMAIN ks |->
        IF program[ks[n]].kind = "activity"
        THEN Of("ActivityScheduled", program[ks[n]].name, 0)
        ELSE Plain("TimerScheduled")]

Commands(h) ==
  IF \E k \in DOMAIN program : Reached(h, k) /\ Answer(h, k) = "failed"
  THEN <<Plain("WorkflowFailed")>>
  ELSE IF \A k \in DOMAIN program : Answer(h, k) = "completed"
  THEN <<Plain("WorkflowCompleted")>>
  ELSE NewSteps(h)

\* A cancellation is served before replay ever runs.
CancelPending(h) == Has(h, {"CancellationRequested"}) /\ ~Has(h, FinalEvent)

\* What the workflow handler appends after reading h.
Decision(h) == IF CancelPending(h) THEN <<Plain("WorkflowCanceled")>> ELSE Commands(h)

-----------------------------------------------------------------------------
(***************************************************************************)
(* appendEvents.                                                           *)
(***************************************************************************)

\* Mutant: the seq of the event before.
SeqFromZero(start, n) == start + n - 1

\* The seq of the n-th event appended to a history of `start` events.
SeqFrom(start, n) == start + n

\* The task each scheduling event asks for, numbered by the event's seq.
StepRows(events, start) ==
  LET steps == Ordered({n \in DOMAIN events : events[n].type \in StepEvent})
  IN  [m \in DOMAIN steps |->
        LET timer == events[steps[m]].type = "TimerScheduled"
            type == IF timer THEN "timer" ELSE "activity"
        IN  NewRow(type, Wf, SeqFrom(start, steps[m]), MaxAttempts, ~timer)]

\* Mutants: a leased workflow task does not hold the slot; a completed one holds it too.
IndexRefusesPending ==
  \E t \in DOMAIN tasks : tasks[t].type = "workflow" /\ tasks[t].status = "pending"
IndexRefusesForever == \E t \in DOMAIN tasks : tasks[t].type = "workflow"

\* one_workflow_task_per_wf
IndexRefuses == \E t \in DOMAIN tasks : LiveWorkflowTask(tasks[t], Wf)

HasReadAlready(i) ==
  tasks[i.task].type = "workflow" /\ OwnedBy(tasks[i.task], i.worker) /\ i.pc # "start"

\* Append the events, enqueue what they imply and a workflow task unless one is live,
\* and refresh the status.  `by` is the appending invocation, in a set.
AppendEvents(events, by) ==
  /\ hist' = hist \o events
  /\ tasks' = tasks \o StepRows(events, Len(hist))
                    \o (IF IndexRefuses THEN <<>>
                        ELSE <<NewRow("workflow", Wf, 0, MaxAttempts, TRUE)>>)
  /\ exec' = StatusOf(hist')
  /\ missed' = (missed \/ \E i \in invs \ by : HasReadAlready(i))

-----------------------------------------------------------------------------
(***************************************************************************)
(* The callers.                                                            *)
(***************************************************************************)

\* startWorkflow, first statement: the row of workflow_executions.
CreateExecution ==
  /\ exec = "none"
  /\ exec' = "RUNNING"
  /\ UNCHANGED <<program, hist, tasks, invs, budget, stalled, missed>>

\* startWorkflow, second transaction.
StartWorkflow ==
  /\ exec # "none"
  /\ ~Has(hist, {"WorkflowStarted"})
  /\ AppendEvents(<<Plain("WorkflowStarted")>>, {})
  /\ UNCHANGED <<program, invs, budget, stalled>>

\* sendSignal and cancelWorkflow: appendEvents throws unless the row exists.
External(event) ==
  /\ exec # "none"
  /\ Spend("calls")
  /\ AppendEvents(<<event>>, {})
  /\ UNCHANGED <<program, invs, stalled>>

SendSignal(name) == External(Of("SignalReceived", name, 0))

CancelWorkflow == External(Plain("CancellationRequested"))

-----------------------------------------------------------------------------
(***************************************************************************)
(* The queue, as the engine sees it.                                       *)
(***************************************************************************)

Dequeue(w, t) ==
  /\ tasks[t].status = "pending"
  /\ tasks' = [tasks EXCEPT ![t] = LeasedTo([@ EXCEPT !.due = TRUE], w)]
  /\ invs' = invs \cup {[task |-> t, worker |-> w, attempt |-> tasks'[t].attempt,
                         seen |-> 0, pc |-> "start"]}
  /\ UNCHANGED <<program, hist, exec, budget, stalled, missed>>

\* Mutant: complete() in a finally block.
CompleteFinally(i) ==
  /\ i.pc \in {"returned", "threw"}
  /\ tasks' = [tasks EXCEPT ![i.task] = IF OwnedBy(@, i.worker) THEN Completed(@) ELSE @]
  /\ invs' = invs \ {i}
  /\ UNCHANGED <<program, hist, exec, budget, stalled, missed>>

\* complete(), guarded by the worker alone.
CompleteTask(i) ==
  /\ i.pc = "returned"
  /\ tasks' = [tasks EXCEPT ![i.task] = IF OwnedBy(@, i.worker) THEN Completed(@) ELSE @]
  /\ invs' = invs \ {i}
  /\ UNCHANGED <<program, hist, exec, budget, stalled, missed>>

FailTask(i) ==
  /\ i.pc = "threw"
  /\ tasks' = [tasks EXCEPT ![i.task] = IF OwnedBy(@, i.worker) THEN Failed(@) ELSE @]
  /\ invs' = invs \ {i}
  /\ UNCHANGED <<program, hist, exec, budget, stalled, missed>>

Crash(w) ==
  /\ \E i \in invs : i.worker = w
  /\ Spend("faults")
  /\ invs' = {i \in invs : i.worker # w}
  /\ UNCHANGED <<program, hist, tasks, exec, stalled, missed>>

\* The reaper takes a lease back: its holder crashed, or is alive and too slow.
Orphaned(t) == \A i \in invs : i.task = t => ~OwnedBy(tasks[t], i.worker)

Reclaim(t) ==
  /\ tasks[t].status = "leased"
  /\ \/ Orphaned(t) /\ UNCHANGED <<budget, stalled>>
     \/ ~Orphaned(t) /\ Spend("stalls") /\ stalled' = TRUE
  /\ tasks' = [tasks EXCEPT ![t] = Reclaimed(@)]
  /\ UNCHANGED <<program, hist, exec, invs, missed>>

-----------------------------------------------------------------------------
(***************************************************************************)
(* The handlers.                                                           *)
(***************************************************************************)
\* The handler of a worker for tasks of this type is at this point.
Handles(i, type, pc) == tasks[i.task].type = type /\ i.pc = pc

Becomes(i, pc) == invs' = (invs \ {i}) \cup {[i EXCEPT !.pc = pc]}

Decides(i) == invs' = (invs \ {i}) \cup {[i EXCEPT !.pc = "decided", !.seen = Len(hist)]}

\* createWorkflowReplayHandler: read the history, and decide from it.
ReadHistory(i) ==
  /\ Handles(i, "workflow", "start")
  /\ IF ~Has(hist, {"WorkflowStarted"}) THEN Becomes(i, "threw")
     ELSE IF CancelPending(hist) THEN Decides(i)
     ELSE IF NonDeterministic(hist) THEN Becomes(i, "threw")
     ELSE IF Commands(hist) = <<>> THEN Becomes(i, "returned")
     ELSE Decides(i)
  /\ missed' = FALSE
  /\ UNCHANGED <<program, hist, tasks, exec, budget, stalled>>

\* Mutant: no look at the outcomes there are.
RunAgain(i) ==
  /\ Handles(i, "activity", "start")
  /\ Becomes(i, "decided")
  /\ UNCHANGED <<program, hist, tasks, exec, budget, stalled, missed>>

\* createActivityHandler: an activity with an outcome is not run again.
ReadForActivity(i) ==
  /\ Handles(i, "activity", "start")
  /\ LET outcomes == Outcomes(hist, tasks[i.task].ref)
     IN  Becomes(i, IF outcomes = {} THEN "decided" ELSE "returned")
  /\ UNCHANGED <<program, hist, tasks, exec, budget, stalled, missed>>

\* A handler's transaction commits; the response may be lost on the way.
AppendAndReturn(i, events) ==
  /\ AppendEvents(events, {i})
  /\ \/ Becomes(i, "returned") /\ UNCHANGED budget
     \/ Becomes(i, "threw") /\ Spend("faults")
  /\ UNCHANGED <<program, stalled>>

AppendDecision(i) ==
  /\ Handles(i, "workflow", "decided")
  /\ AppendAndReturn(i, Decision(SubSeq(hist, 1, i.seen)))

\* The activity function has settled, one way or the other.
AppendOutcome(i, type) ==
  /\ Handles(i, "activity", "decided")
  /\ AppendAndReturn(i, <<Of(type, None, tasks[i.task].ref)>>)

\* createTimerHandler: unconditionally.
AppendTimerFired(i) ==
  /\ Handles(i, "timer", "start")
  /\ AppendAndReturn(i, <<Of("TimerFired", None, tasks[i.task].ref)>>)

\* A query fails and nothing is committed.
HandlerErrors(i) ==
  /\ i.pc \in Running
  /\ Spend("faults")
  /\ Becomes(i, "threw")
  /\ UNCHANGED <<program, hist, tasks, exec, stalled, missed>>

-----------------------------------------------------------------------------
HandlerStep(i) ==
  \/ ReadHistory(i)
  \/ AppendDecision(i)
  \/ ReadForActivity(i)
  \/ \E type \in {"ActivityCompleted", "ActivityFailed"} : AppendOutcome(i, type)
  \/ AppendTimerFired(i)

Next ==
  \/ CreateExecution
  \/ StartWorkflow
  \/ \E name \in Signals : SendSignal(name)
  \/ CancelWorkflow
  \/ \E t \in DOMAIN tasks :
       \/ \E w \in Workers : Dequeue(w, t)
       \/ Reclaim(t)
  \/ \E i \in invs :
       \/ HandlerStep(i)
       \/ HandlerErrors(i)
       \/ CompleteTask(i)
       \/ FailTask(i)
  \/ \E w \in Workers : Crash(w)

\* Some worker polls, handlers settle and dispatch then calls complete() or fail(), and
\* the reaper ticks.  Callers and faults promise nothing.
Fairness ==
  /\ WF_vars(\E t \in DOMAIN tasks, w \in Workers : Dequeue(w, t))
  /\ WF_vars(\E i \in invs : HandlerStep(i) \/ CompleteTask(i) \/ FailTask(i))
  /\ WF_vars(\E t \in DOMAIN tasks : Orphaned(t) /\ Reclaim(t))

Spec == Init /\ [][Next]_vars

FairSpec == Spec /\ Fairness

-----------------------------------------------------------------------------
(***************************************************************************)
(* Properties                                                              *)
(***************************************************************************)

\* appendEvents is atomic with its enqueues: every scheduling event of the history has
\* exactly one task, of its kind and carrying its seq, and no step task is without one.
OneTaskPerStep ==
  /\ \A s \in DOMAIN hist : hist[s].type \in StepEvent =>
       Cardinality({t \in DOMAIN tasks : tasks[t].type # "workflow" /\ tasks[t].ref = s}) = 1
  /\ \A t \in DOMAIN tasks :
       /\ tasks[t].type = "activity" =>
            tasks[t].ref \in DOMAIN hist /\ hist[tasks[t].ref].type = "ActivityScheduled"
       /\ tasks[t].type = "timer" =>
            tasks[t].ref \in DOMAIN hist /\ hist[tasks[t].ref].type = "TimerScheduled"

\* Crashes, database errors, redeliveries and lost responses never record two outcomes
\* for one activity: the already-has-an-outcome guard holds as long as no live worker
\* loses a lease.
OneOutcomePerActivity ==
  ~stalled =>
    \A s \in DOMAIN hist :
      hist[s].type = "ActivityScheduled" => Cardinality(Outcomes(hist, s)) <= 1

\* The history is a run of the program: the n-th ActivityScheduled is the program's n-th
\* activity call, and no call is scheduled twice.  It rests on the index: two workflow
\* tasks at once would both schedule from the same history.
LanesFollowProgram ==
  ~stalled =>
    \A kind \in {"activity", "timer"} :
      LET call == [kind |-> kind, name |-> None, stage |-> 0]
          calls == Ordered({k \in DOMAIN program : SameLane(program[k], call)})
          lane == Ordered({s \in DOMAIN hist : InLane(hist[s], call)})
      IN  /\ Len(lane) <= Len(calls)
          /\ kind = "activity" =>
               \A n \in DOMAIN lane : hist[lane[n]].name = program[calls[n]].name

\* Answered, with nothing under way and no workflow task to wake it.
Stranded ==
  /\ exec = "RUNNING"
  /\ Has(hist, {"WorkflowStarted"})
  /\ \A t \in DOMAIN tasks : tasks[t].status = "completed"
  /\ invs = {}
  /\ Decision(hist) # <<>>

\* Crashes, errors and lost responses strand no workflow: while no live worker loses a
\* lease, what can is only a wakeup that enqueue swallows because a workflow task is
\* leased, after the handler holding it has read the history.
OnlyMissedWakeupsStrand == Stranded => missed \/ stalled

\* Whatever arrives late, a workflow that ended is never running again, and the history
\* it ended with is only ever extended.
EndedStaysEnded ==
  [][ /\ exec \in WorkflowStatus \ {"RUNNING"} => exec' \in WorkflowStatus \ {"RUNNING"}
      /\ SubSeq(hist', 1, Len(hist)) = hist ]_vars

\* Every scheduled step comes to a recorded outcome or a dead-lettered task, through any
\* finite number of crashes, errors and lost leases: time and again none is open.
EveryStepSettles ==
  []<>(\A s \in DOMAIN hist : hist[s].type \in StepEvent =>
         \/ Outcomes(hist, s) # {}
         \/ \E t \in DOMAIN tasks : tasks[t].ref = s /\ tasks[t].status = "dead")

\* README.md:5-7 says the engine "guarantees each workflow runs to completion".
NeverStranded == ~Stranded

\* README.md:22-24 says "the workflow itself reaches one final outcome", and
\* docs/04-durability.md:82 that "a cancel request durably ends the workflow".
FinalOutcomeStands ==
  [][(exec \in WorkflowStatus \ {"RUNNING"}) => exec' = exec]_vars
=============================================================================
