-------------------------- MODULE TaskQueue_proofs --------------------------
(***************************************************************************)
(* Proofs about TaskQueue for any sets of tasks, workers and workflows and *)
(* any bounds.                                                             *)
(***************************************************************************)
EXTENDS TaskQueue, TLAPS

-----------------------------------------------------------------------------
(***************************************************************************)
(* Rows: every statement maps rows to rows.                                *)
(***************************************************************************)

\* The updates of queue.ts and dlq.ts keep a row's columns in their domains.
LEMMA LeasedRow ==
  ASSUME NEW row \in Row, NEW w \in Workers
  PROVE  LeasedTo(row, w) \in Row
<1>1. row.attempt + 1 \in Nat
  BY DEF Row, RowOf
<1> QED
  BY <1>1 DEF LeasedTo, Row, RowOf, Status

LEMMA UpdatedRow ==
  ASSUME NEW row \in Row
  PROVE  /\ Extended(row) \in Row
         /\ Completed(row) \in Row
         /\ Failed(row) \in Row
         /\ Reclaimed(row) \in Row
         /\ Requeued(row) \in Row
         /\ [row EXCEPT !.due = TRUE] \in Row
         /\ [row EXCEPT !.overdue = TRUE] \in Row
<1> USE DEF Row, RowOf, Status
<1>1. Extended(row) \in Row
  BY DEF Extended
<1>2. Completed(row) \in Row
  BY DEF Completed
<1>3. Failed(row) \in Row
  <2>1. (row.attempt >= row.max /\ row.due) \in BOOLEAN
    OBVIOUS
  <2>2. QED
    BY <2>1 DEF Failed
<1>4. Reclaimed(row) \in Row
  BY DEF Reclaimed
<1>5. Requeued(row) \in Row
  BY DEF Requeued
<1>6. /\ [row EXCEPT !.due = TRUE] \in Row
      /\ [row EXCEPT !.overdue = TRUE] \in Row
  OBVIOUS
<1> QED
  BY <1>1, <1>2, <1>3, <1>4, <1>5, <1>6

\* The row enqueue inserts.
LEMMA InsertedRow ==
  ASSUME NEW type \in {"workflow", "activity"}, NEW wf \in Workflows, NEW due \in BOOLEAN
  PROVE  NewRow(type, wf, 0, MaxAttempts, due) \in Row
BY BoundsAssumption DEF Row, RowOf, Status, TaskType, NewRow

\* The initial state is well typed.
LEMMA InitTypeOK == Init => TypeOK
<1> SUFFICES ASSUME Init PROVE TypeOK
  OBVIOUS
<1>1. PICK wf \in Workflows :
        tasks = [t \in TaskId |->
                   [NewRow("workflow", wf, 0, MaxAttempts, TRUE) EXCEPT !.status = "absent"]]
  BY DEF Init
<1>2. [NewRow("workflow", wf, 0, MaxAttempts, TRUE) EXCEPT !.status = "absent"] \in Row
  BY BoundsAssumption DEF Row, RowOf, Status, TaskType, NewRow
<1>3. tasks \in [TaskId -> Row]
  BY <1>1, <1>2
<1> QED
  BY <1>3 DEF Init, TypeOK

-----------------------------------------------------------------------------
(***************************************************************************)
(* Type correctness.                                                       *)
(***************************************************************************)

\* No action takes a variable out of its type.
LEMMA NextTypeOK == TypeOK /\ [Next]_vars => TypeOK'
<1> SUFFICES ASSUME TypeOK, [Next]_vars PROVE TypeOK'
  OBVIOUS
<1> USE DEF TypeOK, history, Fault
<1>1. ASSUME NEW t \in TaskId, NEW type \in {"workflow", "activity"}, NEW wf \in Workflows,
             NEW due \in BOOLEAN, Enqueue(t, type, wf, due)
      PROVE  TypeOK'
  BY <1>1, InsertedRow DEF Enqueue
<1>2. ASSUME NEW t \in TaskId, BecomeDue(t)
      PROVE  TypeOK'
  BY <1>2, UpdatedRow DEF BecomeDue
<1>3. ASSUME NEW t \in TaskId, LeaseRunsOut(t)
      PROVE  TypeOK'
  <2>1. tasks' \in [TaskId -> Row]
    BY <1>3, UpdatedRow DEF LeaseRunsOut
  <2> QED
    BY <1>3, <2>1 DEF LeaseRunsOut
<1>4. ASSUME NEW t \in TaskId, Reclaim(t)
      PROVE  TypeOK'
  <2>1. tasks' \in [TaskId -> Row]
    BY <1>4, UpdatedRow DEF Reclaim
  <2> QED
    BY <1>4, <2>1 DEF Reclaim
<1>5. ASSUME NEW t \in TaskId, RequeueDead(t)
      PROVE  TypeOK'
  <2>1. tasks' \in [TaskId -> Row]
    BY <1>5, UpdatedRow DEF RequeueDead
  <2> QED
    BY <1>5, <2>1 DEF RequeueDead
<1>6. ASSUME NEW t \in TaskId, NEW w \in Workers, Dequeue(w, t)
      PROVE  TypeOK'
  <2>1. tasks' \in [TaskId -> Row]
    BY <1>6, LeasedRow DEF Dequeue
  <2>2. tasks'[t].attempt \in Nat
    BY <2>1 DEF Row, RowOf
  <2>3. invs' \in SUBSET Invocation
    BY <1>6, <2>2 DEF Dequeue, Invocation
  <2> QED
    BY <1>6, <2>1, <2>3 DEF Dequeue
<1>7. ASSUME NEW t \in TaskId, NEW w \in Workers, DequeueLost(w, t)
      PROVE  TypeOK'
  BY <1>7, LeasedRow DEF DequeueLost
<1>8. ASSUME NEW t \in TaskId, NEW w \in Workers, Heartbeat(w, t)
      PROVE  TypeOK'
  BY <1>8, UpdatedRow DEF Heartbeat
<1>9. ASSUME NEW i \in invs, HandlerReturns(i)
      PROVE  TypeOK'
  BY <1>9 DEF HandlerReturns, Invocation
<1>10. ASSUME NEW i \in invs, HandlerThrows(i)
       PROVE  TypeOK'
  BY <1>10 DEF HandlerThrows, Invocation
<1>11. ASSUME NEW i \in invs, CompleteTask(i)
       PROVE  TypeOK'
  <2>1. tasks' \in [TaskId -> Row]
    BY <1>11, UpdatedRow DEF CompleteTask, Invocation
  <2> QED
    BY <1>11, <2>1 DEF CompleteTask
<1>12. ASSUME NEW i \in invs, CompleteErrors(i)
       PROVE  TypeOK'
  <2>1. tasks' \in [TaskId -> Row]
    <3>1. i.task \in TaskId /\ tasks[i.task] \in Row
      BY DEF Invocation
    <3>2. CASE UNCHANGED tasks
      BY <3>2
    <3>3. CASE tasks' = [tasks EXCEPT ![i.task] = Completed(@)]
      BY <3>1, <3>3, UpdatedRow
    <3> QED
      BY <1>12, <3>2, <3>3 DEF CompleteErrors
  <2>2. invs' \in SUBSET Invocation /\ faults' \in Nat
    BY <1>12 DEF CompleteErrors, Invocation
  <2> QED
    BY <1>12, <2>1, <2>2 DEF CompleteErrors
<1>13. ASSUME NEW i \in invs, FailTask(i)
       PROVE  TypeOK'
  <2>1. tasks' \in [TaskId -> Row]
    BY <1>13, UpdatedRow DEF FailTask, Invocation
  <2>2. fails' \in [TaskId -> Nat]
    BY <1>13 DEF FailTask, Invocation
  <2> QED
    BY <1>13, <2>1, <2>2 DEF FailTask
<1>14. ASSUME NEW w \in Workers, Crash(w)
       PROVE  TypeOK'
  BY <1>14 DEF Crash
<1>15. CASE UNCHANGED vars
  BY <1>15 DEF vars
<1> QED
  BY <1>1, <1>2, <1>3, <1>4, <1>5, <1>6, <1>7, <1>8, <1>9, <1>10, <1>11, <1>12, <1>13, <1>14,
     <1>15 DEF Next

\* Every reachable state is well typed.
THEOREM TypeCorrect == Spec => []TypeOK
BY InitTypeOK, NextTypeOK, PTL DEF Spec

-----------------------------------------------------------------------------
(***************************************************************************)
(* The index slot of a workflow.                                           *)
(***************************************************************************)

\* No update but requeueDeadTask's makes a row live that was not, and none changes
\* whose workflow task it is.
LEMMA UpdatedLive ==
  ASSUME NEW row \in Row, NEW wf \in Workflows, NEW new,
         \/ \E w \in Workers : Candidate(row) /\ new = LeasedTo(row, w)
         \/ \E w \in Workers : OwnedBy(row, w) /\ new \in {Completed(row), Failed(row)}
         \/ Expired(row) /\ new = Reclaimed(row)
         \/ new = Extended(row)
         \/ new = [row EXCEPT !.due = TRUE]
         \/ new = [row EXCEPT !.overdue = TRUE]
         \/ new = row,
         LiveWorkflowTask(new, wf)
  PROVE  LiveWorkflowTask(row, wf)
BY DEF LiveWorkflowTask, Live, Candidate, LeasedTo, OwnedBy, Completed, Failed, Expired,
       Reclaimed, Extended, Row, RowOf

\* Every step but an insert or a requeue leaves the live workflow tasks among those
\* there were.
LEMMA LiveShrinks ==
  ASSUME TypeOK, [Next]_vars,
         NEW t \in TaskId, NEW wf \in Workflows,
         LiveWorkflowTask(tasks'[t], wf)
  PROVE  \/ LiveWorkflowTask(tasks[t], wf)
         \/ /\ ~IndexRefuses(t, "workflow", wf)
            /\ \A u \in TaskId \ {t} : tasks'[u] = tasks[u]
<1> DEFINE Shrunk == LiveWorkflowTask(tasks[t], wf)
<1>a. tasks[t] \in Row
  BY DEF TypeOK
<1>1. ASSUME NEW u \in TaskId, NEW type \in {"workflow", "activity"}, NEW v \in Workflows,
             NEW due \in BOOLEAN, Enqueue(u, type, v, due)
      PROVE  Shrunk \/ (~IndexRefuses(t, "workflow", wf) /\ \A x \in TaskId \ {t} : tasks'[x] = tasks[x])
  <2>1. CASE u = t
    <3>1. tasks'[t] = NewRow(type, v, 0, MaxAttempts, due)
      BY <1>1, <2>1 DEF Enqueue, TypeOK
    <3>2. type = "workflow" /\ v = wf
      BY <3>1 DEF LiveWorkflowTask, NewRow
    <3> QED
      BY <1>1, <2>1, <3>2 DEF Enqueue, TypeOK
  <2>2. CASE u # t
    BY <1>1, <2>2 DEF Enqueue, TypeOK
  <2> QED
    BY <2>1, <2>2
<1>2. ASSUME NEW u \in TaskId, RequeueDead(u)
      PROVE  Shrunk \/ (~IndexRefuses(t, "workflow", wf) /\ \A x \in TaskId \ {t} : tasks'[x] = tasks[x])
  <2>1. CASE u = t
    <3>1. tasks'[t] = Requeued(tasks[t])
      BY <1>2, <2>1 DEF RequeueDead, TypeOK
    <3>2. tasks[t].type = "workflow" /\ tasks[t].wf = wf
      BY <3>1, <1>a DEF LiveWorkflowTask, Requeued, Row, RowOf
    <3> QED
      BY <1>2, <2>1, <3>2 DEF RequeueDead, TypeOK
  <2>2. CASE u # t
    BY <1>2, <2>2 DEF RequeueDead, TypeOK
  <2> QED
    BY <2>1, <2>2
<1>3. ASSUME NEW u \in TaskId, BecomeDue(u) \/ LeaseRunsOut(u) \/ Reclaim(u)
      PROVE  Shrunk
  BY <1>3, <1>a, UpdatedLive DEF BecomeDue, LeaseRunsOut, Reclaim, TypeOK
<1>4. ASSUME NEW u \in TaskId, NEW w \in Workers,
             Dequeue(w, u) \/ DequeueLost(w, u) \/ Heartbeat(w, u)
      PROVE  Shrunk
  BY <1>4, <1>a, UpdatedLive DEF Dequeue, DequeueLost, Heartbeat, TypeOK
<1>5. ASSUME NEW i \in invs, HandlerReturns(i) \/ HandlerThrows(i)
      PROVE  Shrunk
  BY <1>5 DEF HandlerReturns, HandlerThrows
<1>6. ASSUME NEW i \in invs, CompleteTask(i) \/ CompleteErrors(i) \/ FailTask(i)
      PROVE  Shrunk
  <2>1. i.worker \in Workers
    BY DEF TypeOK, Invocation
  <2> QED
    BY <1>6, <1>a, <2>1, UpdatedLive DEF CompleteTask, CompleteErrors, FailTask, TypeOK
<1>7. ASSUME NEW w \in Workers, Crash(w)
      PROVE  Shrunk
  BY <1>7 DEF Crash
<1>8. CASE UNCHANGED vars
  BY <1>8 DEF vars
<1> QED
  BY <1>1, <1>2, <1>3, <1>4, <1>5, <1>6, <1>7, <1>8 DEF Next

\* The unique index keeps one live workflow task per workflow in every reachable state.
THEOREM WorkflowTaskIsUnique == Spec => []OneLiveWorkflowTask
<1>1. Init => OneLiveWorkflowTask
  BY DEF Init, OneLiveWorkflowTask, LiveWorkflowTask, Live, NewRow
<1>2. TypeOK /\ OneLiveWorkflowTask /\ [Next]_vars => OneLiveWorkflowTask'
  <2> SUFFICES ASSUME TypeOK, OneLiveWorkflowTask, [Next]_vars,
                      NEW wf \in Workflows, NEW t \in TaskId, NEW u \in TaskId, t # u,
                      LiveWorkflowTask(tasks'[t], wf), LiveWorkflowTask(tasks'[u], wf)
               PROVE  FALSE
    BY DEF OneLiveWorkflowTask
  <2>1. CASE LiveWorkflowTask(tasks[t], wf) /\ LiveWorkflowTask(tasks[u], wf)
    BY <2>1 DEF OneLiveWorkflowTask
  <2>2. CASE ~LiveWorkflowTask(tasks[t], wf)
    BY <2>2, LiveShrinks DEF IndexRefuses
  <2>3. CASE ~LiveWorkflowTask(tasks[u], wf)
    BY <2>3, LiveShrinks DEF IndexRefuses
  <2> QED
    BY <2>1, <2>2, <2>3
<1> QED
  BY <1>1, <1>2, TypeCorrect, PTL DEF Spec

-----------------------------------------------------------------------------
(***************************************************************************)
(* The fencing token.                                                      *)
(***************************************************************************)

\* An invocation's token is not ahead of its row: its epoch is past, or its attempt
\* was counted.
TokensIssued ==
  \A i \in invs :
    /\ tasks[i.task].status # "absent"
    /\ i.epoch <= epoch[i.task]
    /\ i.epoch = epoch[i.task] => i.attempt <= tasks[i.task].attempt

\* dequeue hands out each token once.
TokensDistinct ==
  \A i, j \in invs :
    i.task = j.task /\ i.epoch = j.epoch /\ i.attempt = j.attempt => i = j

TokenInv == TokensIssued /\ TokensDistinct

\* Only dequeue counts an attempt, and no update un-inserts a row.
LEMMA UpdatedAttempt ==
  ASSUME NEW row \in Row
  PROVE  /\ \A w \in Workers : /\ LeasedTo(row, w).attempt = row.attempt + 1
                              /\ LeasedTo(row, w).status = "leased"
         /\ \A new \in {Extended(row), Completed(row), Failed(row), Reclaimed(row),
                        [row EXCEPT !.due = TRUE], [row EXCEPT !.overdue = TRUE]} :
              /\ new.attempt = row.attempt
              /\ row.status # "absent" => new.status # "absent"
<1> USE DEF Row, RowOf
<1>1. \A w \in Workers : /\ LeasedTo(row, w).attempt = row.attempt + 1
                        /\ LeasedTo(row, w).status = "leased"
  BY DEF LeasedTo
<1>2. \A new \in {Extended(row), Completed(row), Failed(row), Reclaimed(row),
                 [row EXCEPT !.due = TRUE], [row EXCEPT !.overdue = TRUE]} :
        /\ new.attempt = row.attempt
        /\ row.status # "absent" => new.status # "absent"
  BY DEF Extended, Completed, Failed, Reclaimed
<1> QED
  BY <1>1, <1>2

\* What a step does to the attempt count of a row: in an epoch it only grows.
LEMMA AttemptsGrow ==
  ASSUME TypeOK, [Next]_vars, NEW t \in TaskId, tasks[t].status # "absent"
  PROVE  /\ epoch'[t] = epoch[t] => tasks'[t].attempt >= tasks[t].attempt
         /\ epoch'[t] >= epoch[t]
         /\ tasks'[t].status # "absent"
<1> USE DEF TypeOK, history, Fault
<1>a. tasks[t] \in Row
  OBVIOUS
<1>b. tasks[t].attempt \in Nat
  BY <1>a DEF Row, RowOf
<1> DEFINE Goal == /\ epoch'[t] = epoch[t] => tasks'[t].attempt >= tasks[t].attempt
                   /\ epoch'[t] >= epoch[t]
                   /\ tasks'[t].status # "absent"
<1>1. ASSUME NEW u \in TaskId, NEW type \in {"workflow", "activity"}, NEW v \in Workflows,
             NEW due \in BOOLEAN, Enqueue(u, type, v, due)
      PROVE  Goal
  BY <1>1, <1>b DEF Enqueue
<1>2. ASSUME NEW u \in TaskId, RequeueDead(u)
      PROVE  Goal
  BY <1>2, <1>a, <1>b DEF RequeueDead, Requeued, Row, RowOf
<1>3. ASSUME NEW u \in TaskId, BecomeDue(u) \/ LeaseRunsOut(u) \/ Reclaim(u)
      PROVE  Goal
  <2>1. CASE u # t
    BY <1>3, <1>b, <2>1 DEF BecomeDue, LeaseRunsOut, Reclaim
  <2>2. CASE u = t
    <3>1. /\ tasks'[t] \in {[tasks[t] EXCEPT !.due = TRUE], [tasks[t] EXCEPT !.overdue = TRUE],
                           Reclaimed(tasks[t])}
          /\ epoch' = epoch
      BY <1>3, <2>2 DEF BecomeDue, LeaseRunsOut, Reclaim
    <3> QED
      <4>1. tasks'[t].attempt = tasks[t].attempt /\ tasks'[t].status # "absent"
        BY <1>a, <3>1, UpdatedAttempt
      <4> QED
        BY <1>b, <3>1, <4>1
  <2> QED
    BY <2>1, <2>2
<1>4. ASSUME NEW u \in TaskId, NEW w \in Workers,
             Dequeue(w, u) \/ DequeueLost(w, u) \/ Heartbeat(w, u)
      PROVE  Goal
  <2>1. CASE u # t
    BY <1>4, <1>b, <2>1 DEF Dequeue, DequeueLost, Heartbeat
  <2>2. CASE u = t
    BY <1>4, <1>a, <1>b, <2>2, UpdatedAttempt DEF Dequeue, DequeueLost, Heartbeat
  <2> QED
    BY <2>1, <2>2
<1>5. ASSUME NEW i \in invs, HandlerReturns(i) \/ HandlerThrows(i)
      PROVE  Goal
  BY <1>5, <1>b DEF HandlerReturns, HandlerThrows
<1>6. ASSUME NEW i \in invs, CompleteTask(i) \/ CompleteErrors(i) \/ FailTask(i)
      PROVE  Goal
  <2>1. CASE i.task # t
    BY <1>6, <1>b, <2>1 DEF CompleteTask, CompleteErrors, FailTask
  <2>2. CASE i.task = t
    BY <1>6, <1>a, <1>b, <2>2, UpdatedAttempt DEF CompleteTask, CompleteErrors, FailTask
  <2> QED
    BY <2>1, <2>2
<1>7. ASSUME NEW w \in Workers, Crash(w)
      PROVE  Goal
  BY <1>7, <1>b DEF Crash
<1>8. CASE UNCHANGED vars
  BY <1>8, <1>b DEF vars
<1> QED
  BY <1>1, <1>2, <1>3, <1>4, <1>5, <1>6, <1>7, <1>8 DEF Next

\* Tokens stay issued and distinct.
LEMMA NextTokenInv == TypeOK /\ TokenInv /\ [Next]_vars => TokenInv'
<1> SUFFICES ASSUME TypeOK, TokenInv, [Next]_vars PROVE TokenInv'
  OBVIOUS
<1> USE DEF TokenInv, TokensIssued, TokensDistinct
<1>a. \A t \in TaskId :
        /\ tasks[t].attempt \in Nat /\ tasks'[t].attempt \in Nat
        /\ epoch[t] \in Nat /\ epoch'[t] \in Nat
  BY NextTypeOK DEF TypeOK, Row, RowOf
<1>b. \A i \in invs : /\ i.task \in TaskId
                     /\ i.attempt \in Nat
                     /\ i.epoch \in Nat
                     /\ i.worker \in Workers
                     /\ i = [task |-> i.task, worker |-> i.worker, attempt |-> i.attempt,
                             epoch |-> i.epoch, pc |-> i.pc]
  BY DEF TypeOK, Invocation
<1>c. \A i \in invs :
        /\ i.epoch <= epoch'[i.task]
        /\ i.epoch = epoch'[i.task] => i.attempt <= tasks'[i.task].attempt
        /\ tasks'[i.task].status # "absent"
  <2> SUFFICES ASSUME NEW i \in invs
               PROVE  /\ i.epoch <= epoch'[i.task]
                      /\ i.epoch = epoch'[i.task] => i.attempt <= tasks'[i.task].attempt
                      /\ tasks'[i.task].status # "absent"
    OBVIOUS
  <2>1. /\ epoch'[i.task] = epoch[i.task] => tasks'[i.task].attempt >= tasks[i.task].attempt
        /\ epoch'[i.task] >= epoch[i.task]
        /\ tasks'[i.task].status # "absent"
    BY <1>b, AttemptsGrow
  <2> QED
    BY <1>a, <1>b, <2>1
<1>1. CASE invs' \subseteq invs
  BY <1>1, <1>c
<1>2. ASSUME NEW i \in invs, HandlerReturns(i) \/ HandlerThrows(i) \/ CompleteErrors(i)
      PROVE  TokenInv'
  <2>1. PICK j : /\ invs' = (invs \ {i}) \cup {j}
                 /\ j.task = i.task
                 /\ j.attempt = i.attempt
                 /\ j.epoch = i.epoch
    <3>1. PICK pc : invs' = (invs \ {i}) \cup {[i EXCEPT !.pc = pc]}
      BY <1>2 DEF HandlerReturns, HandlerThrows, CompleteErrors
    <3>2. [i EXCEPT !.pc = pc] = [task |-> i.task, worker |-> i.worker, attempt |-> i.attempt,
                                  epoch |-> i.epoch, pc |-> pc]
      BY <1>b
    <3> QED
      BY <3>1, <3>2
  <2> QED
    BY <2>1, <1>c
<1>3. ASSUME NEW t \in TaskId, NEW w \in Workers, Dequeue(w, t)
      PROVE  TokenInv'
  <2> DEFINE j == [task |-> t, worker |-> w, attempt |-> tasks[t].attempt + 1,
                   epoch |-> epoch[t], pc |-> "running"]
  <2>1. /\ tasks'[t].attempt = tasks[t].attempt + 1
        /\ tasks'[t].status = "leased"
    BY <1>3, UpdatedAttempt DEF Dequeue, TypeOK
  <2>2. invs' = invs \cup {j} /\ epoch' = epoch
    BY <1>3, <2>1 DEF Dequeue, history
  <2>3. TokensIssued'
    BY <1>a, <1>c, <2>1, <2>2
  <2>4. \A i \in invs : ~(i.task = t /\ i.epoch = epoch[t] /\ i.attempt = tasks[t].attempt + 1)
    BY <1>a, <1>b
  <2>5. TokensDistinct'
    BY <2>2, <2>4
  <2> QED
    BY <2>3, <2>5
<1> QED
  <2>1. \/ invs' \subseteq invs
        \/ \E i \in invs : HandlerReturns(i) \/ HandlerThrows(i) \/ CompleteErrors(i)
        \/ \E t \in TaskId, w \in Workers : Dequeue(w, t)
    BY DEF Next, vars, Enqueue, BecomeDue, LeaseRunsOut, Reclaim, RequeueDead, DequeueLost,
           Heartbeat, CompleteTask, FailTask, Crash
  <2> QED
    BY <1>1, <1>2, <1>3, <2>1

\* Of the invocations of a task in one epoch, isLeaseOwned accepts at most one, in every
\* reachable state: also when one worker holds several of them.
THEOREM FenceAcceptsOne == Spec => []OneFencedInvocation
<1>1. Init => TokenInv
  BY DEF Init, TokenInv, TokensIssued, TokensDistinct
<1>2. Spec => []TokenInv
  BY <1>1, NextTokenInv, TypeCorrect, PTL DEF Spec
<1>3. TokenInv => OneFencedInvocation
  BY DEF TokenInv, TokensDistinct, OneFencedInvocation, FenceAccepts
<1> QED
  BY <1>2, <1>3, PTL

-----------------------------------------------------------------------------
(***************************************************************************)
(* Attempts, failures and reclaims.                                        *)
(***************************************************************************)

\* What holds of a row with f recorded failures and r reclaims in its epoch.
Accounted(row, f, r) ==
  /\ row.max = MaxAttempts
  /\ row.attempt = f + r + (IF row.status \in {"leased", "completed"} THEN 1 ELSE 0)
  /\ f <= MaxAttempts
  /\ row.status = "absent" => row.attempt = 0
  /\ row.status # "dead" => f < MaxAttempts

AccountInv == \A t \in TaskId : Accounted(tasks[t], fails[t], reclaims[t])

\* Each statement of the queue moves the account of the row it updates.
LEMMA AccountMoves ==
  ASSUME NEW row \in Row, NEW f \in Nat, NEW r \in Nat, Accounted(row, f, r)
  PROVE  /\ \A w \in Workers : Candidate(row) => Accounted(LeasedTo(row, w), f, r)
         /\ row.status = "leased" => Accounted(Completed(row), f, r)
         /\ row.status = "leased" => Accounted(Failed(row), f + 1, r)
         /\ row.status = "leased" => Accounted(Reclaimed(row), f, r + 1)
         /\ row.status = "dead" => Accounted(Requeued(row), 0, 0)
         /\ Accounted(Extended(row), f, r)
         /\ Accounted([row EXCEPT !.due = TRUE], f, r)
         /\ Accounted([row EXCEPT !.overdue = TRUE], f, r)
<1> USE BoundsAssumption DEF Accounted, Row, RowOf
<1>1. ASSUME NEW w \in Workers, Candidate(row)
      PROVE  Accounted(LeasedTo(row, w), f, r)
  BY <1>1 DEF Candidate, LeasedTo
<1>2. row.status = "leased" => Accounted(Completed(row), f, r)
  BY DEF Completed
<1>3. row.status = "leased" => Accounted(Failed(row), f + 1, r)
  <2>1. /\ Failed(row).max = row.max
        /\ Failed(row).attempt = row.attempt
        /\ Failed(row).status = IF row.attempt >= row.max THEN "dead" ELSE "pending"
    BY DEF Failed
  <2> QED
    BY <2>1
<1>4. row.status = "leased" => Accounted(Reclaimed(row), f, r + 1)
  BY DEF Reclaimed
<1>5. row.status = "dead" => Accounted(Requeued(row), 0, 0)
  BY DEF Requeued
<1>6. Accounted(Extended(row), f, r)
  BY DEF Extended
<1>7. /\ Accounted([row EXCEPT !.due = TRUE], f, r)
      /\ Accounted([row EXCEPT !.overdue = TRUE], f, r)
  OBVIOUS
<1> QED
  BY <1>1, <1>2, <1>3, <1>4, <1>5, <1>6, <1>7

\* Every step keeps every account.
LEMMA NextAccountInv == TypeOK /\ AccountInv /\ [Next]_vars => AccountInv'
<1> SUFFICES ASSUME TypeOK, AccountInv, [Next]_vars, NEW t \in TaskId
             PROVE  Accounted(tasks'[t], fails'[t], reclaims'[t])
  BY DEF AccountInv
<1> USE DEF TypeOK, history
<1> DEFINE Goal == Accounted(tasks'[t], fails'[t], reclaims'[t])
<1>a. /\ tasks[t] \in Row
      /\ fails[t] \in Nat
      /\ reclaims[t] \in Nat
      /\ Accounted(tasks[t], fails[t], reclaims[t])
  BY DEF AccountInv
<1>1. ASSUME NEW u \in TaskId, NEW type \in {"workflow", "activity"}, NEW v \in Workflows,
             NEW due \in BOOLEAN, Enqueue(u, type, v, due)
      PROVE  Goal
  <2>1. CASE u = t
    <3>1. fails[t] = 0 /\ reclaims[t] = 0
      BY <1>1, <1>a, <2>1 DEF Enqueue, Accounted
    <3>2. tasks'[t] = NewRow(type, v, 0, MaxAttempts, due)
      BY <1>1, <2>1 DEF Enqueue
    <3>3. fails' = fails /\ reclaims' = reclaims
      BY <1>1 DEF Enqueue
    <3> QED
      BY <3>1, <3>2, <3>3, BoundsAssumption DEF Accounted, NewRow
  <2>2. CASE u # t
    BY <1>1, <1>a, <2>2 DEF Enqueue
  <2> QED
    BY <2>1, <2>2
<1>2. ASSUME NEW u \in TaskId, RequeueDead(u)
      PROVE  Goal
  BY <1>2, <1>a, AccountMoves DEF RequeueDead
<1>3. ASSUME NEW u \in TaskId, BecomeDue(u) \/ LeaseRunsOut(u)
      PROVE  Goal
  <2>1. fails' = fails /\ reclaims' = reclaims
    BY <1>3 DEF BecomeDue, LeaseRunsOut
  <2>2. \/ tasks'[t] = tasks[t]
        \/ tasks'[t] = [tasks[t] EXCEPT !.due = TRUE]
        \/ tasks'[t] = [tasks[t] EXCEPT !.overdue = TRUE]
    BY <1>3 DEF BecomeDue, LeaseRunsOut
  <2> QED
    BY <1>a, <2>1, <2>2, AccountMoves
<1>4. ASSUME NEW u \in TaskId, Reclaim(u)
      PROVE  Goal
  <2>1. CASE u # t
    BY <1>4, <1>a, <2>1 DEF Reclaim
  <2>2. CASE u = t
    <3>1. /\ tasks[t].status = "leased"
          /\ tasks'[t] = Reclaimed(tasks[t])
          /\ fails'[t] = fails[t]
          /\ reclaims'[t] = reclaims[t] + 1
      BY <1>4, <2>2 DEF Reclaim, Expired
    <3> QED
      BY <1>a, <3>1, AccountMoves
  <2> QED
    BY <2>1, <2>2
<1>5. ASSUME NEW u \in TaskId, NEW w \in Workers,
             Dequeue(w, u) \/ DequeueLost(w, u) \/ Heartbeat(w, u)
      PROVE  Goal
  <2>1. fails' = fails /\ reclaims' = reclaims
    BY <1>5 DEF Dequeue, DequeueLost, Heartbeat
  <2>2. CASE u # t
    BY <1>5, <1>a, <2>1, <2>2 DEF Dequeue, DequeueLost, Heartbeat
  <2>3. CASE u = t
    <3>1. \/ Candidate(tasks[t]) /\ tasks'[t] = LeasedTo(tasks[t], w)
          \/ tasks'[t] = Extended(tasks[t])
      BY <1>5, <2>3 DEF Dequeue, DequeueLost, Heartbeat
    <3> QED
      BY <1>a, <2>1, <3>1, AccountMoves
  <2> QED
    BY <2>2, <2>3
<1>6. ASSUME NEW i \in invs, HandlerReturns(i) \/ HandlerThrows(i)
      PROVE  Goal
  BY <1>6, <1>a DEF HandlerReturns, HandlerThrows
<1>7. ASSUME NEW i \in invs, CompleteTask(i) \/ CompleteErrors(i)
      PROVE  Goal
  <2>1. /\ fails' = fails /\ reclaims' = reclaims
        /\ \/ tasks' = tasks
           \/ tasks[i.task].status = "leased" /\ tasks' = [tasks EXCEPT ![i.task] = Completed(@)]
    BY <1>7 DEF CompleteTask, CompleteErrors, OwnedBy
  <2>2. CASE tasks'[t] = tasks[t]
    BY <1>a, <2>1, <2>2
  <2>3. CASE tasks[t].status = "leased" /\ tasks'[t] = Completed(tasks[t])
    <3>1. Accounted(Completed(tasks[t]), fails[t], reclaims[t])
      BY <1>a, <2>3, AccountMoves
    <3> QED
      BY <2>1, <2>3, <3>1
  <2>4. CASE i.task = t
    BY <1>a, <2>1, <2>2, <2>3, <2>4
  <2>5. CASE i.task # t
    BY <1>a, <2>1, <2>2, <2>5
  <2> QED
    BY <2>4, <2>5
<1>8. ASSUME NEW i \in invs, FailTask(i)
      PROVE  Goal
  <2>1. /\ reclaims' = reclaims
        /\ \/ tasks' = tasks /\ fails' = fails
           \/ /\ tasks[i.task].status = "leased"
              /\ tasks' = [tasks EXCEPT ![i.task] = Failed(@)]
              /\ fails' = [fails EXCEPT ![i.task] = @ + 1]
    BY <1>8 DEF FailTask, OwnedBy
  <2>2. CASE tasks'[t] = tasks[t] /\ fails'[t] = fails[t]
    BY <1>a, <2>1, <2>2
  <2>3. CASE /\ tasks[t].status = "leased"
             /\ tasks'[t] = Failed(tasks[t])
             /\ fails'[t] = fails[t] + 1
    <3>1. Accounted(Failed(tasks[t]), fails[t] + 1, reclaims[t])
      BY <1>a, <2>3, AccountMoves
    <3> QED
      BY <2>1, <2>3, <3>1
  <2>4. CASE i.task = t
    BY <1>a, <2>1, <2>2, <2>3, <2>4
  <2>5. CASE i.task # t
    BY <1>a, <2>1, <2>2, <2>5
  <2> QED
    BY <2>4, <2>5
<1>9. ASSUME NEW w \in Workers, Crash(w)
      PROVE  Goal
  BY <1>9, <1>a DEF Crash
<1>10. CASE UNCHANGED vars
  BY <1>10, <1>a DEF vars
<1> QED
  BY <1>1, <1>2, <1>3, <1>4, <1>5, <1>6, <1>7, <1>8, <1>9, <1>10 DEF Next

\* The accounts balance in every reachable state.
LEMMA AccountsKept == Spec => []AccountInv
<1>1. Init => AccountInv
  BY BoundsAssumption DEF Init, AccountInv, Accounted, NewRow
<1> QED
  BY <1>1, NextAccountInv, TypeCorrect, PTL DEF Spec

\* Every attempt of every reachable state is a failure, a reclaim, or under way.
THEOREM AttemptsAreAccounted == Spec => []AttemptAccounting
<1>1. AccountInv => AttemptAccounting
  BY DEF AccountInv, Accounted, AttemptAccounting
<1> QED
  BY <1>1, AccountsKept, PTL

\* Recorded failures stay within max_attempts, and reaching it is death.
THEOREM FailuresAreBudgeted == Spec => []FailureBudget
<1>1. TypeOK /\ AccountInv => FailureBudget
  BY BoundsAssumption DEF AccountInv, Accounted, FailureBudget, TypeOK
<1> QED
  BY <1>1, AccountsKept, TypeCorrect, PTL

-----------------------------------------------------------------------------
(***************************************************************************)
(* Live leases.                                                            *)
(***************************************************************************)

\* A good lease changes hands only through its owner's invocation.
LEMMA LeaseStep ==
  ASSUME TypeOK, [Next]_vars, NEW t \in TaskId,
         tasks[t].status = "leased", ~tasks[t].overdue,
         <<tasks'[t].status, tasks'[t].owner>> # <<"leased", tasks[t].owner>>
  PROVE  \E i \in invs : i.task = t /\ i.worker = tasks[t].owner /\ i.pc # "running"
<1> USE DEF TypeOK
<1> DEFINE Goal == \E i \in invs : i.task = t /\ i.worker = tasks[t].owner /\ i.pc # "running"
<1>a. tasks[t] \in Row
  OBVIOUS
<1>1. ASSUME NEW u \in TaskId,
             \/ \E type \in {"workflow", "activity"}, v \in Workflows, due \in BOOLEAN :
                  Enqueue(u, type, v, due)
             \/ RequeueDead(u)
             \/ Reclaim(u)
             \/ \E w \in Workers : Dequeue(w, u) \/ DequeueLost(w, u)
      PROVE  FALSE
  <2>1. u # t
    BY <1>1 DEF Enqueue, RequeueDead, Reclaim, Expired, Dequeue, DequeueLost, Candidate
  <2>2. tasks'[t] = tasks[t]
    BY <1>1, <2>1 DEF Enqueue, RequeueDead, Reclaim, Dequeue, DequeueLost
  <2> QED
    BY <2>2
<1>2. ASSUME NEW u \in TaskId,
             BecomeDue(u) \/ LeaseRunsOut(u) \/ \E w \in Workers : Heartbeat(w, u)
      PROVE  FALSE
  <2>1. tasks'[t] \in {tasks[t], [tasks[t] EXCEPT !.due = TRUE],
                       [tasks[t] EXCEPT !.overdue = TRUE], Extended(tasks[t])}
    BY <1>2 DEF BecomeDue, LeaseRunsOut, Heartbeat
  <2>2. tasks'[t].status = "leased" /\ tasks'[t].owner = tasks[t].owner
    BY <1>a, <2>1 DEF Extended, Row, RowOf
  <2> QED
    BY <2>2
<1>3. ASSUME NEW i \in invs, CompleteTask(i) \/ CompleteErrors(i) \/ FailTask(i)
      PROVE  Goal
  <2>1. i.pc # "running"
    BY <1>3 DEF CompleteTask, CompleteErrors, FailTask
  <2>2. tasks'[t] # tasks[t]
    OBVIOUS
  <2>3. i.task = t /\ OwnedBy(tasks[t], i.worker)
    BY <1>3, <2>2 DEF CompleteTask, CompleteErrors, FailTask
  <2> QED
    BY <2>1, <2>3 DEF OwnedBy
<1>4. ASSUME \/ UNCHANGED vars
             \/ \E i \in invs : HandlerReturns(i) \/ HandlerThrows(i)
             \/ \E w \in Workers : Crash(w)
      PROVE  FALSE
  BY <1>4 DEF vars, HandlerReturns, HandlerThrows, Crash
<1> QED
  BY <1>1, <1>2, <1>3, <1>4 DEF Next

\* No step takes a task from a worker whose lease is still good.
THEOREM LeasesAreRespected == Spec => LiveLeaseIsRespected
<1>1. TypeOK /\ [Next]_vars =>
        [ \A t \in TaskId :
            /\ tasks[t].status = "leased"
            /\ ~tasks[t].overdue
            /\ <<tasks'[t].status, tasks'[t].owner>> # <<"leased", tasks[t].owner>>
            => \E i \in invs :
                 /\ i.task = t
                 /\ i.worker = tasks[t].owner
                 /\ i.pc # "running" ]_vars
  BY LeaseStep
<1> QED
  BY <1>1, TypeCorrect, PTL DEF Spec, LiveLeaseIsRespected

-----------------------------------------------------------------------------
(***************************************************************************)
(* The queue implements AtLeastOnceQueue.                                  *)
(***************************************************************************)

\* The abstract state of a row.
StateOf(row) == IF Live(row) THEN "open" ELSE row.status

\* complete() is only called for a task whose handler has returned.
HandledInv == \A i \in invs : i.pc = "returned" => handled[i.task]

\* Every step keeps it: handled never goes back.
LEMMA NextHandledInv == TypeOK /\ HandledInv /\ [Next]_vars => HandledInv'
<1> SUFFICES ASSUME TypeOK, HandledInv, [Next]_vars PROVE HandledInv'
  OBVIOUS
<1> USE DEF TypeOK, HandledInv, Invocation, history
<1>1. CASE invs' \subseteq invs /\ UNCHANGED handled
  BY <1>1
<1>2. ASSUME NEW i \in invs, HandlerReturns(i)
      PROVE  HandledInv'
  BY <1>2 DEF HandlerReturns
<1>3. ASSUME NEW i \in invs, HandlerThrows(i) \/ CompleteErrors(i)
      PROVE  HandledInv'
  <2>1. /\ invs' = (invs \ {i}) \cup {[i EXCEPT !.pc = "threw"]}
        /\ handled' = handled
    BY <1>3 DEF HandlerThrows, CompleteErrors
  <2> QED
    BY <2>1
<1>4. ASSUME NEW t \in TaskId, NEW w \in Workers, Dequeue(w, t)
      PROVE  HandledInv'
  BY <1>4 DEF Dequeue
<1> QED
  <2>1. \/ invs' \subseteq invs /\ UNCHANGED handled
        \/ \E i \in invs : HandlerReturns(i) \/ HandlerThrows(i) \/ CompleteErrors(i)
        \/ \E t \in TaskId, w \in Workers : Dequeue(w, t)
    BY DEF Next, vars, Enqueue, BecomeDue, LeaseRunsOut, Reclaim, RequeueDead, DequeueLost,
           Heartbeat, CompleteTask, FailTask, Crash
  <2> QED
    BY <1>1, <1>2, <1>3, <1>4, <2>1

\* The abstract state each statement leaves behind.
LEMMA StateMoves ==
  ASSUME NEW row \in Row
  PROVE  /\ Candidate(row) => \A w \in Workers : StateOf(LeasedTo(row, w)) = StateOf(row)
         /\ StateOf(Extended(row)) = StateOf(row)
         /\ StateOf([row EXCEPT !.due = TRUE]) = StateOf(row)
         /\ StateOf([row EXCEPT !.overdue = TRUE]) = StateOf(row)
         /\ Expired(row) => StateOf(Reclaimed(row)) = StateOf(row)
         /\ row.status = "leased" => /\ StateOf(row) = "open"
                                     /\ StateOf(Completed(row)) = "completed"
                                     /\ StateOf(Failed(row)) \in {"open", "dead"}
         /\ row.status = "dead" => StateOf(row) = "dead" /\ StateOf(Requeued(row)) = "open"
BY DEF StateOf, Live, Row, RowOf, Candidate, LeasedTo, Extended, Expired, Reclaimed, Completed,
       Failed, Requeued

\* Every step of the queue is a step of the abstract one, or a stutter.
LEMMA NextAbstract ==
  TypeOK /\ TokenInv /\ HandledInv /\ [Next]_vars => [Abstract!Next]_(Abstract!vars)
<1> SUFFICES ASSUME TypeOK, TokenInv, HandledInv, [Next]_vars
             PROVE  [Abstract!Next]_(Abstract!vars)
  OBVIOUS
<1> DEFINE state == [t \in TaskId |-> IF Live(tasks[t]) THEN "open" ELSE tasks[t].status]
           state2 == [t \in TaskId |-> IF Live(tasks'[t]) THEN "open" ELSE tasks'[t].status]
           Moves(t, from, to) == /\ state[t] = from
                                 /\ state2 = [state EXCEPT ![t] = to]
                                 /\ handled' = handled
           Stutter == state2 = state /\ handled' = handled
<1>a. state = [t \in TaskId |-> StateOf(tasks[t])] /\ state2 = [t \in TaskId |-> StateOf(tasks'[t])]
  BY DEF StateOf
<1>b. ASSUME NEW t \in TaskId, NEW row, tasks' = [tasks EXCEPT ![t] = row]
      PROVE  state2 = [state EXCEPT ![t] = StateOf(row)]
  BY <1>a, <1>b DEF TypeOK
<1>c. ASSUME NEW t \in TaskId, NEW row, tasks' = [tasks EXCEPT ![t] = row],
             StateOf(row) = StateOf(tasks[t])
      PROVE  state2 = state
  BY <1>a, <1>c DEF TypeOK
<1>d. \A t \in TaskId : tasks[t] \in Row
  BY DEF TypeOK
<1> HIDE DEF state, state2
<1>1. ASSUME NEW t \in TaskId,
             \/ \E type \in {"workflow", "activity"}, wf \in Workflows, due \in BOOLEAN :
                  Enqueue(t, type, wf, due)
      PROVE  Moves(t, "absent", "open")
  <2>1. PICK type \in {"workflow", "activity"}, wf \in Workflows, due \in BOOLEAN :
          Enqueue(t, type, wf, due)
    BY <1>1
  <2>2. /\ StateOf(tasks[t]) = "absent"
        /\ StateOf(NewRow(type, wf, 0, MaxAttempts, due)) = "open"
    BY <2>1 DEF Enqueue, StateOf, Live, NewRow
  <2>3. state[t] = "absent"
    BY <1>a, <2>2
  <2>4. /\ tasks' = [tasks EXCEPT ![t] = NewRow(type, wf, 0, MaxAttempts, due)]
        /\ handled' = handled
    BY <2>1 DEF Enqueue, history
  <2>5. state2 = [state EXCEPT ![t] = "open"]
    BY <1>b, <2>2, <2>4
  <2> QED
    BY <2>3, <2>4, <2>5
<1>2. ASSUME NEW t \in TaskId, BecomeDue(t) \/ LeaseRunsOut(t) \/ Reclaim(t)
      PROVE  Stutter
  <2>1. PICK row : tasks' = [tasks EXCEPT ![t] = row] /\ StateOf(row) = StateOf(tasks[t])
    <3>1. CASE BecomeDue(t)
      BY <1>d, <3>1, StateMoves DEF BecomeDue
    <3>2. CASE LeaseRunsOut(t)
      BY <1>d, <3>2, StateMoves DEF LeaseRunsOut
    <3>3. CASE Reclaim(t)
      BY <1>d, <3>3, StateMoves DEF Reclaim
    <3> QED
      BY <1>2, <3>1, <3>2, <3>3
  <2>2. handled' = handled
    BY <1>2 DEF BecomeDue, LeaseRunsOut, Reclaim, history
  <2> QED
    BY <2>1, <2>2, <1>c
<1>3. ASSUME NEW t \in TaskId, RequeueDead(t)
      PROVE  Moves(t, "dead", "open")
  <2>1. StateOf(tasks[t]) = "dead" /\ StateOf(Requeued(tasks[t])) = "open"
    BY <1>3, <1>d, StateMoves DEF RequeueDead
  <2> QED
    BY <1>3, <2>1, <1>a, <1>b DEF RequeueDead
<1>4. ASSUME NEW t \in TaskId, NEW w \in Workers,
             Dequeue(w, t) \/ DequeueLost(w, t) \/ Heartbeat(w, t)
      PROVE  Stutter
  <2>1. PICK row : tasks' = [tasks EXCEPT ![t] = row] /\ StateOf(row) = StateOf(tasks[t])
    <3>a. /\ Candidate(tasks[t]) => StateOf(LeasedTo(tasks[t], w)) = StateOf(tasks[t])
          /\ StateOf(Extended(tasks[t])) = StateOf(tasks[t])
      <4>1. tasks[t] \in Row
        BY <1>d
      <4> QED
        BY <4>1, StateMoves
    <3>1. CASE Dequeue(w, t) \/ DequeueLost(w, t)
      BY <3>1, <3>a DEF Dequeue, DequeueLost
    <3>2. CASE Heartbeat(w, t)
      BY <3>2, <3>a DEF Heartbeat
    <3> QED
      BY <1>4, <3>1, <3>2
  <2>2. handled' = handled
    BY <1>4 DEF Dequeue, DequeueLost, Heartbeat, history
  <2> QED
    BY <2>1, <2>2, <1>c
<1>5. ASSUME NEW i \in invs, HandlerReturns(i)
      PROVE  Abstract!Handle(i.task)
  <2>1. i.task \in TaskId /\ tasks[i.task].status # "absent"
    BY DEF TypeOK, Invocation, TokenInv, TokensIssued
  <2>2. state[i.task] # "absent"
    BY <2>1, <1>a DEF StateOf
  <2>3. tasks' = tasks /\ handled' = [handled EXCEPT ![i.task] = TRUE]
    BY <1>5 DEF HandlerReturns
  <2> QED
    BY <2>2, <2>3 DEF Abstract!Handle, state
<1>6. ASSUME NEW i \in invs, CompleteTask(i) \/ CompleteErrors(i)
      PROVE  Stutter \/ (handled[i.task] /\ Moves(i.task, "open", "completed"))
  <2>1. i.task \in TaskId /\ handled[i.task]
    BY <1>6 DEF TypeOK, Invocation, HandledInv, CompleteTask, CompleteErrors
  <2>2. handled' = handled
    BY <1>6 DEF CompleteTask, CompleteErrors, history
  <2>3. CASE tasks' = tasks
    BY <2>1, <2>2, <2>3, <1>a
  <2>4. CASE tasks[i.task].status = "leased" /\ tasks' = [tasks EXCEPT ![i.task] = Completed(@)]
    <3>1. StateOf(tasks[i.task]) = "open" /\ StateOf(Completed(tasks[i.task])) = "completed"
      BY <2>1, <2>4, <1>d, StateMoves
    <3> QED
      BY <2>1, <2>2, <2>4, <3>1, <1>a, <1>b
  <2>5. \/ tasks' = tasks
        \/ tasks[i.task].status = "leased" /\ tasks' = [tasks EXCEPT ![i.task] = Completed(@)]
    <3>1. CASE CompleteTask(i)
      BY <3>1, <2>1 DEF CompleteTask, OwnedBy, TypeOK
    <3>2. CASE CompleteErrors(i)
      BY <3>2 DEF CompleteErrors, OwnedBy
    <3> QED
      BY <1>6, <3>1, <3>2
  <2> QED
    BY <2>3, <2>4, <2>5
<1>7. ASSUME NEW i \in invs, FailTask(i)
      PROVE  Stutter \/ Moves(i.task, "open", "dead")
  <2>1. i.task \in TaskId /\ handled' = handled
    BY <1>7 DEF TypeOK, Invocation, FailTask
  <2>2. CASE tasks' = tasks
    BY <2>1, <2>2, <1>a
  <2>3. CASE tasks[i.task].status = "leased" /\ tasks' = [tasks EXCEPT ![i.task] = Failed(@)]
    <3>1. StateOf(tasks[i.task]) = "open" /\ StateOf(Failed(tasks[i.task])) \in {"open", "dead"}
      BY <2>1, <2>3, <1>d, StateMoves
    <3> QED
      BY <2>1, <2>3, <3>1, <1>a, <1>b, <1>c
  <2>4. \/ tasks' = tasks
        \/ tasks[i.task].status = "leased" /\ tasks' = [tasks EXCEPT ![i.task] = Failed(@)]
    BY <1>7, <2>1 DEF FailTask, OwnedBy, TypeOK
  <2> QED
    BY <2>2, <2>3, <2>4
<1>8. ASSUME \/ UNCHANGED vars
             \/ \E i \in invs : HandlerThrows(i)
             \/ \E w \in Workers : Crash(w)
      PROVE  Stutter
  <2>1. tasks' = tasks /\ handled' = handled
    BY <1>8 DEF vars, HandlerThrows, Crash, history
  <2> QED
    BY <2>1, <1>a
<1>e. \A i \in invs : i.task \in TaskId
  BY DEF TypeOK, Invocation
<1>9. \/ Stutter
      \/ \E t \in TaskId : \/ Moves(t, "absent", "open") \/ Moves(t, "dead", "open")
                           \/ handled[t] /\ Moves(t, "open", "completed")
                           \/ Moves(t, "open", "dead")
                           \/ Abstract!Handle(t)
  BY <1>1, <1>2, <1>3, <1>4, <1>5, <1>6, <1>7, <1>8, <1>e DEF Next
<1> QED
  BY <1>9 DEF Abstract!Next, Abstract!vars, Abstract!Move, Abstract!Submit, Abstract!Finish,
              Abstract!GiveUp, Abstract!Reopen, state, state2

\* The queue implements AtLeastOnceQueue: a task is completed only after a handler
\* returned for it, and completed is final.
THEOREM QueueIsAtLeastOnce == Spec => ImplementsAtLeastOnce
<1>1. Init => TokenInv /\ HandledInv
  BY DEF Init, TokenInv, TokensIssued, TokensDistinct, HandledInv
<1>2. Init => Abstract!Init
  BY DEF Init, Abstract!Init, Live, NewRow
<1>3. Spec => [](TokenInv /\ HandledInv)
  BY <1>1, NextTokenInv, NextHandledInv, TypeCorrect, PTL DEF Spec
<1> QED
  BY <1>2, <1>3, NextAbstract, TypeCorrect, PTL DEF Spec, ImplementsAtLeastOnce, Abstract!Spec
=============================================================================
