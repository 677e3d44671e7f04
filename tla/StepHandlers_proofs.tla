------------------------ MODULE StepHandlers_proofs ------------------------
(***************************************************************************)
(* Proofs about StepHandlers for any set of workers, any max_attempts and  *)
(* any bounds on the faults.                                               *)
(***************************************************************************)
EXTENDS StepHandlers, TLAPS

Row == RowOf({Wf})

-----------------------------------------------------------------------------
(***************************************************************************)
(* The inductive invariant.                                                *)
(***************************************************************************)

\* Who records has something to record.
EventChosen == \A i \in invs : i.pc \in {"recording", "fenced"} => i.event # "none"

\* The row lock has one holder.
OneFenced == \A i, j \in invs : i.pc = "fenced" /\ j.pc = "fenced" => i = j

\* What the second look found still holds while the row lock is held.
LookHolds == \A i \in invs : i.pc = "fenced" => (i.write <=> outcomes = <<>>)

\* A handler returns only from an answered step.
ReturnedIsAnswered == \A i \in invs : i.pc = "returned" => outcomes # <<>>

\* The last two are the properties; the others are what makes them inductive.
Answering ==
  /\ EventChosen
  /\ OneFenced
  /\ LookHolds
  /\ ReturnedIsAnswered
  /\ OneOutcome
  /\ CompletedIsAnswered

IInv == TypeOK /\ Answering

-----------------------------------------------------------------------------
(***************************************************************************)
(* Rows and invocations: every statement maps rows to rows, and every      *)
(* record a handler becomes is an invocation.                              *)
(***************************************************************************)

\* The updates of queue.ts and dlq.ts keep the columns in their domains.
LEMMA UpdatedRow ==
  ASSUME NEW row \in Row
  PROVE  /\ \A w \in Workers : LeasedTo([row EXCEPT !.due = TRUE], w) \in Row
         /\ Completed(row) \in Row
         /\ Failed(row) \in Row
         /\ Reclaimed(row) \in Row
         /\ Requeued(row) \in Row
<1> USE DEF Row, RowOf, Status
<1>1. ASSUME NEW w \in Workers
      PROVE  LeasedTo([row EXCEPT !.due = TRUE], w) \in Row
  <2> DEFINE r == [row EXCEPT !.due = TRUE]
  <2>1. r \in Row
    OBVIOUS
  <2>2. r.attempt + 1 \in Nat
    BY <2>1
  <2> HIDE DEF r
  <2>3. LeasedTo(r, w) \in Row
    BY <2>1, <2>2 DEF LeasedTo
  <2> QED
    BY <2>3 DEF r
<1>2. Completed(row) \in Row
  BY DEF Completed
<1>3. Failed(row) \in Row
  <2>1. (row.attempt >= row.max /\ row.due) \in BOOLEAN
    OBVIOUS
  <2>2. QED
    BY <2>1 DEF Failed
<1>4. Reclaimed(row) \in Row
  BY DEF Reclaimed
<1>5. Requeued(row) \in Row
  BY DEF Requeued
<1> QED
  BY <1>1, <1>2, <1>3, <1>4, <1>5

\* A statement that completes nothing leaves no completed row behind; the others do not
\* touch one.
LEMMA NotCompleted ==
  ASSUME NEW row \in Row
  PROVE  /\ \A w : LeasedTo([row EXCEPT !.due = TRUE], w).status = "leased"
         /\ Failed(row).status # "completed"
         /\ Reclaimed(row).status = "pending"
         /\ Requeued(row).status = "pending"
BY DEF Row, RowOf, LeasedTo, Failed, Reclaimed, Requeued

\* An invocation that is about to record, or that has thrown.
LEMMA EndingInvocation ==
  ASSUME NEW i \in Invocation
  PROVE  /\ Thrown(i) \in Invocation
         /\ Thrown(i).pc = "threw"
         /\ \A event \in {"completed", "failed"}, answer \in Nat :
              /\ Recording(i, event, answer) \in Invocation
              /\ Recording(i, event, answer).pc = "recording"
              /\ Recording(i, event, answer).event = event
BY DEF Thrown, Recording, Invocation

\* What a failure makes of an invocation: it throws, or is about to record the failure.
LEMMA FailureInvocation ==
  ASSUME NEW i \in Invocation, NEW retryable \in BOOLEAN
  PROVE  /\ Failure(i, retryable) \in Invocation
         /\ Failure(i, retryable).pc \in {"threw", "recording"}
         /\ Failure(i, retryable).pc = "recording" => Failure(i, retryable).event # "none"
BY DEF Failure, Thrown, Recording, Invocation

\* The same of an error that interrupts it.
LEMMA InterruptedInvocation ==
  ASSUME NEW i \in Invocation
  PROVE  /\ Interrupted(i) \in Invocation
         /\ Interrupted(i).pc \in {"threw", "recording"}
         /\ Interrupted(i).pc = "recording" => Interrupted(i).event # "none"
BY EndingInvocation, FailureInvocation DEF Interrupted

\* Only the one invocation changes.
LEMMA BecomesTyped ==
  ASSUME NEW i, NEW j \in Invocation, invs \in SUBSET Invocation, Becomes(i, j)
  PROVE  invs' \in SUBSET Invocation
BY DEF Becomes

\* The fault counters stay counters.
LEMMA SpendTyped ==
  ASSUME NEW kind \in Faults, spent \in [Faults -> Nat], Spend(kind)
  PROVE  spent' \in [Faults -> Nat]
BY DEF Spend

-----------------------------------------------------------------------------
(***************************************************************************)
(* Type correctness.                                                       *)
(***************************************************************************)

\* The initial state is well typed.
LEMMA InitTypeOK == Init => TypeOK
<1> SUFFICES ASSUME Init PROVE TypeOK
  OBVIOUS
<1>1. PICK type \in {"llm", "tool"} : task = NewRow(type, Wf, 1, MaxAttempts, TRUE)
  BY DEF Init
<1>2. task \in RowOf({Wf})
  BY <1>1, LimitsAssumption DEF NewRow, RowOf, Status, TaskType
<1>3. limits \in [Faults -> Nat] /\ spent \in [Faults -> Nat]
  BY LimitsAssumption DEF Init
<1>4. outcomes \in Seq(Outcome)
  BY DEF Init
<1> QED
  BY <1>2, <1>3, <1>4 DEF Init, TypeOK

\* No step of a handler takes a variable out of its type.
LEMMA HandlerTypeOK ==
  ASSUME TypeOK, EventChosen, NEW i \in invs, HandlerStep(i)
  PROVE  TypeOK'
<1>0. i \in Invocation /\ invs \in SUBSET Invocation
  BY DEF TypeOK
<1>1. CASE ReadHistory(i)
  <2>1. [i EXCEPT !.pc = IF outcomes = <<>> THEN "ready" ELSE "returned"] \in Invocation
    BY <1>0 DEF Invocation
  <2> QED
    BY <1>0, <1>1, <2>1, BecomesTyped DEF ReadHistory, TypeOK
<1>2. CASE Refuse(i)
  BY <1>0, <1>2, EndingInvocation, BecomesTyped DEF Refuse, TypeOK
<1>3. CASE CallProvider(i)
  <2>0. calls' \in Nat
    BY <1>3 DEF CallProvider, TypeOK
  <2>1. [i EXCEPT !.pc = "calling", !.answer = calls'] \in Invocation
    BY <1>0, <2>0 DEF Invocation
  <2> QED
    BY <1>0, <1>3, <2>0, <2>1, BecomesTyped DEF CallProvider, TypeOK
<1>4. CASE BeginTool(i)
  <2>1. [i EXCEPT !.pc = "claiming"] \in Invocation
    BY <1>0 DEF Invocation
  <2> QED
    BY <1>0, <1>4, <2>1, EndingInvocation, BecomesTyped DEF BeginTool, TypeOK
<1>5. CASE Claim(i)
  <2>1. CASE ledger = 0
    <3>0. calls' \in Nat
      BY <1>5, <2>1 DEF Claim, TypeOK
    <3>1. [i EXCEPT !.pc = "executing", !.claimed = TRUE, !.answer = calls'] \in Invocation
      BY <1>0, <3>0 DEF Invocation
    <3> QED
      BY <1>0, <1>5, <2>1, <3>0, <3>1, BecomesTyped DEF Claim, TypeOK
  <2>2. CASE ledger # 0
    BY <1>0, <1>5, <2>2, EndingInvocation, BecomesTyped DEF Claim, TypeOK
  <2> QED
    BY <2>1, <2>2
<1>6. CASE Succeeds(i)
  <2>1. i.answer \in Nat
    BY <1>0 DEF Invocation
  <2> QED
    BY <1>0, <1>6, <2>1, EndingInvocation, BecomesTyped DEF Succeeds, TypeOK
<1>7. ASSUME NEW retryable \in BOOLEAN, Fails(i, retryable)
      PROVE  TypeOK'
  BY <1>0, <1>7, FailureInvocation, BecomesTyped DEF Fails, TypeOK
<1>8. CASE Fence(i)
  <2>1. (outcomes = <<>>) \in BOOLEAN
    OBVIOUS
  <2>2. [i EXCEPT !.pc = "fenced", !.write = (outcomes = <<>>)] \in Invocation
    BY <1>0, <2>1 DEF Invocation
  <2> QED
    BY <1>0, <1>8, <2>2, EndingInvocation, BecomesTyped DEF Fence, TypeOK
<1>9. CASE Commit(i)
  <2>1. outcomes' \in Seq(Outcome)
    <3>1. i.pc = "fenced" /\ i.event \in {"completed", "failed"} /\ i.answer \in Nat
      BY <1>0, <1>9 DEF Commit, EventChosen, Invocation
    <3>2. [type |-> i.event, answer |-> i.answer] \in Outcome
      BY <3>1 DEF Outcome
    <3> QED
      BY <1>9, <3>2 DEF Commit, TypeOK
  <2>2. ledger' \in Nat /\ effects' \in Nat
    BY <1>0, <1>9 DEF Commit, TypeOK, Invocation
  <2>3. invs' \in SUBSET Invocation
    <3>1. [i EXCEPT !.pc = IF i.rethrow THEN "threw" ELSE "returned", !.claimed = FALSE]
            \in Invocation
      BY <1>0 DEF Invocation
    <3> QED
      BY <1>0, <1>9, <3>1, InterruptedInvocation, BecomesTyped DEF Commit
  <2>4. spent' \in [Faults -> Nat]
    BY <1>9, SpendTyped DEF Commit, TypeOK, Faults
  <2> QED
    BY <1>9, <2>1, <2>2, <2>3, <2>4 DEF Commit, TypeOK
<1> QED
  BY <1>1, <1>2, <1>3, <1>4, <1>5, <1>6, <1>7, <1>8, <1>9 DEF HandlerStep

\* Nor does any other action.
LEMMA NextTypeOK == TypeOK /\ EventChosen /\ [Next]_vars => TypeOK'
<1> SUFFICES ASSUME TypeOK, EventChosen, [Next]_vars PROVE TypeOK'
  OBVIOUS
<1>0. /\ task \in Row
      /\ \A i \in invs : i \in Invocation
  BY DEF TypeOK, Row
<1>1. ASSUME NEW w \in Workers, Dequeue(w)
      PROVE  TypeOK'
  <2>1. task' \in Row
    BY <1>0, <1>1, UpdatedRow DEF Dequeue
  <2>2. task'.attempt \in Nat /\ spent.requeues \in Nat
    BY <2>1 DEF Row, RowOf, TypeOK, Faults
  <2>3. invs' \in SUBSET Invocation
    <3> DEFINE j == [worker |-> w, attempt |-> task'.attempt, life |-> spent.requeues,
                     pc |-> "start", event |-> "none", answer |-> 0,
                     claimed |-> FALSE, write |-> FALSE, rethrow |-> FALSE]
    <3>1. j \in Invocation
      BY <2>2 DEF Invocation
    <3>2. invs' = invs \cup {j}
      BY <1>1 DEF Dequeue
    <3> QED
      BY <3>1, <3>2 DEF TypeOK
  <2> QED
    BY <1>1, <2>1, <2>3 DEF Dequeue, TypeOK, Row
<1>2. ASSUME NEW w \in Workers, Crash(w)
      PROVE  TypeOK'
  BY <1>2, SpendTyped DEF Crash, TypeOK, Faults
<1>3. CASE Reclaim
  BY <1>0, <1>3, UpdatedRow, SpendTyped DEF Reclaim, TypeOK, Row, Faults
<1>4. CASE RequeueDead
  BY <1>0, <1>4, UpdatedRow, SpendTyped DEF RequeueDead, TypeOK, Row, Faults
<1>5. ASSUME NEW i \in invs, QueryErrors(i)
      PROVE  TypeOK'
  BY <1>0, <1>5, InterruptedInvocation, SpendTyped, BecomesTyped
     DEF QueryErrors, TypeOK, Faults
<1>6. ASSUME NEW i \in invs, CompleteTask(i)
      PROVE  TypeOK'
  BY <1>0, <1>6, UpdatedRow DEF CompleteTask, TypeOK, Row
<1>7. ASSUME NEW i \in invs, CompleteErrors(i)
      PROVE  TypeOK'
  <2>1. task' \in Row
    BY <1>0, <1>7, UpdatedRow DEF CompleteErrors
  <2>2. [i EXCEPT !.pc = "threw"] \in Invocation
    BY <1>0 DEF Invocation
  <2> QED
    BY <1>7, <2>1, <2>2, SpendTyped, BecomesTyped DEF CompleteErrors, TypeOK, Row, Faults
<1>8. ASSUME NEW i \in invs, FailTask(i)
      PROVE  TypeOK'
  BY <1>0, <1>8, UpdatedRow DEF FailTask, TypeOK, Row
<1>9. CASE UNCHANGED vars
  BY <1>9 DEF vars, TypeOK
<1> QED
  BY <1>1, <1>2, <1>3, <1>4, <1>5, <1>6, <1>7, <1>8, <1>9, HandlerTypeOK DEF Next

-----------------------------------------------------------------------------
(***************************************************************************)
(* Safety.                                                                 *)
(***************************************************************************)

\* A step is quiet when it records nothing, completes the row of an answered step at
\* most, and makes no invocation hold the row lock or return.  It keeps the invariant,
\* whatever else it does.
LEMMA QuietStep ==
  ASSUME Answering,
         \A k \in invs' :
           \/ k \in invs
           \/ /\ k.pc \notin {"fenced", "returned"}
              /\ k.pc = "recording" => k.event # "none",
         outcomes' = outcomes,
         task'.status = "completed" => outcomes # <<>>
  PROVE  Answering'
<1> USE DEF Answering
<1>1. EventChosen'
  BY DEF EventChosen
<1>2. OneFenced'
  BY DEF OneFenced
<1>3. LookHolds'
  BY DEF LookHolds
<1>4. ReturnedIsAnswered'
  BY DEF ReturnedIsAnswered
<1>5. OneOutcome' /\ CompletedIsAnswered'
  BY DEF OneOutcome, CompletedIsAnswered
<1> QED
  BY <1>1, <1>2, <1>3, <1>4, <1>5

\* Nothing is recorded at first.
LEMMA InitAnswering == Init => Answering
BY DEF Init, NewRow, Answering, EventChosen, OneFenced, LookHolds, ReturnedIsAnswered,
       OneOutcome, CompletedIsAnswered

\* The fence lets in an invocation only while no other is in, and its look is fresh.
LEMMA FenceAnswering ==
  ASSUME TypeOK, Answering, NEW i \in invs, Fence(i)
  PROVE  Answering'
<1>0. i \in Invocation
  BY DEF TypeOK
<1>1. CASE FenceAccepts(task, i.worker, i.attempt)
  <2> DEFINE j == [i EXCEPT !.pc = "fenced", !.write = (outcomes = <<>>)]
  <2>1. /\ j.pc = "fenced" /\ j.event = i.event
        /\ j.write <=> outcomes = <<>>
    BY <1>0 DEF Invocation
  <2>2. /\ invs' = (invs \ {i}) \cup {j}
        /\ outcomes' = outcomes /\ task' = task
        /\ i.pc = "recording"
        /\ \A k \in invs : k.pc # "fenced"
    BY <1>1 DEF Fence, Becomes, Locked
  <2> HIDE DEF j
  <2>3. EventChosen' /\ OneFenced' /\ LookHolds' /\ ReturnedIsAnswered'
    BY <2>1, <2>2
       DEF Answering, EventChosen, OneFenced, LookHolds, ReturnedIsAnswered
  <2> QED
    BY <2>2, <2>3 DEF Answering, OneOutcome, CompletedIsAnswered
<1>2. CASE ~FenceAccepts(task, i.worker, i.attempt)
  BY <1>0, <1>2, EndingInvocation, QuietStep
     DEF Fence, Becomes, Answering, CompletedIsAnswered
<1> QED
  BY <1>1, <1>2

\* The one invocation that holds the row lock appends only to an empty history.
LEMMA CommitAnswering ==
  ASSUME TypeOK, Answering, NEW i \in invs, Commit(i)
  PROVE  Answering'
<1>0. /\ i \in Invocation /\ i.pc = "fenced"
      /\ outcomes \in Seq(Outcome)
  BY DEF TypeOK, Commit
<1>1. outcomes' # <<>> /\ Len(outcomes') <= 1
  <2>1. CASE i.write
    <3>1. outcomes = <<>>
      BY <1>0, <2>1 DEF Answering, LookHolds
    <3>2. outcomes' = Append(outcomes, [type |-> i.event, answer |-> i.answer])
      BY <2>1 DEF Commit
    <3> QED
      BY <3>1, <3>2
  <2>2. CASE ~i.write
    BY <1>0, <2>2 DEF Commit, Answering, LookHolds, OneOutcome
  <2> QED
    BY <2>1, <2>2
<1>2. \A k \in invs' :
        \/ k \in invs /\ k # i
        \/ /\ k.pc # "fenced"
           /\ k.pc = "recording" => k.event # "none"
  <2>1. CASE Becomes(i, Interrupted(i))
    BY <1>0, <2>1, InterruptedInvocation DEF Becomes
  <2>2. CASE Becomes(i, [i EXCEPT !.pc = IF i.rethrow THEN "threw" ELSE "returned",
                                  !.claimed = FALSE])
    BY <1>0, <2>2 DEF Becomes, Invocation
  <2> QED
    BY <2>1, <2>2 DEF Commit
<1>3. EventChosen'
  BY <1>2 DEF Answering, EventChosen
<1>4. OneFenced' /\ LookHolds'
  BY <1>0, <1>2 DEF Answering, OneFenced, LookHolds
<1>5. ReturnedIsAnswered' /\ OneOutcome' /\ CompletedIsAnswered'
  BY <1>1 DEF ReturnedIsAnswered, OneOutcome, CompletedIsAnswered
<1> QED
  BY <1>3, <1>4, <1>5 DEF Answering

\* Every other step of a handler is quiet, but for one that finds the step answered.
LEMMA HandlerAnswering ==
  ASSUME TypeOK, Answering, NEW i \in invs, HandlerStep(i)
  PROVE  Answering'
<1>0. /\ i \in Invocation
      /\ task.status = "completed" => outcomes # <<>>
  BY DEF TypeOK, Answering, CompletedIsAnswered
<1>1. CASE ReadHistory(i)
  <2>1. CASE outcomes = <<>>
    <3>1. [i EXCEPT !.pc = "ready"].pc = "ready"
      BY <1>0 DEF Invocation
    <3> QED
      BY <1>0, <1>1, <2>1, <3>1, QuietStep DEF ReadHistory, Becomes
  <2>2. CASE outcomes # <<>>
    <3>1. [i EXCEPT !.pc = "returned"].pc = "returned"
      BY <1>0 DEF Invocation
    <3>2. /\ \A k \in invs' : k \in invs \/ k.pc = "returned"
          /\ outcomes' = outcomes
      BY <1>1, <2>2, <3>1 DEF ReadHistory, Becomes
    <3>3. EventChosen' /\ OneFenced' /\ LookHolds'
      BY <3>2 DEF Answering, EventChosen, OneFenced, LookHolds
    <3>4. ReturnedIsAnswered' /\ OneOutcome' /\ CompletedIsAnswered'
      BY <2>2, <3>2 DEF Answering, ReturnedIsAnswered, OneOutcome, CompletedIsAnswered
    <3> QED
      BY <3>3, <3>4 DEF Answering
  <2> QED
    BY <2>1, <2>2
<1>2. CASE Refuse(i)
  BY <1>0, <1>2, EndingInvocation, QuietStep DEF Refuse, Becomes
<1>3. CASE CallProvider(i)
  <2>1. [i EXCEPT !.pc = "calling", !.answer = calls'].pc = "calling"
    BY <1>0 DEF Invocation
  <2> QED
    BY <1>0, <1>3, <2>1, QuietStep DEF CallProvider, Becomes
<1>4. CASE BeginTool(i)
  <2>1. [i EXCEPT !.pc = "claiming"].pc = "claiming"
    BY <1>0 DEF Invocation
  <2> QED
    BY <1>0, <1>4, <2>1, EndingInvocation, QuietStep DEF BeginTool, Becomes
<1>5. CASE Claim(i)
  <2>1. [i EXCEPT !.pc = "executing", !.claimed = TRUE, !.answer = calls'].pc = "executing"
    BY <1>0 DEF Invocation
  <2>2. /\ Recording(i, "completed", ledger).pc = "recording"
        /\ Recording(i, "completed", ledger).event # "none"
    BY <1>0, EndingInvocation DEF TypeOK
  <2>3. \A k \in invs' :
          \/ k \in invs
          \/ k.pc = "executing"
          \/ k.pc = "recording" /\ k.event # "none"
    BY <1>5, <2>1, <2>2 DEF Claim, Becomes
  <2> QED
    BY <1>0, <1>5, <2>3, QuietStep DEF Claim
<1>6. CASE Succeeds(i)
  <2>1. i.answer \in Nat
    BY <1>0 DEF Invocation
  <2> QED
    BY <1>0, <1>6, <2>1, EndingInvocation, QuietStep DEF Succeeds, Becomes
<1>7. ASSUME NEW retryable \in BOOLEAN, Fails(i, retryable)
      PROVE  Answering'
  BY <1>0, <1>7, FailureInvocation, QuietStep DEF Fails, Becomes
<1>8. CASE Fence(i)
  BY <1>8, FenceAnswering
<1>9. CASE Commit(i)
  BY <1>9, CommitAnswering
<1> QED
  BY <1>1, <1>2, <1>3, <1>4, <1>5, <1>6, <1>7, <1>8, <1>9 DEF HandlerStep

\* The queue's steps are quiet: a row is completed only by an invocation that returned.
LEMMA NextAnswering == TypeOK /\ Answering /\ [Next]_vars => Answering'
<1> SUFFICES ASSUME TypeOK, Answering, [Next]_vars PROVE Answering'
  OBVIOUS
<1>0. /\ task \in Row
      /\ \A i \in invs : i \in Invocation
      /\ \A i \in invs : i.pc = "returned" => outcomes # <<>>
      /\ task.status = "completed" => outcomes # <<>>
  BY DEF TypeOK, Row, Answering, CompletedIsAnswered, ReturnedIsAnswered
<1>1. ASSUME NEW w \in Workers, Dequeue(w)
      PROVE  Answering'
  BY <1>0, <1>1, NotCompleted, QuietStep DEF Dequeue
<1>2. ASSUME NEW w \in Workers, Crash(w)
      PROVE  Answering'
  BY <1>0, <1>2, QuietStep DEF Crash
<1>3. CASE Reclaim
  BY <1>0, <1>3, NotCompleted, QuietStep DEF Reclaim
<1>4. CASE RequeueDead
  BY <1>0, <1>4, NotCompleted, QuietStep DEF RequeueDead
<1>5. ASSUME NEW i \in invs, QueryErrors(i)
      PROVE  Answering'
  BY <1>0, <1>5, InterruptedInvocation, QuietStep DEF QueryErrors, Becomes
<1>6. ASSUME NEW i \in invs, CompleteTask(i)
      PROVE  Answering'
  BY <1>0, <1>6, QuietStep DEF CompleteTask
<1>7. ASSUME NEW i \in invs, CompleteErrors(i)
      PROVE  Answering'
  <2>1. [i EXCEPT !.pc = "threw"].pc = "threw"
    BY <1>0 DEF Invocation
  <2> QED
    BY <1>0, <1>7, <2>1, QuietStep DEF CompleteErrors, Becomes
<1>8. ASSUME NEW i \in invs, FailTask(i)
      PROVE  Answering'
  BY <1>0, <1>8, NotCompleted, QuietStep DEF FailTask
<1>9. CASE UNCHANGED vars
  BY <1>0, <1>9, QuietStep DEF vars
<1> QED
  BY <1>1, <1>2, <1>3, <1>4, <1>5, <1>6, <1>7, <1>8, <1>9, HandlerAnswering DEF Next

\* The invariant is inductive.
THEOREM Inductive == Spec => []IInv
<1>1. Init => IInv
  BY InitTypeOK, InitAnswering DEF IInv
<1>2. IInv /\ [Next]_vars => IInv'
  BY NextTypeOK, NextAnswering DEF IInv, Answering
<1> QED
  BY <1>1, <1>2, PTL DEF Spec

\* Every reachable state is well typed.
THEOREM TypeCorrect == Spec => []TypeOK
<1>1. IInv => TypeOK
  BY DEF IInv
<1> QED
  BY <1>1, Inductive, PTL

\* A step never gets a second outcome, however many invocations of its handler overlap.
THEOREM AnsweredOnce == Spec => []OneOutcome
<1>1. IInv => OneOutcome
  BY DEF IInv, Answering
<1> QED
  BY <1>1, Inductive, PTL

\* A completed row always leaves the workflow an outcome to go on with.
THEOREM NeverCompletedUnanswered == Spec => []CompletedIsAnswered
<1>1. IInv => CompletedIsAnswered
  BY DEF IInv, Answering
<1> QED
  BY <1>1, Inductive, PTL

-----------------------------------------------------------------------------
(***************************************************************************)
(* The tool's effect and its ledger.                                       *)
(***************************************************************************)

\* What the ledger, the row and the history say of an invocation: a claim is made before
\* there is a ledger entry, and a reused result is that entry; the row is leased to whoever
\* passed the fence; and in the first life nobody who set out before the step was answered
\* has a token that the fence still accepts.
Sound(k) ==
  /\ k.claimed =>
       /\ task.type = "tool" /\ ledger = 0 /\ k.answer > 0
       /\ k.pc = "executing" \/ (k.pc \in {"recording", "fenced"} /\ k.event = "completed")
  /\ k.pc = "executing" => k.claimed
  /\ k.pc = "calling" => task.type = "llm"
  /\ k.pc = "claiming" => task.type = "tool"
  /\ task.type = "tool" /\ k.pc \in {"recording", "fenced"} /\ k.event = "completed"
     /\ ~k.claimed => ledger # 0 /\ k.answer = ledger
  /\ k.pc = "fenced" => FenceAccepts(task, k.worker, k.attempt)
  /\ spent.requeues = 0 => k.attempt <= task.attempt
  /\ spent.requeues = 0 /\ outcomes # <<>> /\ (k.claimed \/ k.pc \in {"ready", "claiming"}) =>
       k.attempt < task.attempt

\* Claims exclude each other, and so do the tokens of a life.
Apart ==
  \A k, j \in invs :
    (k.claimed /\ j.claimed) \/ (spent.requeues = 0 /\ k.attempt = j.attempt) => k = j

Accounted ==
  /\ \A k \in invs : Sound(k)
  /\ Apart
  /\ effects = IF ledger = 0 THEN 0 ELSE 1
  /\ EffectIsReported

\* It has neither a claim nor a result to record.
Idle(k) ==
  /\ ~k.claimed
  /\ \/ k.pc \in {"start", "threw", "returned"}
     \/ k.pc = "recording" /\ k.event # "completed"

LEMMA IdleIsSound ==
  ASSUME NEW k, Idle(k), spent.requeues = 0 => k.attempt <= task.attempt
  PROVE  Sound(k)
BY DEF Idle, Sound

\* A failure leaves no claim behind.
LEMMA FailureIsIdle ==
  ASSUME NEW i \in Invocation
  PROVE  /\ Idle(Thrown(i)) /\ Thrown(i).attempt = i.attempt
         /\ \A retryable \in BOOLEAN :
              Idle(Failure(i, retryable)) /\ Failure(i, retryable).attempt = i.attempt
         /\ Idle(Interrupted(i)) /\ Interrupted(i).attempt = i.attempt
<1>1. Idle(Thrown(i)) /\ Thrown(i).attempt = i.attempt
  BY DEF Thrown, Idle, Invocation
<1>2. ASSUME NEW retryable \in BOOLEAN
      PROVE  Idle(Failure(i, retryable)) /\ Failure(i, retryable).attempt = i.attempt
  <2> DEFINE j == [Recording(i, "failed", 0) EXCEPT !.claimed = FALSE, !.rethrow = retryable]
  <2>1. Idle(j) /\ j.attempt = i.attempt
    BY DEF Recording, Idle, Invocation
  <2> HIDE DEF j
  <2>2. Failure(i, retryable) \in {Thrown(i), j}
    BY DEF Failure, j
  <2> QED
    BY <1>1, <2>1, <2>2
<1>3. Interrupted(i) \in {Failure(i, FALSE), Thrown(i)}
  BY DEF Interrupted
<1> QED
  BY <1>1, <1>2, <1>3

\* The statements on the row leave its type alone, and dequeue and requeue apart its attempt.
LEMMA RowKeeps ==
  ASSUME NEW row \in Row
  PROVE  /\ \A r \in {Completed(row), Failed(row), Reclaimed(row)} :
              r.type = row.type /\ r.attempt = row.attempt
         /\ Requeued(row).type = row.type
         /\ \A w : LET r == LeasedTo([row EXCEPT !.due = TRUE], w)
                  IN  r.type = row.type /\ r.attempt = row.attempt + 1
BY DEF Row, RowOf, Completed, Failed, Reclaimed, Requeued, LeasedTo

\* An invocation goes on, and nothing else happens.
LEMMA GoesOn ==
  ASSUME Accounted, NEW i \in invs, NEW j, Becomes(i, j),
         UNCHANGED <<task, outcomes, ledger, effects>>, spent'.requeues = spent.requeues,
         j.attempt = i.attempt, Sound(j),
         j.claimed => i.claimed \/ \A k \in invs : ~k.claimed
  PROVE  Accounted'
<1>1. \A k \in invs' : k = j \/ (k \in invs /\ k # i)
  BY DEF Becomes
<1>2. \A k \in invs' : Sound(k)'
  <2>1. ASSUME NEW k, Sound(k)
        PROVE  Sound(k)'
    BY <2>1 DEF Sound
  <2> QED
    BY <1>1, <2>1 DEF Accounted
<1>3. Apart'
  BY <1>1 DEF Accounted, Apart
<1> QED
  BY <1>2, <1>3 DEF Accounted, EffectIsReported

\* The queue does something to the row, unless it is locked, and the handler may be done.
LEMMA RowMoves ==
  ASSUME Accounted, ~Locked \/ task' = task,
         task'.type = task.type, task'.attempt = task.attempt,
         UNCHANGED <<outcomes, ledger, effects>>, spent'.requeues = spent.requeues,
         \/ invs' \subseteq invs
         \/ \E i \in invs : \E j : Becomes(i, j) /\ Idle(j) /\ j.attempt = i.attempt
  PROVE  Accounted'
<1>1. ASSUME NEW k \in invs
      PROVE  Sound(k)'
  <2>1. Sound(k)
    BY DEF Accounted
  <2>2. k.pc = "fenced" => task' = task
    BY DEF Locked
  <2> QED
    BY <2>1, <2>2 DEF Sound, FenceAccepts, OwnedBy
<1>2. CASE invs' \subseteq invs
  <2>1. Apart'
    BY <1>2 DEF Accounted, Apart
  <2> QED
    BY <1>1, <1>2, <2>1 DEF Accounted, EffectIsReported
<1>3. ASSUME NEW i \in invs, NEW j, Becomes(i, j), Idle(j), j.attempt = i.attempt
      PROVE  Accounted'
  <2>1. \A k \in invs' : k = j \/ (k \in invs /\ k # i)
    BY <1>3 DEF Becomes
  <2>2. Sound(j)'
    BY <1>3 DEF Accounted, Sound, Idle
  <2>3. Apart'
    BY <1>3, <2>1 DEF Accounted, Apart, Idle
  <2> QED
    BY <1>1, <2>1, <2>2, <2>3 DEF Accounted, EffectIsReported
<1> QED
  BY <1>2, <1>3

\* With the outcome, whoever did not set out after it is too late for the fence.
LEMMA CommitAccounted ==
  ASSUME TypeOK, Answering, Accounted, NEW i \in invs, Commit(i)
  PROVE  Accounted'
<1>0. /\ i \in Invocation /\ i.pc = "fenced"
      /\ outcomes \in Seq(Outcome)
      /\ task.attempt \in Nat /\ \A k \in invs : k.attempt \in Nat
      /\ ledger \in Nat /\ spent.requeues \in Nat
      /\ Sound(i) /\ task.attempt = i.attempt
      /\ i.write <=> outcomes = <<>>
  BY DEF TypeOK, Commit, RowOf, Invocation, Faults, Accounted, Sound, FenceAccepts,
         Answering, LookHolds
<1>1. /\ task' = task /\ spent'.requeues = spent.requeues
      /\ ledger' = IF i.claimed THEN i.answer ELSE ledger
      /\ effects' = IF i.claimed THEN effects + 1 ELSE effects
  BY DEF Commit, Spend, TypeOK, Faults
<1>2. PICK j : Becomes(i, j) /\ Idle(j) /\ j.attempt = i.attempt
  <2>1. CASE Becomes(i, Interrupted(i))
    BY <1>0, <2>1, FailureIsIdle
  <2>2. CASE Becomes(i, [i EXCEPT !.pc = IF i.rethrow THEN "threw" ELSE "returned",
                                  !.claimed = FALSE])
    <3> DEFINE j == [i EXCEPT !.pc = IF i.rethrow THEN "threw" ELSE "returned",
                              !.claimed = FALSE]
    <3>1. Idle(j) /\ j.attempt = i.attempt
      BY <1>0 DEF Idle, Invocation
    <3> QED
      BY <2>2, <3>1
  <2> QED
    BY <2>1, <2>2 DEF Commit
<1>3. \A k \in invs' : k = j \/ (k \in invs /\ k # i)
  BY <1>2 DEF Becomes
<1>4. ASSUME NEW k \in invs, k # i
      PROVE  Sound(k)'
  <2>1. Sound(k) /\ (k.claimed => ~i.claimed)
    BY <1>4 DEF Accounted, Apart
  <2>2. i.claimed => ledger = 0
    BY <1>0 DEF Sound
  <2>3. spent.requeues = 0 => k.attempt < task.attempt
    BY <1>0, <1>4 DEF Accounted, Apart, Sound
  <2>4. (k.claimed => ledger' = ledger) /\ (ledger # 0 => ledger' = ledger)
    BY <1>1, <2>1, <2>2
  <2> QED
    BY <1>1, <2>1, <2>3, <2>4 DEF Sound, FenceAccepts, OwnedBy
<1>5. Sound(j)'
  BY <1>0, <1>1, <1>2 DEF Sound, Idle
<1>6. Apart'
  BY <1>1, <1>2, <1>3 DEF Accounted, Apart, Idle
<1>7. effects' = (IF ledger' = 0 THEN 0 ELSE 1) /\ EffectIsReported'
  <2> DEFINE e == [type |-> i.event, answer |-> i.answer]
  <2>1. effects = (IF ledger = 0 THEN 0 ELSE 1) /\ EffectIsReported
    BY DEF Accounted
  <2>2. outcomes' # <<>> /\ (outcomes # <<>> => outcomes' = outcomes)
    BY <1>0 DEF Commit
  <2>3. outcomes = <<>> => \A n \in DOMAIN outcomes' : outcomes'[n] = e
    BY <1>0 DEF Commit
  <2>4. CASE i.claimed
    <3>1. /\ ledger = 0 /\ effects = 0 /\ i.answer # 0 /\ i.event = "completed"
          /\ spent.requeues = 0 => outcomes = <<>>
      BY <1>0, <2>1, <2>4 DEF Sound, Invocation
    <3>2. ledger' = i.answer /\ effects' = 1
      BY <1>1, <2>4, <3>1
    <3>3. CASE outcomes = <<>>
      BY <1>1, <2>2, <2>3, <3>1, <3>2, <3>3 DEF EffectIsReported
    <3>4. CASE outcomes # <<>>
      BY <1>0, <1>1, <2>1, <2>2, <3>1, <3>2, <3>4 DEF EffectIsReported
    <3> QED
      BY <3>1, <3>2, <3>3, <3>4
  <2>5. CASE ~i.claimed
    <3>1. CASE outcomes = <<>>
      <4>1. effects' = 0 /\ ledger = 0 /\ ledger' = 0
        BY <1>1, <2>1, <2>5, <3>1 DEF EffectIsReported
      <4>2. task.type = "tool" => i.event # "completed"
        BY <1>0, <2>5, <4>1 DEF Sound
      <4> QED
        BY <1>1, <2>2, <2>3, <3>1, <4>1, <4>2 DEF EffectIsReported
    <3>2. CASE outcomes # <<>>
      BY <1>1, <2>1, <2>2, <2>5, <3>2 DEF EffectIsReported
    <3> QED
      BY <3>1, <3>2
  <2> QED
    BY <2>4, <2>5
<1> QED
  BY <1>3, <1>4, <1>5, <1>6, <1>7 DEF Accounted

\* The other steps of a handler.
LEMMA HandlerAccounted ==
  ASSUME TypeOK, Answering, Accounted, NEW i \in invs, HandlerStep(i)
  PROVE  Accounted'
<1>0. /\ i \in Invocation /\ Sound(i) /\ ledger \in Nat /\ calls \in Nat
      /\ spent.requeues = 0 => i.attempt <= task.attempt
  BY DEF TypeOK, Accounted, Sound
<1>1. CASE ReadHistory(i)
  <2> DEFINE j == [i EXCEPT !.pc = IF outcomes = <<>> THEN "ready" ELSE "returned"]
  <2>1. /\ j.pc = (IF outcomes = <<>> THEN "ready" ELSE "returned")
        /\ j.attempt = i.attempt /\ j.claimed = i.claimed
    BY <1>0 DEF Invocation
  <2> HIDE DEF j
  <2>2. Becomes(i, j) /\ i.pc = "start"
    BY <1>1 DEF ReadHistory, j
  <2>3. Sound(j)
    BY <1>0, <2>1, <2>2 DEF Sound
  <2> QED
    BY <1>1, <2>1, <2>2, <2>3, GoesOn DEF ReadHistory
<1>2. CASE Refuse(i)
  <2> DEFINE j == Recording(i, "failed", 0)
  <2>1. j.pc = "recording" /\ j.event = "failed" /\ j.attempt = i.attempt /\ j.claimed = i.claimed
    BY <1>0 DEF Recording, Invocation
  <2> HIDE DEF j
  <2>2. Becomes(i, j) /\ i.pc = "ready"
    BY <1>2 DEF Refuse, j
  <2>3. Sound(j)
    BY <1>0, <2>1, <2>2 DEF Sound
  <2> QED
    BY <1>2, <2>1, <2>2, <2>3, GoesOn DEF Refuse
<1>3. CASE CallProvider(i)
  <2> DEFINE j == [i EXCEPT !.pc = "calling", !.answer = calls']
  <2>1. j.pc = "calling" /\ j.attempt = i.attempt /\ j.claimed = i.claimed
    BY <1>0 DEF Invocation
  <2> HIDE DEF j
  <2>2. Becomes(i, j) /\ i.pc = "ready" /\ task.type = "llm"
    BY <1>3 DEF CallProvider, j
  <2>3. Sound(j)
    BY <1>0, <2>1, <2>2 DEF Sound
  <2> QED
    BY <1>3, <2>1, <2>2, <2>3, GoesOn DEF CallProvider
<1>4. CASE BeginTool(i)
  <2> DEFINE j == [i EXCEPT !.pc = "claiming"]
  <2>1. j.pc = "claiming" /\ j.attempt = i.attempt /\ j.claimed = i.claimed
    BY <1>0 DEF Invocation
  <2>2. Idle(Thrown(i)) /\ Thrown(i).attempt = i.attempt /\ Sound(Thrown(i))
    BY <1>0, FailureIsIdle, IdleIsSound
  <2> HIDE DEF j
  <2>3. (Becomes(i, j) \/ Becomes(i, Thrown(i))) /\ i.pc = "ready" /\ task.type = "tool"
    BY <1>4 DEF BeginTool, j
  <2>4. Sound(j)
    BY <1>0, <2>1, <2>3 DEF Sound
  <2> QED
    BY <1>4, <2>1, <2>2, <2>3, <2>4, GoesOn DEF BeginTool, Idle
<1>5. CASE Claim(i)
  <2>1. CASE ledger = 0
    <3> DEFINE j == [i EXCEPT !.pc = "executing", !.claimed = TRUE, !.answer = calls']
    <3>1. calls' > 0
      BY <1>0, <1>5, <2>1 DEF Claim
    <3>2. j.pc = "executing" /\ j.attempt = i.attempt /\ j.claimed /\ j.answer = calls'
      BY <1>0 DEF Invocation
    <3> HIDE DEF j
    <3>3. Becomes(i, j) /\ i.pc = "claiming" /\ \A k \in invs : ~k.claimed
      BY <1>5, <2>1 DEF Claim, j
    <3>4. Sound(j)
      BY <1>0, <2>1, <3>1, <3>2, <3>3 DEF Sound
    <3> QED
      BY <1>5, <2>1, <3>2, <3>3, <3>4, GoesOn DEF Claim
  <2>2. CASE ledger # 0
    <3> DEFINE j == Recording(i, "completed", ledger)
    <3>1. /\ j.pc = "recording" /\ j.event = "completed" /\ j.answer = ledger
          /\ j.attempt = i.attempt /\ j.claimed = i.claimed
      BY <1>0 DEF Recording, Invocation
    <3> HIDE DEF j
    <3>2. Becomes(i, j) /\ i.pc = "claiming"
      BY <1>5, <2>2 DEF Claim, j
    <3>3. Sound(j)
      BY <1>0, <2>2, <3>1, <3>2 DEF Sound
    <3> QED
      BY <1>5, <2>2, <3>1, <3>2, <3>3, GoesOn DEF Claim
  <2> QED
    BY <2>1, <2>2
<1>6. CASE Succeeds(i)
  <2> DEFINE j == Recording(i, "completed", i.answer)
  <2>1. /\ j.pc = "recording" /\ j.event = "completed" /\ j.answer = i.answer
        /\ j.attempt = i.attempt /\ j.claimed = i.claimed
    BY <1>0 DEF Recording, Invocation
  <2> HIDE DEF j
  <2>2. Becomes(i, j) /\ i.pc \in {"calling", "executing"}
    BY <1>6 DEF Succeeds, j
  <2>3. Sound(j)
    BY <1>0, <2>1, <2>2 DEF Sound
  <2> QED
    BY <1>6, <2>1, <2>2, <2>3, GoesOn DEF Succeeds
<1>7. ASSUME NEW retryable \in BOOLEAN, Fails(i, retryable)
      PROVE  Accounted'
  <2> DEFINE j == Failure(i, retryable)
  <2>1. Idle(j) /\ j.attempt = i.attempt /\ Sound(j)
    BY <1>0, FailureIsIdle, IdleIsSound
  <2> HIDE DEF j
  <2> QED
    BY <1>7, <2>1, GoesOn DEF Fails, Idle, j
<1>8. CASE Fence(i)
  <2> DEFINE j == [i EXCEPT !.pc = "fenced", !.write = (outcomes = <<>>)]
  <2>1. /\ j.pc = "fenced" /\ j.event = i.event /\ j.answer = i.answer
        /\ j.attempt = i.attempt /\ j.claimed = i.claimed /\ j.worker = i.worker
    BY <1>0 DEF Invocation
  <2>2. Idle(Thrown(i)) /\ Thrown(i).attempt = i.attempt /\ Sound(Thrown(i))
    BY <1>0, FailureIsIdle, IdleIsSound
  <2> HIDE DEF j
  <2>3. CASE FenceAccepts(task, i.worker, i.attempt)
    <3>1. Becomes(i, j) /\ i.pc = "recording"
      BY <1>8, <2>3 DEF Fence, j
    <3>2. Sound(j)
      BY <1>0, <2>1, <2>3, <3>1 DEF Sound
    <3> QED
      BY <1>8, <2>1, <3>1, <3>2, GoesOn DEF Fence
  <2>4. CASE ~FenceAccepts(task, i.worker, i.attempt)
    BY <1>8, <2>2, <2>4, GoesOn DEF Fence, Idle
  <2> QED
    BY <2>3, <2>4
<1>9. CASE Commit(i)
  BY <1>9, CommitAccounted
<1> QED
  BY <1>1, <1>2, <1>3, <1>4, <1>5, <1>6, <1>7, <1>8, <1>9 DEF HandlerStep

\* The queue's steps and those of the environment.
LEMMA NextAccounted == TypeOK /\ Answering /\ Accounted /\ [Next]_vars => Accounted'
<1> SUFFICES ASSUME TypeOK, Answering, Accounted, [Next]_vars PROVE Accounted'
  OBVIOUS
<1>0. /\ task \in Row /\ task.attempt \in Nat /\ spent.requeues \in Nat
      /\ \A i \in invs : i \in Invocation /\ i.attempt \in Nat /\ Sound(i)
  BY DEF TypeOK, Row, RowOf, Faults, Invocation, Accounted
<1>1. ASSUME NEW w \in Workers, Dequeue(w)
      PROVE  Accounted'
  <2>1. /\ task.status = "pending"
        /\ UNCHANGED <<outcomes, ledger, effects, spent>>
        /\ task'.type = task.type /\ task'.attempt = task.attempt + 1
    BY <1>0, <1>1, RowKeeps DEF Dequeue
  <2>2. PICK j : invs' = invs \cup {j} /\ Idle(j) /\ j.attempt = task'.attempt
    <3> DEFINE e == [worker |-> w, attempt |-> task'.attempt, life |-> spent.requeues,
                     pc |-> "start", event |-> "none", answer |-> 0,
                     claimed |-> FALSE, write |-> FALSE, rethrow |-> FALSE]
    <3>1. Idle(e) /\ e.attempt = task'.attempt
      BY DEF Idle
    <3>2. invs' = invs \cup {e}
      BY <1>1 DEF Dequeue
    <3> QED
      BY <3>1, <3>2
  <2>3. ASSUME NEW k \in invs
        PROVE  Sound(k)' /\ (spent.requeues = 0 => k.attempt # j.attempt)
    <3>1. k.pc # "fenced"
      BY <1>0, <2>1 DEF Sound, FenceAccepts, OwnedBy
    <3> QED
      BY <1>0, <2>1, <2>2, <3>1 DEF Sound
  <2>4. Sound(j)'
    BY <1>0, <2>1, <2>2 DEF Sound, Idle
  <2>5. Apart'
    BY <2>1, <2>2, <2>3 DEF Accounted, Apart, Idle
  <2> QED
    BY <2>1, <2>2, <2>3, <2>4, <2>5 DEF Accounted, EffectIsReported
<1>2. ASSUME NEW w \in Workers, Crash(w)
      PROVE  Accounted'
  <2>1. spent'.requeues = spent.requeues
    BY <1>2 DEF Crash, Spend, TypeOK, Faults
  <2> QED
    BY <1>2, <2>1, RowMoves DEF Crash
<1>3. CASE Reclaim
  <2>1. spent'.requeues = spent.requeues
    BY <1>3 DEF Reclaim, Spend, TypeOK, Faults
  <2> QED
    BY <1>0, <1>3, <2>1, RowKeeps, RowMoves DEF Reclaim
<1>4. CASE RequeueDead
  <2>1. /\ task.status = "dead" /\ task'.type = task.type
        /\ UNCHANGED <<outcomes, ledger, effects, invs>>
    BY <1>0, <1>4, RowKeeps DEF RequeueDead
  <2>2. spent'.requeues > 0
    BY <1>0, <1>4 DEF RequeueDead, Spend, TypeOK, Faults
  <2>3. ASSUME NEW k \in invs
        PROVE  Sound(k)'
    <3>1. k.pc # "fenced"
      BY <1>0, <2>1 DEF Sound, FenceAccepts, OwnedBy
    <3> QED
      BY <1>0, <2>1, <2>2, <3>1 DEF Sound
  <2> QED
    BY <2>1, <2>2, <2>3 DEF Accounted, Apart, EffectIsReported
<1>5. ASSUME NEW i \in invs, QueryErrors(i)
      PROVE  Accounted'
  <2>1. spent'.requeues = spent.requeues
    BY <1>5 DEF QueryErrors, Spend, TypeOK, Faults
  <2>2. Idle(Interrupted(i)) /\ Interrupted(i).attempt = i.attempt
    BY <1>0, FailureIsIdle
  <2> QED
    BY <1>5, <2>1, <2>2, RowMoves DEF QueryErrors
<1>6. ASSUME NEW i \in invs, CompleteTask(i)
      PROVE  Accounted'
  BY <1>0, <1>6, RowKeeps, RowMoves DEF CompleteTask
<1>7. ASSUME NEW i \in invs, CompleteErrors(i)
      PROVE  Accounted'
  <2> DEFINE j == [i EXCEPT !.pc = "threw"]
  <2>1. spent'.requeues = spent.requeues
    BY <1>7 DEF CompleteErrors, Spend, TypeOK, Faults
  <2>2. j.pc = "threw" /\ j.attempt = i.attempt /\ j.claimed = i.claimed
    BY <1>0 DEF Invocation
  <2>3. ~i.claimed
    BY <1>0, <1>7 DEF Sound, CompleteErrors
  <2> HIDE DEF j
  <2>4. Becomes(i, j) /\ Idle(j)
    BY <1>7, <2>2, <2>3 DEF CompleteErrors, Idle, j
  <2> QED
    BY <1>0, <1>7, <2>1, <2>2, <2>4, RowKeeps, RowMoves DEF CompleteErrors
<1>8. ASSUME NEW i \in invs, FailTask(i)
      PROVE  Accounted'
  BY <1>0, <1>8, RowKeeps, RowMoves DEF FailTask
<1>9. CASE UNCHANGED vars
  BY <1>9, RowMoves DEF vars
<1> QED
  BY <1>1, <1>2, <1>3, <1>4, <1>5, <1>6, <1>7, <1>8, <1>9, HandlerAccounted DEF Next

\* A tool's effect is committed at most once and never without the outcome that reports it:
\* the claim, the second look and the fence are enough as long as no operator requeues.
THEOREM EffectsAreReported == Spec => []EffectIsReported
<1>1. Init => Accounted
  BY DEF Init, Accounted, Apart, EffectIsReported
<1>2. IInv /\ Accounted /\ [Next]_vars => Accounted'
  BY NextAccounted DEF IInv
<1>3. Accounted => EffectIsReported
  BY DEF Accounted
<1> QED
  BY <1>1, <1>2, <1>3, Inductive, PTL DEF Spec

-----------------------------------------------------------------------------
(***************************************************************************)
(* While no live worker loses a lease.                                     *)
(***************************************************************************)

\* There is one invocation, which has the lease; it set out before the step was answered,
\* and throws for lack of an answer only if it may try again.
Alone ==
  spent.stalls = 0 =>
    \A i \in invs :
      /\ \A j \in invs : j = i
      /\ \/ FenceAccepts(task, i.worker, i.attempt)
         \/ task.status = "completed" /\ i.pc = "threw"
      /\ i.pc \in {"ready", "claiming"} => outcomes = <<>>
      /\ i.pc = "threw" /\ spent.errors = 0 => i.attempt < task.max \/ outcomes # <<>>

Unbroken == Alone /\ DeadIsAnswered

\* What NoCallOnceAnswered says of one step.
CallsInTime == calls' # calls => outcomes = <<>> \/ spent.stalls > 0

LEMMA SpendCounts ==
  ASSUME TypeOK, NEW kind \in Faults, Spend(kind)
  PROVE  /\ \A k \in Faults : spent[k] \in Nat /\ spent'[k] \in Nat /\ spent'[k] >= spent[k]
         /\ spent'[kind] > 0
         /\ \A k \in Faults \ {kind} : spent'[k] = spent[k]
BY DEF TypeOK, Spend

\* The invocation goes on with its lease.
LEMMA AloneGoesOn ==
  ASSUME Unbroken, NEW i \in invs, NEW j, Becomes(i, j), task' = task,
         j.worker = i.worker, j.attempt = i.attempt, i.pc # "threw",
         spent'.stalls = spent.stalls, spent'.errors = 0 => spent.errors = 0,
         outcomes # <<>> => outcomes' # <<>>,
         spent.stalls = 0 /\ j.pc \in {"ready", "claiming"} => outcomes' = <<>>,
         spent.stalls = 0 /\ j.pc = "threw" /\ spent'.errors = 0 =>
           j.attempt < task.max \/ outcomes' # <<>>
  PROVE  Unbroken'
<1>1. Alone'
  <2> SUFFICES ASSUME spent.stalls = 0
               PROVE  Alone'
    BY DEF Alone
  <2>1. invs' = {j}
    BY DEF Becomes, Unbroken, Alone
  <2>2. FenceAccepts(task, i.worker, i.attempt)
    BY DEF Unbroken, Alone
  <2> QED
    BY <2>1, <2>2 DEF Alone
<1>2. DeadIsAnswered'
  BY DEF Unbroken, DeadIsAnswered
<1> QED
  BY <1>1, <1>2 DEF Unbroken

\* Only CallProvider and Claim call, before there is an outcome.
LEMMA HandlerCallsInTime ==
  ASSUME TypeOK, Unbroken, NEW i \in invs, HandlerStep(i) \/ QueryErrors(i)
  PROVE  CallsInTime
<1>1. spent.stalls \in Nat
      /\ (spent.stalls = 0 /\ i.pc \in {"ready", "claiming"} => outcomes = <<>>)
  BY DEF TypeOK, Unbroken, Alone, Faults
<1> QED
  BY <1>1 DEF CallsInTime, HandlerStep, QueryErrors, ReadHistory, Refuse, CallProvider,
              BeginTool, Claim, Succeeds, Fails, Fence, Commit

\* The handler's steps.
LEMMA HandlerUnbroken ==
  ASSUME TypeOK, Answering, Unbroken, NEW i \in invs, HandlerStep(i) \/ QueryErrors(i)
  PROVE  Unbroken'
<1>0. /\ i \in Invocation
      /\ spent.stalls = 0 /\ i.pc \in {"ready", "claiming"} => outcomes = <<>>
      /\ spent.stalls = 0 /\ i.pc # "threw" => FenceAccepts(task, i.worker, i.attempt)
  BY DEF TypeOK, Unbroken, Alone
<1>1. ASSUME NEW j, Becomes(i, j), j.worker = i.worker, j.attempt = i.attempt, i.pc # "threw",
             UNCHANGED <<task, outcomes, spent>>,
             spent.stalls = 0 /\ j.pc \in {"ready", "claiming"} => outcomes = <<>>,
             spent.stalls = 0 /\ j.pc = "threw" => j.attempt < task.max
      PROVE  Unbroken'
  BY <1>1, AloneGoesOn
<1>2. CASE ReadHistory(i)
  <2> DEFINE j == [i EXCEPT !.pc = IF outcomes = <<>> THEN "ready" ELSE "returned"]
  <2>1. /\ j.pc = (IF outcomes = <<>> THEN "ready" ELSE "returned")
        /\ j.worker = i.worker /\ j.attempt = i.attempt
    BY <1>0 DEF Invocation
  <2> HIDE DEF j
  <2>2. Becomes(i, j) /\ i.pc = "start" /\ UNCHANGED <<task, outcomes, spent>>
    BY <1>2 DEF ReadHistory, j
  <2> QED
    BY <1>1, <2>1, <2>2
<1>3. ASSUME NEW event, NEW answer, Becomes(i, Recording(i, event, answer)), i.pc # "threw",
             UNCHANGED <<task, outcomes, spent>>
      PROVE  Unbroken'
  <2> DEFINE j == Recording(i, event, answer)
  <2>1. j.pc = "recording" /\ j.worker = i.worker /\ j.attempt = i.attempt
    BY <1>0 DEF Recording, Invocation
  <2> HIDE DEF j
  <2> QED
    BY <1>1, <1>3, <2>1 DEF j
<1>4. CASE Refuse(i) \/ Succeeds(i)
  BY <1>3, <1>4 DEF Refuse, Succeeds
<1>5. CASE CallProvider(i)
  <2> DEFINE j == [i EXCEPT !.pc = "calling", !.answer = calls']
  <2>1. j.pc = "calling" /\ j.worker = i.worker /\ j.attempt = i.attempt
    BY <1>0 DEF Invocation
  <2> HIDE DEF j
  <2> QED
    BY <1>1, <1>5, <2>1 DEF CallProvider, j
<1>6. ASSUME NEW j, j = Thrown(i)
      PROVE  j.pc = "threw" /\ j.worker = i.worker /\ j.attempt = i.attempt
  BY <1>0, <1>6 DEF Thrown, Invocation
<1>7. CASE BeginTool(i)
  <2> DEFINE j == [i EXCEPT !.pc = "claiming"]
  <2>1. j.pc = "claiming" /\ j.worker = i.worker /\ j.attempt = i.attempt
    BY <1>0 DEF Invocation
  <2> HIDE DEF j
  <2>2. i.pc = "ready" /\ UNCHANGED <<task, outcomes, spent>>
        /\ Becomes(i, IF FenceAccepts(task, i.worker, i.attempt) THEN j ELSE Thrown(i))
    BY <1>7 DEF BeginTool, j
  <2>3. CASE FenceAccepts(task, i.worker, i.attempt)
    BY <1>0, <1>1, <2>1, <2>2, <2>3
  <2>4. CASE ~FenceAccepts(task, i.worker, i.attempt)
    BY <1>0, <1>1, <1>6, <2>2, <2>4
  <2> QED
    BY <2>3, <2>4
<1>8. CASE Claim(i)
  <2> DEFINE j == [i EXCEPT !.pc = "executing", !.claimed = TRUE, !.answer = calls']
  <2>1. j.pc = "executing" /\ j.worker = i.worker /\ j.attempt = i.attempt
    BY <1>0 DEF Invocation
  <2> HIDE DEF j
  <2>2. i.pc = "claiming" /\ UNCHANGED <<task, outcomes, spent>>
        /\ (Becomes(i, j) \/ Becomes(i, Recording(i, "completed", ledger)))
    BY <1>8 DEF Claim, j
  <2> QED
    BY <1>1, <1>3, <2>1, <2>2
<1>9. ASSUME NEW retryable \in BOOLEAN, Fails(i, retryable)
       PROVE  Unbroken'
  <2> DEFINE j == Failure(i, retryable)
  <2>1. /\ j.pc \in {"threw", "recording"} /\ j.worker = i.worker /\ j.attempt = i.attempt
        /\ j.pc = "threw" => i.attempt < task.max
    BY <1>0 DEF Failure, Thrown, Recording, Invocation
  <2> HIDE DEF j
  <2> QED
    BY <1>1, <1>9, <2>1 DEF Fails, j
<1>10. CASE Fence(i)
  <2> DEFINE j == [i EXCEPT !.pc = "fenced", !.write = (outcomes = <<>>)]
  <2>1. j.pc = "fenced" /\ j.worker = i.worker /\ j.attempt = i.attempt
    BY <1>0 DEF Invocation
  <2> HIDE DEF j
  <2>2. i.pc = "recording" /\ UNCHANGED <<task, outcomes, spent>>
        /\ Becomes(i, IF FenceAccepts(task, i.worker, i.attempt) THEN j ELSE Thrown(i))
    BY <1>10 DEF Fence, j
  <2>3. CASE FenceAccepts(task, i.worker, i.attempt)
    BY <1>1, <2>1, <2>2, <2>3
  <2>4. CASE ~FenceAccepts(task, i.worker, i.attempt)
    BY <1>0, <1>1, <1>6, <2>2, <2>4
  <2> QED
    BY <2>3, <2>4
<1>11. /\ Interrupted(i).pc \in {"threw", "recording"}
       /\ Interrupted(i).worker = i.worker /\ Interrupted(i).attempt = i.attempt
  BY <1>0 DEF Interrupted, Failure, Thrown, Recording, Invocation
<1>12. CASE Commit(i)
  <2>1. outcomes' # <<>> /\ i.pc = "fenced" /\ task' = task
    <3>1. outcomes \in Seq(Outcome) /\ (i.write <=> outcomes = <<>>)
      BY <1>12 DEF TypeOK, Commit, Answering, LookHolds
    <3> QED
      BY <1>12, <3>1 DEF Commit
  <2>2. CASE Becomes(i, Interrupted(i)) /\ Spend("errors")
    <3>1. spent'.stalls = spent.stalls /\ spent'.errors # 0
      BY <2>2, SpendCounts DEF Faults
    <3> QED
      BY <1>11, <2>1, <2>2, <3>1, AloneGoesOn
  <2>3. CASE /\ UNCHANGED spent
             /\ Becomes(i, [i EXCEPT !.pc = IF i.rethrow THEN "threw" ELSE "returned",
                                     !.claimed = FALSE])
    <3> DEFINE j == [i EXCEPT !.pc = IF i.rethrow THEN "threw" ELSE "returned", !.claimed = FALSE]
    <3>1. j.pc \in {"threw", "returned"} /\ j.worker = i.worker /\ j.attempt = i.attempt
      BY <1>0 DEF Invocation
    <3> HIDE DEF j
    <3> QED
      BY <2>1, <2>3, <3>1, AloneGoesOn DEF j
  <2> QED
    BY <1>12, <2>2, <2>3 DEF Commit
<1>13. CASE QueryErrors(i)
  <2>1. spent'.stalls = spent.stalls /\ spent'.errors # 0
    BY <1>13, SpendCounts DEF QueryErrors, Faults
  <2>2. i.pc # "threw" /\ Becomes(i, Interrupted(i)) /\ UNCHANGED <<task, outcomes>>
    BY <1>13 DEF QueryErrors
  <2> QED
    BY <1>11, <2>1, <2>2, AloneGoesOn
<1> QED
  BY <1>2, <1>4, <1>5, <1>7, <1>8, <1>9, <1>10, <1>12, <1>13 DEF HandlerStep

\* A row is given to another only if nobody works on it.
LEMMA NextUnbroken == TypeOK /\ Answering /\ Unbroken /\ [Next]_vars => Unbroken'
<1> SUFFICES ASSUME TypeOK, Answering, Unbroken, [Next]_vars PROVE Unbroken'
  OBVIOUS
<1>0. /\ task \in Row /\ task.attempt \in Nat /\ task.max \in Nat
      /\ \A i \in invs : i \in Invocation /\ i.attempt \in Nat
      /\ spent.stalls \in Nat
  BY DEF TypeOK, Row, RowOf, Faults, Invocation
<1>1. ASSUME NEW w \in Workers, Dequeue(w)
      PROVE  Unbroken'
  <2> DEFINE e == [worker |-> w, attempt |-> task'.attempt, life |-> spent.requeues,
                   pc |-> "start", event |-> "none", answer |-> 0,
                   claimed |-> FALSE, write |-> FALSE, rethrow |-> FALSE]
  <2>1. /\ task.status = "pending" /\ invs' = invs \cup {e} /\ UNCHANGED <<outcomes, spent>>
        /\ task' = LeasedTo([task EXCEPT !.due = TRUE], w)
    BY <1>1 DEF Dequeue
  <2>2. /\ FenceAccepts(task', w, task'.attempt)
        /\ e.pc = "start" /\ e.worker = w /\ e.attempt = task'.attempt
    BY <1>0, <2>1 DEF FenceAccepts, OwnedBy, LeasedTo, Row, RowOf
  <2> HIDE DEF e
  <2>3. PICK j : invs' = invs \cup {j} /\ j.pc = "start" /\ FenceAccepts(task', j.worker, j.attempt)
    BY <2>1, <2>2
  <2>4. spent.stalls = 0 => invs = {}
    BY <2>1 DEF Unbroken, Alone, FenceAccepts, OwnedBy
  <2>5. Alone'
    BY <2>1, <2>3, <2>4 DEF Alone, FenceAccepts, OwnedBy
  <2> QED
    BY <2>2, <2>5 DEF Unbroken, DeadIsAnswered, FenceAccepts, OwnedBy
<1>2. ASSUME NEW w \in Workers, Crash(w)
      PROVE  Unbroken'
  <2>1. spent'.stalls = spent.stalls /\ spent'.errors = spent.errors
    BY <1>2, SpendCounts DEF Crash, Faults
  <2> QED
    BY <1>2, <2>1 DEF Crash, Unbroken, Alone, DeadIsAnswered
<1>3. CASE Reclaim
  <2>1. task'.status = "pending" /\ UNCHANGED invs /\ task.status = "leased"
    BY <1>0, <1>3, NotCompleted DEF Reclaim
  <2>2. spent'.stalls = 0 => Orphaned /\ spent.stalls = 0
    BY <1>3, SpendCounts DEF Reclaim, Faults
  <2>3. spent'.stalls = 0 => invs = {}
    BY <2>1, <2>2 DEF Unbroken, Alone, FenceAccepts, Orphaned
  <2> QED
    BY <2>1, <2>3 DEF Unbroken, Alone, DeadIsAnswered
<1>4. CASE RequeueDead
  <2>1. task'.status = "pending" /\ UNCHANGED invs /\ task.status = "dead"
    BY <1>0, <1>4, NotCompleted DEF RequeueDead
  <2>2. spent'.stalls = spent.stalls
    BY <1>4, SpendCounts DEF RequeueDead, Faults
  <2>3. spent'.stalls = 0 => invs = {}
    BY <2>1, <2>2 DEF Unbroken, Alone, FenceAccepts, OwnedBy
  <2> QED
    BY <2>1, <2>3 DEF Unbroken, Alone, DeadIsAnswered
<1>5. ASSUME NEW i \in invs, CompleteTask(i)
      PROVE  Unbroken'
  <2>1. /\ invs' = invs \ {i} /\ UNCHANGED <<outcomes, spent>>
        /\ task' \in {task, Completed(task)}
    BY <1>5 DEF CompleteTask
  <2>2. spent.stalls = 0 => invs' = {}
    BY <2>1 DEF Unbroken, Alone
  <2>3. Completed(task).status = "completed"
    BY <1>0 DEF Completed, Row, RowOf
  <2> QED
    BY <2>1, <2>2, <2>3 DEF Unbroken, Alone, DeadIsAnswered
<1>6. ASSUME NEW i \in invs, CompleteErrors(i)
      PROVE  Unbroken'
  <2> DEFINE j == [i EXCEPT !.pc = "threw"]
  <2>1. spent'.stalls = spent.stalls /\ spent'.errors # 0
    BY <1>6, SpendCounts DEF CompleteErrors, Faults
  <2>2. j.pc = "threw" /\ j.worker = i.worker /\ j.attempt = i.attempt
    BY <1>0 DEF Invocation
  <2> HIDE DEF j
  <2>3. /\ Becomes(i, j) /\ i.pc = "returned" /\ outcomes' = outcomes
        /\ task' \in {task, Completed(task)}
    BY <1>6 DEF CompleteErrors, j
  <2>4. Completed(task).status = "completed"
    BY <1>0 DEF Completed, Row, RowOf
  <2>5. CASE spent.stalls = 0
    <3>1. invs' = {j}
      BY <2>3, <2>5 DEF Becomes, Unbroken, Alone
    <3>2. FenceAccepts(task, i.worker, i.attempt)
      BY <2>3, <2>5 DEF Unbroken, Alone
    <3>3. FenceAccepts(task', j.worker, j.attempt) \/ task'.status = "completed"
      BY <2>2, <2>3, <2>4, <3>2
    <3> QED
      BY <2>1, <2>2, <2>3, <3>1, <3>3 DEF Unbroken, Alone, DeadIsAnswered
  <2>6. CASE spent.stalls # 0
    BY <2>1, <2>6 DEF Unbroken, Alone, DeadIsAnswered
  <2> QED
    BY <2>5, <2>6
<1>7. ASSUME NEW i \in invs, FailTask(i)
      PROVE  Unbroken'
  <2>1. /\ invs' = invs \ {i} /\ UNCHANGED <<outcomes, spent>> /\ i.pc = "threw"
        /\ task' = IF OwnedBy(task, i.worker) THEN Failed(task) ELSE task
    BY <1>7 DEF FailTask
  <2>2. spent.stalls = 0 => invs' = {}
    BY <2>1 DEF Unbroken, Alone
  <2>3. Failed(task).status = "dead" => task.attempt >= task.max
    BY <1>0 DEF Failed, Row, RowOf
  <2>4. DeadIsAnswered'
    <3> SUFFICES ASSUME OwnedBy(task, i.worker), task'.status = "dead",
                        spent.errors = 0, spent.stalls = 0
                 PROVE  outcomes # <<>>
      BY <2>1 DEF Unbroken, DeadIsAnswered
    <3>1. task.attempt = i.attempt
      BY DEF Unbroken, Alone, FenceAccepts, OwnedBy
    <3>2. i.attempt < task.max \/ outcomes # <<>>
      BY <2>1 DEF Unbroken, Alone
    <3> QED
      BY <1>0, <2>1, <2>3, <3>1, <3>2
  <2> QED
    BY <2>1, <2>2, <2>4 DEF Unbroken, Alone
<1>8. CASE UNCHANGED vars
  BY <1>8 DEF vars, Unbroken, Alone, DeadIsAnswered
<1> QED
  BY <1>1, <1>2, <1>3, <1>4, <1>5, <1>6, <1>7, <1>8, HandlerUnbroken DEF Next

LEMMA NextCallsInTime == TypeOK /\ Unbroken /\ [Next]_vars => [CallsInTime]_vars
BY HandlerCallsInTime DEF Next, CallsInTime, Dequeue, Crash, Reclaim, RequeueDead,
   CompleteTask, CompleteErrors, FailTask

LEMMA AlwaysUnbroken == Spec => []Unbroken
<1>1. Init => Unbroken
  BY DEF Init, Unbroken, Alone, DeadIsAnswered, NewRow
<1>2. IInv /\ Unbroken /\ [Next]_vars => Unbroken'
  BY NextUnbroken DEF IInv
<1> QED
  BY <1>1, <1>2, Inductive, PTL DEF Spec

\* However often its process dies, a step whose task is dead has an outcome, as long as no
\* query fails and no live worker loses its lease.
THEOREM DeadStepsAreAnswered == Spec => []DeadIsAnswered
<1>1. Unbroken => DeadIsAnswered
  BY DEF Unbroken
<1> QED
  BY <1>1, AlwaysUnbroken, PTL

\* A provider or a tool is called for a step that is answered only after a live worker has
\* lost a lease, whatever crashes, fails or is requeued.
THEOREM NoNeedlessCalls == Spec => NoCallOnceAnswered
<1>1. IInv /\ Unbroken /\ [Next]_vars => [CallsInTime]_vars
  BY NextCallsInTime DEF IInv
<1>2. Spec => [][CallsInTime]_vars
  BY <1>1, Inductive, AlwaysUnbroken, PTL DEF Spec
<1> QED
  BY <1>2 DEF NoCallOnceAnswered, CallsInTime

-----------------------------------------------------------------------------
(***************************************************************************)
(* The handlers implement DurableStep.                                     *)
(***************************************************************************)

\* What an invocation is about to record is the answer of one of the first n calls, or a
\* failure.
Made(k, n) ==
  /\ k.pc \in {"calling", "executing"} => k.answer \in 1..n
  /\ k.pc \in {"recording", "fenced"} /\ k.event = "completed" => k.answer \in 1..n
  /\ k.pc \in {"recording", "fenced"} /\ k.event = "failed" => k.answer = 0

Traceable ==
  /\ \A k \in invs : Made(k, calls)
  /\ ledger \in 0..calls

\* No answer is made up when more calls are made.
LEMMA StaysTraceable ==
  ASSUME TypeOK, Traceable, calls' \in {calls, calls + 1}, ledger' \in 0..calls',
         \A k \in invs' : k \in invs \/ Made(k, calls')
  PROVE  Traceable'
<1>1. calls \in Nat /\ \A x \in 1..calls : x \in 1..calls'
  BY DEF TypeOK
<1>2. \A k \in invs : Made(k, calls')
  BY <1>1 DEF Traceable, Made
<1> QED
  BY <1>2 DEF Traceable

LEMMA FailureIsMade ==
  ASSUME NEW i \in Invocation, NEW n
  PROVE  /\ Made(Thrown(i), n) /\ Made(Interrupted(i), n)
         /\ \A retryable \in BOOLEAN : Made(Failure(i, retryable), n)
<1>1. Made(Thrown(i), n)
  BY DEF Thrown, Made, Invocation
<1>2. ASSUME NEW retryable \in BOOLEAN
      PROVE  Made(Failure(i, retryable), n)
  <2> DEFINE j == [Recording(i, "failed", 0) EXCEPT !.claimed = FALSE, !.rethrow = retryable]
  <2>1. j.pc = "recording" /\ j.event = "failed" /\ j.answer = 0
    BY DEF Recording, Invocation
  <2>2. Made(j, n)
    BY <2>1 DEF Made
  <2> HIDE DEF j
  <2>3. Failure(i, retryable) \in {Thrown(i), j}
    BY DEF Failure, j
  <2> QED
    BY <1>1, <2>2, <2>3
<1>3. Interrupted(i) \in {Failure(i, FALSE), Thrown(i)}
  BY DEF Interrupted
<1> QED
  BY <1>1, <1>2, <1>3

\* What a handler's step makes of its invocation.
LEMMA HandlerTraceable ==
  ASSUME TypeOK, Answering, Accounted, Traceable, NEW i \in invs, HandlerStep(i)
  PROVE  Traceable'
<1>0. /\ i \in Invocation /\ Sound(i) /\ Made(i, calls) /\ calls \in Nat /\ ledger \in 0..calls
  BY DEF TypeOK, Accounted, Traceable
<1>a. ASSUME NEW j, Becomes(i, j), calls' \in {calls, calls + 1}, ledger' \in 0..calls',
             Made(j, calls')
      PROVE  Traceable'
  <2>1. \A k \in invs' : k \in invs \/ Made(k, calls')
    BY <1>a DEF Becomes
  <2> QED
    BY <1>a, <2>1, StaysTraceable
<1>b. ASSUME NEW j, Becomes(i, j), calls' = calls, ledger' = ledger, Made(j, calls)
      PROVE  Traceable'
  BY <1>0, <1>a, <1>b
<1>1. CASE ReadHistory(i)
  <2>1. PICK j : j = [i EXCEPT !.pc = IF outcomes = <<>> THEN "ready" ELSE "returned"]
    OBVIOUS
  <2>2. j.pc \in {"ready", "returned"}
    BY <1>0, <2>1 DEF Invocation
  <2>3. Made(j, calls)
    BY <2>2 DEF Made
  <2> QED
    BY <1>1, <1>b, <2>1, <2>3 DEF ReadHistory
<1>2. CASE Refuse(i)
  <2>1. PICK j : j = Recording(i, "failed", 0)
    OBVIOUS
  <2>2. j.pc = "recording" /\ j.event = "failed" /\ j.answer = 0
    BY <1>0, <2>1 DEF Recording, Invocation
  <2>3. Made(j, calls)
    BY <2>2 DEF Made
  <2> QED
    BY <1>2, <1>b, <2>1, <2>3 DEF Refuse
<1>3. CASE CallProvider(i)
  <2>1. PICK j : j = [i EXCEPT !.pc = "calling", !.answer = calls']
    OBVIOUS
  <2>2. j.pc = "calling" /\ j.answer = calls'
    BY <1>0, <2>1 DEF Invocation
  <2>3. calls' = calls + 1 /\ ledger' = ledger /\ Becomes(i, j)
    BY <1>3, <2>1 DEF CallProvider
  <2>4. Made(j, calls')
    BY <1>0, <2>2, <2>3 DEF Made
  <2> QED
    BY <1>0, <1>a, <2>3, <2>4
<1>4. CASE BeginTool(i)
  <2>1. PICK j : j = [i EXCEPT !.pc = "claiming"]
    OBVIOUS
  <2>2. j.pc = "claiming"
    BY <1>0, <2>1 DEF Invocation
  <2>3. Made(j, calls) /\ Made(Thrown(i), calls)
    BY <1>0, <2>2, FailureIsMade DEF Made
  <2> QED
    BY <1>4, <1>b, <2>1, <2>3 DEF BeginTool
<1>5. CASE Claim(i)
  <2>1. CASE ledger = 0
    <3>1. PICK j : j = [i EXCEPT !.pc = "executing", !.claimed = TRUE, !.answer = calls']
      OBVIOUS
    <3>2. j.pc = "executing" /\ j.answer = calls'
      BY <1>0, <3>1 DEF Invocation
    <3>3. calls' = calls + 1 /\ ledger' = ledger /\ Becomes(i, j)
      BY <1>5, <2>1, <3>1 DEF Claim
    <3>4. Made(j, calls')
      BY <1>0, <3>2, <3>3 DEF Made
    <3> QED
      BY <1>0, <1>a, <3>3, <3>4
  <2>2. CASE ledger # 0
    <3>1. PICK j : j = Recording(i, "completed", ledger)
      OBVIOUS
    <3>2. j.pc = "recording" /\ j.event = "completed" /\ j.answer = ledger
      BY <1>0, <3>1 DEF Recording, Invocation
    <3>3. Made(j, calls)
      BY <1>0, <2>2, <3>2 DEF Made
    <3> QED
      BY <1>5, <1>b, <2>2, <3>1, <3>3 DEF Claim
  <2> QED
    BY <2>1, <2>2
<1>6. CASE Succeeds(i)
  <2>1. PICK j : j = Recording(i, "completed", i.answer)
    OBVIOUS
  <2>2. j.pc = "recording" /\ j.event = "completed" /\ j.answer = i.answer
    BY <1>0, <2>1 DEF Recording, Invocation
  <2>3. Made(j, calls)
    BY <1>0, <1>6, <2>2 DEF Made, Succeeds
  <2> QED
    BY <1>6, <1>b, <2>1, <2>3 DEF Succeeds
<1>7. ASSUME NEW retryable \in BOOLEAN, Fails(i, retryable)
      PROVE  Traceable'
  BY <1>0, <1>7, <1>b, FailureIsMade DEF Fails
<1>8. CASE Fence(i)
  <2>1. PICK j : j = [i EXCEPT !.pc = "fenced", !.write = (outcomes = <<>>)]
    OBVIOUS
  <2>2. j.pc = "fenced" /\ j.event = i.event /\ j.answer = i.answer
    BY <1>0, <2>1 DEF Invocation
  <2>3. Made(j, calls) /\ Made(Thrown(i), calls)
    BY <1>0, <1>8, <2>2, FailureIsMade DEF Made, Fence
  <2> QED
    BY <1>8, <1>b, <2>1, <2>3 DEF Fence
<1>9. CASE Commit(i)
  <2>1. ledger' \in 0..calls /\ calls' = calls
    BY <1>0, <1>9 DEF Commit, Sound, Made
  <2>2. PICK j : /\ j = [i EXCEPT !.pc = IF i.rethrow THEN "threw" ELSE "returned",
                                  !.claimed = FALSE]
    OBVIOUS
  <2>3. j.pc \in {"threw", "returned"}
    BY <1>0, <2>2 DEF Invocation
  <2>4. Made(j, calls) /\ Made(Interrupted(i), calls)
    BY <1>0, <2>3, FailureIsMade DEF Made
  <2>5. Becomes(i, j) \/ Becomes(i, Interrupted(i))
    BY <1>9, <2>2 DEF Commit
  <2> QED
    BY <1>a, <2>1, <2>4, <2>5
<1> QED
  BY <1>1, <1>2, <1>3, <1>4, <1>5, <1>6, <1>7, <1>8, <1>9 DEF HandlerStep

\* The queue and the environment make no calls and record nothing.
LEMMA NextTraceable == TypeOK /\ Answering /\ Accounted /\ Traceable /\ [Next]_vars => Traceable'
<1> SUFFICES ASSUME TypeOK, Answering, Accounted, Traceable, [Next]_vars PROVE Traceable'
  OBVIOUS
<1>0. \A i \in invs : i \in Invocation
  BY DEF TypeOK
<1>1. ASSUME UNCHANGED <<calls, ledger>>, \A k \in invs' : k \in invs \/ Made(k, calls)
      PROVE  Traceable'
  BY <1>1, StaysTraceable DEF Traceable
<1>2. ASSUME NEW w \in Workers, Dequeue(w)
      PROVE  Traceable'
  <2>1. PICK j : invs' = invs \cup {j} /\ j.pc = "start"
    <3> DEFINE e == [worker |-> w, attempt |-> task'.attempt, life |-> spent.requeues,
                     pc |-> "start", event |-> "none", answer |-> 0,
                     claimed |-> FALSE, write |-> FALSE, rethrow |-> FALSE]
    <3>1. e.pc = "start" /\ invs' = invs \cup {e}
      BY <1>2 DEF Dequeue
    <3> QED
      BY <3>1
  <2> QED
    BY <1>1, <1>2, <2>1 DEF Dequeue, Made
<1>3. ASSUME NEW i \in invs, QueryErrors(i)
      PROVE  Traceable'
  <2>1. Made(Interrupted(i), calls)
    BY <1>0, FailureIsMade
  <2> QED
    BY <1>1, <1>3, <2>1 DEF QueryErrors, Becomes
<1>4. ASSUME NEW i \in invs, CompleteErrors(i)
      PROVE  Traceable'
  <2>1. PICK j : j = [i EXCEPT !.pc = "threw"]
    OBVIOUS
  <2>2. j.pc = "threw"
    BY <1>0, <2>1 DEF Invocation
  <2> QED
    BY <1>1, <1>4, <2>1, <2>2 DEF CompleteErrors, Becomes, Made
<1>5. ASSUME NEW i \in invs, CompleteTask(i) \/ FailTask(i)
      PROVE  Traceable'
  BY <1>1, <1>5 DEF CompleteTask, FailTask
<1>6. CASE UNCHANGED vars \/ Reclaim \/ RequeueDead \/ \E w \in Workers : Crash(w)
  BY <1>1, <1>6 DEF vars, Reclaim, RequeueDead, Crash
<1> QED
  BY <1>2, <1>3, <1>4, <1>5, <1>6, HandlerTraceable DEF Next

\* The effects that were committed, as DurableStep sees them.
Committed == [n \in 1..effects |-> ledger]

\* A commit answers the step, or commits the effect of a requeued one, or nothing.
LEMMA CommitIsDurable ==
  ASSUME TypeOK, Answering, Accounted, Traceable, NEW i \in invs, Commit(i)
  PROVE  [Durable!Next]_(Durable!vars)
<1>0. /\ i \in Invocation /\ i.pc = "fenced"
      /\ i.write <=> outcomes = <<>>
      /\ i.event \in {"completed", "failed"}
      /\ Sound(i) /\ Made(i, calls) /\ FenceAccepts(task, i.worker, i.attempt)
      /\ outcomes \in Seq(Outcome) /\ Len(outcomes) <= 1
      /\ calls \in Nat /\ spent.requeues \in Nat /\ i.attempt \in Nat /\ task.attempt \in Nat
  BY DEF TypeOK, RowOf, Commit, Invocation, Faults, Answering, LookHolds, EventChosen, OneOutcome,
         Accounted, Sound, Traceable
<1>1. /\ UNCHANGED <<task, calls>> /\ spent'.requeues = spent.requeues
      /\ ledger' = (IF i.claimed THEN i.answer ELSE ledger)
      /\ outcomes' = (IF i.write THEN Append(outcomes, [type |-> i.event, answer |-> i.answer])
                                 ELSE outcomes)
  BY DEF Commit, Spend, TypeOK, Faults
<1>2. /\ effects = (IF ledger = 0 THEN 0 ELSE 1) /\ EffectIsReported
      /\ effects' = (IF ledger' = 0 THEN 0 ELSE 1)
  BY CommitAccounted DEF Accounted
<1>3. /\ ledger = 0 => Committed = <<>>
      /\ ledger' = 0 => Committed' = <<>>
      /\ ledger' # 0 => Committed' = <<ledger'>>
  BY <1>2 DEF Committed
<1>4. ASSUME outcomes = <<>>
      PROVE  \/ Durable!GiveUp
             \/ \E n \in 1..calls : Durable!Complete(n)
  <2>1. ledger = 0 /\ outcomes' = <<[type |-> i.event, answer |-> i.answer]>>
    BY <1>0, <1>1, <1>2, <1>4 DEF EffectIsReported
  <2>2. CASE i.event = "failed"
    <3>1. i.answer = 0 /\ ledger' = 0
      BY <1>0, <1>1, <2>1, <2>2 DEF Made, Sound
    <3> QED
      BY <1>1, <1>3, <1>4, <2>1, <2>2, <3>1 DEF Durable!GiveUp, Committed
  <2>3. CASE i.event = "completed"
    <3>1. /\ i.answer \in 1..calls
          /\ ledger' = IF task.type = "tool" THEN i.answer ELSE 0
      BY <1>0, <1>1, <2>1, <2>3 DEF Made, Sound
    <3>2. Committed' = IF task.type = "tool" THEN <<i.answer>> ELSE <<>>
      BY <1>3, <3>1
    <3>3. Durable!Complete(i.answer)
      BY <1>1, <1>3, <1>4, <2>1, <2>3, <3>2 DEF Durable!Complete, Committed
    <3> QED
      BY <3>1, <3>3
  <2> QED
    BY <1>0, <2>2, <2>3
<1>5. ASSUME outcomes # <<>>, i.claimed
      PROVE  \E n \in 1..calls : Durable!CommitLate(n)
  <2>1. /\ task.type = "tool" /\ ledger = 0 /\ i.answer \in 1..calls
        /\ ledger' = i.answer /\ outcomes' = outcomes
    BY <1>0, <1>1, <1>5 DEF Sound, Made
  <2>2. spent.requeues > 0
    BY <1>0, <1>5 DEF Sound, FenceAccepts
  <2>3. 1 \in DOMAIN outcomes /\ outcomes[1] \in Outcome
    BY <1>0, <1>5
  <2>4. outcomes[1].type = "failed"
    BY <1>2, <2>1, <2>3 DEF EffectIsReported, Outcome
  <2>5. Committed = <<>> /\ Committed' = <<i.answer>>
    BY <1>0, <1>3, <2>1 DEF Sound
  <2>6. Durable!CommitLate(i.answer)
    BY <1>1, <1>5, <2>1, <2>2, <2>4, <2>5 DEF Durable!CommitLate, Committed
  <2> QED
    BY <2>1, <2>6
<1>6. ASSUME outcomes # <<>>, ~i.claimed
      PROVE  UNCHANGED Durable!vars
  <2>1. ledger' = ledger /\ effects' = effects /\ outcomes' = outcomes
    BY <1>0, <1>1, <1>2, <1>6
  <2> QED
    BY <1>1, <2>1 DEF Durable!vars
<1> QED
  BY <1>4, <1>5, <1>6 DEF Durable!Next

\* Every other step makes a call, reopens the step, or is none of DurableStep's business.
LEMMA NextDurable ==
  TypeOK /\ Answering /\ Accounted /\ Traceable /\ [Next]_vars => [Durable!Next]_(Durable!vars)
<1> SUFFICES ASSUME TypeOK, Answering, Accounted, Traceable, [Next]_vars
             PROVE  [Durable!Next]_(Durable!vars)
  OBVIOUS
<1>0. /\ task \in Row /\ spent.requeues \in Nat
      /\ \A i \in invs : i \in Invocation
  BY DEF TypeOK, Row, Faults
<1>1. ASSUME task'.type = task.type, UNCHANGED <<calls, outcomes, ledger, effects>>,
             spent'.requeues = spent.requeues
      PROVE  UNCHANGED Durable!vars
  BY <1>1 DEF Durable!vars
<1>2. ASSUME UNCHANGED <<task, outcomes, ledger, effects, spent>>, calls' = calls + 1
      PROVE  Durable!Call
  BY <1>2 DEF Durable!Call
<1>3. \A kind \in Faults \ {"requeues"} : Spend(kind) => spent'.requeues = spent.requeues
  BY DEF Spend, TypeOK, Faults
<1>4. ASSUME NEW w \in Workers, Dequeue(w)
      PROVE  UNCHANGED Durable!vars
  BY <1>0, <1>1, <1>4, RowKeeps DEF Dequeue
<1>5. ASSUME NEW w \in Workers, Crash(w)
      PROVE  UNCHANGED Durable!vars
  BY <1>1, <1>3, <1>5 DEF Crash, Faults
<1>6. CASE Reclaim
  BY <1>0, <1>1, <1>3, <1>6, RowKeeps DEF Reclaim, Faults
<1>7. CASE RequeueDead
  <2>1. task'.type = task.type /\ UNCHANGED <<calls, outcomes, ledger, effects>>
    BY <1>0, <1>7, RowKeeps DEF RequeueDead
  <2>2. spent'.requeues > 0
    BY <1>0, <1>7 DEF RequeueDead, Spend, TypeOK, Faults
  <2>3. Durable!Reopen
    BY <2>1, <2>2 DEF Durable!Reopen
  <2> QED
    BY <2>3 DEF Durable!Next
<1>8. ASSUME NEW i \in invs, CompleteTask(i) \/ CompleteErrors(i) \/ FailTask(i)
      PROVE  UNCHANGED Durable!vars
  <2>1. task'.type = task.type
    BY <1>0, <1>8, RowKeeps DEF CompleteTask, CompleteErrors, FailTask
  <2> QED
    BY <1>1, <1>3, <1>8, <2>1 DEF CompleteTask, CompleteErrors, FailTask, Faults
<1>9. ASSUME NEW i \in invs, QueryErrors(i)
      PROVE  UNCHANGED Durable!vars
  BY <1>1, <1>3, <1>9 DEF QueryErrors, Faults
<1>10. ASSUME NEW i \in invs, HandlerStep(i)
       PROVE  [Durable!Next]_(Durable!vars)
  <2>1. CASE CallProvider(i) \/ (Claim(i) /\ ledger = 0)
    BY <1>2, <2>1 DEF CallProvider, Claim, Durable!Next
  <2>2. CASE \/ ReadHistory(i) \/ Refuse(i) \/ BeginTool(i) \/ (Claim(i) /\ ledger # 0)
             \/ Succeeds(i) \/ Fence(i) \/ \E retryable \in BOOLEAN : Fails(i, retryable)
    BY <1>1, <2>2 DEF ReadHistory, Refuse, BeginTool, Claim, Succeeds, Fence, Fails
  <2>3. CASE Commit(i)
    BY <2>3, CommitIsDurable
  <2> QED
    BY <1>10, <2>1, <2>2, <2>3 DEF HandlerStep
<1>11. CASE UNCHANGED vars
  BY <1>1, <1>11 DEF vars
<1> QED
  BY <1>4, <1>5, <1>6, <1>7, <1>8, <1>9, <1>10, <1>11 DEF Next

\* The handlers, with their leases, locks, retries and crashes, implement DurableStep.
THEOREM StepsAreDurable == Spec => ImplementsDurableStep
<1>1. Init => Durable!Init
  BY DEF Init, Durable!Init, NewRow, Faults
<1>2. Init => Accounted /\ Traceable
  BY DEF Init, Accounted, Apart, EffectIsReported, Traceable
<1>3. IInv /\ Accounted /\ Traceable /\ [Next]_vars => (Accounted /\ Traceable)'
  BY NextAccounted, NextTraceable DEF IInv
<1>4. IInv /\ Accounted /\ Traceable /\ [Next]_vars => [Durable!Next]_(Durable!vars)
  BY NextDurable DEF IInv
<1> QED
  BY <1>1, <1>2, <1>3, <1>4, Inductive, PTL DEF Spec, ImplementsDurableStep, Durable!Spec
=============================================================================
