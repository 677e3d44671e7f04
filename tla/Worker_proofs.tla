---------------------------- MODULE Worker_proofs ----------------------------
(***************************************************************************)
(* Proofs about a worker process for any number of tasks, notifications,   *)
(* failed queries and lost leases, and any maxConcurrency.                 *)
(***************************************************************************)
EXTENDS Worker, FiniteSetTheorems, TLAPS

-----------------------------------------------------------------------------
(***************************************************************************)
(* The inductive invariant.                                                *)
(***************************************************************************)
Row == RowOf({Wf})

\* The worker is alone here: what is leased is leased by it.
Mine == \A t \in TaskIds : tasks[t].status = "leased" => tasks[t].owner = Self

\* A chain holds leases while a dequeue's answer is on its way, at most what it asked for.
Sound(c) ==
  /\ c.pc = "timer" => c.capacity = 0
  /\ c.got # {} => c.pc = "answered"
  /\ IsFiniteSet(c.got) /\ Cardinality(c.got) <= c.capacity
  /\ \A l, m \in c.got : l[1] = m[1] => l = m

\* A chain is known by its id, and there is one more than there were notifications.
ChainsApart ==
  /\ \A c, d \in chains : c.id = d.id => c = d
  /\ \A c \in chains : c.id \in 1..(spent.notifies + 1) /\ Sound(c)
  /\ pollTimer \in 1..(spent.notifies + 1)
  /\ IsFiniteSet(invs)

\* Until a lease is lost or stop() drains, a task that was not overtaken is in one place: on
\* its way to a chain, or with an invocation that has the entry of the map.  In both only
\* while the response of its fail() is awaited.
Exclusive ==
  /\ \A i, j \in invs : i.task = j.task /\ i.task \notin overtaken => i = j
  /\ \A i \in invs : i.task \notin overtaken =>
       /\ running[i.task] = i.attempt /\ i.attempt # 0
       /\ i.pc # "failed" => tasks[i.task].status # "pending"
  /\ \A t \in TaskIds \ overtaken : running[t] # 0 => \E i \in invs : i.task = t
  /\ \A c \in chains : \A l \in c.got : l[1] \notin overtaken =>
       /\ tasks[l[1]].status = "leased" /\ l[2] # 0
       /\ \A i \in invs : i.task = l[1] => i.pc = "failed"
       /\ \A d \in chains : \A m \in d.got : m[1] = l[1] => d = c

\* What stop() does not wait for came later, or was overtaken.
Awaiting ==
  /\ phase = "draining" =>
       \A i \in invs : i.late \/ i.task \in overtaken \/ <<i.task, i.attempt>> \in awaited
  /\ phase = "drained" => \A i \in invs : i.late \/ i.task \in overtaken

\* The room that chains have asked for, one slot a task.
Slots(cs, n) ==
  {s \in (1..n) \X (1..MaxConcurrency) : \E c \in cs : c.id = s[1] /\ s[2] <= c.capacity}

\* The invocations that the map counts.
Counted == {i \in invs : i.task \notin overtaken}

\* What runs and what may be leased has a slot in the pool of one of the chains.
Budget ==
  Cardinality(Counted) + Cardinality(Slots(chains, spent.notifies + 1))
    <= MaxConcurrency * (spent.notifies + 1)

Calm == spent.stalls = 0
Covered == phase \in {"up", "stopping"}

IInv ==
  /\ TypeOK /\ Mine /\ ChainsApart
  /\ Calm /\ Covered => Exclusive
  /\ Calm => Awaiting /\ Budget

-----------------------------------------------------------------------------
(***************************************************************************)
(* Type correctness.                                                       *)
(***************************************************************************)

\* The updates of queue.ts keep a row's columns in their domains.
LEMMA UpdatedRow ==
  ASSUME NEW row \in Row
  PROVE  /\ LeasedTo([row EXCEPT !.due = TRUE], Self) \in Row
         /\ Completed(row) \in Row /\ Failed(row) \in Row /\ Reclaimed(row) \in Row
<1> USE DEF Row, RowOf, Status
<1>1. [row EXCEPT !.due = TRUE] \in Row
  OBVIOUS
<1>2. ASSUME NEW r \in Row PROVE LeasedTo(r, Self) \in Row
  <2>1. r.attempt + 1 \in Nat
    OBVIOUS
  <2> QED
    BY <2>1, WorkerAssumption DEF LeasedTo
<1>3. Completed(row) \in Row /\ Reclaimed(row) \in Row
  BY DEF Completed, Reclaimed
<1>4. Failed(row) \in Row
  <2>1. (row.attempt >= row.max /\ row.due) \in BOOLEAN
    OBVIOUS
  <2> QED
    BY <2>1 DEF Failed
<1> QED
  BY <1>1, <1>2, <1>3, <1>4

\* A batch that dequeue leases.
LEMMA LeasedTable ==
  ASSUME tasks \in [TaskIds -> Row], NEW batch \in SUBSET TaskIds
  PROVE  /\ Leased(batch) \in [TaskIds -> Row]
         /\ \A t \in batch : /\ Leased(batch)[t].status = "leased"
                             /\ Leased(batch)[t].owner = Self
                             /\ Leased(batch)[t].attempt \in Nat \ {0}
         /\ \A t \in TaskIds \ batch : Leased(batch)[t] = tasks[t]
<1>1. \A t \in TaskIds : LeasedTo([tasks[t] EXCEPT !.due = TRUE], Self) \in Row
  BY UpdatedRow
<1>2. ASSUME NEW row \in Row
      PROVE  /\ LeasedTo([row EXCEPT !.due = TRUE], Self).status = "leased"
             /\ LeasedTo([row EXCEPT !.due = TRUE], Self).owner = Self
             /\ LeasedTo([row EXCEPT !.due = TRUE], Self).attempt \in Nat \ {0}
  BY DEF LeasedTo, Row, RowOf
<1> QED
  BY <1>1, <1>2 DEF Leased

LEMMA UsedIsFinite ==
  ASSUME TypeOK
  PROVE  /\ IsFiniteSet({t \in TaskIds : running[t] # 0})
         /\ Cardinality({t \in TaskIds : running[t] # 0}) \in Nat
         /\ Room \in Int /\ Room <= MaxConcurrency
<1>1. /\ IsFiniteSet({t \in TaskIds : running[t] # 0})
      /\ Cardinality({t \in TaskIds : running[t] # 0}) \in Nat
  BY WorkerAssumption, FS_Subset, FS_CardinalityType
<1> QED
  BY <1>1, WorkerAssumption DEF Room

LEMMA ScheduledTypeOK ==
  ASSUME TypeOK, NEW c \in chains, ScheduleNextPoll(c)
  PROVE  chains' \subseteq Chain /\ pollTimer' \in Nat
BY WorkerAssumption DEF TypeOK, ScheduleNextPoll, NextPoll, Chain

LEMMA SpendTypeOK ==
  ASSUME TypeOK, NEW kind \in Events, Spend(kind)
  PROVE  /\ spent' \in [Events -> Nat] /\ spent'[kind] = spent[kind] + 1
         /\ \A k \in Events \ {kind} : spent'[k] = spent[k]
<1>1. spent \in [Events -> Nat] /\ spent[kind] + 1 \in Nat
  BY DEF TypeOK
<1>2. spent' = [spent EXCEPT ![kind] = spent[kind] + 1]
  BY DEF Spend
<1> QED
  BY <1>1, <1>2

LEMMA InitTypeOK == Init => TypeOK
<1> SUFFICES ASSUME Init PROVE TypeOK
  OBVIOUS
<1>1. tasks \in [TaskIds -> RowOf({Wf})]
  BY WorkerAssumption DEF Init, NewRow, RowOf, Status, TaskType
<1>2. limits \in [Events -> Nat] /\ spent \in [Events -> Nat]
  BY WorkerAssumption DEF Init
<1>3. chains \subseteq Chain
  BY WorkerAssumption DEF Init, NextPoll, Chain
<1> QED
  BY <1>1, <1>2, <1>3 DEF Init, TypeOK, Phase

\* The polls keep the types.
LEMMA PollTypeOK ==
  ASSUME TypeOK, NEW c \in chains, PollStep(c) \/ DequeueErrors(c)
  PROVE  TypeOK'
<1>0. c \in Chain /\ c.got \subseteq TaskIds \X Nat /\ tasks \in [TaskIds -> Row]
  BY DEF TypeOK, Chain, Row
<1>1. CASE PollOnce(c)
  <2>1. CASE Stopped \/ Room <= 0
    BY <1>1, <2>1, ScheduledTypeOK DEF PollOnce, TypeOK
  <2>2. CASE ~(Stopped \/ Room <= 0)
    <3>1. Room \in 0..MaxConcurrency
      BY <2>2, UsedIsFinite, WorkerAssumption
    <3>2. [c EXCEPT !.pc = "asking", !.capacity = Room] \in Chain
      BY <1>0, <3>1 DEF Chain
    <3> QED
      BY <1>1, <2>2, <3>2 DEF PollOnce, TypeOK
  <2> QED
    BY <2>1, <2>2
<1>2. CASE DequeueRuns(c)
  <2>1. PICK batch \in Batches(c.capacity) :
          /\ tasks' = Leased(batch)
          /\ chains' = (chains \ {c}) \cup
               {[c EXCEPT !.pc = "answered", !.got = {<<t, tasks'[t].attempt>> : t \in batch}]}
    BY <1>2 DEF DequeueRuns
  <2>2. batch \subseteq TaskIds
    BY <2>1 DEF Batches
  <2>3. tasks' \in [TaskIds -> Row] /\ \A t \in batch : tasks'[t].attempt \in Nat
    BY <1>0, <2>1, <2>2, LeasedTable
  <2>4. {<<t, tasks'[t].attempt>> : t \in batch} \subseteq TaskIds \X Nat
    BY <2>2, <2>3
  <2>5. [c EXCEPT !.pc = "answered", !.got = {<<t, tasks'[t].attempt>> : t \in batch}] \in Chain
    <3>1. ASSUME NEW got \in SUBSET (TaskIds \X Nat)
          PROVE  [c EXCEPT !.pc = "answered", !.got = got] \in Chain
      BY <1>0 DEF Chain
    <3> QED
      BY <2>4, <3>1
  <2> QED
    BY <1>2, <2>1, <2>3, <2>5 DEF DequeueRuns, TypeOK, Row
<1>3. CASE DequeueReturns(c)
  <2>1. chains' \subseteq Chain /\ pollTimer' \in Nat
    BY <1>3, ScheduledTypeOK DEF DequeueReturns
  <2>2. invs' \subseteq Invocation
    <3>1. \A lease \in c.got : lease[1] \in TaskIds /\ lease[2] \in Nat
      BY <1>0
    <3>2. PICK late \in BOOLEAN : late = (phase \notin {"up", "stopping"})
      OBVIOUS
    <3>3. invs' = invs \cup {[task |-> lease[1], attempt |-> lease[2], pc |-> "running",
                             late |-> late] : lease \in c.got}
      BY <1>3, <3>2, Zenon DEF DequeueReturns
    <3> QED
      BY <3>1, <3>3 DEF TypeOK, Invocation
  <2>3. running' \in [TaskIds -> Nat]
    <3>1. ASSUME NEW t \in TaskIds, \E lease \in c.got : lease[1] = t
          PROVE  (CHOOSE lease \in c.got : lease[1] = t)[2] \in Nat
      <4>1. (CHOOSE lease \in c.got : lease[1] = t) \in c.got
        BY <3>1
      <4> QED
        BY <1>0, <4>1
    <3> QED
      BY <1>3, <3>1 DEF DequeueReturns, TypeOK
  <2>4. overtaken' \subseteq TaskIds
    BY <1>3 DEF DequeueReturns, TypeOK, Invocation
  <2> QED
    BY <1>3, <2>1, <2>2, <2>3, <2>4 DEF DequeueReturns, TypeOK
<1>4. CASE DequeueErrors(c)
  <2>1. spent' \in [Events -> Nat]
    BY <1>4, SpendTypeOK DEF DequeueErrors, Events
  <2> QED
    BY <1>4, <2>1, ScheduledTypeOK DEF DequeueErrors, TypeOK
<1> QED
  BY <1>1, <1>2, <1>3, <1>4 DEF PollStep

\* What an invocation, the environment and stop() do keeps the types.
LEMMA OtherTypeOK ==
  ASSUME TypeOK,
         \/ \E i \in invs : InvocationStep(i) \/ CompleteErrors(i) \/ FailRejects(i)
         \/ \E t \in TaskIds : Reclaim(t)
         \/ Notify \/ StopBegins \/ StopAwaits \/ StopEnds \/ Exit \/ SecondSignal
  PROVE  TypeOK'
<1>1. /\ tasks \in [TaskIds -> Row]
      /\ \A t \in TaskIds : /\ Completed(tasks[t]) \in Row /\ Failed(tasks[t]) \in Row
                            /\ Reclaimed(tasks[t]) \in Row
  BY UpdatedRow DEF TypeOK, Row
<1>2. /\ {"errors", "stalls", "lapses", "notifies"} \subseteq Events
      /\ \A kind \in Events : Spend(kind) => spent' \in [Events -> Nat]
  BY SpendTypeOK DEF Events
<1>3. Exits => /\ phase' \in Phase /\ invs' \subseteq Invocation /\ running' \in [TaskIds -> Nat]
               /\ chains' \subseteq Chain /\ awaited' \subseteq TaskIds \X Nat
  BY DEF Exits, Phase
<1>4. ASSUME NEW i \in invs
      PROVE  /\ i \in Invocation /\ i.task \in TaskIds /\ Finished(i) \in [TaskIds -> Nat]
             /\ \A pc \in {"returned", "threw", "completed", "failed"} :
                  [i EXCEPT !.pc = pc] \in Invocation
  BY DEF TypeOK, Invocation, Finished
<1>5. ASSUME NEW i \in invs, InvocationStep(i) PROVE TypeOK'
  <2>1. CASE HandlerSettles(i)
    BY <1>4, <2>1 DEF HandlerSettles, TypeOK
  <2>2. CASE CompleteRuns(i)
    <3>1. tasks' \in [TaskIds -> Row]
      BY <1>1, <1>4, <2>2 DEF CompleteRuns
    <3> QED
      BY <1>4, <2>2, <3>1 DEF CompleteRuns, TypeOK, Row
  <2>3. CASE FailRuns(i)
    <3>1. tasks' \in [TaskIds -> Row]
      BY <1>1, <1>4, <2>3 DEF FailRuns
    <3> QED
      BY <1>4, <2>3, <3>1 DEF FailRuns, TypeOK, Row
  <2>4. CASE DispatchEnds(i)
    BY <1>4, <2>4 DEF DispatchEnds, TypeOK
  <2> QED
    BY <1>5, <2>1, <2>2, <2>3, <2>4 DEF InvocationStep
<1>6. ASSUME NEW i \in invs, CompleteErrors(i) PROVE TypeOK'
  <2>1. spent' \in [Events -> Nat]
    BY <1>2, <1>6 DEF CompleteErrors
  <2> QED
    BY <1>4, <1>6, <2>1 DEF CompleteErrors, TypeOK
<1>7. ASSUME NEW i \in invs, FailRejects(i) PROVE TypeOK'
  <2>1. spent' \in [Events -> Nat]
    BY <1>2, <1>7 DEF FailRejects
  <2> QED
    BY <1>3, <1>7, <2>1 DEF FailRejects, TypeOK
<1>8. ASSUME NEW t \in TaskIds, Reclaim(t) PROVE TypeOK'
  <2>1. tasks' \in [TaskIds -> Row]
    BY <1>1, <1>8 DEF Reclaim
  <2>2. spent' \in [Events -> Nat]
    <3>1. Spend("stalls") \/ Spend("lapses")
      BY <1>8 DEF Reclaim
    <3> QED
      BY <1>2, <3>1 DEF TypeOK
  <2> QED
    BY <1>8, <2>1, <2>2 DEF Reclaim, TypeOK, Row
<1>9. CASE Notify
  <2>1. spent' \in [Events -> Nat] /\ spent'.notifies + 1 \in Nat
    <3>1. spent' \in [Events -> Nat]
      BY <1>2, <1>9 DEF Notify
    <3>2. spent'["notifies"] \in Nat
      BY <1>2, <3>1
    <3> QED
      BY <3>1, <3>2
  <2>2. NextPoll(spent'.notifies + 1) \in Chain
    BY <2>1, WorkerAssumption DEF NextPoll, Chain
  <2> QED
    BY <1>9, <2>1, <2>2 DEF Notify, TypeOK
<1>10. CASE StopBegins \/ StopEnds
  BY <1>10 DEF StopBegins, StopEnds, TypeOK, Phase
<1>11. CASE StopAwaits
  <2>1. awaited' \subseteq TaskIds \X Nat
    BY <1>11 DEF StopAwaits, TypeOK
  <2> QED
    BY <1>11, <2>1 DEF StopAwaits, TypeOK, Phase
<1>12. CASE Exit \/ SecondSignal
  BY <1>3, <1>12 DEF Exit, SecondSignal, TypeOK
<1> QED
  BY <1>5, <1>6, <1>7, <1>8, <1>9, <1>10, <1>11, <1>12

LEMMA NextTypeOK == TypeOK /\ [Next]_vars => TypeOK'
<1>1. TypeOK /\ UNCHANGED vars => TypeOK'
  BY DEF TypeOK, vars
<1> QED
  BY <1>1, PollTypeOK, OtherTypeOK, Zenon DEF Next

\* Every reachable state is well typed.
THEOREM TypeCorrect == Spec => []TypeOK
BY InitTypeOK, NextTypeOK, PTL DEF Spec

-----------------------------------------------------------------------------
(***************************************************************************)
(* The table and the chains.                                               *)
(***************************************************************************)

\* The updates other than dequeue's end a lease.
LEMMA LeaseEnds ==
  ASSUME NEW row \in Row
  PROVE  /\ Completed(row).status = "completed"
         /\ Failed(row).status \in {"dead", "pending"}
         /\ Reclaimed(row).status = "pending"
BY DEF Completed, Failed, Reclaimed, Row, RowOf

LEMMA MineKept == TypeOK /\ Mine /\ [Next]_vars => Mine'
<1> SUFFICES ASSUME TypeOK, Mine, [Next]_vars, NEW t \in TaskIds, tasks'[t].status = "leased"
             PROVE  tasks'[t].owner = Self
  BY DEF Mine
<1>1. tasks \in [TaskIds -> Row] /\ \A i \in invs : i.task \in TaskIds
  BY DEF TypeOK, Row, Invocation
<1>2. \A u \in TaskIds :
        /\ Completed(tasks[u]).status = "completed"
        /\ Failed(tasks[u]).status \in {"dead", "pending"}
        /\ Reclaimed(tasks[u]).status = "pending"
  BY <1>1, LeaseEnds
<1>3. CASE UNCHANGED tasks
  BY <1>3 DEF Mine
<1>4. ASSUME NEW c \in chains, DequeueRuns(c)
      PROVE  tasks'[t].owner = Self
  <2>1. PICK batch \in SUBSET TaskIds : tasks' = Leased(batch)
    BY <1>4 DEF DequeueRuns, Batches
  <2> QED
    BY <1>1, <2>1, LeasedTable DEF Mine
<1>5. ASSUME NEW i \in invs, CompleteRuns(i) \/ FailRuns(i)
      PROVE  tasks'[t].owner = Self
  <2>1. \/ UNCHANGED tasks
        \/ tasks' = [tasks EXCEPT ![i.task] = Completed(tasks[i.task])]
        \/ tasks' = [tasks EXCEPT ![i.task] = Failed(tasks[i.task])]
    BY <1>1, <1>5 DEF CompleteRuns, FailRuns
  <2> QED
    BY <1>1, <1>2, <1>3, <2>1 DEF Mine
<1>6. ASSUME NEW u \in TaskIds, Reclaim(u)
      PROVE  tasks'[t].owner = Self
  BY <1>1, <1>2, <1>6 DEF Reclaim, Mine
<1>7. \/ UNCHANGED tasks
      \/ \E c \in chains : DequeueRuns(c)
      \/ \E i \in invs : CompleteRuns(i) \/ FailRuns(i)
      \/ \E u \in TaskIds : Reclaim(u)
  BY DEF Next, vars, PollStep, InvocationStep, PollOnce, DequeueReturns, DequeueErrors,
         HandlerSettles, CompleteErrors, FailRejects, DispatchEnds, Notify, StopBegins, StopAwaits,
         StopEnds, Exit, SecondSignal
<1> QED
  BY <1>3, <1>4, <1>5, <1>6, <1>7

LEMMA NewPollIsSound == \A id : Sound(NextPoll(id)) /\ NextPoll(id).id = id
BY FS_EmptySet DEF Sound, NextPoll

\* A chain goes on, or ends.
LEMMA ChainMovesOn ==
  ASSUME ChainsApart, NEW c \in chains, NEW d, d.id = c.id, Sound(d),
         chains' \subseteq (chains \ {c}) \cup {d}, pollTimer' \in {pollTimer, c.id},
         spent'.notifies = spent.notifies, IsFiniteSet(invs')
  PROVE  ChainsApart'
BY DEF ChainsApart

LEMMA ScheduledApart ==
  ASSUME ChainsApart, NEW c \in chains, ScheduleNextPoll(c),
         spent'.notifies = spent.notifies, IsFiniteSet(invs')
  PROVE  ChainsApart'
<1>1. /\ chains' \subseteq (chains \ {c}) \cup {NextPoll(c.id)}
      /\ pollTimer' \in {pollTimer, c.id}
  BY DEF ScheduleNextPoll
<1> QED
  BY <1>1, NewPollIsSound, ChainMovesOn

\* What a chain got is as much as it leased.
LEMMA GotCounted ==
  ASSUME NEW batch, IsFiniteSet(batch), NEW table,
         NEW got, got = {<<t, table[t].attempt>> : t \in batch}
  PROVE  /\ IsFiniteSet(got) /\ Cardinality(got) <= Cardinality(batch)
         /\ \A l, m \in got : l[1] = m[1] => l = m
<1> DEFINE f == [t \in batch |-> <<t, table[t].attempt>>]
<1>1. f \in Surjection(batch, got)
  BY DEF Surjection
<1>2. \A l, m \in got : l[1] = m[1] => l = m
  OBVIOUS
<1> QED
  BY <1>1, <1>2, FS_Surjection

LEMMA OtherEvents ==
  ASSUME TypeOK, NEW kind \in {"errors", "stalls", "lapses"}, Spend(kind)
  PROVE  spent'.notifies = spent.notifies
BY SpendTypeOK DEF Events

\* No step mixes up the chains.
LEMMA ChainsApartKept == TypeOK /\ ChainsApart /\ [Next]_vars => ChainsApart'
<1> SUFFICES ASSUME TypeOK, ChainsApart, [Next]_vars
             PROVE  ChainsApart'
  OBVIOUS
<1>1. ASSUME NEW c \in chains, PollOnce(c) PROVE ChainsApart'
  <2>1. UNCHANGED <<invs, spent>> /\ IsFiniteSet(invs')
    BY <1>1 DEF PollOnce, ChainsApart
  <2>2. CASE Stopped \/ Room <= 0
    BY <1>1, <2>1, <2>2, ScheduledApart DEF PollOnce
  <2>3. CASE ~(Stopped \/ Room <= 0)
    <3> DEFINE d == [c EXCEPT !.pc = "asking", !.capacity = Room]
    <3>1. chains' = (chains \ {c}) \cup {d} /\ UNCHANGED pollTimer /\ c.pc = "timer"
      BY <1>1, <2>3 DEF PollOnce
    <3>2. c \in Chain /\ c.got = {}
      BY <3>1 DEF TypeOK, ChainsApart, Sound
    <3>3. d.id = c.id /\ d.pc = "asking" /\ d.got = {} /\ d.capacity = Room
      BY <3>2 DEF Chain
    <3>4. Room >= 0
      BY <2>3, UsedIsFinite
    <3> HIDE DEF d
    <3>5. Sound(d)
      BY <3>3, <3>4, FS_EmptySet DEF Sound
    <3> QED
      BY <2>1, <3>1, <3>3, <3>5, ChainMovesOn
  <2> QED
    BY <2>2, <2>3
<1>2. ASSUME NEW c \in chains, DequeueRuns(c) PROVE ChainsApart'
  <2>1. PICK batch \in Batches(c.capacity) :
          chains' = (chains \ {c}) \cup
            {[c EXCEPT !.pc = "answered", !.got = {<<t, tasks'[t].attempt>> : t \in batch}]}
    BY <1>2 DEF DequeueRuns
  <2>2. UNCHANGED <<invs, spent, pollTimer>> /\ IsFiniteSet(invs')
    BY <1>2 DEF DequeueRuns, ChainsApart
  <2>3. PICK got : got = {<<t, tasks'[t].attempt>> : t \in batch}
    OBVIOUS
  <2>4. c \in Chain /\ c.capacity \in Nat
    BY WorkerAssumption DEF TypeOK, Chain
  <2>5. IsFiniteSet(batch) /\ Cardinality(batch) <= c.capacity
    <3>1. /\ batch \subseteq TaskIds
          /\ Cardinality(batch) = c.capacity \/ Cardinality(batch) < c.capacity
      BY DEF Batches
    <3>2. IsFiniteSet(batch) /\ Cardinality(batch) \in Nat
      BY <3>1, WorkerAssumption, FS_Subset, FS_CardinalityType
    <3> QED
      BY <2>4, <3>1, <3>2
  <2>6. /\ IsFiniteSet(got) /\ Cardinality(got) <= Cardinality(batch)
        /\ \A l, m \in got : l[1] = m[1] => l = m
    BY <2>3, <2>5, GotCounted
  <2>7. Cardinality(got) <= c.capacity
    BY <2>4, <2>5, <2>6, FS_CardinalityType
  <2> DEFINE d == [c EXCEPT !.pc = "answered", !.got = got]
  <2>8. d.id = c.id /\ d.pc = "answered" /\ d.got = got /\ d.capacity = c.capacity
    BY <2>4 DEF Chain
  <2>9. chains' = (chains \ {c}) \cup {d}
    BY <2>1, <2>3
  <2> HIDE DEF d
  <2>10. Sound(d)
    BY <2>6, <2>7, <2>8 DEF Sound
  <2> QED
    BY <2>2, <2>8, <2>9, <2>10, ChainMovesOn
<1>3. ASSUME NEW c \in chains, DequeueReturns(c) PROVE ChainsApart'
  <2>1. ScheduleNextPoll(c) /\ UNCHANGED spent
    BY <1>3 DEF DequeueReturns
  <2>2. IsFiniteSet(invs')
    <3> DEFINE new == {[task |-> lease[1], attempt |-> lease[2], pc |-> "running",
                        late |-> phase \notin {"up", "stopping"}] : lease \in c.got}
               f == [lease \in c.got |->
                       [task |-> lease[1], attempt |-> lease[2], pc |-> "running",
                        late |-> phase \notin {"up", "stopping"}]]
    <3>1. invs' = invs \cup new
      BY <1>3 DEF DequeueReturns
    <3>2. f \in Surjection(c.got, new)
      BY Zenon DEF Surjection
    <3>3. IsFiniteSet(c.got) /\ IsFiniteSet(invs)
      BY DEF ChainsApart, Sound
    <3> QED
      BY <3>1, <3>2, <3>3, FS_Surjection, FS_Union
  <2> QED
    BY <2>1, <2>2, ScheduledApart
<1>4. ASSUME NEW c \in chains, DequeueErrors(c) PROVE ChainsApart'
  BY <1>4, OtherEvents, ScheduledApart DEF DequeueErrors, ChainsApart
<1>5. CASE Notify
  <2>1. PICK n \in Nat : n = spent.notifies
    BY DEF TypeOK, Events
  <2>2. spent'.notifies = n + 1
    BY <1>5, <2>1, SpendTypeOK DEF Notify, Events
  <2>3. chains' = chains \cup {NextPoll(n + 1 + 1)} /\ pollTimer' = n + 1 + 1 /\ UNCHANGED invs
    BY <1>5, <2>2 DEF Notify
  <2>4. n + 1 + 1 \in 1..(n + 1 + 1) /\ n + 1 + 1 \notin 1..(n + 1)
        /\ 1..(n + 1) \subseteq 1..(n + 1 + 1)
    OBVIOUS
  <2> QED
    BY <2>1, <2>2, <2>3, <2>4, NewPollIsSound DEF ChainsApart
<1>6. ASSUME UNCHANGED <<chains, pollTimer>>, spent'.notifies = spent.notifies, IsFiniteSet(invs')
      PROVE  ChainsApart'
  BY <1>6 DEF ChainsApart
<1>7. ASSUME NEW i \in invs, InvocationStep(i) \/ CompleteErrors(i)
      PROVE  ChainsApart'
  <2> USE DEF InvocationStep, HandlerSettles, CompleteRuns, FailRuns, DispatchEnds, CompleteErrors
  <2>1. \E j : invs' \subseteq invs \cup {j}
    BY <1>7
  <2>2. IsFiniteSet(invs')
    BY <2>1, FS_AddElement, FS_Subset DEF ChainsApart
  <2>3. UNCHANGED <<chains, pollTimer>> /\ spent'.notifies = spent.notifies
    BY <1>7, OtherEvents
  <2> QED
    BY <1>6, <2>2, <2>3
<1>8. ASSUME NEW t \in TaskIds, Reclaim(t) PROVE ChainsApart'
  BY <1>6, <1>8, OtherEvents DEF Reclaim, ChainsApart
<1>9. CASE StopBegins
  <2>1. chains' \subseteq chains /\ UNCHANGED <<invs, pollTimer, spent>>
    BY <1>9 DEF StopBegins
  <2> QED
    BY <2>1 DEF ChainsApart
<1>10. CASE Exit \/ SecondSignal \/ \E i \in invs : FailRejects(i)
  <2>1. chains' = {} /\ invs' = {} /\ UNCHANGED pollTimer /\ spent'.notifies = spent.notifies
    BY <1>10, OtherEvents DEF Exit, SecondSignal, FailRejects, Exits
  <2> QED
    BY <2>1, FS_EmptySet DEF ChainsApart
<1>11. CASE StopAwaits \/ StopEnds \/ UNCHANGED vars
  BY <1>6, <1>11 DEF StopAwaits, StopEnds, vars, ChainsApart
<1> QED
  BY <1>1, <1>2, <1>3, <1>4, <1>5, <1>7, <1>8, <1>9, <1>10, <1>11 DEF Next, PollStep

-----------------------------------------------------------------------------
(***************************************************************************)
(* One place for a task.                                                   *)
(***************************************************************************)

\* Steps that dispatch nothing, end nothing, and lease only what was pending.
LEMMA NothingHandedOver ==
  ASSUME TypeOK, Exclusive, UNCHANGED <<invs, running, overtaken>>,
         \A c \in chains' : c \in chains \/ c.got = {},
         \A t \in TaskIds : tasks[t].status = "pending" \/ tasks'[t].status = tasks[t].status,
         \A t \in TaskIds : tasks'[t].status = "pending" => tasks[t].status = "pending"
  PROVE  Exclusive'
<1>1. /\ \A i \in invs : i.task \in TaskIds
      /\ \A c \in chains : \A l \in c.got : l[1] \in TaskIds
  BY DEF TypeOK, Invocation, Chain
<1> QED
  BY <1>1 DEF Exclusive

\* What dequeue does with the rows of a batch.
LEMMA BatchRows ==
  ASSUME TypeOK, NEW limit, NEW batch \in Batches(limit)
  PROVE  /\ batch \subseteq TaskIds
         /\ \A t \in batch : /\ tasks[t].status = "pending"
                             /\ Leased(batch)[t].status = "leased"
                             /\ Leased(batch)[t].attempt # 0
         /\ \A t \in TaskIds \ batch : Leased(batch)[t] = tasks[t]
BY LeasedTable DEF Batches, TypeOK, Row

\* A chain gets tasks that nobody has.
LEMMA GotExclusive ==
  ASSUME TypeOK, Exclusive, ChainsApart, NEW c \in chains, DequeueRuns(c)
  PROVE  Exclusive'
<1>1. PICK batch \in Batches(c.capacity) :
        /\ tasks' = Leased(batch)
        /\ chains' = (chains \ {c}) \cup
             {[c EXCEPT !.pc = "answered", !.got = {<<t, tasks'[t].attempt>> : t \in batch}]}
  BY DEF DequeueRuns
<1>2. UNCHANGED <<invs, running, overtaken>> /\ c.got = {} /\ c \in Chain
  BY DEF DequeueRuns, ChainsApart, Sound, TypeOK
<1>3. /\ batch \subseteq TaskIds
      /\ \A t \in batch : /\ tasks[t].status = "pending"
                          /\ tasks'[t].status = "leased" /\ tasks'[t].attempt # 0
      /\ \A t \in TaskIds \ batch : tasks'[t] = tasks[t]
  <2>1. /\ batch \subseteq TaskIds
        /\ \A t \in batch : /\ tasks[t].status = "pending"
                            /\ Leased(batch)[t].status = "leased"
                            /\ Leased(batch)[t].attempt # 0
        /\ \A t \in TaskIds \ batch : Leased(batch)[t] = tasks[t]
    BY BatchRows
  <2> QED
    BY <1>1, <2>1
<1>4. PICK got : got = {<<t, tasks'[t].attempt>> : t \in batch}
  OBVIOUS
<1>5. \A l \in got : l[1] \in batch /\ l[2] = tasks'[l[1]].attempt
  BY <1>4
<1> DEFINE d == [c EXCEPT !.pc = "answered", !.got = got]
<1>6. d.got = got
  BY <1>2 DEF Chain
<1>7. chains' = (chains \ {c}) \cup {d}
  BY <1>1, <1>4
<1> HIDE DEF d
<1>8. /\ \A i \in invs : i.task \in TaskIds
      /\ \A e \in chains : \A l \in e.got : l[1] \in TaskIds
  BY DEF TypeOK, Invocation, Chain
<1>9. \A i \in invs : i.task \in batch \ overtaken => i.pc = "failed"
  BY <1>3 DEF Exclusive
<1>10. \A e \in chains : \A l \in e.got : l[1] \notin batch \ overtaken
  BY <1>3 DEF Exclusive
<1>11. /\ \A i, j \in invs' : i.task = j.task /\ i.task \notin overtaken' => i = j
       /\ \A i \in invs' : i.task \notin overtaken' =>
            /\ running'[i.task] = i.attempt /\ i.attempt # 0
            /\ i.pc # "failed" => tasks'[i.task].status # "pending"
       /\ \A t \in TaskIds \ overtaken' : running'[t] # 0 => \E i \in invs' : i.task = t
  BY <1>2, <1>3, <1>8, <1>9 DEF Exclusive
<1>12. ASSUME NEW e \in chains', NEW l \in e.got, l[1] \notin overtaken
       PROVE  /\ tasks'[l[1]].status = "leased" /\ l[2] # 0
              /\ \A i \in invs : i.task = l[1] => i.pc = "failed"
              /\ \A f \in chains' : \A m \in f.got : m[1] = l[1] => f = e
  <2>1. CASE e = d
    <3>1. l[1] \in batch \ overtaken /\ l[2] = tasks'[l[1]].attempt
      BY <1>5, <1>6, <1>12, <2>1
    <3>2. \A f \in chains' : \A m \in f.got : m[1] = l[1] => f = e
      BY <1>7, <1>10, <2>1, <3>1
    <3> QED
      BY <1>3, <1>9, <3>1, <3>2
  <2>2. CASE e # d
    <3>1. e \in chains /\ l[1] \in TaskIds \ batch
      BY <1>7, <1>8, <1>10, <1>12, <2>2
    <3>2. \A m \in d.got : m[1] # l[1]
      BY <1>5, <1>6, <3>1
    <3>3. tasks'[l[1]] = tasks[l[1]]
      BY <1>3, <3>1
    <3> QED
      BY <1>7, <1>12, <3>1, <3>2, <3>3 DEF Exclusive
  <2> QED
    BY <2>1, <2>2
<1> QED
  BY <1>2, <1>11, <1>12 DEF Exclusive

\* dispatch takes over what the chain got.
LEMMA DispatchedExclusive ==
  ASSUME TypeOK, Exclusive, ChainsApart, NEW c \in chains, DequeueReturns(c)
  PROVE  Exclusive'
<1>1. PICK late \in BOOLEAN : late = (phase \notin {"up", "stopping"})
  OBVIOUS
<1>2. invs' = invs \cup {[task |-> lease[1], attempt |-> lease[2], pc |-> "running",
                          late |-> late] : lease \in c.got}
  BY <1>1, Zenon DEF DequeueReturns
<1>3. /\ \A i \in invs : i.task \in TaskIds
      /\ \A e \in chains : \A l \in e.got : l[1] \in TaskIds
      /\ \A l, m \in c.got : l[1] = m[1] => l = m
  BY DEF TypeOK, Invocation, Chain, ChainsApart, Sound
<1>4. /\ \A l \in c.got : running'[l[1]] = l[2]
      /\ \A t \in TaskIds : (\A l \in c.got : l[1] # t) => running'[t] = running[t]
  <2>1. ASSUME NEW l \in c.got PROVE running'[l[1]] = l[2]
    <3>1. (CHOOSE m \in c.got : m[1] = l[1]) = l
      BY <1>3
    <3> QED
      BY <1>3, <3>1 DEF DequeueReturns
  <2> QED
    BY <2>1 DEF DequeueReturns
<1>5. /\ \A e \in chains' : (e \in chains /\ e # c) \/ e.got = {}
      /\ UNCHANGED tasks
  BY DEF DequeueReturns, ScheduleNextPoll, NextPoll
<1>6. /\ overtaken \subseteq overtaken'
      /\ \A i \in invs : \A l \in c.got : i.pc = "failed" /\ l[1] = i.task => i.task \in overtaken'
  BY DEF DequeueReturns
<1>7. \A l \in c.got : l[1] \notin overtaken' =>
        /\ tasks[l[1]].status = "leased" /\ l[2] # 0
        /\ \A i \in invs : i.task # l[1]
        /\ \A e \in chains : \A m \in e.got : m[1] = l[1] => e = c
  BY <1>6 DEF Exclusive
<1>8. \A i \in invs' : i \in invs \/ \E l \in c.got : i.task = l[1] /\ i.attempt = l[2]
  BY <1>2
<1>9. \A i, j \in invs' : i.task = j.task /\ i.task \notin overtaken' => i = j
  BY <1>2, <1>3, <1>6, <1>7 DEF Exclusive
<1>10. ASSUME NEW i \in invs', i.task \notin overtaken'
       PROVE  /\ running'[i.task] = i.attempt /\ i.attempt # 0
              /\ i.pc # "failed" => tasks'[i.task].status # "pending"
  <2>1. CASE i \in invs
    <3>1. \A l \in c.got : l[1] # i.task
      BY <1>7, <1>10, <2>1
    <3> QED
      BY <1>3, <1>4, <1>5, <1>6, <1>10, <2>1, <3>1 DEF Exclusive
  <2>2. CASE i \notin invs
    BY <1>4, <1>5, <1>7, <1>8, <1>10, <2>2
  <2> QED
    BY <2>1, <2>2
<1>11. \A t \in TaskIds \ overtaken' : running'[t] # 0 => \E i \in invs' : i.task = t
  <2>1. ASSUME NEW l \in c.got PROVE \E i \in invs' : i.task = l[1]
    <3>1. [task |-> l[1], attempt |-> l[2], pc |-> "running", late |-> late] \in invs'
      BY <1>2
    <3> QED
      BY <3>1
  <2> QED
    BY <1>2, <1>4, <1>6, <2>1 DEF Exclusive
<1>12. ASSUME NEW e \in chains', NEW l \in e.got, l[1] \notin overtaken'
       PROVE  /\ tasks'[l[1]].status = "leased" /\ l[2] # 0
              /\ \A i \in invs' : i.task = l[1] => i.pc = "failed"
              /\ \A f \in chains' : \A m \in f.got : m[1] = l[1] => f = e
  <2>1. e \in chains /\ e # c /\ l[1] \notin overtaken
    BY <1>5, <1>6, <1>12
  <2>2. \A m \in c.got : m[1] # l[1]
    BY <1>7, <1>12, <2>1
  <2>3. \A i \in invs' : i.task = l[1] => i \in invs
    BY <1>8, <2>2
  <2> QED
    BY <1>5, <2>1, <2>3 DEF Exclusive
<1> QED
  BY <1>9, <1>10, <1>11, <1>12 DEF Exclusive

\* An invocation ends, and the entry of the map with it.
LEMMA EndedExclusive ==
  ASSUME TypeOK, Exclusive, NEW i \in invs, DispatchEnds(i)
  PROVE  Exclusive'
<1>1. /\ \A j \in invs : j.task \in TaskIds
      /\ \A e \in chains : \A l \in e.got : l[1] \in TaskIds
  BY DEF TypeOK, Invocation, Chain
<1>2. /\ running'[i.task] = 0
      /\ \A t \in TaskIds \ {i.task} : running'[t] = running[t]
  BY <1>1 DEF DispatchEnds, Finished, TypeOK
<1>3. invs' = invs \ {i} /\ UNCHANGED <<tasks, chains, overtaken>>
  BY DEF DispatchEnds
<1>4. i.task \notin overtaken => \A j \in invs' : j.task # i.task
  BY <1>3 DEF Exclusive
<1> QED
  BY <1>1, <1>2, <1>3, <1>4 DEF Exclusive

\* An invocation goes on that had not given its task back: the row falls due only with the
\* commit of fail().
LEMMA WentOnExclusive ==
  ASSUME TypeOK, Exclusive, NEW i \in invs, NEW j, j.task = i.task, j.attempt = i.attempt,
         i.pc # "failed", invs' = (invs \ {i}) \cup {j}, UNCHANGED <<running, chains, overtaken>>,
         j.pc # "failed" /\ i.task \notin overtaken => tasks'[i.task].status # "pending",
         \A t \in TaskIds \ {i.task} : tasks'[t] = tasks[t]
  PROVE  Exclusive'
<1>1. /\ \A k \in invs : k.task \in TaskIds
      /\ \A e \in chains : \A l \in e.got : l[1] \in TaskIds
  BY DEF TypeOK, Invocation, Chain
<1>2. i.task \notin overtaken =>
        /\ \A e \in chains : \A l \in e.got : l[1] # i.task
        /\ \A k \in invs' : k.task = i.task => k = j
  BY DEF Exclusive
<1>3. \A k \in invs' : k.task \notin overtaken /\ k.task # i.task => k \in invs
  OBVIOUS
<1>4. \A h \in invs : \E k \in invs' : h.task = k.task
  OBVIOUS
<1>5. \A k, h \in invs' : k.task = h.task /\ k.task \notin overtaken => k = h
  BY <1>2, <1>3 DEF Exclusive
<1>6. ASSUME NEW k \in invs', k.task \notin overtaken
      PROVE  /\ running'[k.task] = k.attempt /\ k.attempt # 0
             /\ k.pc # "failed" => tasks'[k.task].status # "pending"
  <2>1. CASE k.task = i.task
    BY <1>2, <1>6, <2>1 DEF Exclusive
  <2>2. CASE k.task # i.task
    BY <1>1, <1>3, <1>6, <2>2 DEF Exclusive
  <2> QED
    BY <2>1, <2>2
<1>7. \A t \in TaskIds \ overtaken : running'[t] # 0 => \E k \in invs' : k.task = t
  BY <1>4 DEF Exclusive
<1>8. ASSUME NEW e \in chains', NEW l \in e.got, l[1] \notin overtaken
      PROVE  /\ tasks'[l[1]].status = "leased" /\ l[2] # 0
             /\ \A k \in invs' : k.task = l[1] => k.pc = "failed"
             /\ \A d \in chains' : \A m \in d.got : m[1] = l[1] => d = e
  <2>1. l[1] # i.task /\ l[1] \in TaskIds
    BY <1>1, <1>2, <1>8
  <2> QED
    BY <1>3, <1>8, <2>1 DEF Exclusive
<1> QED
  BY <1>5, <1>6, <1>7, <1>8 DEF Exclusive

\* What a lost lease may belong to, while heartbeats are sent.
LEMMA ReclaimedExclusive ==
  ASSUME TypeOK, Mine, Covered, Exclusive, NEW t \in TaskIds, Reclaim(t), ~Heartbeated(t)
  PROVE  Exclusive'
<1>1. /\ \A i \in invs : i.task \in TaskIds
      /\ \A e \in chains : \A l \in e.got : l[1] \in TaskIds
      /\ tasks \in [TaskIds -> Row]
  BY DEF TypeOK, Invocation, Chain, Row
<1>2. tasks[t].status = "leased" /\ tasks[t].owner = Self
  BY DEF Reclaim, Mine
<1>3. running[t] = 0 /\ \A e \in chains : \A l \in e.got : l[1] # t
  BY <1>2 DEF Heartbeated, Covered, OwnedBy
<1>4. \A i \in invs : i.task = t => t \in overtaken
  BY <1>3 DEF Exclusive
<1>5. \A u \in TaskIds \ {t} : tasks'[u] = tasks[u]
  BY <1>1 DEF Reclaim
<1>6. UNCHANGED <<invs, running, chains, overtaken>>
  BY DEF Reclaim
<1> QED
  BY <1>1, <1>3, <1>4, <1>5, <1>6 DEF Exclusive

\* Stalls are counted for good.
LEMMA StallsGrow ==
  ASSUME TypeOK, [Next]_vars, Calm'
  PROVE  Calm /\ \A t \in TaskIds : Reclaim(t) => ~Heartbeated(t)
<1>1. \A kind \in Events : spent[kind] \in Nat
  BY DEF TypeOK
<1>2. \A kind \in Events :
        Spend(kind) => /\ spent'[kind] = spent[kind] + 1
                       /\ \A k \in Events \ {kind} : spent'[k] = spent[k]
  BY SpendTypeOK
<1>3. ~Spend("stalls")
  BY <1>1, <1>2 DEF Calm, Events
<1>4. \/ UNCHANGED spent \/ Spend("errors") \/ Spend("notifies") \/ Spend("stalls")
      \/ Spend("lapses")
  BY DEF Next, vars, PollStep, InvocationStep, PollOnce, DequeueRuns, DequeueReturns,
         DequeueErrors, HandlerSettles, CompleteRuns, CompleteErrors, FailRuns, FailRejects,
         DispatchEnds, Reclaim, Notify, StopBegins, StopAwaits, StopEnds, Exit, SecondSignal
<1> QED
  BY <1>2, <1>3, <1>4 DEF Calm, Events, Reclaim

\* Unless a lease is lost, a leased task stays in one place until stop() drains.
LEMMA ExclusiveKept ==
  ASSUME TypeOK, Mine, ChainsApart, Calm /\ Covered => Exclusive, [Next]_vars, Calm', Covered'
  PROVE  Exclusive'
<1>1. Calm /\ \A t \in TaskIds : Reclaim(t) => ~Heartbeated(t)
  BY StallsGrow
<1>2. Covered
  BY DEF Covered, Next, vars, PollStep, InvocationStep, PollOnce, DequeueRuns, DequeueReturns,
         DequeueErrors, HandlerSettles, CompleteRuns, CompleteErrors, FailRuns, FailRejects,
         DispatchEnds, Exits, Reclaim, Notify, StopBegins, StopAwaits, StopEnds, Exit, SecondSignal
<1>3. Exclusive
  BY <1>1, <1>2
<1>4. /\ \A i \in invs : i \in Invocation /\ i.task \in TaskIds
      /\ tasks \in [TaskIds -> Row]
  BY DEF TypeOK, Invocation, Row
<1>5. \A id : NextPoll(id).got = {}
  BY DEF NextPoll
<1>6. ASSUME NEW c \in chains, PollOnce(c) PROVE Exclusive'
  <2>1. c \in Chain /\ c.got = {}
    BY <1>6 DEF PollOnce, TypeOK, ChainsApart, Sound
  <2>2. [c EXCEPT !.pc = "asking", !.capacity = Room].got = {}
    BY <2>1 DEF Chain
  <2>3. /\ \A d \in chains' : d \in chains \/ d.got = {}
        /\ UNCHANGED <<tasks, invs, running, overtaken>>
    BY <1>5, <1>6, <2>2 DEF PollOnce, ScheduleNextPoll
  <2> QED
    BY <1>3, <2>3, NothingHandedOver
<1>7. ASSUME NEW c \in chains, DequeueErrors(c) PROVE Exclusive'
  <2>1. /\ \A d \in chains' : d \in chains \/ d.got = {}
        /\ UNCHANGED <<tasks, invs, running, overtaken>>
    BY <1>5, <1>7 DEF DequeueErrors, ScheduleNextPoll
  <2> QED
    BY <1>3, <2>1, NothingHandedOver
<1>8. ASSUME NEW i \in invs, i.pc # "failed",
             NEW pc, invs' = (invs \ {i}) \cup {[i EXCEPT !.pc = pc]},
             UNCHANGED <<running, chains, overtaken>>,
             pc # "failed" /\ i.task \notin overtaken => tasks'[i.task].status # "pending",
             \A t \in TaskIds \ {i.task} : tasks'[t] = tasks[t]
      PROVE  Exclusive'
  <2>1. PICK j : j = [i EXCEPT !.pc = pc]
    OBVIOUS
  <2>2. j.task = i.task /\ j.attempt = i.attempt /\ j.pc = pc
    BY <1>4, <2>1 DEF Invocation
  <2> QED
    BY <1>3, <1>8, <2>1, <2>2, WentOnExclusive
<1>9. ASSUME NEW i \in invs, HandlerSettles(i) \/ CompleteErrors(i) PROVE Exclusive'
  <2>1. /\ i.pc # "failed" /\ UNCHANGED <<tasks, running, chains, overtaken>>
        /\ \E pc \in {"returned", "threw"} : invs' = (invs \ {i}) \cup {[i EXCEPT !.pc = pc]}
    BY <1>9 DEF HandlerSettles, CompleteErrors
  <2>2. i.task \notin overtaken => tasks'[i.task].status # "pending"
    BY <1>3, <2>1 DEF Exclusive
  <2> QED
    BY <1>8, <2>1, <2>2
<1>10. ASSUME NEW i \in invs, CompleteRuns(i) PROVE Exclusive'
  <2>1. /\ i.pc = "returned" /\ UNCHANGED <<running, chains, overtaken>>
        /\ invs' = (invs \ {i}) \cup {[i EXCEPT !.pc = "completed"]}
    BY <1>10 DEF CompleteRuns
  <2>2. \/ UNCHANGED tasks
        \/ tasks' = [tasks EXCEPT ![i.task] = Completed(tasks[i.task])]
    BY <1>4, <1>10 DEF CompleteRuns
  <2>3. /\ i.task \notin overtaken => tasks'[i.task].status # "pending"
        /\ \A t \in TaskIds \ {i.task} : tasks'[t] = tasks[t]
    BY <1>3, <1>4, <2>1, <2>2, LeaseEnds DEF Exclusive
  <2> QED
    BY <1>8, <2>1, <2>3
<1>11. ASSUME NEW i \in invs, FailRuns(i) PROVE Exclusive'
  <2>1. /\ i.pc = "threw" /\ UNCHANGED <<running, chains, overtaken>>
        /\ invs' = (invs \ {i}) \cup {[i EXCEPT !.pc = "failed"]}
    BY <1>11 DEF FailRuns
  <2>2. \A t \in TaskIds \ {i.task} : tasks'[t] = tasks[t]
    BY <1>4, <1>11 DEF FailRuns
  <2> QED
    BY <1>8, <2>1, <2>2
<1>12. CASE Notify \/ StopBegins
  <2>1. /\ \A d \in chains' : d \in chains \/ d.got = {}
        /\ UNCHANGED <<tasks, invs, running, overtaken>>
    BY <1>5, <1>12 DEF Notify, StopBegins
  <2> QED
    BY <1>3, <2>1, NothingHandedOver
<1>13. CASE UNCHANGED vars
  BY <1>3, <1>13 DEF vars, Exclusive
<1>14. ~(StopAwaits \/ StopEnds \/ Exit \/ SecondSignal \/ \E i \in invs : FailRejects(i))
  BY DEF StopAwaits, StopEnds, Exit, SecondSignal, FailRejects, Exits, Covered
<1>15. /\ \A c \in chains : DequeueRuns(c) \/ DequeueReturns(c) => Exclusive'
       /\ \A i \in invs : DispatchEnds(i) => Exclusive'
       /\ \A t \in TaskIds : Reclaim(t) => Exclusive'
  BY <1>1, <1>2, <1>3, GotExclusive, DispatchedExclusive, EndedExclusive, ReclaimedExclusive
<1> QED
  BY <1>6, <1>7, <1>9, <1>10, <1>11, <1>12, <1>13, <1>14, <1>15 DEF Next, PollStep, InvocationStep

-----------------------------------------------------------------------------
(***************************************************************************)
(* The drain.                                                              *)
(***************************************************************************)

\* While stop() drains, what is left of the invocations stays, and what comes is late.
LEMMA AwaitingStays ==
  ASSUME Awaiting, UNCHANGED <<phase, awaited>>, overtaken \subseteq overtaken',
         \A j \in invs' : \/ phase \in {"draining", "drained"} => j.late
                          \/ \E i \in invs : /\ i.task = j.task /\ i.attempt = j.attempt
                                             /\ i.late = j.late
  PROVE  Awaiting'
BY DEF Awaiting

LEMMA AwaitingKept ==
  ASSUME TypeOK, Calm /\ Covered => Exclusive, Calm => Awaiting, [Next]_vars, Calm'
  PROVE  Awaiting'
<1>1. Calm /\ Awaiting
  BY StallsGrow
<1>2. /\ \A i \in invs : i \in Invocation
      /\ \A c \in chains : \A l \in c.got : l[1] \in TaskIds
  BY DEF TypeOK, Chain
<1>3. ASSUME invs' \subseteq invs, UNCHANGED <<phase, awaited, overtaken>> PROVE Awaiting'
  BY <1>1, <1>3, AwaitingStays
<1>4. ASSUME NEW c \in chains, DequeueReturns(c) PROVE Awaiting'
  <2>1. PICK late \in BOOLEAN : late = (phase \notin {"up", "stopping"})
    OBVIOUS
  <2>2. invs' = invs \cup {[task |-> lease[1], attempt |-> lease[2], pc |-> "running",
                            late |-> late] : lease \in c.got}
    BY <1>4, <2>1, Zenon DEF DequeueReturns
  <2>3. \A j \in invs' : j \in invs \/ (phase \in {"draining", "drained"} => j.late)
    <3>1. \A j \in invs' : j \in invs \/ j.late = late
      BY <2>2
    <3> QED
      BY <2>1, <3>1
  <2>4. UNCHANGED <<phase, awaited>> /\ overtaken \subseteq overtaken'
    BY <1>4 DEF DequeueReturns
  <2> QED
    BY <1>1, <2>3, <2>4, AwaitingStays
<1>5. ASSUME NEW i \in invs,
             HandlerSettles(i) \/ CompleteErrors(i) \/ CompleteRuns(i) \/ FailRuns(i)
      PROVE  Awaiting'
  <2> USE DEF HandlerSettles, CompleteErrors, CompleteRuns, FailRuns
  <2>1. PICK pc : invs' = (invs \ {i}) \cup {[i EXCEPT !.pc = pc]}
    BY <1>5
  <2>2. PICK j : j = [i EXCEPT !.pc = pc]
    OBVIOUS
  <2>3. j.task = i.task /\ j.attempt = i.attempt /\ j.late = i.late
    BY <1>2, <2>2 DEF Invocation
  <2>4. UNCHANGED <<phase, awaited, overtaken>> /\ invs' \subseteq invs \cup {j}
    BY <1>5, <2>1, <2>2
  <2> QED
    BY <1>1, <2>3, <2>4, AwaitingStays
<1>6. CASE StopAwaits
  <2>1. phase = "stopping" /\ phase' = "draining" /\ UNCHANGED <<invs, overtaken>>
        /\ awaited' = {<<t, running[t]>> : t \in {u \in TaskIds : running[u] # 0}}
    BY <1>6 DEF StopAwaits
  <2>2. \A i \in invs : i.task \in TaskIds /\ (i.task \notin overtaken =>
                                                  running[i.task] = i.attempt /\ i.attempt # 0)
    BY <1>1, <1>2, <2>1 DEF Covered, Exclusive, Invocation
  <2> QED
    BY <2>1, <2>2 DEF Awaiting
<1>7. CASE StopEnds
  <2>1. /\ phase = "draining" /\ UNCHANGED <<invs, awaited, overtaken>>
        /\ (phase' = "drained" /\ Pending = {}) \/ phase' = "timed out"
    BY <1>7 DEF StopEnds
  <2> QED
    BY <1>1, <2>1 DEF Awaiting, Pending
<1>8. CASE StopBegins \/ Exit \/ SecondSignal \/ \E i \in invs : FailRejects(i)
  BY <1>8 DEF StopBegins, Exit, SecondSignal, FailRejects, Exits, Awaiting
<1>9. \/ invs' \subseteq invs /\ UNCHANGED <<phase, awaited, overtaken>>
      \/ \E c \in chains : DequeueReturns(c)
      \/ \E i \in invs : \/ HandlerSettles(i) \/ CompleteErrors(i) \/ CompleteRuns(i)
                         \/ FailRuns(i) \/ FailRejects(i)
      \/ StopBegins \/ StopAwaits \/ StopEnds \/ Exit \/ SecondSignal
  BY DEF Next, vars, PollStep, InvocationStep, PollOnce, DequeueRuns, DequeueErrors, DispatchEnds,
         Reclaim, Notify
<1> QED
  BY <1>3, <1>4, <1>5, <1>6, <1>7, <1>8, <1>9

-----------------------------------------------------------------------------
(***************************************************************************)
(* The pool.                                                               *)
(***************************************************************************)

\* Every chain has the pool at most.
LEMMA SlotsAreFinite ==
  ASSUME NEW cs, NEW n \in Nat
  PROVE  IsFiniteSet(Slots(cs, n)) /\ Cardinality(Slots(cs, n)) \in Nat
<1>1. IsFiniteSet(1..n) /\ IsFiniteSet(1..MaxConcurrency)
  BY FS_Interval, WorkerAssumption
<1>2. IsFiniteSet((1..n) \X (1..MaxConcurrency))
  BY <1>1, FS_Product
<1> QED
  BY <1>2, FS_Subset, FS_CardinalityType DEF Slots

LEMMA FewerSlots ==
  ASSUME NEW n \in Nat, NEW cs, NEW ds, Slots(ds, n) \subseteq Slots(cs, n)
  PROVE  Cardinality(Slots(ds, n)) <= Cardinality(Slots(cs, n))
BY SlotsAreFinite, FS_Subset

\* A chain's own slots, and those of the others.
LEMMA SlotsOfOne ==
  ASSUME NEW n \in Nat, NEW id \in 1..n, NEW k \in 0..MaxConcurrency
  PROVE  /\ IsFiniteSet({id} \X (1..k)) /\ Cardinality({id} \X (1..k)) = k
         /\ IsFiniteSet(((1..n) \ {id}) \X (1..MaxConcurrency))
         /\ Cardinality(((1..n) \ {id}) \X (1..MaxConcurrency)) = (n - 1) * MaxConcurrency
<1>1. IsFiniteSet(1..k) /\ Cardinality(1..k) = k /\ k \in Nat
  BY FS_Interval, WorkerAssumption
<1>2. IsFiniteSet({id}) /\ Cardinality({id}) = 1
  BY FS_Singleton
<1>3. IsFiniteSet({id} \X (1..k)) /\ Cardinality({id} \X (1..k)) = 1 * k
  BY <1>1, <1>2, FS_Product
<1>4. IsFiniteSet(1..n) /\ Cardinality(1..n) = n
  BY FS_Interval
<1>5. IsFiniteSet((1..n) \ {id}) /\ Cardinality((1..n) \ {id}) = n - 1
  BY <1>4, FS_RemoveElement
<1>6. IsFiniteSet(1..MaxConcurrency) /\ Cardinality(1..MaxConcurrency) = MaxConcurrency
  BY FS_Interval, WorkerAssumption
<1>7. /\ IsFiniteSet(((1..n) \ {id}) \X (1..MaxConcurrency))
      /\ Cardinality(((1..n) \ {id}) \X (1..MaxConcurrency)) = (n - 1) * MaxConcurrency
  BY <1>5, <1>6, FS_Product
<1> QED
  BY <1>1, <1>3, <1>7

LEMMA CountedIsFinite ==
  ASSUME ChainsApart
  PROVE  IsFiniteSet(Counted) /\ Cardinality(Counted) \in Nat
BY FS_Subset, FS_CardinalityType DEF Counted, ChainsApart

\* An exclusive invocation has its entry in the map.
LEMMA InvocationsUse ==
  ASSUME TypeOK, Exclusive
  PROVE  Cardinality(Counted) <= MaxConcurrency - Room
<1> DEFINE used == {t \in TaskIds : running[t] # 0}
           f == [i \in Counted |-> i.task]
<1>1. IsFiniteSet(used) /\ Cardinality(used) \in Nat /\ Room = MaxConcurrency - Cardinality(used)
  BY UsedIsFinite DEF Room
<1>2. f \in Injection(Counted, used)
  <2>1. \A i \in Counted : i.task \in used
    BY DEF TypeOK, Invocation, Exclusive, Counted
  <2>2. \A i, j \in Counted : i.task = j.task => i = j
    BY DEF Exclusive, Counted
  <2> QED
    BY <2>1, <2>2 DEF Injection, IsInjective
<1>3. Cardinality(Counted) <= Cardinality(used)
  BY <1>1, <1>2, FS_Injection
<1>4. IsFiniteSet(Counted) /\ Cardinality(Counted) \in Nat
  BY <1>1, <1>2, FS_Injection, FS_CardinalityType
<1> HIDE DEF used, f
<1> QED
  BY <1>1, <1>3, <1>4, WorkerAssumption

\* A poll asks for what nobody uses: with what runs, and the pools of the other chains, it
\* stays within theirs.
LEMMA AskedBudget ==
  ASSUME TypeOK, ChainsApart, Exclusive, NEW c \in chains, NEW d, d.id = c.id,
         d.capacity = Room, Room > 0,
         chains' = (chains \ {c}) \cup {d}, UNCHANGED <<invs, overtaken, spent>>
  PROVE  Budget'
<1>1. PICK n \in Nat : n = spent.notifies + 1
  BY DEF TypeOK, Events
<1>2. PICK k \in 0..MaxConcurrency : k = Room
  BY UsedIsFinite, WorkerAssumption
<1>3. PICK id \in 1..n : id = c.id
  BY <1>1 DEF ChainsApart
<1> DEFINE own == {id} \X (1..k)
           other == ((1..n) \ {id}) \X (1..MaxConcurrency)
<1>4. /\ IsFiniteSet(own) /\ Cardinality(own) = k
      /\ IsFiniteSet(other) /\ Cardinality(other) = (n - 1) * MaxConcurrency
  BY SlotsOfOne
<1>5. Slots(chains', n) \subseteq own \cup other
  <2> SUFFICES ASSUME NEW s \in Slots(chains', n), s \notin other PROVE s \in own
    OBVIOUS
  <2>1. PICK a \in 1..n, b \in 1..MaxConcurrency : s = <<a, b>>
    BY DEF Slots
  <2>2. PICK e \in chains' : e.id = a /\ b <= e.capacity
    BY <2>1 DEF Slots
  <2>3. a = id
    BY <2>1
  <2>4. e = d
    BY <1>3, <2>2, <2>3 DEF ChainsApart
  <2>5. b \in 1..k
    BY <1>2, <2>2, <2>4
  <2> QED
    BY <2>1, <2>3, <2>5
<1> HIDE DEF own, other
<1>6. /\ IsFiniteSet(own \cup other) /\ Cardinality(own \cap other) \in Nat
      /\ Cardinality(own \cup other) =
           Cardinality(own) + Cardinality(other) - Cardinality(own \cap other)
  BY <1>4, FS_Union, FS_Intersection, FS_CardinalityType
<1>7. Cardinality(Slots(chains', n)) <= Cardinality(own \cup other)
  BY <1>5, <1>6, FS_Subset
<1>8. PICK slots \in Nat : slots = Cardinality(Slots(chains', n))
  BY SlotsAreFinite
<1>9. PICK product \in Int : /\ product = (n - 1) * MaxConcurrency
                             /\ MaxConcurrency * n = product + MaxConcurrency
  BY WorkerAssumption
<1>10. slots <= k + product
  BY <1>4, <1>6, <1>7, <1>8, <1>9
<1>11. Cardinality(Counted) \in Nat /\ Cardinality(Counted) <= MaxConcurrency - k
  BY <1>2, InvocationsUse, CountedIsFinite
<1>12. Cardinality(Counted) + slots <= MaxConcurrency * n
  BY <1>9, <1>10, <1>11, WorkerAssumption
<1>13. Counted' = Counted
  BY DEF Counted
<1> QED
  BY <1>1, <1>8, <1>12, <1>13 DEF Budget

\* What was leased takes its place in the pool from the chain that had asked for it.
LEMMA DispatchedBudget ==
  ASSUME TypeOK, ChainsApart, Budget, NEW c \in chains, DequeueReturns(c)
  PROVE  Budget'
<1>1. PICK n \in Nat : n = spent.notifies + 1
  BY DEF TypeOK, Events
<1>2. c \in Chain /\ c.id \in 1..n /\ UNCHANGED spent
  BY <1>1 DEF ChainsApart, TypeOK, DequeueReturns
<1>3. PICK k \in 0..MaxConcurrency : k = c.capacity
  BY <1>2 DEF Chain
<1>4. PICK id \in 1..n : id = c.id
  BY <1>2
<1> DEFINE own == {id} \X (1..k)
           new == {[task |-> lease[1], attempt |-> lease[2], pc |-> "running",
                    late |-> phase \notin {"up", "stopping"}] : lease \in c.got}
           f == [lease \in c.got |->
                   [task |-> lease[1], attempt |-> lease[2], pc |-> "running",
                    late |-> phase \notin {"up", "stopping"}]]
<1>5. IsFiniteSet(own) /\ Cardinality(own) = k
  BY SlotsOfOne
<1>6. own \subseteq Slots(chains, n)
  <2> SUFFICES ASSUME NEW b \in 1..k PROVE <<id, b>> \in Slots(chains, n)
    OBVIOUS
  <2>1. b \in 1..MaxConcurrency /\ b <= c.capacity
    BY <1>3, WorkerAssumption
  <2> QED
    BY <1>4, <2>1 DEF Slots
<1>7. Slots(chains', n) \subseteq Slots(chains, n) \ own
  <2> SUFFICES ASSUME NEW s \in Slots(chains', n) PROVE s \in Slots(chains, n) /\ s \notin own
    OBVIOUS
  <2>1. PICK a \in 1..n, b \in 1..MaxConcurrency : s = <<a, b>>
    BY DEF Slots
  <2>2. PICK e \in chains' : e.id = a /\ b <= e.capacity
    BY <2>1 DEF Slots
  <2>3. e.capacity # 0
    BY <2>1, <2>2
  <2>4. e \in chains /\ e # c
    BY <2>3 DEF DequeueReturns, ScheduleNextPoll, NextPoll
  <2>5. a # id
    BY <1>4, <2>2, <2>4 DEF ChainsApart
  <2> QED
    BY <2>1, <2>2, <2>4, <2>5 DEF Slots
<1>8. f \in Surjection(c.got, new)
  BY Zenon DEF Surjection
<1>9. Counted' \subseteq Counted \cup new
  BY DEF DequeueReturns, Counted
<1> HIDE DEF own, new, f
<1>10. /\ IsFiniteSet(new) /\ Cardinality(new) \in Nat /\ Cardinality(c.got) \in Nat
       /\ Cardinality(new) <= Cardinality(c.got) /\ Cardinality(c.got) <= c.capacity
  BY <1>8, FS_Surjection, FS_CardinalityType DEF ChainsApart, Sound
<1>11. /\ Cardinality(Counted') \in Nat /\ Cardinality(Counted) \in Nat
       /\ Cardinality(Counted') <= Cardinality(Counted) + Cardinality(new)
  <2>1. IsFiniteSet(Counted) /\ Cardinality(Counted) \in Nat
    BY CountedIsFinite
  <2>2. /\ IsFiniteSet(Counted \cup new) /\ Cardinality(Counted \cap new) \in Nat
        /\ Cardinality(Counted \cup new) =
             Cardinality(Counted) + Cardinality(new) - Cardinality(Counted \cap new)
    BY <1>10, <2>1, FS_Union, FS_Intersection, FS_CardinalityType
  <2>3. /\ Cardinality(Counted') <= Cardinality(Counted \cup new)
        /\ Cardinality(Counted') \in Nat
    BY <1>9, <2>2, FS_Subset, FS_CardinalityType
  <2> QED
    BY <1>10, <2>1, <2>2, <2>3
<1>12. /\ IsFiniteSet(Slots(chains, n)) /\ Cardinality(Slots(chains, n)) \in Nat
       /\ Cardinality(Slots(chains', n)) \in Nat
  BY SlotsAreFinite
<1>13. Slots(chains, n) \cap own = own
  BY <1>6
<1>14. /\ IsFiniteSet(Slots(chains, n) \ own)
       /\ Cardinality(Slots(chains, n) \ own) = Cardinality(Slots(chains, n)) - k
  BY <1>5, <1>12, <1>13, FS_Difference
<1>15. Cardinality(Slots(chains', n)) <= Cardinality(Slots(chains, n)) - k
  BY <1>7, <1>14, FS_Subset
<1>16. Cardinality(Counted) + Cardinality(Slots(chains, n)) <= MaxConcurrency * n
  BY <1>1 DEF Budget
<1>17. MaxConcurrency * n \in Nat
  BY WorkerAssumption
<1>18. Cardinality(Counted') + Cardinality(Slots(chains', n)) <= MaxConcurrency * n
  BY <1>3, <1>10, <1>11, <1>12, <1>15, <1>16, <1>17
<1> QED
  BY <1>1, <1>2, <1>18 DEF Budget

\* Steps after which there are no more invocations, nor more room asked for.
LEMMA NoMoreAsked ==
  ASSUME TypeOK, ChainsApart, Budget, spent'.notifies = spent.notifies,
         \A d \in chains' : d \in chains \/ d.capacity = 0,
         Cardinality(Counted') \in Nat, Cardinality(Counted') <= Cardinality(Counted)
  PROVE  Budget'
<1>1. PICK n \in Nat : n = spent.notifies + 1
  BY DEF TypeOK, Events
<1>2. Slots(chains', n) \subseteq Slots(chains, n)
  <2> SUFFICES ASSUME NEW s \in Slots(chains', n) PROVE s \in Slots(chains, n)
    OBVIOUS
  <2>1. PICK a \in 1..n, b \in 1..MaxConcurrency : s = <<a, b>>
    BY DEF Slots
  <2>2. PICK e \in chains' : e.id = a /\ b <= e.capacity
    BY <2>1 DEF Slots
  <2>3. e \in chains
    BY <2>1, <2>2
  <2> QED
    BY <2>1, <2>2, <2>3 DEF Slots
<1>3. /\ Cardinality(Slots(chains', n)) <= Cardinality(Slots(chains, n))
      /\ Cardinality(Slots(chains', n)) \in Nat /\ Cardinality(Slots(chains, n)) \in Nat
  BY <1>2, FewerSlots, SlotsAreFinite
<1>4. Cardinality(Counted) \in Nat /\ MaxConcurrency * n \in Nat
  BY CountedIsFinite, WorkerAssumption
<1>5. Cardinality(Counted') + Cardinality(Slots(chains', n)) <= MaxConcurrency * n
  BY <1>1, <1>3, <1>4 DEF Budget
<1> QED
  BY <1>1, <1>5 DEF Budget

\* A notification adds a chain, and with it another pool.
LEMMA NotifiedBudget ==
  ASSUME TypeOK, ChainsApart, Budget, Notify
  PROVE  Budget'
<1>1. PICK n \in Nat : n = spent.notifies + 1
  BY DEF TypeOK, Events
<1>2. spent'.notifies = n /\ Counted' = Counted
  BY <1>1, SpendTypeOK DEF Notify, Events, Counted
<1>3. \A d \in chains' : d \in chains \/ d.capacity = 0
  BY DEF Notify, NextPoll
<1>4. Slots(chains', n + 1) \subseteq Slots(chains, n)
  <2> SUFFICES ASSUME NEW s \in Slots(chains', n + 1) PROVE s \in Slots(chains, n)
    OBVIOUS
  <2>1. PICK a \in 1..(n + 1), b \in 1..MaxConcurrency : s = <<a, b>>
    BY DEF Slots
  <2>2. PICK e \in chains' : e.id = a /\ b <= e.capacity
    BY <2>1 DEF Slots
  <2>3. e \in chains
    BY <1>3, <2>1, <2>2
  <2>4. a \in 1..n
    BY <1>1, <2>2, <2>3 DEF ChainsApart
  <2> QED
    BY <2>1, <2>2, <2>3, <2>4 DEF Slots
<1>5. IsFiniteSet(Slots(chains, n)) /\ Cardinality(Slots(chains, n)) \in Nat
  BY SlotsAreFinite
<1>6. /\ Cardinality(Slots(chains', n + 1)) <= Cardinality(Slots(chains, n))
      /\ Cardinality(Slots(chains', n + 1)) \in Nat
  BY <1>4, <1>5, FS_Subset, FS_CardinalityType
<1>7. Cardinality(Counted) \in Nat
  BY CountedIsFinite
<1>8. /\ MaxConcurrency * n \in Nat
      /\ MaxConcurrency * (n + 1) = MaxConcurrency * n + MaxConcurrency
  BY WorkerAssumption
<1>9. Cardinality(Counted) + Cardinality(Slots(chains, n)) <= MaxConcurrency * n
  BY <1>1 DEF Budget
<1>10. Cardinality(Counted) + Cardinality(Slots(chains', n + 1)) <= MaxConcurrency * (n + 1)
  BY <1>5, <1>6, <1>7, <1>8, <1>9, WorkerAssumption
<1> QED
  BY <1>2, <1>10 DEF Budget

LEMMA BudgetKept ==
  ASSUME TypeOK, ChainsApart, ChainsApart', Calm /\ Covered => Exclusive, Calm => Budget,
         [Next]_vars, Calm'
  PROVE  Budget'
<1>1. Calm /\ Budget
  BY StallsGrow
<1>2. /\ IsFiniteSet(Counted) /\ Cardinality(Counted) \in Nat
      /\ IsFiniteSet(Counted') /\ Cardinality(Counted') \in Nat
  <2>1. IsFiniteSet(Counted') /\ Cardinality(Counted') \in Nat
    BY FS_Subset, FS_CardinalityType DEF Counted, ChainsApart
  <2> QED
    BY <2>1, CountedIsFinite
<1>3. ASSUME NEW c \in chains, PollOnce(c) PROVE Budget'
  <2>1. UNCHANGED <<invs, overtaken, spent>> /\ Counted' = Counted
    BY <1>3 DEF PollOnce, Counted
  <2>2. CASE Stopped \/ Room <= 0
    <3>1. \A d \in chains' : d \in chains \/ d.capacity = 0
      BY <1>3, <2>2 DEF PollOnce, ScheduleNextPoll, NextPoll
    <3> QED
      BY <1>1, <1>2, <2>1, <3>1, NoMoreAsked
  <2>3. CASE ~(Stopped \/ Room <= 0)
    <3>1. PICK d : d = [c EXCEPT !.pc = "asking", !.capacity = Room]
      OBVIOUS
    <3>2. chains' = (chains \ {c}) \cup {d}
      BY <1>3, <2>3, <3>1 DEF PollOnce
    <3>3. d.id = c.id /\ d.capacity = Room
      BY <3>1 DEF TypeOK, Chain
    <3>4. Exclusive
      BY <1>1, <2>3 DEF Stopped, Covered
    <3>5. Room > 0
      BY <2>3, UsedIsFinite
    <3> QED
      BY <2>1, <3>2, <3>3, <3>4, <3>5, AskedBudget
  <2> QED
    BY <2>2, <2>3
<1>4. ASSUME NEW c \in chains, DequeueRuns(c) PROVE Budget'
  <2>1. PICK got : chains' = (chains \ {c}) \cup {[c EXCEPT !.pc = "answered", !.got = got]}
    BY <1>4 DEF DequeueRuns
  <2>2. PICK d : d = [c EXCEPT !.pc = "answered", !.got = got]
    OBVIOUS
  <2>3. d.id = c.id /\ d.capacity = c.capacity
    BY <2>2 DEF TypeOK, Chain
  <2>4. \A e \in chains' : \E b \in chains : b.id = e.id /\ b.capacity = e.capacity
    BY <2>1, <2>2, <2>3
  <2>5. PICK n \in Nat : n = spent.notifies + 1
    BY DEF TypeOK, Events
  <2>6. Slots(chains', n) \subseteq Slots(chains, n)
    BY <2>4 DEF Slots
  <2>7. /\ Cardinality(Slots(chains', n)) <= Cardinality(Slots(chains, n))
        /\ Cardinality(Slots(chains', n)) \in Nat /\ Cardinality(Slots(chains, n)) \in Nat
    BY <2>6, FewerSlots, SlotsAreFinite
  <2>8. MaxConcurrency * n \in Nat
    BY WorkerAssumption
  <2>9. Cardinality(Counted) + Cardinality(Slots(chains', n)) <= MaxConcurrency * n
    BY <1>1, <1>2, <2>5, <2>7, <2>8 DEF Budget
  <2>10. Counted' = Counted /\ UNCHANGED spent
    BY <1>4 DEF DequeueRuns, Counted
  <2> QED
    BY <2>5, <2>9, <2>10 DEF Budget
<1>5. ASSUME Counted' \subseteq Counted, \A d \in chains' : d \in chains \/ d.capacity = 0,
             spent'.notifies = spent.notifies
      PROVE  Budget'
  <2>1. Cardinality(Counted') <= Cardinality(Counted)
    BY <1>2, <1>5, FS_Subset
  <2> QED
    BY <1>1, <1>2, <1>5, <2>1, NoMoreAsked
<1>6. ASSUME NEW i \in invs,
             HandlerSettles(i) \/ CompleteErrors(i) \/ CompleteRuns(i) \/ FailRuns(i)
      PROVE  Budget'
  <2> USE DEF HandlerSettles, CompleteErrors, CompleteRuns, FailRuns
  <2>1. PICK pc : invs' = (invs \ {i}) \cup {[i EXCEPT !.pc = pc]}
    BY <1>6
  <2>2. PICK j : j = [i EXCEPT !.pc = pc]
    OBVIOUS
  <2>3. i.task = j.task
    BY <2>2 DEF TypeOK, Invocation
  <2>4. UNCHANGED <<chains, overtaken>> /\ spent'.notifies = spent.notifies
    BY <1>6, OtherEvents
  <2>5. CASE i.task \in overtaken
    <3>1. Counted' \subseteq Counted
      BY <2>1, <2>2, <2>3, <2>4, <2>5 DEF Counted
    <3> QED
      BY <1>5, <2>4, <3>1
  <2>6. CASE i.task \notin overtaken
    <3>1. i \in Counted /\ Counted' = (Counted \ {i}) \cup {j}
      BY <2>1, <2>2, <2>3, <2>4, <2>6 DEF Counted
    <3>2. /\ IsFiniteSet(Counted \ {i})
          /\ Cardinality(Counted \ {i}) = Cardinality(Counted) - 1
      BY <1>2, <3>1, FS_RemoveElement
    <3>3. Cardinality(Counted') <= Cardinality(Counted)
      BY <1>2, <3>1, <3>2, FS_AddElement
    <3> QED
      BY <1>1, <1>2, <2>4, <3>3, NoMoreAsked
  <2> QED
    BY <2>5, <2>6
<1>7. ASSUME NEW c \in chains, DequeueErrors(c) PROVE Budget'
  <2>1. /\ Counted' \subseteq Counted /\ spent'.notifies = spent.notifies
        /\ \A d \in chains' : d \in chains \/ d.capacity = 0
    BY <1>7, OtherEvents DEF DequeueErrors, ScheduleNextPoll, NextPoll, Counted
  <2> QED
    BY <1>5, <2>1
<1>8. ASSUME NEW i \in invs, DispatchEnds(i) \/ FailRejects(i) PROVE Budget'
  <2>1. Counted' \subseteq Counted /\ chains' \subseteq chains /\ spent'.notifies = spent.notifies
    BY <1>8, OtherEvents DEF DispatchEnds, FailRejects, Exits, Counted
  <2> QED
    BY <1>5, <2>1
<1>9. ASSUME NEW t \in TaskIds, Reclaim(t) PROVE Budget'
  <2>1. Counted' = Counted /\ UNCHANGED chains /\ spent'.notifies = spent.notifies
    BY <1>9, OtherEvents DEF Reclaim, Counted
  <2> QED
    BY <1>5, <2>1
<1>10. CASE StopBegins \/ StopAwaits \/ StopEnds \/ Exit \/ SecondSignal \/ UNCHANGED vars
  <2>1. Counted' \subseteq Counted /\ chains' \subseteq chains /\ UNCHANGED spent
    BY <1>10 DEF StopBegins, StopAwaits, StopEnds, Exit, SecondSignal, Exits, vars, Counted
  <2> QED
    BY <1>5, <2>1
<1>11. /\ \A c \in chains : DequeueReturns(c) => Budget'
       /\ Notify => Budget'
  BY <1>1, DispatchedBudget, NotifiedBudget
<1> QED
  BY <1>3, <1>4, <1>6, <1>7, <1>8, <1>9, <1>10, <1>11 DEF Next, PollStep, InvocationStep

-----------------------------------------------------------------------------
(***************************************************************************)
(* The theorems.                                                           *)
(***************************************************************************)
LEMMA InitIInv == Init => IInv
<1> SUFFICES ASSUME Init PROVE IInv
  OBVIOUS
<1>1. TypeOK
  BY InitTypeOK
<1>2. Mine
  BY DEF Init, Mine, NewRow
<1>3. ChainsApart
  BY NewPollIsSound, FS_EmptySet DEF Init, ChainsApart, Events
<1>4. Exclusive /\ Awaiting
  BY DEF Init, Exclusive, Awaiting, NextPoll
<1>5. Budget
  <2>1. Counted = {} /\ spent.notifies + 1 = 1 /\ \A c \in chains : c.capacity = 0
    BY DEF Init, NextPoll, Events, Counted
  <2>2. Slots(chains, 1) = {}
    BY <2>1, WorkerAssumption DEF Slots
  <2> QED
    BY <2>1, <2>2, FS_EmptySet, WorkerAssumption DEF Budget
<1> QED
  BY <1>1, <1>2, <1>3, <1>4, <1>5 DEF IInv

LEMMA NextIInv == IInv /\ [Next]_vars => IInv'
<1> SUFFICES ASSUME IInv, [Next]_vars PROVE IInv'
  OBVIOUS
<1>1. TypeOK' /\ Mine' /\ ChainsApart'
  BY NextTypeOK, MineKept, ChainsApartKept DEF IInv
<1>2. Calm' /\ Covered' => Exclusive'
  BY ExclusiveKept DEF IInv
<1>3. Calm' => Awaiting' /\ Budget'
  BY <1>1, AwaitingKept, BudgetKept DEF IInv
<1> QED
  BY <1>1, <1>2, <1>3 DEF IInv

LEMMA AlwaysIInv == Spec => []IInv
BY InitIInv, NextIInv, PTL DEF Spec

\* Until stop() drains, and while heartbeats keep the leases, the map has exactly the
\* entries of the tasks that run, and a task runs once in the process, but for tasks leased
\* again before their fail() had returned.
THEOREM MapTracksInvocations == Spec => []Tracked
<1>1. IInv => Tracked
  <2> SUFFICES ASSUME IInv, spent.stalls = 0, phase \in {"up", "stopping"},
                      NEW t \in TaskIds \ overtaken
               PROVE  IF \E i \in invs : i.task = t
                      THEN \A i \in invs : i.task = t => running[t] = i.attempt
                      ELSE running[t] = 0
    BY DEF Tracked
  <2>1. Exclusive
    BY DEF IInv, Calm, Covered
  <2> QED
    BY <2>1 DEF Exclusive
<1> QED
  BY <1>1, AlwaysIInv, PTL

\* stop() that returns before its timeout leaves behind only what a dequeue brought too late,
\* and tasks leased again before their fail() had returned.
THEOREM DrainWaitsForAll == Spec => []Drained
<1>1. IInv => Drained
  BY DEF IInv, Calm, Awaiting, Drained
<1> QED
  BY <1>1, AlwaysIInv, PTL

\* But for those tasks, a process runs no more than maxConcurrency invocations for each of
\* its poll chains.
THEOREM CapacityIsKept == Spec => []CapacityKept
<1>1. IInv => CapacityKept
  <2> SUFFICES ASSUME IInv, spent.stalls = 0
               PROVE  Cardinality(Counted) <= MaxConcurrency * (1 + spent.notifies)
    BY DEF CapacityKept, Counted
  <2>1. PICK n \in Nat : n = spent.notifies
    BY DEF IInv, TypeOK, Events
  <2>2. /\ Cardinality(Slots(chains, n + 1)) \in Nat
        /\ Cardinality(Counted) \in Nat
    BY SlotsAreFinite, CountedIsFinite DEF IInv
  <2>3. Cardinality(Counted) + Cardinality(Slots(chains, n + 1)) <= MaxConcurrency * (n + 1)
    BY <2>1 DEF IInv, Calm, Budget
  <2>4. MaxConcurrency * (n + 1) \in Nat /\ n + 1 = 1 + n
    BY WorkerAssumption
  <2>5. Cardinality(Counted) <= MaxConcurrency * (1 + n)
    BY <2>2, <2>3, <2>4
  <2> QED
    BY <2>1, <2>5
<1> QED
  BY <1>1, AlwaysIInv, PTL
=============================================================================
