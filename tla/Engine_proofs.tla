---------------------------- MODULE Engine_proofs ----------------------------
(***************************************************************************)
(* Proofs about the engine for any workflow function, any number of        *)
(* workers and of signals, cancellations, crashes, failed queries and lost *)
(* leases.                                                                 *)
(***************************************************************************)
EXTENDS Engine, FiniteSetTheorems, SequenceTheorems, TLAPS

-----------------------------------------------------------------------------
(***************************************************************************)
(* Numbers in order.                                                       *)
(***************************************************************************)
UpTo(S, k) == {j \in S : j <= k}

\* Every number of a finite set has a rank of its own, and every rank is taken.
LEMMA Ranks ==
  ASSUME NEW S \in SUBSET Nat, IsFiniteSet(S)
  PROVE  /\ Cardinality(S) \in Nat
         /\ \A k \in S : Cardinality(UpTo(S, k)) \in 1..Cardinality(S)
         /\ \A k, l \in S : Cardinality(UpTo(S, k)) = Cardinality(UpTo(S, l)) => k = l
         /\ \A n \in 1..Cardinality(S) : \E k \in S : Cardinality(UpTo(S, k)) = n
<1>1. PICK size \in Nat : size = Cardinality(S)
  BY FS_CardinalityType
<1>2. ASSUME NEW k \in S
      PROVE  /\ IsFiniteSet(UpTo(S, k)) /\ k \in UpTo(S, k)
             /\ Cardinality(UpTo(S, k)) \in 1..size
  <2>1. UpTo(S, k) \subseteq S /\ k \in UpTo(S, k)
    BY DEF UpTo
  <2>2. /\ IsFiniteSet(UpTo(S, k)) /\ Cardinality(UpTo(S, k)) <= size
        /\ Cardinality(UpTo(S, k)) \in Nat
    BY <1>1, <2>1, FS_Subset, FS_CardinalityType
  <2>3. Cardinality(UpTo(S, k)) # 0
    BY <2>1, <2>2, FS_EmptySet
  <2> QED
    BY <2>1, <2>2, <2>3
<1>3. ASSUME NEW k \in S, NEW l \in S, k < l
      PROVE  Cardinality(UpTo(S, k)) # Cardinality(UpTo(S, l))
  <2>1. UpTo(S, k) \subseteq UpTo(S, l) /\ l \notin UpTo(S, k)
    <3>1. \A j \in S : j \in Nat
      OBVIOUS
    <3>2. ~(l <= k) /\ \A j \in S : j <= k => j <= l
      BY <1>3, <3>1
    <3> QED
      BY <3>2, Zenon DEF UpTo
  <2>2. UpTo(S, k) # UpTo(S, l)
    BY <1>2, <2>1
  <2> QED
    BY <1>2, <2>1, <2>2, FS_Subset
<1>4. \A k, l \in S : Cardinality(UpTo(S, k)) = Cardinality(UpTo(S, l)) => k = l
  <2> SUFFICES ASSUME NEW k \in S, NEW l \in S, k # l
               PROVE  Cardinality(UpTo(S, k)) # Cardinality(UpTo(S, l))
    OBVIOUS
  <2>1. k < l \/ l < k
    OBVIOUS
  <2> QED
    BY <1>3, <2>1
<1> DEFINE rank == [k \in S |-> Cardinality(UpTo(S, k))]
<1>5. rank \in Injection(S, 1..size)
  BY <1>2, <1>4 DEF Injection, IsInjective
<1>6. IsFiniteSet(1..size) /\ Cardinality(1..size) = size
  BY FS_Interval
<1>7. rank \in Surjection(S, 1..size)
  BY <1>1, <1>5, <1>6, FS_Injection
<1>8. \A n \in 1..size : \E k \in S : rank[k] = n
  BY <1>7 DEF Surjection
<1> QED
  BY <1>1, <1>2, <1>4, <1>8

\* Ordered lists each number of a set once.
LEMMA OrderedLists ==
  ASSUME NEW S \in SUBSET Nat, IsFiniteSet(S)
  PROVE  /\ Cardinality(S) \in Nat /\ DOMAIN Ordered(S) = 1..Cardinality(S)
         /\ \A n \in DOMAIN Ordered(S) : Ordered(S)[n] \in S
         /\ \A k \in S : \E n \in DOMAIN Ordered(S) : Ordered(S)[n] = k
         /\ \A m, n \in DOMAIN Ordered(S) : Ordered(S)[m] = Ordered(S)[n] => m = n
<1>1. /\ Cardinality(S) \in Nat /\ DOMAIN Ordered(S) = 1..Cardinality(S)
  BY Ranks DEF Ordered
<1>2. ASSUME NEW n \in DOMAIN Ordered(S)
      PROVE  Ordered(S)[n] \in S /\ Cardinality(UpTo(S, Ordered(S)[n])) = n
  <2>1. \E k \in S : Cardinality(UpTo(S, k)) = n
    BY <1>1, Ranks
  <2>2. Ordered(S)[n] = CHOOSE k \in S : Cardinality(UpTo(S, k)) = n
    BY <1>1 DEF Ordered, UpTo
  <2> QED
    BY <2>1, <2>2
<1>3. ASSUME NEW k \in S PROVE \E n \in DOMAIN Ordered(S) : Ordered(S)[n] = k
  <2>1. PICK n \in DOMAIN Ordered(S) : n = Cardinality(UpTo(S, k))
    BY <1>1, Ranks
  <2>2. /\ Ordered(S)[n] \in S
        /\ Cardinality(UpTo(S, Ordered(S)[n])) = Cardinality(UpTo(S, k))
    BY <1>2, <2>1
  <2>3. \A j, l \in S : Cardinality(UpTo(S, j)) = Cardinality(UpTo(S, l)) => j = l
    BY Ranks
  <2>4. Ordered(S)[n] = k
    BY <2>2, <2>3, Zenon
  <2> QED
    BY <2>4
<1>4. \A m, n \in DOMAIN Ordered(S) : Ordered(S)[m] = Ordered(S)[n] => m = n
  BY <1>2
<1> QED
  BY <1>1, <1>2, <1>3, <1>4

\* A finite set of numbers has its greatest among it.
LEMMA MaxIsThere ==
  ASSUME NEW S \in SUBSET Nat, IsFiniteSet(S), S # {}
  PROVE  Max(S) \in S
<1>1. Cardinality(S) \in Nat /\ Cardinality(S) # 0
  BY FS_CardinalityType, FS_EmptySet
<1>2. Cardinality(S) \in 1..Cardinality(S)
  BY <1>1
<1>3. PICK k \in S : Cardinality(UpTo(S, k)) = Cardinality(S)
  BY <1>2, Ranks
<1>4. UpTo(S, k) = S
  <2>1. UpTo(S, k) \subseteq S
    BY DEF UpTo
  <2> QED
    BY <1>3, <2>1, FS_Subset
<1>5. \A j \in S : k >= j
  BY <1>4 DEF UpTo
<1> QED
  BY <1>5 DEF Max

-----------------------------------------------------------------------------
(***************************************************************************)
(* What is appended.                                                       *)
(***************************************************************************)
Row == RowOf({Wf})

LEMMA IndicesAreFinite ==
  ASSUME NEW S, NEW seq \in Seq(S), NEW T, T \subseteq DOMAIN seq
  PROVE  T \in SUBSET Nat /\ IsFiniteSet(T)
<1>1. Len(seq) \in Nat /\ DOMAIN seq = 1..Len(seq)
  BY LenProperties
<1>2. DOMAIN seq \in SUBSET Nat /\ IsFiniteSet(DOMAIN seq)
  BY <1>1, FS_Interval
<1> QED
  BY <1>2, FS_Subset

\* The events a handler or a caller makes.
LEMMA MadeEvents ==
  /\ Plain("WorkflowStarted") \in Event /\ Plain("CancellationRequested") \in Event
  /\ Plain("TimerScheduled") \in Event
  /\ \A type \in FinalEvent : Plain(type) \in Event
  /\ \A name \in STRING : Of("SignalReceived", name, 0) \in Event
  /\ \A name \in STRING : Of("ActivityScheduled", name, 0) \in Event
  /\ \A type \in OutcomeEvent, ref \in Nat : Of(type, None, ref) \in Event
  /\ \A type, name, ref : /\ Of(type, name, ref).type = type /\ Of(type, name, ref).ref = ref
                          /\ Plain(type).type = type
BY DEF Of, Plain, Event, EventType, FinalEvent, StepEvent, OutcomeEvent

\* What a pass decides is final or schedules steps.
LEMMA DecisionIsMade ==
  ASSUME program \in Program, NEW h
  PROVE  /\ Decision(h) \in Seq(Event)
         /\ \A n \in DOMAIN Decision(h) : Decision(h)[n].type \in FinalEvent \cup StepEvent
<1> DEFINE Made == {e \in Event : e.type \in FinalEvent \cup StepEvent}
<1>1. ASSUME NEW s \in Seq(Made)
      PROVE  s \in Seq(Event) /\ \A n \in DOMAIN s : s[n].type \in FinalEvent \cup StepEvent
  <2>1. Made \subseteq Event
    OBVIOUS
  <2>2. \A n \in DOMAIN s : s[n] \in Made
    BY LenProperties
  <2> QED
    BY <2>1, <2>2, SeqMonotonic
<1>2. \A type \in FinalEvent : <<Plain(type)>> \in Seq(Made)
  BY MadeEvents
<1>3. NewSteps(h) \in Seq(Made)
  <2> DEFINE new == {k \in DOMAIN program :
                       Reached(h, k) /\ program[k].kind # "signal" /\ Answer(h, k) = "new"}
  <2>1. program \in Seq(Call)
    BY DEF Program
  <2>2. new \in SUBSET Nat /\ IsFiniteSet(new)
    BY <2>1, IndicesAreFinite
  <2>3. /\ Cardinality(new) \in Nat /\ DOMAIN Ordered(new) = 1..Cardinality(new)
        /\ \A n \in DOMAIN Ordered(new) : Ordered(new)[n] \in new
    BY <2>2, OrderedLists
  <2>4. \A k \in new : program[k].name \in STRING
    <3>1. \A k \in DOMAIN program : program[k] \in Call
      BY <2>1, LenProperties
    <3> QED
      BY <3>1 DEF Call
  <2>5. \A k \in new : (IF program[k].kind = "activity"
                       THEN Of("ActivityScheduled", program[k].name, 0)
                       ELSE Plain("TimerScheduled")) \in Made
    <3>1. /\ \A name \in STRING : Of("ActivityScheduled", name, 0) \in Made
          /\ Plain("TimerScheduled") \in Made
      BY MadeEvents DEF StepEvent
    <3> HIDE DEF Made
    <3> QED
      BY <2>4, <3>1
  <2>6. NewSteps(h) = [n \in DOMAIN Ordered(new) |->
                         IF program[Ordered(new)[n]].kind = "activity"
                         THEN Of("ActivityScheduled", program[Ordered(new)[n]].name, 0)
                         ELSE Plain("TimerScheduled")]
    BY DEF NewSteps
  <2> HIDE DEF new, Made
  <2>7. NewSteps(h) \in [1..Cardinality(new) -> Made]
    BY <2>3, <2>5, <2>6
  <2> QED
    BY <2>3, <2>7
<1>4. Commands(h) \in Seq(Made)
  BY <1>2, <1>3 DEF Commands, FinalEvent
<1>5. Decision(h) \in Seq(Made)
  BY <1>2, <1>4 DEF Decision, FinalEvent
<1> QED
  BY <1>1, <1>5

\* INSERT gives a row of its type.
LEMMA InsertedRow ==
  ASSUME NEW type \in TaskType, NEW ref \in Nat, NEW due \in BOOLEAN
  PROVE  /\ NewRow(type, Wf, ref, MaxAttempts, due) \in Row
         /\ NewRow(type, Wf, ref, MaxAttempts, due).type = type
         /\ NewRow(type, Wf, ref, MaxAttempts, due).ref = ref
         /\ NewRow(type, Wf, ref, MaxAttempts, due).status = "pending"
BY ScenariosAssumption DEF NewRow, Row, RowOf, Status, TaskType

TaskTypeOf(event) == IF event.type = "TimerScheduled" THEN "timer" ELSE "activity"

\* One row per step that is scheduled, of its kind and with its seq.
LEMMA StepRowsMatch ==
  ASSUME NEW events \in Seq(Event), NEW start \in Nat
  PROVE  /\ StepRows(events, start) \in Seq(Row)
         /\ \A m \in DOMAIN StepRows(events, start) : \E n \in DOMAIN events :
              /\ events[n].type \in StepEvent
              /\ StepRows(events, start)[m].ref = start + n
              /\ StepRows(events, start)[m].type = TaskTypeOf(events[n])
         /\ \A n \in DOMAIN events : events[n].type \in StepEvent =>
              \E m \in DOMAIN StepRows(events, start) : StepRows(events, start)[m].ref = start + n
         /\ \A l, m \in DOMAIN StepRows(events, start) :
              StepRows(events, start)[l].ref = StepRows(events, start)[m].ref => l = m
<1> DEFINE steps == {n \in DOMAIN events : events[n].type \in StepEvent}
           row(n) == NewRow(TaskTypeOf(events[n]), Wf, start + n, MaxAttempts,
                            ~(events[n].type = "TimerScheduled"))
<1>1. steps \in SUBSET Nat /\ IsFiniteSet(steps)
  BY IndicesAreFinite
<1>2. /\ Cardinality(steps) \in Nat /\ DOMAIN Ordered(steps) = 1..Cardinality(steps)
      /\ \A n \in DOMAIN Ordered(steps) : Ordered(steps)[n] \in steps
      /\ \A k \in steps : \E n \in DOMAIN Ordered(steps) : Ordered(steps)[n] = k
      /\ \A m, n \in DOMAIN Ordered(steps) : Ordered(steps)[m] = Ordered(steps)[n] => m = n
  BY <1>1, OrderedLists
<1>3. ASSUME NEW n \in steps
      PROVE  row(n) \in Row /\ row(n).ref = start + n /\ row(n).type = TaskTypeOf(events[n])
  <2>1. PICK type \in TaskType : type = TaskTypeOf(events[n])
    BY DEF TaskTypeOf, TaskType
  <2>2. PICK ref \in Nat : ref = start + n
    BY <1>1
  <2>3. PICK due \in BOOLEAN : due = ~(events[n].type = "TimerScheduled")
    OBVIOUS
  <2>4. row(n) = NewRow(type, Wf, ref, MaxAttempts, due)
    BY <2>1, <2>2, <2>3, Zenon
  <2>5. /\ NewRow(type, Wf, ref, MaxAttempts, due) \in Row
        /\ NewRow(type, Wf, ref, MaxAttempts, due).type = type
        /\ NewRow(type, Wf, ref, MaxAttempts, due).ref = ref
    BY InsertedRow
  <2> HIDE DEF row
  <2> QED
    BY <2>1, <2>2, <2>4, <2>5
<1>4. StepRows(events, start) = [m \in DOMAIN Ordered(steps) |-> row(Ordered(steps)[m])]
  BY DEF StepRows, SeqFrom, TaskTypeOf
<1>5. \A n \in steps : n \in Nat /\ n \in DOMAIN events /\ events[n].type \in StepEvent
  BY <1>1
<1>6. \A n \in DOMAIN events : events[n].type \in StepEvent => n \in steps
  OBVIOUS
<1> HIDE DEF steps, row
<1>7. StepRows(events, start) \in [1..Cardinality(steps) -> Row]
  BY <1>2, <1>3, <1>4
<1>8. StepRows(events, start) \in Seq(Row)
  BY <1>2, <1>7
<1>9. \A m \in DOMAIN StepRows(events, start) :
        /\ m \in DOMAIN Ordered(steps)
        /\ Ordered(steps)[m] \in steps
        /\ StepRows(events, start)[m].ref = start + Ordered(steps)[m]
        /\ StepRows(events, start)[m].type = TaskTypeOf(events[Ordered(steps)[m]])
  BY <1>2, <1>3, <1>4
<1>10. \A m \in DOMAIN Ordered(steps) : m \in DOMAIN StepRows(events, start)
  BY <1>4
<1>11. ASSUME NEW l \in DOMAIN StepRows(events, start), NEW m \in DOMAIN StepRows(events, start),
              StepRows(events, start)[l].ref = StepRows(events, start)[m].ref
       PROVE  l = m
  <2>1. start + Ordered(steps)[l] = start + Ordered(steps)[m]
    BY <1>9, <1>11
  <2>2. Ordered(steps)[l] \in Nat /\ Ordered(steps)[m] \in Nat
    BY <1>5, <1>9
  <2>3. Ordered(steps)[l] = Ordered(steps)[m]
    BY <2>1, <2>2
  <2> QED
    BY <1>2, <1>9, <2>3
<1>12. ASSUME NEW n \in DOMAIN events, events[n].type \in StepEvent
       PROVE  \E m \in DOMAIN StepRows(events, start) : StepRows(events, start)[m].ref = start + n
  BY <1>2, <1>6, <1>9, <1>10, <1>12
<1> QED
  BY <1>5, <1>8, <1>9, <1>11, <1>12

\* The history after appendEvents.
LEMMA EventsAppended ==
  ASSUME TypeOK, NEW events \in Seq(Event), NEW by, AppendEvents(events, by)
  PROVE  /\ hist' \in Seq(Event)
         /\ \A s \in DOMAIN hist : s \in DOMAIN hist' /\ hist'[s] = hist[s] /\ s <= Len(hist)
         /\ \A s \in DOMAIN hist' : s \notin DOMAIN hist =>
              /\ s > Len(hist)
              /\ \E n \in DOMAIN events : s = Len(hist) + n /\ hist'[s] = events[n]
         /\ \A n \in DOMAIN events : Len(hist) + n \in DOMAIN hist'
<1>1. hist \in Seq(Event) /\ hist' = hist \o events
  BY DEF TypeOK, AppendEvents
<1>2. /\ Len(hist) \in Nat /\ Len(events) \in Nat
      /\ DOMAIN hist = 1..Len(hist) /\ DOMAIN events = 1..Len(events)
  BY <1>1, LenProperties
<1>3. /\ hist' \in Seq(Event) /\ Len(hist') = Len(hist) + Len(events)
      /\ \A s \in 1..(Len(hist) + Len(events)) :
           hist'[s] = IF s <= Len(hist) THEN hist[s] ELSE events[s - Len(hist)]
  BY <1>1, ConcatProperties
<1>4. DOMAIN hist' = 1..(Len(hist) + Len(events))
  BY <1>3, LenProperties
<1>5. ASSUME NEW s \in DOMAIN hist', s \notin DOMAIN hist
      PROVE  /\ s > Len(hist)
             /\ \E n \in DOMAIN events : s = Len(hist) + n /\ hist'[s] = events[n]
  <2>1. s > Len(hist) /\ s - Len(hist) \in DOMAIN events /\ s = Len(hist) + (s - Len(hist))
    BY <1>2, <1>4, <1>5
  <2>2. hist'[s] = events[s - Len(hist)]
    BY <1>2, <1>3, <1>4, <2>1
  <2> QED
    BY <2>1, <2>2
<1> QED
  BY <1>2, <1>3, <1>4, <1>5

\* The rows after appendEvents: those there were, one for each step, and maybe a workflow task.
LEMMA RowsAppended ==
  ASSUME TypeOK, NEW events \in Seq(Event), NEW by, AppendEvents(events, by)
  PROVE  /\ tasks' \in Seq(Row)
         /\ \A t \in DOMAIN tasks : t \in DOMAIN tasks' /\ tasks'[t] = tasks[t]
         /\ \A t \in DOMAIN tasks' : t \notin DOMAIN tasks /\ tasks'[t].type # "workflow" =>
              \E n \in DOMAIN events : /\ events[n].type \in StepEvent
                                      /\ tasks'[t].ref = Len(hist) + n
                                      /\ tasks'[t].type = TaskTypeOf(events[n])
         /\ \A n \in DOMAIN events : events[n].type \in StepEvent =>
              \E t \in DOMAIN tasks' : tasks'[t].type # "workflow" /\ tasks'[t].ref = Len(hist) + n
         /\ \A t, u \in DOMAIN tasks' :
              /\ t \notin DOMAIN tasks /\ tasks'[t].type # "workflow"
              /\ u \notin DOMAIN tasks /\ tasks'[u].type # "workflow"
              /\ tasks'[t].ref = tasks'[u].ref
              => t = u
<1> DEFINE wake == IF IndexRefuses THEN <<>> ELSE <<NewRow("workflow", Wf, 0, MaxAttempts, TRUE)>>
<1>1. PICK start \in Nat : start = Len(hist)
  BY LenProperties DEF TypeOK
<1>2. PICK steps \in Seq(Row) :
        /\ steps = StepRows(events, start)
        /\ \A m \in DOMAIN steps : \E n \in DOMAIN events :
             /\ events[n].type \in StepEvent
             /\ steps[m].ref = start + n /\ steps[m].type = TaskTypeOf(events[n])
        /\ \A n \in DOMAIN events : events[n].type \in StepEvent =>
             \E m \in DOMAIN steps : steps[m].ref = start + n
        /\ \A l, m \in DOMAIN steps : steps[l].ref = steps[m].ref => l = m
  BY StepRowsMatch
<1>3. wake \in Seq(Row) /\ \A m \in DOMAIN wake : wake[m].type = "workflow"
  <2>1. /\ NewRow("workflow", Wf, 0, MaxAttempts, TRUE) \in Row
        /\ NewRow("workflow", Wf, 0, MaxAttempts, TRUE).type = "workflow"
    BY ScenariosAssumption DEF NewRow, Row, RowOf, Status, TaskType
  <2>2. PICK row \in Row : row = NewRow("workflow", Wf, 0, MaxAttempts, TRUE)
    BY <2>1
  <2>3. row.type = "workflow"
    BY <2>1, <2>2
  <2>4. wake = <<>> \/ wake = <<row>>
    BY <2>2
  <2>5. <<row>> \in Seq(Row) /\ Len(<<row>>) = 1 /\ <<row>>[1] = row
    OBVIOUS
  <2>6. <<row>> \in Seq(Row) /\ \A m \in DOMAIN <<row>> : <<row>>[m].type = "workflow"
    BY <2>3, <2>5, LenProperties
  <2>7. <<>> \in Seq(Row) /\ \A m \in DOMAIN <<>> : <<>>[m].type = "workflow"
    OBVIOUS
  <2> HIDE DEF wake
  <2> QED
    BY <2>4, <2>6, <2>7, Zenon
<1>4. tasks \in Seq(Row) /\ tasks' = (tasks \o steps) \o wake
  BY <1>1, <1>2 DEF TypeOK, AppendEvents, Row
<1> HIDE DEF wake
<1>5. /\ Len(tasks) \in Nat /\ Len(steps) \in Nat /\ Len(wake) \in Nat
      /\ DOMAIN tasks = 1..Len(tasks) /\ DOMAIN steps = 1..Len(steps)
      /\ DOMAIN wake = 1..Len(wake)
  BY <1>2, <1>3, <1>4, LenProperties
<1>6. /\ tasks \o steps \in Seq(Row) /\ Len(tasks \o steps) = Len(tasks) + Len(steps)
      /\ \A t \in 1..(Len(tasks) + Len(steps)) :
           (tasks \o steps)[t] = IF t <= Len(tasks) THEN tasks[t] ELSE steps[t - Len(tasks)]
  BY <1>4, ConcatProperties
<1>7. /\ tasks' \in Seq(Row) /\ Len(tasks') = Len(tasks) + Len(steps) + Len(wake)
      /\ \A t \in 1..(Len(tasks) + Len(steps) + Len(wake)) :
           tasks'[t] = IF t <= Len(tasks) + Len(steps)
                       THEN (tasks \o steps)[t] ELSE wake[t - (Len(tasks) + Len(steps))]
  BY <1>3, <1>4, <1>6, ConcatProperties
<1>8. DOMAIN tasks' = 1..(Len(tasks) + Len(steps) + Len(wake))
  BY <1>7, LenProperties
<1>9. \A t \in DOMAIN tasks : t \in DOMAIN tasks' /\ tasks'[t] = tasks[t]
  BY <1>5, <1>6, <1>7, <1>8
<1>10. ASSUME NEW t \in DOMAIN tasks', t \notin DOMAIN tasks, tasks'[t].type # "workflow"
       PROVE  t - Len(tasks) \in DOMAIN steps /\ tasks'[t] = steps[t - Len(tasks)]
  <2>1. t \in Nat /\ t > Len(tasks) /\ t <= Len(tasks) + Len(steps) + Len(wake)
    BY <1>5, <1>8, <1>10
  <2>2. CASE t > Len(tasks) + Len(steps)
    <3>1. t - (Len(tasks) + Len(steps)) \in DOMAIN wake
      BY <1>5, <2>1, <2>2
    <3>2. tasks'[t] = wake[t - (Len(tasks) + Len(steps))]
      BY <1>5, <1>7, <1>8, <2>2
    <3> QED
      BY <1>3, <1>10, <3>1, <3>2
  <2>3. CASE t <= Len(tasks) + Len(steps)
    BY <1>5, <1>6, <1>7, <2>1, <2>3
  <2> QED
    BY <1>5, <2>1, <2>2, <2>3
<1>11. ASSUME NEW m \in DOMAIN steps
       PROVE  Len(tasks) + m \in DOMAIN tasks' /\ tasks'[Len(tasks) + m] = steps[m]
  <2>1. /\ Len(tasks) + m \in 1..(Len(tasks) + Len(steps)) /\ ~(Len(tasks) + m <= Len(tasks))
        /\ (Len(tasks) + m) - Len(tasks) = m
    BY <1>5
  <2>2. Len(tasks) + m \in 1..(Len(tasks) + Len(steps) + Len(wake))
    BY <1>5, <2>1
  <2> QED
    BY <1>5, <1>6, <1>7, <1>8, <2>1, <2>2
<1>12. ASSUME NEW n \in DOMAIN events, events[n].type \in StepEvent
       PROVE  \E t \in DOMAIN tasks' : tasks'[t].type # "workflow" /\ tasks'[t].ref = Len(hist) + n
  <2>1. PICK m \in DOMAIN steps : steps[m].ref = start + n
    BY <1>2, <1>12
  <2>2. steps[m].type # "workflow"
    BY <1>2 DEF TaskTypeOf
  <2> QED
    BY <1>1, <1>11, <2>1, <2>2
<1>13. ASSUME NEW t \in DOMAIN tasks', t \notin DOMAIN tasks, tasks'[t].type # "workflow",
              NEW u \in DOMAIN tasks', u \notin DOMAIN tasks, tasks'[u].type # "workflow",
              tasks'[t].ref = tasks'[u].ref
       PROVE  t = u
  <2>1. t - Len(tasks) = u - Len(tasks)
    BY <1>2, <1>10, <1>13
  <2> QED
    BY <1>5, <1>8, <2>1
<1>14. ASSUME NEW t \in DOMAIN tasks', t \notin DOMAIN tasks, tasks'[t].type # "workflow"
       PROVE  \E n \in DOMAIN events : /\ events[n].type \in StepEvent
                                       /\ tasks'[t].ref = Len(hist) + n
                                       /\ tasks'[t].type = TaskTypeOf(events[n])
  BY <1>1, <1>2, <1>10, <1>14
<1> QED
  BY <1>7, <1>9, <1>12, <1>13, <1>14

-----------------------------------------------------------------------------
(***************************************************************************)
(* Type correctness.                                                       *)
(***************************************************************************)

\* foldEvents finds the workflow ended just when a final event is recorded.
LEMMA StatusIsFolded ==
  ASSUME NEW h \in Seq(Event)
  PROVE  /\ StatusOf(h) \in WorkflowStatus
         /\ Has(h, FinalEvent) => StatusOf(h) # "RUNNING"
         /\ ~Has(h, FinalEvent) => StatusOf(h) = "RUNNING"
<1>1. CASE ~Has(h, FinalEvent)
  BY <1>1 DEF StatusOf, WorkflowStatus
<1>2. CASE Has(h, FinalEvent)
  <2> DEFINE ends == {s \in DOMAIN h : h[s].type \in FinalEvent}
  <2>1. ends \in SUBSET Nat /\ IsFiniteSet(ends) /\ ends # {}
    BY <1>2, IndicesAreFinite DEF Has
  <2>2. Max(ends) \in ends
    BY <2>1, MaxIsThere
  <2>3. StatusOf(h) = StatusAfter(h[Max(ends)].type)
    BY <1>2 DEF StatusOf
  <2>4. h[Max(ends)].type \in FinalEvent
    BY <2>2
  <2> HIDE DEF ends
  <2> QED
    BY <1>2, <2>3, <2>4 DEF StatusAfter, FinalEvent, WorkflowStatus
<1> QED
  BY <1>1, <1>2

\* The statements on one row keep its columns in their domains, its type and its seq.
LEMMA UpdatedRow ==
  ASSUME NEW row \in Row
  PROVE  /\ \A w \in Workers : /\ LeasedTo([row EXCEPT !.due = TRUE], w) \in Row
                              /\ LeasedTo([row EXCEPT !.due = TRUE], w).type = row.type
                              /\ LeasedTo([row EXCEPT !.due = TRUE], w).ref = row.ref
                              /\ OwnedBy(LeasedTo([row EXCEPT !.due = TRUE], w), w)
                              /\ LeasedTo([row EXCEPT !.due = TRUE], w).attempt \in Nat
         /\ Completed(row) \in Row /\ Completed(row).type = row.type
         /\ Completed(row).ref = row.ref
         /\ Failed(row) \in Row /\ Failed(row).type = row.type /\ Failed(row).ref = row.ref
         /\ Reclaimed(row) \in Row /\ Reclaimed(row).type = row.type
         /\ Reclaimed(row).ref = row.ref
<1> USE DEF Row, RowOf, Status
<1>1. PICK due \in Row : /\ due = [row EXCEPT !.due = TRUE]
                        /\ due.type = row.type /\ due.ref = row.ref
  <2>1. /\ [row EXCEPT !.due = TRUE] \in Row
        /\ [row EXCEPT !.due = TRUE].type = row.type /\ [row EXCEPT !.due = TRUE].ref = row.ref
    OBVIOUS
  <2> QED
    BY <2>1, Zenon
<1>2. ASSUME NEW w \in Workers
      PROVE  /\ LeasedTo(due, w) \in Row
             /\ LeasedTo(due, w).type = row.type /\ LeasedTo(due, w).ref = row.ref
             /\ OwnedBy(LeasedTo(due, w), w) /\ LeasedTo(due, w).attempt \in Nat
  <2>1. due.attempt + 1 \in Nat
    OBVIOUS
  <2> QED
    BY <1>1, <2>1 DEF LeasedTo, OwnedBy
<1>3. /\ Completed(row) \in Row /\ Completed(row).type = row.type
      /\ Completed(row).ref = row.ref
      /\ Reclaimed(row) \in Row /\ Reclaimed(row).type = row.type
      /\ Reclaimed(row).ref = row.ref
  BY DEF Completed, Reclaimed
<1>4. Failed(row) \in Row /\ Failed(row).type = row.type /\ Failed(row).ref = row.ref
  <2>1. (row.attempt >= row.max /\ row.due) \in BOOLEAN
    OBVIOUS
  <2> QED
    BY <2>1 DEF Failed
<1> QED
  BY <1>1, <1>2, <1>3, <1>4

\* The rows are the same tasks for the same steps.
RowsStay ==
  /\ tasks' \in Seq(Row) /\ DOMAIN tasks' = DOMAIN tasks
  /\ \A t \in DOMAIN tasks : tasks'[t].type = tasks[t].type /\ tasks'[t].ref = tasks[t].ref

LEMMA OneRowUpdated ==
  ASSUME TypeOK, NEW t \in DOMAIN tasks, NEW row \in Row,
         row.type = tasks[t].type, row.ref = tasks[t].ref, tasks' = [tasks EXCEPT ![t] = row]
  PROVE  /\ RowsStay /\ tasks'[t] = row
         /\ \A u \in DOMAIN tasks : u # t => tasks'[u] = tasks[u]
<1>1. tasks \in Seq(Row)
  BY DEF TypeOK, Row
<1>2. DOMAIN tasks = 1..Len(tasks)
  BY <1>1, LenProperties
<1>3. tasks' \in Seq(Row) /\ DOMAIN tasks' = DOMAIN tasks
  BY <1>1, <1>2, ExceptSeq
<1>4. tasks'[t] = row /\ \A u \in DOMAIN tasks : u # t => tasks'[u] = tasks[u]
  OBVIOUS
<1> QED
  BY <1>3, <1>4 DEF RowsStay

LEMMA RowsAreTyped ==
  ASSUME TypeOK
  PROVE  /\ tasks \in Seq(Row) /\ \A t \in DOMAIN tasks : tasks[t] \in Row
         /\ \A i \in invs : i \in Invocation /\ i.task \in DOMAIN tasks /\ tasks[i.task] \in Row
BY LenProperties DEF TypeOK, Row

\* What each of the queue's steps does to the table.
LEMMA QueueRows ==
  ASSUME TypeOK
  PROVE  /\ \A t \in DOMAIN tasks :
              /\ \A w \in Workers : Dequeue(w, t) =>
                   /\ RowsStay /\ OwnedBy(tasks'[t], w) /\ tasks'[t].attempt \in Nat
                   /\ \A u \in DOMAIN tasks : u # t => tasks'[u] = tasks[u]
              /\ Reclaim(t) =>
                   /\ RowsStay
                   /\ \A u \in DOMAIN tasks : u # t => tasks'[u] = tasks[u]
         /\ \A i \in invs : CompleteTask(i) \/ FailTask(i) =>
              /\ RowsStay
              /\ \A u \in DOMAIN tasks : u # i.task => tasks'[u] = tasks[u]
<1>1. ASSUME NEW t \in DOMAIN tasks, NEW w \in Workers, Dequeue(w, t)
      PROVE  /\ RowsStay /\ OwnedBy(tasks'[t], w) /\ tasks'[t].attempt \in Nat
             /\ \A u \in DOMAIN tasks : u # t => tasks'[u] = tasks[u]
  <2>1. tasks[t] \in Row
    BY RowsAreTyped
  <2>2. PICK row \in Row : /\ row = LeasedTo([tasks[t] EXCEPT !.due = TRUE], w)
                          /\ row.type = tasks[t].type /\ row.ref = tasks[t].ref
                          /\ OwnedBy(row, w) /\ row.attempt \in Nat
    BY <2>1, UpdatedRow
  <2>3. tasks' = [tasks EXCEPT ![t] = row]
    BY <1>1, <2>2 DEF Dequeue
  <2> QED
    BY <2>2, <2>3, OneRowUpdated
<1>2. ASSUME NEW t \in DOMAIN tasks, Reclaim(t)
      PROVE  RowsStay /\ \A u \in DOMAIN tasks : u # t => tasks'[u] = tasks[u]
  <2>1. tasks[t] \in Row
    BY RowsAreTyped
  <2>2. PICK row \in Row : /\ row = Reclaimed(tasks[t])
                          /\ row.type = tasks[t].type /\ row.ref = tasks[t].ref
    BY <2>1, UpdatedRow
  <2>3. tasks' = [tasks EXCEPT ![t] = row]
    BY <1>2, <2>2 DEF Reclaim
  <2> QED
    BY <2>2, <2>3, OneRowUpdated
<1>3. ASSUME NEW i \in invs, CompleteTask(i) \/ FailTask(i)
      PROVE  RowsStay /\ \A u \in DOMAIN tasks : u # i.task => tasks'[u] = tasks[u]
  <2>1. tasks[i.task] \in Row /\ i.task \in DOMAIN tasks
    BY RowsAreTyped
  <2>2. PICK row \in {tasks[i.task], Completed(tasks[i.task]), Failed(tasks[i.task])} :
          tasks' = [tasks EXCEPT ![i.task] = row]
    BY <1>3 DEF CompleteTask, FailTask
  <2>3. row \in Row /\ row.type = tasks[i.task].type /\ row.ref = tasks[i.task].ref
    BY <2>1, UpdatedRow
  <2> QED
    BY <2>1, <2>2, <2>3, OneRowUpdated
<1> QED
  BY <1>1, <1>2, <1>3

\* Each step that is scheduled has one task, of its kind and with its seq.
StepTasks ==
  /\ \A s \in DOMAIN hist : hist[s].type \in StepEvent =>
       \E t \in DOMAIN tasks : tasks[t].type # "workflow" /\ tasks[t].ref = s
  /\ \A t, u \in DOMAIN tasks :
       tasks[t].type # "workflow" /\ tasks[u].type # "workflow" /\ tasks[t].ref = tasks[u].ref
       => t = u
  /\ \A t \in DOMAIN tasks : tasks[t].type # "workflow" =>
       /\ tasks[t].ref \in DOMAIN hist /\ hist[tasks[t].ref].type \in StepEvent
       /\ tasks[t].type = TaskTypeOf(hist[tasks[t].ref])

\* An outcome is the outcome of a recorded event.
Refers(event) == event.type \in OutcomeEvent => event.ref \in DOMAIN hist

\* What is appended, if anything.
Appends(events, by) ==
  /\ events \in Seq(Event) /\ AppendEvents(events, by)
  /\ \A n \in DOMAIN events : Refers(events[n])

\* A handler's append.
LEMMA HandlerAppends ==
  ASSUME TypeOK, StepTasks, NEW i \in invs
  PROVE  /\ AppendDecision(i) =>
              \E events : /\ Appends(events, {i}) /\ AppendAndReturn(i, events)
                         /\ \A n \in DOMAIN events : events[n].type \notin OutcomeEvent
         /\ \A type \in {"ActivityCompleted", "ActivityFailed"} : AppendOutcome(i, type) =>
              LET event == Of(type, None, tasks[i.task].ref)
              IN  Appends(<<event>>, {i}) /\ AppendAndReturn(i, <<event>>)
         /\ AppendTimerFired(i) =>
              LET event == Of("TimerFired", None, tasks[i.task].ref)
              IN  Appends(<<event>>, {i}) /\ AppendAndReturn(i, <<event>>)
<1>1. ASSUME AppendDecision(i)
      PROVE  \E events : /\ Appends(events, {i}) /\ AppendAndReturn(i, events)
                         /\ \A n \in DOMAIN events : events[n].type \notin OutcomeEvent
  <2>1. PICK events : events = Decision(SubSeq(hist, 1, i.seen))
    OBVIOUS
  <2>2. /\ events \in Seq(Event)
        /\ \A n \in DOMAIN events : events[n].type \in FinalEvent \cup StepEvent
    BY <2>1, DecisionIsMade DEF TypeOK
  <2>3. \A n \in DOMAIN events : events[n].type \notin OutcomeEvent
    BY <2>2 DEF FinalEvent, StepEvent, OutcomeEvent
  <2>4. AppendAndReturn(i, events)
    BY <1>1, <2>1 DEF AppendDecision
  <2> QED
    BY <2>2, <2>3, <2>4 DEF Appends, Refers, AppendAndReturn
<1>2. ASSUME NEW type \in OutcomeEvent, tasks[i.task].type # "workflow",
             AppendAndReturn(i, <<Of(type, None, tasks[i.task].ref)>>)
      PROVE  Appends(<<Of(type, None, tasks[i.task].ref)>>, {i})
  <2>1. tasks[i.task].ref \in DOMAIN hist /\ tasks[i.task].ref \in Nat
    BY <1>2, RowsAreTyped DEF StepTasks, Row, RowOf
  <2>2. PICK event \in Event : /\ event = Of(type, None, tasks[i.task].ref)
                              /\ event.ref = tasks[i.task].ref
    <3>1. /\ Of(type, None, tasks[i.task].ref) \in Event
          /\ Of(type, None, tasks[i.task].ref).ref = tasks[i.task].ref
      BY <2>1, MadeEvents
    <3> QED
      BY <3>1, Zenon
  <2>3. AppendEvents(<<event>>, {i})
    BY <1>2, <2>2 DEF AppendAndReturn
  <2>4. <<event>> \in Seq(Event) /\ \A n \in DOMAIN <<event>> : <<event>>[n] = event
    OBVIOUS
  <2>5. Appends(<<event>>, {i})
    BY <2>1, <2>2, <2>3, <2>4, Zenon DEF Appends, Refers
  <2> QED
    BY <2>2, <2>5
<1>3. ASSUME NEW type \in {"ActivityCompleted", "ActivityFailed"}, AppendOutcome(i, type)
      PROVE  /\ Appends(<<Of(type, None, tasks[i.task].ref)>>, {i})
             /\ AppendAndReturn(i, <<Of(type, None, tasks[i.task].ref)>>)
  BY <1>2, <1>3 DEF AppendOutcome, Handles, OutcomeEvent
<1>4. ASSUME AppendTimerFired(i)
      PROVE  /\ Appends(<<Of("TimerFired", None, tasks[i.task].ref)>>, {i})
             /\ AppendAndReturn(i, <<Of("TimerFired", None, tasks[i.task].ref)>>)
  BY <1>2, <1>4 DEF AppendTimerFired, Handles, OutcomeEvent
<1> QED
  BY <1>1, <1>3, <1>4

\* A caller's append.
LEMMA CallerAppends ==
  ASSUME TypeOK, StartWorkflow \/ (\E name \in Signals : SendSignal(name)) \/ CancelWorkflow
  PROVE  \E events : /\ Appends(events, {})
                     /\ \A n \in DOMAIN events : events[n].type \notin OutcomeEvent
<1>1. PICK event \in Event : AppendEvents(<<event>>, {}) /\ event.type \notin OutcomeEvent
  <2>1. CASE StartWorkflow
    <3>1. /\ Plain("WorkflowStarted") \in Event
          /\ Plain("WorkflowStarted").type = "WorkflowStarted"
      BY MadeEvents
    <3> QED
      BY <2>1, <3>1 DEF StartWorkflow, OutcomeEvent
  <2>2. CASE CancelWorkflow
    <3>1. /\ Plain("CancellationRequested") \in Event
          /\ Plain("CancellationRequested").type = "CancellationRequested"
      BY MadeEvents
    <3> QED
      BY <2>2, <3>1 DEF CancelWorkflow, External, OutcomeEvent
  <2>3. ASSUME NEW name \in Signals, SendSignal(name)
        PROVE  \E event \in Event : AppendEvents(<<event>>, {}) /\ event.type \notin OutcomeEvent
    <3>1. /\ Of("SignalReceived", name, 0) \in Event
          /\ Of("SignalReceived", name, 0).type = "SignalReceived"
      BY MadeEvents, ScenariosAssumption
    <3> QED
      BY <2>3, <3>1 DEF SendSignal, External, OutcomeEvent
  <2> QED
    BY <2>1, <2>2, <2>3
<1>2. <<event>> \in Seq(Event) /\ \A n \in DOMAIN <<event>> : <<event>>[n] = event
  OBVIOUS
<1> WITNESS <<event>>
<1> QED
  BY <1>1, <1>2, Zenon DEF Appends, Refers

\* Every step extends the history, or leaves it and the tasks there are.
LEMMA StepKinds ==
  ASSUME TypeOK, StepTasks, [Next]_vars
  PROVE  (\E events, by : Appends(events, by)) \/ (RowsStay /\ UNCHANGED <<hist, exec>>)
         \/ (RowsStay /\ UNCHANGED hist /\ exec = "none" /\ exec' = "RUNNING")
<1>1. ASSUME UNCHANGED tasks PROVE RowsStay
  BY <1>1, RowsAreTyped DEF RowsStay
<1>2. CASE CreateExecution
  BY <1>1, <1>2 DEF CreateExecution
<1>3. CASE StartWorkflow \/ (\E name \in Signals : SendSignal(name)) \/ CancelWorkflow
  BY <1>3, CallerAppends
<1>4. ASSUME NEW t \in DOMAIN tasks, Reclaim(t) \/ \E w \in Workers : Dequeue(w, t)
      PROVE  RowsStay /\ UNCHANGED <<hist, exec>>
  <2>1. RowsStay
    BY <1>4, QueueRows
  <2> QED
    BY <1>4, <2>1 DEF Reclaim, Dequeue
<1>5. ASSUME NEW i \in invs, CompleteTask(i) \/ FailTask(i)
      PROVE  RowsStay /\ UNCHANGED <<hist, exec>>
  <2>1. RowsStay
    BY <1>5, QueueRows
  <2> QED
    BY <1>5, <2>1 DEF CompleteTask, FailTask
<1>6. ASSUME NEW i \in invs, HandlerErrors(i) \/ ReadHistory(i) \/ ReadForActivity(i)
      PROVE  RowsStay /\ UNCHANGED <<hist, exec>>
  BY <1>1, <1>6 DEF HandlerErrors, ReadHistory, ReadForActivity
<1>7. ASSUME NEW i \in invs,
             \/ AppendDecision(i) \/ AppendTimerFired(i)
             \/ \E type \in {"ActivityCompleted", "ActivityFailed"} : AppendOutcome(i, type)
      PROVE  \E events, by : Appends(events, by)
  BY <1>7, HandlerAppends, Zenon
<1>8. CASE UNCHANGED vars \/ \E w \in Workers : Crash(w)
  BY <1>1, <1>8 DEF vars, Crash
<1> QED
  BY <1>2, <1>3, <1>4, <1>5, <1>6, <1>7, <1>8 DEF Next, HandlerStep

\* Invocations that stand for rows there are, and have read what there is.
InvocationsOK(is, rows, length) ==
  \A i \in is : i \in Invocation /\ i.task \in rows /\ i.seen <= length

LEMMA InvocationsStay ==
  ASSUME TypeOK, StepTasks, [Next]_vars
  PROVE  InvocationsOK(invs', DOMAIN tasks, Len(hist))
<1>0. /\ InvocationsOK(invs, DOMAIN tasks, Len(hist)) /\ Len(hist) \in Nat
      /\ hist \in Seq(Event)
  BY LenProperties DEF TypeOK, InvocationsOK
<1>1. ASSUME invs' \subseteq invs PROVE InvocationsOK(invs', DOMAIN tasks, Len(hist))
  BY <1>0, <1>1 DEF InvocationsOK
<1>2. ASSUME NEW j, j \in Invocation, j.task \in DOMAIN tasks, j.seen <= Len(hist),
             invs' \subseteq invs \cup {j}
      PROVE  InvocationsOK(invs', DOMAIN tasks, Len(hist))
  BY <1>0, <1>2 DEF InvocationsOK
<1>3. ASSUME NEW i \in invs, NEW pc \in Running \cup {"returned", "threw"}, Becomes(i, pc)
      PROVE  InvocationsOK(invs', DOMAIN tasks, Len(hist))
  <2>1. PICK j : j = [i EXCEPT !.pc = pc]
    OBVIOUS
  <2>2. j \in Invocation /\ j.task = i.task /\ j.seen = i.seen
    BY <1>0, <2>1 DEF Invocation, InvocationsOK
  <2>3. invs' \subseteq invs \cup {j}
    BY <1>3, <2>1 DEF Becomes
  <2>4. j.task \in DOMAIN tasks /\ j.seen <= Len(hist)
    BY <1>0, <2>2 DEF InvocationsOK
  <2> QED
    BY <1>2, <2>2, <2>3, <2>4
<1>4. ASSUME NEW i \in invs, Decides(i)
      PROVE  InvocationsOK(invs', DOMAIN tasks, Len(hist))
  <2>1. PICK j : j = [i EXCEPT !.pc = "decided", !.seen = Len(hist)]
    OBVIOUS
  <2>2. j \in Invocation /\ j.task = i.task /\ j.seen = Len(hist)
    BY <1>0, <2>1 DEF Invocation, InvocationsOK, Running
  <2>3. invs' \subseteq invs \cup {j}
    BY <1>4, <2>1 DEF Decides
  <2>4. j.task \in DOMAIN tasks /\ j.seen <= Len(hist)
    BY <1>0, <2>2 DEF InvocationsOK
  <2> QED
    BY <1>2, <2>2, <2>3, <2>4
<1>5. ASSUME NEW t \in DOMAIN tasks, NEW w \in Workers, Dequeue(w, t)
      PROVE  InvocationsOK(invs', DOMAIN tasks, Len(hist))
  <2>1. PICK attempt \in Nat : attempt = tasks'[t].attempt
    BY <1>5, QueueRows
  <2>2. PICK j : j = [task |-> t, worker |-> w, attempt |-> attempt, seen |-> 0, pc |-> "start"]
    OBVIOUS
  <2>3. t \in Nat
    BY RowsAreTyped, LenProperties
  <2>4. j \in Invocation /\ j.task = t /\ j.seen = 0
    BY <2>2, <2>3 DEF Invocation, Running
  <2>5. invs' = invs \cup {j}
    BY <1>5, <2>1, <2>2 DEF Dequeue
  <2>6. j.task \in DOMAIN tasks /\ j.seen <= Len(hist) /\ invs' \subseteq invs \cup {j}
    BY <1>0, <2>4, <2>5
  <2> QED
    BY <1>2, <2>4, <2>6
<1>6. ASSUME NEW i \in invs, HandlerStep(i) \/ HandlerErrors(i)
      PROVE  \/ Decides(i)
             \/ \E pc \in Running \cup {"returned", "threw"} : Becomes(i, pc)
  <2>1. CASE HandlerErrors(i)
    BY <2>1 DEF HandlerErrors
  <2>2. CASE ReadHistory(i)
    BY <2>2 DEF ReadHistory
  <2>3. CASE ReadForActivity(i)
    BY <2>3 DEF ReadForActivity, Running
  <2>4. ASSUME NEW events, AppendAndReturn(i, events)
        PROVE  \E pc \in Running \cup {"returned", "threw"} : Becomes(i, pc)
    BY <2>4 DEF AppendAndReturn
  <2> QED
    BY <1>6, <2>1, <2>2, <2>3, <2>4
       DEF HandlerStep, AppendDecision, AppendOutcome, AppendTimerFired
<1>7. \/ invs' \subseteq invs
      \/ \E t \in DOMAIN tasks, w \in Workers : Dequeue(w, t)
      \/ \E i \in invs : HandlerStep(i) \/ HandlerErrors(i)
  BY DEF Next, vars, CreateExecution, StartWorkflow, SendSignal, CancelWorkflow, External, Reclaim,
         CompleteTask, FailTask, Crash
<1> QED
  BY <1>1, <1>3, <1>4, <1>5, <1>6, <1>7

\* The environment's bounds and the history variables.
LEMMA BoundsTyped ==
  ASSUME TypeOK, StepTasks, [Next]_vars
  PROVE  program' = program /\ budget' \in Budget /\ stalled' \in BOOLEAN /\ missed' \in BOOLEAN
<1>1. \A kind \in {"calls", "faults", "stalls"} : Spend(kind) => budget' \in Budget
  <2> SUFFICES ASSUME NEW kind \in {"calls", "faults", "stalls"}, Spend(kind)
               PROVE  budget' \in Budget
    OBVIOUS
  <2>1. budget[kind] - 1 \in Nat
    BY DEF TypeOK, Budget, Spend
  <2> QED
    BY <2>1 DEF TypeOK, Budget, Spend
<1>2. \A events, by : AppendEvents(events, by) => missed' \in BOOLEAN
  BY DEF AppendEvents
<1>3. /\ program' = program /\ stalled' \in BOOLEAN
      /\ \/ UNCHANGED budget
         \/ \E kind \in {"calls", "faults", "stalls"} : Spend(kind)
      /\ \/ UNCHANGED missed \/ missed' = FALSE
         \/ \E events, by : AppendEvents(events, by)
  <2> USE DEF TypeOK
  <2>1. CASE CreateExecution \/ StartWorkflow \/ (\E name \in Signals : SendSignal(name))
             \/ CancelWorkflow
    BY <2>1 DEF CreateExecution, StartWorkflow, SendSignal, CancelWorkflow, External
  <2>2. ASSUME NEW t \in DOMAIN tasks, Reclaim(t) \/ \E w \in Workers : Dequeue(w, t)
        PROVE  <1>3!:
    BY <2>2 DEF Reclaim, Dequeue
  <2>3. ASSUME NEW i \in invs, CompleteTask(i) \/ FailTask(i) \/ HandlerErrors(i)
        PROVE  <1>3!:
    BY <2>3 DEF CompleteTask, FailTask, HandlerErrors
  <2>4. ASSUME NEW i \in invs, HandlerStep(i)
        PROVE  <1>3!:
    BY <2>4 DEF HandlerStep, ReadHistory, ReadForActivity, AppendDecision, AppendOutcome,
                AppendTimerFired, AppendAndReturn
  <2>5. CASE UNCHANGED vars \/ \E w \in Workers : Crash(w)
    BY <2>5 DEF vars, Crash
  <2> QED
    BY <2>1, <2>2, <2>3, <2>4, <2>5 DEF Next
<1> QED
  BY <1>1, <1>2, <1>3 DEF TypeOK

LEMMA TypesKept ==
  ASSUME TypeOK, StepTasks, [Next]_vars
  PROVE  TypeOK'
<1>1. program' \in Program /\ budget' \in Budget /\ stalled' \in BOOLEAN /\ missed' \in BOOLEAN
  BY BoundsTyped DEF TypeOK
<1>2. InvocationsOK(invs', DOMAIN tasks, Len(hist))
  BY InvocationsStay
<1>3. /\ hist' \in Seq(Event) /\ tasks' \in Seq(Row) /\ exec' \in WorkflowStatus \cup {"none"}
      /\ DOMAIN tasks \subseteq DOMAIN tasks' /\ Len(hist) <= Len(hist')
  <2>1. ASSUME NEW events, NEW by, Appends(events, by)
        PROVE  <1>3!:
    <3>1. events \in Seq(Event) /\ AppendEvents(events, by)
      BY <2>1 DEF Appends
    <3>2. hist' \in Seq(Event) /\ \A s \in DOMAIN hist : s \in DOMAIN hist'
      BY <3>1, EventsAppended
    <3>3. tasks' \in Seq(Row) /\ \A t \in DOMAIN tasks : t \in DOMAIN tasks'
      BY <3>1, RowsAppended
    <3>4. exec' = StatusOf(hist')
      BY <3>1 DEF AppendEvents
    <3>5. exec' \in WorkflowStatus
      BY <3>2, <3>4, StatusIsFolded
    <3>6. Len(hist) <= Len(hist')
      <4>1. /\ Len(hist) \in Nat /\ Len(hist') \in Nat
            /\ DOMAIN hist = 1..Len(hist) /\ DOMAIN hist' = 1..Len(hist')
        BY <3>2, LenProperties DEF TypeOK
      <4>2. Len(hist) = 0 \/ Len(hist) \in 1..Len(hist')
        BY <3>2, <4>1
      <4> QED
        BY <4>1, <4>2
    <3> QED
      BY <3>2, <3>3, <3>5, <3>6
  <2>2. CASE RowsStay /\ UNCHANGED hist /\ exec' \in {exec, "RUNNING"}
    <3>1. Len(hist) <= Len(hist')
      BY <2>2, LenProperties DEF TypeOK
    <3> QED
      BY <2>2, <3>1 DEF RowsStay, TypeOK, WorkflowStatus
  <2> QED
    BY <2>1, <2>2, StepKinds
<1>4. ASSUME NEW i \in invs'
      PROVE  i \in Invocation /\ i.task \in DOMAIN tasks' /\ i.seen <= Len(hist')
  <2>1. i \in Invocation /\ i.task \in DOMAIN tasks' /\ i.seen <= Len(hist) /\ i.seen \in Nat
    BY <1>2, <1>3 DEF InvocationsOK, Invocation
  <2>2. Len(hist) \in Nat /\ Len(hist') \in Nat
    BY <1>3, LenProperties DEF TypeOK
  <2> QED
    BY <1>3, <2>1, <2>2
<1> QED
  BY <1>1, <1>3, <1>4 DEF TypeOK, Row

-----------------------------------------------------------------------------
(***************************************************************************)
(* One task per step.                                                      *)
(***************************************************************************)
LEMMA StepTasksKept ==
  ASSUME TypeOK, StepTasks, [Next]_vars
  PROVE  StepTasks'
<1>1. CASE RowsStay /\ UNCHANGED hist
  BY <1>1 DEF StepTasks, RowsStay
<1>2. ASSUME NEW events, NEW by, Appends(events, by)
      PROVE  StepTasks'
  <2>1. events \in Seq(Event) /\ AppendEvents(events, by)
    BY <1>2 DEF Appends
  <2>2. /\ \A s \in DOMAIN hist : s \in DOMAIN hist' /\ hist'[s] = hist[s] /\ s <= Len(hist)
        /\ \A s \in DOMAIN hist' : s \notin DOMAIN hist =>
             /\ s > Len(hist)
             /\ \E n \in DOMAIN events : s = Len(hist) + n /\ hist'[s] = events[n]
        /\ \A n \in DOMAIN events : Len(hist) + n \in DOMAIN hist'
    BY <2>1, EventsAppended
  <2>3. /\ \A t \in DOMAIN tasks : t \in DOMAIN tasks' /\ tasks'[t] = tasks[t]
        /\ \A t \in DOMAIN tasks' : t \notin DOMAIN tasks /\ tasks'[t].type # "workflow" =>
             \E n \in DOMAIN events : /\ events[n].type \in StepEvent
                                     /\ tasks'[t].ref = Len(hist) + n
                                     /\ tasks'[t].type = TaskTypeOf(events[n])
        /\ \A n \in DOMAIN events : events[n].type \in StepEvent =>
             \E t \in DOMAIN tasks' : tasks'[t].type # "workflow" /\ tasks'[t].ref = Len(hist) + n
        /\ \A t, u \in DOMAIN tasks' :
             /\ t \notin DOMAIN tasks /\ tasks'[t].type # "workflow"
             /\ u \notin DOMAIN tasks /\ tasks'[u].type # "workflow"
             /\ tasks'[t].ref = tasks'[u].ref
             => t = u
    BY <2>1, RowsAppended
  <2>4. \A n \in DOMAIN events : Len(hist) + n \notin DOMAIN hist /\ hist'[Len(hist) + n] = events[n]
    <3>1. Len(hist) \in Nat /\ DOMAIN hist = 1..Len(hist) /\ DOMAIN events = 1..Len(events)
      BY <2>1, LenProperties DEF TypeOK
    <3>2. \A n \in DOMAIN events : Len(hist) + n \notin DOMAIN hist
      BY <3>1
    <3>3. \A m, n \in DOMAIN events : Len(hist) + m = Len(hist) + n => m = n
      BY <3>1
    <3> QED
      BY <2>2, <3>2, <3>3
  <2>5. ASSUME NEW s \in DOMAIN hist', hist'[s].type \in StepEvent
        PROVE  \E t \in DOMAIN tasks' : tasks'[t].type # "workflow" /\ tasks'[t].ref = s
    <3>1. CASE s \in DOMAIN hist
      BY <2>2, <2>3, <2>5, <3>1 DEF StepTasks
    <3>2. CASE s \notin DOMAIN hist
      BY <2>2, <2>3, <2>5, <3>2
    <3> QED
      BY <3>1, <3>2
  <2>6. ASSUME NEW t \in DOMAIN tasks', tasks'[t].type # "workflow"
        PROVE  /\ tasks'[t].ref \in DOMAIN hist' /\ hist'[tasks'[t].ref].type \in StepEvent
               /\ tasks'[t].type = TaskTypeOf(hist'[tasks'[t].ref])
               /\ t \in DOMAIN tasks <=> tasks'[t].ref \in DOMAIN hist
    <3>1. CASE t \in DOMAIN tasks
      BY <2>2, <2>3, <2>6, <3>1 DEF StepTasks
    <3>2. CASE t \notin DOMAIN tasks
      BY <2>2, <2>3, <2>4, <2>6, <3>2
    <3> QED
      BY <3>1, <3>2
  <2>7. ASSUME NEW t \in DOMAIN tasks', NEW u \in DOMAIN tasks', tasks'[t].type # "workflow",
               tasks'[u].type # "workflow", tasks'[t].ref = tasks'[u].ref
        PROVE  t = u
    <3>1. t \in DOMAIN tasks <=> u \in DOMAIN tasks
      BY <2>6, <2>7
    <3>2. CASE t \in DOMAIN tasks
      BY <2>3, <2>7, <3>1, <3>2 DEF StepTasks
    <3>3. CASE t \notin DOMAIN tasks
      BY <2>3, <2>7, <3>1, <3>3
    <3> QED
      BY <3>2, <3>3
  <2> QED
    BY <2>5, <2>6, <2>7 DEF StepTasks
<1> QED
  BY <1>1, <1>2, StepKinds

\* A status that is final has its event in the history.
EndIsRecorded == exec \in WorkflowStatus \ {"RUNNING"} => Has(hist, FinalEvent)

\* What EndedStaysEnded says of one step.
Ended ==
  /\ exec \in WorkflowStatus \ {"RUNNING"} => exec' \in WorkflowStatus \ {"RUNNING"}
  /\ SubSeq(hist', 1, Len(hist)) = hist

LEMMA EndKept ==
  ASSUME TypeOK, StepTasks, EndIsRecorded, [Next]_vars
  PROVE  EndIsRecorded' /\ Ended
<1>0. hist \in Seq(Event) /\ Len(hist) \in Nat
  BY LenProperties DEF TypeOK
<1>1. CASE UNCHANGED hist /\ (UNCHANGED exec \/ (exec = "none" /\ exec' = "RUNNING"))
  <2>1. SubSeq(hist', 1, Len(hist)) = hist
    BY <1>0, <1>1, SubSeqFull
  <2> QED
    BY <1>1, <2>1 DEF EndIsRecorded, Ended, WorkflowStatus
<1>2. ASSUME NEW events, NEW by, Appends(events, by)
      PROVE  EndIsRecorded' /\ Ended
  <2>1. events \in Seq(Event) /\ AppendEvents(events, by)
    BY <1>2 DEF Appends
  <2>2. /\ hist' \in Seq(Event)
        /\ \A s \in DOMAIN hist : s \in DOMAIN hist' /\ hist'[s] = hist[s]
    BY <2>1, EventsAppended
  <2>3. exec' = StatusOf(hist') /\ hist' = hist \o events
    BY <2>1 DEF AppendEvents
  <2>4. /\ exec' \in WorkflowStatus
        /\ Has(hist', FinalEvent) => exec' # "RUNNING"
        /\ ~Has(hist', FinalEvent) => exec' = "RUNNING"
    BY <2>2, <2>3, StatusIsFolded
  <2>5. Has(hist, FinalEvent) => Has(hist', FinalEvent)
    BY <2>2 DEF Has
  <2>6. SubSeq(hist', 1, Len(hist)) = hist
    <3>1. CASE hist = <<>>
      <4>1. Len(hist) = 0
        BY <3>1
      <4> QED
        BY <3>1, <4>1, SubSeqEmpty
    <3>2. CASE hist # <<>>
      <4>1. 1 \in 1..Len(hist) /\ Len(hist) \in 1..Len(hist)
        BY <1>0, <3>2, EmptySeq
      <4>2. SubSeq(hist \o events, 1, Len(hist)) = SubSeq(hist, 1, Len(hist))
        BY <1>0, <2>1, <4>1, SubSeqOfConcat1
      <4> QED
        BY <1>0, <2>3, <4>2, SubSeqFull
    <3> QED
      BY <3>1, <3>2
  <2> QED
    BY <2>4, <2>5, <2>6 DEF EndIsRecorded, Ended
<1> QED
  BY <1>1, <1>2, StepKinds

-----------------------------------------------------------------------------
(***************************************************************************)
(* One outcome per activity, as long as no live worker loses a lease.      *)
(***************************************************************************)
OutcomesRefer == \A r \in DOMAIN hist : Refers(hist[r])

\* A task has one invocation, and its worker holds the lease.
Alone ==
  /\ \A i, j \in invs : i.task = j.task => i = j
  /\ \A i \in invs : OwnedBy(tasks[i.task], i.worker)

\* An activity function only runs, or has settled unrecorded, while there is no outcome.
Undecided ==
  \A i \in invs : Handles(i, "activity", "decided") => Outcomes(hist, tasks[i.task].ref) = {}

Single ==
  \A q, r \in DOMAIN hist :
    /\ hist[q].type \in OutcomeEvent /\ hist[r].type \in OutcomeEvent
    /\ hist[q].ref = hist[r].ref /\ hist[hist[q].ref].type = "ActivityScheduled"
    => q = r

LEMMA OutcomesReferKept ==
  ASSUME TypeOK, StepTasks, OutcomesRefer, [Next]_vars
  PROVE  OutcomesRefer'
<1>1. CASE UNCHANGED hist
  BY <1>1 DEF OutcomesRefer, Refers
<1>2. ASSUME NEW events, NEW by, Appends(events, by)
      PROVE  OutcomesRefer'
  <2>1. /\ \A s \in DOMAIN hist : s \in DOMAIN hist' /\ hist'[s] = hist[s]
        /\ \A s \in DOMAIN hist' : s \notin DOMAIN hist =>
             \E n \in DOMAIN events : hist'[s] = events[n]
    BY <1>2, EventsAppended DEF Appends
  <2>2. ASSUME NEW s \in DOMAIN hist', hist'[s].type \in OutcomeEvent
        PROVE  hist'[s].ref \in DOMAIN hist
    <3>1. CASE s \in DOMAIN hist
      BY <2>1, <2>2, <3>1 DEF OutcomesRefer, Refers
    <3>2. CASE s \notin DOMAIN hist
      BY <1>2, <2>1, <2>2, <3>2 DEF Appends, Refers
    <3> QED
      BY <3>1, <3>2
  <2> QED
    BY <2>1, <2>2 DEF OutcomesRefer, Refers
<1> QED
  BY <1>1, <1>2, StepKinds

\* An append records outcomes of the events it refers to alone.
LEMMA NewOutcomes ==
  ASSUME TypeOK, NEW events, NEW by, Appends(events, by), NEW s,
         \A n \in DOMAIN events : events[n].type \in OutcomeEvent => events[n].ref # s
  PROVE  Outcomes(hist', s) \subseteq Outcomes(hist, s)
<1>1. /\ \A r \in DOMAIN hist : r \in DOMAIN hist' /\ hist'[r] = hist[r]
      /\ \A r \in DOMAIN hist' : r \notin DOMAIN hist =>
           \E n \in DOMAIN events : hist'[r] = events[n]
  BY EventsAppended DEF Appends
<1> QED
  BY <1>1 DEF Outcomes

\* The first outcome of an activity is its only one.
LEMMA SingleKept ==
  ASSUME TypeOK, OutcomesRefer, Single, NEW events, NEW by, Appends(events, by),
         \A m, n \in DOMAIN events : events[n].type \in OutcomeEvent =>
           /\ m = n
           /\ \/ hist[events[n].ref].type # "ActivityScheduled"
              \/ Outcomes(hist, events[n].ref) = {}
  PROVE  Single'
<1>1. /\ \A s \in DOMAIN hist : s \in DOMAIN hist' /\ hist'[s] = hist[s]
      /\ \A s \in DOMAIN hist' : s \notin DOMAIN hist =>
           \E n \in DOMAIN events : s = Len(hist) + n /\ hist'[s] = events[n]
  BY EventsAppended DEF Appends
<1>2. ASSUME NEW q \in DOMAIN hist', hist'[q].type \in OutcomeEvent
      PROVE  hist'[q].ref \in DOMAIN hist /\ hist'[hist'[q].ref] = hist[hist'[q].ref]
  <2>1. CASE q \in DOMAIN hist
    BY <1>1, <1>2, <2>1 DEF OutcomesRefer, Refers
  <2>2. CASE q \notin DOMAIN hist
    BY <1>1, <1>2, <2>2 DEF Appends, Refers
  <2> QED
    BY <2>1, <2>2
<1>3. ASSUME NEW q \in DOMAIN hist', NEW r \in DOMAIN hist', q \notin DOMAIN hist,
             hist'[q].type \in OutcomeEvent, hist'[r].type \in OutcomeEvent,
             hist'[q].ref = hist'[r].ref, hist'[hist'[q].ref].type = "ActivityScheduled"
      PROVE  q = r
  <2>1. PICK n \in DOMAIN events : q = Len(hist) + n /\ hist'[q] = events[n]
    BY <1>1, <1>3
  <2>2. Outcomes(hist, events[n].ref) = {} /\ \A m \in DOMAIN events : m = n
    <3>1. events[n].type \in OutcomeEvent /\ hist[events[n].ref].type = "ActivityScheduled"
      BY <1>2, <1>3, <2>1
    <3> QED
      BY <3>1
  <2>3. r \notin DOMAIN hist
    BY <1>1, <1>3, <2>1, <2>2 DEF Outcomes
  <2> QED
    BY <1>1, <2>1, <2>2, <2>3
<1>4. ASSUME NEW q \in DOMAIN hist, NEW r \in DOMAIN hist,
             hist'[q].type \in OutcomeEvent, hist'[r].type \in OutcomeEvent,
             hist'[q].ref = hist'[r].ref, hist'[hist'[q].ref].type = "ActivityScheduled"
      PROVE  q = r
  BY <1>1, <1>2, <1>4 DEF Single
<1> QED
  BY <1>3, <1>4 DEF Single

\* Some invocations go and at most one comes, and its task has no other; the tasks of the
\* rest stay as they are.
Stays(gone, come) ==
  /\ invs' = (invs \ gone) \cup come
  /\ \A k \in invs \ gone :
       /\ tasks'[k.task] = tasks[k.task]
       /\ Handles(k, "activity", "decided") =>
            Outcomes(hist', tasks[k.task].ref) \subseteq Outcomes(hist, tasks[k.task].ref)
  /\ \A j, k \in come : j = k
  /\ \A j \in come :
       /\ OwnedBy(tasks'[j.task], j.worker)
       /\ \A k \in invs \ gone : k.task # j.task
       /\ tasks'[j.task].type = "activity" /\ j.pc = "decided" =>
            Outcomes(hist', tasks'[j.task].ref) = {}

LEMMA StaysAlone ==
  ASSUME TypeOK, Alone, Undecided, NEW gone, NEW come, Stays(gone, come)
  PROVE  Alone' /\ Undecided'
<1>1. \A i, j \in invs' : i.task = j.task => i = j
  BY DEF Alone, Stays
<1>2. \A i \in invs' : OwnedBy(tasks'[i.task], i.worker)
  BY DEF Alone, Stays
<1>3. ASSUME NEW i \in invs', tasks'[i.task].type = "activity", i.pc = "decided"
      PROVE  Outcomes(hist', tasks'[i.task].ref) = {}
  <2>1. CASE i \in come
    BY <1>3, <2>1 DEF Stays
  <2>2. CASE i \in invs \ gone
    BY <1>3, <2>2 DEF Undecided, Handles, Stays
  <2> QED
    BY <1>3, <2>1, <2>2 DEF Stays
<1> QED
  BY <1>1, <1>2, <1>3 DEF Alone, Undecided, Handles

\* What a step of a handler makes of its invocation.
LEMMA InvocationMoves ==
  ASSUME TypeOK, NEW i \in invs, HandlerStep(i) \/ HandlerErrors(i)
  PROVE  \E j : /\ invs' = (invs \ {i}) \cup {j} /\ j.task = i.task /\ j.worker = i.worker
                /\ tasks[i.task].type = "activity" /\ j.pc = "decided" =>
                     UNCHANGED hist /\ Outcomes(hist, tasks[i.task].ref) = {}
<1>0. i \in Invocation
  BY RowsAreTyped
<1>1. ASSUME NEW pc, Becomes(i, pc),
             tasks[i.task].type = "activity" /\ pc = "decided" =>
               UNCHANGED hist /\ Outcomes(hist, tasks[i.task].ref) = {}
      PROVE  \E j : /\ invs' = (invs \ {i}) \cup {j} /\ j.task = i.task /\ j.worker = i.worker
                    /\ tasks[i.task].type = "activity" /\ j.pc = "decided" =>
                         UNCHANGED hist /\ Outcomes(hist, tasks[i.task].ref) = {}
  <2>1. PICK j : j = [i EXCEPT !.pc = pc]
    OBVIOUS
  <2>2. j.task = i.task /\ j.worker = i.worker /\ j.pc = pc
    BY <1>0, <2>1 DEF Invocation
  <2> QED
    BY <1>1, <2>1, <2>2 DEF Becomes
<1>2. ASSUME Decides(i), tasks[i.task].type # "activity"
      PROVE  \E j : /\ invs' = (invs \ {i}) \cup {j} /\ j.task = i.task /\ j.worker = i.worker
                    /\ tasks[i.task].type # "activity"
  <2>1. PICK j : j = [i EXCEPT !.pc = "decided", !.seen = Len(hist)]
    OBVIOUS
  <2>2. j.task = i.task /\ j.worker = i.worker
    BY <1>0, <2>1 DEF Invocation
  <2> QED
    BY <1>2, <2>1, <2>2 DEF Decides
<1>3. CASE HandlerErrors(i)
  BY <1>1, <1>3 DEF HandlerErrors
<1>4. CASE ReadHistory(i)
  BY <1>1, <1>2, <1>4 DEF ReadHistory, Handles
<1>5. CASE ReadForActivity(i)
  <2>1. CASE Outcomes(hist, tasks[i.task].ref) = {}
    BY <1>1, <1>5, <2>1 DEF ReadForActivity
  <2>2. CASE Outcomes(hist, tasks[i.task].ref) # {}
    BY <1>1, <1>5, <2>2 DEF ReadForActivity
  <2> QED
    BY <2>1, <2>2
<1>6. ASSUME NEW events, AppendAndReturn(i, events)
      PROVE  Becomes(i, "returned") \/ Becomes(i, "threw")
  BY <1>6 DEF AppendAndReturn
<1>7. Becomes(i, "returned") \/ Becomes(i, "threw") \/ ReadHistory(i) \/ ReadForActivity(i)
      \/ HandlerErrors(i)
  BY <1>6 DEF HandlerStep, AppendDecision, AppendOutcome, AppendTimerFired
<1> QED
  BY <1>1, <1>3, <1>4, <1>5, <1>7

\* What a step of a handler records: of an activity only its first outcome, and of the
\* activities under way only that of its own.
Records(i) ==
  /\ Single'
  /\ \A t \in DOMAIN tasks : t \in DOMAIN tasks' /\ tasks'[t] = tasks[t]
  /\ \A k \in invs \ {i} : Handles(k, "activity", "decided") =>
       Outcomes(hist', tasks[k.task].ref) \subseteq Outcomes(hist, tasks[k.task].ref)

LEMMA HandlerRecords ==
  ASSUME TypeOK, StepTasks, OutcomesRefer, Alone, Undecided, Single, NEW i \in invs,
         HandlerStep(i) \/ HandlerErrors(i)
  PROVE  Records(i)
<1>1. ASSUME UNCHANGED <<hist, tasks>>
      PROVE  Records(i)
  BY <1>1 DEF Records, Single, Outcomes
<1>2. ASSUME NEW events, Appends(events, {i}),
             \A m, n \in DOMAIN events : events[n].type \in OutcomeEvent =>
               /\ m = n /\ events[n].ref = tasks[i.task].ref /\ tasks[i.task].type # "workflow"
               /\ \/ hist[events[n].ref].type # "ActivityScheduled"
                  \/ Outcomes(hist, events[n].ref) = {}
      PROVE  Records(i)
  <2>1. Single'
    BY <1>2, SingleKept
  <2>2. \A t \in DOMAIN tasks : t \in DOMAIN tasks' /\ tasks'[t] = tasks[t]
    BY <1>2, RowsAppended DEF Appends
  <2>3. ASSUME NEW k \in invs \ {i}, Handles(k, "activity", "decided")
        PROVE  Outcomes(hist', tasks[k.task].ref) \subseteq Outcomes(hist, tasks[k.task].ref)
    <3>1. k.task # i.task /\ tasks[k.task].type # "workflow"
      BY <2>3 DEF Alone, Handles
    <3>2. tasks[i.task].type # "workflow" => tasks[i.task].ref # tasks[k.task].ref
      BY <3>1, RowsAreTyped DEF StepTasks
    <3>3. \A n \in DOMAIN events : events[n].type \in OutcomeEvent =>
            events[n].ref # tasks[k.task].ref
      BY <1>2, <3>2
    <3> QED
      BY <1>2, <3>3, NewOutcomes
  <2> QED
    BY <2>1, <2>2, <2>3 DEF Records
<1>3. ASSUME NEW type \in OutcomeEvent, tasks[i.task].type # "workflow",
             LET event == Of(type, None, tasks[i.task].ref) IN Appends(<<event>>, {i}),
             \/ hist[tasks[i.task].ref].type # "ActivityScheduled"
             \/ Outcomes(hist, tasks[i.task].ref) = {}
      PROVE  Records(i)
  <2>1. PICK event : event = Of(type, None, tasks[i.task].ref)
    OBVIOUS
  <2>2. event.ref = tasks[i.task].ref
    BY <2>1 DEF Of
  <2>3. PICK events : events = <<event>>
    OBVIOUS
  <2>4. \A n \in DOMAIN events : n = 1 /\ events[n] = event
    BY <2>3
  <2>5. Appends(events, {i})
    BY <1>3, <2>1, <2>3
  <2> QED
    BY <1>2, <1>3, <2>2, <2>4, <2>5
<1>4. ASSUME NEW type \in {"ActivityCompleted", "ActivityFailed"}, AppendOutcome(i, type)
      PROVE  Records(i)
  <2>1. LET event == Of(type, None, tasks[i.task].ref) IN Appends(<<event>>, {i})
    BY <1>4, HandlerAppends
  <2>2. Outcomes(hist, tasks[i.task].ref) = {} /\ tasks[i.task].type # "workflow"
    BY <1>4 DEF AppendOutcome, Undecided, Handles
  <2>3. type \in OutcomeEvent
    BY DEF OutcomeEvent
  <2> QED
    BY <1>3, <2>1, <2>2, <2>3
<1>5. CASE AppendTimerFired(i)
  <2>1. LET event == Of("TimerFired", None, tasks[i.task].ref) IN Appends(<<event>>, {i})
    BY <1>5, HandlerAppends
  <2>2. tasks[i.task].type = "timer"
    BY <1>5 DEF AppendTimerFired, Handles
  <2>3. hist[tasks[i.task].ref].type # "ActivityScheduled"
    BY <2>2, RowsAreTyped DEF StepTasks, TaskTypeOf
  <2>4. "TimerFired" \in OutcomeEvent
    BY DEF OutcomeEvent
  <2> QED
    BY <1>3, <2>1, <2>2, <2>3, <2>4
<1>6. CASE AppendDecision(i)
  <2>1. PICK events : Appends(events, {i}) /\ \A n \in DOMAIN events : events[n].type \notin OutcomeEvent
    BY <1>6, HandlerAppends
  <2> QED
    BY <1>2, <2>1
<1>7. CASE HandlerErrors(i) \/ ReadHistory(i) \/ ReadForActivity(i)
  BY <1>1, <1>7 DEF HandlerErrors, ReadHistory, ReadForActivity
<1> QED
  BY <1>4, <1>5, <1>6, <1>7 DEF HandlerStep

\* A stall is remembered.
LEMMA StallsStay ==
  ASSUME TypeOK, [Next]_vars, ~stalled'
  PROVE  ~stalled
<1>1. UNCHANGED stalled \/ stalled' = TRUE
  <2>1. CASE CreateExecution \/ StartWorkflow \/ (\E name \in Signals : SendSignal(name))
             \/ CancelWorkflow
    BY <2>1 DEF CreateExecution, StartWorkflow, SendSignal, CancelWorkflow, External
  <2>2. ASSUME NEW t \in DOMAIN tasks, Reclaim(t) \/ \E w \in Workers : Dequeue(w, t)
        PROVE  UNCHANGED stalled \/ stalled' = TRUE
    BY <2>2 DEF Reclaim, Dequeue
  <2>3. ASSUME NEW i \in invs, CompleteTask(i) \/ FailTask(i) \/ HandlerErrors(i)
        PROVE  UNCHANGED stalled
    BY <2>3 DEF CompleteTask, FailTask, HandlerErrors
  <2>4. ASSUME NEW i \in invs, HandlerStep(i)
        PROVE  UNCHANGED stalled
    BY <2>4 DEF HandlerStep, ReadHistory, ReadForActivity, AppendDecision, AppendOutcome,
                AppendTimerFired, AppendAndReturn
  <2>5. CASE UNCHANGED vars \/ \E w \in Workers : Crash(w)
    BY <2>5 DEF vars, Crash
  <2> QED
    BY <2>1, <2>2, <2>3, <2>4, <2>5 DEF Next
<1> QED
  BY <1>1

\* While no live worker loses a lease, a task has one invocation, which records the only
\* outcome of its activity.
LEMMA AloneKept ==
  ASSUME TypeOK, StepTasks, OutcomesRefer, Alone, Undecided, Single, ~stalled', [Next]_vars
  PROVE  Alone' /\ Undecided' /\ Single'
<1>1. ASSUME UNCHANGED hist PROVE Single'
  BY <1>1 DEF Single
<1>2. ASSUME NEW gone, invs' = invs \ gone,
             \A k \in invs \ gone :
               /\ tasks'[k.task] = tasks[k.task]
               /\ Handles(k, "activity", "decided") =>
                    Outcomes(hist', tasks[k.task].ref) \subseteq Outcomes(hist, tasks[k.task].ref)
      PROVE  Alone' /\ Undecided'
  <2>1. Stays(gone, {})
    BY <1>2 DEF Stays
  <2> QED
    BY <2>1, StaysAlone
<1>3. CASE StartWorkflow \/ (\E name \in Signals : SendSignal(name)) \/ CancelWorkflow
  <2>1. PICK events : /\ Appends(events, {})
                      /\ \A n \in DOMAIN events : events[n].type \notin OutcomeEvent
    BY <1>3, CallerAppends
  <2>2. invs' = invs \ {}
    BY <1>3 DEF StartWorkflow, SendSignal, CancelWorkflow, External
  <2>3. \A k \in invs : tasks'[k.task] = tasks[k.task]
    BY <2>1, RowsAppended, RowsAreTyped DEF Appends
  <2>4. \A s : Outcomes(hist', s) \subseteq Outcomes(hist, s)
    BY <2>1, NewOutcomes
  <2>5. Single'
    BY <2>1, SingleKept
  <2> QED
    BY <1>2, <2>2, <2>3, <2>4, <2>5
<1>4. CASE CreateExecution \/ UNCHANGED vars
  <2>1. UNCHANGED <<hist, tasks>> /\ invs' = invs \ {}
    BY <1>4 DEF CreateExecution, vars
  <2> QED
    BY <1>1, <1>2, <2>1
<1>5. ASSUME NEW t \in DOMAIN tasks, NEW w \in Workers, Dequeue(w, t)
      PROVE  Alone' /\ Undecided' /\ Single'
  <2>1. /\ OwnedBy(tasks'[t], w)
        /\ \A u \in DOMAIN tasks : u # t => tasks'[u] = tasks[u]
    BY <1>5, QueueRows
  <2>2. PICK j : j = [task |-> t, worker |-> w, attempt |-> tasks'[t].attempt, seen |-> 0,
                      pc |-> "start"]
    OBVIOUS
  <2>3. j.task = t /\ j.worker = w /\ j.pc = "start"
    BY <2>2
  <2>4. UNCHANGED hist /\ invs' = (invs \ {}) \cup {j}
    BY <1>5, <2>2 DEF Dequeue
  <2>5. \A k \in invs : k.task # t /\ k.task \in DOMAIN tasks
    BY <1>5, RowsAreTyped DEF Dequeue, Alone, OwnedBy
  <2>6. /\ \A k \in invs \ {} :
             /\ tasks'[k.task] = tasks[k.task]
             /\ Outcomes(hist', tasks[k.task].ref) \subseteq Outcomes(hist, tasks[k.task].ref)
        /\ \A k, l \in {j} : k = l
        /\ \A l \in {j} : /\ OwnedBy(tasks'[l.task], l.worker) /\ l.pc # "decided"
                          /\ \A k \in invs \ {} : k.task # l.task
    BY <2>1, <2>3, <2>4, <2>5 DEF Outcomes
  <2>7. Stays({}, {j})
    BY <2>4, <2>6 DEF Stays
  <2>8. Alone' /\ Undecided'
    BY <2>7, StaysAlone
  <2> QED
    BY <1>1, <2>4, <2>8
<1>6. ASSUME NEW t \in DOMAIN tasks, Reclaim(t)
      PROVE  Alone' /\ Undecided' /\ Single'
  <2>1. UNCHANGED hist /\ invs' = invs \ {} /\ Orphaned(t)
    BY <1>6 DEF Reclaim
  <2>2. \A k \in invs : k.task # t /\ k.task \in DOMAIN tasks
    BY <2>1, RowsAreTyped DEF Orphaned, Alone
  <2>3. \A k \in invs : tasks'[k.task] = tasks[k.task]
    BY <1>6, <2>2, QueueRows
  <2>4. \A s : Outcomes(hist', s) \subseteq Outcomes(hist, s)
    BY <2>1 DEF Outcomes
  <2> QED
    BY <1>1, <1>2, <2>1, <2>3, <2>4
<1>7. ASSUME NEW i \in invs, CompleteTask(i) \/ FailTask(i)
      PROVE  Alone' /\ Undecided' /\ Single'
  <2>1. UNCHANGED hist /\ invs' = invs \ {i}
    BY <1>7 DEF CompleteTask, FailTask
  <2>2. \A k \in invs \ {i} : k.task # i.task /\ k.task \in DOMAIN tasks
    BY RowsAreTyped DEF Alone
  <2>3. \A k \in invs \ {i} : tasks'[k.task] = tasks[k.task]
    BY <1>7, <2>2, QueueRows
  <2>4. \A s : Outcomes(hist', s) \subseteq Outcomes(hist, s)
    BY <2>1 DEF Outcomes
  <2> QED
    BY <1>1, <1>2, <2>1, <2>3, <2>4
<1>8. ASSUME NEW w \in Workers, Crash(w)
      PROVE  Alone' /\ Undecided' /\ Single'
  <2>1. UNCHANGED <<hist, tasks>> /\ invs' = invs \ {i \in invs : i.worker = w}
    BY <1>8 DEF Crash
  <2>2. \A s : Outcomes(hist', s) \subseteq Outcomes(hist, s)
    BY <2>1 DEF Outcomes
  <2> QED
    BY <1>1, <1>2, <2>1, <2>2
<1>9. ASSUME NEW i \in invs, HandlerStep(i) \/ HandlerErrors(i)
      PROVE  Alone' /\ Undecided' /\ Single'
  <2>1. PICK j : /\ invs' = (invs \ {i}) \cup {j} /\ j.task = i.task /\ j.worker = i.worker
                 /\ tasks[i.task].type = "activity" /\ j.pc = "decided" =>
                      UNCHANGED hist /\ Outcomes(hist, tasks[i.task].ref) = {}
    BY <1>9, InvocationMoves
  <2>2. Records(i)
    BY <1>9, HandlerRecords
  <2>3. \A k \in invs : k.task \in DOMAIN tasks /\ tasks'[k.task] = tasks[k.task]
    BY <2>2, RowsAreTyped DEF Records
  <2>4. /\ OwnedBy(tasks'[j.task], j.worker)
        /\ \A k \in invs \ {i} : k.task # j.task
        /\ tasks'[j.task].type = "activity" /\ j.pc = "decided" =>
             Outcomes(hist', tasks'[j.task].ref) = {}
    BY <2>1, <2>3 DEF Alone, Outcomes
  <2>5. \A k \in invs \ {i} :
          /\ tasks'[k.task] = tasks[k.task]
          /\ Handles(k, "activity", "decided") =>
               Outcomes(hist', tasks[k.task].ref) \subseteq Outcomes(hist, tasks[k.task].ref)
    BY <2>2, <2>3 DEF Records
  <2>6. /\ \A k, l \in {j} : k = l
        /\ \A l \in {j} : l = j
    OBVIOUS
  <2>7. Stays({i}, {j})
    BY <2>1, <2>4, <2>5, <2>6 DEF Stays
  <2>8. Alone' /\ Undecided'
    BY <2>7, StaysAlone
  <2> QED
    BY <2>2, <2>8 DEF Records
<1> QED
  BY <1>3, <1>4, <1>5, <1>6, <1>7, <1>8, <1>9 DEF Next

-----------------------------------------------------------------------------
(***************************************************************************)
(* The theorems.                                                           *)
(***************************************************************************)
IInv ==
  /\ TypeOK /\ StepTasks /\ EndIsRecorded /\ OutcomesRefer
  /\ ~stalled => Alone /\ Undecided /\ Single

LEMMA InitHolds == Init => IInv
<1> SUFFICES ASSUME Init PROVE IInv
  OBVIOUS
<1>1. program \in Program /\ budget \in Budget
  <2>1. PICK s \in Scenarios : program = s.program /\ budget = s.budget
    BY DEF Init
  <2> QED
    BY <2>1, ScenariosAssumption
<1>2. /\ hist = <<>> /\ tasks = <<>> /\ DOMAIN hist = {} /\ DOMAIN tasks = {}
      /\ hist \in Seq(Event) /\ tasks \in Seq(RowOf({Wf}))
  BY EmptySeq DEF Init
<1>3. exec = "none" /\ invs = {} /\ stalled = FALSE /\ missed = FALSE
  BY DEF Init
<1>4. TypeOK
  BY <1>1, <1>2, <1>3 DEF TypeOK
<1>5. StepTasks
  BY <1>2 DEF StepTasks
<1>6. EndIsRecorded
  BY <1>3 DEF EndIsRecorded, WorkflowStatus
<1>7. OutcomesRefer /\ Alone /\ Undecided /\ Single
  BY <1>2, <1>3 DEF OutcomesRefer, Alone, Undecided, Single
<1> QED
  BY <1>4, <1>5, <1>6, <1>7 DEF IInv

LEMMA AlwaysIInv == Spec => []IInv
<1>1. IInv /\ [Next]_vars => IInv'
  BY TypesKept, StepTasksKept, EndKept, OutcomesReferKept, StallsStay, AloneKept DEF IInv
<1> QED
  BY InitHolds, <1>1, PTL DEF Spec

\* The tables, the handler invocations and the bounds keep their types.
THEOREM TypeCorrect == Spec => []TypeOK
<1>1. IInv => TypeOK
  BY DEF IInv
<1> QED
  BY AlwaysIInv, <1>1, PTL

\* appendEvents enqueues one task of the right kind for each step it schedules, and only
\* those, whatever the handlers decide and however often they are run again.
THEOREM StepsHaveOneTask == Spec => []OneTaskPerStep
<1>1. ASSUME IInv PROVE OneTaskPerStep
  <2>1. ASSUME NEW s \in DOMAIN hist, hist[s].type \in StepEvent
        PROVE  Cardinality({t \in DOMAIN tasks : tasks[t].type # "workflow" /\ tasks[t].ref = s}) = 1
    <3>1. PICK t \in DOMAIN tasks : tasks[t].type # "workflow" /\ tasks[t].ref = s
      BY <1>1, <2>1 DEF IInv, StepTasks
    <3>2. {u \in DOMAIN tasks : tasks[u].type # "workflow" /\ tasks[u].ref = s} = {t}
      BY <1>1, <3>1 DEF IInv, StepTasks
    <3> QED
      BY <3>2, FS_Singleton
  <2>2. ASSUME NEW t \in DOMAIN tasks, tasks[t].type \in {"activity", "timer"}
        PROVE  /\ tasks[t].ref \in DOMAIN hist
               /\ tasks[t].type = "activity" => hist[tasks[t].ref].type = "ActivityScheduled"
               /\ tasks[t].type = "timer" => hist[tasks[t].ref].type = "TimerScheduled"
    <3>1. /\ tasks[t].ref \in DOMAIN hist /\ hist[tasks[t].ref].type \in StepEvent
          /\ tasks[t].type = TaskTypeOf(hist[tasks[t].ref])
      BY <1>1, <2>2 DEF IInv, StepTasks
    <3> QED
      BY <3>1 DEF TaskTypeOf, StepEvent
  <2> QED
    BY <2>1, <2>2 DEF OneTaskPerStep
<1> QED
  BY AlwaysIInv, <1>1, PTL

\* Crashes, failed queries, redeliveries and lost responses never give an activity a second
\* outcome, as long as no live worker loses a lease: the one invocation of its task records
\* an outcome only if it has found none.
THEOREM ActivitiesHaveOneOutcome == Spec => []OneOutcomePerActivity
<1>1. ASSUME IInv PROVE OneOutcomePerActivity
  <2> SUFFICES ASSUME ~stalled, NEW s \in DOMAIN hist, hist[s].type = "ActivityScheduled"
               PROVE  Cardinality(Outcomes(hist, s)) <= 1
    BY DEF OneOutcomePerActivity
  <2>1. \A q, r \in Outcomes(hist, s) : q = r
    BY <1>1 DEF IInv, Single, Outcomes
  <2>2. PICK some : some = Outcomes(hist, s)
    OBVIOUS
  <2>3. CASE some = {}
    <3>1. Cardinality(some) = 0
      BY <2>3, FS_EmptySet
    <3> QED
      BY <2>2, <3>1
  <2>4. ASSUME NEW r \in some
        PROVE  Cardinality(some) = 1
    <3>1. some = {r}
      BY <2>1, <2>2, <2>4
    <3> QED
      BY <3>1, FS_Singleton
  <2> QED
    BY <2>2, <2>3, <2>4
<1> QED
  BY AlwaysIInv, <1>1, PTL

\* No append, however late, makes an ended workflow run again or rewrites its history:
\* foldEvents finds a final event wherever it stands, and events are only added.
THEOREM EndsStay == Spec => EndedStaysEnded
<1>1. IInv /\ [Next]_vars => [Ended]_vars
  BY EndKept DEF IInv
<1>2. [Ended]_vars => [/\ exec \in WorkflowStatus \ {"RUNNING"} =>
                            exec' \in WorkflowStatus \ {"RUNNING"}
                       /\ SubSeq(hist', 1, Len(hist)) = hist]_vars
  BY DEF Ended
<1> QED
  BY AlwaysIInv, <1>1, <1>2, PTL DEF Spec, EndedStaysEnded

-----------------------------------------------------------------------------
(***************************************************************************)
(* What a workflow decides from its history: the steps it schedules are    *)
(* the calls of its function, in their order, and only a missed wakeup     *)
(* leaves it with a decision nobody will make.                             *)
(***************************************************************************)

-----------------------------------------------------------------------------
(***************************************************************************)
(* Ranks.                                                                  *)
(***************************************************************************)
Rank(S, k) == Cardinality(UpTo(S, k))

\* Numbers are in the order of their ranks.
LEMMA RanksOrder ==
  ASSUME NEW S \in SUBSET Nat, IsFiniteSet(S)
  PROVE  /\ Cardinality(S) \in Nat
         /\ \A k \in S : Rank(S, k) \in 1..Cardinality(S)
         /\ \A k, l \in S : k <= l <=> Rank(S, k) <= Rank(S, l)
         /\ \A k, l \in S : Rank(S, k) = Rank(S, l) => k = l
         /\ \A n \in 1..Cardinality(S) : \E k \in S : Rank(S, k) = n
<1>1. /\ Cardinality(S) \in Nat
      /\ \A k \in S : Rank(S, k) \in 1..Cardinality(S)
      /\ \A k, l \in S : Rank(S, k) = Rank(S, l) => k = l
      /\ \A n \in 1..Cardinality(S) : \E k \in S : Rank(S, k) = n
  BY Ranks DEF Rank
<1>2. ASSUME NEW k \in S, NEW l \in S, k <= l
      PROVE  Rank(S, k) <= Rank(S, l)
  <2>1. \A j \in S : j <= k => j <= l
    <3>1. \A j \in S : j \in Nat
      OBVIOUS
    <3> QED
      BY <1>2, <3>1
  <2>2. UpTo(S, k) \in SUBSET UpTo(S, l) /\ UpTo(S, l) \in SUBSET S
    BY <2>1, Zenon DEF UpTo
  <2> QED
    BY <2>2, FS_Subset DEF Rank
<1>3. ASSUME NEW k \in S, NEW l \in S, Rank(S, k) <= Rank(S, l)
      PROVE  k <= l
  <2>1. CASE l <= k
    <3>1. Rank(S, l) <= Rank(S, k)
      BY <1>2, <2>1
    <3>2. Rank(S, k) = Rank(S, l)
      BY <1>1, <1>3, <3>1
    <3> QED
      BY <1>1, <3>2
  <2>2. k <= l \/ l <= k
    OBVIOUS
  <2> QED
    BY <2>1, <2>2
<1> QED
  BY <1>1, <1>2, <1>3

\* A bijection of finite sets that keeps the order keeps the ranks.
LEMMA RanksCarryOver ==
  ASSUME NEW S \in SUBSET Nat, IsFiniteSet(S), NEW T \in SUBSET Nat, IsFiniteSet(T),
         NEW f \in [S -> T],
         \A k, l \in S : k <= l <=> f[k] <= f[l],
         \A t \in T : \E k \in S : f[k] = t
  PROVE  /\ Cardinality(S) = Cardinality(T)
         /\ \A k \in S : Rank(S, k) = Rank(T, f[k])
<1>0. \A k, l \in S : f[k] = f[l] => k = l
  <2> SUFFICES ASSUME NEW k \in S, NEW l \in S, f[k] = f[l] PROVE k = l
    OBVIOUS
  <2>1. f[k] \in Nat /\ f[l] \in Nat /\ k \in Nat /\ l \in Nat
    OBVIOUS
  <2>2. k <= l /\ l <= k
    BY <2>1
  <2> QED
    BY <2>1, <2>2
<1>1. ASSUME NEW A \in SUBSET S, NEW B, \A k \in A : f[k] \in B,
             \A t \in B : \E k \in A : f[k] = t
      PROVE  Cardinality(A) = Cardinality(B)
  <2> DEFINE g == [k \in A |-> f[k]]
  <2>1. g \in Bijection(A, B)
    <3>1. g \in [A -> B] /\ \A k \in A : g[k] = f[k]
      BY <1>1
    <3> HIDE DEF g
    <3> QED
      BY <1>0, <1>1, <3>1 DEF Bijection, Injection, Surjection, IsInjective
  <2>2. IsFiniteSet(A)
    BY FS_Subset
  <2> QED
    BY <2>1, <2>2, FS_Bijection DEF ExistsBijection
<1>2. Cardinality(S) = Cardinality(T)
  BY <1>1
<1>3. ASSUME NEW k \in S PROVE Rank(S, k) = Rank(T, f[k])
  <2>1. /\ UpTo(S, k) \in SUBSET S
        /\ \A j \in UpTo(S, k) : f[j] \in UpTo(T, f[k])
    BY DEF UpTo
  <2>2. \A t \in UpTo(T, f[k]) : \E j \in UpTo(S, k) : f[j] = t
    BY DEF UpTo
  <2> QED
    BY <1>1, <2>1, <2>2 DEF Rank
<1> QED
  BY <1>2, <1>3

\* Ordered lists a set by rank, and the part of a set keeps its order in the list.
LEMMA OrderedByRank ==
  ASSUME NEW S \in SUBSET Nat, IsFiniteSet(S)
  PROVE  /\ DOMAIN Ordered(S) = 1..Cardinality(S) /\ Cardinality(S) \in Nat
         /\ \A n \in DOMAIN Ordered(S) : Ordered(S)[n] \in S /\ Rank(S, Ordered(S)[n]) = n
<1>1. /\ Cardinality(S) \in Nat /\ DOMAIN Ordered(S) = 1..Cardinality(S)
  BY Ranks DEF Ordered
<1>2. ASSUME NEW n \in DOMAIN Ordered(S)
      PROVE  Ordered(S)[n] \in S /\ Rank(S, Ordered(S)[n]) = n
  <2>1. \E k \in S : Rank(S, k) = n
    BY <1>1, RanksOrder
  <2>2. Ordered(S)[n] = CHOOSE k \in S : Rank(S, k) = n
    BY <1>1 DEF Ordered, Rank, UpTo
  <2> QED
    BY <2>1, <2>2
<1> QED
  BY <1>1, <1>2

Places(S, T) == {n \in DOMAIN Ordered(S) : Ordered(S)[n] \in T}

LEMMA OrderedPart ==
  ASSUME NEW S \in SUBSET Nat, IsFiniteSet(S), NEW T \in SUBSET S
  PROVE  /\ Places(S, T) \in SUBSET Nat /\ IsFiniteSet(Places(S, T))
         /\ \A n \in Places(S, T) : Rank(Places(S, T), n) = Rank(T, Ordered(S)[n])
<1> PICK E : E = Places(S, T)
  OBVIOUS
<1> USE DEF Places
<1>0. /\ \A k \in S : Rank(S, k) \in 1..Cardinality(S)
      /\ \A k, l \in S : k <= l <=> Rank(S, k) <= Rank(S, l)
      /\ \A k, l \in S : Rank(S, k) = Rank(S, l) => k = l
  BY RanksOrder
<1>1. /\ DOMAIN Ordered(S) = 1..Cardinality(S) /\ Cardinality(S) \in Nat
      /\ \A n \in DOMAIN Ordered(S) : Ordered(S)[n] \in S /\ Rank(S, Ordered(S)[n]) = n
  BY OrderedByRank
<1>2. IsFiniteSet(DOMAIN Ordered(S)) /\ E \in SUBSET DOMAIN Ordered(S)
  BY <1>1, FS_Interval
<1>3. E \in SUBSET Nat /\ IsFiniteSet(E) /\ IsFiniteSet(T) /\ T \in SUBSET Nat
  <2>1. IsFiniteSet(E) /\ IsFiniteSet(T)
    BY <1>2, FS_Subset
  <2>2. E \in SUBSET Nat
    BY <1>1, <1>2
  <2> QED
    BY <2>1, <2>2
<1> DEFINE f == [n \in E |-> Ordered(S)[n]]
<1>4. f \in [E -> T] /\ \A n \in E : f[n] = Ordered(S)[n]
  OBVIOUS
<1> HIDE DEF f
<1>5. \A m, n \in E : m <= n <=> f[m] <= f[n]
  <2> SUFFICES ASSUME NEW m \in E, NEW n \in E PROVE m <= n <=> f[m] <= f[n]
    OBVIOUS
  <2>1. /\ f[m] \in S /\ Rank(S, f[m]) = m
        /\ f[n] \in S /\ Rank(S, f[n]) = n
    BY <1>1, <1>2, <1>4
  <2>2. f[m] <= f[n] <=> Rank(S, f[m]) <= Rank(S, f[n])
    BY <1>0, <2>1
  <2> QED
    BY <2>1, <2>2
<1>6. \A t \in T : \E n \in E : f[n] = t
  <2> SUFFICES ASSUME NEW t \in T PROVE \E n \in E : f[n] = t
    OBVIOUS
  <2>1. Rank(S, t) \in DOMAIN Ordered(S)
    BY <1>0, <1>1
  <2>2. Ordered(S)[Rank(S, t)] \in S /\ Rank(S, Ordered(S)[Rank(S, t)]) = Rank(S, t)
    BY <1>1, <2>1
  <2>3. Ordered(S)[Rank(S, t)] = t
    BY <1>0, <2>2, Zenon
  <2> QED
    BY <1>4, <2>1, <2>3
<1> QED
  BY <1>3, <1>4, <1>5, <1>6, RanksCarryOver

\* Of the numbers above the first m, each stands m places earlier.
LEMMA RanksAbove ==
  ASSUME NEW S \in SUBSET Nat, IsFiniteSet(S), NEW m \in Nat, NEW k \in S, Rank(S, k) > m
  PROVE  Cardinality({j \in S : j <= k /\ Rank(S, j) > m}) = Rank(S, k) - m
<1> DEFINE A == {j \in S : j <= k /\ Rank(S, j) > m}
           B == (m + 1)..Rank(S, k)
           f == [j \in A |-> Rank(S, j)]
<1>1. /\ Cardinality(S) \in Nat
      /\ \A j \in S : Rank(S, j) \in 1..Cardinality(S)
      /\ \A j, l \in S : j <= l <=> Rank(S, j) <= Rank(S, l)
      /\ \A j, l \in S : Rank(S, j) = Rank(S, l) => j = l
      /\ \A n \in 1..Cardinality(S) : \E j \in S : Rank(S, j) = n
  BY RanksOrder
<1>2. IsFiniteSet(B) /\ Cardinality(B) = Rank(S, k) - m
  BY <1>1, FS_Interval
<1>3. IsFiniteSet(A)
  <2>1. A \in SUBSET S
    OBVIOUS
  <2> QED
    BY <2>1, FS_Subset
<1>4. \A j \in A : Rank(S, j) \in B
  BY <1>1
<1>5. \A n \in B : \E j \in A : Rank(S, j) = n
  <2> SUFFICES ASSUME NEW n \in B PROVE \E j \in A : Rank(S, j) = n
    OBVIOUS
  <2>1. n \in 1..Cardinality(S) /\ n > m /\ n <= Rank(S, k)
    BY <1>1
  <2>2. PICK j \in S : Rank(S, j) = n
    BY <1>1, <2>1
  <2> QED
    BY <1>1, <2>1, <2>2
<1>6. f \in Bijection(A, B)
  <2>1. f \in [A -> B] /\ \A j \in A : f[j] = Rank(S, j) /\ j \in S
    BY <1>4
  <2>2. \A j, l \in A : f[j] = f[l] => j = l
    BY <1>1, <2>1
  <2>3. \A n \in B : \E j \in A : f[j] = n
    BY <1>5, <2>1
  <2> HIDE DEF A, B, f
  <2> QED
    BY <2>1, <2>2, <2>3 DEF Bijection, Injection, Surjection, IsInjective
<1> QED
  BY <1>2, <1>3, <1>6, FS_Bijection DEF ExistsBijection

\* Numbers that are added above all others rank after them.
Above(d, L, E) == L \cup {d + n : n \in E}

LEMMA RanksAdded ==
  ASSUME NEW d \in Nat, NEW L \in SUBSET (1..d), NEW E \in SUBSET Nat, IsFiniteSet(E),
         \A n \in E : n > 0
  PROVE  /\ \A s \in L : Rank(Above(d, L, E), s) = Rank(L, s)
         /\ \A n \in E : /\ d + n \in Above(d, L, E)
                          /\ Rank(Above(d, L, E), d + n) = Cardinality(L) + Rank(E, n)
<1> PICK G : G = Above(d, L, E)
  OBVIOUS
<1> USE DEF Above
<1>1. L \in SUBSET Nat /\ IsFiniteSet(L) /\ \A s \in L : s \in 1..d
  <2>1. IsFiniteSet(1..d) /\ 1..d \in SUBSET Nat
    BY FS_Interval
  <2>2. IsFiniteSet(L)
    BY <2>1, FS_Subset
  <2> QED
    BY <2>1, <2>2
<1> DEFINE shifted(X) == {d + n : n \in X}
<1>2. ASSUME NEW X \in SUBSET E
      PROVE  /\ IsFiniteSet(shifted(X)) /\ Cardinality(shifted(X)) = Cardinality(X)
             /\ IsFiniteSet(X) /\ shifted(X) \in SUBSET Nat
  <2> DEFINE f == [n \in X |-> d + n]
  <2>1. f \in Bijection(X, shifted(X))
    <3>1. \A m, n \in X : d + m = d + n => m = n
      OBVIOUS
    <3>2. f \in [X -> shifted(X)] /\ \A n \in X : f[n] = d + n
      OBVIOUS
    <3>3. \A t \in shifted(X) : \E n \in X : d + n = t
      OBVIOUS
    <3> HIDE DEF f, shifted
    <3> QED
      BY <3>1, <3>2, <3>3 DEF Bijection, Injection, Surjection, IsInjective
  <2>2. IsFiniteSet(X) /\ shifted(X) \in SUBSET Nat
    <3>1. IsFiniteSet(X)
      BY FS_Subset
    <3>2. \A n \in X : d + n \in Nat
      OBVIOUS
    <3> QED
      BY <3>1, <3>2
  <2> HIDE DEF f, shifted
  <2> QED
    BY <2>1, <2>2, FS_Bijection DEF ExistsBijection
<1>3. G \in SUBSET Nat /\ IsFiniteSet(G)
  BY <1>1, <1>2, FS_Union
<1>4. ASSUME NEW s \in L PROVE Rank(G, s) = Rank(L, s)
  <2>1. \A n \in E : ~(d + n <= s)
    BY <1>1
  <2>2. UpTo(G, s) = UpTo(L, s)
    BY <2>1 DEF UpTo
  <2> QED
    BY <2>2 DEF Rank
<1>5. ASSUME NEW n \in E
      PROVE  d + n \in G /\ Rank(G, d + n) = Cardinality(L) + Rank(E, n)
  <2>1. UpTo(E, n) \in SUBSET E
    BY DEF UpTo
  <2>2. UpTo(G, d + n) = L \cup shifted(UpTo(E, n))
    <3>1. \A s \in L : s <= d + n
      BY <1>1
    <3>2. \A k \in E : d + k <= d + n <=> k <= n
      OBVIOUS
    <3> QED
      BY <3>1, <3>2, Zenon DEF UpTo
  <2>3. L \cap shifted(UpTo(E, n)) = {}
    BY DEF UpTo
  <2> HIDE DEF shifted
  <2>4. /\ IsFiniteSet(shifted(UpTo(E, n))) /\ Cardinality(shifted(UpTo(E, n))) = Rank(E, n)
        /\ IsFiniteSet(UpTo(E, n))
    BY <1>2, <2>1 DEF Rank
  <2>5. Cardinality(L) \in Nat /\ Rank(E, n) \in Nat
    BY <1>1, <2>4, FS_CardinalityType DEF Rank
  <2>6. Cardinality(L \cup shifted(UpTo(E, n))) = Cardinality(L) + Rank(E, n) - Cardinality({})
    BY <1>1, <2>3, <2>4, FS_Union
  <2>7. Cardinality({}) = 0
    BY FS_EmptySet
  <2>8. Rank(G, d + n) = Cardinality(L) + Rank(E, n)
    <3>1. Rank(G, d + n) = Cardinality(L \cup shifted(UpTo(E, n)))
      BY <2>2, Zenon DEF Rank
    <3> QED
      BY <2>5, <2>6, <2>7, <3>1
  <2>9. d + n \in G
    OBVIOUS
  <2> QED
    BY <2>8, <2>9
<1> QED
  BY <1>1, <1>3, <1>4, <1>5

-----------------------------------------------------------------------------
(***************************************************************************)
(* Lanes: the calls of a kind and the events that answer them.             *)
(***************************************************************************)
Calls(c) == {k \in DOMAIN program : SameLane(program[k], c)}

\* What names a lane: a call, or the like of one for the lane of a kind.
LaneCall == [kind : {"activity", "timer", "signal"}, name : STRING \cup {None}, stage : Nat]

Lane(h, c) == {s \in DOMAIN h : InLane(h[s], c)}

\* The calls for which a pass makes events.
NewCalls(h) ==
  {k \in DOMAIN program : Reached(h, k) /\ program[k].kind # "signal" /\ Answer(h, k) = "new"}

LEMMA ProgramCalls ==
  ASSUME program \in Program
  PROVE  /\ program \in Seq(Call) /\ DOMAIN program = 1..Len(program) /\ Len(program) \in Nat
         /\ \A k \in DOMAIN program : program[k] \in Call /\ k \in Nat
         /\ \A j, k \in DOMAIN program : j <= k => program[j].stage <= program[k].stage
<1>1. /\ program \in Seq(Call)
      /\ \A j, k \in DOMAIN program : j <= k => program[j].stage <= program[k].stage
  BY DEF Program
<1>2. /\ DOMAIN program = 1..Len(program) /\ Len(program) \in Nat
      /\ \A k \in DOMAIN program : program[k] \in Call
  BY <1>1, LenProperties
<1> QED
  BY <1>1, <1>2

LEMMA LanesAreFinite ==
  ASSUME program \in Program, NEW h \in Seq(Event), NEW c
  PROVE  /\ Calls(c) \in SUBSET Nat /\ IsFiniteSet(Calls(c))
         /\ Lane(h, c) \in SUBSET Nat /\ IsFiniteSet(Lane(h, c))
         /\ NewCalls(h) \in SUBSET Nat /\ IsFiniteSet(NewCalls(h))
<1>1. /\ Calls(c) \subseteq DOMAIN program /\ Lane(h, c) \subseteq DOMAIN h
      /\ NewCalls(h) \subseteq DOMAIN program
  BY DEF Calls, Lane, NewCalls
<1> QED
  BY <1>1, ProgramCalls, IndicesAreFinite

\* Calls that share a lane.
LEMMA SharedLane ==
  ASSUME program \in Program, NEW h, NEW c \in LaneCall, NEW k \in Calls(c)
  PROVE  /\ Calls(program[k]) = Calls(c) /\ Lane(h, program[k]) = Lane(h, c)
         /\ k \in DOMAIN program /\ k \in Calls(program[k]) /\ program[k].kind = c.kind
<1>1. k \in DOMAIN program /\ SameLane(program[k], c)
  BY DEF Calls
<1>2. program[k] \in Call
  BY <1>1, ProgramCalls
<1>3. /\ program[k].kind = c.kind /\ c.kind \in {"activity", "timer", "signal"}
      /\ c.kind = "signal" => program[k].name = c.name
  BY <1>1, <1>2 DEF SameLane, Call, LaneCall
<1>4. \A d : SameLane(d, program[k]) <=> SameLane(d, c)
  BY <1>3 DEF SameLane
<1>5. \A e : InLane(e, program[k]) <=> InLane(e, c)
  BY <1>3 DEF InLane
<1>6. SameLane(program[k], program[k])
  BY DEF SameLane
<1> QED
  BY <1>1, <1>3, <1>4, <1>5, <1>6 DEF Calls, Lane

\* The n-th call of a lane is paired with the lane's n-th event.
LEMMA MatchedInLane ==
  ASSUME program \in Program, NEW h \in Seq(Event), NEW c \in LaneCall, NEW k \in Calls(c)
  PROVE  /\ Rank(Calls(c), k) \in Nat /\ Rank(Calls(c), k) > 0
         /\ Cardinality(Lane(h, c)) \in Nat
         /\ Rank(Calls(c), k) > Cardinality(Lane(h, c)) => Matched(h, k) = 0
         /\ Rank(Calls(c), k) <= Cardinality(Lane(h, c)) =>
              Matched(h, k) \in Lane(h, c) /\ Rank(Lane(h, c), Matched(h, k)) = Rank(Calls(c), k)
<1> DEFINE n == Rank(Calls(c), k)
           lane == Lane(h, c)
           nth == {s \in lane : Rank(lane, s) = n}
<1>1. /\ Calls(program[k]) = Calls(c) /\ Lane(h, program[k]) = lane
      /\ k \in DOMAIN program /\ program[k].kind = c.kind
  BY SharedLane
<1>2. /\ Calls(c) \in SUBSET Nat /\ IsFiniteSet(Calls(c))
      /\ lane \in SUBSET Nat /\ IsFiniteSet(lane)
  BY LanesAreFinite
<1>3. n \in Nat /\ n > 0 /\ Cardinality(lane) \in Nat
  BY <1>2, RanksOrder
<1>4. /\ \A s \in lane : Rank(lane, s) \in 1..Cardinality(lane)
      /\ \A m \in 1..Cardinality(lane) : \E s \in lane : Rank(lane, s) = m
  BY <1>2, RanksOrder
<1>5. Matched(h, k) = IF nth = {} THEN 0 ELSE Max(nth)
  <2>1. {j \in 1..k : SameLane(program[j], program[k])} = UpTo(Calls(program[k]), k)
    <3>1. \A j : j \in 1..k <=> j \in DOMAIN program /\ j <= k
      BY <1>1, ProgramCalls
    <3> QED
      BY <3>1 DEF UpTo, Calls
  <2>2. \A s : UpTo(lane, s) = {r \in lane : r <= s}
    BY DEF UpTo
  <2>3. lane = {s \in DOMAIN h : InLane(h[s], program[k])}
    BY <1>1 DEF Lane
  <2>4. Cardinality({j \in 1..k : SameLane(program[j], program[k])}) = n
    BY <1>1, <2>1 DEF Rank
  <2> HIDE DEF lane, n
  <2>5. nth = {s \in lane : Cardinality({r \in lane : r <= s}) = n}
    BY <2>2 DEF Rank
  <2> HIDE DEF nth
  <2> QED
    BY <2>3, <2>4, <2>5 DEF Matched
<1>6. CASE n > Cardinality(lane)
  <2>1. nth = {}
    BY <1>3, <1>4, <1>6
  <2> QED
    BY <1>3, <1>5, <1>6, <2>1
<1>7. CASE n <= Cardinality(lane)
  <2>1. n \in 1..Cardinality(lane)
    BY <1>3, <1>7
  <2>2. nth # {}
    BY <1>4, <2>1
  <2>3. nth \in SUBSET lane
    OBVIOUS
  <2>4. nth \in SUBSET Nat /\ IsFiniteSet(nth)
    BY <1>2, <2>3, FS_Subset
  <2>5. Max(nth) \in nth
    BY <2>2, <2>4, MaxIsThere
  <2> QED
    BY <1>3, <1>5, <1>7, <2>2, <2>5
<1> QED
  BY <1>3, <1>6, <1>7

LEMMA NewIsUnmatched ==
  ASSUME program \in Program, NEW h, NEW k \in DOMAIN program
  PROVE  Answer(h, k) = "new" <=> Matched(h, k) = 0
<1>1. CASE Matched(h, k) = 0
  BY <1>1 DEF Answer
<1>2. CASE Matched(h, k) # 0 /\ program[k].kind = "signal"
  BY <1>2 DEF Answer
<1>3. CASE Matched(h, k) # 0 /\ program[k].kind # "signal"
  BY <1>3 DEF Answer
<1> QED
  BY <1>1, <1>2, <1>3

\* What a pass finds new in a lane are the calls after those that have events, without a
\* gap: the function reaches the calls of its stages in their order.
LEMMA NewCallsAreNext ==
  ASSUME program \in Program, NEW h \in Seq(Event), NEW c \in LaneCall, c.kind # "signal",
         NEW new, new = NewCalls(h) \cap Calls(c), NEW k \in new
  PROVE  /\ Rank(Calls(c), k) > Cardinality(Lane(h, c))
         /\ Rank(new, k) = Rank(Calls(c), k) - Cardinality(Lane(h, c))
<1> DEFINE m == Cardinality(Lane(h, c))
<1>1. /\ Calls(c) \in SUBSET Nat /\ IsFiniteSet(Calls(c))
      /\ k \in DOMAIN program /\ k \in Calls(c) /\ k \in NewCalls(h)
  BY LanesAreFinite DEF NewCalls
<1>2. m \in Nat /\ \A j \in Calls(c) : Matched(h, j) = 0 <=> Rank(Calls(c), j) > m
  <2>1. ASSUME NEW j \in Calls(c)
        PROVE  /\ m \in Nat /\ Rank(Calls(c), j) \in Nat
               /\ Rank(Calls(c), j) > m => Matched(h, j) = 0
               /\ Rank(Calls(c), j) <= m => Matched(h, j) \in Lane(h, c)
    BY MatchedInLane
  <2>2. 0 \notin Lane(h, c)
    BY LenProperties DEF Lane
  <2> HIDE DEF m
  <2> QED
    BY <1>1, <2>1, <2>2
<1>3. \A j \in Calls(c) : j \in DOMAIN program /\ (Answer(h, j) = "new" <=> Rank(Calls(c), j) > m)
  BY <1>2, NewIsUnmatched DEF Calls
<1>4. ASSUME NEW j \in Calls(c), j <= k, Rank(Calls(c), j) > m
      PROVE  j \in new
  <2>1. program[j].stage <= program[k].stage
    BY <1>1, <1>3, <1>4, ProgramCalls
  <2>2. Reached(h, k)
    BY <1>1 DEF NewCalls
  <2>3. Reached(h, j)
    <3>1. ASSUME NEW i \in DOMAIN program, program[i].stage < program[j].stage
          PROVE  program[i].stage < program[k].stage
      <4>1. program[i].stage \in Nat /\ program[j].stage \in Nat /\ program[k].stage \in Nat
        BY <1>1, <1>3, <1>4, <3>1, ProgramCalls DEF Call
      <4> QED
        BY <2>1, <3>1, <4>1
    <3> QED
      BY <2>2, <3>1 DEF Reached
  <2>4. program[j].kind # "signal"
    BY SharedLane
  <2> QED
    BY <1>3, <1>4, <2>3, <2>4 DEF NewCalls
<1>5. \A j \in new : j \in Calls(c) /\ Rank(Calls(c), j) > m
  BY <1>3 DEF NewCalls
<1>6. UpTo(new, k) = {j \in Calls(c) : j <= k /\ Rank(Calls(c), j) > m}
  BY <1>4, <1>5 DEF UpTo
<1>7. Rank(Calls(c), k) > m
  BY <1>5
<1>8. Cardinality({j \in Calls(c) : j <= k /\ Rank(Calls(c), j) > m}) = Rank(Calls(c), k) - m
  BY <1>1, <1>2, <1>7, RanksAbove
<1> QED
  BY <1>6, <1>7, <1>8 DEF Rank

\* The events of a pass, in the order of the calls.
LEMMA NewStepsInOrder ==
  ASSUME program \in Program, NEW h \in Seq(Event)
  PROVE  /\ NewSteps(h) \in Seq(Event) /\ DOMAIN NewSteps(h) = DOMAIN Ordered(NewCalls(h))
         /\ \A n \in DOMAIN NewSteps(h) :
              LET k == Ordered(NewCalls(h))[n]
              IN  /\ k \in NewCalls(h)
                  /\ NewSteps(h)[n] = IF program[k].kind = "activity"
                                      THEN Of("ActivityScheduled", program[k].name, 0)
                                      ELSE Plain("TimerScheduled")
<1> DEFINE new == NewCalls(h)
           event(k) == IF program[k].kind = "activity"
                       THEN Of("ActivityScheduled", program[k].name, 0)
                       ELSE Plain("TimerScheduled")
<1>1. new \in SUBSET Nat /\ IsFiniteSet(new)
  BY LanesAreFinite
<1>2. /\ DOMAIN Ordered(new) = 1..Cardinality(new) /\ Cardinality(new) \in Nat
      /\ \A n \in DOMAIN Ordered(new) : Ordered(new)[n] \in new
  BY <1>1, OrderedByRank
<1>3. NewSteps(h) = [n \in DOMAIN Ordered(new) |-> event(Ordered(new)[n])]
  BY DEF NewSteps, NewCalls
<1>4. \A k \in new : event(k) \in Event
  <2>1. /\ \A name \in STRING : Of("ActivityScheduled", name, 0) \in Event
        /\ Plain("TimerScheduled") \in Event
    BY MadeEvents
  <2>2. \A k \in new : program[k].name \in STRING
    BY ProgramCalls DEF NewCalls, Call
  <2> QED
    BY <2>1, <2>2
<1> HIDE DEF new, event
<1>5. NewSteps(h) \in [1..Cardinality(new) -> Event]
  BY <1>2, <1>3, <1>4
<1>6. NewSteps(h) \in Seq(Event)
  BY <1>2, <1>5
<1>7. /\ DOMAIN NewSteps(h) = DOMAIN Ordered(new)
      /\ \A n \in DOMAIN NewSteps(h) :
           Ordered(new)[n] \in new /\ NewSteps(h)[n] = event(Ordered(new)[n])
  BY <1>2, <1>3
<1> QED
  BY <1>6, <1>7 DEF new, event

\* An event of a pass is in the lane of its call, and of the call's name.
LEMMA StepsOfALane ==
  ASSUME program \in Program, NEW h \in Seq(Event), NEW c \in LaneCall, c.kind # "signal",
         NEW n \in DOMAIN NewSteps(h), NEW k, k = Ordered(NewCalls(h))[n]
  PROVE  /\ n \in Lane(NewSteps(h), c) <=> k \in Calls(c)
         /\ c.kind = "activity" /\ k \in Calls(c) => NewSteps(h)[n].name = program[k].name
<1>1. /\ k \in NewCalls(h)
      /\ NewSteps(h)[n] = IF program[k].kind = "activity"
                          THEN Of("ActivityScheduled", program[k].name, 0)
                          ELSE Plain("TimerScheduled")
  BY NewStepsInOrder
<1>2. /\ k \in DOMAIN program /\ program[k] \in Call /\ program[k].kind \in {"activity", "timer"}
      /\ c.kind \in {"activity", "timer"}
  BY <1>1, ProgramCalls DEF NewCalls, Call, LaneCall
<1>3. k \in Calls(c) <=> program[k].kind = c.kind
  BY <1>2 DEF Calls, SameLane
<1>4. CASE program[k].kind = "activity"
  <2>1. NewSteps(h)[n].type = "ActivityScheduled" /\ NewSteps(h)[n].name = program[k].name
    BY <1>1, <1>4 DEF Of
  <2> QED
    BY <1>2, <1>3, <1>4, <2>1 DEF Lane, InLane
<1>5. CASE program[k].kind = "timer"
  <2>1. NewSteps(h)[n].type = "TimerScheduled"
    BY <1>1, <1>5 DEF Plain, Of
  <2> QED
    BY <1>2, <1>3, <1>5, <2>1 DEF Lane, InLane
<1> QED
  BY <1>2, <1>4, <1>5

\* Appended to a history with as many events of the lane as it was made from, what a pass
\* schedules comes to stand where its calls stand.
StepsTakePlace(base, h, g, c) ==
  /\ \A s \in Lane(base, c) :
       s \in Lane(g, c) /\ Rank(Lane(g, c), s) = Rank(Lane(base, c), s) /\ g[s] = base[s]
  /\ \A s \in Lane(g, c) : s \notin Lane(base, c) =>
       \E n \in DOMAIN NewSteps(h) :
         /\ s = Len(base) + n /\ g[s] = NewSteps(h)[n] /\ Ordered(NewCalls(h))[n] \in Calls(c)
  /\ \A n \in DOMAIN NewSteps(h) : Ordered(NewCalls(h))[n] \in Calls(c) =>
       /\ Len(base) + n \in Lane(g, c)
       /\ Rank(Lane(g, c), Len(base) + n) = Rank(Calls(c), Ordered(NewCalls(h))[n])

LEMMA StepsAreFollowed ==
  ASSUME program \in Program, NEW h \in Seq(Event), NEW c \in LaneCall, c.kind # "signal",
         NEW base \in Seq(Event), Lane(base, c) = Lane(h, c)
  PROVE  StepsTakePlace(base, h, base \o NewSteps(h), c)
<1> PICK g : g = base \o NewSteps(h)
  OBVIOUS
<1> DEFINE steps == NewSteps(h)
           ks == Ordered(NewCalls(h))
           new == NewCalls(h) \cap Calls(c)
           L == Lane(base, c)
           E == Lane(steps, c)
           d == Len(base)
<1>1. /\ steps \in Seq(Event) /\ DOMAIN steps = DOMAIN ks
      /\ DOMAIN steps = 1..Len(steps) /\ Len(steps) \in Nat
      /\ DOMAIN base = 1..d /\ d \in Nat
  BY NewStepsInOrder, LenProperties
<1>2. /\ Len(g) = d + Len(steps) /\ DOMAIN g = 1..(d + Len(steps))
      /\ \A s \in 1..(d + Len(steps)) : g[s] = IF s <= d THEN base[s] ELSE steps[s - d]
  <2>1. /\ g \in Seq(Event) /\ Len(g) = Len(base) + Len(steps)
        /\ \A s \in 1..(Len(base) + Len(steps)) :
             g[s] = IF s <= Len(base) THEN base[s] ELSE steps[s - Len(base)]
    BY <1>1, ConcatProperties
  <2> QED
    BY <2>1, LenProperties
<1>3. \A n \in DOMAIN steps : /\ ks[n] \in NewCalls(h)
                              /\ n \in E <=> ks[n] \in Calls(c)
  BY NewStepsInOrder, StepsOfALane
<1>4. /\ L \in SUBSET (1..d) /\ E \in SUBSET (1..Len(steps))
      /\ \A s \in L : InLane(base[s], c)
      /\ \A s \in 1..d : InLane(base[s], c) => s \in L
      /\ \A n \in E : InLane(steps[n], c)
      /\ \A n \in 1..Len(steps) : InLane(steps[n], c) => n \in E
  BY <1>1 DEF Lane
<1>5. E = {n \in DOMAIN ks : ks[n] \in new}
  BY <1>1, <1>3, <1>4
<1>6. /\ NewCalls(h) \in SUBSET Nat /\ IsFiniteSet(NewCalls(h))
      /\ Cardinality(L) \in Nat
  BY LanesAreFinite, FS_CardinalityType
<1>7. /\ E \in SUBSET Nat /\ IsFiniteSet(E)
      /\ \A n \in E : Rank(E, n) = Rank(new, ks[n])
  <2>1. E = Places(NewCalls(h), new)
    BY <1>5 DEF Places
  <2>2. new \in SUBSET NewCalls(h)
    OBVIOUS
  <2> HIDE DEF E, new
  <2> QED
    BY <1>6, <2>1, <2>2, OrderedPart
<1>8. \A n \in E : /\ ks[n] \in new
                   /\ Rank(new, ks[n]) = Rank(Calls(c), ks[n]) - Cardinality(L)
  <2>1. \A k \in new : Rank(new, k) = Rank(Calls(c), k) - Cardinality(Lane(h, c))
    BY NewCallsAreNext
  <2> QED
    BY <1>5, <2>1
<1> HIDE DEF steps, ks, new, L, E, d
<1>9. Lane(g, c) = L \cup {d + n : n \in E}
  <2>1. ASSUME NEW s \in Lane(g, c) PROVE s \in L \cup {d + n : n \in E}
    <3>1. s \in 1..(d + Len(steps)) /\ InLane(g[s], c)
      BY <1>2, <2>1 DEF Lane
    <3>2. CASE s <= d
      BY <1>1, <1>2, <1>4, <3>1, <3>2
    <3>3. CASE ~(s <= d)
      <4>1. s - d \in 1..Len(steps) /\ s = d + (s - d) /\ g[s] = steps[s - d]
        BY <1>1, <1>2, <3>1, <3>3
      <4> QED
        BY <1>4, <3>1, <4>1
    <3> QED
      BY <3>2, <3>3
  <2>2. ASSUME NEW s \in L PROVE s \in Lane(g, c)
    <3>1. s \in DOMAIN g /\ g[s] = base[s]
      BY <1>1, <1>2, <1>4
    <3> QED
      BY <1>4, <3>1 DEF Lane
  <2>3. ASSUME NEW n \in E PROVE d + n \in Lane(g, c)
    <3>1. d + n \in 1..(d + Len(steps)) /\ ~(d + n <= d) /\ (d + n) - d = n
      BY <1>1, <1>4
    <3>2. d + n \in DOMAIN g /\ g[d + n] = steps[n]
      BY <1>2, <3>1
    <3> QED
      BY <1>4, <3>2 DEF Lane
  <2> QED
    BY <2>1, <2>2, <2>3
<1>10. \A n \in E : n > 0
  BY <1>4
<1>11. /\ \A s \in L : Rank(Lane(g, c), s) = Rank(L, s)
       /\ \A n \in E : /\ d + n \in Lane(g, c)
                       /\ Rank(Lane(g, c), d + n) = Cardinality(L) + Rank(E, n)
  <2>1. Lane(g, c) = Above(d, L, E)
    BY <1>9 DEF Above
  <2>2. d \in Nat /\ L \in SUBSET (1..d) /\ E \in SUBSET Nat /\ IsFiniteSet(E)
    BY <1>1, <1>4, <1>7
  <2>3. /\ \A s \in L : Rank(Above(d, L, E), s) = Rank(L, s)
        /\ \A n \in E : /\ d + n \in Above(d, L, E)
                         /\ Rank(Above(d, L, E), d + n) = Cardinality(L) + Rank(E, n)
    BY <1>10, <2>2, RanksAdded
  <2> QED
    BY <2>1, <2>3
<1>12. \A n \in E : Rank(Lane(g, c), d + n) = Rank(Calls(c), ks[n])
  <2> SUFFICES ASSUME NEW n \in E PROVE Rank(Lane(g, c), d + n) = Rank(Calls(c), ks[n])
    OBVIOUS
  <2>1. ks[n] \in Calls(c)
    BY <1>8 DEF new
  <2>2. Rank(Calls(c), ks[n]) \in Nat
    BY <2>1, MatchedInLane
  <2> QED
    BY <1>6, <1>7, <1>8, <1>11, <2>2
<1>13. \A s \in L : s \in Lane(g, c) /\ g[s] = base[s]
  BY <1>1, <1>2, <1>4, <1>9
<1>14. \A n \in DOMAIN steps : ks[n] \in Calls(c) => n \in E
  BY <1>3
<1>15. ASSUME NEW s \in Lane(g, c), s \notin L
       PROVE  \E n \in DOMAIN steps : s = d + n /\ g[s] = steps[n] /\ ks[n] \in Calls(c)
  <2>1. PICK n \in E : s = d + n
    BY <1>9, <1>15
  <2>2. n \in DOMAIN steps /\ ks[n] \in Calls(c)
    BY <1>1, <1>3, <1>4, <2>1
  <2>3. s \in 1..(d + Len(steps)) /\ ~(s <= d) /\ s - d = n
    BY <1>1, <1>4, <2>1
  <2> QED
    BY <1>2, <2>1, <2>2, <2>3
<1> QED
  <2>1. StepsTakePlace(base, h, g, c)
    BY <1>11, <1>12, <1>13, <1>14, <1>15 DEF steps, ks, L, d, StepsTakePlace
  <2> QED
    BY <2>1

-----------------------------------------------------------------------------
(***************************************************************************)
(* The workflow task.                                                      *)
(***************************************************************************)

\* What the statements on the queue do to a row's status.
LEMMA StatusesChange ==
  ASSUME TypeOK
  PROVE  /\ \A t \in DOMAIN tasks :
              /\ \A w \in Workers : Dequeue(w, t) =>
                   tasks[t].status = "pending" /\ tasks'[t].status = "leased"
              /\ Reclaim(t) => tasks[t].status = "leased" /\ tasks'[t].status = "pending"
         /\ \A i \in invs :
              /\ CompleteTask(i) \/ FailTask(i) =>
                   IF OwnedBy(tasks[i.task], i.worker)
                   THEN /\ CompleteTask(i) => tasks'[i.task].status = "completed"
                        /\ FailTask(i) => tasks'[i.task].status \in {"pending", "dead"}
                   ELSE tasks'[i.task] = tasks[i.task]
<1>0. \A t \in DOMAIN tasks : tasks[t] \in Row
  BY RowsAreTyped
<1>1. ASSUME NEW t \in DOMAIN tasks, NEW w \in Workers, Dequeue(w, t)
      PROVE  tasks[t].status = "pending" /\ tasks'[t].status = "leased"
  <2>1. tasks'[t] = LeasedTo([tasks[t] EXCEPT !.due = TRUE], w)
    BY <1>1 DEF Dequeue
  <2>2. LeasedTo([tasks[t] EXCEPT !.due = TRUE], w).status = "leased"
    BY UpdatedRow, <1>0 DEF OwnedBy
  <2> QED
    BY <1>1, <2>1, <2>2 DEF Dequeue
<1>2. ASSUME NEW t \in DOMAIN tasks, Reclaim(t)
      PROVE  tasks[t].status = "leased" /\ tasks'[t].status = "pending"
  BY <1>0, <1>2 DEF Reclaim, Reclaimed, Row, RowOf
<1>3. ASSUME NEW i \in invs, CompleteTask(i) \/ FailTask(i)
      PROVE  IF OwnedBy(tasks[i.task], i.worker)
             THEN /\ CompleteTask(i) => tasks'[i.task].status = "completed"
                  /\ FailTask(i) => tasks'[i.task].status \in {"pending", "dead"}
             ELSE tasks'[i.task] = tasks[i.task]
  <2>1. i.task \in DOMAIN tasks /\ tasks[i.task] \in Row
    BY RowsAreTyped
  <2>2. /\ Completed(tasks[i.task]).status = "completed"
        /\ Failed(tasks[i.task]).status \in {"pending", "dead"}
    BY <2>1 DEF Completed, Failed, Row, RowOf
  <2>3. CASE ~OwnedBy(tasks[i.task], i.worker)
    BY <1>3, <2>1, <2>3 DEF CompleteTask, FailTask
  <2>4. CASE OwnedBy(tasks[i.task], i.worker)
    <3>1. /\ CompleteTask(i) => tasks'[i.task] = Completed(tasks[i.task])
          /\ FailTask(i) => tasks'[i.task] = Failed(tasks[i.task])
      BY <2>1, <2>4 DEF CompleteTask, FailTask
    <3> QED
      BY <2>2, <2>4, <3>1
  <2> QED
    BY <2>3, <2>4
<1> QED
  BY <1>1, <1>2, <1>3

LEMMA LiveRow ==
  ASSUME TypeOK, NEW t \in DOMAIN tasks
  PROVE  LiveWorkflowTask(tasks[t], Wf) <=>
           tasks[t].type = "workflow" /\ tasks[t].status \in {"pending", "leased"}
BY RowsAreTyped DEF LiveWorkflowTask, Live, Row, RowOf

\* appendEvents leaves a workflow task that is live, a new one only if there was none.
LEMMA WakeAppended ==
  ASSUME TypeOK, NEW events \in Seq(Event), NEW by, AppendEvents(events, by)
  PROVE  /\ \E t \in DOMAIN tasks' : LiveWorkflowTask(tasks'[t], Wf)
         /\ \A t \in DOMAIN tasks' : t \notin DOMAIN tasks /\ tasks'[t].type = "workflow" =>
              ~IndexRefuses /\ t = Len(tasks')
<1> DEFINE row == NewRow("workflow", Wf, 0, MaxAttempts, TRUE)
           wake == IF IndexRefuses THEN <<>> ELSE <<row>>
<1>1. PICK start \in Nat : start = Len(hist)
  BY LenProperties DEF TypeOK
<1>2. PICK steps \in Seq(Row) :
        /\ steps = StepRows(events, start)
        /\ \A m \in DOMAIN steps : steps[m].type # "workflow"
  <2>1. /\ StepRows(events, start) \in Seq(Row)
        /\ \A m \in DOMAIN StepRows(events, start) : \E n \in DOMAIN events :
             StepRows(events, start)[m].type = TaskTypeOf(events[n])
    BY StepRowsMatch
  <2>2. \A n : TaskTypeOf(events[n]) # "workflow"
    BY DEF TaskTypeOf
  <2> QED
    BY <2>1, <2>2
<1>3. row \in Row /\ LiveWorkflowTask(row, Wf)
  BY ScenariosAssumption DEF NewRow, Row, RowOf, Status, TaskType, LiveWorkflowTask, Live
<1> HIDE DEF row
<1>4. /\ wake \in Seq(Row) /\ Len(wake) = IF IndexRefuses THEN 0 ELSE 1
      /\ ~IndexRefuses => wake[1] = row
  BY <1>3
<1>5. tasks \in Seq(Row) /\ tasks' = (tasks \o steps) \o wake
  BY <1>1, <1>2 DEF TypeOK, AppendEvents, Row, row
<1> HIDE DEF wake
<1>6. /\ Len(tasks) \in Nat /\ Len(steps) \in Nat /\ Len(wake) \in Nat
      /\ DOMAIN tasks = 1..Len(tasks) /\ DOMAIN steps = 1..Len(steps)
  BY <1>2, <1>4, <1>5, LenProperties
<1>7. /\ tasks \o steps \in Seq(Row) /\ Len(tasks \o steps) = Len(tasks) + Len(steps)
      /\ \A t \in 1..(Len(tasks) + Len(steps)) :
           (tasks \o steps)[t] = IF t <= Len(tasks) THEN tasks[t] ELSE steps[t - Len(tasks)]
  BY <1>2, <1>5, ConcatProperties
<1>8. /\ tasks' \in Seq(Row) /\ Len(tasks') = Len(tasks) + Len(steps) + Len(wake)
      /\ \A t \in 1..(Len(tasks) + Len(steps) + Len(wake)) :
           tasks'[t] = IF t <= Len(tasks) + Len(steps)
                       THEN (tasks \o steps)[t] ELSE wake[t - (Len(tasks) + Len(steps))]
  <2>1. wake \in Seq(Row) /\ tasks \o steps \in Seq(Row) /\ tasks' = (tasks \o steps) \o wake
    BY <1>4, <1>5, <1>7
  <2> QED
    BY <1>7, <2>1, ConcatProperties
<1>9. DOMAIN tasks' = 1..(Len(tasks) + Len(steps) + Len(wake))
  BY <1>8, LenProperties
<1>10. ASSUME NEW t \in DOMAIN tasks', t \notin DOMAIN tasks, tasks'[t].type = "workflow"
       PROVE  ~IndexRefuses /\ t = Len(tasks')
  <2>1. t \in Nat /\ t > Len(tasks) /\ t <= Len(tasks) + Len(steps) + Len(wake)
    BY <1>6, <1>9, <1>10
  <2>2. ~(t <= Len(tasks) + Len(steps))
    <3> SUFFICES ASSUME t <= Len(tasks) + Len(steps) PROVE FALSE
      OBVIOUS
    <3>1. t - Len(tasks) \in DOMAIN steps /\ tasks'[t] = steps[t - Len(tasks)]
      BY <1>6, <1>7, <1>8, <2>1
    <3> QED
      BY <1>2, <1>10, <3>1
  <2> QED
    BY <1>4, <1>6, <1>8, <2>1, <2>2
<1>11. \E t \in DOMAIN tasks' : LiveWorkflowTask(tasks'[t], Wf)
  <2>1. CASE IndexRefuses
    <3>1. PICK t \in DOMAIN tasks : LiveWorkflowTask(tasks[t], Wf)
      BY <2>1 DEF IndexRefuses
    <3>2. t \in DOMAIN tasks' /\ tasks'[t] = tasks[t]
      BY RowsAppended
    <3> QED
      BY <3>1, <3>2
  <2>2. CASE ~IndexRefuses
    <3>1. /\ Len(tasks') \in DOMAIN tasks'
          /\ tasks'[Len(tasks')] = wake[Len(tasks') - (Len(tasks) + Len(steps))]
          /\ Len(tasks') - (Len(tasks) + Len(steps)) = 1
      BY <1>4, <1>6, <1>8, <1>9, <2>2
    <3>2. tasks'[Len(tasks')] = row
      BY <1>4, <2>2, <3>1
    <3> QED
      BY <1>3, <3>1, <3>2
  <2> QED
    BY <2>1, <2>2
<1> QED
  BY <1>10, <1>11

OneWorkflowTask ==
  \A t, u \in DOMAIN tasks :
    LiveWorkflowTask(tasks[t], Wf) /\ LiveWorkflowTask(tasks[u], Wf) => t = u

\* A caller appends one event, and no invocation moves.
LEMMA CallersEvent ==
  ASSUME TypeOK, StartWorkflow \/ (\E name \in Signals : SendSignal(name)) \/ CancelWorkflow
  PROVE  /\ UNCHANGED <<program, invs, stalled>>
         /\ \E event \in Event : /\ Appends(<<event>>, {})
                                 /\ event.type \notin StepEvent \cup OutcomeEvent \cup FinalEvent
<1>1. ASSUME NEW type \in {"WorkflowStarted", "CancellationRequested"}, AppendEvents(<<Plain(type)>>, {})
      PROVE  \E event \in Event :
               /\ AppendEvents(<<event>>, {})
               /\ event.type \notin StepEvent \cup OutcomeEvent \cup FinalEvent
  <2>1. Plain(type) \in Event /\ Plain(type).type = type
    BY MadeEvents
  <2> QED
    BY <1>1, <2>1 DEF StepEvent, OutcomeEvent, FinalEvent
<1>2. ASSUME NEW name \in Signals, SendSignal(name)
      PROVE  \E event \in Event :
               /\ AppendEvents(<<event>>, {})
               /\ event.type \notin StepEvent \cup OutcomeEvent \cup FinalEvent
  <2>1. /\ Of("SignalReceived", name, 0) \in Event
        /\ Of("SignalReceived", name, 0).type = "SignalReceived"
    BY MadeEvents, ScenariosAssumption
  <2> QED
    BY <1>2, <2>1 DEF SendSignal, External, StepEvent, OutcomeEvent, FinalEvent
<1>3. PICK event \in Event :
        /\ AppendEvents(<<event>>, {})
        /\ event.type \notin StepEvent \cup OutcomeEvent \cup FinalEvent
  BY <1>1, <1>2 DEF StartWorkflow, CancelWorkflow, External
<1>4. <<event>> \in Seq(Event) /\ \A n \in DOMAIN <<event>> : <<event>>[n] = event
  OBVIOUS
<1>5. Appends(<<event>>, {})
  BY <1>3, <1>4, Zenon DEF Appends, Refers
<1>6. UNCHANGED <<program, invs, stalled>>
  BY DEF StartWorkflow, SendSignal, CancelWorkflow, External
<1> QED
  BY <1>3, <1>5, <1>6

\* A row that is not completed.
Open == {"pending", "leased", "dead"}

\* How a step changes what the engine has recorded: the workflow handler appends what it
\* decided, someone else appends what schedules nothing, or nothing is appended.
NothingAppended ==
  /\ RowsStay /\ UNCHANGED hist
  /\ UNCHANGED exec \/ exec = "none"
  /\ UNCHANGED missed \/ \E i \in invs : ReadHistory(i)
  /\ \A t \in DOMAIN tasks :
       /\ LiveWorkflowTask(tasks'[t], Wf) => LiveWorkflowTask(tasks[t], Wf)
       /\ tasks[t].status \in Open => \/ tasks'[t].status \in Open
                                     \/ \E i \in invs : i.task = t /\ CompleteTask(i)

SchedulesNothing(events) == \A n \in DOMAIN events : events[n].type \notin StepEvent

OthersAppend ==
  \E events, by :
    /\ Appends(events, by) /\ SchedulesNothing(events)
    /\ \A i \in by : i \in invs /\ tasks[i.task].type # "workflow"

LEMMA AppendKinds ==
  ASSUME TypeOK, StepTasks, [Next]_vars
  PROVE  (\E i \in invs : AppendDecision(i)) \/ OthersAppend \/ NothingAppended
<1>1. ASSUME UNCHANGED <<hist, tasks>>, UNCHANGED exec \/ exec = "none",
             UNCHANGED missed \/ \E i \in invs : ReadHistory(i)
      PROVE  NothingAppended
  BY <1>1, RowsAreTyped DEF RowsStay, NothingAppended
<1>2. CASE CreateExecution \/ UNCHANGED vars \/ \E w \in Workers : Crash(w)
  BY <1>1, <1>2 DEF CreateExecution, vars, Crash
<1>3. ASSUME NEW i \in invs, HandlerErrors(i) \/ ReadHistory(i) \/ ReadForActivity(i)
      PROVE  NothingAppended
  <2>1. UNCHANGED <<hist, tasks, exec>> /\ (UNCHANGED missed \/ ReadHistory(i))
    BY <1>3 DEF HandlerErrors, ReadHistory, ReadForActivity
  <2> QED
    BY <1>1, <2>1
<1>4. ASSUME RowsStay, UNCHANGED <<hist, exec, missed>>, NEW t \in DOMAIN tasks,
             \A u \in DOMAIN tasks : u # t => tasks'[u] = tasks[u],
             \/ /\ tasks[t].status \in {"pending", "leased"}
                /\ \/ tasks'[t].status \in Open
                   \/ \E i \in invs : i.task = t /\ CompleteTask(i)
             \/ tasks'[t] = tasks[t]
      PROVE  NothingAppended
  <2>1. tasks'[t].type = tasks[t].type
    BY <1>4 DEF RowsStay
  <2>2. LiveWorkflowTask(tasks'[t], Wf) => LiveWorkflowTask(tasks[t], Wf)
    BY <1>4, <2>1, LiveRow DEF LiveWorkflowTask
  <2> QED
    BY <1>4, <2>2 DEF NothingAppended
<1>5. ASSUME NEW t \in DOMAIN tasks, NEW w \in Workers, Dequeue(w, t) PROVE NothingAppended
  <2>1. UNCHANGED <<hist, exec, missed>>
    BY <1>5 DEF Dequeue
  <2>2. tasks[t].status = "pending" /\ tasks'[t].status \in Open
    BY <1>5, StatusesChange DEF Open
  <2>3. RowsStay /\ \A u \in DOMAIN tasks : u # t => tasks'[u] = tasks[u]
    BY <1>5, QueueRows
  <2> QED
    BY <1>4, <2>1, <2>2, <2>3
<1>6. ASSUME NEW t \in DOMAIN tasks, Reclaim(t) PROVE NothingAppended
  <2>1. UNCHANGED <<hist, exec, missed>>
    BY <1>6 DEF Reclaim
  <2>2. tasks[t].status = "leased" /\ tasks'[t].status \in Open
    BY <1>6, StatusesChange DEF Open
  <2>3. RowsStay /\ \A u \in DOMAIN tasks : u # t => tasks'[u] = tasks[u]
    BY <1>6, QueueRows
  <2> QED
    BY <1>4, <2>1, <2>2, <2>3
<1>7. ASSUME NEW i \in invs, CompleteTask(i) \/ FailTask(i) PROVE NothingAppended
  <2>1. \/ tasks[i.task].status = "leased" /\ (tasks'[i.task].status \in Open \/ CompleteTask(i))
        \/ tasks'[i.task] = tasks[i.task]
    BY <1>7, StatusesChange DEF OwnedBy, Open
  <2>2. UNCHANGED <<hist, exec, missed>> /\ i.task \in DOMAIN tasks
    BY <1>7, RowsAreTyped DEF CompleteTask, FailTask
  <2>3. RowsStay /\ \A u \in DOMAIN tasks : u # i.task => tasks'[u] = tasks[u]
    BY <1>7, QueueRows
  <2> QED
    BY <1>4, <2>1, <2>2, <2>3
<1>8. CASE StartWorkflow \/ (\E name \in Signals : SendSignal(name)) \/ CancelWorkflow
  <2>1. PICK event \in Event : Appends(<<event>>, {}) /\ event.type \notin StepEvent
    BY <1>8, CallersEvent
  <2>2. SchedulesNothing(<<event>>)
    BY <2>1 DEF SchedulesNothing
  <2> QED
    BY <2>1, <2>2 DEF OthersAppend
<1>9. ASSUME NEW i \in invs,
             \/ AppendTimerFired(i)
             \/ \E type \in {"ActivityCompleted", "ActivityFailed"} : AppendOutcome(i, type)
      PROVE  OthersAppend
  <2>1. PICK type \in OutcomeEvent :
          LET event == Of(type, None, tasks[i.task].ref) IN Appends(<<event>>, {i})
    BY <1>9, HandlerAppends DEF OutcomeEvent
  <2>2. PICK event : event = Of(type, None, tasks[i.task].ref)
    OBVIOUS
  <2>3. event.type \notin StepEvent
    BY <2>2 DEF Of, OutcomeEvent, StepEvent
  <2>4. SchedulesNothing(<<event>>)
    BY <2>3 DEF SchedulesNothing
  <2>5. tasks[i.task].type # "workflow"
    BY <1>9 DEF AppendTimerFired, AppendOutcome, Handles
  <2> QED
    BY <2>1, <2>2, <2>4, <2>5 DEF OthersAppend
<1> QED
  BY <1>2, <1>3, <1>5, <1>6, <1>7, <1>8, <1>9 DEF Next, HandlerStep

LEMMA OneWorkflowTaskKept ==
  ASSUME TypeOK, StepTasks, OneWorkflowTask, [Next]_vars
  PROVE  OneWorkflowTask'
<1>1. CASE NothingAppended
  BY <1>1 DEF NothingAppended, RowsStay, OneWorkflowTask
<1>2. ASSUME NEW events, NEW by, Appends(events, by)
      PROVE  OneWorkflowTask'
  <2>1. events \in Seq(Event) /\ AppendEvents(events, by)
    BY <1>2 DEF Appends
  <2>2. \A t \in DOMAIN tasks : t \in DOMAIN tasks' /\ tasks'[t] = tasks[t]
    BY <2>1, RowsAppended
  <2>3. \A t \in DOMAIN tasks' : t \notin DOMAIN tasks /\ tasks'[t].type = "workflow" =>
          ~IndexRefuses /\ t = Len(tasks')
    BY <2>1, WakeAppended
  <2>4. ASSUME NEW t \in DOMAIN tasks', NEW u \in DOMAIN tasks',
               LiveWorkflowTask(tasks'[t], Wf), LiveWorkflowTask(tasks'[u], Wf)
        PROVE  t = u
    <3>1. tasks'[t].type = "workflow" /\ tasks'[u].type = "workflow"
      BY <2>4 DEF LiveWorkflowTask
    <3>2. IndexRefuses => t \in DOMAIN tasks /\ u \in DOMAIN tasks
      BY <2>3, <3>1
    <3>3. ~IndexRefuses => t \notin DOMAIN tasks /\ u \notin DOMAIN tasks
      BY <2>2, <2>4 DEF IndexRefuses
    <3> QED
      BY <2>2, <2>3, <2>4, <3>1, <3>2, <3>3 DEF OneWorkflowTask
  <2> QED
    BY <2>4 DEF OneWorkflowTask
<1>3. ASSUME NEW i \in invs, AppendDecision(i)
      PROVE  \E events, by : Appends(events, by)
  BY <1>3, HandlerAppends
<1> QED
  BY <1>1, <1>2, <1>3, AppendKinds DEF OthersAppend

\* Rows are of the same type ever after.
LEMMA TypesStay ==
  ASSUME TypeOK, StepTasks, [Next]_vars, NEW t \in DOMAIN tasks
  PROVE  t \in DOMAIN tasks' /\ tasks'[t].type = tasks[t].type
BY StepKinds, RowsAppended DEF RowsStay, Appends

\* Where the invocations of the workflow handler come from.
LEMMA WorkflowMoves ==
  ASSUME TypeOK, StepTasks, [Next]_vars, NEW k \in invs', tasks'[k.task].type = "workflow"
  PROVE  /\ k.task \in DOMAIN tasks /\ tasks[k.task].type = "workflow"
         /\ \/ k \in invs
            \/ k.pc \in {"start", "threw"}
            \/ UNCHANGED <<hist, exec>> /\ k.pc = "decided" /\ k.seen = Len(hist)
            \/ UNCHANGED <<hist, exec>> /\ k.pc = "returned" /\ Decision(hist) = <<>>
            \/ k.pc = "returned" /\ \E i \in invs : AppendDecision(i)
<1> DEFINE Goal ==
             \/ k \in invs
             \/ k.pc \in {"start", "threw"}
             \/ UNCHANGED <<hist, exec>> /\ k.pc = "decided" /\ k.seen = Len(hist)
             \/ UNCHANGED <<hist, exec>> /\ k.pc = "returned" /\ Decision(hist) = <<>>
             \/ k.pc = "returned" /\ \E i \in invs : AppendDecision(i)
<1>1. k.task \in DOMAIN tasks /\ tasks[k.task].type = "workflow"
  BY InvocationsStay, TypesStay DEF InvocationsOK
<1>2. \A i \in invs : i \in Invocation
  BY RowsAreTyped
<1>3. ASSUME NEW i \in invs, NEW pc, Becomes(i, pc), k \notin invs
      PROVE  k.pc = pc /\ k.task = i.task
  BY <1>2, <1>3 DEF Becomes, Invocation
<1>4. ASSUME NEW i \in invs, Decides(i), k \notin invs
      PROVE  k.pc = "decided" /\ k.seen = Len(hist)
  BY <1>2, <1>4 DEF Decides, Invocation
<1>5. ASSUME NEW i \in invs, HandlerErrors(i) PROVE Goal
  BY <1>3, <1>5 DEF HandlerErrors
<1>6. ASSUME NEW i \in invs, ReadHistory(i), k \notin invs PROVE Goal
  <2>1. UNCHANGED <<hist, exec>>
    BY <1>6 DEF ReadHistory
  <2>2. CASE Becomes(i, "threw") \/ Decides(i)
    BY <1>3, <1>4, <1>6, <2>1, <2>2
  <2>3. CASE ~CancelPending(hist) /\ Commands(hist) = <<>> /\ Becomes(i, "returned")
    <3>1. Decision(hist) = <<>> /\ k.pc = "returned"
      BY <1>3, <1>6, <2>3 DEF Decision
    <3> QED
      BY <2>1, <3>1
  <2> QED
    BY <1>6, <2>2, <2>3 DEF ReadHistory
<1>7. ASSUME NEW i \in invs, NEW pc, Becomes(i, pc), tasks[i.task].type # "workflow"
      PROVE  k \in invs
  BY <1>1, <1>3, <1>7
<1>8. ASSUME NEW i \in invs, NEW events, AppendAndReturn(i, events)
      PROVE  Becomes(i, "returned") \/ Becomes(i, "threw")
  BY <1>8 DEF AppendAndReturn
<1>9. ASSUME NEW i \in invs, ReadForActivity(i) PROVE Goal
  <2>1. PICK pc : Becomes(i, pc) /\ tasks[i.task].type # "workflow"
    BY <1>9 DEF ReadForActivity, Handles
  <2> QED
    BY <1>7, <2>1
<1>10. ASSUME NEW i \in invs,
              \/ AppendTimerFired(i)
              \/ \E type \in {"ActivityCompleted", "ActivityFailed"} : AppendOutcome(i, type)
       PROVE  Goal
  <2>1. PICK pc : Becomes(i, pc) /\ tasks[i.task].type # "workflow"
    BY <1>8, <1>10 DEF AppendTimerFired, AppendOutcome, Handles
  <2> QED
    BY <1>7, <2>1
<1>11. ASSUME NEW i \in invs, AppendDecision(i) PROVE Goal
  <2>1. Becomes(i, "returned") \/ Becomes(i, "threw")
    BY <1>8, <1>11 DEF AppendDecision
  <2> QED
    BY <1>3, <1>11, <2>1
<1>12. ASSUME NEW t \in DOMAIN tasks, NEW w \in Workers, Dequeue(w, t) PROVE Goal
  BY <1>12 DEF Dequeue
<1>13. invs' \subseteq invs => Goal
  OBVIOUS
<1> HIDE DEF Goal
<1>14. \/ invs' \subseteq invs
       \/ \E t \in DOMAIN tasks, w \in Workers : Dequeue(w, t)
       \/ \E i \in invs : HandlerStep(i) \/ HandlerErrors(i)
  BY DEF Next, vars, CreateExecution, StartWorkflow, SendSignal, CancelWorkflow, External, Reclaim,
         CompleteTask, FailTask, Crash
<1>15. Goal
  <2>1. k \in invs => Goal
    BY DEF Goal
  <2> QED
    BY <1>5, <1>6, <1>9, <1>10, <1>11, <1>12, <1>13, <1>14, <2>1 DEF HandlerStep
<1> QED
  BY <1>1, <1>15 DEF Goal

\* While no live worker loses a lease the workflow handler runs once at a time.
LEMMA LoneWorkflowInvocation ==
  ASSUME TypeOK, Alone, OneWorkflowTask, NEW i \in invs, NEW j \in invs,
         tasks[i.task].type = "workflow", tasks[j.task].type = "workflow"
  PROVE  i = j
<1>1. \A k \in {i, j} : k.task \in DOMAIN tasks /\ tasks[k.task].status = "leased"
  BY RowsAreTyped DEF Alone, OwnedBy
<1>2. i.task = j.task
  BY <1>1, LiveRow DEF OneWorkflowTask
<1> QED
  BY <1>2 DEF Alone

\* Nothing is scheduled between the read and the append of a workflow handler.
DecidedOnLanes ==
  \A i \in invs : Handles(i, "workflow", "decided") =>
    \A s \in DOMAIN hist : s > i.seen => hist[s].type \notin StepEvent

LEMMA DecidedOnLanesKept ==
  ASSUME TypeOK, StepTasks, Alone, OneWorkflowTask, DecidedOnLanes, [Next]_vars
  PROVE  DecidedOnLanes'
<1> SUFFICES ASSUME NEW k \in invs', tasks'[k.task].type = "workflow", k.pc = "decided",
                    NEW s \in DOMAIN hist', s > k.seen
             PROVE  hist'[s].type \notin StepEvent
  BY DEF DecidedOnLanes, Handles
<1>1. /\ tasks[k.task].type = "workflow"
      /\ \/ k \in invs
         \/ UNCHANGED hist /\ k.seen = Len(hist)
  BY WorkflowMoves
<1>2. CASE UNCHANGED hist /\ k.seen = Len(hist)
  <2>1. Len(hist) \in Nat /\ DOMAIN hist = 1..Len(hist)
    BY LenProperties DEF TypeOK
  <2> QED
    BY <1>2, <2>1
<1>3. CASE k \in invs
  <2>1. \A r \in DOMAIN hist : r > k.seen => hist[r].type \notin StepEvent
    BY <1>1, <1>3 DEF DecidedOnLanes, Handles
  <2>2. CASE NothingAppended
    BY <2>1, <2>2 DEF NothingAppended
  <2>3. ASSUME NEW i \in invs, AppendDecision(i) PROVE FALSE
    <3>1. tasks[i.task].type = "workflow" /\ i \notin invs'
      <4>1. Handles(i, "workflow", "decided") /\ (Becomes(i, "returned") \/ Becomes(i, "threw"))
        BY <2>3 DEF AppendDecision, AppendAndReturn
      <4>2. i \in Invocation
        BY RowsAreTyped
      <4>3. \A pc \in {"returned", "threw"} : [i EXCEPT !.pc = pc] # i
        BY <4>1, <4>2 DEF Handles, Invocation
      <4> QED
        BY <4>1, <4>3 DEF Becomes, Handles
    <3>2. i = k
      BY <1>1, <1>3, <3>1, LoneWorkflowInvocation
    <3> QED
      BY <3>1, <3>2
  <2>4. ASSUME NEW events, NEW by, Appends(events, by), SchedulesNothing(events)
        PROVE  hist'[s].type \notin StepEvent
    <3>1. /\ \A r \in DOMAIN hist : hist'[r] = hist[r]
          /\ s \notin DOMAIN hist => \E n \in DOMAIN events : hist'[s] = events[n]
      BY <2>4, EventsAppended DEF Appends
    <3> QED
      BY <2>1, <2>4, <3>1 DEF SchedulesNothing
  <2> QED
    BY <2>2, <2>3, <2>4, AppendKinds DEF OthersAppend
<1> QED
  BY <1>1, <1>2, <1>3

-----------------------------------------------------------------------------
(***************************************************************************)
(* The history follows the program.                                        *)
(***************************************************************************)

\* The n-th event of the lane stands for the lane's n-th call.
Follows(h, c) ==
  \A s \in Lane(h, c) : \E k \in Calls(c) :
    /\ Rank(Lane(h, c), s) = Rank(Calls(c), k)
    /\ c.kind = "activity" => h[s].name = program[k].name

LanesFollow == \A c \in LaneCall : c.kind # "signal" => Follows(hist, c)

\* An event in the lane of a step is a step event.
LEMMA LanesOfSteps ==
  ASSUME NEW c \in LaneCall, c.kind # "signal", NEW e, InLane(e, c)
  PROVE  e.type \in StepEvent
BY DEF LaneCall, InLane, StepEvent

\* The lanes of a history are those of its beginning when only that schedules steps.
LEMMA LanesOfABeginning ==
  ASSUME NEW g \in Seq(Event), NEW h \in Seq(Event), NEW c \in LaneCall, c.kind # "signal",
         \A s \in DOMAIN h : s \in DOMAIN g /\ g[s] = h[s],
         \A s \in DOMAIN g : s \notin DOMAIN h => g[s].type \notin StepEvent
  PROVE  Lane(g, c) = Lane(h, c)
<1>1. \A s \in Lane(g, c) : s \in Lane(h, c)
  BY LanesOfSteps DEF Lane
<1>2. \A s \in Lane(h, c) : s \in Lane(g, c)
  BY DEF Lane
<1> QED
  BY <1>1, <1>2

LEMMA FollowsOfABeginning ==
  ASSUME NEW g, NEW h, NEW c, Lane(g, c) = Lane(h, c), Follows(h, c),
         \A s \in Lane(h, c) : g[s] = h[s]
  PROVE  Follows(g, c)
BY DEF Follows

LEMMA LanesFollowKept ==
  ASSUME TypeOK, StepTasks, Alone, OneWorkflowTask, DecidedOnLanes, LanesFollow, [Next]_vars
  PROVE  LanesFollow'
<1>0. program' = program /\ program \in Program /\ hist \in Seq(Event)
  BY BoundsTyped DEF TypeOK
<1> SUFFICES ASSUME NEW c \in LaneCall, c.kind # "signal"
             PROVE  Follows(hist, c)'
  BY DEF LanesFollow
<1> SUFFICES Follows(hist', c)
  <2>1. Calls(c)' = Calls(c)
    BY <1>0 DEF Calls, SameLane
  <2> QED
    BY <1>0, <2>1 DEF Follows, Lane, InLane, Rank, UpTo
<1>1. Follows(hist, c) /\ c \in LaneCall /\ c.kind # "signal"
  BY DEF LanesFollow
<1>2. CASE NothingAppended
  BY <1>1, <1>2 DEF NothingAppended
<1>3. ASSUME NEW events, NEW by, Appends(events, by), SchedulesNothing(events)
      PROVE  Follows(hist', c)
  <2>1. /\ hist' \in Seq(Event)
        /\ \A s \in DOMAIN hist : s \in DOMAIN hist' /\ hist'[s] = hist[s]
        /\ \A s \in DOMAIN hist' : s \notin DOMAIN hist => hist'[s].type \notin StepEvent
    BY <1>3, EventsAppended DEF Appends, SchedulesNothing
  <2>2. Lane(hist', c) = Lane(hist, c)
    BY <1>0, <2>1, LanesOfABeginning
  <2>3. \A s \in Lane(hist, c) : hist'[s] = hist[s]
    BY <2>1 DEF Lane
  <2> QED
    BY <1>1, <2>2, <2>3, FollowsOfABeginning
<1>4. ASSUME NEW i \in invs, AppendDecision(i)
      PROVE  Follows(hist', c)
  <2>1. PICK h : h = SubSeq(hist, 1, i.seen)
    OBVIOUS
  <2>2. Handles(i, "workflow", "decided") /\ AppendAndReturn(i, Decision(h))
    BY <1>4, <2>1 DEF AppendDecision
  <2>3. /\ Decision(h) \in Seq(Event) /\ AppendEvents(Decision(h), {i})
        /\ hist' = hist \o Decision(h)
    BY <1>0, <2>2, DecisionIsMade DEF AppendAndReturn, AppendEvents
  <2>4. CASE Decision(h) # NewSteps(h)
    <3>1. PICK type \in FinalEvent : Decision(h) = <<Plain(type)>>
      BY <2>4 DEF Decision, Commands, FinalEvent
    <3>2. \A n \in DOMAIN Decision(h) : Decision(h)[n].type \notin StepEvent
      <4>1. \A n \in DOMAIN Decision(h) : Decision(h)[n] = Plain(type)
        BY <3>1
      <4> QED
        BY <4>1, MadeEvents DEF FinalEvent, StepEvent
    <3>3. /\ hist' \in Seq(Event)
          /\ \A s \in DOMAIN hist : s \in DOMAIN hist' /\ hist'[s] = hist[s]
          /\ \A s \in DOMAIN hist' : s \notin DOMAIN hist => hist'[s].type \notin StepEvent
      BY <2>3, <3>2, EventsAppended
    <3>4. Lane(hist', c) = Lane(hist, c)
      BY <1>0, <3>3, LanesOfABeginning
    <3>5. \A s \in Lane(hist, c) : hist'[s] = hist[s]
      BY <3>3 DEF Lane
    <3> QED
      BY <1>1, <3>4, <3>5, FollowsOfABeginning
  <2>5. CASE Decision(h) = NewSteps(h)
    <3>1. /\ h \in Seq(Event)
          /\ \A s \in DOMAIN h : s \in DOMAIN hist /\ hist[s] = h[s]
          /\ \A s \in DOMAIN hist : s \notin DOMAIN h => s > i.seen
      <4>1. i.seen \in Nat /\ i.seen <= Len(hist) /\ Len(hist) \in Nat
        BY RowsAreTyped, LenProperties DEF TypeOK, Invocation
      <4>2. DOMAIN hist = 1..Len(hist)
        BY <1>0, LenProperties
      <4>3. /\ h \in Seq(Event) /\ Len(h) = i.seen
            /\ \A s \in 1..i.seen : h[s] = hist[s]
        BY <1>0, <2>1, <4>1
      <4>4. DOMAIN h = 1..i.seen
        BY <4>3, LenProperties
      <4> QED
        BY <4>1, <4>2, <4>3, <4>4
    <3>2. Lane(hist, c) = Lane(h, c)
      <4>1. \A s \in DOMAIN hist : s \notin DOMAIN h => hist[s].type \notin StepEvent
        BY <2>2, <3>1 DEF DecidedOnLanes
      <4> QED
        BY <1>0, <3>1, <4>1, LanesOfABeginning
    <3>3. hist' = hist \o NewSteps(h)
      BY <2>3, <2>5
    <3>g. PICK g : g = hist'
      OBVIOUS
    <3>4. /\ \A s \in Lane(hist, c) :
               Rank(Lane(hist', c), s) = Rank(Lane(hist, c), s) /\ hist'[s] = hist[s]
          /\ \A s \in Lane(hist', c) : s \notin Lane(hist, c) =>
               \E n \in DOMAIN NewSteps(h) :
                 /\ s = Len(hist) + n /\ hist'[s] = NewSteps(h)[n]
                 /\ Ordered(NewCalls(h))[n] \in Calls(c)
          /\ \A n \in DOMAIN NewSteps(h) : Ordered(NewCalls(h))[n] \in Calls(c) =>
               Rank(Lane(hist', c), Len(hist) + n) = Rank(Calls(c), Ordered(NewCalls(h))[n])
      <4>1. Lane(hist, c) = Lane(h, c) /\ h \in Seq(Event) /\ hist \in Seq(Event)
        BY <1>0, <3>1, <3>2
      <4>2. StepsTakePlace(hist, h, hist \o NewSteps(h), c)
        BY <1>0, <1>1, <4>1, StepsAreFollowed
      <4>3. StepsTakePlace(hist, h, g, c)
        BY <3>3, <3>g, <4>2
      <4> QED
        BY <3>g, <4>3 DEF StepsTakePlace
    <3>5. ASSUME NEW s \in Lane(hist', c)
          PROVE  \E k \in Calls(c) :
                   /\ Rank(Lane(hist', c), s) = Rank(Calls(c), k)
                   /\ c.kind = "activity" => hist'[s].name = program[k].name
      <4>1. CASE s \in Lane(hist, c)
        BY <1>1, <3>4, <4>1 DEF Follows
      <4>2. CASE s \notin Lane(hist, c)
        <5>1. PICK n \in DOMAIN NewSteps(h) :
                /\ s = Len(hist) + n /\ hist'[s] = NewSteps(h)[n]
                /\ Ordered(NewCalls(h))[n] \in Calls(c)
          BY <3>4, <4>2
        <5>2. c.kind = "activity" =>
                NewSteps(h)[n].name = program[Ordered(NewCalls(h))[n]].name
          BY <1>0, <1>1, <3>1, <5>1, StepsOfALane
        <5> QED
          BY <3>4, <5>1, <5>2
      <4> QED
        BY <4>1, <4>2
    <3> QED
      BY <3>5 DEF Follows
  <2> QED
    BY <2>4, <2>5
<1> QED
  BY <1>2, <1>3, <1>4, AppendKinds DEF OthersAppend

\* A history that follows the program lists its calls in their order.
LEMMA FollowingIsInOrder ==
  ASSUME program \in Program, hist \in Seq(Event), NEW c \in LaneCall, Follows(hist, c)
  PROVE  LET calls == Ordered(Calls(c))
             lane == Ordered(Lane(hist, c))
         IN  /\ Len(lane) <= Len(calls)
             /\ c.kind = "activity" =>
                  \A n \in DOMAIN lane : hist[lane[n]].name = program[calls[n]].name
<1> DEFINE K == Calls(c)
           L == Lane(hist, c)
<1>1. K \in SUBSET Nat /\ IsFiniteSet(K) /\ L \in SUBSET Nat /\ IsFiniteSet(L)
  BY LanesAreFinite
<1>2. \A s \in L : \E k \in K :
        /\ Rank(L, s) = Rank(K, k)
        /\ c.kind = "activity" => hist[s].name = program[k].name
  BY DEF Follows
<1> HIDE DEF K, L
<1>3. ASSUME NEW S \in SUBSET Nat, IsFiniteSet(S)
      PROVE  Len(Ordered(S)) = Cardinality(S) /\ DOMAIN Ordered(S) = 1..Cardinality(S)
  <2>1. /\ Cardinality(S) \in Nat /\ DOMAIN Ordered(S) = 1..Cardinality(S)
        /\ \A n \in DOMAIN Ordered(S) : Ordered(S)[n] \in S
    BY <1>3, OrderedByRank
  <2> DEFINE nth(n) == CHOOSE k \in S : Cardinality({j \in S : j <= k}) = n
  <2>2. Ordered(S) = [n \in 1..Cardinality(S) |-> nth(n)]
    BY DEF Ordered
  <2> HIDE DEF nth
  <2>3. Ordered(S) \in [1..Cardinality(S) -> S]
    BY <2>1, <2>2
  <2> QED
    BY <2>1, <2>3
<1>4. /\ Cardinality(K) \in Nat /\ \A k \in K : Rank(K, k) \in 1..Cardinality(K)
      /\ \A k, l \in K : Rank(K, k) = Rank(K, l) => k = l
  BY <1>1, RanksOrder
<1>5. Cardinality(L) \in Nat /\ \A n \in 1..Cardinality(L) : \E s \in L : Rank(L, s) = n
  BY <1>1, RanksOrder
<1>6. Cardinality(L) <= Cardinality(K)
  <2>1. CASE Cardinality(L) = 0
    BY <1>4, <2>1
  <2>2. CASE Cardinality(L) # 0
    <3>1. Cardinality(L) \in 1..Cardinality(L)
      BY <1>5, <2>2
    <3>2. PICK s \in L : Rank(L, s) = Cardinality(L)
      BY <1>5, <3>1
    <3>3. PICK k \in K : Rank(K, k) = Cardinality(L)
      BY <1>2, <3>2
    <3> QED
      BY <1>4, <1>5, <3>3
  <2> QED
    BY <2>1, <2>2
<1>7. ASSUME c.kind = "activity", NEW n \in DOMAIN Ordered(L)
      PROVE  hist[Ordered(L)[n]].name = program[Ordered(K)[n]].name
  <2>1. Ordered(L)[n] \in L /\ Rank(L, Ordered(L)[n]) = n
    BY <1>1, OrderedByRank
  <2>2. PICK k \in K : Rank(K, k) = n /\ hist[Ordered(L)[n]].name = program[k].name
    BY <1>2, <1>7, <2>1
  <2>3. n \in DOMAIN Ordered(K)
    BY <1>1, <1>3, <1>4, <2>2
  <2>4. Ordered(K)[n] \in K /\ Rank(K, Ordered(K)[n]) = n
    BY <1>1, <2>3, OrderedByRank
  <2>5. Ordered(K)[n] = k
    BY <1>4, <2>2, <2>4, Zenon
  <2> QED
    BY <2>2, <2>5
<1>8. Len(Ordered(L)) = Cardinality(L) /\ Len(Ordered(K)) = Cardinality(K)
  BY <1>1, <1>3
<1> QED
  BY <1>6, <1>7, <1>8 DEF K, L

LInv == IInv /\ OneWorkflowTask /\ (~stalled => DecidedOnLanes /\ LanesFollow)

LEMMA AlwaysLInv == Spec => []LInv
<1>1. Init => LInv
  <2> SUFFICES ASSUME Init PROVE LInv
    OBVIOUS
  <2>1. /\ hist = <<>> /\ tasks = <<>> /\ invs = {} /\ DOMAIN hist = {} /\ DOMAIN tasks = {}
    BY EmptySeq DEF Init
  <2>2. OneWorkflowTask /\ DecidedOnLanes
    BY <2>1 DEF OneWorkflowTask, DecidedOnLanes
  <2>3. LanesFollow
    BY <2>1 DEF LanesFollow, Follows, Lane
  <2> QED
    BY <2>2, <2>3, InitHolds DEF LInv
<1>2. LInv /\ [Next]_vars /\ IInv' => LInv'
  <2> SUFFICES ASSUME LInv, [Next]_vars, IInv' PROVE LInv'
    OBVIOUS
  <2>1. TypeOK /\ StepTasks /\ OneWorkflowTask /\ (~stalled => Alone /\ DecidedOnLanes /\ LanesFollow)
    BY DEF LInv, IInv
  <2>2. OneWorkflowTask'
    BY <2>1, OneWorkflowTaskKept
  <2>3. ASSUME ~stalled' PROVE DecidedOnLanes' /\ LanesFollow'
    BY <2>1, <2>3, StallsStay, DecidedOnLanesKept, LanesFollowKept
  <2> QED
    BY <2>2, <2>3 DEF LInv
<1> QED
  BY AlwaysIInv, <1>1, <1>2, PTL DEF Spec

\* While no live worker loses a lease, the steps in the history are the program's calls in
\* their order, none skipped and none twice: the workflow task is one, so a handler appends
\* to the lanes it has read, and what it finds new are the calls that come next in them.
THEOREM HistoryFollowsProgram == Spec => []LanesFollowProgram
<1>1. ASSUME LInv PROVE LanesFollowProgram
  <2> SUFFICES ASSUME ~stalled, NEW kind \in {"activity", "timer"}, NEW c,
                      c = [kind |-> kind, name |-> None, stage |-> 0]
               PROVE  LET calls == Ordered(Calls(c))
                          lane == Ordered(Lane(hist, c))
                      IN  /\ Len(lane) <= Len(calls)
                          /\ kind = "activity" =>
                               \A n \in DOMAIN lane : hist[lane[n]].name = program[calls[n]].name
    BY DEF LanesFollowProgram, Calls, Lane
  <2>1. c \in LaneCall /\ c.kind = kind /\ c.kind # "signal"
    <3>1. kind \in {"activity", "timer", "signal"} /\ kind # "signal" /\ 0 \in Nat
      OBVIOUS
    <3>2. [kind |-> kind, name |-> None, stage |-> 0] \in LaneCall
      BY <3>1, Zenon DEF LaneCall
    <3> QED
      BY <3>1, <3>2
  <2>2. Follows(hist, c)
    BY <1>1, <2>1 DEF LInv, LanesFollow
  <2>3. program \in Program /\ hist \in Seq(Event)
    BY <1>1 DEF LInv, IInv, TypeOK
  <2> QED
    BY <2>1, <2>2, <2>3, FollowingIsInOrder
<1> QED
  BY AlwaysLInv, <1>1, PTL

-----------------------------------------------------------------------------
(***************************************************************************)
(* What a workflow has decided it does not decide again.                   *)
(***************************************************************************)

\* The event of a call is the one of its rank.
LEMMA MatchedByRank ==
  ASSUME program \in Program, NEW h \in Seq(Event), NEW k \in DOMAIN program,
         NEW s \in Lane(h, program[k]),
         Rank(Lane(h, program[k]), s) = Rank(Calls(program[k]), k)
  PROVE  Matched(h, k) = s
<1> DEFINE c == program[k]
<1>1. c \in LaneCall /\ k \in Calls(c)
  BY ProgramCalls DEF Call, LaneCall, Calls, SameLane
<1> HIDE DEF c
<1>2. s \in Lane(h, c) /\ Rank(Lane(h, c), s) = Rank(Calls(c), k)
  BY DEF c
<1>3. Lane(h, c) \in SUBSET Nat /\ IsFiniteSet(Lane(h, c))
  BY LanesAreFinite
<1>4. /\ \A r \in Lane(h, c) : Rank(Lane(h, c), r) \in 1..Cardinality(Lane(h, c))
      /\ \A q, r \in Lane(h, c) : Rank(Lane(h, c), q) = Rank(Lane(h, c), r) => q = r
      /\ Cardinality(Lane(h, c)) \in Nat
  BY <1>3, RanksOrder
<1>5. Rank(Calls(c), k) <= Cardinality(Lane(h, c))
  BY <1>2, <1>4
<1>6. Matched(h, k) \in Lane(h, c) /\ Rank(Lane(h, c), Matched(h, k)) = Rank(Calls(c), k)
  BY <1>1, <1>5, MatchedInLane
<1> QED
  BY <1>2, <1>4, <1>6, Zenon

\* ... and there is none if it has no event.
LEMMA MatchedHasRank ==
  ASSUME program \in Program, NEW h \in Seq(Event), NEW k \in DOMAIN program,
         Matched(h, k) # 0
  PROVE  /\ Matched(h, k) \in Lane(h, program[k])
         /\ Rank(Lane(h, program[k]), Matched(h, k)) = Rank(Calls(program[k]), k)
<1>1. program[k] \in LaneCall /\ k \in Calls(program[k])
  BY ProgramCalls DEF Call, LaneCall, Calls, SameLane
<1>2. /\ Rank(Calls(program[k]), k) \in Nat /\ Cardinality(Lane(h, program[k])) \in Nat
      /\ Rank(Calls(program[k]), k) > Cardinality(Lane(h, program[k])) => Matched(h, k) = 0
      /\ Rank(Calls(program[k]), k) <= Cardinality(Lane(h, program[k])) =>
           /\ Matched(h, k) \in Lane(h, program[k])
           /\ Rank(Lane(h, program[k]), Matched(h, k)) = Rank(Calls(program[k]), k)
  BY <1>1, MatchedInLane
<1> QED
  BY <1>2

RefersBack(h) == \A r \in DOMAIN h : h[r].type \in OutcomeEvent => h[r].ref \in DOMAIN h

\* The steps a pass schedules add no outcome and no signal.
OnlyStepsAdded(h, g) ==
  /\ g \in Seq(Event)
  /\ \A s \in DOMAIN h : s \in DOMAIN g /\ g[s] = h[s] /\ Outcomes(g, s) = Outcomes(h, s)
  /\ \A s \in DOMAIN g : s \notin DOMAIN h => g[s].type \in StepEvent
  /\ \A s : s \notin DOMAIN h => Outcomes(g, s) = {}

LEMMA NewStepsAppended ==
  ASSUME program \in Program, NEW h \in Seq(Event), RefersBack(h)
  PROVE  OnlyStepsAdded(h, h \o NewSteps(h))
<1> PICK g : g = h \o NewSteps(h)
  OBVIOUS
<1> SUFFICES OnlyStepsAdded(h, g)
  OBVIOUS
<1>1. /\ NewSteps(h) \in Seq(Event)
      /\ \A n \in DOMAIN NewSteps(h) : NewSteps(h)[n].type \in StepEvent
  <2>1. \A n \in DOMAIN NewSteps(h) : \E k :
          NewSteps(h)[n] = IF program[k].kind = "activity"
                           THEN Of("ActivityScheduled", program[k].name, 0)
                           ELSE Plain("TimerScheduled")
    BY NewStepsInOrder
  <2>2. \A n \in DOMAIN NewSteps(h) : NewSteps(h)[n].type \in StepEvent
    BY <2>1 DEF Of, Plain, StepEvent
  <2> QED
    BY <2>2, NewStepsInOrder
<1> PICK new \in Seq(Event) : new = NewSteps(h)
  BY <1>1
<1>2. /\ Len(h) \in Nat /\ Len(new) \in Nat
      /\ DOMAIN h = 1..Len(h) /\ DOMAIN new = 1..Len(new)
  BY LenProperties
<1>3. /\ g \in Seq(Event) /\ Len(g) = Len(h) + Len(new)
      /\ \A s \in 1..(Len(h) + Len(new)) :
           g[s] = IF s <= Len(h) THEN h[s] ELSE new[s - Len(h)]
  BY ConcatProperties
<1>4. DOMAIN g = 1..(Len(h) + Len(new))
  BY <1>3, LenProperties
<1>5. \A s \in DOMAIN h : s \in DOMAIN g /\ g[s] = h[s]
  BY <1>2, <1>3, <1>4
<1>6. ASSUME NEW s \in DOMAIN g, s \notin DOMAIN h
      PROVE  g[s].type \in StepEvent
  <2>1. s - Len(h) \in DOMAIN new /\ g[s] = new[s - Len(h)]
    BY <1>2, <1>3, <1>4, <1>6
  <2> QED
    BY <1>1, <2>1
<1>7. \A s, r : r \in Outcomes(g, s) <=> r \in DOMAIN h /\ h[r].type \in OutcomeEvent /\ h[r].ref = s
  <2>1. StepEvent \cap OutcomeEvent = {}
    BY DEF StepEvent, OutcomeEvent
  <2> QED
    BY <1>5, <1>6, <2>1 DEF Outcomes
<1>8. \A s : s \notin DOMAIN h => Outcomes(g, s) = {}
  BY <1>7 DEF RefersBack
<1>9. \A s : Outcomes(g, s) = Outcomes(h, s)
  BY <1>7 DEF Outcomes
<1> QED
  BY <1>3, <1>5, <1>6, <1>8, <1>9 DEF OnlyStepsAdded

\* The calls that had an event stand as they stood; those that get one wait.
LEMMA AnswersAfterSteps ==
  ASSUME program \in Program, NEW h \in Seq(Event), RefersBack(h), NEW k \in DOMAIN program,
         NEW g, g = h \o NewSteps(h)
  PROVE  /\ Matched(h, k) # 0 => Answer(g, k) = Answer(h, k)
         /\ Matched(h, k) = 0 => Answer(g, k) \in {"new", "waiting"}
         /\ k \in NewCalls(h) => Answer(g, k) = "waiting"
<1>1. /\ g \in Seq(Event)
      /\ \A s \in DOMAIN h : s \in DOMAIN g /\ g[s] = h[s] /\ Outcomes(g, s) = Outcomes(h, s)
      /\ \A s \in DOMAIN g : s \notin DOMAIN h => g[s].type \in StepEvent
      /\ \A s : s \notin DOMAIN h => Outcomes(g, s) = {}
  BY NewStepsAppended DEF OnlyStepsAdded
<1>2. program[k] \in LaneCall /\ k \in Calls(program[k])
  BY ProgramCalls DEF Call, LaneCall, Calls, SameLane
<1>3. 0 \notin DOMAIN h /\ 0 \notin DOMAIN g
  BY <1>1, LenProperties
<1>4. CASE program[k].kind = "signal"
  <2>1. Lane(g, program[k]) = Lane(h, program[k])
    <3>1. \A s \in DOMAIN g : InLane(g[s], program[k]) => g[s].type = "SignalReceived"
      BY <1>4 DEF InLane
    <3>2. "SignalReceived" \notin StepEvent
      BY DEF StepEvent
    <3> QED
      BY <1>1, <3>1, <3>2 DEF Lane
  <2>2. Matched(g, k) = Matched(h, k)
    <3>1. CASE Matched(h, k) # 0
      BY <1>1, <2>1, <3>1, MatchedHasRank, MatchedByRank
    <3>2. CASE Matched(g, k) # 0
      BY <1>1, <2>1, <3>2, MatchedHasRank, MatchedByRank
    <3> QED
      BY <3>1, <3>2
  <2> QED
    BY <1>4, <2>2 DEF Answer, NewCalls
<1>5. CASE program[k].kind # "signal"
  <2>1. StepsTakePlace(h, h, g, program[k])
    BY <1>2, <1>5, StepsAreFollowed
  <2>2. ASSUME Matched(h, k) # 0
        PROVE  Answer(g, k) = Answer(h, k)
    <3>1. PICK s : s = Matched(h, k)
      OBVIOUS
    <3>2. s \in Lane(h, program[k]) /\ Rank(Lane(h, program[k]), s) = Rank(Calls(program[k]), k)
      BY <2>2, <3>1, MatchedHasRank
    <3>3. s \in Lane(g, program[k]) /\ Rank(Lane(g, program[k]), s) = Rank(Calls(program[k]), k)
      BY <2>1, <3>2 DEF StepsTakePlace
    <3>4. Matched(g, k) = s
      BY <1>1, <3>3, MatchedByRank
    <3>5. s \in DOMAIN h /\ Outcomes(g, s) = Outcomes(h, s)
      BY <1>1, <3>2 DEF Lane
    <3>6. Outcomes(h, s) # {} => h[Max(Outcomes(h, s))] = g[Max(Outcomes(h, s))]
      <4>1. Outcomes(h, s) \subseteq DOMAIN h
        BY DEF Outcomes
      <4>2. Outcomes(h, s) \in SUBSET Nat /\ IsFiniteSet(Outcomes(h, s))
        BY <4>1, IndicesAreFinite
      <4>3. Outcomes(h, s) # {} => Max(Outcomes(h, s)) \in Outcomes(h, s)
        BY <4>2, MaxIsThere
      <4> QED
        BY <1>1, <4>1, <4>3
    <3> QED
      BY <1>5, <2>2, <3>1, <3>4, <3>5, <3>6 DEF Answer
  <2>3. ASSUME Matched(h, k) = 0, Matched(g, k) # 0
        PROVE  Answer(g, k) = "waiting"
    <3>1. PICK s : s = Matched(g, k)
      OBVIOUS
    <3>2. s \in Lane(g, program[k]) /\ Rank(Lane(g, program[k]), s) = Rank(Calls(program[k]), k)
      BY <1>1, <2>3, <3>1, MatchedHasRank
    <3>3. s \notin Lane(h, program[k])
      <4>1. SUFFICES ASSUME s \in Lane(h, program[k]) PROVE FALSE
        OBVIOUS
      <4>2. Rank(Lane(h, program[k]), s) = Rank(Calls(program[k]), k)
        BY <2>1, <3>2, <4>1 DEF StepsTakePlace
      <4>3. Matched(h, k) = s /\ s # 0
        BY <2>3, <3>1, <4>1, <4>2, MatchedByRank
      <4> QED
        BY <2>3, <4>3
    <3>4. s \notin DOMAIN h
      BY <1>1, <3>2, <3>3 DEF Lane
    <3>5. Outcomes(g, s) = {}
      BY <1>1, <3>4
    <3> QED
      BY <1>5, <2>3, <3>1, <3>5 DEF Answer
  <2>4. ASSUME k \in NewCalls(h)
        PROVE  Matched(h, k) = 0 /\ Matched(g, k) # 0
    <3>1. Matched(h, k) = 0
      BY <2>4, NewIsUnmatched DEF NewCalls
    <3>2. PICK n \in DOMAIN Ordered(NewCalls(h)) : Ordered(NewCalls(h))[n] = k
      <4>1. NewCalls(h) \in SUBSET Nat /\ IsFiniteSet(NewCalls(h))
        BY LanesAreFinite
      <4> QED
        BY <2>4, <4>1, OrderedLists
    <3>3. n \in DOMAIN NewSteps(h)
      BY <3>2, NewStepsInOrder
    <3>4. /\ Len(h) + n \in Lane(g, program[k])
          /\ Rank(Lane(g, program[k]), Len(h) + n) = Rank(Calls(program[k]), k)
      BY <1>2, <2>1, <3>2, <3>3 DEF StepsTakePlace
    <3>5. Matched(g, k) = Len(h) + n
      BY <1>1, <3>4, MatchedByRank
    <3>6. Len(h) + n \in DOMAIN g
      BY <3>4 DEF Lane
    <3> QED
      BY <1>3, <3>1, <3>5, <3>6
  <2>5. Matched(g, k) = 0 => Answer(g, k) = "new"
    BY DEF Answer
  <2> QED
    BY <2>2, <2>3, <2>4, <2>5
<1> QED
  BY <1>4, <1>5

\* So a pass over what it has appended itself finds nothing to append.
LEMMA NothingMoreToSchedule ==
  ASSUME program \in Program, NEW h \in Seq(Event), RefersBack(h), ~CancelPending(h),
         NEW g, g = h \o NewSteps(h),
         ~\E k \in DOMAIN program : Reached(h, k) /\ Answer(h, k) = "failed",
         ~\A k \in DOMAIN program : Answer(h, k) = "completed"
  PROVE  Decision(g) = <<>>
<1>1. ASSUME NEW k \in DOMAIN program
      PROVE  /\ Answer(g, k) = "completed" <=> Answer(h, k) = "completed"
             /\ Answer(g, k) = "failed" <=> Answer(h, k) = "failed"
             /\ Answer(g, k) = "new" => Answer(h, k) = "new" /\ k \notin NewCalls(h)
  <2>1. /\ Matched(h, k) # 0 => Answer(g, k) = Answer(h, k)
        /\ Matched(h, k) = 0 => Answer(g, k) \in {"new", "waiting"}
        /\ k \in NewCalls(h) => Answer(g, k) = "waiting"
    BY AnswersAfterSteps
  <2>2. Answer(h, k) = "new" <=> Matched(h, k) = 0
    BY NewIsUnmatched
  <2> QED
    BY <2>1, <2>2
<1>2. \A k \in DOMAIN program : Reached(g, k) <=> Reached(h, k)
  BY <1>1 DEF Reached
<1>3. NewCalls(g) = {}
  BY <1>1, <1>2 DEF NewCalls
<1>4. NewSteps(g) = <<>>
  <2>1. g \in Seq(Event)
    BY NewStepsAppended DEF OnlyStepsAdded
  <2>2. NewSteps(g) \in Seq(Event) /\ DOMAIN NewSteps(g) = DOMAIN Ordered({})
    BY <1>3, <2>1, NewStepsInOrder
  <2>3. DOMAIN Ordered({}) = {}
    <3>1. DOMAIN Ordered({}) = 1..Cardinality({})
      BY DEF Ordered
    <3>2. Cardinality({}) = 0
      BY FS_EmptySet
    <3> QED
      BY <3>1, <3>2
  <2>4. Len(NewSteps(g)) = 0
    BY <2>2, <2>3, LenProperties
  <2> QED
    BY <2>2, <2>4, EmptySeq
<1>5. Commands(g) = NewSteps(g)
  BY <1>1, <1>2 DEF Commands
<1>6. ~CancelPending(g)
  <2>1. /\ \A s \in DOMAIN h : s \in DOMAIN g /\ g[s] = h[s]
        /\ \A s \in DOMAIN g : s \notin DOMAIN h => g[s].type \in StepEvent
    BY NewStepsAppended DEF OnlyStepsAdded
  <2>2. "CancellationRequested" \notin StepEvent
    BY DEF StepEvent
  <2>3. Has(g, {"CancellationRequested"}) => Has(h, {"CancellationRequested"})
    BY <2>1, <2>2 DEF Has
  <2>4. Has(h, FinalEvent) => Has(g, FinalEvent)
    BY <2>1 DEF Has
  <2> QED
    BY <2>3, <2>4 DEF CancelPending
<1> QED
  BY <1>4, <1>5, <1>6 DEF Decision

-----------------------------------------------------------------------------
(***************************************************************************)
(* Only a missed wakeup strands a workflow.                                *)
(***************************************************************************)

\* A replay would append nothing, or there is no need of one.
Settled == Decision(hist) = <<>> \/ exec # "RUNNING"

\* Someone will replay, or an operator must: the workflow task is there, or is dead.
Awake ==
  Has(hist, {"WorkflowStarted"}) =>
    \/ Settled
    \/ \E t \in DOMAIN tasks : tasks[t].type = "workflow" /\ tasks[t].status \in Open

\* A workflow handler has read all there is, and leaves nothing to decide.
UpToDate ==
  \A i \in invs : tasks[i.task].type = "workflow" =>
    /\ i.pc = "decided" => i.seen = Len(hist)
    /\ i.pc = "returned" => Settled

\* Before the execution is created there is nothing else.
NoneYet == exec = "none" => hist = <<>> /\ DOMAIN tasks = {}

LEMMA NoneYetKept ==
  ASSUME TypeOK, StepTasks, NoneYet, [Next]_vars
  PROVE  NoneYet'
<1>1. ASSUME NEW events, NEW by, Appends(events, by)
      PROVE  exec' # "none"
  <2>1. hist' \in Seq(Event) /\ exec' = StatusOf(hist')
    BY <1>1, EventsAppended DEF Appends, AppendEvents
  <2> QED
    BY <2>1, StatusIsFolded DEF WorkflowStatus
<1> QED
  BY <1>1, StepKinds DEF NoneYet, RowsStay

\* The function decides by the history alone.
LEMMA DecisionNext ==
  ASSUME program' = program
  PROVE  Decision(hist)' = Decision(hist')
<1>1. \A k : Matched(hist, k)' = Matched(hist', k)
  BY DEF Matched, SameLane, InLane
<1>2. \A k : Answer(hist, k)' = Answer(hist', k)
  BY DEF Answer, Outcomes, Matched, SameLane, InLane
<1>3. \A k : Reached(hist, k)' <=> Reached(hist', k)
  BY <1>2 DEF Reached
<1>4. NewSteps(hist)' = NewSteps(hist')
  <2> DEFINE new == {k \in DOMAIN program :
                       Reached(hist, k) /\ program[k].kind # "signal" /\ Answer(hist, k) = "new"}
             next == {k \in DOMAIN program :
                       Reached(hist', k) /\ program[k].kind # "signal" /\ Answer(hist', k) = "new"}
  <2>1. new' = next
    BY <1>2, <1>3
  <2> DEFINE made(p, S) == [n \in DOMAIN Ordered(S) |->
                             IF p[Ordered(S)[n]].kind = "activity"
                             THEN Of("ActivityScheduled", p[Ordered(S)[n]].name, 0)
                             ELSE Plain("TimerScheduled")]
  <2>2. NewSteps(hist') = made(program, next)
    BY DEF NewSteps
  <2>3. NewSteps(hist)' = made(program', new')
    BY DEF NewSteps, Ordered, Of, Plain
  <2> HIDE DEF new, next, made
  <2> QED
    BY <2>1, <2>2, <2>3
<1>5. Commands(hist)' = Commands(hist')
  BY <1>2, <1>3, <1>4 DEF Commands, Plain, Of
<1> QED
  BY <1>5 DEF Decision, CancelPending, Has, Plain, Of

\* The append of a handler that has read the whole history leaves nothing to decide.
LEMMA DecidedIsSettled ==
  ASSUME TypeOK, OutcomesRefer, program' = program, NEW i \in invs, AppendDecision(i),
         i.seen = Len(hist)
  PROVE  Settled'
<1>1. program \in Program /\ hist \in Seq(Event)
  BY DEF TypeOK
<1>2. SubSeq(hist, 1, i.seen) = hist
  BY <1>1, SubSeqFull
<1>3. AppendEvents(Decision(hist), {i}) /\ Decision(hist) \in Seq(Event)
  BY <1>1, <1>2, DecisionIsMade DEF AppendDecision, AppendAndReturn
<1>4. hist' = hist \o Decision(hist) /\ exec' = StatusOf(hist')
  BY <1>3 DEF AppendEvents
<1>5. ASSUME NEW type \in FinalEvent, Decision(hist) = <<Plain(type)>>
      PROVE  exec' # "RUNNING"
  <2>1. hist' \in Seq(Event) /\ \A n \in DOMAIN Decision(hist) : Len(hist) + n \in DOMAIN hist'
    BY <1>3, EventsAppended
  <2>2. 1 \in DOMAIN Decision(hist) /\ Decision(hist)[1] = Plain(type)
    BY <1>5
  <2>3. hist'[Len(hist) + 1] = Plain(type)
    <3>1. /\ Len(hist) \in Nat /\ Len(Decision(hist)) = 1
          /\ \A s \in 1..(Len(hist) + Len(Decision(hist))) :
               hist'[s] = IF s <= Len(hist) THEN hist[s] ELSE Decision(hist)[s - Len(hist)]
      BY <1>1, <1>3, <1>4, <1>5, ConcatProperties, LenProperties
    <3>2. /\ Len(hist) + 1 \in 1..(Len(hist) + Len(Decision(hist)))
          /\ ~(Len(hist) + 1 <= Len(hist)) /\ (Len(hist) + 1) - Len(hist) = 1
      BY <3>1
    <3> QED
      BY <2>2, <3>1, <3>2
  <2>4. Plain(type).type = type
    BY MadeEvents
  <2>5. Has(hist', FinalEvent)
    BY <2>1, <2>2, <2>3, <2>4 DEF Has
  <2> QED
    BY <1>4, <2>1, <2>5, StatusIsFolded
<1>6. CASE \/ CancelPending(hist)
           \/ \E k \in DOMAIN program : Reached(hist, k) /\ Answer(hist, k) = "failed"
           \/ \A k \in DOMAIN program : Answer(hist, k) = "completed"
  <2>1. PICK type \in FinalEvent : Decision(hist) = <<Plain(type)>>
    BY <1>6 DEF Decision, Commands, FinalEvent
  <2> QED
    BY <1>5, <2>1 DEF Settled
<1>7. CASE /\ ~CancelPending(hist)
           /\ ~\E k \in DOMAIN program : Reached(hist, k) /\ Answer(hist, k) = "failed"
           /\ ~\A k \in DOMAIN program : Answer(hist, k) = "completed"
  <2>1. Decision(hist) = NewSteps(hist)
    BY <1>7 DEF Decision, Commands
  <2>2. RefersBack(hist)
    BY DEF OutcomesRefer, Refers, RefersBack
  <2>3. Decision(hist \o NewSteps(hist)) = <<>>
    BY <1>1, <1>7, <2>2, NothingMoreToSchedule
  <2>4. Decision(hist') = <<>>
    BY <1>4, <2>1, <2>3
  <2> QED
    BY <2>4, DecisionNext DEF Settled
<1> QED
  BY <1>6, <1>7

LEMMA SettledStays ==
  ASSUME program' = program, UNCHANGED <<hist, exec>>, Settled
  PROVE  Settled'
<1>1. Decision(hist)' = Decision(hist)
  BY DecisionNext
<1> QED
  BY <1>1 DEF Settled

\* While a workflow handler has read the history, an append by another is missed.
LEMMA NotMissed ==
  ASSUME TypeOK, Alone, NEW events, NEW by, AppendEvents(events, by), ~missed',
         NEW k \in invs, k \notin by, tasks[k.task].type = "workflow"
  PROVE  ~missed /\ k.pc = "start"
BY DEF AppendEvents, HasReadAlready, Alone

LEMMA AwakeKept ==
  ASSUME TypeOK, StepTasks, Alone, NoneYet, ~missed => Awake /\ UpToDate, ~missed', [Next]_vars
  PROVE  Awake'
<1>0. program' = program
  BY BoundsTyped
<1>1. ASSUME NEW events, NEW by, Appends(events, by)
      PROVE  Awake'
  <2>1. PICK t \in DOMAIN tasks' : LiveWorkflowTask(tasks'[t], Wf)
    BY <1>1, WakeAppended DEF Appends
  <2> QED
    BY <2>1 DEF Awake, LiveWorkflowTask, Live, Open
<1>2. ASSUME NEW i \in invs, ReadHistory(i)
      PROVE  Awake'
  <2>1. /\ i.task \in DOMAIN tasks /\ tasks[i.task].type = "workflow"
        /\ tasks[i.task].status = "leased" /\ UNCHANGED tasks
    BY <1>2, RowsAreTyped DEF ReadHistory, Handles, Alone, OwnedBy
  <2> QED
    BY <2>1 DEF Awake, Open
<1>3. CASE NothingAppended /\ UNCHANGED missed
  <2>0. /\ RowsStay /\ UNCHANGED hist /\ (UNCHANGED exec \/ exec = "none")
        /\ \A t \in DOMAIN tasks : tasks[t].status \in Open =>
             tasks'[t].status \in Open \/ \E i \in invs : i.task = t /\ CompleteTask(i)
    BY <1>3 DEF NothingAppended
  <2>1. Awake /\ UpToDate
    BY <1>3
  <2> SUFFICES ASSUME Has(hist, {"WorkflowStarted"})
               PROVE  \/ Settled'
                      \/ \E t \in DOMAIN tasks' :
                           tasks'[t].type = "workflow" /\ tasks'[t].status \in Open
    BY <2>0 DEF Awake, Has
  <2>2. UNCHANGED <<hist, exec>>
    <3>1. hist # <<>>
      BY EmptySeq DEF Has
    <3> QED
      BY <2>0, <3>1 DEF NoneYet
  <2>3. CASE Settled
    BY <1>0, <2>2, <2>3, SettledStays
  <2>4. ASSUME NEW t \in DOMAIN tasks, tasks[t].type = "workflow", tasks[t].status \in Open,
               NEW i \in invs, i.task = t, CompleteTask(i)
        PROVE  Settled'
    <3>1. Settled
      BY <2>1, <2>4 DEF UpToDate, CompleteTask
    <3> QED
      BY <1>0, <2>2, <3>1, SettledStays
  <2>5. ASSUME NEW t \in DOMAIN tasks, tasks[t].type = "workflow", tasks'[t].status \in Open
        PROVE  \E u \in DOMAIN tasks' : tasks'[u].type = "workflow" /\ tasks'[u].status \in Open
    BY <2>0, <2>5 DEF RowsStay
  <2> QED
    BY <2>0, <2>1, <2>3, <2>4, <2>5 DEF Awake
<1>4. ASSUME NEW i \in invs, AppendDecision(i)
      PROVE  \E events, by : Appends(events, by)
  BY <1>4, HandlerAppends
<1> QED
  BY <1>1, <1>2, <1>3, <1>4, AppendKinds DEF OthersAppend, NothingAppended

\* A step of an invocation of the handler leaves it behind.
LEMMA InvocationLeft ==
  ASSUME TypeOK, NEW i \in invs, AppendDecision(i) \/ ReadHistory(i)
  PROVE  tasks[i.task].type = "workflow" /\ i \notin invs'
<1>0. i \in Invocation
  BY RowsAreTyped
<1>1. CASE AppendDecision(i)
  <2>1. Handles(i, "workflow", "decided") /\ (Becomes(i, "returned") \/ Becomes(i, "threw"))
    BY <1>1 DEF AppendDecision, AppendAndReturn
  <2>2. \A pc \in {"returned", "threw"} : [i EXCEPT !.pc = pc] # i
    BY <1>0, <2>1 DEF Handles, Invocation
  <2> QED
    BY <2>1, <2>2 DEF Becomes, Handles
<1>2. CASE ReadHistory(i)
  <2>1. /\ Handles(i, "workflow", "start")
        /\ Becomes(i, "returned") \/ Becomes(i, "threw") \/ Decides(i)
    BY <1>2 DEF ReadHistory
  <2>2. /\ \A pc \in {"returned", "threw"} : [i EXCEPT !.pc = pc] # i
        /\ [i EXCEPT !.pc = "decided", !.seen = Len(hist)] # i
    BY <1>0, <2>1 DEF Handles, Invocation
  <2> QED
    BY <2>1, <2>2 DEF Becomes, Decides, Handles
<1> QED
  BY <1>1, <1>2

LEMMA UpToDateKept ==
  ASSUME TypeOK, StepTasks, OutcomesRefer, Alone, OneWorkflowTask, NoneYet,
         ~missed => UpToDate, ~missed', [Next]_vars
  PROVE  UpToDate'
<1>0. program' = program
  BY BoundsTyped
<1> SUFFICES ASSUME NEW k \in invs', tasks'[k.task].type = "workflow"
             PROVE  /\ k.pc = "decided" => k.seen = Len(hist')
                    /\ k.pc = "returned" => Settled'
  BY DEF UpToDate
<1>1. /\ k.task \in DOMAIN tasks /\ tasks[k.task].type = "workflow"
      /\ \/ k \in invs
         \/ k.pc \in {"start", "threw"}
         \/ UNCHANGED <<hist, exec>> /\ k.pc = "decided" /\ k.seen = Len(hist)
         \/ UNCHANGED <<hist, exec>> /\ k.pc = "returned" /\ Decision(hist) = <<>>
         \/ k.pc = "returned" /\ \E i \in invs : AppendDecision(i)
  BY WorkflowMoves
<1>2. CASE UNCHANGED <<hist, exec>> /\ k.pc = "returned" /\ Decision(hist) = <<>>
  BY <1>0, <1>2, SettledStays DEF Settled
<1>3. ASSUME NEW i \in invs, AppendDecision(i), k.pc = "returned"
      PROVE  Settled'
  <2>1. ~missed /\ Handles(i, "workflow", "decided")
    BY <1>3 DEF AppendDecision, AppendAndReturn, AppendEvents
  <2>2. i.seen = Len(hist)
    BY <2>1 DEF UpToDate, Handles
  <2> QED
    BY <1>0, <1>3, <2>2, DecidedIsSettled
<1>4. CASE k \in invs
  <2>1. ASSUME NEW i \in invs, AppendDecision(i) \/ ReadHistory(i) PROVE FALSE
    <3>1. tasks[i.task].type = "workflow" /\ i \notin invs'
      BY <2>1, InvocationLeft
    <3>2. i = k
      BY <1>1, <1>4, <3>1, LoneWorkflowInvocation
    <3> QED
      BY <3>1, <3>2
  <2>2. CASE OthersAppend
    <3>1. PICK events, by : /\ AppendEvents(events, by)
                            /\ \A i \in by : i \in invs /\ tasks[i.task].type # "workflow"
      BY <2>2 DEF OthersAppend, Appends
    <3>2. k \notin by
      BY <1>1, <3>1
    <3> QED
      BY <1>1, <1>4, <3>1, <3>2, NotMissed
  <2>3. CASE NothingAppended /\ UNCHANGED missed
    <3>1. UNCHANGED <<hist, exec>>
      BY <1>1, <2>3 DEF NothingAppended, NoneYet
    <3>2. /\ k.pc = "decided" => k.seen = Len(hist)
          /\ k.pc = "returned" => Settled
      BY <1>1, <1>4, <2>3 DEF UpToDate
    <3> QED
      BY <1>0, <3>1, <3>2, SettledStays
  <2> QED
    BY <2>1, <2>2, <2>3, AppendKinds DEF NothingAppended
<1> QED
  BY <1>1, <1>2, <1>3, <1>4

WInv == LInv /\ NoneYet /\ (~stalled /\ ~missed => Awake /\ UpToDate)

LEMMA AlwaysWInv == Spec => []WInv
<1>1. Init => NoneYet /\ Awake /\ UpToDate
  <2> SUFFICES ASSUME Init PROVE NoneYet /\ Awake /\ UpToDate
    OBVIOUS
  <2>1. hist = <<>> /\ tasks = <<>> /\ invs = {} /\ DOMAIN hist = {} /\ DOMAIN tasks = {}
    BY EmptySeq DEF Init
  <2> QED
    BY <2>1 DEF NoneYet, Awake, Has, UpToDate
<1>2. WInv /\ [Next]_vars => NoneYet' /\ (~stalled' /\ ~missed' => Awake' /\ UpToDate')
  <2> SUFFICES ASSUME WInv, [Next]_vars
               PROVE  NoneYet' /\ (~stalled' /\ ~missed' => Awake' /\ UpToDate')
    OBVIOUS
  <2>1. /\ TypeOK /\ StepTasks /\ OutcomesRefer /\ OneWorkflowTask /\ NoneYet
        /\ ~stalled => Alone /\ (~missed => Awake /\ UpToDate)
    BY DEF WInv, LInv, IInv
  <2>2. ASSUME ~stalled', ~missed' PROVE Awake' /\ UpToDate'
    <3>1. Alone /\ (~missed => Awake /\ UpToDate)
      BY <2>1, <2>2, StallsStay
    <3> QED
      BY <2>1, <2>2, <3>1, AwakeKept, UpToDateKept
  <2> QED
    BY <2>1, <2>2, NoneYetKept
<1>3. LInv /\ NoneYet /\ Awake /\ UpToDate => WInv
  BY DEF WInv
<1>4. LInv' /\ NoneYet' /\ (~stalled' /\ ~missed' => Awake' /\ UpToDate') => WInv'
  BY DEF WInv
<1> QED
  BY AlwaysLInv, <1>1, <1>2, <1>3, <1>4, PTL DEF Spec

\* Whatever crashes, fails, is delivered again or answers too late, a workflow that has
\* something to do is woken, unless a live worker lost a lease or an append found the
\* workflow task leased by a handler that had read the history: every other append leaves
\* a workflow task behind, and a handler completes it only with nothing left to decide.
THEOREM WakeupsAreOnlyMissed == Spec => []OnlyMissedWakeupsStrand
<1>1. ASSUME WInv PROVE OnlyMissedWakeupsStrand
  <2> SUFFICES ASSUME Stranded, ~missed, ~stalled PROVE FALSE
    BY DEF OnlyMissedWakeupsStrand
  <2>1. ~Settled
    BY DEF Stranded, Settled
  <2>2. \A t \in DOMAIN tasks : tasks[t].status \notin Open
    BY DEF Stranded, Open
  <2> QED
    BY <1>1, <2>1, <2>2 DEF WInv, Awake, Stranded
<1> QED
  BY AlwaysWInv, <1>1, PTL
=============================================================================
