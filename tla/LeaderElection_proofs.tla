----------------------- MODULE LeaderElection_proofs -----------------------
(***************************************************************************)
(* Proofs about LeaderElection for any set of replicas and any bounds on   *)
(* the faults.                                                             *)
(***************************************************************************)
EXTENDS LeaderElection, TLAPS

-----------------------------------------------------------------------------
(***************************************************************************)
(* The inductive invariant.                                                *)
(***************************************************************************)

\* The number of the next connection is that of no session, client or query.
NumbersAreUsed ==
  /\ \A s \in open : s[2] <= made[s[1]]
  /\ \A r \in Replicas :
       /\ rep[r].client <= made[r]
       /\ \A l \in rep[r].loops : l.session <= made[r]

\* A loop that writes the row has the lock, as long as the server knows its session.
RecordingHasLock ==
  \A r \in Replicas : \A l \in rep[r].loops :
    l.pc = "recording" => lock = <<r, l.session>> \/ <<r, l.session>> \notin open

\* Who has the lock on its present connection wrote the row, or is about to.
RowIsWritten ==
  \A r \in Replicas :
    /\ HoldsLock(r) /\ ~rep[r].stopped
    /\ \A l \in rep[r].loops : l.pc = "recording" => l.session # rep[r].client
    => row = r \/ spent.errors > 0

Safe ==
  /\ NumbersAreUsed
  /\ RecordingHasLock
  /\ RowIsWritten
  /\ StoppedStaysOut

IInv == TypeOK /\ Safe

\* What ElectedWithLock says of one step.
Elected ==
  \A r \in Replicas : ~rep[r].leader /\ rep[r]'.leader =>
    \E l \in rep[r].loops :
      /\ l.pc = "recording"
      /\ lock = <<r, l.session>> \/ Broken(<<r, l.session>>)

-----------------------------------------------------------------------------
(***************************************************************************)
(* What a step makes of a replica.                                         *)
(***************************************************************************)

\* p and q are at the same point of the election.
Alike(p, q) ==
  /\ q.client = p.client /\ q.leader = p.leader /\ q.stopped = p.stopped
  /\ q.loops = p.loops

Recording(p) == {l \in p.loops : l.pc = "recording"}

\* What most steps do to a replica: it may lose its connection and the leadership, and no
\* loop starts or ends to write the row, unless the connection is lost.
Quiet(p, q) ==
  /\ q.client \in {0, p.client}
  /\ Recording(q) \subseteq Recording(p)
  /\ q.client # 0 => Recording(q) = Recording(p) /\ q.stopped = p.stopped
  /\ q.leader => p.leader /\ q.stopped = p.stopped
  /\ \A l \in q.loops : l.session = p.client \/ \E m \in p.loops : l.session = m.session

LEMMA AlikeIsQuiet ==
  ASSUME NEW p, NEW q, Alike(p, q)
  PROVE  Quiet(p, q)
BY DEF Alike, Quiet, Recording

\* The reaper's timers are its own affair.
LEMMA ReaperIsApart ==
  ASSUME NEW p \in Replica
  PROVE  /\ ScheduleNext(p) \in Replica /\ Alike(p, ScheduleNext(p))
         /\ \A q \in OnLose(p) : q \in Replica /\ Alike(p, q)
<1>1. ScheduleNext(p) \in Replica /\ Alike(p, ScheduleNext(p))
  BY DEF ScheduleNext, Replica, Alike
<1>2. ASSUME NEW q \in OnLose(p)
      PROVE  q \in Replica /\ Alike(p, q)
  <2>1. PICK n \in 0..p.timers : q = [p EXCEPT !.halted = TRUE, !.timers = n]
    BY DEF OnLose
  <2>2. n \in Nat
    BY DEF Replica
  <2> QED
    BY <2>1, <2>2 DEF Replica, Alike
<1> QED
  BY <1>1, <1>2

LEMMA TimerIsApart ==
  ASSUME NEW p \in Replica
  PROVE  /\ WithoutTimer(p) \in Replica
         /\ WithoutTimer(p).loops \subseteq p.loops
         /\ Recording(WithoutTimer(p)) = Recording(p)
         /\ WithoutTimer(p).client = p.client
         /\ WithoutTimer(p).leader = p.leader
         /\ WithoutTimer(p).stopped = p.stopped
BY DEF WithoutTimer, Replica, Recording

LEMMA ReconnectIsApart ==
  ASSUME NEW p \in Replica
  PROVE  ScheduleReconnect(p) \in Replica /\ Alike(p, ScheduleReconnect(p))
BY DEF ScheduleReconnect, Replica, Alike

\* The second half of attemptAcquire's first query.
LEMMA SettledReplica ==
  ASSUME NEW p \in Replica, NEW l \in p.loops, NEW acquired \in BOOLEAN,
         NEW q, q = Settled(p, l, acquired)
  PROVE  /\ q \in Replica
         /\ q.client = p.client /\ q.leader = p.leader /\ q.stopped = p.stopped
         /\ \A m \in p.loops : m # l => m \in q.loops
         /\ \A m \in q.loops :
              m \in p.loops \/ (m.session = l.session /\ (m.pc = "recording" => acquired))
         /\ acquired /\ ~p.stopped =>
              \E m \in q.loops : m.session = l.session /\ m.pc = "recording"
<1> DEFINE next(pc) == [l EXCEPT !.pc = pc]
           goes(pc) == (p.loops \ {l}) \cup {next(pc)}
<1>1. l \in Loop
  BY DEF Replica
<1>2. ASSUME NEW pc \in {"waiting", "recording"}
      PROVE  next(pc) \in Loop /\ next(pc).pc = pc /\ next(pc).session = l.session
  BY <1>1, <1>2 DEF Loop
<1>3. CASE p.stopped
  <2>1. Settled(p, l, acquired) = [p EXCEPT !.loops = p.loops \ {l}]
    BY <1>3 DEF Settled, Ends
  <2> QED
    BY <1>3, <2>1 DEF Replica
<1>4. CASE ~p.stopped /\ acquired
  <2>1. Settled(p, l, acquired) = [p EXCEPT !.loops = goes("recording")]
    BY <1>4 DEF Settled, Goes
  <2>2. goes("recording") \in SUBSET Loop
    BY <1>2 DEF Replica
  <2> HIDE DEF next
  <2> DEFINE e == [p EXCEPT !.loops = goes("recording")]
  <2>3. e \in Replica /\ e.loops = goes("recording") /\ e.client = p.client
        /\ e.leader = p.leader /\ e.stopped = p.stopped
    BY <2>2 DEF Replica
  <2>4. \A m \in e.loops : m \in p.loops \/ m = next("recording")
    BY <2>3
  <2>5. \A m \in p.loops : m # l => m \in e.loops
    BY <2>3
  <2>6. next("recording") \in e.loops
    BY <2>3
  <2> HIDE DEF e, goes
  <2> QED
    BY <1>2, <1>4, <2>1, <2>3, <2>4, <2>5, <2>6 DEF e
<1>5. CASE ~p.stopped /\ ~acquired
  <2>1. Settled(p, l, acquired) = [p EXCEPT !.loops = goes("waiting"), !.pollTimer = l.id]
    BY <1>5 DEF Settled, Goes, Replica
  <2>2. goes("waiting") \in SUBSET Loop /\ l.id \in Nat
    BY <1>1, <1>2 DEF Replica, Loop
  <2> HIDE DEF next
  <2> DEFINE e == [p EXCEPT !.loops = goes("waiting"), !.pollTimer = l.id]
  <2>3. e \in Replica /\ e.loops = goes("waiting") /\ e.client = p.client
        /\ e.leader = p.leader /\ e.stopped = p.stopped
    BY <2>2 DEF Replica
  <2>4. \A m \in e.loops : m \in p.loops \/ m = next("waiting")
    BY <2>3
  <2>5. \A m \in p.loops : m # l => m \in e.loops
    BY <2>3
  <2>6. next("waiting") \in e.loops
    BY <2>3
  <2> HIDE DEF e, goes
  <2> QED
    BY <1>2, <1>5, <2>1, <2>3, <2>4, <2>5, <2>6 DEF e
<1> QED
  BY <1>3, <1>4, <1>5

\* The rest of it after the row.
LEMMA LeadsReplica ==
  ASSUME NEW p \in Replica, NEW l \in p.loops, NEW q, q = Leads(p, l)
  PROVE  /\ q \in Replica
         /\ q.client = p.client /\ q.stopped = p.stopped
         /\ q.loops = p.loops \ {l}
         /\ p.stopped => q.leader = p.leader
<1> DEFINE e == Ends(p, l)
<1>1. e \in Replica /\ e.loops = p.loops \ {l} /\ e.client = p.client
      /\ e.leader = p.leader /\ e.stopped = p.stopped
  BY DEF Ends, Replica
<1> DEFINE f == [e EXCEPT !.leader = TRUE]
<1> HIDE DEF e
<1>2. f \in Replica /\ f.loops = e.loops /\ f.client = e.client /\ f.stopped = e.stopped
  BY <1>1 DEF Replica
<1>3. Leads(p, l) = IF p.stopped THEN e ELSE ScheduleNext(f)
  BY DEF Leads, OnAcquire, e
<1> HIDE DEF f
<1>4. ScheduleNext(f) \in Replica /\ Alike(f, ScheduleNext(f))
  BY <1>2, ReaperIsApart
<1> QED
  BY <1>1, <1>2, <1>3, <1>4 DEF Alike

LEMMA SpentGrows ==
  ASSUME TypeOK, NEW kind \in Faults, Spend(kind) \/ UNCHANGED spent
  PROVE  spent' \in [Faults -> Nat] /\ spent'.errors >= spent.errors
<1>1. spent \in [Faults -> Nat] /\ "errors" \in Faults
  BY DEF TypeOK, Faults
<1>2. CASE Spend(kind)
  BY <1>1, <1>2 DEF Spend
<1>3. CASE UNCHANGED spent
  BY <1>1, <1>3
<1> QED
  BY <1>2, <1>3

LEMMA ReplicaBecomes ==
  ASSUME TypeOK, NEW r \in Replicas, NEW q \in Replica, Becomes(r, q)
  PROVE  /\ rep' \in [Replicas -> Replica]
         /\ rep'[r] = q
         /\ \A x \in Replicas \ {r} : rep'[x] = rep[x]
BY DEF Becomes, TypeOK

-----------------------------------------------------------------------------
(***************************************************************************)
(* Most steps are quiet.                                                   *)
(***************************************************************************)

\* No other than the numbers and the row is at stake in what the environment does.
LEMMA QuietStep ==
  ASSUME IInv, NEW r \in Replicas, NEW q \in Replica,
         Becomes(r, q), Quiet(rep[r], q),
         UNCHANGED <<made, open, lock, row, limits>>,
         closing' \subseteq open, overdue' \in BOOLEAN,
         spent' \in [Faults -> Nat], spent'.errors >= spent.errors
  PROVE  IInv' /\ Elected
<1>0. TypeOK /\ Safe
  BY DEF IInv
<1>1. /\ rep' \in [Replicas -> Replica] /\ rep'[r] = q
      /\ \A x \in Replicas \ {r} : rep'[x] = rep[x]
  BY <1>0, ReplicaBecomes
<1>2. TypeOK'
  BY <1>0, <1>1 DEF TypeOK
<1>3. rep[r] \in Replica
  BY <1>0 DEF TypeOK
<1>4. NumbersAreUsed'
  <2>1. made[r] \in Nat
    BY <1>0 DEF TypeOK
  <2>2. q.client <= made[r]
    BY <1>0, <2>1 DEF Safe, NumbersAreUsed, Quiet
  <2>3. \A l \in q.loops : l.session <= made[r]
    BY <1>0 DEF Safe, NumbersAreUsed, Quiet
  <2> QED
    BY <1>0, <1>1, <2>2, <2>3 DEF Safe, NumbersAreUsed
<1>5. RecordingHasLock'
  <2>1. \A l \in q.loops : l.pc = "recording" => l \in rep[r].loops
    BY DEF Quiet, Recording
  <2> QED
    BY <1>0, <1>1, <2>1 DEF Safe, RecordingHasLock
<1>6. RowIsWritten'
  <2> SUFFICES ASSUME NEW x \in Replicas, HoldsLock(x)', ~rep'[x].stopped,
                      \A l \in rep'[x].loops : l.pc = "recording" => l.session # rep'[x].client
               PROVE  row = x \/ spent'.errors > 0
    BY DEF RowIsWritten
  <2>1. spent.errors \in Nat /\ spent'.errors \in Nat
    BY <1>0 DEF TypeOK, Faults
  <2>2. rep'[x].client = rep[x].client /\ ~rep[x].stopped /\ HoldsLock(x)
    BY <1>1 DEF Quiet, HoldsLock
  <2>3. Recording(rep'[x]) = Recording(rep[x])
    BY <1>1 DEF Quiet, HoldsLock
  <2>4. \A l \in rep[x].loops : l.pc = "recording" => l.session # rep[x].client
    BY <2>2, <2>3 DEF Recording
  <2>5. row = x \/ spent.errors > 0
    BY <1>0, <2>2, <2>4 DEF Safe, RowIsWritten
  <2> QED
    BY <2>1, <2>5
<1>7. StoppedStaysOut'
  BY <1>0, <1>1 DEF Safe, StoppedStaysOut, Quiet
<1>8. Elected
  BY <1>1 DEF Quiet, Elected
<1> QED
  BY <1>2, <1>4, <1>5, <1>6, <1>7, <1>8 DEF IInv, Safe

\* The reaper's steps.
LEMMA ReaperSteps ==
  ASSUME IInv, NEW r \in Replicas, ReaperTimer(r) \/ ReaperTick(r)
  PROVE  IInv' /\ Elected
<1>0. TypeOK /\ rep[r] \in Replica
  BY DEF IInv, TypeOK
<1>1. CASE ReaperTimer(r)
  <2> DEFINE q == [rep[r] EXCEPT !.timers = @ - 1, !.ticks = @ + 1]
  <2>1. q \in Replica /\ Alike(rep[r], q)
    <3>1. rep[r].timers - 1 \in Nat /\ rep[r].ticks + 1 \in Nat
      BY <1>0, <1>1 DEF Replica, ReaperTimer
    <3> QED
      BY <1>0, <3>1 DEF Replica, Alike
  <2>2. Becomes(r, q)
    BY <1>1 DEF ReaperTimer
  <2> HIDE DEF q
  <2>3. spent' \in [Faults -> Nat] /\ spent'.errors >= spent.errors
    BY <1>0, <1>1, SpentGrows DEF ReaperTimer, Faults
  <2> QED
    BY <1>0, <1>1, <2>1, <2>2, <2>3, AlikeIsQuiet, QuietStep DEF ReaperTimer, TypeOK
<1>2. CASE ReaperTick(r)
  <2> DEFINE p == [rep[r] EXCEPT !.ticks = @ - 1]
             q == ScheduleNext(p)
  <2>1. p \in Replica /\ Alike(rep[r], p)
    <3>1. rep[r].ticks - 1 \in Nat
      BY <1>0, <1>2 DEF Replica, ReaperTick
    <3> QED
      BY <1>0, <3>1 DEF Replica, Alike
  <2>2. Becomes(r, q)
    BY <1>2 DEF ReaperTick
  <2> HIDE DEF p
  <2>3. q \in Replica /\ Alike(rep[r], q)
    BY <2>1, ReaperIsApart DEF Alike
  <2> HIDE DEF q
  <2>4. spent' \in [Faults -> Nat] /\ spent'.errors >= spent.errors
    BY <1>0, <1>2, SpentGrows DEF ReaperTick, Faults
  <2>5. overdue' \in BOOLEAN /\ UNCHANGED <<made, open, closing, lock, row, limits>>
    BY <1>0, <1>2 DEF ReaperTick, TypeOK
  <2> QED
    BY <1>0, <2>2, <2>3, <2>4, <2>5, AlikeIsQuiet, QuietStep DEF TypeOK
<1> QED
  BY <1>1, <1>2

\* The timer of connect(), and its failure.
LEMMA ConnectingSteps ==
  ASSUME IInv, NEW r \in Replicas, ReconnectTimer(r) \/ ConnectFails(r)
  PROVE  IInv' /\ Elected
<1>0. TypeOK /\ rep[r] \in Replica
  BY DEF IInv, TypeOK
<1>1. \E q \in Replica : Becomes(r, q) /\ Alike(rep[r], q)
  <2>1. CASE ReconnectTimer(r)
    <3>1. [rep[r] EXCEPT !.link = "connecting"] \in Replica
          /\ Alike(rep[r], [rep[r] EXCEPT !.link = "connecting"])
      BY <1>0 DEF Replica, Alike
    <3> QED
      BY <2>1, <3>1 DEF ReconnectTimer
  <2>2. CASE ConnectFails(r)
    BY <1>0, <2>2, ReconnectIsApart DEF ConnectFails
  <2> QED
    BY <2>1, <2>2
<1>2. spent' \in [Faults -> Nat] /\ spent'.errors >= spent.errors
  BY <1>0, SpentGrows DEF ReconnectTimer, ConnectFails, Faults
<1>3. UNCHANGED <<made, open, closing, lock, row, overdue, limits>>
  BY DEF ReconnectTimer, ConnectFails
<1> QED
  BY <1>0, <1>1, <1>2, <1>3, AlikeIsQuiet, QuietStep DEF TypeOK

\* pollTimer: the loop ends, or tries the lock on the present connection.
LEMMA PollTimerStep ==
  ASSUME IInv, NEW r \in Replicas, NEW l \in rep[r].loops, PollTimer(r, l)
  PROVE  IInv' /\ Elected
<1> DEFINE p == rep[r]
<1>0. TypeOK /\ p \in Replica /\ l \in Loop /\ l.pc = "waiting"
  BY DEF IInv, TypeOK, Replica, PollTimer
<1>1. \E q \in Replica : Becomes(r, q) /\ Quiet(p, q)
  <2>1. CASE p.stopped \/ p.client = 0
    <3>1. Ends(p, l) \in Replica /\ Quiet(p, Ends(p, l))
      BY <1>0 DEF Ends, Replica, Quiet, Recording
    <3> QED
      BY <2>1, <3>1 DEF PollTimer
  <2>2. CASE ~(p.stopped \/ p.client = 0)
    <3> DEFINE m == [l EXCEPT !.pc = "locking", !.session = p.client]
               ls == (p.loops \ {l}) \cup {m}
               q == [p EXCEPT !.loops = ls]
    <3>1. m \in Loop /\ m.pc = "locking" /\ m.session = p.client
      BY <1>0 DEF Loop, Replica
    <3>2. Becomes(r, q)
      BY <2>2 DEF PollTimer
    <3> HIDE DEF m
    <3>3. ls \in SUBSET Loop
      BY <1>0, <3>1 DEF Replica
    <3>4. \A k \in ls : k \in p.loops \/ k = m
      OBVIOUS
    <3>5. \A k \in p.loops : k # l => k \in ls
      OBVIOUS
    <3> HIDE DEF ls
    <3>6. q \in Replica /\ q.loops = ls /\ q.client = p.client /\ q.leader = p.leader
          /\ q.stopped = p.stopped
      BY <1>0, <3>3 DEF Replica
    <3> HIDE DEF q
    <3>7. Quiet(p, q)
      BY <1>0, <3>1, <3>4, <3>5, <3>6 DEF Quiet, Recording
    <3> QED
      BY <3>2, <3>6, <3>7
  <2> QED
    BY <2>1, <2>2
<1>2. UNCHANGED <<made, open, closing, lock, row, overdue, limits, spent>>
  BY DEF PollTimer
<1>3. spent' \in [Faults -> Nat] /\ spent'.errors >= spent.errors
  BY <1>0, <1>2, SpentGrows DEF Faults
<1> QED
  BY <1>0, <1>1, <1>2, <1>3, QuietStep DEF TypeOK

\* The connection is gone, or the replica gives it up.
LEMMA LeavingSteps ==
  ASSUME IInv, NEW r \in Replicas, Disconnect(r) \/ Stop(r) \/ StopEnds(r)
  PROVE  IInv' /\ Elected
<1> DEFINE p == rep[r]
           w == WithoutTimer(p)
<1>0. TypeOK /\ p \in Replica
  BY DEF IInv, TypeOK
<1>1. w \in Replica /\ w.loops \subseteq p.loops /\ Recording(w) = Recording(p)
      /\ w.client = p.client /\ w.leader = p.leader /\ w.stopped = p.stopped
  BY <1>0, TimerIsApart
<1>2. \E q \in Replica : Becomes(r, q) /\ Quiet(p, q)
  <2> HIDE DEF w
  <2>1. CASE Disconnect(r)
    <3> DEFINE x == [w EXCEPT !.client = 0, !.leader = FALSE]
               y == ScheduleReconnect(x)
    <3>1. x \in Replica /\ x.loops = w.loops /\ x.client = 0 /\ ~x.leader
      BY <1>1 DEF Replica
    <3>2. \E q \in IF p.leader THEN OnLose(y) ELSE {y} : Becomes(r, q)
      BY <2>1 DEF Disconnect, w
    <3> HIDE DEF x
    <3>3. y \in Replica /\ Alike(x, y)
      BY <3>1, ReconnectIsApart
    <3> HIDE DEF y
    <3>4. \A q \in OnLose(y) \cup {y} : q \in Replica /\ Alike(y, q)
      BY <3>3, ReaperIsApart DEF Alike
    <3>5. \A q : Alike(y, q) => Quiet(p, q)
      BY <1>1, <3>1, <3>3 DEF Alike, Quiet, Recording
    <3> QED
      BY <3>2, <3>4, <3>5
  <2>2. CASE Stop(r)
    <3> DEFINE y == [w EXCEPT !.stopped = TRUE, !.link = IF @ = "waiting" THEN "idle" ELSE @,
                              !.client = 0, !.ending = p.client, !.wasLeader = p.leader,
                              !.leader = FALSE]
    <3>1. y \in Replica /\ y.loops = w.loops /\ y.client = 0 /\ ~y.leader
      BY <1>0, <1>1 DEF Replica
    <3>2. \E q \in IF p.client = 0 /\ y.wasLeader THEN OnLose(y) ELSE {y} : Becomes(r, q)
      BY <2>2 DEF Stop, w
    <3> HIDE DEF y
    <3>3. \A q \in OnLose(y) \cup {y} : q \in Replica /\ Alike(y, q)
      BY <3>1, ReaperIsApart DEF Alike
    <3>4. \A q : Alike(y, q) => Quiet(p, q)
      BY <1>1, <3>1 DEF Alike, Quiet, Recording
    <3> QED
      BY <3>2, <3>3, <3>4
  <2>3. CASE StopEnds(r)
    <3> DEFINE y == [p EXCEPT !.ending = 0]
    <3>1. y \in Replica /\ Alike(p, y)
      BY <1>0 DEF Replica, Alike
    <3>2. \E q \in IF y.wasLeader THEN OnLose(y) ELSE {y} : Becomes(r, q)
      BY <2>3 DEF StopEnds
    <3> HIDE DEF y
    <3>3. \A q \in OnLose(y) \cup {y} : q \in Replica /\ Alike(y, q)
      BY <3>1, ReaperIsApart DEF Alike
    <3>4. \A q : Alike(y, q) => Quiet(p, q)
      BY <3>1, AlikeIsQuiet DEF Alike
    <3> QED
      BY <3>2, <3>3, <3>4
  <2> QED
    BY <2>1, <2>2, <2>3
<1>3. UNCHANGED <<made, open, lock, row, overdue, limits>> /\ closing' \subseteq open
  BY <1>0 DEF Disconnect, Stop, StopEnds, TypeOK
<1>4. spent' \in [Faults -> Nat] /\ spent'.errors >= spent.errors
  BY <1>0, SpentGrows DEF Disconnect, Stop, StopEnds, Faults
<1> QED
  BY <1>0, <1>2, <1>3, <1>4, QuietStep DEF TypeOK

\* Processes die and come back.
LEMMA ProcessSteps ==
  ASSUME IInv, NEW r \in Replicas, Crash(r) \/ Restart(r)
  PROVE  IInv' /\ Elected
<1>0. TypeOK /\ rep[r] \in Replica
  BY DEF IInv, TypeOK
<1>1. ASSUME NEW q \in {Started, Exited}
      PROVE  q \in Replica /\ Quiet(rep[r], q)
  <2>1. Started \in Replica /\ Exited \in Replica
    BY DEF Started, Exited, Replica
  <2>2. q.loops = {} /\ q.client = 0 /\ ~q.leader
    <3>1. Started.loops = {} /\ Started.client = 0 /\ ~Started.leader
      BY DEF Started
    <3>2. Exited.loops = Started.loops /\ Exited.client = Started.client
          /\ Exited.leader = Started.leader
      BY DEF Started, Exited
    <3> QED
      BY <1>1, <3>1, <3>2
  <2>3. Recording(q) = {}
    BY <2>2 DEF Recording
  <2> QED
    BY <1>1, <2>1, <2>2, <2>3 DEF Quiet
<1>2. \E q \in {Started, Exited} : Becomes(r, q)
  BY DEF Crash, Restart
<1>3. UNCHANGED <<made, open, lock, row, overdue, limits>> /\ closing' \subseteq open
  BY <1>0 DEF Crash, Restart, TypeOK
<1>4. spent' \in [Faults -> Nat] /\ spent'.errors >= spent.errors
  BY <1>0, SpentGrows DEF Crash, Restart, Faults
<1> QED
  BY <1>0, <1>1, <1>2, <1>3, <1>4, QuietStep DEF TypeOK

\* Nothing that a replica knows changes.
LEMMA ApartStep ==
  ASSUME IInv, UNCHANGED <<rep, made, open, lock, row, limits>>,
         closing' \subseteq open, overdue' \in BOOLEAN,
         spent' \in [Faults -> Nat], spent'.errors >= spent.errors
  PROVE  IInv' /\ Elected
<1>0. TypeOK /\ Safe
  BY DEF IInv
<1>1. TypeOK' /\ NumbersAreUsed' /\ RecordingHasLock' /\ StoppedStaysOut'
  BY <1>0 DEF TypeOK, Safe, NumbersAreUsed, RecordingHasLock, StoppedStaysOut
<1>2. spent.errors \in Nat /\ spent'.errors \in Nat
  BY <1>0 DEF TypeOK, Faults
<1>3. RowIsWritten'
  BY <1>0, <1>2 DEF Safe, RowIsWritten, HoldsLock
<1> QED
  BY <1>1, <1>3 DEF IInv, Safe, Elected

-----------------------------------------------------------------------------
(***************************************************************************)
(* The steps that connect, take the lock, write the row and free the lock. *)
(***************************************************************************)

\* A new connection has a number that was never used.
LEMMA ConnectedStep ==
  ASSUME IInv, NEW r \in Replicas, Connected(r)
  PROVE  IInv' /\ Elected
<1> DEFINE p == rep[r]
           n == made[r] + 1
           s == <<r, n>>
<1>0. TypeOK /\ Safe /\ p \in Replica /\ made[r] \in Nat /\ n \in Nat
  BY DEF IInv, TypeOK
<1>1. made' = [made EXCEPT ![r] = n] /\ made'[r] = n /\ open' = open \cup {s}
  BY <1>0 DEF Connected, TypeOK
<1>2. UNCHANGED <<lock, row, overdue, limits, spent>>
  BY DEF Connected
<1>3. PICK q \in Replica :
        /\ Becomes(r, q)
        /\ q.leader = p.leader /\ q.stopped = p.stopped
        /\ q.client = n \/ (q.client = p.client /\ p.stopped)
        /\ \A l \in q.loops : l \in p.loops \/ (l.session = n /\ l.pc = "locking")
        /\ closing' \subseteq open'
  <2>1. CASE p.stopped
    <3> DEFINE e == [p EXCEPT !.link = "idle"]
    <3>1. e \in Replica /\ Alike(p, e)
      BY <1>0 DEF Replica, Alike
    <3>2. closing' \subseteq open' /\ Becomes(r, e)
      BY <1>0, <1>1, <2>1 DEF Connected, TypeOK
    <3> HIDE DEF e
    <3> QED
      BY <2>1, <3>1, <3>2 DEF Alike
  <2>2. CASE ~p.stopped
    <3> DEFINE m == [id |-> n, pc |-> "locking", session |-> n]
               e == [p EXCEPT !.link = "idle", !.client = n, !.loops = @ \cup {m}]
    <3>1. m \in Loop
      BY <1>0 DEF Loop
    <3>2. e \in Replica /\ e.client = n /\ e.loops = p.loops \cup {m}
          /\ e.leader = p.leader /\ e.stopped = p.stopped
      BY <1>0, <3>1 DEF Replica
    <3>3. closing' \subseteq open' /\ Becomes(r, e)
      BY <1>0, <1>1, <2>2 DEF Connected, TypeOK
    <3> HIDE DEF e
    <3> QED
      BY <3>2, <3>3
  <2> QED
    BY <2>1, <2>2
<1>4. /\ rep' \in [Replicas -> Replica] /\ rep'[r] = q
      /\ \A x \in Replicas \ {r} : rep'[x] = rep[x]
  BY <1>0, <1>3, ReplicaBecomes
<1>5. TypeOK'
  <2>1. s \in Sessions /\ made' \in [Replicas -> Nat]
    BY <1>0, <1>1 DEF Sessions, TypeOK
  <2> QED
    BY <1>0, <1>1, <1>2, <1>3, <1>4, <2>1 DEF TypeOK
<1>6. NumbersAreUsed'
  <2>1. \A x \in Replicas : made[x] \in Nat /\ made'[x] \in Nat /\ made[x] <= made'[x]
    BY <1>0, <1>1 DEF TypeOK
  <2>2. \A t \in open' : t[2] <= made'[t[1]]
    <3>1. ASSUME NEW t \in open
          PROVE  t[1] \in Replicas /\ t[2] \in Nat /\ t[2] <= made[t[1]]
      BY <1>0 DEF TypeOK, Sessions, Safe, NumbersAreUsed
    <3> QED
      BY <1>0, <1>1, <2>1, <3>1
  <2>3. \A x \in Replicas :
          rep[x].client <= made'[x] /\ \A l \in rep[x].loops : l.session <= made'[x]
    <3>1. \A x \in Replicas :
            rep[x].client \in Nat /\ \A l \in rep[x].loops : l.session \in Nat
      BY <1>0 DEF TypeOK, Replica, Loop
    <3> QED
      BY <1>0, <2>1, <3>1 DEF Safe, NumbersAreUsed
  <2>4. q.client <= made'[r] /\ \A l \in q.loops : l.session <= made'[r]
    BY <1>0, <1>1, <1>3, <2>3
  <2> QED
    BY <1>4, <2>2, <2>3, <2>4 DEF NumbersAreUsed
<1>7. RecordingHasLock'
  <2>1. \A l \in q.loops : l.pc = "recording" => l \in p.loops
    BY <1>3
  <2>2. \A l \in p.loops : <<r, l.session>> # s
    <3>1. \A l \in p.loops : l.session \in Nat /\ l.session <= made[r]
      BY <1>0 DEF Safe, NumbersAreUsed, Replica, Loop
    <3> QED
      BY <1>0, <3>1
  <2> QED
    BY <1>0, <1>1, <1>2, <1>4, <2>1, <2>2 DEF Safe, RecordingHasLock
<1>8. RowIsWritten'
  <2>1. lock # s
    BY <1>0, LimitsAssumption DEF TypeOK, Sessions, Safe, NumbersAreUsed
  <2>2. ~(HoldsLock(r)' /\ ~rep'[r].stopped)
    BY <1>2, <1>3, <1>4, <2>1 DEF HoldsLock
  <2> QED
    BY <1>0, <1>2, <1>4, <2>2 DEF Safe, RowIsWritten, HoldsLock
<1>9. StoppedStaysOut'
  BY <1>0, <1>3, <1>4 DEF Safe, StoppedStaysOut
<1>10. Elected
  BY <1>3, <1>4 DEF Elected
<1> QED
  BY <1>5, <1>6, <1>7, <1>8, <1>9, <1>10 DEF IInv, Safe

\* The lock is given to a session that then writes the row.
LEMMA LockAnsweredStep ==
  ASSUME IInv, NEW r \in Replicas, NEW l \in rep[r].loops, LockAnswered(r, l)
  PROVE  IInv' /\ Elected
<1> DEFINE p == rep[r]
           s == <<r, l.session>>
           acquired == lock \in {Nobody, s}
           q == Settled(p, l, acquired)
<1>0. TypeOK /\ Safe /\ p \in Replica /\ l \in p.loops /\ l.pc # "recording" /\ acquired \in BOOLEAN
  BY DEF IInv, TypeOK, LockAnswered
<1>1. /\ s \in open /\ ~Noticed(r, l)
      /\ lock' = IF acquired THEN s ELSE lock
      /\ Becomes(r, q)
      /\ UNCHANGED <<made, open, closing, row, overdue, limits, spent>>
  BY DEF LockAnswered
<1>2. /\ q \in Replica
      /\ q.client = p.client /\ q.leader = p.leader /\ q.stopped = p.stopped
      /\ \A m \in p.loops : m # l => m \in q.loops
      /\ \A m \in q.loops :
           m \in p.loops \/ (m.session = l.session /\ (m.pc = "recording" => acquired))
      /\ acquired /\ ~p.stopped =>
           \E m \in q.loops : m.session = l.session /\ m.pc = "recording"
  <2>1. q = Settled(p, l, acquired)
    OBVIOUS
  <2> HIDE DEF p, q, acquired
  <2> QED
    BY <1>0, <2>1, SettledReplica
<1> HIDE DEF q
<1>3. /\ rep' \in [Replicas -> Replica] /\ rep'[r] = q
      /\ \A x \in Replicas \ {r} : rep'[x] = rep[x]
  BY <1>0, <1>1, <1>2, ReplicaBecomes
<1>4. TypeOK'
  BY <1>0, <1>1, <1>3 DEF TypeOK
<1>5. NumbersAreUsed'
  BY <1>0, <1>1, <1>2, <1>3 DEF Safe, NumbersAreUsed
<1>6. RecordingHasLock'
  <2>1. ASSUME NEW x \in Replicas, NEW m \in rep[x].loops, m.pc = "recording"
        PROVE  lock' = <<x, m.session>> \/ <<x, m.session>> \notin open
    BY <1>0, <1>1, <2>1, LimitsAssumption DEF Safe, RecordingHasLock, TypeOK, Sessions
  <2>2. \A m \in q.loops : m.pc = "recording" =>
          (m \in p.loops /\ m.pc = "recording") \/ lock' = <<r, m.session>>
    BY <1>1, <1>2
  <2> QED
    BY <1>1, <1>3, <2>1, <2>2 DEF RecordingHasLock
<1>7. RowIsWritten'
  <2> SUFFICES ASSUME NEW x \in Replicas, HoldsLock(x)', ~rep'[x].stopped,
                      \A m \in rep'[x].loops : m.pc = "recording" => m.session # rep'[x].client
               PROVE  row = x \/ spent.errors > 0
    BY <1>1 DEF RowIsWritten
  <2>1. rep'[x].client = rep[x].client /\ ~rep[x].stopped
    BY <1>2, <1>3
  <2>2. lock' = lock
    <3>1. CASE x = r
      <4>1. l.session = p.client
        BY <1>1, <2>1, <3>1 DEF Noticed
      <4> QED
        BY <1>1, <1>2, <1>3, <2>1, <3>1, <4>1
    <3>2. CASE x # r
      BY <1>1, <3>2 DEF HoldsLock
    <3> QED
      BY <3>1, <3>2
  <2>3. HoldsLock(x)
    BY <2>1, <2>2 DEF HoldsLock
  <2>4. \A m \in rep[x].loops : m.pc = "recording" => m.session # rep[x].client
    <3>1. ASSUME NEW m \in rep[x].loops, m.pc = "recording"
          PROVE  m \in rep'[x].loops
      BY <1>0, <1>2, <1>3, <3>1
    <3> QED
      BY <2>1, <3>1
  <2> QED
    BY <1>0, <2>1, <2>3, <2>4 DEF Safe, RowIsWritten
<1>8. StoppedStaysOut'
  BY <1>0, <1>2, <1>3 DEF Safe, StoppedStaysOut
<1>9. Elected
  BY <1>2, <1>3 DEF Elected
<1> QED
  BY <1>4, <1>5, <1>6, <1>7, <1>8, <1>9 DEF IInv, Safe

\* A query that was not answered may leave the lock with a session that the replica has
\* given up already.
LEMMA LockFailsStep ==
  ASSUME IInv, NEW r \in Replicas, NEW l \in rep[r].loops, LockFails(r, l)
  PROVE  IInv' /\ Elected
<1> DEFINE p == rep[r]
           s == <<r, l.session>>
           q == Settled(p, l, FALSE)
<1>0. TypeOK /\ Safe /\ p \in Replica /\ l \in p.loops /\ l.pc # "recording"
  BY DEF IInv, TypeOK, LockFails
<1>1. /\ lock' = lock \/ (lock = Nobody /\ lock' = s /\ s \in open /\ (Noticed(r, l) \/ p.stopped))
      /\ Becomes(r, q)
      /\ UNCHANGED <<made, open, closing, row, overdue, limits>>
      /\ Spend("errors") \/ UNCHANGED spent
  BY DEF LockFails
<1>2. /\ q \in Replica
      /\ q.client = p.client /\ q.leader = p.leader /\ q.stopped = p.stopped
      /\ \A m \in p.loops : m # l => m \in q.loops
      /\ \A m \in q.loops : m \in p.loops \/ (m.session = l.session /\ m.pc # "recording")
  <2> DEFINE acquired == FALSE
  <2>1. q = Settled(p, l, acquired) /\ acquired \in BOOLEAN /\ ~acquired
    OBVIOUS
  <2> HIDE DEF p, q, acquired
  <2> QED
    BY <1>0, <2>1, SettledReplica
<1> HIDE DEF q
<1>3. /\ rep' \in [Replicas -> Replica] /\ rep'[r] = q
      /\ \A x \in Replicas \ {r} : rep'[x] = rep[x]
  BY <1>0, <1>1, <1>2, ReplicaBecomes
<1>4. spent' \in [Faults -> Nat] /\ spent'.errors >= spent.errors
  BY <1>0, <1>1, SpentGrows DEF Faults
<1>5. TypeOK'
  BY <1>0, <1>1, <1>3, <1>4 DEF TypeOK
<1>6. NumbersAreUsed'
  BY <1>0, <1>1, <1>2, <1>3 DEF Safe, NumbersAreUsed
<1>7. RecordingHasLock'
  <2>1. ASSUME NEW x \in Replicas, NEW m \in rep[x].loops, m.pc = "recording"
        PROVE  lock' = <<x, m.session>> \/ <<x, m.session>> \notin open
    <3>1. m.session \in Nat
      BY <1>0 DEF TypeOK, Replica, Loop
    <3> QED
      BY <1>0, <1>1, <2>1, <3>1, LimitsAssumption DEF Safe, RecordingHasLock
  <2>2. \A m \in q.loops : m.pc = "recording" => m \in p.loops
    BY <1>2
  <2> QED
    BY <1>1, <1>3, <2>1, <2>2 DEF RecordingHasLock
<1>8. RowIsWritten'
  <2> SUFFICES ASSUME NEW x \in Replicas, HoldsLock(x)', ~rep'[x].stopped,
                      \A m \in rep'[x].loops : m.pc = "recording" => m.session # rep'[x].client
               PROVE  row = x \/ spent'.errors > 0
    BY <1>1 DEF RowIsWritten
  <2>1. rep'[x].client = rep[x].client /\ ~rep[x].stopped
    BY <1>2, <1>3
  <2>2. lock' = lock
    BY <1>1, <2>1 DEF HoldsLock, Noticed
  <2>3. HoldsLock(x)
    BY <2>1, <2>2 DEF HoldsLock
  <2>4. \A m \in rep[x].loops : m.pc = "recording" => m.session # rep[x].client
    <3>1. ASSUME NEW m \in rep[x].loops, m.pc = "recording"
          PROVE  m \in rep'[x].loops
      BY <1>0, <1>2, <1>3, <3>1
    <3> QED
      BY <2>1, <3>1
  <2>5. row = x \/ spent.errors > 0
    BY <1>0, <2>1, <2>3, <2>4 DEF Safe, RowIsWritten
  <2>6. spent.errors \in Nat /\ spent'.errors \in Nat
    BY <1>0, <1>4 DEF TypeOK, Faults
  <2> QED
    BY <1>4, <2>5, <2>6
<1>9. StoppedStaysOut'
  BY <1>0, <1>2, <1>3 DEF Safe, StoppedStaysOut
<1>10. Elected
  BY <1>2, <1>3 DEF Elected
<1> QED
  BY <1>5, <1>6, <1>7, <1>8, <1>9, <1>10 DEF IInv, Safe

\* Only a session that has the lock writes the row.
LEMMA RecordedStep ==
  ASSUME IInv, NEW r \in Replicas, NEW l \in rep[r].loops, Recorded(r, l)
  PROVE  IInv' /\ Elected
<1> DEFINE p == rep[r]
           s == <<r, l.session>>
           q == Leads(p, l)
<1>0. TypeOK /\ Safe /\ p \in Replica /\ l \in p.loops /\ l.pc = "recording"
  BY DEF IInv, TypeOK, Recorded
<1>1. /\ \/ s \in open /\ row' = r /\ UNCHANGED spent
         \/ Broken(s) /\ (Noticed(r, l) \/ p.stopped) /\ UNCHANGED <<row, spent>>
         \/ UNCHANGED row /\ Spend("errors")
      /\ Becomes(r, q)
      /\ UNCHANGED <<made, open, closing, lock, overdue, limits>>
  BY DEF Recorded
<1>2. /\ q \in Replica
      /\ q.client = p.client /\ q.stopped = p.stopped
      /\ q.loops = p.loops \ {l}
      /\ p.stopped => q.leader = p.leader
  <2>1. q = Leads(p, l)
    OBVIOUS
  <2> HIDE DEF p, q
  <2> QED
    BY <1>0, <2>1, LeadsReplica
<1> HIDE DEF q
<1>3. /\ rep' \in [Replicas -> Replica] /\ rep'[r] = q
      /\ \A x \in Replicas \ {r} : rep'[x] = rep[x]
  BY <1>0, <1>1, <1>2, ReplicaBecomes
<1>4. spent' \in [Faults -> Nat] /\ spent'.errors >= spent.errors
  BY <1>0, <1>1, SpentGrows DEF Faults
<1>5. TypeOK'
  BY <1>0, <1>1, <1>3, <1>4 DEF TypeOK
<1>6. NumbersAreUsed'
  BY <1>0, <1>1, <1>2, <1>3 DEF Safe, NumbersAreUsed
<1>7. RecordingHasLock'
  BY <1>0, <1>1, <1>2, <1>3 DEF Safe, RecordingHasLock
<1>8. RowIsWritten'
  <2> SUFFICES ASSUME NEW x \in Replicas, HoldsLock(x)', ~rep'[x].stopped,
                      \A m \in rep'[x].loops : m.pc = "recording" => m.session # rep'[x].client
               PROVE  row' = x \/ spent'.errors > 0
    BY DEF RowIsWritten
  <2>1. rep'[x].client = rep[x].client /\ ~rep[x].stopped /\ HoldsLock(x)
    BY <1>1, <1>2, <1>3 DEF HoldsLock
  <2>2. spent.errors \in Nat /\ spent'.errors \in Nat
    BY <1>0, <1>4 DEF TypeOK, Faults
  <2>3. ASSUME UNCHANGED row,
               \A m \in rep[x].loops : m.pc = "recording" => m.session # rep[x].client
        PROVE  row' = x \/ spent'.errors > 0
    <3>1. row = x \/ spent.errors > 0
      BY <1>0, <2>1, <2>3 DEF Safe, RowIsWritten
    <3> QED
      BY <1>4, <2>2, <2>3, <3>1
  <2>4. CASE s \in open /\ row' = r
    <3>1. lock = s
      BY <1>0, <2>4 DEF Safe, RecordingHasLock
    <3> QED
      BY <2>1, <2>4, <3>1 DEF HoldsLock
  <2>5. CASE Broken(s) /\ (Noticed(r, l) \/ p.stopped) /\ UNCHANGED <<row, spent>>
    <3>1. x = r => l.session # p.client
      BY <2>1, <2>5 DEF Noticed
    <3>2. \A m \in rep[x].loops : m.pc = "recording" => m.session # rep[x].client
      BY <1>2, <1>3, <2>1, <3>1
    <3> QED
      BY <2>3, <2>5, <3>2
  <2>6. CASE UNCHANGED row /\ Spend("errors")
    BY <1>0, <2>2, <2>6 DEF Spend, TypeOK, Faults
  <2> QED
    BY <1>1, <2>4, <2>5, <2>6
<1>9. StoppedStaysOut'
  BY <1>0, <1>2, <1>3 DEF Safe, StoppedStaysOut
<1>10. Elected
  <2>1. lock = s \/ Broken(s)
    BY <1>0 DEF Safe, RecordingHasLock, Broken
  <2> QED
    BY <1>0, <1>3, <2>1 DEF Elected
<1> QED
  BY <1>5, <1>6, <1>7, <1>8, <1>9, <1>10 DEF IInv, Safe

\* The lock goes with its session.
LEMMA ServerClosesStep ==
  ASSUME IInv, NEW s \in open, ServerCloses(s)
  PROVE  IInv' /\ Elected
<1>0. TypeOK /\ Safe /\ s \in Sessions
  BY DEF IInv, TypeOK
<1>1. /\ open' = open \ {s} /\ closing' = closing \ {s}
      /\ lock' = IF lock = s THEN Nobody ELSE lock
      /\ UNCHANGED <<rep, made, row, overdue, limits, spent>>
  BY DEF ServerCloses
<1>2. TypeOK'
  BY <1>0, <1>1 DEF TypeOK
<1>3. NumbersAreUsed' /\ RecordingHasLock' /\ StoppedStaysOut' /\ Elected
  BY <1>0, <1>1 DEF Safe, NumbersAreUsed, RecordingHasLock, StoppedStaysOut, Elected
<1>4. RowIsWritten'
  <2>1. \A x \in Replicas : HoldsLock(x)' => HoldsLock(x)
    <3>1. \A x \in Replicas : rep[x].client \in Nat
      BY <1>0 DEF TypeOK, Replica
    <3>2. \A x \in Replicas : <<x, rep[x].client>> # Nobody
      BY <3>1, LimitsAssumption
    <3> QED
      BY <1>1, <3>2 DEF HoldsLock
  <2> QED
    BY <1>0, <1>1, <2>1 DEF Safe, RowIsWritten
<1> QED
  BY <1>2, <1>3, <1>4 DEF IInv, Safe

-----------------------------------------------------------------------------
(***************************************************************************)
(* The theorems.                                                           *)
(***************************************************************************)

LEMMA InitIInv == Init => IInv
<1> SUFFICES ASSUME Init PROVE IInv
  OBVIOUS
<1>1. Started \in Replica /\ Started.loops = {} /\ Started.client = 0 /\ ~Started.leader
  BY DEF Started, Replica
<1>2. TypeOK
  BY <1>1, LimitsAssumption DEF Init, TypeOK
<1>3. Safe
  BY <1>1 DEF Init, Safe, NumbersAreUsed, RecordingHasLock, RowIsWritten, StoppedStaysOut, HoldsLock
<1> QED
  BY <1>2, <1>3 DEF IInv

LEMMA NextIInv ==
  ASSUME IInv, [Next]_vars
  PROVE  IInv' /\ Elected
<1>0. TypeOK
  BY DEF IInv
<1>1. ASSUME NEW r \in Replicas,
             \/ ReaperTimer(r) \/ ReaperTick(r) \/ ReconnectTimer(r) \/ ConnectFails(r)
             \/ Connected(r) \/ (\E l \in rep[r].loops : LoopStep(r, l))
             \/ Disconnect(r) \/ Stop(r) \/ StopEnds(r) \/ Crash(r) \/ Restart(r)
      PROVE  IInv' /\ Elected
  <2>1. CASE ReaperTimer(r) \/ ReaperTick(r)
    BY <2>1, ReaperSteps
  <2>2. CASE ReconnectTimer(r) \/ ConnectFails(r)
    BY <2>2, ConnectingSteps
  <2>3. CASE Connected(r)
    BY <2>3, ConnectedStep
  <2>4. ASSUME NEW l \in rep[r].loops, LoopStep(r, l)
        PROVE  IInv' /\ Elected
    BY <2>4, LockAnsweredStep, LockFailsStep, RecordedStep, PollTimerStep DEF LoopStep
  <2>5. CASE Disconnect(r) \/ Stop(r) \/ StopEnds(r)
    BY <2>5, LeavingSteps
  <2>6. CASE Crash(r) \/ Restart(r)
    BY <2>6, ProcessSteps
  <2> QED
    BY <1>1, <2>1, <2>2, <2>3, <2>4, <2>5, <2>6
<1>2. ASSUME NEW r \in Replicas, NEW l \in Rejected(r), LockFails(r, l) \/ Recorded(r, l)
      PROVE  IInv' /\ Elected
  BY <1>1, <1>2 DEF Rejected, LoopStep
<1>3. ASSUME NEW s \in open, Drop(s) \/ ServerCloses(s)
      PROVE  IInv' /\ Elected
  <2>1. CASE Drop(s)
    <3>1. spent' \in [Faults -> Nat] /\ spent'.errors >= spent.errors
      BY <1>0, <2>1, SpentGrows DEF Drop, Faults
    <3> QED
      BY <1>0, <2>1, <3>1, ApartStep DEF Drop, TypeOK
  <2>2. CASE ServerCloses(s)
    BY <2>2, ServerClosesStep
  <2> QED
    BY <1>3, <2>1, <2>2
<1>4. CASE Expire \/ UNCHANGED vars
  <2>1. spent' \in [Faults -> Nat] /\ spent'.errors >= spent.errors
    BY <1>0, <1>4, SpentGrows DEF Expire, vars, Faults
  <2> QED
    BY <1>0, <1>4, <2>1, ApartStep DEF Expire, vars, TypeOK
<1>5. CASE Next
  <2>1. ASSUME NEW r \in Replicas,
               IF Rejected(r) # {}
               THEN Crash(r) \/ \E l \in Rejected(r) : LockFails(r, l) \/ Recorded(r, l)
               ELSE \/ ReaperTimer(r) \/ ReaperTick(r)
                    \/ ReconnectTimer(r) \/ ConnectFails(r) \/ Connected(r)
                    \/ \E l \in rep[r].loops : LoopStep(r, l)
                    \/ Disconnect(r) \/ Stop(r) \/ StopEnds(r) \/ Crash(r) \/ Restart(r)
        PROVE  IInv' /\ Elected
    BY <1>1, <1>2, <2>1
  <2> QED
    BY <1>3, <1>4, <1>5, <2>1 DEF Next
<1> QED
  BY <1>4, <1>5

LEMMA AlwaysIInv == Spec => []IInv
<1>1. IInv /\ [Next]_vars => IInv'
  BY NextIInv
<1> QED
  BY <1>1, InitIInv, PTL DEF Spec

\* Type correctness of the scheduler model.
THEOREM TypeCorrect == Spec => []TypeOK
<1>1. IInv => TypeOK
  BY DEF IInv
<1> QED
  BY <1>1, AlwaysIInv, PTL

\* A replica that was told to stop is never leader again, at whatever await of
\* LeaderElection it was.
THEOREM StoppedNeverLeads == Spec => []StoppedStaysOut
<1>1. IInv => StoppedStaysOut
  BY DEF IInv, Safe
<1> QED
  BY <1>1, AlwaysIInv, PTL

\* recordLeadership leaves the row to the replica that holds the lock.
THEOREM LeaderIsNamed == Spec => []RowNamesLeader
<1>1. IInv => RowNamesLeader
  <2> SUFFICES ASSUME IInv, NEW r \in Replicas, rep[r].leader, HoldsLock(r),
                      \A l \in rep[r].loops : l.pc # "recording"
               PROVE  row = r \/ spent.errors > 0
    BY DEF RowNamesLeader
  <2>1. RowIsWritten /\ ~rep[r].stopped
    BY DEF IInv, Safe, StoppedStaysOut
  <2> QED
    BY <2>1 DEF RowIsWritten
<1> QED
  BY <1>1, AlwaysIInv, PTL

\* attemptAcquire makes a replica leader with the advisory lock only, or on a connection
\* that broke while it wrote the row.
THEOREM LeaderHadLock == Spec => ElectedWithLock
<1>1. IInv /\ [Next]_vars => [Elected]_vars
  BY NextIInv
<1>2. Spec => [][Elected]_vars
  BY <1>1, AlwaysIInv, PTL DEF Spec
<1> QED
  BY <1>2 DEF ElectedWithLock, Elected
=============================================================================
