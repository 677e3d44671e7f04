--------------------------- MODULE LeaderElection ---------------------------
(***************************************************************************)
(* The scheduler replicas: LeaderElection with its dedicated connection,   *)
(* the session-scoped advisory lock of Postgres, and the Reaper that the   *)
(* Scheduler starts and stops in onAcquire and onLose.                     *)
(*                                                                         *)
(* A replica is one single-threaded process; between two awaits it runs    *)
(* without interruption, so there is one action per await, timer and       *)
(* event.  A session is a pair of a replica and the number of its          *)
(* connection.  A session whose connection broke, or was ended, is         *)
(* "closing": the server notices, frees the lock and forgets it in a step  *)
(* of its own, and so does the replica, in either order.                   *)
(*                                                                         *)
(* attemptAcquire keeps itself going through pollTimer, one loop for every *)
(* connection made.  pollTimer holds the timer that was set last, so an    *)
(* older loop cannot be cleared.  The queue-depth gauge is left out.       *)
(*                                                                         *)
(* A definition marked "Mutant" is a plausible bug in the one after it.    *)
(***************************************************************************)
EXTENDS Naturals, FiniteSets

CONSTANTS
  Replicas,   \* scheduler processes
  Nobody,     \* no lock holder, no row in scheduler_leadership
  Limits      \* bounds of the environment: how many connections drop, processes crash,
              \* queries or connection attempts fail, and replicas are told to stop

Faults == {"drops", "crashes", "errors", "stops"}

ASSUME LimitsAssumption ==
  /\ Nobody \notin Replicas \cup (Replicas \X Nat)
  /\ Limits \subseteq [Faults -> Nat]

VARIABLES
  rep,      \* the replicas
  made,     \* how many connections a replica has made
  open,     \* the server's sessions
  closing,  \* those whose connection is gone
  lock,     \* the session that holds LEADER_LOCK_KEY
  row,      \* scheduler_leadership.leader_id
  overdue,  \* whether a lease in `tasks` waits to be reclaimed
  limits,   \* what bounds this behaviour
  spent     \* what of it has happened

vars == <<rep, made, open, closing, lock, row, overdue, limits, spent>>

Sessions == Replicas \X Nat

Loop == [id : Nat, pc : {"waiting", "locking", "recording"}, session : Nat]

\* `client` and `ending` are connection numbers, 0 for none; `ending` is what stop() waits
\* for.  `pollTimer` is the loop that set the timer last.  `halted` is the reaper's
\* `stopped`, `timers` and `ticks` count its pending timers and running ticks.
Replica ==
  [up : BOOLEAN, link : {"idle", "waiting", "connecting"}, client : Nat, leader : BOOLEAN,
   stopped : BOOLEAN, wasLeader : BOOLEAN, ending : Nat,
   loops : SUBSET Loop, pollTimer : Nat,
   halted : BOOLEAN, timers : Nat, ticks : Nat]

TypeOK ==
  /\ rep \in [Replicas -> Replica]
  /\ made \in [Replicas -> Nat]
  /\ open \subseteq Sessions /\ closing \subseteq open
  /\ lock \in open \cup {Nobody}
  /\ row \in Replicas \cup {Nobody}
  /\ overdue \in BOOLEAN
  /\ limits \in [Faults -> Nat] /\ spent \in [Faults -> Nat]

\* A process whose start() has just called connect().
Started ==
  [up |-> TRUE, link |-> "connecting", client |-> 0, leader |-> FALSE,
   stopped |-> FALSE, wasLeader |-> FALSE, ending |-> 0, loops |-> {}, pollTimer |-> 0,
   halted |-> FALSE, timers |-> 0, ticks |-> 0]

Exited == [Started EXCEPT !.up = FALSE, !.link = "idle"]

Init ==
  /\ rep = [r \in Replicas |-> Started]
  /\ made = [r \in Replicas |-> 0]
  /\ open = {} /\ closing = {} /\ lock = Nobody /\ row = Nobody
  /\ overdue = TRUE
  /\ limits \in Limits
  /\ spent = [kind \in Faults |-> 0]

Spend(kind) ==
  /\ spent[kind] < limits[kind]
  /\ spent' = [spent EXCEPT ![kind] = @ + 1]

Becomes(r, p) == rep' = [rep EXCEPT ![r] = p]

Broken(s) == s \notin open \/ s \in closing

-----------------------------------------------------------------------------
(***************************************************************************)
(* Reaper, started in onAcquire and stopped in onLose.                     *)
(***************************************************************************)
ScheduleNext(p) == IF p.halted THEN p ELSE [p EXCEPT !.timers = @ + 1]

OnAcquire(p) == ScheduleNext(p)

\* Mutant: only the timer is cleared.
OnLoseClearing(p) == {[p EXCEPT !.timers = IF @ = 0 THEN 0 ELSE @ - 1]}

\* reaper.stop() clears the timer set last, which has fired if that loop is in its tick.
OnLose(p) ==
  {[p EXCEPT !.halted = TRUE, !.timers = n] :
     n \in {m \in 0 .. p.timers : m = p.timers - 1 \/ (m = p.timers /\ (p.ticks > 0 \/ m = 0))}}

ReaperTimer(r) ==
  /\ rep[r].timers > 0
  /\ Becomes(r, [rep[r] EXCEPT !.timers = @ - 1, !.ticks = @ + 1])
  /\ UNCHANGED <<made, open, closing, lock, row, overdue, limits, spent>>

\* Mutant: an error ends the loop.
ReaperTickOnce(r) ==
  /\ rep[r].ticks > 0
  /\ \/ /\ overdue' = FALSE /\ UNCHANGED spent
        /\ Becomes(r, ScheduleNext([rep[r] EXCEPT !.ticks = @ - 1]))
     \/ /\ UNCHANGED overdue /\ Spend("errors")
        /\ Becomes(r, [rep[r] EXCEPT !.ticks = @ - 1])
  /\ UNCHANGED <<made, open, closing, lock, row, limits>>

\* reclaimExpired returns or throws; either way the next tick is scheduled.
ReaperTick(r) ==
  /\ rep[r].ticks > 0
  /\ \/ overdue' = FALSE /\ UNCHANGED spent
     \/ UNCHANGED overdue /\ Spend("errors")
  /\ Becomes(r, ScheduleNext([rep[r] EXCEPT !.ticks = @ - 1]))
  /\ UNCHANGED <<made, open, closing, lock, row, limits>>

Expire ==
  /\ ~overdue /\ overdue' = TRUE
  /\ UNCHANGED <<rep, made, open, closing, lock, row, limits, spent>>

-----------------------------------------------------------------------------
(***************************************************************************)
(* connect().                                                              *)
(***************************************************************************)
ScheduleReconnect(p) == [p EXCEPT !.link = IF p.stopped THEN "idle" ELSE "waiting"]

ReconnectTimer(r) ==
  /\ rep[r].link = "waiting"
  /\ Becomes(r, [rep[r] EXCEPT !.link = "connecting"])
  /\ UNCHANGED <<made, open, closing, lock, row, overdue, limits, spent>>

ConnectFails(r) ==
  /\ rep[r].link = "connecting"
  /\ Spend("errors")
  /\ Becomes(r, ScheduleReconnect(rep[r]))
  /\ UNCHANGED <<made, open, closing, lock, row, overdue, limits>>

\* Mutant: stop() is not noticed.
ConnectedAnyway(r) ==
  /\ rep[r].link = "connecting"
  /\ made' = [made EXCEPT ![r] = @ + 1]
  /\ open' = open \cup {<<r, made'[r]>>}
  /\ Becomes(r, [rep[r] EXCEPT !.link = "idle", !.client = made'[r],
                   !.loops = @ \cup {[id |-> made'[r], pc |-> "locking",
                                      session |-> made'[r]]}])
  /\ UNCHANGED <<closing, lock, row, overdue, limits, spent>>

\* The connection is up: ended at once if stop() came meanwhile, else the lock is tried.
Connected(r) ==
  /\ rep[r].link = "connecting"
  /\ made' = [made EXCEPT ![r] = @ + 1]
  /\ LET s == <<r, made'[r]>>
     IN  /\ open' = open \cup {s}
         /\ IF rep[r].stopped
            THEN /\ closing' = closing \cup {s}
                 /\ Becomes(r, [rep[r] EXCEPT !.link = "idle"])
            ELSE /\ UNCHANGED closing
                 /\ Becomes(r, [rep[r] EXCEPT !.link = "idle", !.client = made'[r],
                                  !.loops = @ \cup {[id |-> made'[r], pc |-> "locking",
                                                     session |-> made'[r]]}])
  /\ UNCHANGED <<lock, row, overdue, limits, spent>>

-----------------------------------------------------------------------------
(***************************************************************************)
(* attemptAcquire(), for a loop l of replica r.                            *)
(***************************************************************************)
Ends(p, l) == [p EXCEPT !.loops = @ \ {l}]

Goes(p, l, pc) == [p EXCEPT !.loops = (@ \ {l}) \cup {[l EXCEPT !.pc = pc]}]

\* The rest of attemptAcquire once the query has settled: nothing if stopped, then the row
\* if the lock was acquired, else the timer.
Settled(p, l, acquired) ==
  IF p.stopped THEN Ends(p, l)
  ELSE IF acquired THEN Goes(p, l, "recording")
  ELSE [Goes(p, l, "waiting") EXCEPT !.pollTimer = l.id]

\* The client of the loop's query has told the replica that it is gone.
Noticed(r, l) == rep[r].client # l.session /\ ~rep[r].stopped

\* Its pending queries are rejected before anything else runs (process.nextTick).
Rejected(r) == {l \in rep[r].loops : l.pc # "waiting" /\ Noticed(r, l)}

\* Mutant: the answer is not looked at.
LockAnsweredBlindly(r, l) ==
  /\ l.pc = "locking" /\ <<r, l.session>> \in open /\ ~Noticed(r, l)
  /\ lock' = IF lock = Nobody THEN <<r, l.session>> ELSE lock
  /\ Becomes(r, Settled(rep[r], l, TRUE))
  /\ UNCHANGED <<made, open, closing, row, overdue, limits, spent>>

\* pg_try_advisory_lock answers; a session that has the lock gets it again.
LockAnswered(r, l) ==
  LET s == <<r, l.session>>
      acquired == lock \in {Nobody, s}
  IN  /\ l.pc = "locking" /\ s \in open /\ ~Noticed(r, l)
      /\ lock' = IF acquired THEN s ELSE lock
      /\ Becomes(r, Settled(rep[r], l, acquired))
      /\ UNCHANGED <<made, open, closing, row, overdue, limits, spent>>

\* The query fails, or its connection is gone; then the server may have run it.
LockFails(r, l) ==
  LET s == <<r, l.session>>
  IN  /\ l.pc = "locking"
      /\ \/ ~Broken(s) /\ Spend("errors") /\ UNCHANGED lock
         \/ /\ Broken(s) /\ (Noticed(r, l) \/ rep[r].stopped)
            /\ UNCHANGED spent
            /\ lock' \in {lock} \cup {t \in {s} \cap open : lock = Nobody}
      /\ Becomes(r, Settled(rep[r], l, FALSE))
      /\ UNCHANGED <<made, open, closing, row, overdue, limits>>

\* Mutant: stop() is not noticed.
LeadsAnyway(p, l) == OnAcquire([Ends(p, l) EXCEPT !.leader = TRUE])

\* The rest of attemptAcquire once the row is written, or not.
Leads(p, l) ==
  IF p.stopped THEN Ends(p, l) ELSE OnAcquire([Ends(p, l) EXCEPT !.leader = TRUE])

\* Mutant: the row is written through the pool.
RecordedThroughPool(r, l) ==
  /\ l.pc = "recording"
  /\ row' = r
  /\ UNCHANGED spent
  /\ Becomes(r, Leads(rep[r], l))
  /\ UNCHANGED <<made, open, closing, lock, overdue, limits>>

\* recordLeadership settles: on an open session the row is written, unless the query
\* fails; on a broken one it may be.
Recorded(r, l) ==
  LET s == <<r, l.session>>
  IN  /\ l.pc = "recording"
      /\ \/ s \in open /\ row' = r /\ UNCHANGED spent
         \/ Broken(s) /\ (Noticed(r, l) \/ rep[r].stopped) /\ UNCHANGED <<row, spent>>
         \/ ~Broken(s) /\ UNCHANGED row /\ Spend("errors")
      /\ Becomes(r, Leads(rep[r], l))
      /\ UNCHANGED <<made, open, closing, lock, overdue, limits>>

PollTimer(r, l) ==
  /\ l.pc = "waiting"
  /\ Becomes(r, IF rep[r].stopped \/ rep[r].client = 0 THEN Ends(rep[r], l)
                ELSE [rep[r] EXCEPT !.loops = (@ \ {l}) \cup
                        {[l EXCEPT !.pc = "locking", !.session = rep[r].client]}])
  /\ UNCHANGED <<made, open, closing, lock, row, overdue, limits, spent>>

-----------------------------------------------------------------------------
(***************************************************************************)
(* Connections that drop, processes that stop and die.                     *)
(***************************************************************************)
Drop(s) ==
  /\ s \in open \ closing
  /\ Spend("drops")
  /\ closing' = closing \cup {s}
  /\ UNCHANGED <<rep, made, open, lock, row, overdue, limits>>

ServerCloses(s) ==
  /\ s \in closing
  /\ open' = open \ {s} /\ closing' = closing \ {s}
  /\ lock' = IF lock = s THEN Nobody ELSE lock
  /\ UNCHANGED <<rep, made, row, overdue, limits, spent>>

WithoutTimer(p) ==
  [p EXCEPT !.loops = {l \in @ : ~(l.pc = "waiting" /\ l.id = p.pollTimer)}]

\* Mutant: no new connection after the first.
DisconnectForGood(r) ==
  /\ rep[r].client # 0 /\ Broken(<<r, rep[r].client>>)
  /\ LET p == [WithoutTimer(rep[r]) EXCEPT !.client = 0, !.leader = FALSE]
     IN  \E q \in IF rep[r].leader THEN OnLose(p) ELSE {p} : Becomes(r, q)
  /\ UNCHANGED <<made, open, closing, lock, row, overdue, limits, spent>>

\* handleDisconnect, for the current client.
Disconnect(r) ==
  /\ rep[r].client # 0 /\ Broken(<<r, rep[r].client>>)
  /\ LET p == ScheduleReconnect([WithoutTimer(rep[r]) EXCEPT !.client = 0, !.leader = FALSE])
     IN  \E q \in IF rep[r].leader THEN OnLose(p) ELSE {p} : Becomes(r, q)
  /\ UNCHANGED <<made, open, closing, lock, row, overdue, limits, spent>>

\* stop(), up to client.end() if there is a client.
Stop(r) ==
  LET client == rep[r].client
      p == [WithoutTimer(rep[r]) EXCEPT
              !.stopped = TRUE, !.link = IF @ = "waiting" THEN "idle" ELSE @,
              !.client = 0, !.ending = client, !.wasLeader = rep[r].leader, !.leader = FALSE]
  IN  /\ rep[r].up /\ ~rep[r].stopped
      /\ Spend("stops")
      /\ closing' = closing \cup {s \in {<<r, client>>} : s \in open}
      /\ \E q \in IF client = 0 /\ p.wasLeader THEN OnLose(p) ELSE {p} : Becomes(r, q)
      /\ UNCHANGED <<made, open, lock, row, overdue, limits>>

\* client.end() has settled.
StopEnds(r) ==
  /\ rep[r].ending # 0
  /\ LET p == [rep[r] EXCEPT !.ending = 0]
     IN  \E q \in IF p.wasLeader THEN OnLose(p) ELSE {p} : Becomes(r, q)
  /\ UNCHANGED <<made, open, closing, lock, row, overdue, limits, spent>>

Crash(r) ==
  /\ rep[r].up
  /\ Spend("crashes")
  /\ Becomes(r, Exited)
  /\ closing' = closing \cup {s \in open : s[1] = r}
  /\ UNCHANGED <<made, open, lock, row, overdue, limits>>

Restart(r) ==
  /\ ~rep[r].up
  /\ Becomes(r, Started)
  /\ UNCHANGED <<made, open, closing, lock, row, overdue, limits, spent>>

-----------------------------------------------------------------------------
LoopStep(r, l) == LockAnswered(r, l) \/ LockFails(r, l) \/ Recorded(r, l) \/ PollTimer(r, l)

Next ==
  \/ \E r \in Replicas :
       IF Rejected(r) # {}
       THEN Crash(r) \/ \E l \in Rejected(r) : LockFails(r, l) \/ Recorded(r, l)
       ELSE \/ ReaperTimer(r) \/ ReaperTick(r)
            \/ ReconnectTimer(r) \/ ConnectFails(r) \/ Connected(r)
            \/ \E l \in rep[r].loops : LoopStep(r, l)
            \/ Disconnect(r) \/ Stop(r) \/ StopEnds(r) \/ Crash(r) \/ Restart(r)
  \/ \E s \in open : Drop(s) \/ ServerCloses(s)
  \/ Expire

\* Timers fire, queries and connection attempts settle, and both ends notice a connection
\* that is gone.  Nothing is promised of faults, stops, restarts and leases.
Fairness ==
  /\ \A r \in Replicas :
       /\ WF_vars(ReaperTimer(r)) /\ WF_vars(ReaperTick(r))
       /\ WF_vars(ReconnectTimer(r)) /\ WF_vars(Connected(r))
       /\ WF_vars(\E l \in rep[r].loops : LockAnswered(r, l))
       /\ WF_vars(\E l \in rep[r].loops : LockFails(r, l))
       /\ WF_vars(\E l \in rep[r].loops : Recorded(r, l))
       /\ WF_vars(\E l \in rep[r].loops : PollTimer(r, l))
       /\ WF_vars(Disconnect(r)) /\ WF_vars(StopEnds(r))
  /\ WF_vars(\E s \in closing : ServerCloses(s))

Spec == Init /\ [][Next]_vars

FairSpec == Spec /\ Fairness

-----------------------------------------------------------------------------
(***************************************************************************)
(* Properties                                                              *)
(***************************************************************************)
HoldsLock(r) == rep[r].client # 0 /\ lock = <<r, rep[r].client>>

\* A replica becomes leader only with the lock on its own session, or on a connection that
\* broke while it wrote the row; so two replicas lead together only after such a break.
ElectedWithLock ==
  [][ \A r \in Replicas : ~rep[r].leader /\ rep[r]'.leader =>
        \E l \in rep[r].loops :
          /\ l.pc = "recording"
          /\ lock = <<r, l.session>> \/ Broken(<<r, l.session>>) ]_vars

\* A replica that was told to stop never leads again, whatever it was waiting for.
StoppedStaysOut == \A r \in Replicas : rep[r].stopped => ~rep[r].leader

\* scheduler_leadership names the leader that holds the lock, unless a query failed or it
\* is being written: a former leader's late write never overwrites its successor's.
RowNamesLeader ==
  \A r \in Replicas :
    /\ rep[r].leader /\ HoldsLock(r)
    /\ \A l \in rep[r].loops : l.pc # "recording"
    => row = r \/ spent.errors > 0

\* A replica that was told to stop leaves no session, and so no lock, behind.
StopReleases ==
  \A r \in Replicas : rep[r].stopped ~> ~rep[r].stopped \/ \A s \in open : s[1] # r

Gone == \A r \in Replicas : ~rep[r].up \/ rep[r].stopped

\* Once faults end, some replica leads and holds the lock for good, unless all are gone.
SomeoneLeads == <>[]Gone \/ <>[](\E r \in Replicas : rep[r].leader /\ HoldsLock(r))

\* A replica that is not leader stops reaping.
ReapersFade ==
  \A r \in Replicas :
    ~rep[r].leader ~> rep[r].leader \/ (rep[r].timers = 0 /\ rep[r].ticks = 0)

\* An overdue lease is reclaimed, unless all replicas are gone or the one with the lock
\* has lost it before: its reaper cannot be started again.
OverdueIsReaped ==
  overdue ~> ~overdue \/ Gone \/ \E r \in Replicas : HoldsLock(r) /\ rep[r].halted

\* docs/06-scheduler.md:65-68 says of the scheduler that it "starts the existing `Reaper` class [...] the
\* instant it becomes leader": as long as replicas live, overdue leases are reclaimed.
LeaderReaps == overdue ~> ~overdue \/ Gone
=============================================================================
