-------------------------- MODULE AtLeastOnceQueue --------------------------
(***************************************************************************)
(* What the task queue promises about a task, without leases, workers,     *)
(* attempts or time: it stays open until it is done or given up, it is     *)
(* done only after a handler has returned for it at least once, and done   *)
(* is final, while an operator can reopen what was given up.               *)
(***************************************************************************)
CONSTANT TaskId

VARIABLES
  state,     \* absent, open, completed or dead
  handled    \* a handler has returned for the task

vars == <<state, handled>>

Init ==
  /\ state = [t \in TaskId |-> "absent"]
  /\ handled = [t \in TaskId |-> FALSE]

Move(t, from, to) ==
  /\ state[t] = from
  /\ state' = [state EXCEPT ![t] = to]
  /\ UNCHANGED handled

Submit(t) == Move(t, "absent", "open")

\* A handler may return late, for a task that is already done or given up.
Handle(t) ==
  /\ state[t] # "absent"
  /\ handled' = [handled EXCEPT ![t] = TRUE]
  /\ UNCHANGED state

Finish(t) == handled[t] /\ Move(t, "open", "completed")

GiveUp(t) == Move(t, "open", "dead")

Reopen(t) == Move(t, "dead", "open")

Next ==
  \E t \in TaskId : Submit(t) \/ Handle(t) \/ Finish(t) \/ GiveUp(t) \/ Reopen(t)

Spec == Init /\ [][Next]_vars
=============================================================================
