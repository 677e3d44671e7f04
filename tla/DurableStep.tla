---------------------------- MODULE DurableStep ----------------------------
(***************************************************************************)
(* What the engine promises about one LLM or tool step, without tasks,     *)
(* leases, workers or transactions: its call may be made many times, but   *)
(* the step is answered once and for good, by one of the calls that were   *)
(* made or by a failure, and the effect of a tool is committed with the    *)
(* answer that reports it, once.  An operator who requeues a step that has *)
(* failed may have the effect too.                                         *)
(***************************************************************************)
EXTENDS Naturals, Sequences

VARIABLES
  type,       \* llm or tool
  calls,      \* how many calls were made
  answers,    \* the step's answer, if it has one
  committed,  \* the calls whose effects were committed
  reopened    \* an operator has requeued the step

vars == <<type, calls, answers, committed, reopened>>

Init ==
  /\ type \in {"llm", "tool"}
  /\ calls = 0
  /\ answers = <<>> /\ committed = <<>>
  /\ reopened = FALSE

Call ==
  /\ calls' = calls + 1
  /\ UNCHANGED <<type, answers, committed, reopened>>

\* The step is answered by call n.
Complete(n) ==
  /\ answers = <<>> /\ committed = <<>>
  /\ answers' = <<[type |-> "completed", answer |-> n]>>
  /\ committed' = IF type = "tool" THEN <<n>> ELSE <<>>
  /\ UNCHANGED <<type, calls, reopened>>

GiveUp ==
  /\ answers = <<>> /\ committed = <<>>
  /\ answers' = <<[type |-> "failed", answer |-> 0]>>
  /\ UNCHANGED <<type, calls, committed, reopened>>

Reopen ==
  /\ reopened' = TRUE
  /\ UNCHANGED <<type, calls, answers, committed>>

\* The tool is executed for a step that has failed before it was requeued.
CommitLate(n) ==
  /\ reopened /\ type = "tool"
  /\ answers # <<>> /\ answers[1].type = "failed" /\ committed = <<>>
  /\ committed' = <<n>>
  /\ UNCHANGED <<type, calls, answers, reopened>>

Next ==
  \/ Call
  \/ \E n \in 1..calls : Complete(n) \/ CommitLate(n)
  \/ GiveUp
  \/ Reopen

Spec == Init /\ [][Next]_vars
=============================================================================
