------------------------------ MODULE ChaosRun ------------------------------
(***************************************************************************)
(* One run of the chaos harness (chaos/chaosRunner.ts): the support-ticket *)
(* workflow, its workflow, LLM and tool workers in one process that kills  *)
(* itself at an armed point (faults.ts), a second process that recovers,   *)
(* the reaper, and the audit of provider calls and side effects that the   *)
(* harness makes in the end.  It is the one place where the queue, the     *)
(* replay handler and the step handlers are composed.                      *)
(*                                                                         *)
(* Engine and StepHandlers study zombies and failed queries; here a lease  *)
(* is lost only by death.  When a process is killed, a query that it has   *)
(* sent may still be executed (`ghosts`), before its leases run out.       *)
(* The harness's timeouts are long: they pass when nothing else happens.   *)
(* Outputs are left out, being functions of the input: so are the tools'   *)
(* results and the mock provider's answers.                                *)
(*                                                                         *)
(* A definition marked "Mutant" is a plausible bug in the one after it,    *)
(* used by no behaviour.                                                   *)
(***************************************************************************)
EXTENDS Naturals, Sequences, FiniteSets

CONSTANTS
  Steps,    \* the workflow's awaits, in order: "llm" or "tool"
  Points,   \* armed fault points, "random_delay" among them
  After     \* which hit of a point kills (KARYAKRAM_FAULT_AFTER)

ASSUME ChaosAssumption ==
  /\ Steps \in Seq({"llm", "tool"})
  /\ Points \subseteq {"after_provider_before_persist", "after_persist",
                       "before_tool_commit", "random_delay"}
  /\ After \subseteq Nat \ {0}

\* The steps that pass a point.
AtPoint(point) ==
  {n \in DOMAIN Steps :
     \/ point = "after_persist"
     \/ point = "after_provider_before_persist" /\ Steps[n] = "llm"
     \/ point = "before_tool_commit" /\ Steps[n] = "tool"}

\* The harness arms no hit that the workflow does not come to (chaosRunner.ts:243): it would
\* report that the fault never fired.
ASSUME FaultsAreReached ==
  \A point \in Points \ {"random_delay"}, after \in After : after <= Cardinality(AtPoint(point))

\* supportTicketTriage: classify, look up the customer, draft, send.
Triage == <<"llm", "tool", "llm", "tool">>

VARIABLES
  fault,     \* the point and the hit at which the first process dies
  hits,      \* of that point
  phase,     \* first process, killed, second process, settling (the workflow has ended or
             \* nothing goes on), audited
  asked,     \* steps whose request is in the history
  answered,  \* steps whose outcome is
  ended,     \* WorkflowCompleted is
  rows,      \* the status of the workflow's tasks: 0 is the workflow task
  pcs,       \* where the running process is with each
  calls,     \* rows of provider_call_audit, by step
  effects,   \* rows of side_effects, by step
  ghosts,    \* queries the killed process had sent
  killedAt,  \* what the audit will tell from timestamps: the steps that were called, and
             \* answered by a transaction that began, before the harness looked at the clock
  \* history variables
  fired,     \* the fault point did fire
  missed,    \* a wakeup was swallowed, and the history has not been read since
  late       \* a provider call of the dead process was recorded after killedAt

vars == <<fault, hits, phase, asked, answered, ended, rows, pcs, calls, effects, ghosts,
          killedAt, fired, missed, late>>

history == <<asked, answered, ended>>
audits == <<calls, effects>>
run == <<fault, fired>>

Step == DOMAIN Steps
Last == Len(Steps)
Task == {0} \cup Step
Query == {"lease", "decide", "call", "commit", "complete"}

TypeOK ==
  /\ fault \in [point : Points, after : After] /\ hits \in Nat
  /\ phase \in {"first", "killed", "second", "settling", "audited"}
  /\ asked \in 0..Last /\ answered \in 0..Last /\ ended \in BOOLEAN
  /\ rows \in [Task -> {"none", "pending", "leased", "completed"}]
  /\ pcs \in [Task -> {"none", "start", "ready", "called", "answered", "executed",
                       "persisted", "done"}]
  /\ calls \in [Step -> Nat] /\ effects \in [Step -> Nat]
  /\ ghosts \subseteq Query \X Task
  /\ killedAt \in [called : SUBSET Step, answered : SUBSET Step]
  /\ fired \in BOOLEAN /\ missed \in BOOLEAN /\ late \in BOOLEAN

\* startWorkflow has committed.
Init ==
  /\ fault \in [point : Points, after : After] /\ hits = 0
  /\ phase = "first"
  /\ asked = 0 /\ answered = 0 /\ ended = FALSE
  /\ rows = [n \in Task |-> IF n = 0 THEN "pending" ELSE "none"]
  /\ pcs = [n \in Task |-> "none"]
  /\ calls = [n \in Step |-> 0] /\ effects = [n \in Step |-> 0]
  /\ ghosts = {}
  /\ killedAt = [called |-> {}, answered |-> {}]
  /\ fired = FALSE /\ missed = FALSE /\ late = FALSE

Up == phase \in {"first", "second", "settling"}
Live(n) == rows[n] \in {"pending", "leased"}

-----------------------------------------------------------------------------
(***************************************************************************)
(* What the statements do.                                                 *)
(***************************************************************************)

\* The workflow task that appendEvents enqueues, unless one is live.
Woken(r) == IF Live(0) THEN r ELSE [r EXCEPT ![0] = "pending"]

\* The transaction of an outcome, with the tool's effect.
Answer(n) ==
  /\ answered' = n
  /\ effects' = [effects EXCEPT ![n] = IF Steps[n] = "tool" THEN @ + 1 ELSE @]
  /\ rows' = Woken(rows)
  /\ missed' = (missed \/ (rows[0] = "leased" /\ pcs[0] # "start"))
  /\ UNCHANGED <<asked, ended, calls>>

\* What the workflow handler appends when it has read that every request is answered.
Decide ==
  /\ IF answered < Last
     THEN /\ asked' = answered + 1 /\ UNCHANGED ended
          /\ rows' = [Woken(rows) EXCEPT ![answered + 1] = "pending"]
     ELSE /\ ended' = TRUE /\ UNCHANGED asked
          /\ rows' = Woken(rows)
  /\ UNCHANGED <<answered, audits, missed>>

RecordCall(n) ==
  /\ calls' = [calls EXCEPT ![n] = @ + 1]
  /\ UNCHANGED <<history, effects, rows, missed>>

SetRow(n, status) ==
  /\ rows' = [rows EXCEPT ![n] = status]
  /\ UNCHANGED <<history, audits, missed>>

-----------------------------------------------------------------------------
(***************************************************************************)
(* Faults.                                                                 *)
(***************************************************************************)

\* Queries that may be on their way, given where the handlers are.
Sent ==
  ({"lease"} \X {n \in Task : rows[n] = "pending"})
  \cup ({"decide"} \X {n \in {0} : pcs[0] = "ready"})
  \cup ({"call"} \X {n \in Step : Steps[n] = "llm" /\ pcs[n] = "ready"})
  \cup ({"commit"} \X {n \in Step : pcs[n] \in {"answered", "executed"}})
  \cup ({"complete"} \X {n \in Task : pcs[n] = "done"})

\* SIGKILL, while handler n (0 if it is none of a step's) is between two queries.
Die(n) ==
  /\ phase = "first"
  /\ phase' = "killed"
  /\ \E q \in SUBSET {g \in Sent : g[2] # n \/ n = 0} : ghosts' = q
  /\ pcs' = [m \in Task |-> "none"]

\* maybeFault(point), after which handler n goes on at `pc`.
MaybeFault(point, n, pc) ==
  LET hit == phase = "first" /\ fault.point = point
  IN  /\ hits' = IF hit THEN hits + 1 ELSE hits
      /\ IF hit /\ hits' >= fault.after
         THEN Die(n) /\ fired' = TRUE
         ELSE pcs' = [pcs EXCEPT ![n] = pc] /\ UNCHANGED <<phase, ghosts, fired>>

\* armRandomDelayFault: any time after the start.
RandomDelay ==
  /\ fault.point = "random_delay"
  /\ Die(0)
  /\ fired' = TRUE
  /\ UNCHANGED <<fault, hits, history, rows, audits, killedAt, missed, late>>

\* A query of the killed process is executed after all, or is not.
GhostRuns(g) ==
  /\ ghosts' = ghosts \ {g}
  /\ CASE g[1] = "lease" -> /\ rows[g[2]] = "pending" /\ SetRow(g[2], "leased")
                            /\ UNCHANGED late
       [] g[1] = "decide" -> Decide /\ UNCHANGED late
       [] g[1] = "call" -> RecordCall(g[2]) /\ late' = (late \/ phase # "killed")
       [] g[1] = "commit" -> Answer(g[2]) /\ UNCHANGED late
       [] g[1] = "complete" -> SetRow(g[2], "completed") /\ UNCHANGED late
  \* an event's created_at is the time its transaction began, before the kill
  /\ killedAt' = IF g[1] = "commit" /\ phase # "killed"
                 THEN [killedAt EXCEPT !.answered = @ \cup {g[2]}] ELSE killedAt
  /\ UNCHANGED <<run, hits, phase, pcs>>

GhostVanishes(g) ==
  /\ ghosts' = ghosts \ {g}
  /\ UNCHANGED <<run, killedAt, hits, phase, history, rows, pcs, audits, missed, late>>

-----------------------------------------------------------------------------
(***************************************************************************)
(* The process and the reaper.                                             *)
(***************************************************************************)
Still == UNCHANGED <<run, killedAt, hits, phase, ghosts, late>>

Goes(n, pc) == pcs' = [pcs EXCEPT ![n] = pc]

Lease(n) ==
  /\ Up /\ rows[n] = "pending"
  /\ SetRow(n, "leased")
  /\ Goes(n, "start")
  /\ Still

\* The workflow handler: nothing to decide while a step is under way.
ReadHistory ==
  /\ pcs[0] = "start"
  /\ Goes(0, IF asked = answered THEN "ready" ELSE "done")
  /\ missed' = FALSE
  /\ UNCHANGED <<history, rows, audits>>
  /\ Still

AppendDecision ==
  /\ pcs[0] = "ready"
  /\ Decide
  /\ Goes(0, "done")
  /\ Still

\* Mutant: an outcome that is recorded is not looked for.
StartStepAgain(n) ==
  /\ n \in Step /\ pcs[n] = "start"
  /\ Goes(n, "ready")
  /\ UNCHANGED <<history, rows, audits, missed>>
  /\ Still

\* The step handlers, up to the look for an outcome.
StartStep(n) ==
  /\ n \in Step /\ pcs[n] = "start"
  /\ Goes(n, IF answered >= n THEN "done" ELSE "ready")
  /\ UNCHANGED <<history, rows, audits, missed>>
  /\ Still

\* The provider records the call before it does anything else.
CallProvider(n) ==
  /\ n \in Step /\ Steps[n] = "llm" /\ pcs[n] = "ready"
  /\ RecordCall(n)
  /\ Goes(n, "called")
  /\ Still

ProviderAnswers(n) ==
  /\ pcs[n] = "called"
  /\ MaybeFault("after_provider_before_persist", n, "answered")
  /\ UNCHANGED <<fault, history, rows, audits, killedAt, missed, late>>

\* executeAtomically, up to its COMMIT.
ExecuteTool(n) ==
  /\ n \in Step /\ Steps[n] = "tool" /\ pcs[n] = "ready"
  /\ MaybeFault("before_tool_commit", n, "executed")
  /\ UNCHANGED <<fault, history, rows, audits, killedAt, missed, late>>

CommitOutcome(n) ==
  /\ pcs[n] \in {"answered", "executed"}
  /\ Answer(n)
  /\ Goes(n, "persisted")
  /\ Still

AfterPersist(n) ==
  /\ pcs[n] = "persisted"
  /\ MaybeFault("after_persist", n, "done")
  /\ UNCHANGED <<fault, history, rows, audits, killedAt, missed, late>>

CompleteTask(n) ==
  /\ pcs[n] = "done"
  /\ SetRow(n, "completed")
  /\ Goes(n, "none")
  /\ Still

\* Mutant: the reaper passes over the workflow's own task.
ReclaimStep(n) ==
  /\ phase # "first" /\ ghosts = {}
  /\ rows[n] = "leased" /\ pcs[n] = "none" /\ n # 0
  /\ SetRow(n, "pending")
  /\ UNCHANGED pcs
  /\ Still

\* Only a lease of the dead process runs out.
Reclaim(n) ==
  /\ phase # "first" /\ ghosts = {}
  /\ rows[n] = "leased" /\ pcs[n] = "none"
  /\ SetRow(n, "pending")
  /\ UNCHANGED pcs
  /\ Still

-----------------------------------------------------------------------------
(***************************************************************************)
(* The harness.                                                            *)
(***************************************************************************)

\* Nothing will ever happen to the workflow.
Stranded == ghosts = {} /\ \A n \in Task : ~Live(n) /\ pcs[n] = "none"

\* The fault has not fired within 20 s, as a random delay has: the harness kills the process.
KillExternally ==
  /\ fault.point # "random_delay" /\ Stranded
  /\ Die(0)
  /\ UNCHANGED <<run, killedAt, hits, history, rows, audits, missed, late>>

\* The process has exited: the harness looks at the clock and starts another one.
Recover ==
  /\ phase = "killed"
  /\ phase' = "second"
  /\ killedAt' = [called |-> {n \in Step : calls[n] > 0},
                  answered |-> {n \in Step : n <= answered}]
  /\ UNCHANGED <<fault, hits, history, rows, pcs, audits, ghosts, fired, missed, late>>

\* waitTerminal, or its timeout.
WaitTerminal ==
  /\ phase = "second"
  /\ ended \/ Stranded
  /\ phase' = "settling"
  /\ UNCHANGED <<run, killedAt, hits, history, rows, pcs, audits, ghosts, missed, late>>

\* waitQuiescent; then the second process is killed, and the audit made.
WaitQuiescent ==
  /\ phase = "settling"
  /\ \A n \in Task : ~Live(n)
  /\ phase' = "audited"
  /\ pcs' = [n \in Task |-> "none"]
  /\ UNCHANGED <<run, killedAt, hits, history, rows, audits, ghosts, missed, late>>

Window(n) ==
  IF n \in killedAt.answered THEN "persisted_before_crash"
  ELSE IF n \in killedAt.called THEN "in_window"
  ELSE "after_crash"

\* What the harness reports.
Violations ==
  (IF fired THEN {} ELSE {"fault point never fired"})
  \cup (IF ended THEN {} ELSE {"workflow ended TIMEOUT"})
  \cup (IF \A n \in Step : Steps[n] = "tool" => effects[n] = 1 THEN {}
        ELSE {"side effects not exactly-once"})
  \cup {"provider calls" : n \in {m \in Step :
          /\ Steps[m] = "llm"
          /\ calls[m] \notin IF Window(m) = "in_window" THEN 1..2 ELSE {1}}}

-----------------------------------------------------------------------------
TaskStep(n) ==
  \/ Lease(n) \/ StartStep(n) \/ CallProvider(n) \/ ProviderAnswers(n) \/ ExecuteTool(n)
  \/ CommitOutcome(n) \/ AfterPersist(n) \/ CompleteTask(n)
  \/ n = 0 /\ (ReadHistory \/ AppendDecision)

Harness == KillExternally \/ Recover \/ WaitTerminal \/ WaitQuiescent

Next ==
  \/ \E n \in Task : TaskStep(n) \/ Reclaim(n)
  \/ RandomDelay
  \/ \E g \in ghosts : GhostRuns(g) \/ GhostVanishes(g)
  \/ Harness

\* Workers poll and handlers settle, the reaper ticks, the network delivers or not, and the
\* harness goes on.
Fairness ==
  /\ \A n \in {0} \cup 1..Last : WF_vars(TaskStep(n)) /\ WF_vars(Reclaim(n))
  /\ WF_vars(RandomDelay)
  /\ WF_vars(\E g \in ghosts : GhostRuns(g) \/ GhostVanishes(g))
  /\ WF_vars(Harness)

Spec == Init /\ [][Next]_vars

FairSpec == Spec /\ Fairness

-----------------------------------------------------------------------------
(***************************************************************************)
(* Properties                                                              *)
(***************************************************************************)

NothingTwice ==
  /\ \A n \in Step : effects[n] <= 1
  /\ late \/ \A n \in Step : Steps[n] = "llm" =>
               calls[n] <= IF Window(n) = "in_window" THEN 2 ELSE 1

\* A run reports no violation: wherever the kill falls, the workflow completes, every effect
\* is there once, and a provider is called again only in the window between its answer and
\* the commit (chaosRunner.ts:12-16, RESULTS.md).  A missed wakeup stops the workflow where
\* it stands, and excuses what is not there, but nothing that is there twice; a call of the
\* dead process that was recorded after the harness had looked at the clock excuses calls.
RunIsClean == phase = "audited" => NothingTwice /\ (Violations = {} \/ missed \/ late)

\* No run needs a timeout but those for a stranded workflow: it ends and is audited.
RunEnds == <>(phase = "audited")
=============================================================================
