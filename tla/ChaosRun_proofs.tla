--------------------------- MODULE ChaosRun_proofs ---------------------------
(***************************************************************************)
(* Proofs about ChaosRun, for any sequence of LLM and tool steps, any      *)
(* fault points and any hits that the steps come to.                       *)
(*                                                                         *)
(* The inductive invariant follows the one step that may be under way, the *)
(* next after those that are answered: where its handler is, what of it    *)
(* the dead process has left on the wire, and how often its provider has   *)
(* been called by which process.                                           *)
(***************************************************************************)
EXTENDS ChaosRun, FiniteSetTheorems, TLAPS

(***************************************************************************)
(* The invariant.                                                          *)
(***************************************************************************)

\* Requests and outcomes alternate, and only a workflow whose steps are answered ends.
Alternate ==
  /\ answered <= asked /\ asked <= answered + 1
  /\ ended => answered = Last

\* A step has a task once it is asked for, and an outcome before its task is completed.
RowsFollow ==
  \A n \in Step : /\ rows[n] = "none" <=> n > asked
                  /\ rows[n] = "completed" => n <= answered

\* A handler holds the lease; one that is about to answer is of the step under way, one that
\* has looked for an outcome and found it, or has persisted it, of an answered one.
HandlersFollow ==
  /\ \A n \in Task : pcs[n] # "none" => rows[n] = "leased"
  /\ \A n \in Step : 
       /\ pcs[n] \in {"ready", "called", "answered", "executed"} => n = answered + 1
       /\ pcs[n] \in {"persisted", "done"} => n <= answered
       /\ pcs[n] \in {"called", "answered"} => Steps[n] = "llm"
       /\ pcs[n] = "executed" => Steps[n] = "tool"
  /\ pcs[0] \in {"none", "start", "ready", "done"}
  /\ pcs[0] = "ready" => asked = answered

\* A query of the dead process finds the row as its handler has left it.
Waits(q, n) == <<q, n>> \in ghosts => rows[n] = "leased" /\ pcs[n] = "none"

GhostsFollow ==
  /\ \A n \in Task : Waits("complete", n) 
  /\ Waits("decide", 0)
  /\ \A n \in Step :
       /\ Waits("call", n) /\ Waits("commit", n)
       /\ <<"call", n>> \in ghosts \/ <<"commit", n>> \in ghosts => n = answered + 1
       /\ <<"call", n>> \in ghosts => Steps[n] = "llm" /\ <<"commit", n>> \notin ghosts
       /\ <<"complete", n>> \in ghosts => n <= answered
  /\ <<"decide", 0>> \in ghosts => asked = answered /\ <<"complete", 0>> \notin ghosts
  /\ \A g \in ghosts : /\ g[1] = "decide" => g[2] = 0
                       /\ g[1] \in {"call", "commit"} => g[2] \in Step

\* When a process is dead its handlers are, and what it had sent is on the wire after that.
PhasesFollow ==
  /\ phase = "first" => ghosts = {} /\ ~fired /\ ~late /\ killedAt = [called |-> {}, answered |-> {}]
  /\ phase = "killed" => ~late
  /\ phase \in {"killed", "audited"} => \A n \in Task : pcs[n] = "none"
  /\ phase = "audited" => \A n \in Task : ~Live(n)

\* An effect comes with the outcome.
EffectsFollow ==
  \A n \in Step : effects[n] = IF Steps[n] = "tool" /\ n <= answered THEN 1 ELSE 0

\* The process that runs has called the provider for this answer.
HasCalled(n) == n <= answered \/ pcs[n] \in {"called", "answered"}

\* Until the harness looks at the clock, a provider is called at most once.
FirstCalls ==
  phase \in {"first", "killed"} => 
    \A n \in Step : Steps[n] = "llm" =>
      /\ calls[n] <= 1
      /\ HasCalled(n) \/ <<"commit", n>> \in ghosts => calls[n] = 1
      /\ phase = "first" /\ ~HasCalled(n) => calls[n] = 0
      /\ <<"call", n>> \in ghosts => calls[n] = 0

\* After that, the calls before are in killedAt, and the second process makes one more for
\* a step whose answer was lost.
SecondCalls ==
  phase \in {"second", "settling", "audited"} /\ ~late =>
    \A n \in Step : Steps[n] = "llm" =>
      /\ n \in killedAt.answered => n <= answered /\ calls[n] = 1
      /\ n \notin killedAt.answered =>
           calls[n] = (IF n \in killedAt.called THEN 1 ELSE 0) + (IF HasCalled(n) THEN 1 ELSE 0)
      /\ <<"commit", n>> \in ghosts => n \in killedAt.called /\ n \notin killedAt.answered

\* Unless a wakeup was missed, the workflow task will read the last outcome.
Awake ==
  ~missed /\ ~ended /\ asked = answered =>
    Live(0) /\ pcs[0] # "done" /\ <<"complete", 0>> \notin ghosts

\* The handler of a step is past the armed point, in the first process.
HasPassed(n) ==
  IF n <= answered THEN fault.point = "after_persist" => pcs[n] # "persisted"
  ELSE fault.point # "after_persist" /\ pcs[n] \in {"answered", "executed"}

Passed == {n \in AtPoint(fault.point) : HasPassed(n)}

\* Each step passes it once.
HitsCounted ==
  phase = "first" /\ fault.point # "random_delay" => hits = Cardinality(Passed) /\ hits < fault.after

\* A process that dies otherwise is one that nothing was left to do for.
KilledInVain == phase # "first" /\ ~fired => missed /\ Stranded

IInv ==
  /\ TypeOK /\ Alternate /\ RowsFollow /\ HandlersFollow /\ GhostsFollow /\ PhasesFollow
  /\ EffectsFollow /\ FirstCalls /\ SecondCalls /\ Awake /\ HitsCounted /\ KilledInVain


(***************************************************************************)
(* Numbers of steps and tasks.                                             *)
(***************************************************************************)
\* The only lemmas that look at the sequence of steps; the others take Last as a number.
LEMMA StepNumbers ==
  /\ Last \in Nat
  /\ \A n : n \in Step <=> n \in Nat /\ 1 <= n /\ n <= Last
  /\ \A n \in Step : Steps[n] \in {"llm", "tool"}
BY ChaosAssumption DEF Step, Last

LEMMA FaultNumbers == After \subseteq Nat \ {0}
BY ChaosAssumption

LEMMA TaskNumbers == /\ 0 \in Task /\ 0 \notin Step
                     /\ \A n : n \in Task <=> n = 0 \/ n \in Step
BY StepNumbers DEF Task

LEMMA PassedFinite == IsFiniteSet(Passed) /\ Cardinality(Passed) \in Nat
<1>1. IsFiniteSet(1..Last) BY StepNumbers, FS_Interval
<1>2. Passed \subseteq 1..Last BY StepNumbers DEF Passed, AtPoint, Step
<1> QED BY <1>1, <1>2, FS_Subset, FS_CardinalityType

\* A step at which no handler comes past the point.
LEMMA HitsKept ==
  ASSUME HitsCounted, fault' = fault,
         phase' = "first" => /\ phase = "first" /\ hits' = hits
                             /\ \A n \in AtPoint(fault.point) : HasPassed(n)' <=> HasPassed(n)
  PROVE  HitsCounted'
<1> SUFFICES ASSUME phase' = "first", fault.point # "random_delay"
             PROVE  hits' = Cardinality(Passed') /\ hits' < fault.after
  BY DEF HitsCounted
<1>1. Passed' = Passed BY DEF Passed, AtPoint
<1> QED BY <1>1 DEF HitsCounted

\* A step at which one does, and lives.
LEMMA HitsGo ==
  ASSUME HitsCounted, fault' = fault, phase = "first", fault.point # "random_delay",
         hits' = hits + 1, hits' < fault.after,
         NEW n \in AtPoint(fault.point), ~HasPassed(n), HasPassed(n)',
         \A m \in AtPoint(fault.point) \ {n} : HasPassed(m)' <=> HasPassed(m)
  PROVE  HitsCounted'
<1>1. Passed' = Passed \cup {n} BY DEF Passed, AtPoint
<1>2. n \notin Passed BY DEF Passed
<1>3. Cardinality(Passed') = Cardinality(Passed) + 1 BY <1>1, <1>2, PassedFinite, FS_AddElement
<1> QED BY <1>3 DEF HitsCounted

(***************************************************************************)
(* The steps that change neither the history nor the effects.              *)
(***************************************************************************)
LEMMA LeaseKeeps ==
  ASSUME IInv, NEW n \in Task, Lease(n)
  PROVE  IInv'
<1> USE StepNumbers, TaskNumbers DEF IInv, Lease, SetRow, Goes, Still, run, history, audits
<1>1. TypeOK'
  BY DEF TypeOK
<1>2. Alternate'
  BY DEF Alternate
<1>3. RowsFollow'
  BY DEF RowsFollow
<1>4. HandlersFollow'
  BY DEF HandlersFollow, TypeOK
<1>5. GhostsFollow'
  BY DEF GhostsFollow, Waits
<1>6. PhasesFollow'
  BY DEF PhasesFollow, Up
<1>7. EffectsFollow'
  BY DEF EffectsFollow
<1>8. FirstCalls'
  BY DEF FirstCalls, HasCalled, HandlersFollow
<1>9. SecondCalls'
  BY DEF SecondCalls, HasCalled, HandlersFollow
<1>10. Awake'
  BY DEF Awake, Live
<1>11. HitsCounted'
  BY HitsKept DEF HasPassed, HandlersFollow
<1>12. KilledInVain'
  BY DEF KilledInVain, Stranded, Live
<1> QED BY <1>1, <1>2, <1>3, <1>4, <1>5, <1>6, <1>7, <1>8, <1>9, <1>10, <1>11, <1>12 DEF IInv

LEMMA StartStepKeeps ==
  ASSUME IInv, NEW n \in Task, StartStep(n)
  PROVE  IInv'
<1> USE StepNumbers, TaskNumbers DEF IInv, StartStep, Goes, Still, run, history, audits
<1>1. TypeOK'
  BY DEF TypeOK
<1>2. Alternate'
  BY DEF Alternate
<1>3. RowsFollow'
  BY DEF RowsFollow
<1>4. HandlersFollow'
  BY DEF HandlersFollow, TypeOK, RowsFollow, Alternate
<1>5. GhostsFollow'
  BY DEF GhostsFollow, Waits
<1>6. PhasesFollow'
  BY DEF PhasesFollow
<1>7. EffectsFollow'
  BY DEF EffectsFollow
<1>8. FirstCalls'
  BY DEF FirstCalls, HasCalled
<1>9. SecondCalls'
  BY DEF SecondCalls, HasCalled
<1>10. Awake'
  BY DEF Awake, Live
<1>11. HitsCounted'
  BY HitsKept DEF HasPassed
<1>12. KilledInVain'
  BY DEF KilledInVain, Stranded
<1> QED BY <1>1, <1>2, <1>3, <1>4, <1>5, <1>6, <1>7, <1>8, <1>9, <1>10, <1>11, <1>12 DEF IInv

LEMMA CallProviderKeeps ==
  ASSUME IInv, NEW n \in Task, CallProvider(n)
  PROVE  IInv'
<1> USE StepNumbers, TaskNumbers DEF IInv, CallProvider, RecordCall, Goes, Still, run, history
<1>1. TypeOK'
  BY DEF TypeOK
<1>2. Alternate'
  BY DEF Alternate
<1>3. RowsFollow'
  BY DEF RowsFollow
<1>4. HandlersFollow'
  BY DEF HandlersFollow
<1>5. GhostsFollow'
  BY DEF GhostsFollow, Waits
<1>6. PhasesFollow'
  BY DEF PhasesFollow
<1>7. EffectsFollow'
  BY DEF EffectsFollow
<1>8. FirstCalls'
  BY DEF FirstCalls, TypeOK, HasCalled, HandlersFollow, PhasesFollow
<1>9. SecondCalls'
  BY DEF SecondCalls, TypeOK, HasCalled, HandlersFollow
<1>10. Awake'
  BY DEF Awake, Live
<1>11. HitsCounted'
  BY HitsKept DEF HasPassed
<1>12. KilledInVain'
  BY DEF KilledInVain, Stranded
<1> QED BY <1>1, <1>2, <1>3, <1>4, <1>5, <1>6, <1>7, <1>8, <1>9, <1>10, <1>11, <1>12 DEF IInv

LEMMA CompleteTaskKeeps ==
  ASSUME IInv, NEW n \in Task, CompleteTask(n)
  PROVE  IInv'
<1> USE StepNumbers, TaskNumbers DEF IInv, CompleteTask, SetRow, Goes, Still, run, history, audits
<1>1. TypeOK'
  BY DEF TypeOK
<1>2. Alternate'
  BY DEF Alternate
<1>3. RowsFollow'
  BY DEF RowsFollow, HandlersFollow
<1>4. HandlersFollow'
  BY DEF HandlersFollow, TypeOK
<1>5. GhostsFollow'
  BY DEF GhostsFollow, Waits
<1>6. PhasesFollow'
  BY DEF PhasesFollow
<1>7. EffectsFollow'
  BY DEF EffectsFollow
<1>8. FirstCalls'
  BY DEF FirstCalls, HasCalled
<1>9. SecondCalls'
  BY DEF SecondCalls, HasCalled
<1>10. Awake'
  BY DEF Awake, Live
<1>11. HitsCounted'
  BY HitsKept DEF HasPassed
<1>12. KilledInVain'
  BY DEF KilledInVain, Stranded
<1> QED BY <1>1, <1>2, <1>3, <1>4, <1>5, <1>6, <1>7, <1>8, <1>9, <1>10, <1>11, <1>12 DEF IInv

LEMMA ReclaimKeeps ==
  ASSUME IInv, NEW n \in Task, Reclaim(n)
  PROVE  IInv'
<1> USE StepNumbers, TaskNumbers DEF IInv, Reclaim, SetRow, Still, run, history, audits
<1>1. TypeOK'
  BY DEF TypeOK
<1>2. Alternate'
  BY DEF Alternate
<1>3. RowsFollow'
  BY DEF RowsFollow
<1>4. HandlersFollow'
  BY DEF HandlersFollow
<1>5. GhostsFollow'
  BY DEF GhostsFollow, Waits
<1>6. PhasesFollow'
  BY DEF PhasesFollow, Live
<1>7. EffectsFollow'
  BY DEF EffectsFollow
<1>8. FirstCalls'
  BY DEF FirstCalls, HasCalled
<1>9. SecondCalls'
  BY DEF SecondCalls, HasCalled
<1>10. Awake'
  BY DEF Awake, Live
<1>11. HitsCounted'
  BY HitsKept
<1>12. KilledInVain'
  BY DEF KilledInVain, Stranded, Live
<1> QED BY <1>1, <1>2, <1>3, <1>4, <1>5, <1>6, <1>7, <1>8, <1>9, <1>10, <1>11, <1>12 DEF IInv

LEMMA ReadHistoryKeeps ==
  ASSUME IInv, ReadHistory
  PROVE  IInv'
<1> USE StepNumbers, TaskNumbers DEF IInv, ReadHistory, Goes, Still, run, history, audits
<1>1. TypeOK'
  BY DEF TypeOK
<1>2. Alternate'
  BY DEF Alternate
<1>3. RowsFollow'
  BY DEF RowsFollow
<1>4. HandlersFollow'
  BY DEF HandlersFollow
<1>5. GhostsFollow'
  BY DEF GhostsFollow, Waits
<1>6. PhasesFollow'
  BY DEF PhasesFollow
<1>7. EffectsFollow'
  BY DEF EffectsFollow
<1>8. FirstCalls'
  BY DEF FirstCalls, HasCalled
<1>9. SecondCalls'
  BY DEF SecondCalls, HasCalled
<1>10. Awake'
  BY DEF Awake, Live, HandlersFollow, GhostsFollow, Waits
<1>11. HitsCounted'
  BY HitsKept DEF HasPassed
<1>12. KilledInVain'
  BY DEF KilledInVain, Stranded
<1> QED BY <1>1, <1>2, <1>3, <1>4, <1>5, <1>6, <1>7, <1>8, <1>9, <1>10, <1>11, <1>12 DEF IInv

LEMMA GhostVanishesKeeps ==
  ASSUME IInv, NEW g \in ghosts, GhostVanishes(g)
  PROVE  IInv'
<1> USE StepNumbers, TaskNumbers DEF IInv, GhostVanishes, run, history, audits
<1>1. TypeOK'
  BY DEF TypeOK
<1>2. Alternate'
  BY DEF Alternate
<1>3. RowsFollow'
  BY DEF RowsFollow
<1>4. HandlersFollow'
  BY DEF HandlersFollow
<1>5. GhostsFollow'
  BY DEF GhostsFollow, Waits
<1>6. PhasesFollow'
  BY DEF PhasesFollow, Live
<1>7. EffectsFollow'
  BY DEF EffectsFollow
<1>8. FirstCalls'
  BY DEF FirstCalls, HasCalled
<1>9. SecondCalls'
  BY DEF SecondCalls, HasCalled
<1>10. Awake'
  BY DEF Awake, Live
<1>11. HitsCounted'
  BY HitsKept DEF HasPassed
<1>12. KilledInVain'
  BY DEF KilledInVain, Stranded
<1> QED BY <1>1, <1>2, <1>3, <1>4, <1>5, <1>6, <1>7, <1>8, <1>9, <1>10, <1>11, <1>12 DEF IInv

LEMMA RecoverKeeps ==
  ASSUME IInv, Recover
  PROVE  IInv'
<1> USE StepNumbers, TaskNumbers DEF IInv, Recover, history, audits
<1>1. TypeOK'
  BY DEF TypeOK
<1>2. Alternate'
  BY DEF Alternate
<1>3. RowsFollow'
  BY DEF RowsFollow
<1>4. HandlersFollow'
  BY DEF HandlersFollow
<1>5. GhostsFollow'
  BY DEF GhostsFollow, Waits
<1>6. PhasesFollow'
  BY DEF PhasesFollow
<1>7. EffectsFollow'
  BY DEF EffectsFollow
<1>8. FirstCalls'
  BY DEF FirstCalls
<1>9. SecondCalls'
  <2>1. killedAt'.called = {n \in Step : calls[n] > 0} /\ killedAt'.answered = {n \in Step : n <= answered}
    OBVIOUS
  <2>2. \A n \in Step : HasCalled(n)' <=> n <= answered
    <3>1. phase = "killed" /\ answered' = answered /\ \A n \in Step : pcs'[n] = "none"
      BY DEF PhasesFollow
    <3> QED BY <3>1 DEF HasCalled
  <2>3. \A n \in Step : <<"commit", n>> \in ghosts =>
          ~(n <= answered) /\ (Steps[n] = "llm" => calls[n] = 1)
    <3>1. phase = "killed" /\ answered \in Nat
      BY DEF TypeOK
    <3>2. \A n \in Step : <<"commit", n>> \in ghosts => n = answered + 1
      BY DEF GhostsFollow
    <3>3. \A n \in Step : Steps[n] = "llm" /\ <<"commit", n>> \in ghosts => calls[n] = 1
      BY <3>1 DEF FirstCalls
    <3> QED BY <3>1, <3>2, <3>3
  <2>4. \A n \in Step : ~(calls[n] > 0) => calls[n] = 0
    BY DEF TypeOK
  <2>5. \A n \in Step : Steps[n] = "llm" => calls[n] <= 1 /\ (n <= answered => calls[n] = 1)
    BY DEF FirstCalls, HasCalled
  <2> QED BY <2>1, <2>2, <2>3, <2>4, <2>5 DEF SecondCalls, TypeOK
<1>10. Awake'
  BY DEF Awake, Live
<1>11. HitsCounted'
  BY HitsKept
<1>12. KilledInVain'
  BY DEF KilledInVain, Stranded, Live
<1> QED BY <1>1, <1>2, <1>3, <1>4, <1>5, <1>6, <1>7, <1>8, <1>9, <1>10, <1>11, <1>12 DEF IInv

LEMMA WaitTerminalKeeps ==
  ASSUME IInv, WaitTerminal
  PROVE  IInv'
<1> USE StepNumbers, TaskNumbers DEF IInv, WaitTerminal, run, history, audits
<1>1. TypeOK'
  BY DEF TypeOK
<1>2. Alternate'
  BY DEF Alternate
<1>3. RowsFollow'
  BY DEF RowsFollow
<1>4. HandlersFollow'
  BY DEF HandlersFollow
<1>5. GhostsFollow'
  BY DEF GhostsFollow, Waits
<1>6. PhasesFollow'
  BY DEF PhasesFollow
<1>7. EffectsFollow'
  BY DEF EffectsFollow
<1>8. FirstCalls'
  BY DEF FirstCalls
<1>9. SecondCalls'
  BY DEF SecondCalls, HasCalled
<1>10. Awake'
  BY DEF Awake, Live
<1>11. HitsCounted'
  BY HitsKept
<1>12. KilledInVain'
  BY DEF KilledInVain, Stranded, Live
<1> QED BY <1>1, <1>2, <1>3, <1>4, <1>5, <1>6, <1>7, <1>8, <1>9, <1>10, <1>11, <1>12 DEF IInv

LEMMA WaitQuiescentKeeps ==
  ASSUME IInv, WaitQuiescent
  PROVE  IInv'
<1> USE StepNumbers, TaskNumbers DEF IInv, WaitQuiescent, run, history, audits
<1>1. TypeOK'
  BY DEF TypeOK
<1>2. Alternate'
  BY DEF Alternate
<1>3. RowsFollow'
  BY DEF RowsFollow
<1>4. HandlersFollow'
  BY DEF HandlersFollow
<1>5. GhostsFollow'
  BY DEF GhostsFollow, Waits
<1>6. PhasesFollow'
  BY DEF PhasesFollow, Live
<1>7. EffectsFollow'
  BY DEF EffectsFollow
<1>8. FirstCalls'
  BY DEF FirstCalls
<1>9. SecondCalls'
  BY DEF SecondCalls, HasCalled, HandlersFollow, Live
<1>10. Awake'
  BY DEF Awake
<1>11. HitsCounted'
  BY HitsKept
<1>12. KilledInVain'
  BY DEF KilledInVain, Stranded, Live
<1> QED BY <1>1, <1>2, <1>3, <1>4, <1>5, <1>6, <1>7, <1>8, <1>9, <1>10, <1>11, <1>12 DEF IInv

(***************************************************************************)
(* What an outcome and a decision change.                                  *)
(***************************************************************************)
LEMMA AnswerDoes ==
  ASSUME TypeOK, NEW n \in Step, Answer(n)
  PROVE  /\ answered' = n /\ asked' = asked /\ ended' = ended /\ calls' = calls
         /\ effects' \in [Step -> Nat]
         /\ effects'[n] = IF Steps[n] = "tool" THEN effects[n] + 1 ELSE effects[n]
         /\ \A m \in Step \ {n} : effects'[m] = effects[m]
         /\ rows' \in [Task -> {"none", "pending", "leased", "completed"}]
         /\ \A m \in Step : rows'[m] = rows[m]
         /\ rows'[0] = IF Live(0) THEN rows[0] ELSE "pending"
         /\ missed' = (missed \/ (rows[0] = "leased" /\ pcs[0] # "start"))
         /\ missed' \in BOOLEAN
BY StepNumbers, TaskNumbers DEF Answer, Woken, TypeOK, Live

LEMMA DecideDoes ==
  ASSUME TypeOK, Decide
  PROVE  /\ answered' = answered /\ calls' = calls /\ effects' = effects /\ missed' = missed
         /\ asked' \in 0..Last /\ ended' \in BOOLEAN
         /\ rows' \in [Task -> {"none", "pending", "leased", "completed"}]
         /\ rows'[0] = IF Live(0) THEN rows[0] ELSE "pending"
         /\ \/ /\ answered < Last /\ asked' = answered + 1 /\ asked' \in Step /\ ended' = ended
               /\ rows'[answered + 1] = "pending"
               /\ \A m \in Step \ {answered + 1} : rows'[m] = rows[m]
            \/ /\ answered = Last /\ asked' = asked /\ ended'
               /\ \A m \in Step : rows'[m] = rows[m]
<1> USE StepNumbers, TaskNumbers DEF Decide, Woken, TypeOK, Live, audits
<1>1. CASE answered < Last
  <2>1. answered + 1 \in Nat /\ 1 <= answered + 1 /\ answered + 1 <= Last BY <1>1
  <2>2. answered + 1 \in Step BY <2>1
  <2>3. answered + 1 \in 0..Last /\ asked' = answered + 1 /\ ended' = ended BY <1>1, <2>1
  <2> QED BY <1>1, <2>2, <2>3
<1>2. CASE ~(answered < Last)
  <2>1. answered = Last BY <1>2
  <2> QED BY <1>2, <2>1
<1> QED BY <1>1, <1>2

LEMMA CommitOutcomeKeeps ==
  ASSUME IInv, NEW n \in Task, CommitOutcome(n)
  PROVE  IInv'
<1> USE StepNumbers, TaskNumbers DEF IInv
<1>1. /\ n \in Step /\ n = answered + 1 /\ n = asked /\ rows[n] = "leased" /\ ~ended
      /\ pcs[n] \in {"answered", "executed"}
  BY DEF CommitOutcome, TypeOK, HandlersFollow, RowsFollow, Alternate
<1>2. /\ Answer(n) /\ pcs' = [pcs EXCEPT ![n] = "persisted"]
      /\ UNCHANGED <<fault, fired, killedAt, hits, phase, ghosts, late>>
  BY DEF CommitOutcome, Goes, Still, run
<1>3. /\ ghosts = {} \/ phase # "first"
      /\ \A q \in {"call", "commit", "complete"} : <<q, n>> \notin ghosts
  BY <1>1 DEF GhostsFollow, Waits, PhasesFollow
<1> USE <1>1, <1>2, AnswerDoes
<1>4. TypeOK'
  BY DEF TypeOK
<1>5. Alternate'
  BY DEF Alternate, TypeOK
<1>6. RowsFollow'
  BY DEF RowsFollow, TypeOK
<1>7. HandlersFollow'
  <2>1. \A m \in Task : pcs'[m] # "none" => rows'[m] = "leased"
    <3>1. \A m \in Step : pcs'[m] # "none" => rows[m] = "leased"
      BY DEF HandlersFollow, TypeOK
    <3>2. pcs'[0] # "none" => rows'[0] = "leased"
      BY DEF HandlersFollow, TypeOK, Live
    <3> QED BY <3>1, <3>2
  <2>2. \A m \in Step \ {n} : pcs'[m] = pcs[m] /\ ~(pcs[m] \in {"ready", "called", "answered", "executed"})
    BY DEF HandlersFollow, TypeOK
  <2>3. pcs'[n] = "persisted" /\ pcs'[0] = pcs[0] /\ pcs[0] # "ready"
    BY DEF HandlersFollow, TypeOK
  <2>4. \A m \in Step : m <= answered => m <= answered'
    BY DEF TypeOK
  <2> QED BY <2>1, <2>2, <2>3, <2>4 DEF HandlersFollow, TypeOK
<1>8. GhostsFollow'
  <2>1. \A q, m : Waits(q, m) /\ m \in Task => Waits(q, m)'
    BY DEF Waits, TypeOK, Live
  <2>2. \A m \in Step : <<"call", m>> \notin ghosts /\ <<"commit", m>> \notin ghosts
    BY <1>3 DEF GhostsFollow
  <2>3. <<"decide", 0>> \notin ghosts
    BY DEF GhostsFollow, TypeOK
  <2> QED BY <2>1, <2>2, <2>3 DEF GhostsFollow, TypeOK
<1>9. PhasesFollow'
  BY DEF PhasesFollow, TypeOK
<1>10. EffectsFollow'
  BY DEF EffectsFollow, TypeOK
<1>11. FirstCalls'
  BY <1>3 DEF FirstCalls, HasCalled, HandlersFollow, TypeOK
<1>12. SecondCalls'
  <2>1. \A m \in Step : HasCalled(m)' <=> HasCalled(m) \/ (m = n /\ Steps[n] = "tool")
    BY DEF HasCalled, HandlersFollow, TypeOK
  <2>2. \A m \in Step : m <= answered => m <= answered'
    BY DEF TypeOK
  <2> QED BY <2>1, <2>2 DEF SecondCalls
<1>13. Awake'
  BY DEF Awake, Live, TypeOK, HandlersFollow, GhostsFollow, Waits
<1>14. HitsCounted'
  BY HitsKept DEF HasPassed, AtPoint, Step, TypeOK, HandlersFollow
<1>15. KilledInVain'
  BY DEF KilledInVain, Stranded, Live, TypeOK
<1> QED BY <1>4, <1>5, <1>6, <1>7, <1>8, <1>9, <1>10, <1>11, <1>12, <1>13, <1>14, <1>15 DEF IInv

LEMMA AppendDecisionKeeps ==
  ASSUME IInv, AppendDecision
  PROVE  IInv'
<1> USE StepNumbers, TaskNumbers DEF IInv
<1>1. /\ asked = answered /\ rows[0] = "leased" /\ pcs[0] = "ready"
      /\ \A m \in Step : ~(pcs[m] \in {"ready", "called", "answered", "executed"})
  BY DEF AppendDecision, HandlersFollow, RowsFollow, Alternate, TypeOK
<1>2. /\ Decide /\ pcs' = [pcs EXCEPT ![0] = "done"]
      /\ UNCHANGED <<fault, fired, killedAt, hits, phase, ghosts, late>>
  BY DEF AppendDecision, Goes, Still, run
<1>3. \A q \in {"decide", "complete"} : <<q, 0>> \notin ghosts
  BY <1>1 DEF GhostsFollow, Waits, PhasesFollow
<1>4. phase \in {"first", "second", "settling"} /\ ~Stranded
  BY <1>1 DEF PhasesFollow, Stranded, TypeOK
<1> USE <1>1, <1>2, DecideDoes
<1>5. TypeOK'
  BY DEF TypeOK
<1>6. Alternate'
  BY DEF Alternate, TypeOK
<1>7. RowsFollow'
  <2>1. CASE asked' = answered + 1
    <3>1. asked' = asked + 1 /\ rows'[asked'] = "pending" /\ \A m \in Step \ {asked'} : rows'[m] = rows[m]
      BY <2>1 DEF TypeOK
    <3>2. \A m \in Step \ {asked'} : m > asked' <=> m > asked
      BY <3>1 DEF TypeOK
    <3> QED BY <3>1, <3>2 DEF RowsFollow, TypeOK
  <2>2. CASE asked' = asked
    BY <2>2 DEF RowsFollow, TypeOK
  <2> QED BY <2>1, <2>2
<1>8. HandlersFollow'
  <2>1. \A m \in Step : pcs'[m] = pcs[m] /\ (pcs[m] # "none" => rows'[m] = "leased")
    BY DEF HandlersFollow, TypeOK, RowsFollow
  <2>2. pcs'[0] = "done" /\ rows'[0] = "leased"
    BY DEF TypeOK, Live
  <2> QED BY <2>1, <2>2 DEF HandlersFollow
<1>9. GhostsFollow'
  <2>1. \A q, m : Waits(q, m) /\ m \in Task /\ m # 0 => Waits(q, m)'
    <3>1. \A m \in Step : rows[m] = "leased" => rows'[m] = rows[m]
      BY DEF TypeOK, RowsFollow
    <3> QED BY <3>1 DEF Waits
  <2>2. \A q \in {"decide", "complete"} : Waits(q, 0)'
    BY <1>3 DEF Waits
  <2> QED BY <1>3, <2>1, <2>2 DEF GhostsFollow
<1>10. PhasesFollow'
  BY <1>4 DEF PhasesFollow, TypeOK
<1>11. EffectsFollow'
  BY DEF EffectsFollow, TypeOK
<1>12. FirstCalls'
  BY DEF FirstCalls, HasCalled, TypeOK
<1>13. SecondCalls'
  BY DEF SecondCalls, HasCalled, TypeOK
<1>14. Awake'
  BY DEF Awake, TypeOK
<1>15. HitsCounted'
  BY HitsKept DEF HasPassed, AtPoint, Step, TypeOK
<1>16. KilledInVain'
  BY <1>4 DEF KilledInVain
<1> QED BY <1>5, <1>6, <1>7, <1>8, <1>9, <1>10, <1>11, <1>12, <1>13, <1>14, <1>15, <1>16 DEF IInv

(***************************************************************************)
(* The kill.                                                               *)
(***************************************************************************)
LEMMA DieKeeps ==
  ASSUME IInv, NEW k \in Task, Die(k), hits' \in Nat, fired' \in BOOLEAN,
         UNCHANGED <<fault, history, rows, audits, killedAt, missed, late>>,
         fired' \/ (missed /\ Stranded)
  PROVE  IInv'
<1> USE StepNumbers, TaskNumbers DEF IInv, history, audits
<1>1. /\ phase = "first" /\ phase' = "killed" /\ ghosts' \subseteq Sent
      /\ pcs' = [m \in Task |-> "none"]
  BY DEF Die
<1>2. Sent \subseteq Query \X Task
  BY DEF Sent, Query
<1>3. \A m \in Task :
        /\ <<"decide", m>> \in Sent => m = 0 /\ pcs[0] = "ready"
        /\ <<"call", m>> \in Sent => m \in Step /\ Steps[m] = "llm" /\ pcs[m] = "ready"
        /\ <<"commit", m>> \in Sent => m \in Step /\ pcs[m] \in {"answered", "executed"}
        /\ <<"complete", m>> \in Sent => pcs[m] = "done"
  BY DEF Sent
<1>4. TypeOK'
  BY <1>1, <1>2 DEF TypeOK
<1>5. Alternate'
  BY DEF Alternate
<1>6. RowsFollow'
  BY DEF RowsFollow
<1>7. HandlersFollow'
  BY <1>1 DEF HandlersFollow
<1>8. GhostsFollow'
  <2>1. \A q, m : q \in {"decide", "call", "commit", "complete"} /\ m \in Task => Waits(q, m)'
    BY <1>1, <1>3 DEF Waits, HandlersFollow
  <2>2. \A g \in ghosts' : g = <<g[1], g[2]>> /\ g[2] \in Task
    BY <1>1, <1>2
  <2>3. \A g \in ghosts' : /\ g[1] = "decide" => g[2] = 0
                           /\ g[1] \in {"call", "commit"} => g[2] \in Step
    <3> SUFFICES ASSUME NEW g \in ghosts'
                 PROVE  /\ g[1] = "decide" => g[2] = 0
                        /\ g[1] \in {"call", "commit"} => g[2] \in Step
      OBVIOUS
    <3>1. <<g[1], g[2]>> \in Sent /\ g[2] \in Task
      BY <1>1, <2>2
    <3>2. CASE g[1] = "decide"
      BY <1>3, <3>1, <3>2
    <3>3. CASE g[1] = "call"
      BY <1>3, <3>1, <3>3
    <3>4. CASE g[1] = "commit"
      BY <1>3, <3>1, <3>4
    <3> QED BY <3>2, <3>3, <3>4
  <2>4. \A m \in Step :
          /\ <<"call", m>> \in ghosts' \/ <<"commit", m>> \in ghosts' => m = answered' + 1
          /\ <<"call", m>> \in ghosts' => Steps[m] = "llm" /\ <<"commit", m>> \notin ghosts'
          /\ <<"complete", m>> \in ghosts' => m <= answered'
    BY <1>1, <1>3 DEF HandlersFollow
  <2>5. <<"decide", 0>> \in ghosts' => asked' = answered' /\ <<"complete", 0>> \notin ghosts'
    BY <1>1, <1>3 DEF HandlersFollow
  <2>6. \A m \in Task : Waits("complete", m)'
    BY <2>1
  <2>7. Waits("decide", 0)' /\ \A m \in Step : Waits("call", m)' /\ Waits("commit", m)'
    BY <2>1
  <2> QED BY <2>3, <2>4, <2>5, <2>6, <2>7 DEF GhostsFollow
<1>9. PhasesFollow'
  BY <1>1 DEF PhasesFollow
<1>10. EffectsFollow'
  BY DEF EffectsFollow
<1>11. FirstCalls'
  <2>1. \A m \in Step : HasCalled(m)' => HasCalled(m)
    BY <1>1 DEF HasCalled
  <2>2. \A m \in Step : Steps[m] = "llm" /\ <<"commit", m>> \in ghosts' => HasCalled(m)
    BY <1>1, <1>3 DEF HasCalled, HandlersFollow
  <2>3. \A m \in Step : <<"call", m>> \in ghosts' => ~HasCalled(m)
    <3>1. \A m \in Step : <<"call", m>> \in ghosts' => m = answered + 1 /\ pcs[m] = "ready"
      BY <1>1, <1>3 DEF HandlersFollow
    <3> QED BY <3>1 DEF HasCalled, TypeOK
  <2> QED BY <1>1, <2>1, <2>2, <2>3 DEF FirstCalls
<1>12. SecondCalls'
  BY <1>1 DEF SecondCalls
<1>13. Awake'
  BY <1>1, <1>3 DEF Awake, Live
<1>14. HitsCounted'
  BY <1>1 DEF HitsCounted
<1>15. KilledInVain'
  <2> SUFFICES ASSUME missed, Stranded
               PROVE  ghosts' = {} /\ \A m \in Task : ~Live(m)' /\ pcs'[m] = "none"
    BY DEF KilledInVain, Stranded
  <2>1. Sent = {}
    BY DEF Sent, Stranded, Live
  <2> QED BY <1>1, <2>1 DEF Stranded, Live
<1> QED BY <1>4, <1>5, <1>6, <1>7, <1>8, <1>9, <1>10, <1>11, <1>12, <1>13, <1>14, <1>15 DEF IInv

LEMMA RandomDelayKeeps ==
  ASSUME IInv, RandomDelay
  PROVE  IInv'
BY DieKeeps, TaskNumbers DEF RandomDelay, IInv, TypeOK

\* The step under way has a task.
LEMMA UnderWay ==
  ASSUME TypeOK, Alternate, RowsFollow, asked # answered
  PROVE  asked \in Step /\ Live(asked)
<1> USE StepNumbers, TaskNumbers
<1>1. asked = answered + 1 /\ asked \in Nat /\ 1 <= asked /\ asked <= Last
  BY DEF TypeOK, Alternate
<1>2. asked \in Step /\ ~(asked > asked) /\ ~(asked <= answered)
  BY <1>1 DEF TypeOK
<1> QED BY <1>2 DEF RowsFollow, Live, TypeOK

\* A process that has nothing left to do, without having missed a wakeup, has passed the
\* armed point at every step that comes to it.
LEMMA StrandedIsMissed ==
  ASSUME IInv, phase = "first", Stranded, fault.point # "random_delay"
  PROVE  missed
<1> USE StepNumbers, TaskNumbers DEF IInv
<1> SUFFICES ASSUME ~missed PROVE FALSE
  BY DEF TypeOK
<1>1. asked = answered
  BY UnderWay DEF Stranded
<1>2. answered = Last
  BY <1>1 DEF Awake, Stranded, Alternate
<1>3. Passed = AtPoint(fault.point)
  <2>1. \A n \in Step : n <= answered /\ pcs[n] = "none"
    BY <1>2 DEF Stranded
  <2>2. AtPoint(fault.point) \subseteq Step
    BY DEF AtPoint, Step
  <2> QED BY <2>1, <2>2 DEF Passed, HasPassed
<1>4. fault.point \in Points \ {"random_delay"} /\ fault.after \in After /\ fault.after \in Nat
  BY FaultNumbers DEF TypeOK
<1>5. Cardinality(Passed) \in Nat
  BY PassedFinite
<1>6. fault.after <= Cardinality(Passed) /\ Cardinality(Passed) < fault.after
  BY <1>3, <1>4, FaultsAreReached DEF HitsCounted
<1> QED BY <1>4, <1>5, <1>6

LEMMA KillExternallyKeeps ==
  ASSUME IInv, KillExternally
  PROVE  IInv'
<1>1. phase = "first"
  BY DEF KillExternally, Die
<1>2. missed
  BY <1>1, StrandedIsMissed DEF KillExternally
<1> QED BY <1>2, DieKeeps, TaskNumbers DEF KillExternally, IInv, TypeOK, run

LEMMA MaybeFaultDoes ==
  ASSUME TypeOK, NEW point, NEW n, NEW pc, MaybeFault(point, n, pc)
  PROVE  /\ hits' \in Nat
         /\ \/ Die(n) /\ fired' = TRUE
            \/ /\ pcs' = [pcs EXCEPT ![n] = pc] /\ UNCHANGED <<phase, ghosts, fired>>
               /\ IF phase = "first" /\ fault.point = point
                  THEN hits' = hits + 1 /\ ~(hits' >= fault.after) ELSE hits' = hits
BY DEF MaybeFault, TypeOK

\* A handler comes past the armed point, or another one, and lives.
LEMMA PointPassed ==
  ASSUME IInv, NEW n \in Step, NEW point, NEW pc,
         pcs' = [pcs EXCEPT ![n] = pc], hits' \in Nat,
         IF phase = "first" /\ fault.point = point
         THEN hits' = hits + 1 /\ ~(hits' >= fault.after) ELSE hits' = hits,
         UNCHANGED <<phase, ghosts, fired, fault, history, rows, audits, killedAt, missed, late>>,
         \/ /\ pcs[n] = "called" /\ pc = "answered"
            /\ point = "after_provider_before_persist"
         \/ /\ pcs[n] = "ready" /\ pc = "executed"
            /\ point = "before_tool_commit" /\ Steps[n] = "tool"
         \/ /\ pcs[n] = "persisted" /\ pc = "done"
            /\ point = "after_persist"
  PROVE  IInv'
<1> USE StepNumbers, TaskNumbers DEF IInv, history, audits
<1>1. pcs[n] # "none" /\ pc # "none" /\ rows[n] = "leased"
  BY DEF HandlersFollow
<1>2. /\ pcs'[n] = pc /\ \A m \in Task \ {n} : pcs'[m] = pcs[m]
      /\ pcs' \in [Task -> {"none", "start", "ready", "called", "answered", "executed",
                            "persisted", "done"}]
  BY DEF TypeOK
<1>3. TypeOK'
  BY <1>2 DEF TypeOK
<1>4. Alternate'
  BY DEF Alternate
<1>5. RowsFollow'
  BY DEF RowsFollow
<1>6. HandlersFollow'
  BY <1>1, <1>2 DEF HandlersFollow
<1>7. GhostsFollow'
  <2>1. \A q, m : Waits(q, m) /\ m \in Task => Waits(q, m)'
    BY <1>1, <1>2 DEF Waits
  <2> QED BY <2>1 DEF GhostsFollow
<1>8. PhasesFollow'
  BY <1>1 DEF PhasesFollow
<1>9. EffectsFollow'
  BY DEF EffectsFollow
<1>10. \A m \in Step : HasCalled(m)' <=> HasCalled(m)
  BY <1>2 DEF HasCalled, HandlersFollow
<1>11. FirstCalls'
  BY <1>10 DEF FirstCalls
<1>12. SecondCalls'
  BY <1>10 DEF SecondCalls
<1>13. Awake'
  BY <1>2 DEF Awake, Live
<1>14. HitsCounted'
  <2>1. AtPoint(fault.point) \subseteq Step
    BY DEF AtPoint, Step
  <2>2. \A m \in AtPoint(fault.point) \ {n} : HasPassed(m)' <=> HasPassed(m)
    BY <2>1, <1>2 DEF HasPassed
  <2>3. CASE phase = "first" /\ fault.point = point
    <3>1. n \in AtPoint(fault.point) /\ fault.point # "random_delay"
      BY <2>3 DEF AtPoint, Step, HandlersFollow
    <3>2. ~HasPassed(n) /\ HasPassed(n)'
      BY <2>3, <1>2 DEF HasPassed, HandlersFollow, TypeOK
    <3>3. hits' = hits + 1 /\ hits' < fault.after
      <4>1. fault.after \in Nat /\ hits \in Nat
        BY FaultNumbers DEF TypeOK
      <4> QED BY <2>3, <4>1
    <3> QED BY <2>2, <2>3, <3>1, <3>2, <3>3, HitsGo
  <2>4. CASE fault.point # point
    <3>1. n \in AtPoint(fault.point) => (HasPassed(n)' <=> HasPassed(n))
      BY <2>4, <1>2 DEF HasPassed, HandlersFollow, AtPoint, TypeOK
    <3>2. \A m \in AtPoint(fault.point) : HasPassed(m)' <=> HasPassed(m)
      BY <2>2, <3>1
    <3> QED BY <2>4, <3>2, HitsKept
  <2>5. CASE phase # "first"
    BY <2>5 DEF HitsCounted
  <2> QED BY <2>3, <2>4, <2>5
<1>15. KilledInVain'
  BY <1>1 DEF KilledInVain, Stranded
<1> QED BY <1>3, <1>4, <1>5, <1>6, <1>7, <1>8, <1>9, <1>11, <1>12, <1>13, <1>14, <1>15 DEF IInv

LEMMA MaybeFaultKeeps ==
  ASSUME IInv, NEW n \in Task,
         ProviderAnswers(n) \/ ExecuteTool(n) \/ AfterPersist(n)
  PROVE  IInv'
<1> USE StepNumbers, TaskNumbers DEF IInv
<1>1. PICK point, pc :
        /\ n \in Step /\ MaybeFault(point, n, pc)
        /\ \/ /\ pcs[n] = "called" /\ pc = "answered"
              /\ point = "after_provider_before_persist"
           \/ /\ pcs[n] = "ready" /\ pc = "executed"
              /\ point = "before_tool_commit" /\ Steps[n] = "tool"
           \/ /\ pcs[n] = "persisted" /\ pc = "done"
              /\ point = "after_persist"
  BY DEF ProviderAnswers, ExecuteTool, AfterPersist, HandlersFollow
<1>2. UNCHANGED <<fault, history, rows, audits, killedAt, missed, late>>
  BY DEF ProviderAnswers, ExecuteTool, AfterPersist
<1>3. CASE Die(n) /\ fired' = TRUE /\ hits' \in Nat
  BY <1>2, <1>3, DieKeeps
<1>4. CASE ~(Die(n) /\ fired' = TRUE)
  <2>1. /\ pcs' = [pcs EXCEPT ![n] = pc] /\ UNCHANGED <<phase, ghosts, fired>> /\ hits' \in Nat
        /\ IF phase = "first" /\ fault.point = point
           THEN hits' = hits + 1 /\ ~(hits' >= fault.after) ELSE hits' = hits
    BY <1>1, <1>4 DEF MaybeFault, TypeOK
  <2> QED BY <1>1, <1>2, <2>1, PointPassed
<1> QED BY <1>1, <1>3, <1>4, MaybeFaultDoes

(***************************************************************************)
(* A query of the dead process is executed.                                *)
(***************************************************************************)
LEMMA GhostRunsKeeps ==
  ASSUME IInv, NEW g \in ghosts, GhostRuns(g)
  PROVE  IInv'
<1> USE StepNumbers, TaskNumbers DEF IInv
<1>1. PICK q \in Query, n \in Task : g = <<q, n>>
  BY DEF TypeOK
<1>2. /\ phase # "first" /\ ~Stranded
      /\ phase' = phase /\ pcs' = pcs /\ fault' = fault /\ fired' = fired /\ hits' = hits
      /\ ghosts' \subseteq ghosts /\ <<q, n>> \in ghosts /\ <<q, n>> \notin ghosts'
  BY <1>1 DEF GhostRuns, run, PhasesFollow, Stranded
<1>3. HitsCounted' /\ KilledInVain'
  BY <1>2 DEF HitsCounted, KilledInVain
<1> USE <1>2, <1>3
<1>4. CASE q = "lease"
  <2>1. /\ rows[n] = "pending" /\ rows' = [rows EXCEPT ![n] = "leased"] /\ pcs[n] = "none"
        /\ UNCHANGED <<history, audits, missed, late, killedAt>>
    BY <1>1, <1>4 DEF GhostRuns, SetRow, HandlersFollow
  <2> USE <2>1 DEF history, audits
  <2>2. TypeOK'
    BY DEF TypeOK
  <2>3. Alternate' /\ RowsFollow' /\ HandlersFollow'
    BY DEF Alternate, RowsFollow, HandlersFollow, TypeOK
  <2>4. GhostsFollow'
    BY DEF GhostsFollow, Waits, TypeOK
  <2>5. PhasesFollow' /\ EffectsFollow'
    BY DEF PhasesFollow, EffectsFollow, Live, TypeOK
  <2>6. FirstCalls' /\ SecondCalls'
    BY DEF FirstCalls, SecondCalls, HasCalled
  <2>7. Awake'
    BY DEF Awake, Live, TypeOK
  <2> QED BY <2>2, <2>3, <2>4, <2>5, <2>6, <2>7
<1>5. CASE q = "call"
  <2>1. /\ n \in Step /\ n = answered + 1 /\ Steps[n] = "llm" /\ <<"commit", n>> \notin ghosts
        /\ calls' = [calls EXCEPT ![n] = @ + 1] /\ late' = (late \/ phase # "killed")
        /\ UNCHANGED <<history, effects, rows, missed, killedAt>>
    BY <1>1, <1>5 DEF GhostRuns, RecordCall, GhostsFollow
  <2> USE <2>1 DEF history
  <2>2. TypeOK'
    BY DEF TypeOK
  <2>3. Alternate' /\ RowsFollow' /\ HandlersFollow'
    BY DEF Alternate, RowsFollow, HandlersFollow
  <2>4. GhostsFollow'
    BY DEF GhostsFollow, Waits
  <2>5. PhasesFollow' /\ EffectsFollow'
    BY DEF PhasesFollow, EffectsFollow, Live
  <2>6. FirstCalls'
    <3>1. phase = "killed" => pcs[n] = "none" /\ calls'[n] = 1
      BY <1>5 DEF FirstCalls, PhasesFollow, TypeOK
    <3>2. \A m \in Step \ {n} : calls'[m] = calls[m]
      BY DEF TypeOK
    <3>3. phase = "killed" => ~HasCalled(n) /\ <<"commit", n>> \notin ghosts' /\ <<"call", n>> \notin ghosts'
      BY <1>5, <3>1 DEF HasCalled, TypeOK
    <3>4. \A m \in Step : HasCalled(m)' <=> HasCalled(m)
      BY DEF HasCalled
    <3> QED BY <3>1, <3>2, <3>3, <3>4 DEF FirstCalls
  <2>7. SecondCalls'
    BY DEF SecondCalls, TypeOK
  <2>8. Awake'
    BY DEF Awake, Live
  <2> QED BY <2>2, <2>3, <2>4, <2>5, <2>6, <2>7, <2>8
<1>6. CASE q = "complete"
  <2>1. /\ rows[n] = "leased" /\ rows' = [rows EXCEPT ![n] = "completed"] /\ pcs[n] = "none"
        /\ n \in Step => n <= answered
        /\ UNCHANGED <<history, audits, missed, late, killedAt>>
    BY <1>1, <1>6 DEF GhostRuns, SetRow, GhostsFollow, Waits
  <2> USE <2>1 DEF history, audits
  <2>2. TypeOK'
    BY DEF TypeOK
  <2>3. Alternate' /\ RowsFollow' /\ HandlersFollow'
    BY DEF Alternate, RowsFollow, HandlersFollow, TypeOK
  <2>4. GhostsFollow'
    <3>1. \A m \in Task \ {n} : rows'[m] = rows[m]
      BY DEF TypeOK
    <3>2. \A p \in {"decide", "call", "commit", "complete"} : <<p, n>> \notin ghosts'
      <4>1. n \in Step => ~(n = answered + 1)
        BY DEF TypeOK
      <4>2. <<"call", n>> \notin ghosts /\ <<"commit", n>> \notin ghosts
        BY <4>1 DEF GhostsFollow
      <4>3. <<"decide", n>> \notin ghosts
        BY <1>6 DEF GhostsFollow
      <4> QED BY <1>6, <4>2, <4>3
    <3>3. \A p \in {"decide", "call", "commit", "complete"}, m \in Task : Waits(p, m) => Waits(p, m)'
      BY <3>1, <3>2 DEF Waits
    <3> QED BY <3>3 DEF GhostsFollow
  <2>5. PhasesFollow' /\ EffectsFollow'
    BY DEF PhasesFollow, EffectsFollow, Live, TypeOK
  <2>6. FirstCalls' /\ SecondCalls'
    BY DEF FirstCalls, SecondCalls, HasCalled
  <2>7. Awake'
    BY <1>6 DEF Awake, Live, TypeOK
  <2> QED BY <2>2, <2>3, <2>4, <2>5, <2>6, <2>7
<1>7. CASE q = "decide"
  <2>1. /\ n = 0 /\ asked = answered /\ rows[0] = "leased" /\ pcs[0] = "none"
        /\ <<"complete", 0>> \notin ghosts
        /\ Decide /\ UNCHANGED <<late, killedAt>>
    BY <1>1, <1>7 DEF GhostRuns, GhostsFollow, Waits
  <2>2. \A m \in Step : ~(pcs[m] \in {"ready", "called", "answered", "executed"})
    BY <2>1 DEF HandlersFollow, RowsFollow, TypeOK
  <2> USE <2>1, <2>2, DecideDoes
  <2>3. TypeOK'
    BY DEF TypeOK
  <2>4. Alternate'
    BY DEF Alternate, TypeOK
  <2>5. RowsFollow'
    <3>1. CASE asked' = answered + 1
      <4>1. asked' = asked + 1 /\ rows'[asked'] = "pending" /\ \A m \in Step \ {asked'} : rows'[m] = rows[m]
        BY <3>1 DEF TypeOK
      <4>2. \A m \in Step \ {asked'} : m > asked' <=> m > asked
        BY <4>1 DEF TypeOK
      <4>3. \A m \in Step \ {asked'} : rows'[m] = "none" <=> m > asked'
        BY <4>1, <4>2 DEF RowsFollow
      <4>4. ~(asked' > asked')
        BY DEF TypeOK
      <4> QED BY <4>1, <4>3, <4>4 DEF RowsFollow
    <3>2. CASE asked' = asked
      BY <3>2 DEF RowsFollow, TypeOK
    <3> QED BY <3>1, <3>2
  <2>6. \A m \in Task : rows[m] = "leased" => rows'[m] = "leased"
    BY DEF TypeOK, RowsFollow, Live
  <2>7. HandlersFollow'
    BY <2>6 DEF HandlersFollow
  <2>8. GhostsFollow'
    <3>1. \A p, m : Waits(p, m) /\ m \in Task => Waits(p, m)'
      BY <2>6 DEF Waits
    <3> QED BY <1>7, <3>1 DEF GhostsFollow
  <2>9. PhasesFollow'
    BY DEF PhasesFollow, Live
  <2>10. EffectsFollow'
    BY DEF EffectsFollow
  <2>11. FirstCalls' /\ SecondCalls'
    BY DEF FirstCalls, SecondCalls, HasCalled
  <2>12. Awake'
    BY DEF Awake, TypeOK
  <2> QED BY <2>3, <2>4, <2>5, <2>7, <2>8, <2>9, <2>10, <2>11, <2>12
<1>8. CASE q = "commit"
  <2>1. /\ n \in Step /\ n = answered + 1 /\ rows[n] = "leased" /\ pcs[n] = "none"
        /\ \A p \in {"call", "complete"} : <<p, n>> \notin ghosts
        /\ Answer(n) /\ UNCHANGED late
        /\ killedAt' = IF phase # "killed"
                       THEN [killedAt EXCEPT !.answered = @ \cup {n}] ELSE killedAt
    <3>1. /\ Answer(n) /\ UNCHANGED late
          /\ killedAt' = IF phase # "killed"
                         THEN [killedAt EXCEPT !.answered = @ \cup {n}] ELSE killedAt
      BY <1>1, <1>8 DEF GhostRuns
    <3>2. n \in Step
      BY <1>1, <1>8 DEF GhostsFollow
    <3>3. n = answered + 1 /\ <<"call", n>> \notin ghosts /\ rows[n] = "leased" /\ pcs[n] = "none"
      BY <1>8, <3>2 DEF GhostsFollow, Waits
    <3>4. <<"complete", n>> \notin ghosts
      <4>1. ~(n <= answered)
        BY <3>2, <3>3 DEF TypeOK
      <4> QED BY <3>2, <4>1 DEF GhostsFollow
    <3> QED BY <3>1, <3>2, <3>3, <3>4
  <2>2. n = asked /\ ~ended
    BY <2>1 DEF RowsFollow, Alternate, TypeOK
  <2> USE <2>1, <2>2, AnswerDoes
  <2>3. TypeOK'
    BY DEF TypeOK
  <2>4. Alternate'
    BY DEF Alternate, TypeOK
  <2>5. RowsFollow'
    BY DEF RowsFollow, TypeOK
  <2>6. \A m \in Task : rows[m] = "leased" => rows'[m] = "leased"
    BY DEF TypeOK, Live
  <2>7. \A m \in Step : ~(pcs[m] \in {"ready", "called", "answered", "executed"})
    BY DEF HandlersFollow
  <2>8. pcs[0] # "ready" /\ <<"decide", 0>> \notin ghosts
    BY DEF HandlersFollow, GhostsFollow, TypeOK
  <2>9. \A m \in Step : m <= answered' <=> m <= answered \/ m = n
    BY DEF TypeOK
  <2>10. HandlersFollow'
    BY <2>6, <2>7, <2>8, <2>9 DEF HandlersFollow
  <2>11. GhostsFollow'
    <3>1. \A p, m : Waits(p, m) /\ m \in Task => Waits(p, m)'
      BY <2>6 DEF Waits
    <3>2. \A m \in Step : <<"call", m>> \notin ghosts' /\ <<"commit", m>> \notin ghosts'
      BY <1>8 DEF GhostsFollow
    <3> QED BY <2>8, <2>9, <3>1, <3>2 DEF GhostsFollow
  <2>12. PhasesFollow'
    BY DEF PhasesFollow, Live
  <2>13. EffectsFollow'
    BY <2>9 DEF EffectsFollow, TypeOK
  <2>14. \A m \in Step : HasCalled(m)' <=> HasCalled(m) \/ m = n
    BY <2>9 DEF HasCalled
  <2>15. FirstCalls'
    BY <1>8, <2>14 DEF FirstCalls
  <2>16. SecondCalls'
    <3>1. phase # "killed" => killedAt'.called = killedAt.called /\ killedAt'.answered = killedAt.answered \cup {n}
      BY DEF TypeOK
    <3>2. ~HasCalled(n)
      BY <2>7 DEF HasCalled, TypeOK
    <3>3. \A m \in Step : <<"commit", m>> \in ghosts => m = n
      BY DEF GhostsFollow
    <3>4. SUFFICES ASSUME phase \in {"second", "settling", "audited"}, ~late, NEW m \in Step, Steps[m] = "llm"
                   PROVE  /\ m \in killedAt'.answered => m <= answered' /\ calls[m] = 1
                          /\ m \notin killedAt'.answered =>
                               calls[m] = (IF m \in killedAt'.called THEN 1 ELSE 0) + (IF HasCalled(m)' THEN 1 ELSE 0)
                          /\ <<"commit", m>> \in ghosts' => m \in killedAt'.called /\ m \notin killedAt'.answered
      BY DEF SecondCalls
    <3>5. CASE m = n
      BY <1>8, <3>1, <3>2, <3>4, <3>5, <2>9 DEF SecondCalls
    <3>6. CASE m # n
      BY <1>8, <2>9, <2>14, <3>1, <3>3, <3>4, <3>6 DEF SecondCalls
    <3> QED BY <3>5, <3>6
  <2>17. Awake'
    <3>1. CASE rows[0] = "leased"
      BY <3>1 DEF Awake, Live, TypeOK, GhostsFollow, Waits
    <3>2. CASE rows[0] # "leased"
      <4>1. pcs[0] = "none" /\ <<"complete", 0>> \notin ghosts /\ rows'[0] = "pending"
        BY <3>2 DEF HandlersFollow, GhostsFollow, Waits, Live, TypeOK
      <4> QED BY <4>1 DEF Awake, Live
    <3> QED BY <3>1, <3>2
  <2> QED BY <2>3, <2>4, <2>5, <2>10, <2>11, <2>12, <2>13, <2>15, <2>16, <2>17
<1> QED BY <1>1, <1>4, <1>5, <1>6, <1>7, <1>8 DEF Query

(***************************************************************************)
(* The theorem.                                                            *)
(***************************************************************************)
LEMMA Starts == Init => IInv
<1> SUFFICES ASSUME Init PROVE IInv
  OBVIOUS
<1>0. 0 \in 0..Last
  BY StepNumbers
<1> USE StepNumbers, TaskNumbers DEF Init
<1>1. TypeOK
  <2>1. /\ killedAt \in [called : SUBSET Step, answered : SUBSET Step]
        /\ ghosts \subseteq Query \X Task
    OBVIOUS
  <2>2. rows \in [Task -> {"none", "pending", "leased", "completed"}]
    OBVIOUS
  <2>3. asked \in 0..Last /\ answered \in 0..Last /\ ended \in BOOLEAN
    BY <1>0
  <2>4. pcs \in [Task -> {"none", "start", "ready", "called", "answered", "executed",
                        "persisted", "done"}]
    OBVIOUS
  <2>5. calls \in [Step -> Nat] /\ effects \in [Step -> Nat]
    OBVIOUS
  <2> QED BY <2>1, <2>2, <2>3, <2>4, <2>5 DEF TypeOK
<1>2. Alternate /\ RowsFollow /\ HandlersFollow /\ GhostsFollow /\ PhasesFollow
  BY DEF Alternate, RowsFollow, HandlersFollow, GhostsFollow, Waits, PhasesFollow
<1>3. EffectsFollow /\ FirstCalls /\ SecondCalls /\ Awake /\ KilledInVain
  BY DEF EffectsFollow, FirstCalls, SecondCalls, HasCalled, Awake, Live, KilledInVain
<1>4. HitsCounted
  <2>1. Passed = {}
    BY DEF Passed, HasPassed, AtPoint, Step
  <2>2. fault.after \in Nat \ {0}
    BY FaultNumbers
  <2> QED BY <2>1, <2>2, FS_EmptySet DEF HitsCounted
<1> QED BY <1>1, <1>2, <1>3, <1>4 DEF IInv

LEMMA StepKeeps == IInv /\ [Next]_vars => IInv'
<1> SUFFICES ASSUME IInv, [Next]_vars PROVE IInv'
  OBVIOUS
<1>1. CASE \E n \in Task : TaskStep(n) \/ Reclaim(n)
  BY <1>1, LeaseKeeps, StartStepKeeps, CallProviderKeeps, MaybeFaultKeeps, CommitOutcomeKeeps,
     CompleteTaskKeeps, ReadHistoryKeeps, AppendDecisionKeeps, ReclaimKeeps DEF TaskStep
<1>2. CASE RandomDelay
  BY <1>2, RandomDelayKeeps
<1>3. CASE \E g \in ghosts : GhostRuns(g) \/ GhostVanishes(g)
  BY <1>3, GhostRunsKeeps, GhostVanishesKeeps
<1>4. CASE Harness
  BY <1>4, KillExternallyKeeps, RecoverKeeps, WaitTerminalKeeps, WaitQuiescentKeeps DEF Harness
<1>5. CASE UNCHANGED vars
  BY <1>5 DEF vars, history, audits, run, IInv, TypeOK, Alternate, RowsFollow, HandlersFollow,
     GhostsFollow, Waits, PhasesFollow, EffectsFollow, FirstCalls, SecondCalls, HasCalled, Awake,
     Live, HitsCounted, Passed, HasPassed, AtPoint, KilledInVain, Stranded
<1> QED BY <1>1, <1>2, <1>3, <1>4, <1>5 DEF Next

\* Whether or not every step is answered, none took effect or was called too often.
LEMMA NothingTwiceWhenAudited == IInv /\ phase = "audited" => NothingTwice
<1> SUFFICES ASSUME IInv, phase = "audited", NEW n \in Step
             PROVE  /\ effects[n] <= 1
                    /\ ~late /\ Steps[n] = "llm" =>
                         calls[n] <= IF Window(n) = "in_window" THEN 2 ELSE 1
  BY DEF NothingTwice
<1>1. effects[n] <= 1
  BY DEF IInv, EffectsFollow
<1>2. ASSUME ~late, Steps[n] = "llm"
      PROVE  calls[n] <= IF Window(n) = "in_window" THEN 2 ELSE 1
  <2>1. CASE n \in killedAt.answered
    <3>1. calls[n] = 1
      BY <1>2, <2>1 DEF IInv, SecondCalls
    <3>2. Window(n) = "persisted_before_crash"
      BY <2>1 DEF Window
    <3> QED BY <3>1, <3>2
  <2>2. CASE n \notin killedAt.answered
    <3>1. calls[n] = (IF n \in killedAt.called THEN 1 ELSE 0) + (IF HasCalled(n) THEN 1 ELSE 0)
      BY <1>2, <2>2 DEF IInv, SecondCalls
    <3> QED BY <2>2, <3>1 DEF Window
  <2> QED BY <2>1, <2>2
<1> QED BY <1>1, <1>2

\* The audit of a run in which every step is answered.
LEMMA CleanWhenAudited == IInv => RunIsClean
<1> SUFFICES ASSUME IInv, phase = "audited", ~missed, ~late PROVE Violations = {}
  BY NothingTwiceWhenAudited DEF RunIsClean
<1> USE StepNumbers, TaskNumbers DEF IInv
<1>1. fired
  BY DEF KilledInVain
<1>2. ended
  <2>1. \A n \in Task : ~Live(n)
    BY DEF PhasesFollow
  <2>2. asked = answered
    BY <2>1, UnderWay
  <2> QED BY <2>1, <2>2 DEF Awake
<1>3. \A n \in Step : n <= answered
  BY <1>2 DEF Alternate
<1>4. \A n \in Step : Steps[n] = "tool" => effects[n] = 1
  BY <1>3 DEF EffectsFollow
<1>5. \A n \in Step : Steps[n] = "llm" =>
        calls[n] \in IF Window(n) = "in_window" THEN 1..2 ELSE {1}
  <2> SUFFICES ASSUME NEW n \in Step, Steps[n] = "llm"
               PROVE  calls[n] \in IF Window(n) = "in_window" THEN 1..2 ELSE {1}
    OBVIOUS
  <2>1. CASE n \in killedAt.answered
    BY <2>1 DEF SecondCalls, Window
  <2>2. CASE n \notin killedAt.answered
    <3>1. HasCalled(n)
      BY <1>3 DEF HasCalled
    <3>2. calls[n] = (IF n \in killedAt.called THEN 1 ELSE 0) + (IF HasCalled(n) THEN 1 ELSE 0)
      BY <2>2 DEF SecondCalls
    <3>3. CASE n \in killedAt.called
      <4>1. calls[n] = 2
        BY <3>1, <3>2, <3>3
      <4>2. Window(n) = "in_window"
        BY <2>2, <3>3 DEF Window
      <4> QED BY <4>1, <4>2
    <3>4. CASE n \notin killedAt.called
      <4>1. calls[n] = 1
        BY <3>1, <3>2, <3>4
      <4>2. Window(n) = "after_crash"
        BY <2>2, <3>4 DEF Window
      <4> QED BY <4>1, <4>2
    <3> QED BY <3>3, <3>4
  <2> QED BY <2>1, <2>2
<1> QED BY <1>1, <1>2, <1>4, <1>5 DEF Violations

\* Wherever the harness kills the process, and whatever the process had sent, the audit of a
\* run in which no wakeup was missed and no dead call recorded late finds nothing, and in
\* every run nothing took effect twice, for any workflow of LLM and tool steps and any fault
\* that they come to.
THEOREM RunsAreClean == Spec => []RunIsClean
<1>1. Init => IInv BY Starts
<1>2. IInv /\ [Next]_vars => IInv' BY StepKeeps
<1>3. IInv => RunIsClean BY CleanWhenAudited
<1> QED BY <1>1, <1>2, <1>3, PTL DEF Spec

=============================================================================
