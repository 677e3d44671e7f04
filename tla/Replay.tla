------------------------------- MODULE Replay -------------------------------
(***************************************************************************)
(* replay (core/replay.ts) in full: all five kinds of calls, concurrent    *)
(* branches, the bounded draining of microtasks, and code that changes     *)
(* while a workflow is in flight; with the handlers that turn its commands *)
(* into events, the LLM handler that needs replay to recover a request the *)
(* event store does not hold, and the debugger that reads the same events. *)
(*                                                                         *)
(* Engine studies how passes interleave with the queue.  Here there is one *)
(* pass at a time, which reads the history in one step and appends in a    *)
(* later one, and a pass may start at any time.                            *)
(*                                                                         *)
(* Hashes are taken to be injective on canonical requests.  A step id is   *)
(* the position in its lane, so that it needs no field of its own.         *)
(*                                                                         *)
(* A definition marked "Mutant" is a plausible bug in the one after it,    *)
(* used by no behaviour.                                                   *)
(***************************************************************************)
EXTENDS Naturals, Sequences, FiniteSets, SequencesExt

CONSTANTS
  Scenarios,   \* what a run starts from: the versions of the workflow function that are
               \* deployed one after another, KARYAKRAM_STORE_PROMPTS, and how many signals
               \* are sent and how many activities run twice
  Names,       \* what calls ask for
  Secret,      \* LLM requests that redaction changes
  Big,         \* LLM requests over maxStoredBytes, redacted or not
  DrainTicks,  \* MAX_DRAIN_TICKS
  None

Lanes == {"activity", "timer", "signal", "llm", "tool"}

\* `name` is what the code compares: the activity's type, the signal's name, the content
\* of an LLM request or of a tool call; what redaction or truncation leaves of one is
\* "altered".  `spelled` is whether optional fields are given.
Call == [lane : Lanes, name : Names \cup {"altered"}, spelled : {"absent", "default"}]

\* Branches that run concurrently, each a sequence of awaits.
Program == {p \in Seq(Seq(Call)) : p # <<>> /\ \A b \in DOMAIN p : p[b] # <<>>}

ASSUME ReplayAssumption ==
  /\ DrainTicks \in Nat
  /\ \A s \in Scenarios :
       /\ s.versions \in Seq(Program) /\ s.versions # <<>>
       /\ s.storePrompts \in BOOLEAN /\ s.signals \in Nat /\ s.stalls \in Nat

VARIABLES
  setup,     \* the scenario
  fleet,     \* the versions that workers run
  hist,      \* workflow_events, in seq order
  pass,      \* the workflow handler between its read and its append
  received,  \* signals sent
  stalled,   \* activities that ran a second time
  \* history variables
  sent,      \* what providers were asked, and for which LLM_REQUESTED
  based      \* the longest history that a recorded decision was made from

vars == <<setup, fleet, hist, pass, received, stalled, sent, based>>

Stages == {"requested", "completed", "failed"}
Storage == {"none", "truncated", "redacted", "full"}

\* ActivityScheduled, LLM_COMPLETED, ... are a lane and a stage; lane "workflow" has the
\* final events.  `call` is the hash, `copy` the request as stored, `ref` is
\* scheduledEventSeq.  `by` is the call that was made, a history field.
Event ==
  [lane : Lanes \cup {"workflow"}, stage : Stages, call : Call \cup {None}, ref : Nat,
   storage : Storage, copy : Call \cup {None}, by : (Nat \X Nat) \cup {None}]

Idle == [seen |-> 0, version |-> 0]

TypeOK ==
  /\ setup \in Scenarios
  /\ fleet # {} /\ fleet \subseteq DOMAIN setup.versions
  /\ hist \in Seq(Event)
  /\ pass = Idle \/ pass \in [seen : 0..Len(hist), version : DOMAIN setup.versions]
  /\ received \in 0..setup.signals /\ stalled \in 0..setup.stalls
  /\ sent \in SUBSET [at : DOMAIN hist, request : Call]
  /\ based \in 0..Len(hist)

Init ==
  /\ setup \in Scenarios
  /\ fleet = {1}
  /\ hist = <<>>
  /\ pass = Idle
  /\ received = 0 /\ stalled = 0
  /\ sent = {}
  /\ based = 0

-----------------------------------------------------------------------------
(***************************************************************************)
(* Events, and what replay looks up in them.                               *)
(***************************************************************************)

\* canonicalLlmRequest, canonicalToolCall: absent fields and their defaults are alike.
Canonical(call) == [call EXCEPT !.spelled = "default"]

Plain(lane, stage, ref) ==
  [lane |-> lane, stage |-> stage, call |-> None, ref |-> ref,
   storage |-> "none", copy |-> None, by |-> None]

Final(stage) == Plain("workflow", stage, 0)

Ended(h) == \E s \in DOMAIN h : h[s].lane = "workflow"

IsRequest(e) == e.stage = "requested" /\ e.lane # "signal"

Outcomes(h, s) == {r \in DOMAIN h : h[r].stage # "requested" /\ h[r].ref = s}

\* What of a request is stored; anything but a full copy is not what was asked.
BuildStoredRequest(call) ==
  LET altered == [call EXCEPT !.name = "altered"]
  IN  CASE call.lane # "llm" \/ ~setup.storePrompts -> [storage |-> "none", copy |-> None]
        [] call.lane = "llm" /\ setup.storePrompts /\ call.name \in Big ->
             [storage |-> "truncated", copy |-> altered]
        [] call.lane = "llm" /\ setup.storePrompts /\ call.name \in Secret \ Big ->
             [storage |-> "redacted", copy |-> altered]
        [] OTHER -> [storage |-> "full", copy |-> call]

\* commandToEvent.
Requested(call, by) ==
  LET stored == BuildStoredRequest(call)
  IN  [lane |-> call.lane, stage |-> "requested", call |-> Canonical(call), ref |-> 0,
       storage |-> stored.storage, copy |-> stored.copy, by |-> by]

-----------------------------------------------------------------------------
(***************************************************************************)
(* replay.                                                                 *)
(***************************************************************************)
\* Calls that share a counter.
SameLane(c, d) == c.lane = d.lane /\ (c.lane = "signal" => c.name = d.name)

\* How many numbers of S come up to k, and the n-th of them.
Rank(S, k) == Cardinality({j \in S : j <= k})
Nth(S, n) == CHOOSE k \in S : Rank(S, k) = n

\* The events of a call's lane.
LaneEvents(h, call) ==
  {s \in DOMAIN h : h[s].stage = "requested" /\ SameLane(h[s].call, call)}

\* Code and history differ: another activity type, or another hash.
Differs(event, call) ==
  call.lane \in {"activity", "llm", "tool"} /\ event.call # Canonical(call)

\* Mutant: a failed step never answers.
AnswerIfCompleted(h, call, at) ==
  IF at = 0 THEN "new"
  ELSE IF Differs(h[at], call) THEN "differs"
  ELSE IF call.lane = "signal" THEN "completed"
  ELSE IF \E r \in Outcomes(h, at) : h[r].stage = "completed" THEN "completed"
  ELSE "waiting"

\* How a call that is paired with event `at` stands; of several outcomes the last wins.
Answer(h, call, at) ==
  IF at = 0 THEN "new"
  ELSE IF Differs(h[at], call) THEN "differs"
  ELSE IF call.lane = "signal" THEN "completed"
  ELSE IF Outcomes(h, at) = {} THEN "waiting"
  ELSE h[Max(Outcomes(h, at))].stage

\* The order of the calls: every branch runs until its first await, and then one await per
\* microtask tick, in turn, until the draining stops.
Rounds(p) == Max({Len(p[b]) : b \in DOMAIN p})
Turns(p) == Rounds(p) * Len(p)

Turn(p, n) ==
  [turn |-> n, round |-> ((n - 1) \div Len(p)) + 1, branch |-> ((n - 1) % Len(p)) + 1]

\* Ticks from the last await of a branch to the `then` and the `catch` of the function.
ThenTicks == 3
CatchTicks == 4

\* A branch goes on when its last call is answered, unless the draining has stopped
\* because another one failed.
GoesOn(made, branch, round) ==
  /\ round = 1 \/ \E m \in made :
       m.branch = branch /\ m.round = round - 1 /\ m.answer = "completed"
  /\ \A m \in made : m.answer = "failed" => round <= m.round + CatchTicks + 1

\* The n-th call of a lane is paired with the lane's n-th event.
MakeCall(h, made, t, call) ==
  LET n == 1 + Cardinality({m \in made : SameLane(m.call, call)})
      lane == LaneEvents(h, call)
      at == IF n <= Cardinality(lane) THEN Nth(lane, n) ELSE 0
  IN  [turn |-> t.turn, branch |-> t.branch, round |-> t.round, call |-> call, at |-> at,
       answer |-> Answer(h, call, at)]

TakeTurn(h, p, made, t) ==
  IF /\ t.round <= Len(p[t.branch]) /\ t.round <= DrainTicks + 1
     /\ GoesOn(made, t.branch, t.round)
  THEN made \cup {MakeCall(h, made, t, p[t.branch][t.round])}
  ELSE made

\* The calls that program p makes on history h, with their answers.
Made(h, p) ==
  LET made[n \in 0..Turns(p)] ==
        IF n = 0 THEN {} ELSE TakeTurn(h, p, made[n - 1], Turn(p, n))
  IN  made[Turns(p)]

Fails(made) == \E m \in made : m.answer = "failed" /\ m.round + CatchTicks <= DrainTicks

Completes(made, p) ==
  \A b \in DOMAIN p : /\ Len(p[b]) + ThenTicks <= DrainTicks
                      /\ GoesOn(made, b, Len(p[b]) + 1)

\* nonDeterminismError: of several the last is thrown.
Divergence(made) ==
  LET where == {m \in made : m.answer = "differs"}
  IN  IF where = {} THEN "none"
      ELSE (CHOOSE m \in where : \A k \in where : k.turn <= m.turn).call.lane

\* Mutant: the newest command first.
NewestFirst(made) ==
  LET new == {m \in made : m.answer = "new" /\ m.call.lane # "signal"}
      nth(n) == CHOOSE m \in new : Cardinality({k \in new : k.turn >= m.turn}) = n
  IN  [n \in 1..Cardinality(new) |-> Requested(nth(n).call, <<nth(n).branch, nth(n).round>>)]

\* The commands, in the order of the calls.
NewRequests(made) ==
  LET new == {m \in made : m.answer = "new" /\ m.call.lane # "signal"}
      nth(n) == CHOOSE m \in new : Cardinality({k \in new : k.turn <= m.turn}) = n
  IN  [n \in 1..Cardinality(new) |-> Requested(nth(n).call, <<nth(n).branch, nth(n).round>>)]

\* What the workflow handler appends: nothing for a NonDeterminismError, which it throws,
\* WorkflowFailed for a StepRequestMismatchError, else what replay asks for.
Decision(h, p) ==
  LET made == Made(h, p)
  IN  CASE Divergence(made) = "activity" -> <<>>
        [] Divergence(made) \in {"llm", "tool"} -> <<Final("failed")>>
        [] Divergence(made) = "none" ->
             IF Fails(made) THEN <<Final("failed")>>
             ELSE IF Completes(made, p) THEN <<Final("completed")>>
             ELSE NewRequests(made)

-----------------------------------------------------------------------------
(***************************************************************************)
(* The handlers.                                                           *)
(***************************************************************************)
Code(v) == setup.versions[v]

\* createWorkflowReplayHandler on a worker of version v: getEvents and replay.  A workflow
\* that has ended is left to Engine.
ReadHistory(v) ==
  /\ pass = Idle
  /\ ~Ended(hist)
  /\ Decision(hist, Code(v)) # <<>>
  /\ pass' = [seen |-> Len(hist), version |-> v]
  /\ UNCHANGED <<setup, fleet, hist, received, stalled, sent, based>>

\* appendEvents.
AppendDecision ==
  /\ pass # Idle
  /\ hist' = hist \o Decision(SubSeq(hist, 1, pass.seen), Code(pass.version))
  /\ based' = Max({based, pass.seen})
  /\ pass' = Idle
  /\ UNCHANGED <<setup, fleet, received, stalled, sent>>

\* The process dies in between.
PassDies ==
  /\ pass # Idle
  /\ pass' = Idle
  /\ UNCHANGED <<setup, fleet, hist, received, stalled, sent, based>>

\* An activity, a timer or a tool call settles.  Only activities are not fenced.
StepSettles(s, stage) ==
  /\ IsRequest(hist[s]) /\ hist[s].lane # "llm"
  /\ hist[s].lane = "timer" => stage = "completed"
  /\ \/ Outcomes(hist, s) = {} /\ UNCHANGED stalled
     \/ /\ hist[s].lane = "activity" /\ Cardinality(Outcomes(hist, s)) = 1
        /\ stalled < setup.stalls
        /\ stalled' = stalled + 1
  /\ hist' = Append(hist, Plain(hist[s].lane, stage, s))
  /\ UNCHANGED <<setup, fleet, pass, received, sent, based>>

\* Mutants: any stored copy is sent; the hash of what replay derives is not compared.
ResolveStored(s, p) ==
  IF hist[s].copy # None THEN {hist[s].copy}
  ELSE LET made == Made(hist, p)
       IN  {m.call : m \in {k \in made : k.at = s /\ k.answer = "waiting"}}

\* resolveRequest on a worker that runs program p: the full copy, or what replay says the
\* pending request is; empty if it cannot be recovered.
ResolveRequest(s, p) ==
  LET made == Made(hist, p)
      derived == {m.call : m \in {k \in made : k.at = s /\ k.answer = "waiting"}}
      found == IF hist[s].storage = "full" THEN {hist[s].copy}
               ELSE IF Divergence(made) # "none" THEN {} ELSE derived
  IN  {request \in found : Canonical(request) = hist[s].call}

\* createLlmCallHandler on a worker of version v.
LlmSettles(v, s, stage) ==
  /\ IsRequest(hist[s]) /\ hist[s].lane = "llm"
  /\ Outcomes(hist, s) = {}
  /\ LET requests == ResolveRequest(s, Code(v))
     IN  /\ requests = {} => stage = "failed"
         /\ sent' = sent \cup [at : {s}, request : requests]
  /\ hist' = Append(hist, Plain("llm", stage, s))
  /\ UNCHANGED <<setup, fleet, pass, received, stalled, based>>

SendSignal(name) ==
  /\ received < setup.signals
  /\ received' = received + 1
  /\ hist' = Append(hist, [Plain("signal", "requested", 0) EXCEPT
                            !.call = [lane |-> "signal", name |-> name, spelled |-> "default"]])
  /\ UNCHANGED <<setup, fleet, pass, stalled, sent, based>>

-----------------------------------------------------------------------------
(***************************************************************************)
(* Deployment.                                                             *)
(***************************************************************************)

\* Workers of the next version come up.
Deploy ==
  /\ Max(fleet) < Len(setup.versions)
  /\ fleet' = fleet \cup {Max(fleet) + 1}
  /\ UNCHANGED <<setup, hist, pass, received, stalled, sent, based>>

\* Those of the oldest are stopped.
Retire ==
  /\ Cardinality(fleet) > 1
  /\ fleet' = fleet \ {Min(fleet)}
  /\ UNCHANGED <<setup, hist, pass, received, stalled, sent, based>>

Signals == {p.name : p \in {c \in UNION {Range(b) : b \in UNION {Range(p) : p \in Range(setup.versions)}} :
                              c.lane = "signal"}}

Next ==
  \/ \E v \in fleet :
       \/ ReadHistory(v)
       \/ \E s \in DOMAIN hist, stage \in {"completed", "failed"} : LlmSettles(v, s, stage)
  \/ AppendDecision
  \/ PassDies
  \/ \E s \in DOMAIN hist, stage \in {"completed", "failed"} : StepSettles(s, stage)
  \/ \E name \in Signals : SendSignal(name)
  \/ Deploy
  \/ Retire

Spec == Init /\ [][Next]_vars

-----------------------------------------------------------------------------
(***************************************************************************)
(* The debugger, which folds the same events.                              *)
(***************************************************************************)
\* Mutant: an outcome is final.
ApplyOnce(steps, seq, e) ==
  IF IsRequest(e) THEN steps \cup {[at |-> seq, status |-> "waiting"]}
  ELSE {IF step = [at |-> e.ref, status |-> "waiting"] THEN [at |-> e.ref, status |-> e.stage]
        ELSE step : step \in steps}

\* applyEvent, as far as the steps: an outcome of a step nobody knows is ignored.
ApplyEvent(steps, seq, e) ==
  IF IsRequest(e) THEN steps \cup {[at |-> seq, status |-> "waiting"]}
  ELSE {IF step.at = e.ref THEN [at |-> e.ref, status |-> e.stage] ELSE step : step \in steps}

FoldEvents(h) ==
  LET steps[n \in 0..Len(h)] == IF n = 0 THEN {} ELSE ApplyEvent(steps[n - 1], n, h[n])
  IN  steps[Len(h)]

IsDecision(e) == IsRequest(e) \/ e.lane = "workflow"

\* replayedStepSeqs: completions before the last decision.
ReplayedSteps(h) ==
  LET decisions == {s \in DOMAIN h : IsDecision(h[s])}
  IN  {s \in DOMAIN h : /\ h[s].lane \in {"llm", "tool"} /\ h[s].stage = "completed"
                        /\ \E d \in decisions : s < d}

-----------------------------------------------------------------------------
(***************************************************************************)
(* Properties                                                              *)
(***************************************************************************)

\* Only one branch makes calls of a lane after its first: then the order of a lane does
\* not depend on which branch was answered first.
Ordered(p) ==
  \A b, c \in DOMAIN p : b # c =>
    ~\E i \in 2..Len(p[b]), j \in 2..Len(p[c]) : SameLane(p[b][i], p[c][j])

\* "a fresh replay pass, given a longer history than before, naturally re-derives every
\* earlier decision" (docs/03-replay.md:53-54): as long as the code is not changed, every
\* recorded step is paired with the call that asked for it, on every later history.
\* Unless branches race in a lane, or an activity that ran twice changes its outcome, or the
\* workflow fails, which stops the draining of the other branches.
DecisionsAreRederived ==
  Len(setup.versions) = 1 /\ Ordered(Code(1)) /\ stalled = 0 =>
    LET made == Made(hist, Code(1))
    IN  /\ Divergence(made) = "none"
        /\ Fails(made) \/ \A s \in DOMAIN hist : IsRequest(hist[s]) =>
             \E m \in made : m.at = s /\ <<m.branch, m.round>> = hist[s].by

\* Whatever is deployed, however requests are stored and whoever executes them: a call
\* that the running code sees completed was answered by a provider that was asked what
\* this code asks, and nobody asked anything else for it.
AnswersMatchRequests ==
  \A v \in fleet :
    \A m \in Made(hist, Code(v)) :
      m.call.lane = "llm" /\ m.answer = "completed" =>
        /\ \E r \in sent : r.at = m.at
        /\ \A r \in sent : r.at = m.at => Canonical(r.request) = Canonical(m.call)

\* An outcome or a signal may still arrive for one of the calls.
Waits(made) ==
  \E m \in made :
    IF m.call.lane = "signal" THEN m.at = 0 ELSE m.at # 0 /\ Outcomes(hist, m.at) = {}

\* A workflow that waits for nothing has a next decision, unless an activity's type was
\* changed under it, or it is longer than the draining.
NeverStuck ==
  \A v \in fleet :
    LET made == Made(hist, Code(v))
    IN  \/ Ended(hist) \/ Waits(made) \/ Divergence(made) = "activity"
        \/ \E b \in DOMAIN Code(v) : Len(Code(v)[b]) + CatchTicks > DrainTicks
        \/ Decision(hist, Code(v)) # <<>>

\* The debugger shows each step as replay sees it, and marks a completion as replayed only
\* after a decision that was made from it; unless several steps may be in flight: then
\* a decision made from an older history marks a completion it has not read.
DebuggerAgrees ==
  /\ \A v \in fleet : \A m \in Made(hist, Code(v)) :
       m.at # 0 /\ m.call.lane # "signal" /\ m.answer # "differs" =>
         [at |-> m.at, status |-> m.answer] \in FoldEvents(hist)
  /\ Len(setup.versions) = 1 /\ Len(Code(1)) = 1 /\ stalled = 0 =>
       ReplayedSteps(hist) \subseteq 1..based
=============================================================================
