------------------------------ MODULE MCReplay ------------------------------
(***************************************************************************)
(* Replay for TLC: small programs, alone and replaced by a later version.  *)
(***************************************************************************)
EXTENDS Replay

On(lane, name) == [lane |-> lane, name |-> name, spelled |-> "absent"]
Spelled(call) == [call EXCEPT !.spelled = "default"]

A == On("activity", "a")
B == On("activity", "b")
T == On("timer", "")
S == On("signal", "go")
Q == On("llm", "q")
R == On("llm", "r")
L == On("llm", "long")
X == On("tool", "x")
Y == On("tool", "y")

\* Awaits one after another; two branches of Promise.all.
One(c) == <<c>>
Both(c, d) == <<c, d>>

Start(versions, storePrompts, signals, stalls) ==
  [versions |-> versions, storePrompts |-> storePrompts, signals |-> signals, stalls |-> stalls]

\* The code stays as it is.
Alone ==
  {Start(<<p>>, TRUE, 2, 1) : p \in
     {One(<<Q, X, A>>), One(<<S, T, S>>), One(<<R, L>>), Both(<<A, Q>>, <<B, T>>),
      Both(<<Q, S>>, <<A, B, X>>), Both(<<A, B>>, <<B, A>>), Both(<<Q, R>>, <<R, Q>>)}}

\* More calls in a row than the draining passes; a failure that stops the draining of another
\* branch; an activity that fails after the workflow went on from its answer.
Long == {Start(<<One(<<T, T, T, T, T>>)>>, TRUE, 0, 0),
         Start(<<Both(<<A>>, <<T, T, T, T, T, T, T>>)>>, TRUE, 0, 0),
         Start(<<One(<<A, Q>>)>>, TRUE, 0, 1)}

\* A later version asks something else, asks it in another order, or only spells it
\* another way; prompts are stored in full, redacted, cut or not at all.
Changed ==
  {Start(<<p, q>>, store, 0, 0) :
     p \in {One(<<Q, X>>), Both(<<Q, A>>, <<R, X>>)},
     q \in {One(<<R, Q>>), One(<<Spelled(Q), Spelled(X)>>), Both(<<R, A>>, <<Q, Y>>)},
     store \in BOOLEAN}

MCScenarios == Alone \cup Long \cup Changed
=============================================================================
