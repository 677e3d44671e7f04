------------------------------ MODULE MCEngine ------------------------------
(***************************************************************************)
(* Engine for TLC: small programs, and how much the environment may do     *)
(* while each of them runs.                                                *)
(***************************************************************************)
EXTENDS Engine, TLC

On(kind, name, stage) == [kind |-> kind, name |-> name, stage |-> stage]

\* await a()
Activity == <<On("activity", "a", 1)>>

\* await sleep()
Timer == <<On("timer", "", 1)>>

\* await Promise.all([a(), sleep()])
Both == <<On("activity", "a", 1), On("timer", "", 1)>>

\* await Promise.all([a(), waitForSignal("go")]); await b()
Approval == <<On("activity", "a", 1), On("signal", "go", 1), On("activity", "b", 2)>>

\* await waitForSignal("go"); await a()
Asked == <<On("signal", "go", 1), On("activity", "a", 2)>>

With(p, calls, faults, stalls) ==
  [program |-> p, budget |-> [calls |-> calls, faults |-> faults, stalls |-> stalls]]

Together ==
  {With(Asked, 1, 1, 0), With(Approval, 1, 0, 0), With(Both, 1, 0, 0), With(Both, 0, 1, 0)}
  \cup {With(p, 0, 0, 1) : p \in {Activity, Timer}}

Calm == {With(Both, 0, 0, 0)}

Called == {With(Activity, 1, 0, 0)}

Symmetry == Permutations(Workers)
=============================================================================
