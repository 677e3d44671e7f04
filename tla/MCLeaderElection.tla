-------------------------- MODULE MCLeaderElection --------------------------
(***************************************************************************)
(* LeaderElection for TLC: which faults happen together.                   *)
(***************************************************************************)
EXTENDS LeaderElection, TLC

Bound(drops, crashes, errors, stops) ==
  [drops |-> drops, crashes |-> crashes, errors |-> errors, stops |-> stops]

\* Two faults of different kinds, or two replicas that stop.
Together == {Bound(1, 1, 0, 0), Bound(1, 0, 1, 0), Bound(1, 0, 0, 1), Bound(0, 1, 1, 0),
             Bound(0, 1, 0, 1), Bound(0, 0, 1, 1), Bound(0, 0, 0, 2)}

OneDrop == {Bound(1, 0, 0, 0)}
=============================================================================
