--------------------------- MODULE MCEventStream ---------------------------
(***************************************************************************)
(* EventStream for TLC: what happens together.                             *)
(***************************************************************************)
EXTENDS EventStream

Bound(o, e, m, p, f) ==
  [origin |-> o, events |-> e, mounts |-> m, polls |-> p, faults |-> f]

\* One page with overlapping polls, alone and through faults; several pages; pages from
\* another origin.
Together ==
  {Bound("same", 3, 1, 2, 0), Bound("same", 1, 1, 2, 1), Bound("same", 1, 1, 1, 2),
   Bound("same", 2, 2, 1, 1), Bound("cross", 2, 2, 1, 1)}

\* As deployed: the page's server and the API are different origins.  Nothing fails.
Deployed == {Bound("cross", 1, 1, 1, 0)}
=============================================================================
