--------------------------- MODULE MCStepHandlers ---------------------------
(***************************************************************************)
(* StepHandlers for TLC: which faults happen together.                     *)
(***************************************************************************)
EXTENDS StepHandlers, TLC

Bound(crashes, errors, stalls, requeues) ==
  [crashes |-> crashes, errors |-> errors, stalls |-> stalls, requeues |-> requeues]

\* Faults that happen together, of the same kind and of different kinds.
Together == {Bound(1, 1, 1, 0), Bound(0, 0, 1, 1), Bound(1, 0, 0, 1),
           Bound(0, 1, 0, 1), Bound(2, 0, 0, 0), Bound(0, 2, 0, 0),
           Bound(0, 0, 2, 0)}
=============================================================================
