------------------------------ MODULE MCWorker ------------------------------
(***************************************************************************)
(* Worker for TLC: which events of the environment happen together.        *)
(***************************************************************************)
EXTENDS Worker, TLC

Bound(notifies, errors, stalls, lapses) ==
  [notifies |-> notifies, errors |-> errors, stalls |-> stalls, lapses |-> lapses]

Together == {Bound(1, 0, 0, 0), Bound(0, 1, 1, 1), Bound(0, 2, 0, 1)}

\* For the claims of comments: nothing happens, or a notification does.
Quiet == {Bound(0, 0, 0, 0)}
Notified == {Bound(1, 0, 0, 0)}

\* One task may fail and be tried again.
OneRetry == [t \in TaskIds |-> IF t = CHOOSE u \in TaskIds : TRUE THEN 2 ELSE 1]
=============================================================================
