---------------------------- MODULE MCTaskQueue ----------------------------
(***************************************************************************)
(* TaskQueue for TLC.  The configurations give the constants model values: *)
(* two rows and two workers are enough for a zombie, the worker that took  *)
(* its task over, and a second task of the same workflow to contend for    *)
(* the index slot.                                                         *)
(***************************************************************************)
EXTENDS TaskQueue, TLC

\* Workers and rows are interchangeable: sound where no liveness is checked.
Symmetry == Permutations(Workers) \cup Permutations(TaskId)
=============================================================================
