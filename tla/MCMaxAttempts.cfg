\* A task that crashes its worker again and again.
SPECIFICATION Spec
CONSTANTS
  TaskId = {t1}
  Workers = {w1, w2}
  NoWorker = NoWorker
  Workflows = {wf}
  MaxAttempts = 2
  MaxFaults = 3
  MaxRequeues = 1
SYMMETRY Symmetry
INVARIANT DeadAfterMaxAttempts
CHECK_DEADLOCK FALSE
