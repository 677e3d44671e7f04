\* Two rows, two workers, two attempts; one fault, one requeue.
SPECIFICATION FairSpec
CONSTANTS
  TaskId = {t1, t2}
  Workers = {w1, w2}
  NoWorker = NoWorker
  Workflows = {wf}
  MaxAttempts = 2
  MaxFaults = 1
  MaxRequeues = 1
INVARIANTS
  OneLiveWorkflowTask
  AttemptAccounting
  FailureBudget
  OneFencedInvocation
PROPERTIES
  LiveLeaseIsRespected
  EveryTaskEnds
  ImplementsAtLeastOnce
CHECK_DEADLOCK FALSE
