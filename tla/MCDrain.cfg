\* Nothing happens but a stop.
SPECIFICATION Spec
CONSTANTS
  Workers = {w}
  NoWorker = NoWorker
  Self = w
  TaskIds = {t1, t2, t3}
  Wf = wf
  MaxAttempts <- OneRetry
  MaxConcurrency = 1
  Limits <- Quiet
INVARIANT
  DrainLeavesNothing
CHECK_DEADLOCK FALSE
