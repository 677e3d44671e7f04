\* Room for two, four tasks, and nothing but a handler that throws.
SPECIFICATION Spec
CONSTANTS
  Workers = {w}
  NoWorker = NoWorker
  Self = w
  TaskIds = {t1, t2, t3, t4}
  Wf = wf
  MaxAttempts <- OneRetry
  MaxConcurrency = 2
  Limits <- Quiet
INVARIANT
  NeverOverCapacity
CHECK_DEADLOCK FALSE
