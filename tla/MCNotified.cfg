\* Room for one, and a notification while a dequeue is pending.
SPECIFICATION Spec
CONSTANTS
  Workers = {w}
  NoWorker = NoWorker
  Self = w
  TaskIds = {t1, t2, t3}
  Wf = wf
  MaxAttempts <- OneRetry
  MaxConcurrency = 1
  Limits <- Notified
INVARIANT
  NeverOverCapacity
CHECK_DEADLOCK FALSE
