\* Three tasks for a worker with room for one; up to three events of the environment.
SPECIFICATION FairSpec
CONSTANTS
  Workers = {w}
  NoWorker = NoWorker
  Self = w
  TaskIds = {t1, t2, t3}
  Wf = wf
  MaxAttempts <- OneRetry
  MaxConcurrency = 1
  Limits <- Together
INVARIANTS
  CapacityKept
  Tracked
  Drained
PROPERTIES
  TaskIsTaken
  StopEndsProcess
CHECK_DEADLOCK FALSE
