\* Faults of every kind, two of a kind, and a requeued task.
SPECIFICATION FairSpec
CONSTANTS
  Workers = {w1, w2}
  NoWorker = NoWorker
  Wf = wf
  MaxAttempts = 2
  Limits <- Together
INVARIANTS
  EffectIsReported
  CompletedIsAnswered
  DeadIsAnswered
PROPERTIES
  NoCallOnceAnswered
  ImplementsDurableStep
  StepEnds
CHECK_DEADLOCK FALSE
