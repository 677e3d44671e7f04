\* Signals, cancellations, crashes, database errors, lost responses, leases lost by a live
\* worker.
SPECIFICATION FairSpec
CONSTANTS
  Workers = {w1, w2}
  NoWorker = NoWorker
  Wf = wf
  None = None
  Signals = {"go"}
  MaxAttempts = 2
  Scenarios <- Together
INVARIANTS
  OneTaskPerStep
  OneOutcomePerActivity
  LanesFollowProgram
  OnlyMissedWakeupsStrand
PROPERTIES
  EndedStaysEnded
  EveryStepSettles
CHECK_DEADLOCK FALSE
