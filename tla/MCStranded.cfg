\* No faults at all.
SPECIFICATION Spec
CONSTANTS
  Workers = {w1, w2}
  NoWorker = NoWorker
  Wf = wf
  None = None
  Signals = {"go"}
  MaxAttempts = 2
  Scenarios <- Calm
SYMMETRY Symmetry
INVARIANT NeverStranded
CHECK_DEADLOCK FALSE
