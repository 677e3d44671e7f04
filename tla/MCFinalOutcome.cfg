\* One cancellation while an activity is in flight; no faults.
SPECIFICATION Spec
CONSTANTS
  Workers = {w1, w2}
  NoWorker = NoWorker
  Wf = wf
  None = None
  Signals = {"go"}
  MaxAttempts = 2
  Scenarios <- Called
PROPERTY FinalOutcomeStands
CHECK_DEADLOCK FALSE
