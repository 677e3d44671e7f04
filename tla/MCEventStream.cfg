\* Up to three pages, three events, two polls at once, two faults.
SPECIFICATION FairSpec
CONSTANTS
  Workflows = {a, b}
  NoWorkflow = NoWorkflow
  Limits <- Together
INVARIANTS
  ShownIsPrefix
PROPERTIES
  CatchesUp
  StreamsEnd
CHECK_DEADLOCK FALSE
