\* The four steps of the triage workflow; every fault point, at its first or second hit.
SPECIFICATION FairSpec
CONSTANTS
  Steps <- TriageSteps
  Points = {"after_provider_before_persist", "after_persist", "before_tool_commit", "random_delay"}
  After = {1, 2}
INVARIANTS
  RunIsClean
PROPERTIES
  RunEnds
CHECK_DEADLOCK FALSE
