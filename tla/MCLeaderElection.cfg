\* Two replicas, two faults of different kinds or two replicas that stop.
SPECIFICATION FairSpec
CONSTANTS
  Replicas = {r1, r2}
  Nobody = Nobody
  Limits <- Together
INVARIANTS
  StoppedStaysOut
  RowNamesLeader
PROPERTIES
  ElectedWithLock
  StopReleases
  SomeoneLeads
  ReapersFade
  OverdueIsReaped
CHECK_DEADLOCK FALSE
