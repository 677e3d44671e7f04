\* One connection drops.
SPECIFICATION FairSpec
CONSTANTS
  Replicas = {r1, r2}
  Nobody = Nobody
  Limits <- OneDrop
PROPERTY LeaderReaps
CHECK_DEADLOCK FALSE
