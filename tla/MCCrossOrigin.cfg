\* One page, one event, no faults, the web server and the API on different origins.
SPECIFICATION FairSpec
CONSTANTS
  Workflows = {a, b}
  NoWorkflow = NoWorkflow
  Limits <- Deployed
PROPERTY
  AppendsLive
CHECK_DEADLOCK FALSE
