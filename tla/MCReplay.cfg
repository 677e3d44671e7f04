\* Programs of up to three awaits a branch, which is the most that seven ticks drain in any
\* case, and one of five, which they do not.
SPECIFICATION Spec
CONSTANTS
  None = None
  DrainTicks = 7
  Names = {"", "a", "b", "go", "q", "r", "long", "x", "y"}
  Secret = {"r"}
  Big = {"long"}
  Scenarios <- MCScenarios
INVARIANTS
  DecisionsAreRederived
  AnswersMatchRequests
  NeverStuck
  DebuggerAgrees
CHECK_DEADLOCK FALSE
