SPECIFICATION FairSpec
CONSTANTS
  Namespaces = {"n1", "a"}
  Releases <- TwoNamedA
  Files = {"job", "config"}
  EventsOf <- MCEventsOf
  Jobs = {"job"}
  MaxOps = 3
INVARIANTS
  HooksBeforeResources
  DeployedAfterHooks
PROPERTIES
  TimedOperationsEnd
\* the operations are bounded
CHECK_DEADLOCK FALSE
