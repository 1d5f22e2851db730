SPECIFICATION Spec
CONSTANTS
  Paths = {"a", "b", "c", "_d"}
  Partials = {"_d"}
  Docs <- PolicyDocs
  MaxDocs = 1
INVARIANTS
  NamespacesOutlive
  UnknownLast
  UninstallLeavesKept
\* the uninstall is the end
CHECK_DEADLOCK FALSE
