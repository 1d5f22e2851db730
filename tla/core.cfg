SPECIFICATION HFairSpec
CONSTANTS
  Namespaces = {n1}
  Texts = {"none", "v", "a", "b", "x"}
  Half = 8
  MaxInt = 31
  Names <- OneName
  Charts = {"web", "job", "broken", "invalid", "empty"}
  Configs = {"none", "empty", "v1", "v2"}
  NoConfig = "none"
  EmptyConfig = "empty"
  Resources = {"r1", "r2", "r3"}
  Templates <- MCTemplates
  Hooks <- MCHooks
  BadRender = {"broken"}
  BadManifest = {"invalid"}
  Keep = {"r3"}
  MaxRev = 6
  Purging = {FALSE}
  UserSpecs <- TwoCharts
  Requests <- ToPrevious
  Limit <- TwoLives
  NoNs = NoNs
  NoObj = NoObj
  NoRec = NoRec
  NoRes = NoRes
INVARIANTS
  TypeOK
  RevisionsHaveCauses
  RecordedIsLive
  UninstalledIsGone
PROPERTIES
  RollbackGoesBack
  StatusWritesKeepSpec
  UninstallFollows
\* the users stop, and then the server rests
CHECK_DEADLOCK FALSE
