SPECIFICATION Spec
CONSTANTS
  Namespaces = {n1}
  Texts = {"none", "v", "a", "b", "x"}
  Half = 8
  MaxInt = 31
  Names <- OneName
  Charts = {"web", "job", "broken", "invalid", "empty"}
  Configs = {"none", "empty", "v1", "v2"}
  NoConfig = "none"
  EmptyConfig = "empty"
  Resources = {"r1", "r2", "r3"}
  Templates <- MCTemplates
  Hooks <- NoHooks
  BadRender = {"broken"}
  BadManifest = {"invalid"}
  Keep = {}
  MaxRev = 5
  Purging = {FALSE}
  UserSpecs <- FewSpecs
  Requests <- ToPrevious
  Limit <- CreateCrash
  NoNs = NoNs
  NoObj = NoObj
  NoRec = NoRec
  NoRes = NoRes
INVARIANT FailedIsNotDeployed
\* the users stop, and then the server rests
CHECK_DEADLOCK FALSE
