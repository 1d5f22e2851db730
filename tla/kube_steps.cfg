SPECIFICATION Spec
CONSTANTS
  Namespaces = {n1}
  Texts = {"none", "v", "a"}
  Half = 8
  MaxInt = 31
  Names <- OneName
  Charts = {"web", "job", "empty"}
  Configs = {"none", "v1"}
  NoConfig = "none"
  EmptyConfig = "none"
  Resources = {"r1", "r2", "r3"}
  Templates <- MCTemplates
  Hooks <- NoHooks
  BadRender = {}
  BadManifest = {}
  Keep = {}
  MaxRev = 1
  Purging = {FALSE}
  MaxCalls = 3
  NoObj = NoObj
  NoRec = NoRec
  NoRes = NoRes
PROPERTIES
  ImplementsKubeCalls
\* the calls are bounded
CHECK_DEADLOCK FALSE
