------------------------------ MODULE Release ------------------------------
(***************************************************************************)
(* The data tillerc handles: the Release third-party resource its users    *)
(* write, and the ReleaseVersion records in which it keeps one revision    *)
(* each (helm.sh/v1beta1).                                                 *)
(*                                                                         *)
(* A chart is a model value; what matters of it is which resources its     *)
(* templates render to, which hook events it declares, whether it renders  *)
(* and whether the rendered manifest passes the schema.  The text of a     *)
(* manifest is the pair of the chart and the values it was rendered from,  *)
(* so two revisions have the same manifest when they have the same pair.   *)
(***************************************************************************)
EXTENDS Naming, FiniteSets

CONSTANTS
  Namespaces,   \* Kubernetes namespaces
  Names,        \* names of releases
  Charts,       \* charts, inlined in the release object
  Configs,      \* values files
  NoConfig,     \* no values: a nil Config
  EmptyConfig,  \* no values either: the &Config{} the handlers put in its place
  Resources,    \* Kubernetes resources the charts render to (kind and name)
  Templates,    \* chart -> the resources its templates render to
  Hooks,        \* chart -> the hook events it declares
  BadRender,    \* charts that are missing, or whose templates do not render
  BadManifest,  \* charts that render to a manifest the schema rejects
  Purging,      \* values of the purge flag that users write
  Keep,         \* resources annotated with the resource policy "keep"
  MaxRev,       \* bound: the last revision number of the model
  NoObj,        \* "no such Release object"
  NoRec         \* "no such ReleaseVersion object"

HookEvents == {"pre-install", "post-install", "pre-upgrade", "post-upgrade",
               "pre-delete", "post-delete"}

ASSUME ReleaseAssumption ==
  /\ Names \subseteq Named
  /\ \A n \in Names : ValidName(n)
  /\ NoConfig \in Configs
  /\ EmptyConfig \in Configs
  /\ Templates \in [Charts -> SUBSET Resources]
  /\ Hooks \in [Charts -> SUBSET HookEvents]
  /\ FALSE \in Purging
  /\ Purging \subseteq BOOLEAN
  /\ BadRender \subseteq Charts
  /\ BadManifest \subseteq Charts
  /\ MaxRev \in 1..(Half - 1)

Keys == Namespaces \X Names

(* ReleaseSpec, without the waiting options, and without the manifest, the *)
(* hooks and the version, which the handlers compute before they use them. *)
Specs == [chart : Charts, config : Configs, dryRun : BOOLEAN,
          disableHooks : BOOLEAN, purge : Purging]

Codes == {"UNKNOWN", "DEPLOYED", "DELETED", "SUPERSEDED", "FAILED", "DELETING"}

(* A time stamp is absent, as decoded from JSON (whole seconds), or as read *)
(* from the clock in this process (nanoseconds).  A time that travels       *)
(* through the API server comes back in whole seconds: it is not equal to   *)
(* the value that was sent.                                                 *)
Times == {"zero", "wire", "clock"}

(* ReleaseStatus: Code, FirstDeployed, LastDeployed, LastDeployedVersion.   *)
Statuses == [code : Codes, first : Times, last : Times, ver : 0..MaxRev]

NewStatus == [code |-> "UNKNOWN", first |-> "zero", last |-> "zero", ver |-> 0]

(* Mutant: the encoding keeps the nanoseconds.                              *)
DecodedExactly(t) == t

Decoded(t) == IF t = "clock" THEN "wire" ELSE t

Wire(status) ==
  [status EXCEPT !.first = Decoded(@), !.last = Decoded(@)]

(* A Release object: its resource version, its spec and its status.         *)
Objects == [rv : Nat, spec : Specs, status : Statuses]

(* What a ReleaseVersion keeps of a release: the spec and the status code.  *)
(* Its LastDeployed is always a decoded time, its LastDeployedVersion the   *)
(* revision; FirstDeployed is not stored.                                   *)
Records == [spec : Specs, code : Codes]

ASSUME AbsenceAssumption == NoObj \notin Objects /\ NoRec \notin Records

(* The status that getReleaseFromReleaseVersion rebuilds from revision r.   *)
StatusOf(rec, r) ==
  [code |-> rec.code, first |-> "zero", last |-> "wire", ver |-> r]

Manifests == [chart : Charts, config : Configs]

NoValues(config) == config \in {NoConfig, EmptyConfig}

(* Templates render the same from values that are nil and from empty ones.  *)
Manifest(spec) ==
  [chart  |-> spec.chart,
   config |-> IF NoValues(spec.config) THEN NoConfig ELSE spec.config]

(* The resources a manifest describes.                                      *)
Targets(m) == Templates[m.chart]
=============================================================================
