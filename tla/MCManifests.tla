---------------------------- MODULE MCManifests ----------------------------
(***************************************************************************)
(* Charts with three templates and a partial, of a document each.           *)
(***************************************************************************)
EXTENDS Manifests

Of(kind, hook, policy) == [kind |-> kind, hook |-> hook, policy |-> policy]

(* A namespace, kinds that the two tables rank differently, and an unknown.  *)
SomeKinds == {"Namespace", "Secret", "Pod", "Widget"}

PolicyDocs ==
  [kind : SomeKinds, hook : {"none"}, policy : {"none", "keep"}]
    \cup {Of("Pod", "hook", "none")}
=============================================================================
