----------------------------- MODULE Manifests -----------------------------
(***************************************************************************)
(* What becomes of the files of a chart: sortManifests divides them into   *)
(* hooks and manifests and sorts the manifests by kind, an install creates *)
(* the documents of the manifests one by one, and an uninstall splits the  *)
(* recorded manifest into documents, sorts these in an order of its own    *)
(* and deletes those that filterManifestsToKeep lets through.              *)
(*                                                                         *)
(* A document is its kind, its hook annotation and its resource policy.    *)
(* A document that cannot be parsed, or whose API version is not served,   *)
(* ends the handler before anything changes and is left out.               *)
(***************************************************************************)
EXTENDS Naturals, Sequences, FiniteSets, Functions

CONSTANTS
  Paths,     \* the paths of a chart's templates
  Partials,  \* those whose base name begins with an underscore
  Docs,      \* the documents the templates render to
  MaxDocs    \* bound: documents in a file

(* A document whose hook annotation names no known event is in no list: for  *)
(* the manifest that is the same as being a hook.                            *)
Documents == [kind : STRING, hook : {"none", "hook"},
              policy : {"none", "keep", "other"}]

ASSUME ManifestsAssumption ==
  /\ IsFiniteSet(Paths)
  /\ Partials \subseteq Paths
  /\ Docs \subseteq Documents
  /\ MaxDocs \in Nat

VARIABLES
  files,    \* path -> the documents it rendered to
  stage,
  queue,    \* the documents yet to be created or deleted, in order
  made,     \* those that were created
  cluster,  \* those that exist
  es        \* those whose deletion failed

vars == <<files, stage, queue, made, cluster, es>>

Doc(x) == files[x[1]][x[2]]

-----------------------------------------------------------------------------
(* The kind sorter. *)

InstallOrder ==
  <<"Namespace", "Secret", "ConfigMap", "PersistentVolume", "ServiceAccount",
    "Service", "Pod", "ReplicationController", "Deployment", "DaemonSet",
    "Ingress", "Job">>

(* Mutant: the order of an install used twice.                               *)
UninstallAsInstalled == InstallOrder

UninstallOrder ==
  <<"Service", "Pod", "ReplicationController", "Deployment", "DaemonSet",
    "ConfigMap", "Secret", "PersistentVolume", "ServiceAccount", "Ingress",
    "Job", "Namespace">>

Ranked(order, kind) == \E i \in DOMAIN order : order[i] = kind

Before(order, a, b) ==
  \E i, j \in DOMAIN order : order[i] = a /\ order[j] = b /\ i < j

(* Mutant: a kind that is missing in the map has rank 0.                     *)
LessFromZero(order, a, b) ==
  \/ Before(order, a, b)
  \/ ~Ranked(order, a) /\ Ranked(order, b) /\ order[1] # b

(* kindSorter.Less: an unknown kind is after every known one.                *)
Less(order, a, b) ==
  Before(order, a, b) \/ (Ranked(order, a) /\ ~Ranked(order, b))

-----------------------------------------------------------------------------
(* sortManifests and filterManifestsToKeep. *)

(* A file is judged by its first document: yaml.Unmarshal reads no further.  *)
Skipped(p) == p \in Partials \/ files[p] = <<>>

Generic == {p \in Paths : ~Skipped(p) /\ files[p][1].hook = "none"}

(* The documents of the release's manifest.                                  *)
ManifestDocs == {x \in Paths \X (1..MaxDocs) :
                   x[1] \in Generic /\ x[2] \in DOMAIN files[x[1]]}

(* Mutant: a policy of any kind goes to the files to delete.                 *)
DeletedWhateverPolicy ==
  {x \in ManifestDocs : Doc(x).hook = "none"}

(* splitManifests makes a file of every document; a policy other than keep   *)
(* puts it into neither of the two lists.                                    *)
FilesToDelete ==
  {x \in ManifestDocs : Doc(x).hook = "none" /\ Doc(x).policy = "none"}

(* Each of the documents once.                                               *)
Sequenced(S) == Bijection(1..Cardinality(S), S)

(* What sort.Sort may return: the map of files is iterated in any order and  *)
(* the sort is not stable, so only Less decides.  The documents of a file    *)
(* stay together.                                                            *)
InstallSorted(q) ==
  \A i, j \in DOMAIN q : i < j =>
    /\ q[i][1] = q[j][1] =>
         q[i][2] < q[j][2] /\ \A k \in i..j : q[k][1] = q[i][1]
    /\ q[i][1] # q[j][1] =>
         ~Less(InstallOrder, files[q[j][1]][1].kind, files[q[i][1]][1].kind)

UninstallSorted(q) ==
  \A i, j \in DOMAIN q :
    i < j => ~Less(UninstallOrder, Doc(q[j]).kind, Doc(q[i]).kind)

-----------------------------------------------------------------------------

Init ==
  /\ files \in [Paths -> UNION {[1..n -> Docs] : n \in 0..MaxDocs}]
  /\ stage = "rendered"
  /\ queue = <<>>
  /\ made = {}
  /\ cluster = {}
  /\ es = {}

Install ==
  /\ stage = "rendered"
  /\ stage' = "installing"
  /\ \E q \in Sequenced(ManifestDocs) : InstallSorted(q) /\ queue' = q
  /\ UNCHANGED <<files, made, cluster, es>>

(* perform creates the documents in the order of the manifest.               *)
CreateResource ==
  /\ stage = "installing"
  /\ queue # <<>>
  /\ made' = made \cup {Head(queue)}
  /\ cluster' = cluster \cup {Head(queue)}
  /\ queue' = Tail(queue)
  /\ UNCHANGED <<files, stage, es>>

(* It ends, or stops at the first error.                                     *)
EndInstall ==
  /\ stage = "installing"
  /\ stage' = "installed"
  /\ queue' = <<>>
  /\ UNCHANGED <<files, made, cluster, es>>

Uninstall ==
  /\ stage = "installed"
  /\ stage' = "uninstalling"
  /\ \E q \in Sequenced(FilesToDelete) : UninstallSorted(q) /\ queue' = q
  /\ UNCHANGED <<files, made, cluster, es>>

(* One file at a time; one that does not exist is skipped.  The loop goes on *)
(* after an error, whose deletion may have had its effect.                   *)
DeleteResource ==
  /\ stage = "uninstalling"
  /\ queue # <<>>
  /\ \/ cluster' = cluster \ {Head(queue)} /\ es' = es
     \/ /\ cluster' \in {cluster, cluster \ {Head(queue)}}
        /\ es' = es \cup {Head(queue)}
  /\ queue' = Tail(queue)
  /\ UNCHANGED <<files, stage, made>>

EndUninstall ==
  /\ stage = "uninstalling"
  /\ queue = <<>>
  /\ stage' = "uninstalled"
  /\ UNCHANGED <<files, queue, made, cluster, es>>

Next ==
  \/ Install \/ CreateResource \/ EndInstall
  \/ Uninstall \/ DeleteResource \/ EndUninstall

Spec == Init /\ [][Next]_vars

-----------------------------------------------------------------------------

(* The documents the loop has dealt with, whatever came of it.               *)
Handled ==
  IF stage = "installing" THEN made
  ELSE FilesToDelete \ {queue[i] : i \in DOMAIN queue}

(* A namespace of the chart outlives what is in it: while a resource of a    *)
(* known kind exists that is to be deleted, and did not refuse to be, every  *)
(* namespace does, in the middle of an install and of an uninstall, and      *)
(* after an install that stopped at an error.  It takes both tables of kinds *)
(* (InstallOrder, UninstallOrder) to be right.                               *)
NamespacesOutlive ==
  \A x \in cluster \ es, n \in ManifestDocs :
    /\ Doc(n).kind = "Namespace"
    /\ Doc(x).kind # "Namespace" /\ Ranked(InstallOrder, Doc(x).kind)
    /\ Doc(x).policy = "none"
    => n \in cluster \cup es

(* kind_sorter.go: "Unknown is always last": a resource of an unknown kind   *)
(* is created, and deleted, after all of a known kind.                       *)
UnknownLast ==
  stage \in {"installing", "uninstalling"} =>
    \A x \in Handled, i \in DOMAIN queue :
      Ranked(InstallOrder, Doc(queue[i]).kind) =>
        Ranked(InstallOrder, Doc(x).kind)

(* UninstallRelease "deletes all of the resources associated with this       *)
(* release" but those whose policy is keep, which stay, and those whose      *)
(* deletion returned an error, which may.                                    *)
UninstallLeavesKept ==
  stage = "uninstalled" =>
    cluster \ es = {x \in made \ es : Doc(x).policy = "keep"}
=============================================================================
