----------------------------- MODULE KubeClient -----------------------------
(***************************************************************************)
(* The cluster as kube.Client changes it.  Each operation of the client is *)
(* one step here whose outcome says which resources it got to before it    *)
(* returned: the order in which a manifest lists its resources is          *)
(* abstracted, so a call that fails may have applied any part of it.       *)
(***************************************************************************)
EXTENDS Release

CONSTANT NoRes  \* "no such resource"

ASSUME ResourceAssumption == NoRes \notin Manifests

VARIABLE live   \* namespace -> resource -> the manifest it was made from

LiveTypeOK == live \in [Namespaces -> [Resources -> Manifests \cup {NoRes}]]

LiveInit == live = [ns \in Namespaces |-> [r \in Resources |-> NoRes]]

Absent(ns, rs) == {r \in rs : live[ns][r] = NoRes}

(* Client.Create posts every resource and stops at the first that exists;   *)
(* an empty manifest is ErrNoObjectsVisited.  Before that it sees to it that *)
(* the namespace exists: when it cannot, the call fails with nothing done,   *)
(* and a namespace it creates is none of the resources here.                 *)
CanCreate(ns, m) == Targets(m) # {} /\ Absent(ns, Targets(m)) = Targets(m)

Created(ns, m, done) ==
  live' = [live EXCEPT ![ns] =
             [r \in Resources |-> IF r \in done THEN m ELSE @[r]]]

CreateSucceeds(ns, m) == CanCreate(ns, m) /\ Created(ns, m, Targets(m))

CreateFails(ns, m) ==
  \E done \in SUBSET Absent(ns, Targets(m)) : Created(ns, m, done)

(* Mutant: the two manifests swapped.                                       *)
PatchedBackwards(orig, target, was) ==
  [chart  |-> IF orig.chart = target.chart THEN was.chart ELSE orig.chart,
   config |-> IF orig.config = target.config THEN was.config ELSE orig.config]

(* updateResource sends the difference between the original and the target  *)
(* manifest, so what they agree on stays as the cluster has it.             *)
Patched(orig, target, was) ==
  [chart  |-> IF orig.chart = target.chart THEN was.chart ELSE target.chart,
   config |-> IF orig.config = target.config THEN was.config ELSE target.config]

(* Client.Update creates what is missing, patches what the original has,    *)
(* and gives up on a resource that exists but is not in the original.       *)
Reachable(ns, orig, target) ==
  {r \in Targets(target) : live[ns][r] = NoRes \/ r \in Targets(orig)}

CanUpdate(ns, orig, target) ==
  Reachable(ns, orig, target) = Targets(target)

Applied(ns, orig, target, done, gone) ==
  live' = [live EXCEPT ![ns] =
             [r \in Resources |->
                IF r \in done
                THEN IF @[r] = NoRes THEN target ELSE Patched(orig, target, @[r])
                ELSE IF r \in gone THEN NoRes ELSE @[r]]]

(* The deletions come last and their errors are only logged: "left" is what *)
(* could not be deleted.                                                    *)
UpdateSucceeds(ns, orig, target, left) ==
  /\ CanUpdate(ns, orig, target)
  /\ Applied(ns, orig, target, Targets(target),
             (Targets(orig) \ Targets(target)) \ left)

UpdateFails(ns, orig, target) ==
  \E done \in SUBSET Reachable(ns, orig, target) :
    Applied(ns, orig, target, done, {})

(* The call waited for the resources to become ready and timed out: all of  *)
(* it is done but what could not be deleted, and it returns an error.       *)
UpdateTimesOut(ns, orig, target) ==
  \E left \in SUBSET (Targets(orig) \ Targets(target)) :
    UpdateSucceeds(ns, orig, target, left)

(* Mutant: the two lists of filterManifestsToKeep swapped.                  *)
FilesToKeep(m) == Targets(m) \cap Keep

(* The files an uninstall deletes: those filterManifestsToKeep does not keep. *)
FilesToDelete(m) == Targets(m) \ Keep

(* Client.Delete of one manifest file.                                      *)
Deleted(ns, r) == live' = [live EXCEPT ![ns][r] = NoRes]
=============================================================================
