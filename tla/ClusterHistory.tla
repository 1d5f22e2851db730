--------------------------- MODULE ClusterHistory ---------------------------
(***************************************************************************)
(* What the records say of the cluster, for as long as it can be known.    *)
(*                                                                         *)
(* Nothing in tillerc notices when a handler has changed the cluster and   *)
(* ends without a record of it, and the next upgrade patches only what two  *)
(* recorded manifests differ in.  Two history variables keep what the       *)
(* program forgets; they restrict nothing, every step of the server is a    *)
(* step here.                                                               *)
(***************************************************************************)
EXTENDS ReleaseServerProps

VARIABLES
  drifted, \* the releases whose cluster the records no longer account for
  refused  \* release -> the resources its last uninstall could not delete

historyVars == <<vars, drifted, refused>>

-----------------------------------------------------------------------------

(* A handler's Create or Update of the cluster returns.                      *)
Changes == pc \notin AppliedLabels /\ pc' \in AppliedLabels

(* An update failed, or could not delete what the target no longer has.      *)
UpdateFalters ==
  /\ Changes
  /\ pc = "kubeUpdate"
  /\ pc' = "failStatus" \/ used'["kube"] # used["kube"]

(* The store is that of another release: env.Releases was turned to it.      *)
ChangesAstray == Changes /\ at # StoreKey

(* A handler that changed the cluster ends and adds no revision: a hook or a *)
(* status write failed, the process died, the store failed, or it was an     *)
(* install under a name that has records.                                    *)
EndsUnrecorded == pc \in AppliedLabels /\ pc' = "idle" /\ hist' = hist

(* A purge deletes records, and leaves the resources.                        *)
PurgesRecord == pc = "purge" /\ hist' # hist

(* An uninstall ends, and its record tells of none.                          *)
UninstallsUnrecorded ==
  /\ pc \in {"deleting", "markDeleted"}
  /\ pc' = "idle"
  /\ hist'[StoreKey][cur.rev].code \notin {"DELETING", "DELETED"}

Drifting ==
  {k \in Keys :
     \/ k \in {at, StoreKey} /\ (UpdateFalters \/ ChangesAstray \/ EndsUnrecorded)
     \/ k = StoreKey /\ (PurgesRecord \/ UninstallsUnrecorded)}

(* A resource is taken off the list of an uninstall and stays.               *)
Refusing ==
  IF pc = "deleting" THEN {x \in todo \ todo' : live'[env][x] # NoRes} ELSE {}

StartsOver == pc = "markDeleting" /\ pc' = "deleting"

HistoryInit == drifted = {} /\ refused = [k \in Keys |-> {}]

HistoryNext ==
  /\ drifted' = drifted \cup Drifting
  /\ refused' = [k \in Keys |->
       IF k # StoreKey THEN refused[k]
       ELSE IF StartsOver THEN {} ELSE refused[k] \cup Refusing]

HSpec == Init /\ HistoryInit /\ [][Next /\ HistoryNext]_historyVars

HFairSpec ==
  /\ HSpec
  /\ WF_vars(~Waiting /\ WorkerStep)
  /\ WF_vars(RollbackStep)
  /\ WF_vars(WatchOpen)

-----------------------------------------------------------------------------

(* While no handler runs, a last revision that is DEPLOYED has every         *)
(* resource in the cluster exactly as it was rendered, and no resource that  *)
(* only an earlier revision had is left; unless an operation on that release *)
(* ended in one of the ways that leave it drifted.  Nothing else makes the   *)
(* records and the cluster part: not a failed install, hook, status write or *)
(* record of one, nor edits, rollbacks and deletes in between.               *)
RecordedIsLive ==
  pc = "idle" =>
    \A k \in Keys \ drifted : \A r \in 1..MaxRev :
      IsLast(k, r) /\ hist[k][r].code = "DEPLOYED" =>
        LET m == Manifest(hist[k][r].spec)
        IN  \A x \in Resources :
              live[k[1]][x] = IF x \in Targets(m) THEN m ELSE NoRes

(* While no handler runs, a release that did not drift and whose last        *)
(* revision is DELETED has nothing left in the cluster but what the last     *)
(* manifest asks to keep and what the cluster refused to delete.             *)
UninstalledIsGone ==
  pc = "idle" =>
    \A k \in Keys \ drifted : \A r \in 1..MaxRev :
      IsLast(k, r) /\ hist[k][r].code = "DELETED" =>
        LET m == Manifest(hist[k][r].spec)
        IN  \A x \in Resources \ ((Targets(m) \cap Keep) \cup refused[k]) :
              live[k[1]][x] = NoRes
=============================================================================
