--------------------------- MODULE ClusterProofs ---------------------------
(***************************************************************************)
(* The records and the cluster.                                             *)
(*                                                                         *)
(* A revision is recorded as DEPLOYED only after an install or an upgrade   *)
(* that succeeded, whatever happens.  That the cluster still is what the    *)
(* last revision says when the next handler begins takes more: an upgrade   *)
(* patches the difference between two manifests, so it is right only if the *)
(* cluster is what the first of the two says.  The argument is that each    *)
(* handler leaves it so, or the release drifts.                             *)
(***************************************************************************)
EXTENDS LogProofs, ClusterHistory

Handled == Manifest(cache[at].spec)

(* The handler has changed the cluster, and nothing has failed.              *)
Confirmed ==
  \/ pc \in {"postInstall", "postUpgrade", "supersede"}
  \/ pc \in AppliedLabels /\ cache[at].status.code = "DEPLOYED"

AppliedInv == Confirmed => Runs(at[1], Handled)

-----------------------------------------------------------------------------
(* The cluster is what the last revision says. *)

(* A namespace has one release: two could render the same resource.  Keys has *)
(* every name in every namespace, so there is one name.                      *)
OneInNamespace == \A p, q \in Keys : p[1] = q[1] => p = q

(* The cluster has nothing but what the manifest describes, or all of it.    *)
Partly(ns, m) ==
  \A x \in Resources : live[ns][x] = NoRes \/ (x \in Targets(m) /\ live[ns][x] = m)

Fully(ns, m) == Partly(ns, m) /\ \A x \in Targets(m) : live[ns][x] = m

Gone(ns, xs) == \A x \in xs : live[ns][x] = NoRes

(* What the last revision says of the cluster.                               *)
Says(k, rec) ==
  LET m == Manifest(rec.spec)
  IN  /\ Partly(k[1], m)
      /\ rec.code = "DEPLOYED" => Fully(k[1], m)
      /\ rec.code = "DELETED" => Gone(k[1], FilesToDelete(m) \ refused[k])

LastIsLive(k) ==
  /\ History(k) = {} => Gone(k[1], Resources)
  /\ \A r \in 1..MaxRev : IsLast(k, r) => Says(k, hist[k][r])

Numbered(k) == \A r \in History(k) : 1..r \subseteq History(k)

(* From the change of the cluster to its record it is the handler that knows. *)
Underway == AppliedLabels \cup {"deleting", "markDeleted"}

(* Once a handler has changed the cluster it is what its release says; an     *)
(* install under a name that has records is not among those that record.     *)
HandledIsLive ==
  pc \in AppliedLabels /\ StoreKey \notin drifted =>
    /\ at = StoreKey
    /\ (cur = NoCur => History(StoreKey) = {}) =>
         /\ Partly(at[1], Handled)
         /\ Confirmed => Fully(at[1], Handled)

(* Meanwhile an uninstall works its way through the list.                    *)
UninstallIsUnderWay ==
  pc \in {"deleting", "markDeleted"} /\ StoreKey \notin drifted =>
    LET m == Manifest(cur.rec.spec)
    IN  /\ Partly(env, m)
        /\ Gone(env, FilesToDelete(m) \ (todo \cup refused[StoreKey]))
        /\ pc = "markDeleted" => todo = {}

(* An update that failed drifts before it is recorded.                       *)
FailuresDrift ==
  pc \in {"failStatus", "failSupersede", "failRecord"} => StoreKey \in drifted

ClusterInv ==
  /\ \A k \in Keys \ drifted :
       /\ Numbered(k)
       /\ ~(pc \in Underway /\ k = StoreKey) => LastIsLive(k)
  /\ HandledIsLive
  /\ UninstallIsUnderWay
  /\ FailuresDrift

-----------------------------------------------------------------------------
(* Who touches the cluster. *)

(* Every step is one of these.                                               *)
LEMMA ClusterKinds ==
  ASSUME [Next]_vars
  PROVE  \/ UNCHANGED <<hist, live, cache, env, worker>>
         \/ UNCHANGED <<hist, live>> /\ pc' = "idle" /\ todo' = {}
         \/ \E k \in Keys : Begins(k) /\ live' = live
         \/ Install \/ Upgrade \/ RecordRelease \/ Uninstall
<1>1. CASE UserStep
  BY <1>1 DEF UserStep, CreateRelease, EditRelease, DeleteRelease, PostRollback, informer
<1>2. CASE WatchClose \/ Relist \/ WatchOpen
  BY <1>2 DEF WatchClose, Relist, WatchOpen
<1>3. CASE RollbackStep
  BY <1>3 DEF RollbackStep, RollbackLast, RollbackGet, RollbackRead, RollbackWrite, informer
<1>4. CASE UNCHANGED vars
  BY <1>4 DEF vars, worker
<1>5. CASE Crash \/ \E k \in Keys : DeleteFuncPanics(k)
  BY <1>5 DEF Crash, DeleteFuncPanics, Restart
<1>6. CASE \E k \in Keys : Begins(k)
  BY <1>6 DEF Begins, AddFunc, UpdateFuncIgnores, UpdateFunc, DeleteFunc
<1> QED
  BY <1>1, <1>2, <1>3, <1>4, <1>5, <1>6 DEF Next, WorkerStep, Deliver, Begins

(* A handler that begins has not changed the cluster yet.                    *)
LEMMA BeginsBefore ==
  ASSUME TypeInv, NEW k \in Keys, Begins(k)
  PROVE  UNCHANGED hist /\ pc' \notin AppliedLabels
BY DeliverBegins DEF Begins, AppliedLabels

-----------------------------------------------------------------------------
(* What is recorded as DEPLOYED has been applied. *)

(* From one call of the handler to the next nothing changes what it did.     *)
LEMMA AppliedKept ==
  ASSUME AppliedInv, UNCHANGED <<live, at, cur>>,
         cache'[at].spec = cache[at].spec, Confirmed' => Confirmed
  PROVE  AppliedInv'
<1>1. Handled' = Handled
  BY DEF Handled
<1>2. Runs(at[1], Handled) => Runs(at[1], Handled)'
  BY <1>1 DEF Runs
<1> QED
  BY <1>2 DEF AppliedInv

(* An install posts every resource, an upgrade creates or patches it.        *)
LEMMA CreatedRuns ==
  ASSUME TypeInv, pc = "create", CreateSucceeds(at[1], Handled),
         UNCHANGED <<at, cur, cache>>
  PROVE  Runs(at[1], Handled)'
<1>1. pc \in ReleaseLabels /\ pc \in InstallLabels
  BY DEF ReleaseLabels, Labels, InstallLabels
<1>2. cur = NoCur
  BY <1>1 DEF TypeInv, WorkerShape
<1>3. at[1] \in Namespaces /\ Handled \in Manifests /\ Targets(Handled) \subseteq Resources
  BY <1>1, HandledType, ManifestType DEF Handled
<1>4. live \in [Namespaces -> [Resources -> Manifests \cup {NoRes}]]
  BY DEF TypeInv, TypeOK, LiveTypeOK
<1>5. \A x \in Targets(Handled) : live'[at[1]][x] = Handled
  BY <1>3, <1>4 DEF CreateSucceeds, Created
<1>6. Handled # NoRes /\ Handled' = Handled
  BY <1>3, ResourceAssumption DEF Handled
<1> QED
  BY <1>2, <1>5, <1>6 DEF Runs, Targets

(* A patch carries over what the two manifests differ in, and is complete if  *)
(* the resource was what the first one says.                                 *)
LEMMA PatchedShows ==
  ASSUME NEW o \in Manifests, NEW m \in Manifests, NEW w \in Manifests
  PROVE  /\ Patched(o, m, w) \in Manifests
         /\ Shows(Patched(o, m, w), o, m)
         /\ Patched(o, m, o) = m
BY DEF Patched, Manifests, Shows

LEMMA UpdatedRuns ==
  ASSUME TypeInv, pc = "kubeUpdate", NEW left,
         UpdateSucceeds(at[1], Manifest(cur.rec.spec), Handled, left),
         UNCHANGED <<at, cur, cache>>
  PROVE  Runs(at[1], Handled)'
<1>1. pc \in ReleaseLabels /\ pc \in UpgradeLabels /\ pc # "idle"
  BY DEF ReleaseLabels, Labels, UpgradeLabels
<1>2. cur # NoCur /\ cur.rec \in Records
  BY <1>1, HeldType
<1>3. at[1] \in Namespaces /\ Handled \in Manifests /\ Targets(Handled) \subseteq Resources
  BY <1>1, HandledType, ManifestType DEF Handled
<1>4. Manifest(cur.rec.spec) \in Manifests
  BY <1>2, ManifestType DEF Records
<1>5. live \in [Namespaces -> [Resources -> Manifests \cup {NoRes}]]
  BY DEF TypeInv, TypeOK, LiveTypeOK
<1> DEFINE o == Manifest(cur.rec.spec)
           ns == at[1]
<1>6. Handled # NoRes /\ Handled' = Handled /\ NoRes \notin Manifests
  BY <1>3, ResourceAssumption DEF Handled
<1>7. ASSUME NEW x \in Targets(Handled)
      PROVE  live'[ns][x] # NoRes /\ Shows(live'[ns][x], o, Handled)
  <2>1. live'[ns][x] = IF live[ns][x] = NoRes THEN Handled
                       ELSE Patched(o, Handled, live[ns][x])
    BY <1>3, <1>5, <1>7 DEF UpdateSucceeds, Applied
  <2>2. live[ns][x] = NoRes \/ live[ns][x] \in Manifests
    BY <1>3, <1>5, <1>7
  <2>3. CASE live[ns][x] = NoRes
    BY <1>6, <2>1, <2>3 DEF Shows
  <2>4. CASE live[ns][x] \in Manifests
    BY <1>3, <1>4, <1>6, <2>1, <2>4, PatchedShows
  <2> QED
    BY <2>2, <2>3, <2>4
<1> QED
  BY <1>2, <1>6, <1>7 DEF Runs, Targets

LEMMA InstallApplies ==
  ASSUME TypeInv, AppliedInv, Install
  PROVE  AppliedInv'
<1>1. pc \in ReleaseLabels /\ pc \in InstallLabels
  BY DEF Install, PreInstall, CreateResources, PostInstall, InstallStatus,
         ReleaseLabels, Labels, InstallLabels
<1>2. at \in Keys /\ cache[at] \in Objects /\ cache \in [Keys -> Objects \cup {NoObj}]
  BY <1>1, HandledType DEF TypeInv, TypeOK
<1>3. CASE PreInstall
  BY <1>3 DEF PreInstall, Goto, Done, AppliedInv, Confirmed, AppliedLabels
<1>4. CASE CreateResources
  <2>1. CASE CreateSucceeds(at[1], Handled) /\ Goto("postInstall") /\ UNCHANGED cache
    BY <1>4, <2>1, CreatedRuns DEF CreateResources, Goto, AppliedInv
  <2>2. CASE Goto("installStatus") /\ SetCode("FAILED")
    <3>1. cache'[at].status.code = "FAILED"
      BY <1>2, <2>2 DEF SetCode, Objects, Statuses
    <3> QED
      BY <2>2, <3>1 DEF Goto, AppliedInv, Confirmed
  <2> QED
    BY <1>4, <2>1, <2>2 DEF CreateResources, Handled
<1>5. CASE PostInstall
  <2>1. Confirmed /\ Goto("installStatus") /\ live' = live
    BY <1>5 DEF PostInstall, Confirmed
  <2>2. cache'[at].spec = cache[at].spec
    BY <1>2, <1>5 DEF PostInstall, SetCode, Objects
  <2> QED
    BY <2>1, <2>2, AppliedKept DEF Goto
<1>6. CASE InstallStatus
  BY <1>6, AppliedKept DEF InstallStatus, Goto, Confirmed, AppliedLabels
<1> QED
  BY <1>3, <1>4, <1>5, <1>6 DEF Install

LEMMA UpgradeApplies ==
  ASSUME TypeInv, AppliedInv, Upgrade
  PROVE  AppliedInv'
<1>1. pc \in ReleaseLabels
  BY DEF Upgrade, PreUpgrade, KubeUpdate, PostUpgrade, Supersede, UpgradeStatus,
         FailStatus, FailSupersede, FailRecord, ReleaseLabels, Labels
<1>2. at \in Keys /\ cache[at] \in Objects /\ cache \in [Keys -> Objects \cup {NoObj}]
  BY <1>1, HandledType DEF TypeInv, TypeOK
<1>3. CASE PreUpgrade
  BY <1>3 DEF PreUpgrade, Goto, Done, AppliedInv, Confirmed, AppliedLabels
<1>4. CASE KubeUpdate
  <2>1. ASSUME NEW left, UpdateSucceeds(at[1], Manifest(cur.rec.spec), Handled, left),
               Goto("postUpgrade"), UNCHANGED cache
        PROVE  AppliedInv'
    BY <1>4, <2>1, UpdatedRuns DEF KubeUpdate, Goto, AppliedInv
  <2>2. CASE Goto("failStatus") /\ SetCode("FAILED")
    <3>1. cache'[at].status.code = "FAILED"
      BY <1>2, <2>2 DEF SetCode, Objects, Statuses
    <3> QED
      BY <2>2, <3>1 DEF Goto, AppliedInv, Confirmed
  <2> QED
    BY <1>4, <2>1, <2>2 DEF KubeUpdate, Handled
<1>5. CASE Supersede
  <2>1. Confirmed /\ Goto("upgradeStatus") /\ live' = live
    BY <1>5 DEF Supersede, Confirmed
  <2>2. cache'[at].spec = cache[at].spec
    BY <1>2, <1>5 DEF Supersede, SetCode, Objects
  <2> QED
    BY <2>1, <2>2, AppliedKept DEF Goto
<1>6. CASE PostUpgrade \/ UpgradeStatus \/ FailRecord
  <2>1. CASE pc' = "idle"
    BY <2>1 DEF AppliedInv, Confirmed, AppliedLabels
  <2> QED
    BY <1>6, <2>1, AppliedKept
       DEF PostUpgrade, UpgradeStatus, FailRecord, Goto, Done, informer, Confirmed,
           AppliedLabels
<1>7. CASE FailStatus \/ FailSupersede
  BY <1>7, AppliedKept
     DEF FailStatus, FailSupersede, Goto, informer, Confirmed, AppliedLabels
<1> QED
  BY <1>3, <1>4, <1>5, <1>6, <1>7 DEF Upgrade

LEMMA AppliedStep ==
  ASSUME TypeInv, AppliedInv, [Next]_vars
  PROVE  AppliedInv'
<1>1. CASE UNCHANGED <<hist, live, cache, env, worker>>
  BY <1>1 DEF AppliedInv, Confirmed, Runs, Handled, worker
<1>2. CASE pc' \notin AppliedLabels
  BY <1>2 DEF AppliedInv, Confirmed, AppliedLabels
<1>3. CASE RecordRelease \/ Uninstall
  BY <1>2, <1>3
     DEF RecordRelease, Uninstall, Purge, PreDelete, MarkDeleting, DeleteResource,
         PostDelete, MarkDeleted, Goto, Done, AppliedLabels
<1>4. "idle" \notin AppliedLabels
  BY DEF AppliedLabels
<1> QED
  BY <1>1, <1>2, <1>3, <1>4, ClusterKinds, BeginsBefore, InstallApplies, UpgradeApplies

(* A revision that is new is the release in hand.                            *)
LEMMA NewIsHandled ==
  ASSUME TypeInv, RecordInv, [Next]_vars, NEW k \in Keys, NEW r \in 1..MaxRev,
         r \notin History(k), r \in History(k)'
  PROVE  /\ pc \in {"record", "failRecord"}
         /\ hist'[k][r] = NewRecord
<1>1. ~UNCHANGED hist
  BY DEF History
<1>2. ASSUME NEW c \in Codes, NEW label \in UpgradeLabels \cup UninstallLabels,
             NEW next, Rewrites(c, label, next)
      PROVE  FALSE
  BY <1>2, RewritesHistory
<1>3. \A c \in {"SUPERSEDED", "DELETING", "DELETED"} :
        \A label \in UpgradeLabels \cup UninstallLabels : \A next : ~Rewrites(c, label, next)
  BY <1>2 DEF Codes
<1>4. ~Purges
  <2>1. ASSUME Purges, NEW p \in 1..MaxRev, hist' = [hist EXCEPT ![StoreKey][p] = NoRec]
        PROVE  FALSE
    BY <2>1 DEF History, TypeInv, TypeOK, HistTypeOK
  <2> QED
    BY <1>1, <2>1 DEF Purges
<1>5. Adds
  BY <1>1, <1>3, <1>4, StepKinds, StorelessKeeps, DeliverBegins
     DEF UpgradeLabels, UninstallLabels
<1>6. StoreKey \in Keys /\ NextRev \in 1..MaxRev /\ NewRecord \in Records
  BY <1>5, HeldType DEF Adds
<1> PICK s \in Keys : s = StoreKey
  BY <1>6
<1> PICK n \in 1..MaxRev : n = NextRev
  BY <1>6
<1> PICK rec \in Records : rec = NewRecord
  BY <1>6
<1>7. hist' = [hist EXCEPT ![s][n] = rec] /\ n \notin History(s)
  BY <1>1, <1>5 DEF Adds
<1>8. /\ History(s)' = History(s) \cup {n}
      /\ \A q \in Keys : q # s => History(q)' = History(q)
  BY <1>7, WrittenHistory
<1>9. k = s /\ r = n
  BY <1>8
<1>10. hist'[s][n] = rec
  <2>1. hist \in [Keys -> [1..MaxRev -> Records \cup {NoRec}]]
    BY DEF TypeInv, TypeOK, HistTypeOK
  <2> QED
    BY <1>7, <2>1
<1> QED
  BY <1>5, <1>9, <1>10 DEF Adds

LEMMA InitApplied == Init => AppliedInv
BY DEF Init, AppliedInv, Confirmed, AppliedLabels

(* What the records call DEPLOYED was in the cluster when it was recorded,   *)
(* with any number of releases, whatever fails or crashes before, and        *)
(* whoever edits or deletes the release while its handler runs.              *)
THEOREM DeployedWasApplied == Spec => RecordedIsApplied
<1>1. TypeInv /\ AppliedInv /\ [Next]_vars => AppliedInv'
  BY AppliedStep
<1>2. TypeInv /\ RecordInv /\ [Next]_vars => RecordInv'
  BY RecordStep
<1>3. ASSUME TypeInv, RecordInv, AppliedInv, [Next]_vars
      PROVE  \A k \in Keys : \A r \in 1..MaxRev :
               hist[k][r] = NoRec /\ hist'[k][r] # NoRec /\ hist'[k][r].code = "DEPLOYED"
               => Runs(at[1], Manifest(hist'[k][r].spec))
  <2> SUFFICES ASSUME NEW k \in Keys, NEW r \in 1..MaxRev,
                      hist[k][r] = NoRec, hist'[k][r] # NoRec,
                      hist'[k][r].code = "DEPLOYED"
               PROVE  Runs(at[1], Manifest(hist'[k][r].spec))
    OBVIOUS
  <2>1. pc \in {"record", "failRecord"} /\ hist'[k][r] = NewRecord
    BY <1>3, NewIsHandled DEF History
  <2>2. Confirmed
    BY <2>1 DEF NewRecord, Confirmed, AppliedLabels
  <2> QED
    BY <1>3, <2>1, <2>2 DEF AppliedInv, NewRecord, Handled
<1> QED
  BY <1>1, <1>2, <1>3, InitApplied, InitRecord, TypeInvariant, PTL
     DEF Spec, RecordedIsApplied

(* The cluster changes in three steps, the store only under the handled name. *)
LEMMA LiveTouched ==
  ASSUME [Next]_vars
  PROVE  live' = live \/ CreateResources \/ KubeUpdate \/ DeleteResource
<1>1. CASE Install \/ Upgrade \/ RecordRelease
  BY <1>1
     DEF Install, PreInstall, PostInstall, InstallStatus, Upgrade, PreUpgrade, PostUpgrade,
         Supersede, UpgradeStatus, FailStatus, FailSupersede, FailRecord, RecordRelease
<1>2. CASE Uninstall
  BY <1>2 DEF Uninstall, Purge, PreDelete, MarkDeleting, PostDelete, MarkDeleted
<1> QED
  BY <1>1, <1>2, ClusterKinds

LEMMA StoreTouched ==
  ASSUME TypeInv, [Next]_vars, NEW k \in Keys, k # StoreKey
  PROVE  hist'[k] = hist[k]
<1>1. hist \in [Keys -> [1..MaxRev -> Records \cup {NoRec}]]
  BY DEF TypeInv, TypeOK, HistTypeOK
<1>2. \A r, rec : hist' = [hist EXCEPT ![StoreKey][r] = rec] => hist'[k] = hist[k]
  BY <1>1
<1> QED
  BY <1>2, StepKinds, StorelessKeeps, DeliverBegins DEF Rewrites, Adds, Purges

-----------------------------------------------------------------------------
(* The steps that leave the records and the cluster alone. *)

(* A release whose records and cluster stay as they are, and of whose         *)
(* resources no fewer are refused.                                           *)
LEMMA LastIsLiveKept ==
  ASSUME NEW k, hist'[k] = hist[k], live'[k[1]] = live[k[1]], refused[k] \subseteq refused'[k]
  PROVE  /\ Numbered(k) => Numbered(k)'
         /\ LastIsLive(k) => LastIsLive(k)'
<1>1. History(k)' = History(k) /\ \A r \in 1..MaxRev : IsLast(k, r)' <=> IsLast(k, r)
  BY DEF History, IsLast
<1>2. ASSUME NEW rec, Says(k, rec)
      PROVE  Says(k, rec)'
  BY <1>2 DEF Says, Partly, Fully, Gone, FilesToDelete, Targets, Manifest
<1>3. \A r \in 1..MaxRev : Says(k, hist[k][r]) => Says(k, hist[k][r])'
  BY <1>2 DEF Says, Partly, Fully, Gone
<1>4. Gone(k[1], Resources) => Gone(k[1], Resources)'
  BY DEF Gone
<1> QED
  BY <1>1, <1>3, <1>4 DEF Numbered, LastIsLive

(* What drifted stays so; and resources leave the list of those refused only *)
(* when an uninstall starts over.                                            *)
LEMMA HistoryGrows ==
  ASSUME HistoryNext
  PROVE  /\ drifted \subseteq drifted'
         /\ \A k \in Keys : k # StoreKey => refused'[k] = refused[k]
         /\ ~StartsOver => \A k \in Keys : refused[k] \subseteq refused'[k]
         /\ ~StartsOver /\ Refusing = {} => \A k \in Keys : refused'[k] = refused[k]
BY DEF HistoryNext

(* No handler is between the cluster and its record.                         *)
LEMMA SameCluster ==
  ASSUME ClusterInv, HistoryNext, UNCHANGED <<hist, live>>,
         pc \notin Underway, pc' \notin Underway
  PROVE  ClusterInv'
<1>1. ~StartsOver /\ drifted \subseteq drifted'
  BY HistoryGrows DEF StartsOver, Underway
<1>2. ASSUME NEW k \in Keys \ drifted'
      PROVE  Numbered(k)' /\ LastIsLive(k)'
  <2>1. Numbered(k) /\ LastIsLive(k)
    BY <1>1 DEF ClusterInv
  <2> QED
    BY <1>1, <2>1, HistoryGrows, LastIsLiveKept
<1>3. HandledIsLive' /\ UninstallIsUnderWay' /\ FailuresDrift'
  BY DEF HandledIsLive, UninstallIsUnderWay, FailuresDrift, Underway, AppliedLabels
<1> QED
  BY <1>2, <1>3 DEF ClusterInv

(* The step is not the worker's.                                             *)
LEMMA SameAll ==
  ASSUME TypeInv, ClusterInv, UNCHANGED <<hist, live, cache, env, worker>>,
         drifted \subseteq drifted', \A k \in Keys : refused'[k] = refused[k]
  PROVE  ClusterInv'
<1>1. UNCHANGED <<pc, at, cur, todo>> /\ StoreKey' = StoreKey /\ Handled' = Handled
  BY DEF worker, StoreKey, Handled
<1>2. ASSUME NEW k \in Keys \ drifted'
      PROVE  Numbered(k)' /\ (~(pc \in Underway /\ k = StoreKey)' => LastIsLive(k)')
  BY <1>1, <1>2, LastIsLiveKept DEF ClusterInv
<1>3. HandledIsLive' /\ FailuresDrift'
  BY <1>1
     DEF ClusterInv, HandledIsLive, FailuresDrift, Confirmed, Partly, Fully, Targets, History
<1>4. UninstallIsUnderWay'
  <2>1. pc # "idle" => refused'[StoreKey] = refused[StoreKey]
    BY HeldType
  <2> QED
    BY <1>1, <2>1
       DEF ClusterInv, UninstallIsUnderWay, Partly, Gone, FilesToDelete, Targets, Manifest
<1> QED
  BY <1>2, <1>3, <1>4 DEF ClusterInv

(* What an uninstall holds.                                                  *)
LEMMA UninstallHolds ==
  ASSUME TypeInv, LogInv, pc \in UninstallLabels
  PROVE  /\ StoreKey \in Keys /\ StoreKey[1] = env
         /\ cur.rev \in 1..MaxRev /\ cur.rec \in Records
         /\ IsLast(StoreKey, cur.rev) /\ cur.rev \in History(StoreKey)
         /\ hist[StoreKey][cur.rev].spec = cur.rec.spec
<1>1. pc # "idle"
  BY DEF UninstallLabels
<1>2. StoreKey \in Keys /\ cur.rev \in 1..MaxRev /\ cur.rec \in Records
  BY <1>1, HeldType
<1>3. IsLast(StoreKey, cur.rev) /\ cur.rev \in History(StoreKey)
  BY DEF LogInv, HoldsNewest, IsLast
<1> QED
  BY <1>2, <1>3 DEF LogInv, RecordInv, HoldsStored, StoreKey

(* It is enough to look at the last revision.                                *)
LEMMA LastSays ==
  ASSUME NEW k \in Keys, NEW r \in 1..MaxRev, NEW rec \in Records, hist'[k][r] = rec,
         r \in History(k)', \A q \in History(k)' : q <= r, Says(k, rec)'
  PROVE  LastIsLive(k)'
<1>1. \A q \in 1..MaxRev : IsLast(k, q)' => q = r
  BY DEF IsLast, History
<1>2. Says(k, hist[k][r])'
  BY DEF Says
<1> QED
  BY <1>1, <1>2 DEF LastIsLive

(* The handler ends, or the process does, and the last calls changed nothing. *)
LEMMA EndedLive ==
  ASSUME TypeInv, LogInv, ClusterInv, HistoryNext,
         UNCHANGED <<hist, live>>, pc' = "idle", todo' = {}
  PROVE  ClusterInv'
<1>1. /\ ~StartsOver /\ drifted \subseteq drifted' /\ pc' \notin Underway
      /\ \A k \in Keys : refused[k] \subseteq refused'[k]
  BY HistoryGrows DEF StartsOver, Underway, AppliedLabels
<1>2. HandledIsLive' /\ UninstallIsUnderWay' /\ FailuresDrift'
  BY <1>1 DEF HandledIsLive, UninstallIsUnderWay, FailuresDrift, Underway, AppliedLabels
<1>3. ASSUME NEW k \in Keys \ drifted'
      PROVE  Numbered(k)' /\ LastIsLive(k)'
  <2>1. Numbered(k)'
    BY <1>1, <1>3, LastIsLiveKept DEF ClusterInv
  <2>2. CASE ~(pc \in Underway /\ k = StoreKey)
    BY <1>1, <1>3, <2>2, LastIsLiveKept DEF ClusterInv
  <2>3. CASE pc \in AppliedLabels /\ k = StoreKey
    BY <2>3 DEF HistoryNext, Drifting, EndsUnrecorded
  <2>4. CASE pc \in {"deleting", "markDeleted"} /\ k = StoreKey
    <3> PICK r \in 1..MaxRev : r = cur.rev
      BY <2>4, UninstallHolds DEF UninstallLabels
    <3>0. hist[k][r] \in Records
      <4>1. hist[k][r] # NoRec
        BY <2>4, UninstallHolds DEF UninstallLabels, History
      <4>2. hist \in [Keys -> [1..MaxRev -> Records \cup {NoRec}]]
        BY DEF TypeInv, TypeOK, HistTypeOK
      <4> QED
        BY <4>1, <4>2
    <3> PICK rec \in Records : rec = hist[k][r]
      BY <3>0
    <3> DEFINE m == Manifest(rec.spec)
    <3>1. /\ IsLast(k, r) /\ rec.spec = cur.rec.spec /\ k[1] = env
      BY <2>4, UninstallHolds DEF UninstallLabels
    <3>2. Partly(k[1], m) /\ Gone(k[1], FilesToDelete(m) \ (todo \cup refused[k]))
      BY <1>1, <2>4, <3>1 DEF ClusterInv, UninstallIsUnderWay
    <3>3. rec.code \in {"DELETING", "DELETED"}
      BY <2>4 DEF HistoryNext, Drifting, UninstallsUnrecorded
    <3>4. \A x \in todo : live[env][x] # NoRes => x \in refused'[k]
      <4>1. CASE pc = "deleting"
        <5>1. refused'[k] = refused[k] \cup {x \in todo \ todo' : live'[env][x] # NoRes}
          BY <1>1, <2>4, <4>1 DEF HistoryNext, Refusing
        <5> QED
          BY <5>1
      <4>2. CASE pc = "markDeleted"
        BY <1>1, <2>4, <4>2 DEF ClusterInv, UninstallIsUnderWay
      <4> QED
        BY <2>4, <4>1, <4>2
    <3>5. Gone(k[1], FilesToDelete(m) \ refused'[k])
      BY <1>1, <3>1, <3>2, <3>4 DEF Gone
    <3>6. Says(k, rec)'
      BY <3>2, <3>3, <3>5 DEF Says, Partly, Gone, FilesToDelete, Targets, Manifest
    <3> QED
      BY <2>1, <3>1, <3>6, LastSays DEF History, IsLast
  <2> QED
    BY <2>2, <2>3, <2>4 DEF Underway
<1> QED
  BY <1>1, <1>2, <1>3 DEF ClusterInv

-----------------------------------------------------------------------------
(* The steps of a handler. *)

(* They touch no release but the handled one, and leave the other one of a   *)
(* change that went astray drifted.                                          *)
LEMMA OthersAreLeft ==
  ASSUME OneInNamespace, TypeInv, HistoryNext, [Next]_vars, pc # "idle",
         NEW k \in Keys, k # StoreKey, k \notin drifted'
  PROVE  hist'[k] = hist[k] /\ live'[k[1]] = live[k[1]] /\ refused'[k] = refused[k]
<1>1. StoreKey \in Keys /\ at \in Keys
  BY HeldType DEF TypeInv, WorkerShape
<1>2. k[1] # env
  BY <1>1 DEF OneInNamespace, StoreKey
<1>3. refused'[k] = refused[k]
  BY HistoryGrows
<1>4. hist'[k] = hist[k]
  BY <1>1, StoreTouched
<1>5. live'[k[1]] = live[k[1]]
  <2>1. k \in Namespaces \X Names /\ k[1] \in Namespaces
    BY DEF Keys
  <2>2. CASE live' = live
    BY <2>2
  <2>3. CASE DeleteResource
    BY <1>2, <2>1, <2>3 DEF DeleteResource, Deleted, TypeInv, TypeOK, LiveTypeOK
  <2>4. CASE CreateResources \/ KubeUpdate
    <3>1. Changes
      BY <2>4 DEF Changes, CreateResources, KubeUpdate, Goto, AppliedLabels
    <3>2. k # at
      BY <1>1, <3>1 DEF HistoryNext, Drifting, ChangesAstray
    <3>3. k[1] # at[1]
      BY <1>1, <3>2 DEF OneInNamespace
    <3> QED
      BY <2>1, <2>4, <3>3
         DEF CreateResources, KubeUpdate, CreateSucceeds, CreateFails, Created,
             UpdateSucceeds, UpdateFails, UpdateTimesOut, Applied,
             TypeInv, TypeOK, LiveTypeOK
  <2> QED
    BY <2>2, <2>3, <2>4, LiveTouched
<1> QED
  BY <1>3, <1>4, <1>5

(* So it is enough to look at the handled one.                               *)
LEMMA HandledDecides ==
  ASSUME OneInNamespace, TypeInv, ClusterInv, HistoryNext, [Next]_vars, pc # "idle",
         NEW s \in Keys, s = StoreKey,
         s \notin drifted' => Numbered(s)' /\ (pc' \notin Underway => LastIsLive(s)'),
         pc' \in Underway => StoreKey' = s,
         HandledIsLive', UninstallIsUnderWay', FailuresDrift'
  PROVE  ClusterInv'
<1>1. ASSUME NEW k \in Keys \ drifted'
      PROVE  Numbered(k)' /\ (~(pc \in Underway /\ k = StoreKey)' => LastIsLive(k)')
  <2>1. CASE k = s
    BY <1>1, <2>1
  <2>2. CASE k # s
    <3>1. k \notin drifted
      BY <1>1, HistoryGrows
    <3>2. Numbered(k) /\ LastIsLive(k)
      BY <2>2, <3>1 DEF ClusterInv
    <3> QED
      BY <1>1, <2>2, <3>2, OthersAreLeft, LastIsLiveKept
  <2> QED
    BY <2>1, <2>2
<1> QED
  BY <1>1 DEF ClusterInv

(* A handler that has changed the cluster goes on.                           *)
LEMMA HandledKept ==
  ASSUME OneInNamespace, TypeInv, ClusterInv, HistoryNext, [Next]_vars,
         pc \in AppliedLabels,
         pc' \in {"installStatus", "record", "supersede", "upgradeStatus"},
         UNCHANGED <<live, at, cur, env>>, History(StoreKey)' = History(StoreKey),
         cache'[at].spec = cache[at].spec, Confirmed' => Confirmed
  PROVE  ClusterInv'
<1>1. Handled' = Handled /\ StoreKey' = StoreKey /\ pc # "idle"
  BY DEF Handled, StoreKey, AppliedLabels
<1> PICK s \in Keys : s = StoreKey
  BY <1>1, HeldType
<1>2. HandledIsLive' /\ UninstallIsUnderWay' /\ FailuresDrift'
  BY <1>1, HistoryGrows
     DEF ClusterInv, HandledIsLive, UninstallIsUnderWay, FailuresDrift, Partly, Fully, Targets
<1>3. s \notin drifted' => Numbered(s)'
  BY <1>1, HistoryGrows DEF ClusterInv, Numbered
<1>4. pc' \in Underway
  BY DEF Underway, AppliedLabels
<1> QED
  BY <1>1, <1>2, <1>3, <1>4, HandledDecides

-----------------------------------------------------------------------------
(* The steps that change the cluster. *)

(* A change of the cluster is made for the release whose store is at hand, or *)
(* both drift.                                                               *)
LEMMA ChangesOwn ==
  ASSUME TypeInv, HistoryNext, Changes, pc # "idle", StoreKey \notin drifted'
  PROVE  at = StoreKey /\ ~UpdateFalters
BY HeldType DEF HistoryNext, Drifting, ChangesAstray

(* The first install of a release finds an empty cluster.                    *)
LEMMA CreateLive ==
  ASSUME OneInNamespace, TypeInv, ClusterInv, HistoryNext, [Next]_vars, CreateResources
  PROVE  ClusterInv'
<1>1. /\ pc = "create" /\ pc \in ReleaseLabels /\ pc \in InstallLabels /\ pc # "idle"
      /\ pc' \in {"postInstall", "installStatus"}
      /\ UNCHANGED <<at, cur, env, hist>>
  BY DEF CreateResources, Goto, ReleaseLabels, Labels, InstallLabels
<1>2. /\ cur = NoCur /\ cache[at] \in Objects /\ cache \in [Keys -> Objects \cup {NoObj}]
      /\ at \in Keys /\ at[1] \in Namespaces
      /\ Handled \in Manifests /\ Targets(Handled) \subseteq Resources
  BY <1>1, HandledType, ManifestType DEF TypeInv, TypeOK, WorkerShape, Handled
<1> PICK s \in Keys : s = StoreKey
  BY <1>1, HeldType
<1>3. live \in [Namespaces -> [Resources -> Manifests \cup {NoRes}]]
  BY DEF TypeInv, TypeOK, LiveTypeOK
<1>4. cache'[at].spec = cache[at].spec
  BY <1>2 DEF CreateResources, SetCode, Objects
<1>5. Handled' = Handled /\ StoreKey' = StoreKey /\ \A k : History(k)' = History(k)
  BY <1>1, <1>4 DEF Handled, StoreKey, History
<1>6. Changes
  BY <1>1 DEF Changes, AppliedLabels
<1>7. ASSUME s \notin drifted', History(s) = {}
      PROVE  /\ Partly(at[1], Handled)'
             /\ Confirmed' => Fully(at[1], Handled)'
  <2>1. Gone(at[1], Resources)
    <3>1. at = s
      BY <1>1, <1>6, <1>7, ChangesOwn
    <3>2. LastIsLive(s)
      BY <1>1, <1>7, HistoryGrows DEF ClusterInv, Underway, AppliedLabels
    <3> QED
      BY <1>7, <3>1, <3>2 DEF LastIsLive
  <2>2. CASE CreateSucceeds(at[1], Handled)
    <3>1. \A x \in Resources : live'[at[1]][x] = IF x \in Targets(Handled) THEN Handled
                                                ELSE NoRes
      BY <1>2, <1>3, <2>1, <2>2 DEF CreateSucceeds, Created, Gone
    <3> QED
      BY <1>1, <1>2, <1>5, <3>1 DEF Partly, Fully, Targets
  <2>3. CASE /\ CreateFails(at[1], Handled)
             /\ Goto("installStatus") /\ SetCode("FAILED")
    <3>1. \A x \in Resources : \/ live'[at[1]][x] = NoRes
                               \/ x \in Targets(Handled) /\ live'[at[1]][x] = Handled
      BY <1>2, <1>3, <2>1, <2>3 DEF CreateFails, Created, Absent, Gone
    <3>2. cache'[at].status.code = "FAILED"
      BY <1>2, <2>3 DEF SetCode, Objects, Statuses
    <3>3. ~Confirmed'
      BY <1>1, <2>3, <3>2 DEF Confirmed, Goto
    <3> QED
      BY <1>1, <1>5, <3>1, <3>3 DEF Partly, Targets
  <2> QED
    BY <2>2, <2>3 DEF CreateResources, Handled
<1>8. HandledIsLive'
  BY <1>1, <1>2, <1>5, <1>6, <1>7, ChangesOwn DEF HandledIsLive
<1>9. s \notin drifted' => Numbered(s)'
  BY <1>5, HistoryGrows DEF ClusterInv, Numbered
<1>10. UninstallIsUnderWay' /\ FailuresDrift' /\ pc' \in Underway
  BY <1>1 DEF UninstallIsUnderWay, FailuresDrift, Underway, AppliedLabels
<1> QED
  BY <1>1, <1>5, <1>8, <1>9, <1>10, HandledDecides

(* An upgrade finds the cluster as the revision says which it patches.       *)
LEMMA UpdateLive ==
  ASSUME OneInNamespace, TypeInv, LogInv, ClusterInv, HistoryNext, [Next]_vars, KubeUpdate
  PROVE  ClusterInv'
<1> DEFINE o == Manifest(cur.rec.spec)
           ns == at[1]
<1>1. /\ pc = "kubeUpdate" /\ pc \in ReleaseLabels /\ pc \in UpgradeLabels /\ pc # "idle"
      /\ pc' \in {"postUpgrade", "failStatus"}
      /\ UNCHANGED <<at, cur, env, hist>>
  BY DEF KubeUpdate, Goto, ReleaseLabels, Labels, UpgradeLabels
<1>2. /\ at \in Keys /\ ns \in Namespaces
      /\ Handled \in Manifests /\ Targets(Handled) \subseteq Resources
  BY <1>1, HandledType, ManifestType DEF Handled
<1>3. cur.rec \in Records /\ cur.rev \in 1..MaxRev /\ cur # NoCur
  BY <1>1, HeldType
<1> PICK s \in Keys : s = StoreKey
  BY <1>1, HeldType
<1>4. o \in Manifests
  BY <1>3, ManifestType DEF Records
<1>5. /\ live \in [Namespaces -> [Resources -> Manifests \cup {NoRes}]]
      /\ NoRes \notin Manifests
  BY ResourceAssumption DEF TypeInv, TypeOK, LiveTypeOK
<1>6. Changes /\ StoreKey' = StoreKey /\ \A k : History(k)' = History(k)
  BY <1>1 DEF Changes, AppliedLabels, StoreKey, History
<1>7. ASSUME s \notin drifted'
      PROVE  /\ pc' = "postUpgrade" /\ Handled' = Handled /\ at = s
             /\ \A x \in Resources :
                  live'[ns][x] = IF x \in Targets(Handled) THEN Handled ELSE NoRes
  <2>1. at = s /\ pc' = "postUpgrade" /\ ~(used'["kube"] # used["kube"])
    BY <1>1, <1>6, <1>7, ChangesOwn DEF UpdateFalters
  <2>2. ~Spend("kube")
    <3>1. used["kube"] \in Nat /\ "kube" \in DOMAIN used
      BY DEF TypeInv, TypeOK, Kinds
    <3> QED
      BY <2>1, <3>1 DEF Spend
  <2>3. UpdateSucceeds(ns, o, Handled, {}) /\ UNCHANGED cache
    BY <2>1, <2>2 DEF KubeUpdate, Handled, Goto
  <2>4. Partly(ns, o)
    <3>1. IsLast(s, cur.rev)
      BY <1>1 DEF LogInv, HoldsNewest
    <3>2. hist[s][cur.rev].spec = cur.rec.spec
      BY <1>1, <3>1 DEF LogInv, RecordInv, HoldsStored, IsLast
    <3>3. LastIsLive(s)
      BY <1>1, <1>7, HistoryGrows DEF ClusterInv, Underway, AppliedLabels
    <3> QED
      BY <1>3, <2>1, <3>1, <3>2, <3>3 DEF LastIsLive, Says
  <2>5. ASSUME NEW x \in Resources
        PROVE  live'[ns][x] = IF x \in Targets(Handled) THEN Handled ELSE NoRes
    <3>1. live'[ns][x] = IF x \in Targets(Handled)
                         THEN IF live[ns][x] = NoRes THEN Handled
                              ELSE Patched(o, Handled, live[ns][x])
                         ELSE IF x \in Targets(o) THEN NoRes ELSE live[ns][x]
      BY <1>2, <1>5, <2>3 DEF UpdateSucceeds, Applied
    <3>2. live[ns][x] = NoRes \/ (x \in Targets(o) /\ live[ns][x] = o)
      BY <2>4 DEF Partly
    <3>3. Patched(o, Handled, o) = Handled
      BY <1>2, <1>4, PatchedShows
    <3> QED
      BY <3>1, <3>2, <3>3
  <2> QED
    BY <1>1, <2>1, <2>3, <2>5 DEF Handled
<1>8. HandledIsLive'
  BY <1>1, <1>2, <1>6, <1>7 DEF HandledIsLive, Partly, Fully, Targets
<1>9. s \notin drifted' => Numbered(s)'
  BY <1>6, HistoryGrows DEF ClusterInv, Numbered
<1>10. UninstallIsUnderWay' /\ FailuresDrift' /\ pc' \in Underway
  BY <1>1, <1>6, <1>7 DEF UninstallIsUnderWay, FailuresDrift, Underway, AppliedLabels
<1> QED
  BY <1>1, <1>6, <1>8, <1>9, <1>10, HandledDecides

-----------------------------------------------------------------------------
(* The steps that change the records. *)

(* The new record is the newest, and describes what was done.                *)
LEMMA RecordLive ==
  ASSUME OneInNamespace, TypeInv, LogInv, ClusterInv, HistoryNext, [Next]_vars,
         RecordRelease
  PROVE  ClusterInv'
<1>1. /\ pc = "record" /\ pc' = "idle" /\ pc # "idle" /\ live' = live /\ pc \in AppliedLabels
      /\ todo' = {}
  BY DEF RecordRelease, Done, AppliedLabels
<1>2. CASE hist' = hist
  BY <1>1, <1>2, EndedLive
<1>3. CASE hist' # hist
  <2> PICK s \in Keys : s = StoreKey
    BY <1>1, HeldType
  <2> PICK n \in 1..MaxRev : n = NextRev
    BY <1>1, HeldType
  <2> PICK rec \in Records : rec = NewRecord
    BY <1>1, HeldType
  <2>1. hist' = [hist EXCEPT ![s][n] = rec] /\ n \notin History(s)
    BY <1>3, RecordSteps DEF Adds
  <2>2. History(s)' = History(s) \cup {n} /\ hist'[s][n] = rec
    <3>1. History(s)' = History(s) \cup {n}
      BY <2>1, WrittenHistory
    <3>2. hist'[s][n] = rec
      BY <2>1 DEF TypeInv, TypeOK, HistTypeOK
    <3> QED
      BY <3>1, <3>2
  <2>3. ASSUME s \notin drifted'
        PROVE  Numbered(s)' /\ LastIsLive(s)'
    <3>1. s \notin drifted /\ Numbered(s)
      BY <2>3, HistoryGrows DEF ClusterInv
    <3>2. cur = NoCur => n = 1 /\ History(s) = {}
      <4> SUFFICES ASSUME cur = NoCur PROVE n = 1 /\ History(s) = {}
        OBVIOUS
      <4>1. n = 1
        BY DEF NoCur, NextRev
      <4>2. ASSUME NEW q \in History(s) PROVE FALSE
        BY <2>1, <3>1, <4>1 DEF Numbered, History
      <4> QED
        BY <4>1, <4>2
    <3>3. cur # NoCur => IsLast(s, n - 1) /\ n - 1 \in 1..MaxRev
      <4> SUFFICES ASSUME cur # NoCur PROVE IsLast(s, n - 1) /\ n - 1 \in 1..MaxRev
        OBVIOUS
      <4>1. cur.rev \in 1..MaxRev /\ cur.rev = n - 1
        BY <1>1, HeldType DEF NextRev
      <4>2. IsLast(s, cur.rev)
        BY <1>1, <2>1 DEF LogInv, HoldsNewest, IsLast
      <4> QED
        BY <4>1, <4>2
    <3>4. History(s) = 1..(n - 1)
      <4>1. CASE cur = NoCur
        BY <3>2, <4>1
      <4>2. CASE cur # NoCur
        BY <3>1, <3>3, <4>2 DEF Numbered, IsLast, History
      <4> QED
        BY <4>1, <4>2
    <3>5. History(s)' = 1..n
      BY <2>2, <3>4
    <3>6. /\ at = s /\ Partly(at[1], Handled)
          /\ rec.code = "DEPLOYED" => Fully(at[1], Handled)
          /\ rec.code \in {"DEPLOYED", "FAILED"}
      <4>1. rec.code = cache[at].status.code
        BY DEF NewRecord
      <4> QED
        BY <1>1, <3>1, <3>2, <4>1
           DEF ClusterInv, HandledIsLive, Confirmed, LogInv, RecordInv, OutcomeDecided,
               DecidedLabels
    <3>7. Handled = Manifest(rec.spec)
      BY DEF Handled, NewRecord
    <3>8. Says(s, rec)'
      BY <1>1, <3>6, <3>7 DEF Says, Partly, Fully, Targets, Manifest
    <3> QED
      BY <2>2, <3>5, <3>8, LastSays DEF Numbered
  <2> QED
    BY <1>1, <2>3, HandledDecides
       DEF HandledIsLive, UninstallIsUnderWay, FailuresDrift, Underway, AppliedLabels
<1> QED
  BY <1>2, <1>3

(* The record an uninstall holds gets another status.                        *)
Marks(code) ==
  hist' = [hist EXCEPT ![StoreKey][cur.rev] = [cur.rec EXCEPT !.code = code]]

LEMMA UninstallMarks ==
  ASSUME TypeInv, LogInv, pc \in UninstallLabels, NEW s \in Keys, s = StoreKey,
         NEW code \in {"DELETING", "DELETED"}, live' = live, Marks(code), Numbered(s),
         Partly(env, Manifest(cur.rec.spec)),
         code = "DELETED" =>
           Gone(env, FilesToDelete(Manifest(cur.rec.spec)) \ refused'[s])
  PROVE  Numbered(s)' /\ LastIsLive(s)'
<1>1. [cur.rec EXCEPT !.code = code] \in Records
  BY UninstallHolds DEF Records, Codes
<1> PICK rec \in Records : rec = [cur.rec EXCEPT !.code = code]
  BY <1>1
<1> PICK r \in 1..MaxRev : r = cur.rev
  BY UninstallHolds
<1>2. rec.spec = cur.rec.spec /\ rec.code = code
  BY UninstallHolds DEF Records
<1>3. IsLast(s, r) /\ s[1] = env
  BY UninstallHolds
<1>4. hist' = [hist EXCEPT ![s][r] = rec]
  BY DEF Marks
<1>5. History(s)' = History(s) /\ hist'[s][r] = rec
  <2>1. History(s)' = History(s) \cup {r}
    BY <1>4, WrittenHistory
  <2>2. hist'[s][r] = rec
    BY <1>4 DEF TypeInv, TypeOK, HistTypeOK
  <2> QED
    BY <1>3, <2>1, <2>2 DEF IsLast
<1>6. Says(s, rec)'
  BY <1>2, <1>3 DEF Says, Partly, Gone, FilesToDelete, Targets, Manifest
<1>7. Numbered(s)'
  BY <1>5 DEF Numbered
<1> QED
  BY <1>3, <1>5, <1>6, <1>7, LastSays DEF IsLast

LEMMA MarkDeletingLive ==
  ASSUME OneInNamespace, TypeInv, LogInv, ClusterInv, HistoryNext, [Next]_vars,
         MarkDeleting
  PROVE  ClusterInv'
<1>1. /\ pc = "markDeleting" /\ pc \in UninstallLabels /\ pc \notin Underway
      /\ pc # "idle" /\ live' = live /\ env' = env
  BY DEF MarkDeleting, UninstallLabels, Underway, AppliedLabels
<1> PICK s \in Keys : s = StoreKey
  BY <1>1, UninstallHolds
<1>2. s \notin drifted' => /\ Numbered(s) /\ LastIsLive(s)
                          /\ Partly(env, Manifest(cur.rec.spec))
  <2> SUFFICES ASSUME s \notin drifted'
               PROVE  /\ Numbered(s) /\ LastIsLive(s)
                      /\ Partly(env, Manifest(cur.rec.spec))
    OBVIOUS
  <2>1. Numbered(s) /\ LastIsLive(s)
    BY <1>1, HistoryGrows DEF ClusterInv
  <2>2. Says(s, hist[s][cur.rev])
    BY <1>1, <2>1, UninstallHolds DEF LastIsLive
  <2> QED
    BY <1>1, <2>1, <2>2, UninstallHolds DEF Says, Manifest
<1>3. hist' = hist \/ Marks("DELETING")
  BY DEF MarkDeleting, Deleting, Rewrite, StoreUpdate, Marks
<1>4. CASE pc' = "idle"
  <2>1. CASE hist' = hist
    <3>1. todo' = {}
      BY <1>4 DEF MarkDeleting, Done
    <3> QED
      BY <1>1, <1>4, <2>1, <3>1, EndedLive
  <2>2. CASE Marks("DELETING")
    <3>1. s \notin drifted' => Numbered(s)' /\ LastIsLive(s)'
      BY <1>1, <1>2, <2>2, UninstallMarks
    <3> QED
      BY <1>1, <1>4, <3>1, HandledDecides
         DEF HandledIsLive, UninstallIsUnderWay, FailuresDrift, Underway, AppliedLabels
  <2> QED
    BY <1>3, <2>1, <2>2
<1>5. CASE /\ pc' = "deleting" /\ UNCHANGED <<at, cur>>
           /\ todo' = FilesToDelete(Manifest(cur.rec.spec))
  <2>1. StoreKey' = s
    BY <1>1, <1>5 DEF StoreKey
  <2>2. s \notin drifted' => Numbered(s)'
    <3>1. CASE hist' = hist
      BY <1>2, <3>1 DEF Numbered, History
    <3>2. CASE Marks("DELETING")
      BY <1>1, <1>2, <3>2, UninstallMarks
    <3> QED
      BY <1>3, <3>1, <3>2
  <2>3. UninstallIsUnderWay'
    BY <1>1, <1>2, <1>5, <2>1
       DEF UninstallIsUnderWay, Partly, Gone, FilesToDelete, Targets, Manifest
  <2>4. HandledIsLive' /\ FailuresDrift' /\ pc' \in Underway
    BY <1>5 DEF HandledIsLive, FailuresDrift, Underway, AppliedLabels
  <2> QED
    BY <1>1, <2>1, <2>2, <2>3, <2>4, HandledDecides
<1> QED
  BY <1>4, <1>5 DEF MarkDeleting, Done

(* What was not deleted was refused.                                         *)
LEMMA DeleteLive ==
  ASSUME OneInNamespace, TypeInv, LogInv, ClusterInv, HistoryNext, [Next]_vars,
         DeleteResource
  PROVE  ClusterInv'
<1> DEFINE m == Manifest(cur.rec.spec)
<1>1. /\ pc = "deleting" /\ pc \in UninstallLabels /\ pc # "idle"
      /\ UNCHANGED <<pc, at, cur, hist, env>>
  BY DEF DeleteResource, UninstallLabels
<1> PICK s \in Keys : s = StoreKey
  BY <1>1, UninstallHolds
<1>2. /\ live \in [Namespaces -> [Resources -> Manifests \cup {NoRes}]]
      /\ todo \subseteq Resources /\ env \in Namespaces
  BY <1>1 DEF TypeInv, TypeOK, LiveTypeOK, WorkerShape
<1>3. PICK x \in todo :
        /\ todo' = todo \ {x}
        /\ \A y \in Resources :
             live'[env][y] = IF y = x /\ live' # live THEN NoRes ELSE live[env][y]
  BY <1>2 DEF DeleteResource, Deleted
<1>4. StoreKey' = s /\ m' = m /\ History(s)' = History(s) /\ pc' \in Underway
  BY <1>1 DEF StoreKey, History, Manifest, Underway
<1>5. ASSUME s \notin drifted'
      PROVE  /\ Partly(env, m)' /\ Gone(env, FilesToDelete(m) \ (todo \cup refused[s]))'
             /\ Numbered(s)'
  <2>1. /\ Partly(env, m) /\ Gone(env, FilesToDelete(m) \ (todo \cup refused[s]))
        /\ Numbered(s)
    BY <1>1, <1>5, HistoryGrows DEF ClusterInv, UninstallIsUnderWay
  <2>2. refused'[s] = refused[s] \cup {y \in todo \ todo' : live'[env][y] # NoRes}
    BY <1>1 DEF HistoryNext, StartsOver, Refusing
  <2>3. Partly(env, m)'
    BY <1>1, <1>3, <1>4, <2>1 DEF Partly, Targets
  <2>4. \A y \in Resources : y \in FilesToDelete(m) /\ y \notin todo' \cup refused'[s] =>
          live'[env][y] = NoRes
    BY <1>3, <2>1, <2>2 DEF Gone
  <2>5. FilesToDelete(m) \subseteq Resources
    BY <1>1, UninstallHolds, ManifestType DEF FilesToDelete, Records
  <2>6. Gone(env, FilesToDelete(m) \ (todo \cup refused[s]))'
    BY <1>1, <1>4, <2>4, <2>5 DEF Gone, FilesToDelete, Targets
  <2> QED
    BY <1>4, <2>1, <2>3, <2>6 DEF Numbered
<1>6. UninstallIsUnderWay'
  BY <1>1, <1>4, <1>5 DEF UninstallIsUnderWay
<1> QED
  BY <1>1, <1>4, <1>5, <1>6, HandledDecides
     DEF HandledIsLive, FailuresDrift, AppliedLabels

LEMMA PostDeleteLive ==
  ASSUME OneInNamespace, TypeInv, LogInv, ClusterInv, HistoryNext, [Next]_vars, PostDelete
  PROVE  ClusterInv'
<1>1. /\ pc = "deleting" /\ pc \in UninstallLabels /\ pc # "idle" /\ pc' = "markDeleted"
      /\ todo = {} /\ UNCHANGED <<hist, live, env, at, cur, todo>>
  BY DEF PostDelete, UninstallLabels, Goto
<1> PICK s \in Keys : s = StoreKey
  BY <1>1, UninstallHolds
<1>2. StoreKey' = s /\ History(s)' = History(s) /\ pc' \in Underway
  BY <1>1 DEF StoreKey, History, Underway
<1>3. refused'[s] = refused[s]
  BY <1>1, HistoryGrows DEF StartsOver, Refusing
<1>4. UninstallIsUnderWay'
  BY <1>1, <1>2, <1>3, HistoryGrows
     DEF ClusterInv, UninstallIsUnderWay, Partly, Gone, FilesToDelete, Targets, Manifest
<1>5. s \notin drifted' => Numbered(s)'
  BY <1>2, HistoryGrows DEF ClusterInv, Numbered
<1> QED
  BY <1>1, <1>2, <1>4, <1>5, HandledDecides DEF HandledIsLive, FailuresDrift, AppliedLabels

LEMMA MarkDeletedLive ==
  ASSUME OneInNamespace, TypeInv, LogInv, ClusterInv, HistoryNext, [Next]_vars,
         MarkDeleted
  PROVE  ClusterInv'
<1>1. /\ pc = "markDeleted" /\ pc \in UninstallLabels /\ pc # "idle"
      /\ live' = live /\ pc' = "idle" /\ todo' = {}
  BY DEF MarkDeleted, UninstallLabels, Done
<1> PICK s \in Keys : s = StoreKey
  BY <1>1, UninstallHolds
<1>2. hist' = hist \/ Marks("DELETED")
  BY DEF MarkDeleted, Rewrite, StoreUpdate, Marks
<1>3. CASE hist' = hist
  BY <1>1, <1>3, EndedLive
<1>4. CASE Marks("DELETED")
  <2>1. s \notin drifted' =>
          /\ Numbered(s) /\ Partly(env, Manifest(cur.rec.spec))
          /\ Gone(env, FilesToDelete(Manifest(cur.rec.spec)) \ refused'[s])
    BY <1>1, HistoryGrows DEF ClusterInv, UninstallIsUnderWay, Gone, StartsOver
  <2>2. s \notin drifted' => Numbered(s)' /\ LastIsLive(s)'
    BY <1>1, <1>4, <2>1, UninstallMarks
  <2> QED
    BY <1>1, <2>2, HandledDecides
       DEF HandledIsLive, UninstallIsUnderWay, FailuresDrift, Underway, AppliedLabels
<1> QED
  BY <1>2, <1>3, <1>4

(* A purge that removes a record leaves the release drifted.                 *)
LEMMA PurgeLive ==
  ASSUME OneInNamespace, TypeInv, LogInv, ClusterInv, HistoryNext, [Next]_vars, Purge
  PROVE  ClusterInv'
<1>1. /\ pc = "purge" /\ pc # "idle" /\ live' = live
      /\ pc' \notin Underway /\ pc \notin Underway
      /\ pc' \in {"purge", "idle"}
  BY DEF Purge, Goto, Done, Underway, AppliedLabels
<1> PICK s \in Keys : s = StoreKey
  BY <1>1, HeldType
<1>2. CASE hist' = hist
  BY <1>1, <1>2, SameCluster
<1>3. CASE hist' # hist
  <2>1. s \in drifted'
    BY <1>1, <1>3 DEF HistoryNext, Drifting, PurgesRecord
  <2> QED
    BY <1>1, <2>1, HandledDecides
       DEF HandledIsLive, UninstallIsUnderWay, FailuresDrift, Underway, AppliedLabels
<1> QED
  BY <1>2, <1>3

LEMMA UninstallLive ==
  ASSUME OneInNamespace, TypeInv, LogInv, ClusterInv, HistoryNext, [Next]_vars, Uninstall
  PROVE  ClusterInv'
<1>1. CASE PreDelete
  BY <1>1, SameCluster DEF PreDelete, Goto, Done, Underway, AppliedLabels
<1> QED
  BY <1>1, PurgeLive, MarkDeletingLive, DeleteLive, PostDeleteLive, MarkDeletedLive
     DEF Uninstall

-----------------------------------------------------------------------------
(* The steps between the cluster and the record. *)

LEMMA InstallLive ==
  ASSUME OneInNamespace, TypeInv, LogInv, ClusterInv, HistoryNext, [Next]_vars, Install
  PROVE  ClusterInv'
<1>1. pc \in ReleaseLabels
  BY DEF Install, PreInstall, CreateResources, PostInstall, InstallStatus,
         ReleaseLabels, Labels
<1>2. at \in Keys /\ cache[at] \in Objects /\ cache \in [Keys -> Objects \cup {NoObj}]
  BY <1>1, HandledType DEF TypeInv, TypeOK
<1>3. CASE PreInstall
  BY <1>3, SameCluster DEF PreInstall, Goto, Done, Underway, AppliedLabels
<1>4. CASE PostInstall
  <2>1. /\ Confirmed /\ pc \in AppliedLabels /\ pc' = "installStatus"
        /\ UNCHANGED <<hist, live, at, cur, env>>
    BY <1>4 DEF PostInstall, Confirmed, Goto, AppliedLabels
  <2>2. cache'[at].spec = cache[at].spec
    BY <1>2, <1>4 DEF PostInstall, SetCode, Objects
  <2>3. History(StoreKey)' = History(StoreKey)
    BY <2>1 DEF History, StoreKey
  <2> QED
    BY <2>1, <2>2, <2>3, HandledKept
<1>5. CASE InstallStatus
  <2>1. /\ pc \in AppliedLabels /\ pc' = "record"
        /\ UNCHANGED <<hist, live, at, cur, env, cache>>
    BY <1>5 DEF InstallStatus, Goto, AppliedLabels
  <2>2. Confirmed' => Confirmed
    BY <1>5, <2>1 DEF InstallStatus, Confirmed, AppliedLabels
  <2>3. History(StoreKey)' = History(StoreKey)
    BY <2>1 DEF History, StoreKey
  <2> QED
    BY <2>1, <2>2, <2>3, HandledKept
<1> QED
  BY <1>3, <1>4, <1>5, CreateLive DEF Install

(* An update that failed has drifted when it writes and records that.        *)
LEMMA FailedLive ==
  ASSUME OneInNamespace, TypeInv, LogInv, ClusterInv, HistoryNext, [Next]_vars,
         FailStatus \/ FailSupersede \/ FailRecord
  PROVE  ClusterInv'
<1>1. /\ pc \in {"failStatus", "failSupersede", "failRecord"} /\ pc # "idle"
      /\ pc' \in {"failSupersede", "failRecord", "record", "idle"}
      /\ pc' # "idle" => UNCHANGED <<at, env>>
  BY DEF FailStatus, FailSupersede, FailRecord, Goto, Done
<1> PICK s \in Keys : s = StoreKey
  BY <1>1, HeldType
<1>2. s \in drifted'
  BY <1>1, HistoryGrows DEF ClusterInv, FailuresDrift
<1>3. pc' # "idle" => StoreKey' = s
  BY <1>1 DEF StoreKey
<1>4. HandledIsLive' /\ UninstallIsUnderWay' /\ FailuresDrift'
  BY <1>1, <1>2, <1>3 DEF HandledIsLive, UninstallIsUnderWay, FailuresDrift, AppliedLabels
<1>5. pc' \in Underway => StoreKey' = s
  BY <1>3 DEF Underway, AppliedLabels
<1> QED
  BY <1>1, <1>2, <1>4, <1>5, HandledDecides

LEMMA UpgradeLive ==
  ASSUME OneInNamespace, TypeInv, LogInv, ClusterInv, HistoryNext, [Next]_vars, Upgrade
  PROVE  ClusterInv'
<1>1. pc \in ReleaseLabels
  BY DEF Upgrade, PreUpgrade, KubeUpdate, PostUpgrade, Supersede, UpgradeStatus,
         FailStatus, FailSupersede, FailRecord, ReleaseLabels, Labels
<1>2. at \in Keys /\ cache[at] \in Objects /\ cache \in [Keys -> Objects \cup {NoObj}]
  BY <1>1, HandledType DEF TypeInv, TypeOK
<1>3. CASE PreUpgrade
  BY <1>3, SameCluster DEF PreUpgrade, Goto, Done, Underway, AppliedLabels
<1>4. CASE PostUpgrade \/ UpgradeStatus
  <2>1. /\ pc \in {"postUpgrade", "upgradeStatus"} /\ pc \in AppliedLabels
        /\ UNCHANGED <<hist, live, env, cache>>
    BY <1>4 DEF PostUpgrade, UpgradeStatus, informer, AppliedLabels
  <2>2. CASE pc' = "idle" /\ todo' = {}
    BY <2>1, <2>2, EndedLive
  <2>3. CASE pc' \in {"supersede", "record"} /\ UNCHANGED <<at, cur>>
    <3>1. Confirmed' => Confirmed
      BY <1>4, <2>1, <2>3 DEF PostUpgrade, UpgradeStatus, Goto, Done, Confirmed, AppliedLabels
    <3>2. History(StoreKey)' = History(StoreKey)
      BY <2>1, <2>3 DEF History, StoreKey
    <3> QED
      BY <2>1, <2>3, <3>1, <3>2, HandledKept
  <2> QED
    BY <1>4, <2>2, <2>3 DEF PostUpgrade, UpgradeStatus, Goto, Done
<1>5. CASE Supersede
  <2>1. /\ Confirmed /\ pc \in AppliedLabels /\ pc' = "upgradeStatus"
        /\ UNCHANGED <<live, at, cur, env>>
    BY <1>5 DEF Supersede, Goto, Confirmed, AppliedLabels
  <2>2. cache'[at].spec = cache[at].spec
    BY <1>2, <1>5 DEF Supersede, SetCode, Objects
  <2>3. StoreKey \in Keys /\ StoreKey' = StoreKey
        /\ \A k \in Keys : History(k)' = History(k)
    BY <1>5, <2>1, RewriteSteps, RewritesHistory DEF Codes, UpgradeLabels, StoreKey
  <2>4. History(StoreKey)' = History(StoreKey)
    BY <2>3 DEF History
  <2> QED
    BY <2>1, <2>2, <2>4, HandledKept
<1> QED
  BY <1>3, <1>4, <1>5, UpdateLive, FailedLive DEF Upgrade

-----------------------------------------------------------------------------
(* The theorems. *)

LEMMA ClusterStep ==
  ASSUME OneInNamespace, TypeInv, LogInv, ClusterInv,
         [Next /\ HistoryNext]_historyVars
  PROVE  ClusterInv'
<1>1. CASE UNCHANGED historyVars
  BY <1>1, SameAll DEF historyVars, vars, worker
<1>2. CASE Next /\ HistoryNext
  <2>1. CASE UNCHANGED <<hist, live, cache, env, worker>>
    <3>1. ~StartsOver /\ Refusing = {}
      BY <2>1 DEF StartsOver, Refusing, worker
    <3> QED
      BY <1>2, <2>1, <3>1, HistoryGrows, SameAll
  <2>2. CASE UNCHANGED <<hist, live>> /\ pc' = "idle" /\ todo' = {}
    BY <1>2, <2>2, EndedLive
  <2>3. CASE \E k \in Keys : Begins(k) /\ live' = live
    <3> PICK k \in Keys : Begins(k) /\ live' = live
      BY <2>3
    <3>1. /\ pc \notin Underway /\ pc' \notin Underway /\ hist' = hist
      BY DeliverBegins DEF Begins, Underway, AppliedLabels
    <3> QED
      BY <1>2, <3>1, SameCluster
  <2> QED
    BY <1>2, <2>1, <2>2, <2>3, ClusterKinds, InstallLive, UpgradeLive, RecordLive,
       UninstallLive
<1> QED
  BY <1>1, <1>2

LEMMA InitCluster == Init => ClusterInv
BY DEF Init, HistInit, LiveInit, ClusterInv, Numbered, LastIsLive, IsLast, History, Gone,
       HandledIsLive, UninstallIsUnderWay, FailuresDrift, AppliedLabels, Keys

LEMMA ClusterIsKept ==
  ASSUME OneInNamespace
  PROVE  HSpec => []ClusterInv
<1>1. [Next /\ HistoryNext]_historyVars => [Next]_vars
  BY DEF historyVars
<1>2. TypeInv /\ [Next]_vars => TypeInv'
  BY NextType
<1>3. TypeInv /\ LogInv /\ [Next]_vars => LogInv'
  BY LogSteps
<1>4. TypeInv /\ LogInv /\ ClusterInv /\ [Next /\ HistoryNext]_historyVars => ClusterInv'
  BY ClusterStep
<1>5. Init => TypeInv /\ LogInv /\ ClusterInv
  BY InitType, InitLog, InitCluster
<1> QED
  BY <1>1, <1>2, <1>3, <1>4, <1>5, PTL DEF HSpec

(* Of releases of one name, in any number of namespaces: while no handler     *)
(* runs, a last revision that is DEPLOYED is in the cluster as it was         *)
(* rendered, though an upgrade only patches what two manifests differ in, and *)
(* nothing else is; whatever fails, crashes or is edited, unless an operation *)
(* on the release ended in one of the ways that leave it drifted.            *)
THEOREM DeployedStaysLive ==
  ASSUME OneInNamespace
  PROVE  HSpec => []RecordedIsLive
<1>1. ASSUME ClusterInv, pc = "idle", NEW k \in Keys \ drifted, NEW r \in 1..MaxRev,
             IsLast(k, r), hist[k][r].code = "DEPLOYED", NEW x \in Resources
      PROVE  live[k[1]][x] = IF x \in Targets(Manifest(hist[k][r].spec))
                             THEN Manifest(hist[k][r].spec) ELSE NoRes
  BY <1>1 DEF ClusterInv, LastIsLive, Says, Fully, Partly, Underway, AppliedLabels
<1>2. ClusterInv => RecordedIsLive
  BY <1>1 DEF RecordedIsLive
<1> QED
  BY <1>2, ClusterIsKept, PTL

(* And of a last revision that is DELETED nothing is left in the cluster but  *)
(* what is to be kept and what the cluster refused to delete, though          *)
(* resources of earlier revisions are deleted only by the upgrade that        *)
(* dropped them.                                                             *)
THEOREM DeletedIsGoneForGood ==
  ASSUME OneInNamespace
  PROVE  HSpec => []UninstalledIsGone
<1>1. ASSUME ClusterInv, pc = "idle", NEW k \in Keys \ drifted, NEW r \in 1..MaxRev,
             IsLast(k, r), hist[k][r].code = "DELETED",
             NEW x \in Resources \
                     ((Targets(Manifest(hist[k][r].spec)) \cap Keep) \cup refused[k])
      PROVE  live[k[1]][x] = NoRes
  BY <1>1
     DEF ClusterInv, LastIsLive, Says, Partly, Gone, FilesToDelete, Underway, AppliedLabels
<1>2. ClusterInv => UninstalledIsGone
  BY <1>1 DEF UninstalledIsGone
<1> QED
  BY <1>2, ClusterIsKept, PTL
=============================================================================
