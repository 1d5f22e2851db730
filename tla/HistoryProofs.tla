--------------------------- MODULE HistoryProofs ---------------------------
(***************************************************************************)
(* Theorems about the record store and the revision history.                *)
(*                                                                         *)
(* Of the store: the key of a record is one release's one revision,         *)
(* prepareRollback gets both back out of it, and sorting a list of records  *)
(* finds the highest revision at the end where the code looks for it.       *)
(*                                                                         *)
(* Those of the history rest on type correctness, and on invariants of the  *)
(* record a handler holds between its reading it and its writing it back.   *)
(***************************************************************************)
EXTENDS ReleaseServerProofs, FiniteSetTheorems

-----------------------------------------------------------------------------
(* The names of the records. *)

(* An int32 is kept by the conversion to int32.                              *)
LEMMA Int32Keeps ==
  ASSUME NEW n \in 0..(Half - 1)
  PROVE  Int32(n) = n
<1>1. Half \in Nat /\ Half > 0
  BY NamingAssumption
<1>2. n + Half \in 0..(2 * Half - 1) /\ 2 * Half \in Nat \ {0}
  BY <1>1
<1>3. (n + Half) % (2 * Half) = n + Half
  BY <1>2
<1> QED
  BY <1>1, <1>3 DEF Int32

(* Every int32 is within what Atoi returns.                                  *)
LEMMA IntIsWide == Half <= MaxInt
<1>1. Half \in Nat /\ Half > 0 /\ MaxInt \in Nat /\ (MaxInt + 1) % (2 * Half) = 0
  BY NamingAssumption
<1>2. CASE MaxInt + 1 < 2 * Half
  <2>1. MaxInt + 1 \in 0..(2 * Half - 1) /\ 2 * Half \in Nat \ {0}
    BY <1>1, <1>2
  <2>2. (MaxInt + 1) % (2 * Half) = MaxInt + 1
    BY <2>1
  <2> QED
    BY <1>1, <2>2
<1> QED
  BY <1>1, <1>2

(* The name and the revision of a release come back out of the name of its   *)
(* record: GetReleaseNameFromReleaseVersion and the parsing in               *)
(* prepareRollback undo makeKey, dashes in the name or not.                  *)
THEOREM KeyIsRead ==
  ASSUME NEW n \in Named, NEW v \in 0..(Half - 1)
  PROVE  NameOf(MakeKey(n, v)) = n /\ VersionOf(MakeKey(n, v)) = v
<1> DEFINE part == [text |-> "v", num |-> v]
<1>1. n \in Seq(Parts) /\ part \in Parts /\ MakeKey(n, v) = Append(n, part)
  <2>1. n \in Seq(Parts)
    BY DEF Named
  <2>2. v \in Nat \cup {NoNumber}
    BY NamingAssumption
  <2>3. part \in Parts
    BY <2>2, NamingAssumption DEF Parts
  <2> QED
    BY <2>1, <2>3 DEF MakeKey
<1>2. /\ Len(MakeKey(n, v)) = Len(n) + 1
      /\ MakeKey(n, v)[Len(n) + 1] = part
      /\ Len(n) \in Nat
  BY <1>1
<1>3. SubSeq(MakeKey(n, v), 1, Len(n)) = n
  BY <1>1, <1>2
<1>4. NameOf(MakeKey(n, v)) = n
  BY <1>2, <1>3 DEF NameOf
<1>5. Atoi(part) = v
  BY IntIsWide, NamingAssumption DEF Atoi, NoNumber
<1> QED
  BY <1>2, <1>4, <1>5, Int32Keeps DEF VersionOf

(* Two revisions never share a key, whatever the names are: the records of   *)
(* "a-v1" and the records of "a" stay apart.                                 *)
THEOREM KeysAreUnique ==
  ASSUME NEW n \in Named, NEW v \in 0..(Half - 1),
         NEW m \in Named, NEW w \in 0..(Half - 1),
         MakeKey(n, v) = MakeKey(m, w)
  PROVE  n = m /\ v = w
BY KeyIsRead

-----------------------------------------------------------------------------
(* What listing and sorting the records finds. *)

(* Whatever order the API server lists the records in, the first record of   *)
(* the reversed list, which Storage.Last returns, and the last one of the    *)
(* sorted list, which UninstallRelease takes, are the highest revision; and  *)
(* purgeReleases begins with the lowest.                                     *)
THEOREM SortFindsLast ==
  ASSUME NEW k, NEW q \in Listings(k), History(k) # {}, SortedByRevision(q)
  PROVE  /\ IsLast(k, Reversed(q)[1])
         /\ IsLast(k, q[Len(q)])
         /\ q[1] \in History(k) /\ \A r \in History(k) : q[1] <= r
<1> DEFINE n == Cardinality(History(k))
<1>1. MaxRev \in Nat
  BY ReleaseAssumption, NamingAssumption
<1>2. History(k) \subseteq 1..MaxRev /\ IsFiniteSet(1..MaxRev)
  BY <1>1, FS_Interval DEF History
<1>3. n \in Nat /\ n # 0
  BY <1>2, FS_Subset, FS_CardinalityType, FS_EmptySet
<1>4. q \in [1..n -> History(k)] /\ \A r \in History(k) : \E i \in 1..n : q[i] = r
  BY DEF Listings, Bijection, Surjection, Injection
<1>5. Len(q) = n /\ DOMAIN q = 1..n /\ 1 \in 1..n /\ n \in 1..n
  BY <1>3, <1>4
<1>6. \A i \in 1..n : q[i] \in Nat
  BY <1>1, <1>2, <1>4
<1>7. \A i, j \in 1..n : i < j => q[i] <= q[j]
  BY <1>5, <1>6 DEF SortedByRevision
<1>8. \A i \in 1..n : q[i] <= q[n] /\ q[1] <= q[i]
  BY <1>3, <1>5, <1>6, <1>7
<1>9. IsLast(k, q[n])
  BY <1>4, <1>5, <1>8 DEF IsLast
<1>10. Reversed(q)[1] = q[n]
  BY <1>3, <1>5 DEF Reversed
<1> QED
  BY <1>4, <1>5, <1>8, <1>9, <1>10
-----------------------------------------------------------------------------
(* The record a handler holds. *)

(* The labels at which the outcome of the handler is decided.                *)
DecidedLabels == {"installStatus", "upgradeStatus", "failStatus", "failSupersede",
                  "failRecord", "record"}

(* The record a handler holds is the stored one but for its code, and the    *)
(* release it is about to record says DEPLOYED or FAILED.                    *)
HoldsStored ==
  pc \in UpgradeLabels \cup UninstallLabels /\ cur.rev \in History(StoreKey) =>
    hist[StoreKey][cur.rev].spec = cur.rec.spec

OutcomeDecided ==
  pc \in DecidedLabels => cache[at].status.code \in {"DEPLOYED", "FAILED"}

RecordInv == HoldsStored /\ OutcomeDecided

(* Without a purge, the record a handler holds stays in the store.           *)
HoldsExisting ==
  pc \in UpgradeLabels \cup UninstallLabels \cup {"record"} /\ cur # NoCur =>
    cur.rev \in History(StoreKey)

ContiguousInv == HistoryContiguous /\ HoldsExisting /\ pc # "purge"

(* Without store errors it is the last one until the handler adds the next,  *)
(* and it is not DEPLOYED any more when it does.                             *)
RetiredLabels == {"upgradeStatus", "failRecord"}

HoldsLast ==
  /\ pc \in UpgradeLabels => IsLast(StoreKey, cur.rev)
  /\ pc \in RetiredLabels => hist[StoreKey][cur.rev].code # "DEPLOYED"
  /\ pc = "record" /\ cur # NoCur =>
       /\ hist[StoreKey][cur.rev].code # "DEPLOYED"
       /\ IsLast(StoreKey, cur.rev) \/ IsLast(StoreKey, NextRev)

NewestInv == ContiguousInv /\ OnlyNewestDeployed /\ HoldsLast

-----------------------------------------------------------------------------
(* Who touches what. *)

(* Users, the watch and the rollback goroutine leave the records and the     *)
(* worker alone.                                                             *)
LEMMA OthersKeep ==
  ASSUME UserStep \/ WatchClose \/ Relist \/ WatchOpen \/ RollbackStep \/ UNCHANGED vars
  PROVE  UNCHANGED <<hist, cache, env, worker>>
<1>1. CASE UserStep
  BY <1>1 DEF UserStep, CreateRelease, EditRelease, DeleteRelease, PostRollback, informer
<1>2. CASE WatchClose \/ Relist \/ WatchOpen
  BY <1>2 DEF WatchClose, Relist, WatchOpen
<1>3. CASE RollbackStep
  BY <1>3 DEF RollbackStep, RollbackLast, RollbackGet, RollbackRead, RollbackWrite, informer
<1>4. CASE UNCHANGED vars
  BY <1>4 DEF vars, worker
<1> QED
  BY <1>1, <1>2, <1>3, <1>4

(* The handlers begin at idle, and hold what they read from the store.       *)
LEMMA DeliverBegins ==
  ASSUME TypeInv, NEW k \in Keys,
         AddFunc(k) \/ UpdateFuncIgnores(k) \/ UpdateFunc(k) \/ DeleteFunc(k)
  PROVE  /\ UNCHANGED hist
         /\ pc = "idle"
         /\ \/ pc' = "idle"
            \/ pc' = "preInstall" /\ cur' = NoCur
            \/ /\ env' = env /\ at' = k /\ env \in Namespaces
               /\ \E r \in 1..MaxRev :
                    /\ IsLast(<<env, k[2]>>, r)
                    /\ cur' = [rev |-> r, rec |-> hist[<<env, k[2]>>][r]]
                    /\ \/ pc' \in {"preUpgrade", "preDelete"}
                       \/ pc' = "purge" /\ hist[<<env, k[2]>>][r].spec.purge
<1>1. CASE AddFunc(k)
  BY <1>1 DEF AddFunc, Pop, Begin, worker
<1>2. CASE UpdateFuncIgnores(k)
  BY <1>2 DEF UpdateFuncIgnores, Pop, worker
<1>3. CASE UpdateFunc(k)
  <2>1. pc = "idle" /\ UNCHANGED <<hist, env>> /\ cache[k] # NoObj
    BY <1>3 DEF UpdateFunc, Pop
  <2>2. env \in Namespaces
    BY <2>1 DEF TypeInv, WorkerShape
  <2>3. \/ UNCHANGED worker
        \/ \E r \in 1..(MaxRev - 1) :
             /\ IsLast(<<env, k[2]>>, r)
             /\ Begin("preUpgrade", k, [rev |-> r, rec |-> hist[<<env, k[2]>>][r]])
    BY <1>3 DEF UpdateFunc
  <2>4. 1..(MaxRev - 1) \subseteq 1..MaxRev
    BY ReleaseAssumption
  <2> QED
    BY <2>1, <2>2, <2>3, <2>4 DEF Begin, worker
<1>4. CASE DeleteFunc(k)
  <2>1. pc = "idle" /\ UNCHANGED <<hist, env>>
    BY <1>4 DEF DeleteFunc, Pop
  <2>2. env # NoNs => env \in Namespaces
    BY DEF TypeInv, TypeOK
  <2>3. \/ UNCHANGED worker
        \/ /\ env # NoNs
           /\ \E r \in 1..MaxRev :
                /\ IsLast(<<env, k[2]>>, r)
                /\ Begin(IF hist[<<env, k[2]>>][r].spec.purge THEN "purge"
                         ELSE "preDelete",
                         k, [rev |-> r, rec |-> hist[<<env, k[2]>>][r]])
    BY <1>4 DEF DeleteFunc
  <2> QED
    BY <2>1, <2>2, <2>3 DEF Begin, worker
<1> QED
  BY <1>1, <1>2, <1>3, <1>4

(* These steps of the handlers do not touch the store.                       *)
Storeless ==
  \/ PreInstall \/ CreateResources \/ PostInstall \/ InstallStatus
  \/ PreUpgrade \/ KubeUpdate \/ PostUpgrade \/ UpgradeStatus \/ FailStatus
  \/ PreDelete \/ DeleteResource \/ PostDelete

LEMMA StorelessKeeps ==
  ASSUME Storeless
  PROVE  /\ UNCHANGED <<hist, env>>
         /\ pc # "idle" /\ pc # "purge"
         /\ \/ pc' = "idle"
            \/ /\ at' = at /\ cur' = cur /\ pc' # "purge"
               /\ pc' \in UpgradeLabels => pc \in UpgradeLabels
               /\ pc' \in UninstallLabels => pc \in UninstallLabels
               /\ pc' = "record" => pc \in {"installStatus", "upgradeStatus"}
               /\ pc' \in RetiredLabels => FALSE
<1> USE DEF UpgradeLabels, UninstallLabels, RetiredLabels
<1>1. CASE PreInstall \/ CreateResources \/ PostInstall \/ InstallStatus
  BY <1>1 DEF PreInstall, CreateResources, PostInstall, InstallStatus, Goto, Done
<1>2. CASE PreUpgrade \/ KubeUpdate \/ PostUpgrade \/ UpgradeStatus \/ FailStatus
  BY <1>2 DEF PreUpgrade, KubeUpdate, PostUpgrade, UpgradeStatus, FailStatus, Goto, Done
<1>3. CASE PreDelete \/ DeleteResource \/ PostDelete
  BY <1>3 DEF PreDelete, DeleteResource, PostDelete, Goto, Done
<1> QED
  BY <1>1, <1>2, <1>3 DEF Storeless

(* The steps that write a record back, and where they go on.                 *)
Rewrites(c, label, next) ==
  /\ pc = label /\ pc' \in {next, "idle"}
  /\ env' = env
  /\ \/ UNCHANGED hist
     \/ /\ cur.rev \in History(StoreKey)
        /\ hist' = [hist EXCEPT ![StoreKey][cur.rev] = [cur.rec EXCEPT !.code = c]]
  /\ pc' # "idle" => at' = at /\ cur' = cur

LEMMA RewriteSteps ==
  /\ Supersede => Rewrites("SUPERSEDED", "supersede", "upgradeStatus")
  /\ FailSupersede => Rewrites("SUPERSEDED", "failSupersede", "failRecord")
  /\ MarkDeleting => Rewrites("DELETING", "markDeleting", "deleting")
  /\ MarkDeleted => Rewrites("DELETED", "markDeleted", "idle")
<1>1. ASSUME Supersede PROVE Rewrites("SUPERSEDED", "supersede", "upgradeStatus")
  BY <1>1 DEF Supersede, Superseded, Goto, Rewrites, Rewrite, StoreUpdate
<1>2. ASSUME FailSupersede PROVE Rewrites("SUPERSEDED", "failSupersede", "failRecord")
  BY <1>2 DEF FailSupersede, Superseded, Goto, Rewrites, Rewrite, StoreUpdate
<1>3. ASSUME MarkDeleting PROVE Rewrites("DELETING", "markDeleting", "deleting")
  BY <1>3 DEF MarkDeleting, Deleting, Done, Rewrites, Rewrite, StoreUpdate
<1>4. ASSUME MarkDeleted PROVE Rewrites("DELETED", "markDeleted", "idle")
  BY <1>4 DEF MarkDeleted, Done, Rewrites, Rewrite, StoreUpdate
<1> QED
  BY <1>1, <1>2, <1>3, <1>4

(* The steps that add a record.                                              *)
NewRecord == [spec |-> cache[at].spec, code |-> cache[at].status.code]

Adds ==
  /\ pc \in {"record", "failRecord"}
  /\ \/ pc' = "idle"
     \/ pc = "failRecord" /\ pc' = "record" /\ at' = at /\ cur' = cur
  /\ env' = env /\ cache' = cache
  /\ \/ UNCHANGED hist
     \/ /\ NextRev \notin History(StoreKey)
        /\ hist' = [hist EXCEPT ![StoreKey][NextRev] = NewRecord]

LEMMA RecordSteps == RecordRelease \/ FailRecord => Adds
BY DEF RecordRelease, FailRecord, Record, StoreCreate, Adds, NewRecord, Goto, Done,
       informer

(* A purge removes one record and goes on, or ends.                          *)
Purges ==
  /\ pc = "purge" /\ pc' \in {"purge", "idle"} /\ env' = env
  /\ UNCHANGED hist \/ \E r \in 1..MaxRev :
                         hist' = [hist EXCEPT ![StoreKey][r] = NoRec]
  /\ pc' # "idle" => at' = at /\ cur' = cur

LEMMA PurgeSteps == Purge => Purges
BY DEF Purge, Purges, Goto, Done, StoreDelete, History

(* The worker takes a delta that a handler can handle.                       *)
Begins(k) == AddFunc(k) \/ UpdateFuncIgnores(k) \/ UpdateFunc(k) \/ DeleteFunc(k)

(* A kind of event whose bound is zero does not happen.                      *)
LEMMA NeverSpent ==
  ASSUME TypeInv, NEW kind \in Kinds, Limit[kind] = 0
  PROVE  ~Spend(kind)
<1>1. used[kind] \in Nat
  BY DEF TypeInv, TypeOK
<1>2. ~(used[kind] < Limit[kind])
  BY <1>1
<1> QED
  BY <1>2 DEF Spend

(* Every step is one of these.                                               *)
LEMMA StepKinds ==
  ASSUME TypeInv, [Next]_vars
  PROVE  \/ UNCHANGED <<hist, cache, env, worker>>
         \/ \E k \in Keys : AddFunc(k) \/ UpdateFuncIgnores(k) \/ UpdateFunc(k)
                            \/ DeleteFunc(k)
         \/ hist' = hist /\ pc' = "idle"
         \/ Storeless
         \/ Rewrites("SUPERSEDED", "supersede", "upgradeStatus") /\ Supersede
         \/ Rewrites("SUPERSEDED", "failSupersede", "failRecord") /\ FailSupersede
         \/ Rewrites("DELETING", "markDeleting", "deleting")
         \/ Rewrites("DELETED", "markDeleted", "idle")
         \/ Adds
         \/ Purges /\ Purge
<1>1. CASE UserStep \/ WatchClose \/ Relist \/ WatchOpen \/ RollbackStep \/ UNCHANGED vars
  BY <1>1, OthersKeep
<1>2. CASE Crash \/ \E k \in Keys : DeleteFuncPanics(k)
  BY <1>2 DEF Crash, DeleteFuncPanics, Restart
<1>3. CASE \E k \in Keys : AddFunc(k) \/ UpdateFuncIgnores(k) \/ UpdateFunc(k)
                           \/ DeleteFunc(k)
  BY <1>3
<1>4. CASE Install \/ Upgrade \/ RecordRelease \/ Uninstall
  BY <1>4, RewriteSteps, RecordSteps, PurgeSteps
     DEF Install, Upgrade, Uninstall, Storeless
<1> QED
  BY <1>1, <1>2, <1>3, <1>4 DEF Next, WorkerStep, Deliver

-----------------------------------------------------------------------------
(* Records only retire. *)

Retires == \A k \in Keys : \A r \in 1..MaxRev : OnlyRetires(k, r)

LEMMA UnchangedRetires ==
  ASSUME UNCHANGED hist
  PROVE  Retires
BY DEF Retires, OnlyRetires, History

(* One record is changed, in its code, added or removed.                     *)
LEMMA ChangeRetires ==
  ASSUME TypeInv, NEW k \in Keys, NEW r \in 1..MaxRev, NEW rec,
         hist' = [hist EXCEPT ![k][r] = rec],
         rec # NoRec /\ r \in History(k) =>
           /\ rec.spec = hist[k][r].spec
           /\ rec.code \in {"SUPERSEDED", "DELETING", "DELETED"},
         rec # NoRec /\ r \notin History(k) => rec.code \in {"DEPLOYED", "FAILED"}
  PROVE  Retires
<1> SUFFICES ASSUME NEW q \in Keys, NEW p \in 1..MaxRev
             PROVE  OnlyRetires(q, p)
  BY DEF Retires
<1>1. hist \in [Keys -> [1..MaxRev -> Records \cup {NoRec}]]
  BY DEF TypeInv, TypeOK, HistTypeOK
<1>2. CASE q = k /\ p = r
  BY <1>1, <1>2 DEF OnlyRetires, History
<1>3. CASE ~(q = k /\ p = r)
  <2>1. hist'[q][p] = hist[q][p]
    BY <1>1, <1>3
  <2> QED
    BY <2>1 DEF OnlyRetires, History
<1> QED
  BY <1>2, <1>3

(* A step of a handler after which the record it holds is still the stored   *)
(* one but for its code.                                                     *)
LEMMA HoldsStoredKept ==
  ASSUME TypeInv, HoldsStored, env' = env,
         pc' # "idle" => at' = at /\ cur' = cur,
         pc' \in UpgradeLabels \cup UninstallLabels =>
           pc \in UpgradeLabels \cup UninstallLabels,
         \/ UNCHANGED hist
         \/ \E r \in 1..MaxRev : hist' = [hist EXCEPT ![StoreKey][r] = NoRec]
         \/ \E c \in Codes :
              hist' = [hist EXCEPT ![StoreKey][cur.rev] = [cur.rec EXCEPT !.code = c]]
  PROVE  HoldsStored'
<1> SUFFICES ASSUME pc' \in UpgradeLabels \cup UninstallLabels,
                    cur'.rev \in History(StoreKey)'
             PROVE  hist'[StoreKey'][cur'.rev].spec = cur'.rec.spec
  BY DEF HoldsStored
<1>1. /\ StoreKey' = StoreKey /\ cur' = cur
      /\ pc \in UpgradeLabels \cup UninstallLabels /\ pc # "idle"
  BY DEF UpgradeLabels, UninstallLabels, StoreKey
<1>2. StoreKey \in Keys /\ cur.rev \in 1..MaxRev /\ cur.rec \in Records
  BY <1>1 DEF TypeInv, WorkerShape, HoldsRecord, StoreKey, Keys
<1>3. hist \in [Keys -> [1..MaxRev -> Records \cup {NoRec}]]
  BY DEF TypeInv, TypeOK, HistTypeOK
<1>4. hist'[StoreKey][cur.rev] # NoRec
  BY <1>1 DEF History
<1>5. CASE hist'[StoreKey][cur.rev] = hist[StoreKey][cur.rev]
  <2>1. cur.rev \in History(StoreKey)
    BY <1>2, <1>4, <1>5 DEF History
  <2> QED
    BY <1>1, <1>5, <2>1 DEF HoldsStored
<1>6. ASSUME NEW c \in Codes,
             hist' = [hist EXCEPT ![StoreKey][cur.rev] = [cur.rec EXCEPT !.code = c]]
      PROVE  hist'[StoreKey][cur.rev].spec = cur.rec.spec
  <2>1. hist'[StoreKey][cur.rev] = [cur.rec EXCEPT !.code = c]
    BY <1>2, <1>3, <1>6
  <2> QED
    BY <1>2, <2>1 DEF Records
<1>7. ASSUME NEW r \in 1..MaxRev, hist' = [hist EXCEPT ![StoreKey][r] = NoRec]
      PROVE  hist'[StoreKey][cur.rev] = hist[StoreKey][cur.rev]
  BY <1>2, <1>3, <1>4, <1>7
<1> QED
  BY <1>1, <1>5, <1>6, <1>7

(* So it is when the step adds the release that follows the record.          *)
LEMMA AddKeepsHeld ==
  ASSUME TypeInv, HoldsStored, Adds
  PROVE  HoldsStored'
BY DEF Adds, HoldsStored, UpgradeLabels, UninstallLabels

LEMMA RewritesKind ==
  ASSUME TypeInv, HoldsStored, NEW c \in {"SUPERSEDED", "DELETING", "DELETED"},
         NEW label \in UpgradeLabels \cup UninstallLabels,
         NEW next \in UpgradeLabels \cup UninstallLabels \cup {"idle"},
         Rewrites(c, label, next)
  PROVE  Retires /\ HoldsStored'
<1>1. /\ StoreKey \in Keys /\ cur.rev \in 1..MaxRev /\ cur.rec \in Records
      /\ pc \in UpgradeLabels \cup UninstallLabels
  <2>1. pc \in UpgradeLabels \cup UninstallLabels /\ pc # "idle"
    BY DEF Rewrites, UpgradeLabels, UninstallLabels
  <2> QED
    BY <2>1 DEF TypeInv, WorkerShape, HoldsRecord, StoreKey, Keys
<1>2. c \in Codes
  BY DEF Codes
<1>3. HoldsStored'
  BY <1>1, <1>2, HoldsStoredKept DEF Rewrites
<1>4. CASE UNCHANGED hist
  BY <1>3, <1>4, UnchangedRetires
<1>5. CASE /\ cur.rev \in History(StoreKey)
           /\ hist' = [hist EXCEPT ![StoreKey][cur.rev] = [cur.rec EXCEPT !.code = c]]
  <2>1. hist[StoreKey][cur.rev].spec = cur.rec.spec
    BY <1>1, <1>5 DEF HoldsStored
  <2>2. /\ [cur.rec EXCEPT !.code = c].spec = cur.rec.spec
        /\ [cur.rec EXCEPT !.code = c].code = c
    BY <1>1 DEF Records
  <2>3. Retires
    BY <1>1, <1>5, <2>1, <2>2, ChangeRetires
  <2> QED
    BY <1>3, <2>3
<1> QED
  BY <1>4, <1>5 DEF Rewrites

(* The outcome is decided before it is written or recorded.                  *)
LEMMA DecidedKept ==
  ASSUME TypeInv, OutcomeDecided, [Next]_vars
  PROVE  OutcomeDecided'
<1>1. CASE UNCHANGED <<hist, cache, env, worker>>
  BY <1>1 DEF OutcomeDecided, worker
<1>2. ASSUME NEW k \in Keys,
             AddFunc(k) \/ UpdateFuncIgnores(k) \/ UpdateFunc(k) \/ DeleteFunc(k)
      PROVE  OutcomeDecided'
  <2>1. pc' \notin DecidedLabels
    BY <1>2, DeliverBegins DEF DecidedLabels
  <2> QED
    BY <2>1 DEF OutcomeDecided
<1>3. CASE pc' = "idle"
  BY <1>3 DEF OutcomeDecided, DecidedLabels
<1>4. ASSUME NEW c \in {"DEPLOYED", "FAILED"}, SetCode(c), pc \in ReleaseLabels, at' = at
      PROVE  cache'[at'].status.code = c
  <2>1. /\ at \in Keys /\ cache[at] \in Objects
        /\ cache \in [Keys -> Objects \cup {NoObj}]
    BY <1>4, HandledType DEF TypeInv, TypeOK
  <2>2. cache'[at] = [cache[at] EXCEPT !.status.code = c]
    BY <1>4, <2>1 DEF SetCode
  <2> QED
    BY <1>4, <2>1, <2>2 DEF Objects, Statuses
<1>5. CASE Storeless
  <2>1. CASE CreateResources
    <3>1. pc \in ReleaseLabels
      BY <2>1 DEF CreateResources, ReleaseLabels, Labels
    <3> QED
      BY <1>4, <2>1, <3>1 DEF CreateResources, OutcomeDecided, DecidedLabels, Goto
  <2>2. CASE PostInstall
    <3>1. pc \in ReleaseLabels
      BY <2>2 DEF PostInstall, ReleaseLabels, Labels
    <3> QED
      BY <1>4, <2>2, <3>1 DEF PostInstall, OutcomeDecided, DecidedLabels, Goto
  <2>3. CASE KubeUpdate
    <3>1. pc \in ReleaseLabels
      BY <2>3 DEF KubeUpdate, ReleaseLabels, Labels
    <3> QED
      BY <1>4, <2>3, <3>1 DEF KubeUpdate, OutcomeDecided, DecidedLabels, Goto
  <2>4. CASE InstallStatus \/ UpgradeStatus \/ FailStatus
    BY <2>4 DEF InstallStatus, UpgradeStatus, FailStatus, OutcomeDecided, DecidedLabels,
                Goto, Done
  <2>5. CASE PreInstall \/ PreUpgrade \/ PostUpgrade
    BY <2>5 DEF PreInstall, PreUpgrade, PostUpgrade, OutcomeDecided, DecidedLabels,
                Goto, Done
  <2>6. CASE PreDelete \/ DeleteResource \/ PostDelete
    BY <2>6 DEF PreDelete, DeleteResource, PostDelete, OutcomeDecided, DecidedLabels,
                Goto, Done
  <2> QED
    BY <1>5, <2>1, <2>2, <2>3, <2>4, <2>5, <2>6 DEF Storeless
<1>6. CASE Supersede
  <2>1. pc \in ReleaseLabels
    BY <1>6 DEF Supersede, ReleaseLabels, Labels
  <2> QED
    BY <1>4, <1>6, <2>1 DEF Supersede, OutcomeDecided, Goto
<1>7. CASE FailSupersede
  BY <1>7 DEF FailSupersede, OutcomeDecided, DecidedLabels, Goto, informer
<1>8. CASE Adds
  BY <1>8 DEF Adds, OutcomeDecided, DecidedLabels
<1>9. CASE \/ Rewrites("DELETING", "markDeleting", "deleting")
           \/ Rewrites("DELETED", "markDeleted", "idle")
           \/ Purges
  BY <1>9 DEF Rewrites, Purges, OutcomeDecided, DecidedLabels
<1> QED
  BY StepKinds, <1>1, <1>2, <1>3, <1>5, <1>6, <1>7, <1>8, <1>9

LEMMA RecordStep ==
  ASSUME TypeInv, RecordInv, [Next]_vars
  PROVE  RecordInv' /\ Retires
<1>1. OutcomeDecided'
  BY DecidedKept DEF RecordInv
<1>2. HoldsStored
  BY DEF RecordInv
<1>3. CASE UNCHANGED <<hist, cache, env, worker>>
  BY <1>1, <1>2, <1>3, UnchangedRetires
     DEF RecordInv, HoldsStored, worker, History, StoreKey
<1>4. ASSUME NEW k \in Keys,
             AddFunc(k) \/ UpdateFuncIgnores(k) \/ UpdateFunc(k) \/ DeleteFunc(k)
      PROVE  HoldsStored' /\ hist' = hist
  <2>1. hist' = hist
    BY <1>4, DeliverBegins
  <2>2. CASE pc' \in {"idle", "preInstall"}
    BY <2>1, <2>2 DEF HoldsStored, UpgradeLabels, UninstallLabels
  <2>3. CASE /\ env' = env /\ at' = k
             /\ \E r \in 1..MaxRev :
                  cur' = [rev |-> r, rec |-> hist[<<env, k[2]>>][r]]
    <3>1. PICK r \in 1..MaxRev : cur' = [rev |-> r, rec |-> hist[<<env, k[2]>>][r]]
      BY <2>3
    <3>2. StoreKey' = <<env, k[2]>>
      BY <2>3 DEF StoreKey
    <3>3. cur'.rev = r /\ cur'.rec = hist[<<env, k[2]>>][r]
      BY <3>1
    <3>4. (hist[StoreKey][cur.rev].spec = cur.rec.spec)'
      BY <2>1, <3>2, <3>3
    <3> QED
      BY <2>1, <3>4 DEF HoldsStored
  <2>4. \/ pc' \in {"idle", "preInstall"}
        \/ /\ env' = env /\ at' = k
           /\ \E r \in 1..MaxRev :
                cur' = [rev |-> r, rec |-> hist[<<env, k[2]>>][r]]
    BY <1>4, DeliverBegins
  <2> QED
    BY <2>1, <2>2, <2>3, <2>4
<1>5. CASE hist' = hist /\ pc' = "idle"
  BY <1>1, <1>5, UnchangedRetires
     DEF RecordInv, HoldsStored, UpgradeLabels, UninstallLabels
<1>6. CASE Storeless
  <2>1. HoldsStored'
    <3>1. /\ UNCHANGED hist /\ env' = env
          /\ pc' # "idle" => at' = at /\ cur' = cur
          /\ pc' \in UpgradeLabels \cup UninstallLabels =>
               pc \in UpgradeLabels \cup UninstallLabels
      BY <1>6, StorelessKeeps DEF UpgradeLabels, UninstallLabels
    <3> QED
      BY <1>2, <3>1, HoldsStoredKept
  <2> QED
    BY <1>1, <1>6, <2>1, StorelessKeeps, UnchangedRetires DEF RecordInv
<1>7. CASE \/ Rewrites("SUPERSEDED", "supersede", "upgradeStatus")
           \/ Rewrites("SUPERSEDED", "failSupersede", "failRecord")
           \/ Rewrites("DELETING", "markDeleting", "deleting")
           \/ Rewrites("DELETED", "markDeleted", "idle")
  BY <1>1, <1>2, <1>7, RewritesKind DEF RecordInv, UpgradeLabels, UninstallLabels
<1>8. CASE Adds
  <2>1. /\ StoreKey \in Keys /\ NextRev \in 1..MaxRev
        /\ NewRecord.code \in {"DEPLOYED", "FAILED"}
    <3>1. pc \in ReleaseLabels /\ pc \in DecidedLabels /\ pc # "idle"
      BY <1>8 DEF Adds, ReleaseLabels, Labels, DecidedLabels
    <3>2. cur.rev \in 0..MaxRev /\ cur.rev < MaxRev /\ StoreKey \in Keys
      BY <3>1 DEF TypeInv, TypeOK, WorkerShape, StoreKey, Keys
    <3>3. NextRev \in 1..MaxRev
      BY <3>2, ReleaseAssumption DEF NextRev
    <3> QED
      BY <3>1, <3>2, <3>3 DEF RecordInv, OutcomeDecided, NewRecord
  <2>2. Retires
    BY <1>8, <2>1, ChangeRetires, UnchangedRetires DEF Adds
  <2> QED
    BY <1>1, <1>2, <1>8, <2>2, AddKeepsHeld DEF RecordInv
<1>9. CASE Purges
  <2>1. StoreKey \in Keys
    BY <1>9 DEF Purges, TypeInv, WorkerShape, StoreKey, Keys
  <2>2. Retires
    BY <1>9, <2>1, ChangeRetires, UnchangedRetires DEF Purges
  <2>3. HoldsStored'
    BY <1>2, <1>9, HoldsStoredKept DEF Purges, UninstallLabels
  <2> QED
    BY <1>1, <2>2, <2>3 DEF RecordInv
<1> QED
  BY StepKinds, <1>1, <1>3, <1>4, <1>5, <1>6, <1>7, <1>8, <1>9, UnchangedRetires
     DEF RecordInv

LEMMA InitRecord == Init => RecordInv
BY DEF Init, RecordInv, HoldsStored, OutcomeDecided, DecidedLabels, UpgradeLabels,
       UninstallLabels

(* A recorded revision keeps its spec for ever and only retires, whatever    *)
(* users, faults, crashes and rollbacks do between the moment a handler read *)
(* it and the moment it writes it back.                                      *)
THEOREM RecordsRetire == Spec => RecordsOnlyRetire
<1>1. TypeInv /\ RecordInv /\ [Next]_vars => RecordInv' /\ Retires
  BY RecordStep
<1>2. Retires <=> \A k \in Keys : \A r \in 1..MaxRev : OnlyRetires(k, r)
  BY DEF Retires
<1> QED
  BY <1>1, <1>2, InitRecord, TypeInvariant, PTL DEF Spec, RecordsOnlyRetire

-----------------------------------------------------------------------------
(* The history has no gaps, as long as nothing is purged. *)

(* A record written at r makes r exist, and nothing else.                    *)
LEMMA WrittenHistory ==
  ASSUME TypeInv, NEW k \in Keys, NEW r \in 1..MaxRev, NEW rec \in Records,
         hist' = [hist EXCEPT ![k][r] = rec]
  PROVE  /\ History(k)' = History(k) \cup {r}
         /\ \A q \in Keys : q # k => hist'[q] = hist[q] /\ History(q)' = History(q)
         /\ \A p \in 1..MaxRev : hist'[k][p] = IF p = r THEN rec ELSE hist[k][p]
<1>1. hist \in [Keys -> [1..MaxRev -> Records \cup {NoRec}]] /\ rec # NoRec
  BY InputType DEF TypeInv, TypeOK, HistTypeOK
<1>2. \A p \in 1..MaxRev : hist'[k][p] = IF p = r THEN rec ELSE hist[k][p]
  BY <1>1
<1>3. \A q \in Keys : q # k => hist'[q] = hist[q]
  BY <1>1
<1> QED
  BY <1>1, <1>2, <1>3 DEF History

(* The record a handler holds, and the revision it may add.                  *)
LEMMA HeldType ==
  ASSUME TypeInv, pc # "idle"
  PROVE  /\ StoreKey \in Keys
         /\ pc \in UpgradeLabels \cup UninstallLabels =>
              cur.rev \in 1..MaxRev /\ cur.rec \in Records /\ cur # NoCur
         /\ pc = "record" /\ cur # NoCur => cur.rev \in 1..MaxRev
         /\ pc \in {"record", "failRecord"} =>
              /\ NextRev \in 1..MaxRev /\ NewRecord \in Records
              /\ cur.rev \in 0..MaxRev
<1>1. StoreKey \in Keys
  BY DEF TypeInv, WorkerShape, StoreKey, Keys
<1>2. HoldsRecord => cur # NoCur
  BY DEF HoldsRecord, NoCur
<1>3. ASSUME pc \in {"record", "failRecord"}
      PROVE  NextRev \in 1..MaxRev /\ NewRecord \in Records /\ cur.rev \in 0..MaxRev
  <2>1. pc \in ReleaseLabels
    BY <1>3 DEF ReleaseLabels, Labels
  <2>2. cur.rev \in 0..MaxRev /\ cur.rev < MaxRev /\ cache[at] \in Objects
    BY <2>1 DEF TypeInv, TypeOK, WorkerShape
  <2>3. NextRev \in 1..MaxRev
    BY <2>2, ReleaseAssumption DEF NextRev
  <2>4. NewRecord \in Records
    BY <2>2 DEF NewRecord, Objects, Statuses, Records
  <2> QED
    BY <2>2, <2>3, <2>4
<1> QED
  BY <1>1, <1>2, <1>3 DEF TypeInv, WorkerShape, HoldsRecord

(* A rewritten record existed before.                                        *)
LEMMA RewritesHistory ==
  ASSUME TypeInv, NEW c \in Codes, NEW label \in UpgradeLabels \cup UninstallLabels,
         NEW next, Rewrites(c, label, next)
  PROVE  /\ \A k \in Keys : History(k)' = History(k)
         /\ pc \in UpgradeLabels \cup UninstallLabels /\ StoreKey \in Keys
<1>1. /\ pc \in UpgradeLabels \cup UninstallLabels /\ pc # "idle"
  BY DEF Rewrites, UpgradeLabels, UninstallLabels
<1>2. StoreKey \in Keys /\ cur.rev \in 1..MaxRev /\ cur.rec \in Records
  BY <1>1, HeldType
<1>3. CASE UNCHANGED hist
  BY <1>1, <1>2, <1>3 DEF History
<1>4. CASE /\ cur.rev \in History(StoreKey)
           /\ hist' = [hist EXCEPT ![StoreKey][cur.rev] = [cur.rec EXCEPT !.code = c]]
  <2>1. [cur.rec EXCEPT !.code = c] \in Records
    BY <1>2 DEF Records
  <2>2. PICK s \in Keys : s = StoreKey
    BY <1>2
  <2>3. PICK r \in 1..MaxRev : r = cur.rev
    BY <1>2
  <2>4. PICK rec \in Records : rec = [cur.rec EXCEPT !.code = c]
    BY <2>1
  <2>5. hist' = [hist EXCEPT ![s][r] = rec] /\ r \in History(s)
    BY <1>4, <2>2, <2>3, <2>4
  <2>6. \A k \in Keys : History(k)' = History(k)
    <3>1. /\ History(s)' = History(s) \cup {r}
          /\ \A q \in Keys : q # s => History(q)' = History(q)
      BY <2>5, WrittenHistory
    <3>2. History(s)' = History(s)
      BY <2>5, <3>1
    <3>3. ASSUME NEW k \in Keys PROVE History(k)' = History(k)
      <4>1. CASE k = s
        BY <3>2, <4>1
      <4> QED
        BY <3>1, <4>1
    <3> QED
      BY <3>3
  <2> QED
    BY <1>1, <1>2, <2>6
<1> QED
  BY <1>3, <1>4 DEF Rewrites

(* No record asks for a purge when no user does.                             *)
LEMMA NoPurge ==
  ASSUME TypeInv, Purging = {FALSE}, NEW k \in Keys, NEW r \in History(k)
  PROVE  ~hist[k][r].spec.purge
<1>1. hist[k][r] \in Records
  BY HistoryType DEF TypeInv, TypeOK
<1> QED
  BY <1>1 DEF Records, Specs

LEMMA ContiguousStep ==
  ASSUME Purging = {FALSE}, TypeInv, ContiguousInv, [Next]_vars
  PROVE  ContiguousInv'
<1> USE DEF ContiguousInv
<1>1. CASE UNCHANGED <<hist, cache, env, worker>>
  BY <1>1 DEF HistoryContiguous, HoldsExisting, worker, History, StoreKey
<1>2. ASSUME UNCHANGED hist
      PROVE  HistoryContiguous'
  BY <1>2 DEF HistoryContiguous, History
<1>3. ASSUME NEW k \in Keys,
             AddFunc(k) \/ UpdateFuncIgnores(k) \/ UpdateFunc(k) \/ DeleteFunc(k)
      PROVE  ContiguousInv'
  <2>1. hist' = hist
    BY <1>3, DeliverBegins
  <2>2. CASE pc' \in {"idle", "preInstall"}
    BY <1>2, <2>1, <2>2 DEF HoldsExisting, UpgradeLabels, UninstallLabels
  <2>3. ASSUME env' = env, at' = k, env \in Namespaces,
               NEW r \in 1..MaxRev, IsLast(<<env, k[2]>>, r),
               cur' = [rev |-> r, rec |-> hist[<<env, k[2]>>][r]],
               \/ pc' \in {"preUpgrade", "preDelete"}
               \/ pc' = "purge" /\ hist[<<env, k[2]>>][r].spec.purge
        PROVE  ContiguousInv'
    <3>1. StoreKey' = <<env, k[2]>> /\ cur'.rev = r /\ <<env, k[2]>> \in Keys
      BY <2>3 DEF StoreKey, Keys
    <3>2. pc' # "purge"
      BY <2>3, <3>1, NoPurge DEF IsLast
    <3>3. HoldsExisting'
      BY <2>1, <2>3, <3>1 DEF HoldsExisting, IsLast, History
    <3> QED
      BY <1>2, <2>1, <3>2, <3>3
  <2> QED
    BY <1>3, <2>2, <2>3, DeliverBegins
<1>4. CASE hist' = hist /\ pc' = "idle"
  BY <1>2, <1>4 DEF HoldsExisting, UpgradeLabels, UninstallLabels
<1>5. CASE Storeless
  <2>1. /\ UNCHANGED hist /\ env' = env /\ pc # "idle"
        /\ \/ pc' = "idle"
           \/ /\ at' = at /\ cur' = cur /\ pc' # "purge"
              /\ pc' \in UpgradeLabels => pc \in UpgradeLabels
              /\ pc' \in UninstallLabels => pc \in UninstallLabels
              /\ pc' = "record" => pc \in {"installStatus", "upgradeStatus"}
    BY <1>5, StorelessKeeps
  <2>2. pc = "installStatus" => cur = NoCur
    BY DEF TypeInv, WorkerShape, InstallLabels
  <2>3. HoldsExisting'
    BY <2>1, <2>2 DEF HoldsExisting, UpgradeLabels, UninstallLabels, History, StoreKey
  <2> QED
    BY <1>2, <2>1, <2>3
<1>6. ASSUME NEW c \in Codes, NEW label \in UpgradeLabels \cup UninstallLabels,
             NEW next \in (UpgradeLabels \cup UninstallLabels \cup {"idle"}) \ {"purge"},
             Rewrites(c, label, next)
      PROVE  ContiguousInv'
  <2>1. /\ \A k \in Keys : History(k)' = History(k)
        /\ pc \in UpgradeLabels \cup UninstallLabels /\ StoreKey \in Keys
    BY <1>6, RewritesHistory
  <2>2. pc' # "purge" /\ env' = env /\ (pc' # "idle" => at' = at /\ cur' = cur)
    BY <1>6 DEF Rewrites
  <2>3. HistoryContiguous'
    BY <2>1 DEF HistoryContiguous
  <2>4. HoldsExisting'
    BY <2>1, <2>2 DEF HoldsExisting, UpgradeLabels, UninstallLabels, StoreKey
  <2> QED
    BY <2>2, <2>3, <2>4
<1>7. CASE Adds
  <2>1. /\ pc # "idle" /\ pc \in {"record", "failRecord"} /\ pc' # "purge"
        /\ env' = env /\ (pc' # "idle" => at' = at /\ cur' = cur)
        /\ pc' \in {"idle", "record"}
    BY <1>7 DEF Adds
  <2>2. /\ StoreKey \in Keys /\ NextRev \in 1..MaxRev /\ NewRecord \in Records
        /\ cur.rev \in 0..MaxRev
    BY <2>1, HeldType
  <2>3. cur = NoCur \/ cur.rev \in History(StoreKey)
    BY <2>1 DEF HoldsExisting, UpgradeLabels
  <2> PICK s \in Keys : s = StoreKey
    BY <2>2
  <2> PICK n \in 1..MaxRev : n = NextRev
    BY <2>2
  <2>4. \/ UNCHANGED hist
        \/ /\ History(s)' = History(s) \cup {n}
           /\ \A q \in Keys : q # s => History(q)' = History(q)
    <3>1. UNCHANGED hist \/ hist' = [hist EXCEPT ![s][n] = NewRecord]
      BY <1>7 DEF Adds
    <3>2. PICK rec \in Records : rec = NewRecord
      BY <2>2
    <3> QED
      BY <3>1, <3>2, WrittenHistory
  <2>5. History(s) \subseteq History(s)'
    BY <2>4 DEF History
  <2>6. 1..n \subseteq History(s) \cup {n}
    <3>1. cur.rev = 0 \/ 1..cur.rev \subseteq History(s)
      BY <2>2, <2>3 DEF HistoryContiguous, NoCur
    <3>2. 1..n \subseteq (1..cur.rev) \cup {n}
      BY <2>2 DEF NextRev
    <3>3. cur.rev = 0 => 1..cur.rev = {}
      OBVIOUS
    <3> QED
      BY <3>1, <3>2, <3>3
  <2>7. HistoryContiguous'
    <3>1. CASE UNCHANGED hist
      BY <1>2, <3>1
    <3>2. ASSUME History(s)' = History(s) \cup {n},
                 \A q \in Keys : q # s => History(q)' = History(q),
                 NEW k \in Keys, NEW r \in History(k)'
          PROVE  1..r \subseteq History(k)'
      <4>1. CASE k # s \/ r # n
        BY <3>2, <4>1 DEF HistoryContiguous
      <4>2. CASE k = s /\ r = n
        BY <2>6, <3>2, <4>2
      <4> QED
        BY <4>1, <4>2
    <3> QED
      BY <2>4, <3>1, <3>2 DEF HistoryContiguous
  <2>8. HoldsExisting'
    <3>1. pc' = "record" => StoreKey' = s /\ cur' = cur
      BY <2>1 DEF StoreKey
    <3> QED
      BY <2>1, <2>3, <2>5, <3>1 DEF HoldsExisting, UpgradeLabels, UninstallLabels
  <2> QED
    BY <2>1, <2>7, <2>8
<1>8. ~Purges
  BY DEF Purges
<1> QED
  BY StepKinds, <1>1, <1>3, <1>4, <1>5, <1>6, <1>7, <1>8
     DEF UpgradeLabels, UninstallLabels, Codes

LEMMA InitContiguous == Init => ContiguousInv
BY DEF Init, HistInit, ContiguousInv, HistoryContiguous, HoldsExisting, History,
       UpgradeLabels, UninstallLabels

(* When no user asks for a purge, revisions are numbered from 1 without a    *)
(* gap, whatever fails, crashes or interferes: prepareUpdate numbers a new   *)
(* one after the last, and the last is still there when it is recorded.      *)
THEOREM ContiguousHistory ==
  ASSUME Purging = {FALSE}
  PROVE  Spec => []HistoryContiguous
<1>1. TypeInv /\ ContiguousInv /\ [Next]_vars => ContiguousInv'
  BY ContiguousStep
<1>2. ContiguousInv => HistoryContiguous
  BY DEF ContiguousInv
<1> QED
  BY <1>1, <1>2, InitContiguous, TypeInvariant, PTL DEF Spec

-----------------------------------------------------------------------------
(* Only the newest revision is DEPLOYED, as long as the store does not fail. *)

LEMMA StoreWorks ==
  ASSUME TypeInv, Limit["store"] = 0
  PROVE  ~Spend("store")
<1>1. used["store"] \in Nat
  BY DEF TypeInv, TypeOK, Kinds
<1>2. ~(used["store"] < Limit["store"])
  BY <1>1
<1> QED
  BY <1>2 DEF Spend

(* The original release is then superseded for certain.                      *)
LEMMA SupersedeWorks ==
  ASSUME TypeInv, ContiguousInv, Limit["store"] = 0, Supersede \/ FailSupersede
  PROVE  /\ hist' = [hist EXCEPT ![StoreKey][cur.rev] = Superseded]
         /\ pc \in UpgradeLabels /\ cur.rev \in History(StoreKey)
<1>1. pc \in UpgradeLabels /\ pc # "idle" /\ Rewrite(Superseded)
  BY DEF Supersede, FailSupersede, UpgradeLabels
<1>2. cur.rev \in History(StoreKey)
  BY <1>1, HeldType DEF ContiguousInv, HoldsExisting
<1> QED
  BY <1>1, <1>2, StoreWorks DEF Rewrite, StoreUpdate

(* Writing a record that is not DEPLOYED over one that exists.               *)
LEMMA RewriteNewest ==
  ASSUME TypeInv, OnlyNewestDeployed, NEW k \in Keys, NEW r \in History(k),
         NEW rec \in Records, rec.code # "DEPLOYED",
         hist' = [hist EXCEPT ![k][r] = rec]
  PROVE  /\ OnlyNewestDeployed'
         /\ \A p : IsLast(k, p) => IsLast(k, p)'
         /\ hist'[k][r].code # "DEPLOYED"
<1>1. r \in 1..MaxRev
  BY DEF History
<1>2. /\ History(k)' = History(k)
      /\ \A q \in Keys : q # k => hist'[q] = hist[q] /\ History(q)' = History(q)
      /\ \A p \in 1..MaxRev : hist'[k][p] = IF p = r THEN rec ELSE hist[k][p]
  <2>1. History(k)' = History(k) \cup {r}
    BY <1>1, WrittenHistory
  <2>2. \A q \in Keys : q # k => hist'[q] = hist[q] /\ History(q)' = History(q)
    BY <1>1, WrittenHistory
  <2>3. \A p \in 1..MaxRev : hist'[k][p] = IF p = r THEN rec ELSE hist[k][p]
    BY <1>1, WrittenHistory
  <2> QED
    BY <2>1, <2>2, <2>3
<1>3. ASSUME NEW q \in Keys, NEW p \in History(q)', hist'[q][p].code = "DEPLOYED"
      PROVE  \A o \in History(q)' : o <= p
  <2>1. CASE q # k
    BY <1>2, <1>3, <2>1 DEF OnlyNewestDeployed
  <2>2. CASE q = k
    <3>1. p \in 1..MaxRev /\ p # r
      BY <1>2, <1>3, <2>2 DEF History
    <3> QED
      BY <1>2, <1>3, <2>2, <3>1 DEF OnlyNewestDeployed
  <2> QED
    BY <2>1, <2>2
<1>4. OnlyNewestDeployed'
  BY <1>3 DEF OnlyNewestDeployed
<1>5. \A p : IsLast(k, p) => IsLast(k, p)'
  BY <1>2 DEF IsLast
<1> QED
  BY <1>1, <1>2, <1>4, <1>5

(* Adding the revision after the last one, when none is DEPLOYED.            *)
LEMMA AddNewest ==
  ASSUME TypeInv, OnlyNewestDeployed, NEW k \in Keys, NEW n \in 1..MaxRev,
         NEW rec \in Records, hist' = [hist EXCEPT ![k][n] = rec],
         \A q \in History(k) : q < n /\ hist[k][q].code # "DEPLOYED"
  PROVE  OnlyNewestDeployed' /\ IsLast(k, n)'
<1>1. /\ History(k)' = History(k) \cup {n}
      /\ \A q \in Keys : q # k => hist'[q] = hist[q] /\ History(q)' = History(q)
      /\ \A p \in 1..MaxRev : hist'[k][p] = IF p = n THEN rec ELSE hist[k][p]
  <2>1. History(k)' = History(k) \cup {n}
    BY WrittenHistory
  <2>2. \A q \in Keys : q # k => hist'[q] = hist[q] /\ History(q)' = History(q)
    BY WrittenHistory
  <2>3. \A p \in 1..MaxRev : hist'[k][p] = IF p = n THEN rec ELSE hist[k][p]
    BY WrittenHistory
  <2> QED
    BY <2>1, <2>2, <2>3
<1>2. \A q \in History(k)' : q <= n /\ q \in 1..MaxRev
  BY <1>1 DEF History
<1>3. ASSUME NEW q \in Keys, NEW p \in History(q)', hist'[q][p].code = "DEPLOYED"
      PROVE  \A o \in History(q)' : o <= p
  <2>1. CASE q # k
    BY <1>1, <1>3, <2>1 DEF OnlyNewestDeployed
  <2>2. CASE q = k
    <3>1. p = n
      BY <1>1, <1>2, <1>3, <2>2
    <3> QED
      BY <1>2, <2>2, <3>1
  <2> QED
    BY <2>1, <2>2
<1>4. OnlyNewestDeployed'
  BY <1>3 DEF OnlyNewestDeployed
<1>5. IsLast(k, n)'
  BY <1>1, <1>2 DEF IsLast
<1> QED
  BY <1>4, <1>5

(* When a record is added, none of its release is DEPLOYED and none is as    *)
(* new.                                                                      *)
LEMMA NoneDeployed ==
  ASSUME TypeInv, NewestInv, pc \in {"record", "failRecord"},
         NextRev \notin History(StoreKey)
  PROVE  \A q \in History(StoreKey) :
           q < NextRev /\ hist[StoreKey][q].code # "DEPLOYED"
<1>1. StoreKey \in Keys /\ cur.rev \in 0..MaxRev /\ NextRev = cur.rev + 1
  BY HeldType DEF NextRev
<1>2. CASE cur = NoCur
  <2>1. NextRev = 1
    BY <1>1, <1>2 DEF NoCur
  <2>2. ASSUME NEW q \in History(StoreKey) PROVE FALSE
    <3>1. q \in 1..MaxRev /\ 1..q \subseteq History(StoreKey)
      BY <1>1 DEF NewestInv, ContiguousInv, HistoryContiguous, History
    <3>2. 1 \in 1..q
      BY <3>1
    <3> QED
      BY <2>1, <3>1, <3>2
  <2> QED
    BY <2>2
<1>3. CASE cur # NoCur
  <2>1. IsLast(StoreKey, cur.rev) /\ hist[StoreKey][cur.rev].code # "DEPLOYED"
    BY <1>3 DEF NewestInv, HoldsLast, UpgradeLabels, RetiredLabels, IsLast
  <2>2. ASSUME NEW q \in History(StoreKey)
        PROVE  q < NextRev /\ hist[StoreKey][q].code # "DEPLOYED"
    <3>1. q \in 1..MaxRev /\ q <= cur.rev
      BY <2>1 DEF IsLast, History
    <3>2. hist[StoreKey][q].code = "DEPLOYED" => cur.rev <= q
      BY <1>1, <2>1 DEF NewestInv, OnlyNewestDeployed, IsLast
    <3>3. hist[StoreKey][q].code = "DEPLOYED" => q = cur.rev
      BY <1>1, <3>1, <3>2
    <3> QED
      BY <1>1, <2>1, <3>1, <3>3
  <2> QED
    BY <2>2
<1> QED
  BY <1>2, <1>3

LEMMA UnchangedNewest ==
  ASSUME OnlyNewestDeployed, UNCHANGED hist
  PROVE  OnlyNewestDeployed' /\ \A k \in Keys : \A r : IsLast(k, r) => IsLast(k, r)'
BY DEF OnlyNewestDeployed, IsLast, History

LEMMA NewestStep ==
  ASSUME Purging = {FALSE}, Limit["store"] = 0, TypeInv, NewestInv, [Next]_vars
  PROVE  OnlyNewestDeployed' /\ HoldsLast'
<1> USE DEF NewestInv
<1>1. CASE UNCHANGED <<hist, cache, env, worker>>
  BY <1>1, UnchangedNewest DEF HoldsLast, worker, IsLast, History, StoreKey, NextRev
<1>2. ASSUME NEW k \in Keys,
             AddFunc(k) \/ UpdateFuncIgnores(k) \/ UpdateFunc(k) \/ DeleteFunc(k)
      PROVE  OnlyNewestDeployed' /\ HoldsLast'
  <2>1. UNCHANGED hist
    BY <1>2, DeliverBegins
  <2>2. CASE pc' \notin UpgradeLabels \cup {"record"}
    BY <2>1, <2>2, UnchangedNewest DEF HoldsLast, RetiredLabels, UpgradeLabels
  <2>3. ASSUME env' = env, at' = k, env \in Namespaces,
               NEW r \in 1..MaxRev, IsLast(<<env, k[2]>>, r),
               cur' = [rev |-> r, rec |-> hist[<<env, k[2]>>][r]],
               pc' = "preUpgrade"
        PROVE  OnlyNewestDeployed' /\ HoldsLast'
    <3>1. StoreKey' = <<env, k[2]>> /\ cur'.rev = r /\ <<env, k[2]>> \in Keys
      BY <2>3 DEF StoreKey, Keys
    <3>2. IsLast(StoreKey, cur.rev)'
      BY <2>1, <2>3, <3>1 DEF IsLast, History
    <3> QED
      BY <2>1, <2>3, <3>2, UnchangedNewest DEF HoldsLast, RetiredLabels
  <2> QED
    BY <1>2, <2>2, <2>3, DeliverBegins DEF UpgradeLabels
<1>3. CASE hist' = hist /\ pc' = "idle"
  BY <1>3, UnchangedNewest DEF HoldsLast, UpgradeLabels, RetiredLabels
<1>4. CASE Storeless
  <2>1. /\ UNCHANGED hist /\ env' = env /\ pc # "idle"
        /\ \/ pc' = "idle"
           \/ /\ at' = at /\ cur' = cur
              /\ pc' \in UpgradeLabels => pc \in UpgradeLabels
              /\ pc' = "record" => pc \in {"installStatus", "upgradeStatus"}
              /\ pc' \notin RetiredLabels
    BY <1>4, StorelessKeeps
  <2>2. pc = "installStatus" => cur = NoCur
    BY DEF TypeInv, WorkerShape, InstallLabels
  <2>3. CASE pc' = "idle"
    BY <2>1, <2>3, UnchangedNewest DEF HoldsLast, UpgradeLabels, RetiredLabels
  <2>4. CASE pc' \in UpgradeLabels \cup {"record"}
    <3>1. StoreKey' = StoreKey /\ cur' = cur /\ pc' \notin RetiredLabels
      BY <2>1, <2>4 DEF StoreKey, UpgradeLabels
    <3>2. pc' \in UpgradeLabels => IsLast(StoreKey, cur.rev)'
      BY <2>1, <2>4, <3>1 DEF HoldsLast, IsLast, History, UpgradeLabels
    <3>3. pc' = "record" /\ cur # NoCur =>
            /\ (hist[StoreKey][cur.rev].code # "DEPLOYED")'
            /\ IsLast(StoreKey, cur.rev)'
      BY <2>1, <2>2, <2>4, <3>1
         DEF HoldsLast, IsLast, History, UpgradeLabels, RetiredLabels
    <3> QED
      BY <2>1, <3>1, <3>2, <3>3, UnchangedNewest DEF HoldsLast
  <2>5. CASE pc' \notin UpgradeLabels \cup {"record"}
    BY <2>1, <2>5, UnchangedNewest DEF HoldsLast, UpgradeLabels, RetiredLabels
  <2> QED
    BY <2>3, <2>4, <2>5
<1>5. CASE \/ Rewrites("SUPERSEDED", "supersede", "upgradeStatus") /\ Supersede
           \/ Rewrites("SUPERSEDED", "failSupersede", "failRecord") /\ FailSupersede
  <2>1. /\ hist' = [hist EXCEPT ![StoreKey][cur.rev] = Superseded]
        /\ pc \in UpgradeLabels /\ pc # "idle" /\ cur.rev \in History(StoreKey)
    BY <1>5, SupersedeWorks DEF UpgradeLabels
  <2>2. /\ pc' \in {"idle", "upgradeStatus", "failRecord"}
        /\ env' = env /\ (pc' # "idle" => at' = at /\ cur' = cur)
    BY <1>5 DEF Rewrites
  <2>3. Superseded \in Records /\ Superseded.code = "SUPERSEDED"
    BY <2>1, HeldType DEF Superseded, Records, Codes
  <2> PICK s \in Keys : s = StoreKey
    BY <2>1, HeldType
  <2> PICK r \in History(s) : r = cur.rev
    BY <2>1
  <2> PICK rec \in Records : rec = Superseded
    BY <2>3
  <2>4. /\ OnlyNewestDeployed'
        /\ IsLast(s, r) => IsLast(s, r)'
        /\ hist'[s][r].code # "DEPLOYED"
    BY <2>1, <2>3, RewriteNewest
  <2>5. IsLast(s, r)
    BY <2>1 DEF HoldsLast
  <2>6. pc' # "idle" => StoreKey' = s /\ cur'.rev = r
    BY <2>2 DEF StoreKey
  <2>7. pc' # "idle" => /\ IsLast(StoreKey, cur.rev)'
                        /\ (hist[StoreKey][cur.rev].code # "DEPLOYED")'
    BY <2>4, <2>5, <2>6 DEF IsLast
  <2> QED
    BY <2>2, <2>4, <2>7 DEF HoldsLast, UpgradeLabels, RetiredLabels
<1>6. ASSUME NEW c \in {"DELETING", "DELETED"},
             NEW label \in {"markDeleting", "markDeleted"},
             NEW next \in {"deleting", "idle"}, Rewrites(c, label, next)
      PROVE  OnlyNewestDeployed' /\ HoldsLast'
  <2>1. HoldsLast'
    BY <1>6 DEF Rewrites, HoldsLast, UpgradeLabels, RetiredLabels
  <2>2. CASE UNCHANGED hist
    BY <2>1, <2>2, UnchangedNewest
  <2>3. CASE /\ cur.rev \in History(StoreKey)
             /\ hist' = [hist EXCEPT ![StoreKey][cur.rev] = [cur.rec EXCEPT !.code = c]]
    <3>1. pc \in UninstallLabels /\ pc # "idle"
      BY <1>6 DEF Rewrites, UninstallLabels
    <3>2. PICK s \in Keys : s = StoreKey
      BY <3>1, HeldType
    <3>3. PICK rec \in Records : rec = [cur.rec EXCEPT !.code = c] /\ rec.code = c
      <4>1. cur.rec \in Records /\ c \in Codes
        BY <3>1, HeldType DEF Codes
      <4>2. /\ [cur.rec EXCEPT !.code = c] \in Records
            /\ [cur.rec EXCEPT !.code = c].code = c
        BY <4>1 DEF Records
      <4> QED
        BY <4>2
    <3> QED
      BY <2>1, <2>3, <3>2, <3>3, RewriteNewest
  <2> QED
    BY <1>6, <2>2, <2>3 DEF Rewrites
<1>7. CASE Adds
  <2>1. /\ pc # "idle" /\ pc \in {"record", "failRecord"}
        /\ env' = env
        /\ \/ pc' = "idle"
           \/ pc = "failRecord" /\ pc' = "record" /\ at' = at /\ cur' = cur
    BY <1>7 DEF Adds
  <2>2. StoreKey \in Keys /\ NextRev \in 1..MaxRev /\ NewRecord \in Records
    BY <2>1, HeldType
  <2> PICK s \in Keys : s = StoreKey
    BY <2>2
  <2> PICK n \in 1..MaxRev : n = NextRev
    BY <2>2
  <2> PICK rec \in Records : rec = NewRecord
    BY <2>2
  <2>3. CASE UNCHANGED hist
    <3>1. pc' = "record" => StoreKey' = StoreKey /\ cur' = cur
      BY <2>1 DEF StoreKey
    <3>2. pc' = "record" => /\ IsLast(StoreKey, cur.rev)'
                            /\ (hist[StoreKey][cur.rev].code # "DEPLOYED")'
      BY <2>1, <2>3, <3>1 DEF HoldsLast, IsLast, History, UpgradeLabels, RetiredLabels
    <3> QED
      BY <2>1, <2>3, <3>2, UnchangedNewest DEF HoldsLast, UpgradeLabels, RetiredLabels
  <2>4. CASE NextRev \notin History(StoreKey) /\ hist' = [hist EXCEPT ![s][n] = rec]
    <3>1. \A q \in History(s) : q < n /\ hist[s][q].code # "DEPLOYED"
      BY <2>1, <2>4, NoneDeployed
    <3>2. OnlyNewestDeployed' /\ IsLast(s, n)'
      BY <2>4, <3>1, AddNewest
    <3>3. ASSUME pc' = "record"
          PROVE  HoldsLast'
      <4>1. pc = "failRecord" /\ StoreKey' = s /\ cur' = cur /\ NextRev' = n
        BY <2>1, <3>3 DEF StoreKey, NextRev
      <4>2. cur.rev \in 1..MaxRev /\ cur.rev # n
        BY <2>1, <4>1, HeldType DEF NextRev, UpgradeLabels
      <4>3. hist[s][cur.rev].code # "DEPLOYED"
        BY <4>1 DEF HoldsLast, RetiredLabels
      <4>4. (hist[StoreKey][cur.rev].code # "DEPLOYED")'
        <5>1. hist'[s][cur.rev] = hist[s][cur.rev]
          BY <2>4, <4>2, WrittenHistory
        <5> QED
          BY <4>1, <4>3, <5>1
      <4>5. IsLast(StoreKey, NextRev)'
        <5>1. (n \in History(s) /\ \A q \in History(s) : q <= n)'
          BY <3>2 DEF IsLast
        <5>2. (StoreKey = s /\ NextRev = n)'
          BY <4>1
        <5> QED
          BY <5>1, <5>2 DEF IsLast
      <4> QED
        BY <3>3, <4>4, <4>5 DEF HoldsLast, UpgradeLabels, RetiredLabels
    <3> QED
      BY <2>1, <3>2, <3>3 DEF HoldsLast, UpgradeLabels, RetiredLabels
  <2> QED
    BY <1>7, <2>3, <2>4 DEF Adds
<1>8. ~Purges
  BY DEF Purges, ContiguousInv
<1> QED
  BY StepKinds, <1>1, <1>2, <1>3, <1>4, <1>5, <1>6, <1>7, <1>8

LEMMA InitNewest == Init => NewestInv
BY InitContiguous
   DEF Init, HistInit, NewestInv, OnlyNewestDeployed, HoldsLast, History,
       UpgradeLabels, RetiredLabels

(* While nothing is purged and the record store does not fail, at most the   *)
(* newest revision is DEPLOYED: whatever crashes between two writes of a     *)
(* handler, and whatever else fails, two revisions are never DEPLOYED.       *)
THEOREM NewestDeployed ==
  ASSUME Purging = {FALSE}, Limit["store"] = 0
  PROVE  Spec => []OnlyNewestDeployed
<1>1. TypeInv /\ NewestInv /\ [Next]_vars => NewestInv'
  BY ContiguousStep, NewestStep DEF NewestInv
<1>2. NewestInv => OnlyNewestDeployed
  BY DEF NewestInv
<1> QED
  BY <1>1, <1>2, InitNewest, TypeInvariant, PTL DEF Spec
=============================================================================
