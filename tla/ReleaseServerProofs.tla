------------------------ MODULE ReleaseServerProofs ------------------------
(***************************************************************************)
(* Theorems about the release server, for every value of the constants.     *)
(***************************************************************************)
EXTENDS ReleaseServerProps, TLAPS

InstallLabels == {"preInstall", "create", "postInstall", "installStatus"}

UpgradeLabels == {"preUpgrade", "kubeUpdate", "postUpgrade", "supersede",
                  "upgradeStatus", "failStatus", "failSupersede", "failRecord"}

UninstallLabels == {"purge", "preDelete", "markDeleting", "deleting", "markDeleted"}

HoldsRecord == cur.rev \in 1..MaxRev /\ cur.rec \in Records

(* What a handler has at hand at each label: its key, a store, the cached    *)
(* object it works on, the record it read and room for the next revision.    *)
WorkerShape ==
  /\ at \in Keys <=> pc # "idle"
  /\ pc # "idle" => env \in Namespaces
  /\ pc \in InstallLabels => cur = NoCur
  /\ pc \in UpgradeLabels \cup UninstallLabels => HoldsRecord
  /\ pc = "record" => cur = NoCur \/ HoldsRecord
  /\ pc \in ReleaseLabels => cache[at] \in Objects /\ cur.rev < MaxRev
  /\ \A k \in Keys : cache[k] # NoObj => env \in Namespaces

(* The same of the rollback goroutine.                                       *)
RollbackShape ==
  /\ rb.pc # "idle" => /\ rb.req \in 1..Len(events)
                       /\ NameOf(events[rb.req].object) \in Names
                       /\ rb.cur.rev \in 1..MaxRev
                       /\ rb.cur.rec \in Records
                       /\ env \in Namespaces
  /\ rb.pc \in {"read", "write"} => rb.ns \in Namespaces /\ rb.tgt \in Records

TypeInv == TypeOK /\ WorkerShape /\ RollbackShape

-----------------------------------------------------------------------------
(* What the operators of the model yield, as far as types go. *)

(* A decoded status is a status.                                             *)
LEMMA WireType ==
  ASSUME NEW s \in Statuses
  PROVE  Wire(s) \in Statuses
BY DEF Wire, Statuses, Decoded, Times

(* The manifest of a spec is a manifest, of resources.                       *)
LEMMA ManifestType ==
  ASSUME NEW s \in Specs
  PROVE  /\ Manifest(s) \in Manifests
         /\ Targets(Manifest(s)) \in SUBSET Resources
BY ReleaseAssumption DEF Manifest, Manifests, Specs, Targets

(* A counter of events stays a counter.                                      *)
LEMMA UsedType ==
  ASSUME used \in [Kinds -> Nat],
         \/ Works
         \/ \E kind \in Kinds : Spend(kind)
  PROVE  used' \in [Kinds -> Nat]
BY DEF Works, Spend

(* DeltaFIFO holds deltas, with one more appended or the last replaced.      *)
LEMMA QueuedType ==
  ASSUME NEW ds \in Seq(Deltas), NEW d \in Deltas
  PROVE  Queued(ds, d) \in Seq(Deltas)
BY DEF Queued

LEMMA NotifyType ==
  ASSUME pending \in [Keys -> Seq(Deltas)], NEW k \in Keys, NEW d \in Deltas,
         Notify(k, d)
  PROVE  pending' \in [Keys -> Seq(Deltas)]
<1>1. Queued(pending[k], d) \in Seq(Deltas)
  BY QueuedType
<1> QED
  BY <1>1 DEF Notify

(* An accepted write of a Release object keeps the types of what it changes. *)
LEMMA PutType ==
  ASSUME TypeOK, NEW k \in Keys, NEW spec \in Specs, NEW status \in Statuses,
         Put(k, spec, status)
  PROVE  /\ api' \in [Keys -> Objects \cup {NoObj}]
         /\ lastRv' \in Nat
         /\ pending' \in [Keys -> Seq(Deltas)]
<1> DEFINE o == [rv |-> lastRv + 1, spec |-> spec, status |-> status]
<1>1. o \in Objects
  BY DEF TypeOK, Objects
<1>2. Set(o) \in Deltas
  BY <1>1 DEF Set, Deltas
<1>3. Notify(k, Set(o)) /\ api' = [api EXCEPT ![k] = o] /\ lastRv' = lastRv + 1
  BY DEF Put
<1>4. pending' \in [Keys -> Seq(Deltas)]
  BY <1>2, <1>3, NotifyType DEF TypeOK
<1> HIDE DEF o
<1>5. api' \in [Keys -> Objects \cup {NoObj}]
  BY <1>1, <1>3 DEF TypeOK
<1>6. lastRv' \in Nat
  BY <1>3 DEF TypeOK
<1> QED
  BY <1>4, <1>5, <1>6

(* The record store holds records, whatever the operation.                   *)
LEMMA StoreType ==
  ASSUME HistTypeOK, NEW k \in Keys, NEW r \in 1..MaxRev,
         NEW rec \in Records \cup {NoRec},
         \/ StoreCreate(k, r, rec)
         \/ StoreUpdate(k, r, rec)
         \/ rec = NoRec /\ StoreDelete(k, r)
  PROVE  HistTypeOK'
<1>1. [hist EXCEPT ![k][r] = rec] \in [Keys -> [1..MaxRev -> Records \cup {NoRec}]]
  BY DEF HistTypeOK
<1>2. hist' = hist \/ hist' = [hist EXCEPT ![k][r] = rec]
  BY DEF StoreCreate, StoreUpdate, StoreDelete
<1> QED
  BY <1>1, <1>2 DEF HistTypeOK

(* The cluster holds resources made from manifests, whatever the operation.  *)
LEMMA CreatedType ==
  ASSUME LiveTypeOK, NEW ns \in Namespaces, NEW m \in Manifests, NEW done,
         Created(ns, m, done)
  PROVE  LiveTypeOK'
BY DEF LiveTypeOK, Created

LEMMA AppliedType ==
  ASSUME LiveTypeOK, NEW ns \in Namespaces, NEW orig \in Manifests,
         NEW target \in Manifests, NEW done, NEW gone,
         Applied(ns, orig, target, done, gone)
  PROVE  LiveTypeOK'
<1>1. ASSUME NEW r \in Resources, live[ns][r] # NoRes
      PROVE  Patched(orig, target, live[ns][r]) \in Manifests
  BY <1>1 DEF LiveTypeOK, Patched, Manifests
<1> QED
  BY <1>1 DEF LiveTypeOK, Applied

LEMMA DeletedType ==
  ASSUME LiveTypeOK, NEW ns \in Namespaces, NEW r \in Resources, Deleted(ns, r)
  PROVE  LiveTypeOK'
BY DEF LiveTypeOK, Deleted

(* The revisions that exist, and the last one, are revisions.                *)
LEMMA HistoryType ==
  ASSUME HistTypeOK, NEW k \in Keys, NEW r \in History(k)
  PROVE  r \in 1..MaxRev /\ hist[k][r] \in Records
BY DEF HistTypeOK, History

(* One more index.                                                           *)
LEMMA IndexType ==
  ASSUME NEW n \in Nat, NEW S, S \subseteq 1..n
  PROVE  S \cup {n + 1} \in SUBSET (1..(n + 1))
OBVIOUS

(* A request is a rollback request, a user's spec a spec.                    *)
LEMMA InputType ==
  /\ UserSpecs \subseteq Specs
  /\ NewStatus \in Statuses
  /\ Keyless \notin Keys
  /\ NoObj \notin Objects
  /\ NoRec \notin Records
  /\ NoNs \notin Namespaces
BY ServerAssumption, AbsenceAssumption, ReleaseAssumption
   DEF NewStatus, Statuses, Codes, Times, Keyless, Keys

(* What the worker holds is untouched when nothing it rests on changes, and  *)
(* likewise for the rollback goroutine.                                      *)
LEMMA WorkerShapeKept ==
  ASSUME WorkerShape, UNCHANGED <<cache, env, worker>>
  PROVE  WorkerShape'
BY DEF WorkerShape, HoldsRecord, worker

LEMMA RollbackShapeKept ==
  ASSUME RollbackShape, env \in Namespaces => env' \in Namespaces, UNCHANGED rollback
  PROVE  RollbackShape'
BY DEF RollbackShape, rollback

-----------------------------------------------------------------------------
(* Every action keeps the type invariant: users and the watch. *)

LEMMA CreateReleaseType ==
  ASSUME TypeInv, NEW k \in Keys, CreateRelease(k)
  PROVE  TypeInv'
<1>1. PICK s \in UserSpecs : Put(k, s, NewStatus)
  BY DEF CreateRelease
<1>2. used' \in [Kinds -> Nat]
  BY UsedType DEF CreateRelease, TypeInv, TypeOK, Kinds
<1>3. /\ api' \in [Keys -> Objects \cup {NoObj}]
      /\ lastRv' \in Nat
      /\ pending' \in [Keys -> Seq(Deltas)]
  BY <1>1, PutType, InputType DEF TypeInv
<1>4. UNCHANGED <<hist, live, watching, cache, env, worker, rollback>>
  BY DEF CreateRelease
<1>5. TypeOK'
  BY <1>2, <1>3, <1>4 DEF TypeInv, TypeOK, HistTypeOK, LiveTypeOK, worker, rollback
<1> QED
  BY <1>4, <1>5, WorkerShapeKept, RollbackShapeKept DEF TypeInv

LEMMA EditReleaseType ==
  ASSUME TypeInv, NEW k \in Keys, EditRelease(k)
  PROVE  TypeInv'
<1>1. PICK s \in UserSpecs : Put(k, s, api[k].status)
  BY DEF EditRelease
<1>2. used' \in [Kinds -> Nat]
  BY UsedType DEF EditRelease, TypeInv, TypeOK, Kinds
<1>3. api[k].status \in Statuses
  BY DEF EditRelease, TypeInv, TypeOK, Objects
<1>4. /\ api' \in [Keys -> Objects \cup {NoObj}]
      /\ lastRv' \in Nat
      /\ pending' \in [Keys -> Seq(Deltas)]
  BY <1>1, <1>3, PutType, InputType DEF TypeInv
<1>5. UNCHANGED <<hist, live, watching, cache, env, worker, rollback>>
  BY DEF EditRelease
<1>6. TypeOK'
  BY <1>2, <1>4, <1>5 DEF TypeInv, TypeOK, HistTypeOK, LiveTypeOK, worker, rollback
<1> QED
  BY <1>5, <1>6, WorkerShapeKept, RollbackShapeKept DEF TypeInv

LEMMA DeleteReleaseType ==
  ASSUME TypeInv, NEW k \in Keys, DeleteRelease(k)
  PROVE  TypeInv'
<1>1. used' \in [Kinds -> Nat]
  BY UsedType DEF DeleteRelease, TypeInv, TypeOK, Kinds
<1>2. [kind |-> "del"] \in Deltas
  BY DEF Deltas
<1>3. pending' \in [Keys -> Seq(Deltas)]
  BY <1>2, NotifyType DEF DeleteRelease, TypeInv, TypeOK
<1>4. UNCHANGED <<lastRv, hist, live, watching, cache, env, worker, rollback>>
  BY DEF DeleteRelease
<1>5. api' \in [Keys -> Objects \cup {NoObj}]
  BY DEF DeleteRelease, TypeInv, TypeOK
<1>6. TypeOK'
  BY <1>1, <1>3, <1>4, <1>5
     DEF TypeInv, TypeOK, HistTypeOK, LiveTypeOK, worker, rollback
<1> QED
  BY <1>4, <1>6, WorkerShapeKept, RollbackShapeKept DEF TypeInv

LEMMA PostRollbackType ==
  ASSUME TypeInv, PostRollback
  PROVE  TypeInv'
<1>1. PICK q \in Requests : events' = Append(events, q)
  BY DEF PostRollback
<1>2. used' \in [Kinds -> Nat]
  BY UsedType DEF PostRollback, TypeInv, TypeOK, Kinds
<1>3. UNCHANGED <<apiVars, hist, live, informer, env, worker, rb>>
  BY DEF PostRollback
<1>4. /\ events' \in Seq(Requests)
      /\ Len(events') = Len(events) + 1
      /\ Len(events) \in Nat
  BY <1>1 DEF TypeInv, TypeOK
<1>5. unread' \in SUBSET (1..Len(events'))
  <2>1. unread' = unread \cup {Len(events) + 1} /\ unread \subseteq 1..Len(events)
    BY DEF PostRollback, TypeInv, TypeOK
  <2> QED
    BY <1>4, <2>1, IndexType
<1>6. TypeOK'
  BY <1>2, <1>3, <1>4, <1>5
     DEF TypeInv, TypeOK, HistTypeOK, LiveTypeOK, worker, apiVars, informer
<1>7. WorkerShape'
  BY <1>3, WorkerShapeKept DEF TypeInv, informer
<1>8. RollbackShape'
  <2>1. ASSUME rb.pc # "idle"
        PROVE  events'[rb.req] = events[rb.req] /\ rb.req \in 1..Len(events')
    BY <1>1, <1>4, <2>1 DEF TypeInv, TypeOK, RollbackShape
  <2> QED
    BY <1>3, <1>4, <2>1 DEF TypeInv, RollbackShape
<1> QED
  BY <1>6, <1>7, <1>8 DEF TypeInv

LEMMA WatchCloseType ==
  ASSUME TypeInv, WatchClose
  PROVE  TypeInv'
<1>1. used' \in [Kinds -> Nat]
  BY UsedType DEF WatchClose, TypeInv, TypeOK, Kinds
<1>2. /\ UNCHANGED <<apiVars, hist, live, pending, cache, env, worker, rollback>>
      /\ watching' = "closed"
  BY DEF WatchClose
<1>3. TypeOK'
  BY <1>1, <1>2
     DEF TypeInv, TypeOK, HistTypeOK, LiveTypeOK, worker, apiVars, rollback
<1> QED
  BY <1>2, <1>3, WorkerShapeKept, RollbackShapeKept DEF TypeInv

(* An object the API server has makes a delta.                               *)
LEMMA SetType ==
  ASSUME NEW o \in Objects
  PROVE  Set(o) \in Deltas
BY DEF Set, Deltas

LEMMA WatchOpenType ==
  ASSUME TypeInv, WatchOpen
  PROVE  TypeInv'
<1>1. /\ UNCHANGED <<apiVars, hist, live, cache, env, worker, rollback, used>>
      /\ watching' = "open"
  BY DEF WatchOpen, Works
<1>2. ASSUME NEW k \in Keys
      PROVE  (IF api[k] = NoObj THEN pending[k] ELSE Append(pending[k], Set(api[k])))
               \in Seq(Deltas)
  BY SetType DEF TypeInv, TypeOK
<1>3. pending' \in [Keys -> Seq(Deltas)]
  BY <1>2 DEF WatchOpen
<1>4. TypeOK'
  BY <1>1, <1>3
     DEF TypeInv, TypeOK, HistTypeOK, LiveTypeOK, worker, apiVars, rollback
<1> QED
  BY <1>1, <1>4, WorkerShapeKept, RollbackShapeKept DEF TypeInv

LEMMA RelistType ==
  ASSUME TypeInv, Relist
  PROVE  TypeInv'
<1>1. /\ UNCHANGED <<apiVars, hist, live, cache, env, worker, rollback, used>>
      /\ watching' = "listed"
  BY DEF Relist, Works
<1>2. [kind |-> "gone"] \in Deltas
  BY DEF Deltas
<1>3. ASSUME NEW k \in Keys
      PROVE  /\ pending[k] \in Seq(Deltas)
             /\ Queued(pending[k], [kind |-> "gone"]) \in Seq(Deltas)
             /\ api[k] # NoObj => Append(pending[k], Set(api[k])) \in Seq(Deltas)
  BY <1>2, SetType, QueuedType DEF TypeInv, TypeOK
<1>4. pending' \in [Keys -> Seq(Deltas)]
  BY <1>3 DEF Relist
<1>5. TypeOK'
  BY <1>1, <1>4
     DEF TypeInv, TypeOK, HistTypeOK, LiveTypeOK, worker, apiVars, rollback
<1> QED
  BY <1>1, <1>5, WorkerShapeKept, RollbackShapeKept DEF TypeInv

-----------------------------------------------------------------------------
(* Every action keeps the type invariant: the informer's handlers. *)

(* The next delta, and the queue without it.                                 *)
LEMMA PopType ==
  ASSUME TypeOK, NEW k \in Keys, Pop(k)
  PROVE  /\ pending' \in [Keys -> Seq(Deltas)]
         /\ Head(pending[k]).kind = "set" => Head(pending[k]).obj \in Objects
         /\ watching' = watching
         /\ pc = "idle"
<1>1. pending[k] \in Seq(Deltas) /\ pending[k] # <<>>
  BY DEF Pop, TypeOK
<1>2. Tail(pending[k]) \in Seq(Deltas) /\ Head(pending[k]) \in Deltas
  BY <1>1
<1>3. Head(pending[k]).kind = "set" => Head(pending[k]).obj \in Objects
  BY <1>2 DEF Deltas
<1> QED
  BY <1>2, <1>3 DEF Pop, TypeOK

(* A handler that ends at once leaves the worker idle.                       *)
LEMMA IdleShape ==
  ASSUME pc' = "idle", at' \notin Keys,
         env' \in Namespaces \/ \A k \in Keys : cache'[k] = NoObj
  PROVE  WorkerShape'
BY DEF WorkerShape, InstallLabels, UpgradeLabels, UninstallLabels, ReleaseLabels

LEMMA RenderType ==
  ASSUME used \in [Kinds -> Nat], NEW spec, RenderFails(spec) \/ Renders(spec)
  PROVE  used' \in [Kinds -> Nat]
BY UsedType DEF RenderFails, Renders, Kinds

(* A handler that goes no further caches one of two objects.                 *)
LEMMA FailsType ==
  ASSUME used \in [Kinds -> Nat], NEW k, NEW o \in Objects, NEW filled \in Objects,
         PrepareFails(k, o, filled)
  PROVE  /\ used' \in [Kinds -> Nat]
         /\ \E c \in {o, filled} : Cached(k, c)
<1>1. CASE RenderFails(o.spec) /\ Cached(k, filled)
  BY <1>1, RenderType
<1>2. CASE Works /\ Cached(k, o)
  BY <1>2 DEF Works
<1> QED
  BY <1>1, <1>2 DEF PrepareFails

(* Values that are filled in leave the rest of an object as it is.           *)
LEMMA CompletedType ==
  ASSUME NEW o \in Objects
  PROVE  /\ Completed(o) \in Objects
         /\ Completed(o).rv = o.rv /\ Completed(o).status = o.status
BY ReleaseAssumption DEF Completed, Objects, Specs

LEMMA AddFuncType ==
  ASSUME TypeInv, NEW k \in Keys, AddFunc(k)
  PROVE  TypeInv'
<1> DEFINE o == Head(pending[k]).obj
<1>1. /\ Pop(k) /\ Head(pending[k]).kind = "set"
      /\ UNCHANGED <<apiVars, hist, live, rollback>>
      /\ env' = k[1]
  BY DEF AddFunc, StoreNamespace
<1>2. /\ o \in Objects
      /\ pending' \in [Keys -> Seq(Deltas)]
      /\ watching' = watching
      /\ pc = "idle"
  BY <1>1, PopType DEF TypeInv
<1>3. env' \in Namespaces
  BY <1>1 DEF Keys
<1>4. Completed(o) \in Objects /\ PreparedRelease(o) \in Objects
  <2>1. Completed(o) \in Objects
    BY <1>2, CompletedType
  <2> QED
    BY <2>1 DEF PreparedRelease, Objects, Statuses, Codes, Times
<1>5. /\ used' \in [Kinds -> Nat]
      /\ \E c \in Objects : cache' = [cache EXCEPT ![k] = c]
  <2>1. CASE PrepareFails(k, o, Completed(o))
    BY <1>2, <1>4, <2>1, FailsType DEF Cached, TypeInv, TypeOK
  <2>2. CASE Renders(o.spec) /\ Cached(k, PreparedRelease(o))
    BY <1>4, <2>2, RenderType DEF Cached, TypeInv, TypeOK
  <2> QED
    BY <2>1, <2>2 DEF AddFunc
<1>6. PICK c \in Objects : cache' = [cache EXCEPT ![k] = c]
  BY <1>5
<1>7. UNCHANGED worker \/ Begin("preInstall", k, NoCur)
  BY DEF AddFunc
<1>8. cache' \in [Keys -> Objects \cup {NoObj}]
  BY <1>6 DEF TypeInv, TypeOK
<1>9. NoCur \in [rev : 0..MaxRev, rec : Records \cup {NoRec}]
  BY ReleaseAssumption DEF NoCur
<1>10. /\ pc' \in Labels /\ at' \in Keys \cup {Keyless}
       /\ cur' \in [rev : 0..MaxRev, rec : Records \cup {NoRec}]
       /\ todo' \in SUBSET Resources /\ wrote' \in BOOLEAN
  BY <1>7, <1>9 DEF worker, Begin, TypeInv, TypeOK, Labels
<1>11. TypeOK'
  BY <1>1, <1>2, <1>3, <1>5, <1>8, <1>10
     DEF TypeInv, TypeOK, HistTypeOK, LiveTypeOK, apiVars, rollback
<1>12. RollbackShape'
  BY <1>1, <1>3, RollbackShapeKept DEF TypeInv
<1>13. CASE UNCHANGED worker
  BY <1>2, <1>3, <1>11, <1>12, <1>13, IdleShape DEF TypeInv, WorkerShape, worker
<1>14. CASE Begin("preInstall", k, NoCur)
  <2>1. /\ pc' = "preInstall" /\ at' = k /\ cur' = NoCur /\ cache'[k] \in Objects
    BY <1>6, <1>14 DEF Begin, TypeInv, TypeOK
  <2>2. cur'.rev < MaxRev
    BY <2>1, ReleaseAssumption DEF NoCur
  <2>3. WorkerShape'
    BY <1>3, <2>1, <2>2
       DEF WorkerShape, InstallLabels, UpgradeLabels, UninstallLabels, ReleaseLabels, Labels
  <2> QED
    BY <1>11, <1>12, <2>3 DEF TypeInv
<1> QED
  BY <1>7, <1>13, <1>14

LEMMA UpdateFuncIgnoresType ==
  ASSUME TypeInv, NEW k \in Keys, UpdateFuncIgnores(k)
  PROVE  TypeInv'
<1> DEFINE o == Head(pending[k]).obj
<1>1. /\ Pop(k) /\ Head(pending[k]).kind = "set"
      /\ cache[k] # NoObj
      /\ cache' = [cache EXCEPT ![k] = o]
      /\ UNCHANGED <<apiVars, hist, live, env, worker, rollback, used>>
  BY DEF UpdateFuncIgnores, Cached, Works
<1>2. /\ o \in Objects
      /\ pending' \in [Keys -> Seq(Deltas)]
      /\ watching' = watching
      /\ pc = "idle"
  BY <1>1, PopType DEF TypeInv
<1>3. cache' \in [Keys -> Objects \cup {NoObj}]
  BY <1>1, <1>2 DEF TypeInv, TypeOK
<1>4. TypeOK'
  BY <1>1, <1>2, <1>3
     DEF TypeInv, TypeOK, HistTypeOK, LiveTypeOK, worker, apiVars, rollback
<1>5. WorkerShape'
  <2>1. pc' = "idle" /\ at' \notin Keys /\ env' \in Namespaces
    BY <1>1, <1>2 DEF TypeInv, WorkerShape, worker
  <2> QED
    BY <2>1, IdleShape
<1> QED
  BY <1>1, <1>4, <1>5, RollbackShapeKept DEF TypeInv

(* What prepareUpdate makes of an object is an object.                       *)
LEMMA PreparedType ==
  ASSUME NEW o \in Objects, NEW rec \in Records, NEW r \in 1..(MaxRev - 1)
  PROVE  /\ Supplied(o, rec) \in Objects
         /\ PreparedUpdate(Supplied(o, rec), r) \in Objects
<1>1. Supplied(o, rec) \in Objects
  <2>1. Reused(o, rec) \in Objects
    BY DEF Reused, Objects, Specs, Records
  <2> QED
    BY <2>1, CompletedType DEF Supplied
<1>2. r + 1 \in 0..MaxRev
  BY ReleaseAssumption
<1>3. ASSUME NEW n \in Objects
      PROVE  PreparedUpdate(n, r) \in Objects
  BY <1>2 DEF PreparedUpdate, Objects, Statuses, Times
<1> QED
  BY <1>1, <1>3

LEMMA UpdateFuncType ==
  ASSUME TypeInv, NEW k \in Keys, UpdateFunc(k)
  PROVE  TypeInv'
<1> DEFINE new == Head(pending[k]).obj
           o == <<env, k[2]>>
<1>1. /\ Pop(k) /\ Head(pending[k]).kind = "set"
      /\ cache[k] # NoObj
      /\ UNCHANGED <<apiVars, hist, live, env, rollback>>
  BY DEF UpdateFunc
<1>2. /\ new \in Objects
      /\ pending' \in [Keys -> Seq(Deltas)]
      /\ watching' = watching
      /\ pc = "idle"
  BY <1>1, PopType DEF TypeInv
<1>3. env \in Namespaces /\ o \in Keys /\ at \notin Keys
  BY <1>1, <1>2 DEF TypeInv, WorkerShape, Keys
<1>4. \/ /\ Cached(k, new) /\ UNCHANGED worker
         /\ Works \/ Spend("store")
      \/ \E r \in 1..(MaxRev - 1) :
           /\ IsLast(o, r)
           /\ \/ /\ PrepareFails(k, new, Supplied(new, hist[o][r]))
                 /\ UNCHANGED worker
              \/ /\ Renders(Supplied(new, hist[o][r]).spec)
                 /\ Cached(k, PreparedUpdate(Supplied(new, hist[o][r]), r))
                 /\ \/ UNCHANGED worker
                    \/ Begin("preUpgrade", k, [rev |-> r, rec |-> hist[o][r]])
  BY DEF UpdateFunc
<1>5. \E c \in Objects :
        /\ cache' = [cache EXCEPT ![k] = c]
        /\ used' \in [Kinds -> Nat]
        /\ \/ UNCHANGED worker
           \/ \E r \in 1..(MaxRev - 1), rec \in Records :
                Begin("preUpgrade", k, [rev |-> r, rec |-> rec])
  <2>1. CASE /\ Cached(k, new) /\ UNCHANGED worker
             /\ Works \/ Spend("store")
    <3>1. used' \in [Kinds -> Nat]
      BY <2>1, UsedType DEF TypeInv, TypeOK, Kinds
    <3> QED
      BY <1>2, <2>1, <3>1 DEF Cached
  <2>2. ASSUME NEW r \in 1..(MaxRev - 1), IsLast(o, r),
               \/ /\ PrepareFails(k, new, Supplied(new, hist[o][r]))
                  /\ UNCHANGED worker
               \/ /\ Renders(Supplied(new, hist[o][r]).spec)
                  /\ Cached(k, PreparedUpdate(Supplied(new, hist[o][r]), r))
                  /\ \/ UNCHANGED worker
                     \/ Begin("preUpgrade", k, [rev |-> r, rec |-> hist[o][r]])
        PROVE  \E c \in Objects :
                 /\ cache' = [cache EXCEPT ![k] = c]
                 /\ used' \in [Kinds -> Nat]
                 /\ \/ UNCHANGED worker
                    \/ \E q \in 1..(MaxRev - 1), rec \in Records :
                         Begin("preUpgrade", k, [rev |-> q, rec |-> rec])
    <3>1. hist[o][r] \in Records
      BY <1>3, <2>2, HistoryType DEF IsLast, TypeInv, TypeOK
    <3>2. /\ Supplied(new, hist[o][r]) \in Objects
          /\ PreparedUpdate(Supplied(new, hist[o][r]), r) \in Objects
      BY <1>2, <3>1, PreparedType
    <3>3. CASE PrepareFails(k, new, Supplied(new, hist[o][r])) /\ UNCHANGED worker
      BY <1>2, <3>2, <3>3, FailsType DEF Cached, TypeInv, TypeOK
    <3>4. CASE ~(PrepareFails(k, new, Supplied(new, hist[o][r])) /\ UNCHANGED worker)
      <4>1. used' \in [Kinds -> Nat]
        BY <2>2, <3>4, RenderType DEF TypeInv, TypeOK
      <4> QED
        BY <2>2, <3>1, <3>2, <3>4, <4>1 DEF Cached
    <3> QED
      BY <2>2, <3>3, <3>4
  <2> QED
    BY <1>4, <2>1, <2>2
<1>6. PICK c \in Objects :
        /\ cache' = [cache EXCEPT ![k] = c]
        /\ used' \in [Kinds -> Nat]
        /\ \/ UNCHANGED worker
           \/ \E r \in 1..(MaxRev - 1), rec \in Records :
                Begin("preUpgrade", k, [rev |-> r, rec |-> rec])
  BY <1>5
<1>7. cache' \in [Keys -> Objects \cup {NoObj}] /\ cache'[k] \in Objects
  BY <1>6 DEF TypeInv, TypeOK
<1>8. RollbackShape'
  BY <1>1, RollbackShapeKept DEF TypeInv
<1>9. CASE UNCHANGED worker
  <2>1. TypeOK'
    BY <1>1, <1>2, <1>6, <1>7, <1>9
       DEF TypeInv, TypeOK, HistTypeOK, LiveTypeOK, apiVars, rollback, worker
  <2>2. WorkerShape'
    BY <1>1, <1>2, <1>3, <1>9, IdleShape DEF worker
  <2> QED
    BY <1>8, <2>1, <2>2 DEF TypeInv
<1>10. ASSUME NEW r \in 1..(MaxRev - 1), NEW rec \in Records,
              Begin("preUpgrade", k, [rev |-> r, rec |-> rec])
       PROVE  TypeInv'
  <2>1. /\ pc' = "preUpgrade" /\ at' = k /\ cur' = [rev |-> r, rec |-> rec]
        /\ todo' = todo /\ wrote' = wrote
    BY <1>10 DEF Begin
  <2>2. r \in 1..MaxRev /\ r \in 0..MaxRev /\ r < MaxRev
    BY ReleaseAssumption
  <2>3. TypeOK'
    BY <1>1, <1>2, <1>6, <1>7, <2>1, <2>2
       DEF TypeInv, TypeOK, HistTypeOK, LiveTypeOK, apiVars, rollback, Labels
  <2>4. WorkerShape'
    BY <1>1, <1>3, <1>7, <2>1, <2>2
       DEF WorkerShape, HoldsRecord, InstallLabels, UpgradeLabels, UninstallLabels,
           ReleaseLabels, Labels
  <2> QED
    BY <1>8, <2>3, <2>4 DEF TypeInv
<1> QED
  BY <1>6, <1>9, <1>10

LEMMA DeleteFuncType ==
  ASSUME TypeInv, NEW k \in Keys, DeleteFunc(k)
  PROVE  TypeInv'
<1> DEFINE o == <<env, k[2]>>
<1>1. /\ Pop(k)
      /\ cache' = [cache EXCEPT ![k] = NoObj]
      /\ UNCHANGED <<apiVars, hist, live, env, rollback>>
  BY DEF DeleteFunc, Cached
<1>2. /\ pending' \in [Keys -> Seq(Deltas)]
      /\ watching' = watching
      /\ pc = "idle"
      /\ at \notin Keys
  BY <1>1, PopType DEF TypeInv, WorkerShape
<1>3. cache' \in [Keys -> Objects \cup {NoObj}]
  BY <1>1 DEF TypeInv, TypeOK
<1>4. used' \in [Kinds -> Nat]
  BY UsedType DEF DeleteFunc, TypeInv, TypeOK, Kinds
<1>5. RollbackShape'
  BY <1>1, RollbackShapeKept DEF TypeInv
<1>6. \/ UNCHANGED worker
      \/ /\ env # NoNs
         /\ \E r \in 1..MaxRev :
              /\ IsLast(o, r)
              /\ \E label \in {"purge", "preDelete"} :
                   Begin(label, k, [rev |-> r, rec |-> hist[o][r]])
  BY DEF DeleteFunc
<1>7. CASE UNCHANGED worker
  <2>1. TypeOK'
    BY <1>1, <1>2, <1>3, <1>4, <1>7
       DEF TypeInv, TypeOK, HistTypeOK, LiveTypeOK, apiVars, rollback, worker
  <2>2. env' \in Namespaces \/ \A q \in Keys : cache'[q] = NoObj
    BY <1>1 DEF TypeInv, TypeOK, WorkerShape
  <2>3. WorkerShape'
    BY <1>2, <1>7, <2>2, IdleShape DEF worker
  <2> QED
    BY <1>5, <2>1, <2>3 DEF TypeInv
<1>8. ASSUME env # NoNs, NEW r \in 1..MaxRev, IsLast(o, r),
             NEW label \in {"purge", "preDelete"},
             Begin(label, k, [rev |-> r, rec |-> hist[o][r]])
      PROVE  TypeInv'
  <2>1. env \in Namespaces /\ o \in Keys
    BY <1>8 DEF TypeInv, TypeOK, Keys
  <2>2. hist[o][r] \in Records
    BY <1>8, <2>1, HistoryType DEF IsLast, TypeInv, TypeOK
  <2>3. /\ pc' = label /\ at' = k /\ cur' = [rev |-> r, rec |-> hist[o][r]]
        /\ todo' = todo /\ wrote' = wrote
    BY <1>8 DEF Begin
  <2>4. r \in 0..MaxRev
    BY ReleaseAssumption
  <2>5. TypeOK'
    BY <1>1, <1>2, <1>3, <1>4, <2>2, <2>3, <2>4
       DEF TypeInv, TypeOK, HistTypeOK, LiveTypeOK, apiVars, rollback, Labels
  <2>6. WorkerShape'
    BY <1>1, <2>1, <2>2, <2>3
       DEF WorkerShape, HoldsRecord, InstallLabels, UpgradeLabels, UninstallLabels,
           ReleaseLabels, Labels
  <2> QED
    BY <1>5, <2>5, <2>6 DEF TypeInv
<1> QED
  BY <1>6, <1>7, <1>8

LEMMA RestartType ==
  ASSUME TypeInv, Restart, used' \in [Kinds -> Nat]
  PROVE  TypeInv'
<1>1. ASSUME NEW k \in Keys, api[k] # NoObj
      PROVE  <<Set(api[k])>> \in Seq(Deltas)
  BY <1>1, SetType DEF TypeInv, TypeOK
<1>2. pending' \in [Keys -> Seq(Deltas)]
  BY <1>1 DEF Restart
<1>3. /\ NoCur \in [rev : 0..MaxRev, rec : Records \cup {NoRec}]
      /\ RbIdle \in [pc : {"idle", "get", "read", "write"}, req : Nat,
                     cur : [rev : 0..MaxRev, rec : Records \cup {NoRec}],
                     ns : Namespaces \cup {NoNs}, tgt : Records \cup {NoRec},
                     rv : Nat]
      /\ RbIdle.pc = "idle"
  BY ReleaseAssumption DEF NoCur, RbIdle
<1>4. TypeOK'
  BY <1>2, <1>3 DEF Restart, TypeInv, TypeOK, HistTypeOK, LiveTypeOK, apiVars, Labels
<1>5. WorkerShape'
  BY IdleShape, InputType DEF Restart
<1>6. RollbackShape'
  BY <1>3 DEF Restart, RollbackShape
<1> QED
  BY <1>4, <1>5, <1>6 DEF TypeInv

-----------------------------------------------------------------------------
(* Every action keeps the type invariant: the steps of the handlers. *)

(* A status write, accepted or not, keeps the types of what it changes.      *)
LEMMA WriteType ==
  ASSUME TypeInv, pc \in ReleaseLabels, WriteSucceeds \/ WriteFails
  PROVE  /\ api' \in [Keys -> Objects \cup {NoObj}]
         /\ lastRv' \in Nat
         /\ pending' \in [Keys -> Seq(Deltas)]
         /\ used' \in [Kinds -> Nat]
<1>1. at \in Keys /\ cache[at] \in Objects
  BY DEF TypeInv, WorkerShape, ReleaseLabels
<1>2. cache[at].spec \in Specs /\ Wire(cache[at].status) \in Statuses
  BY <1>1, WireType DEF Objects
<1>3. used' \in [Kinds -> Nat]
  BY UsedType DEF WriteSucceeds, WriteFails, TypeInv, TypeOK, Kinds
<1>4. CASE UNCHANGED <<apiVars, pending>>
  BY <1>3, <1>4 DEF TypeInv, TypeOK, apiVars
<1>5. CASE Write
  BY <1>1, <1>2, <1>3, <1>5, PutType DEF Write, TypeInv
<1> QED
  BY <1>4, <1>5 DEF WriteSucceeds, WriteFails

(* Writing back the record a handler holds keeps the store's type.           *)
LEMMA RewriteType ==
  ASSUME TypeInv, pc \in UpgradeLabels \cup UninstallLabels,
         NEW rec \in Records, Rewrite(rec)
  PROVE  HistTypeOK' /\ used' \in [Kinds -> Nat]
<1>1. StoreKey \in Keys /\ cur.rev \in 1..MaxRev
  BY DEF TypeInv, WorkerShape, HoldsRecord, UpgradeLabels, UninstallLabels, StoreKey, Keys
<1>2. used' \in [Kinds -> Nat]
  BY UsedType DEF Rewrite, TypeInv, TypeOK, Kinds
<1>3. HistTypeOK'
  BY <1>1, StoreType DEF Rewrite, TypeInv, TypeOK, HistTypeOK
<1> QED
  BY <1>2, <1>3

(* So does recording the handled release.                                    *)
LEMMA RecordType ==
  ASSUME TypeInv, pc \in {"record", "failRecord"}, Record
  PROVE  HistTypeOK' /\ used' \in [Kinds -> Nat]
<1> DEFINE rec == [spec |-> cache[at].spec, code |-> cache[at].status.code]
<1>1. /\ StoreKey \in Keys /\ cache[at] \in Objects
      /\ cur.rev \in 0..MaxRev /\ cur.rev < MaxRev
  BY DEF TypeInv, TypeOK, WorkerShape, ReleaseLabels, Labels, StoreKey, Keys
<1>2. rec \in Records
  BY <1>1 DEF Records, Objects, Statuses
<1>3. NextRev \in 1..MaxRev
  BY <1>1, ReleaseAssumption DEF NextRev
<1>4. used' \in [Kinds -> Nat]
  BY UsedType DEF Record, TypeInv, TypeOK, Kinds
<1>5. StoreCreate(StoreKey, NextRev, rec) \/ UNCHANGED hist
  BY DEF Record
<1>6. HistTypeOK'
  BY <1>1, <1>2, <1>3, <1>5, StoreType DEF TypeInv, TypeOK, HistTypeOK
<1> QED
  BY <1>4, <1>6

(* The status code of the cached object is set.                              *)
LEMMA SetCodeType ==
  ASSUME TypeInv, pc \in ReleaseLabels, NEW c \in Codes, SetCode(c)
  PROVE  /\ cache' \in [Keys -> Objects \cup {NoObj}]
         /\ cache'[at] \in Objects
<1>1. at \in Keys /\ cache[at] \in Objects
  BY DEF TypeInv, WorkerShape, ReleaseLabels
<1>2. [cache[at] EXCEPT !.status.code = c] \in Objects
  BY <1>1 DEF Objects, Statuses
<1> QED
  BY <1>1, <1>2 DEF SetCode, TypeInv, TypeOK

(* The end of a handler.                                                     *)
LEMMA DoneType ==
  ASSUME Done
  PROVE  /\ pc' \in Labels /\ pc' = "idle"
         /\ at' \in Keys \cup {Keyless} /\ at' \notin Keys
         /\ cur' \in [rev : 0..MaxRev, rec : Records \cup {NoRec}]
         /\ todo' \in SUBSET Resources
         /\ wrote' \in BOOLEAN
<1>1. NoCur \in [rev : 0..MaxRev, rec : Records \cup {NoRec}]
  BY ReleaseAssumption DEF NoCur
<1>2. Keyless \notin Keys
  BY InputType
<1> QED
  BY <1>1, <1>2 DEF Done, Labels

(* The worker goes on to the next step of its handler.                       *)
GoesOn ==
  /\ pc' \in Labels \ {"idle"}
  /\ at' = at /\ cur' = cur
  /\ todo' \in SUBSET Resources
  /\ wrote' \in BOOLEAN
  /\ pc' \in InstallLabels => pc \in InstallLabels
  /\ pc' \in UpgradeLabels \cup UninstallLabels =>
       pc \in UpgradeLabels \cup UninstallLabels
  /\ pc' = "record" => pc \in InstallLabels \cup UpgradeLabels
  /\ pc' \in ReleaseLabels => pc \in ReleaseLabels /\ cache'[at] \in Objects

(* What a step of a handler has to show for the type invariant.              *)
LEMMA HandlerStepType ==
  ASSUME TypeInv, pc # "idle", UNCHANGED <<watching, env, rollback>>,
         HistTypeOK', LiveTypeOK',
         api' \in [Keys -> Objects \cup {NoObj}],
         lastRv' \in Nat,
         pending' \in [Keys -> Seq(Deltas)],
         cache' \in [Keys -> Objects \cup {NoObj}],
         used' \in [Kinds -> Nat],
         Done \/ GoesOn
  PROVE  TypeInv'
<1>1. env \in Namespaces /\ at \in Keys
  BY DEF TypeInv, WorkerShape
<1>2. RollbackShape'
  BY RollbackShapeKept DEF TypeInv
<1>3. CASE Done
  <2>1. TypeOK'
    BY <1>3, DoneType DEF TypeInv, TypeOK, rollback
  <2>2. WorkerShape'
    BY <1>1, <1>3, DoneType, IdleShape
  <2> QED
    BY <1>2, <2>1, <2>2 DEF TypeInv
<1>4. CASE GoesOn
  <2>1. TypeOK'
    BY <1>4 DEF GoesOn, TypeInv, TypeOK, rollback
  <2>2. WorkerShape'
    <3>1. /\ at' \in Keys /\ pc' # "idle" /\ env' \in Namespaces
          /\ \A k \in Keys : cache'[k] # NoObj => env' \in Namespaces
      BY <1>1, <1>4 DEF GoesOn
    <3>2. pc' \in InstallLabels => cur' = NoCur
      BY <1>4 DEF GoesOn, TypeInv, WorkerShape
    <3>3. pc' \in UpgradeLabels \cup UninstallLabels => HoldsRecord'
      BY <1>4 DEF GoesOn, TypeInv, WorkerShape, HoldsRecord
    <3>4. pc' = "record" => cur' = NoCur \/ HoldsRecord'
      BY <1>4 DEF GoesOn, TypeInv, WorkerShape, HoldsRecord
    <3>5. pc' \in ReleaseLabels => cache'[at'] \in Objects /\ cur'.rev < MaxRev
      BY <1>4 DEF GoesOn, TypeInv, WorkerShape
    <3> QED
      BY <3>1, <3>2, <3>3, <3>4, <3>5 DEF WorkerShape
  <2> QED
    BY <1>2, <2>1, <2>2 DEF TypeInv
<1> QED
  BY <1>3, <1>4

(* To a label of the same handler, with the cached object still there.       *)
LEMMA GotoType ==
  ASSUME TypeInv, NEW label, Goto(label),
         \/ label \in InstallLabels /\ pc \in InstallLabels
         \/ label \in UpgradeLabels /\ pc \in UpgradeLabels
         \/ label \in UninstallLabels /\ pc \in UninstallLabels
         \/ label = "record" /\ pc \in InstallLabels \cup UpgradeLabels,
         pc \in ReleaseLabels => cache'[at] \in Objects
  PROVE  GoesOn
BY DEF Goto, GoesOn, TypeInv, TypeOK, Labels, InstallLabels, UpgradeLabels,
       UninstallLabels, ReleaseLabels

(* The cached object a handler works on.                                     *)
LEMMA HandledType ==
  ASSUME TypeInv, pc \in ReleaseLabels
  PROVE  /\ at \in Keys /\ at[1] \in Namespaces
         /\ cache[at] \in Objects /\ cache[at].spec \in Specs
BY DEF TypeInv, WorkerShape, ReleaseLabels, Keys, Objects

LEMMA PreInstallType ==
  ASSUME TypeInv, PreInstall
  PROVE  TypeInv'
<1>1. /\ pc = "preInstall" /\ pc # "idle" /\ pc \in ReleaseLabels
      /\ pc \in InstallLabels
      /\ UNCHANGED <<api, lastRv, hist, live, watching, pending, env, rollback>>
  BY DEF PreInstall, ReleaseLabels, Labels, InstallLabels, apiVars
<1>2. used' \in [Kinds -> Nat]
  BY UsedType DEF PreInstall, HookFails, TypeInv, TypeOK, Kinds
<1>3. at \in Keys /\ cache[at] \in Objects
  BY <1>1, HandledType
<1>4. CASE Goto("create") /\ cache' = [cache EXCEPT ![at].status.ver = 1]
  <2>1. 1 \in 0..MaxRev
    BY ReleaseAssumption
  <2>2. [cache[at] EXCEPT !.status.ver = 1] \in Objects
    BY <1>3, <2>1 DEF Objects, Statuses
  <2>3. cache' \in [Keys -> Objects \cup {NoObj}] /\ cache'[at] \in Objects
    BY <1>3, <1>4, <2>2 DEF TypeInv, TypeOK
  <2>4. GoesOn
    BY <1>1, <1>4, <2>3, GotoType DEF InstallLabels
  <2> QED
    BY <1>1, <1>2, <2>3, <2>4, HandlerStepType
       DEF TypeInv, TypeOK, HistTypeOK, LiveTypeOK
<1>5. CASE Done /\ UNCHANGED cache
  BY <1>1, <1>2, <1>5, HandlerStepType DEF TypeInv, TypeOK, HistTypeOK, LiveTypeOK
<1> QED
  BY <1>4, <1>5 DEF PreInstall

LEMMA CreateResourcesType ==
  ASSUME TypeInv, CreateResources
  PROVE  TypeInv'
<1> DEFINE m == Manifest(cache[at].spec)
<1>1. /\ pc = "create" /\ pc # "idle" /\ pc \in ReleaseLabels
      /\ pc \in InstallLabels
      /\ UNCHANGED <<api, lastRv, hist, watching, pending, env, rollback>>
  BY DEF CreateResources, ReleaseLabels, Labels, InstallLabels, apiVars
<1>2. used' \in [Kinds -> Nat]
  BY UsedType DEF CreateResources, TypeInv, TypeOK, Kinds
<1>3. at[1] \in Namespaces /\ m \in Manifests /\ cache[at] \in Objects
  BY <1>1, HandledType, ManifestType
<1>4. PICK done : Created(at[1], m, done)
  BY DEF CreateResources, CreateSucceeds, CreateFails
<1>5. LiveTypeOK'
  BY <1>3, <1>4, CreatedType DEF TypeInv, TypeOK
<1>6. /\ cache' \in [Keys -> Objects \cup {NoObj}] /\ cache'[at] \in Objects
      /\ Goto("postInstall") \/ Goto("installStatus")
  <2>1. CASE Goto("postInstall") /\ UNCHANGED cache
    BY <1>3, <2>1 DEF TypeInv, TypeOK
  <2>2. CASE Goto("installStatus") /\ SetCode("FAILED")
    BY <1>1, <2>2, SetCodeType DEF Codes
  <2> QED
    BY <2>1, <2>2 DEF CreateResources
<1>7. GoesOn
  BY <1>1, <1>6, GotoType DEF InstallLabels
<1> QED
  BY <1>1, <1>2, <1>5, <1>6, <1>7, HandlerStepType DEF TypeInv, TypeOK, HistTypeOK

LEMMA PostInstallType ==
  ASSUME TypeInv, PostInstall
  PROVE  TypeInv'
<1>1. /\ pc = "postInstall" /\ pc # "idle" /\ pc \in ReleaseLabels
      /\ pc \in InstallLabels
      /\ UNCHANGED <<api, lastRv, hist, live, watching, pending, env, rollback>>
      /\ Goto("installStatus")
  BY DEF PostInstall, ReleaseLabels, Labels, InstallLabels, apiVars
<1>2. used' \in [Kinds -> Nat]
  BY UsedType DEF PostInstall, HookFails, TypeInv, TypeOK, Kinds
<1>3. cache' \in [Keys -> Objects \cup {NoObj}] /\ cache'[at] \in Objects
  BY <1>1, SetCodeType DEF PostInstall, Codes
<1>4. GoesOn
  BY <1>1, <1>3, GotoType DEF InstallLabels
<1> QED
  BY <1>1, <1>2, <1>3, <1>4, HandlerStepType
     DEF TypeInv, TypeOK, HistTypeOK, LiveTypeOK

LEMMA InstallStatusType ==
  ASSUME TypeInv, InstallStatus
  PROVE  TypeInv'
<1>1. /\ pc = "installStatus" /\ pc # "idle" /\ pc \in ReleaseLabels
      /\ pc \in InstallLabels
      /\ UNCHANGED <<hist, live, watching, cache, env, rollback>>
      /\ Goto("record")
  BY DEF InstallStatus, ReleaseLabels, Labels, InstallLabels
<1>2. /\ api' \in [Keys -> Objects \cup {NoObj}]
      /\ lastRv' \in Nat
      /\ pending' \in [Keys -> Seq(Deltas)]
      /\ used' \in [Kinds -> Nat]
  BY <1>1, WriteType DEF InstallStatus
<1>3. cache'[at] \in Objects
  BY <1>1, HandledType
<1>4. GoesOn
  BY <1>1, <1>3, GotoType
<1> QED
  BY <1>1, <1>2, <1>4, HandlerStepType DEF TypeInv, TypeOK, HistTypeOK, LiveTypeOK

LEMMA RecordReleaseType ==
  ASSUME TypeInv, RecordRelease
  PROVE  TypeInv'
<1>1. /\ pc = "record" /\ pc # "idle" /\ Record /\ Done
      /\ UNCHANGED <<api, lastRv, live, watching, pending, cache, env, rollback>>
  BY DEF RecordRelease, apiVars, informer
<1>2. HistTypeOK' /\ used' \in [Kinds -> Nat]
  BY <1>1, RecordType
<1> QED
  BY <1>1, <1>2, HandlerStepType DEF TypeInv, TypeOK, LiveTypeOK

LEMMA PreUpgradeType ==
  ASSUME TypeInv, PreUpgrade
  PROVE  TypeInv'
<1>1. /\ pc = "preUpgrade" /\ pc # "idle" /\ pc \in ReleaseLabels
      /\ pc \in UpgradeLabels
      /\ UNCHANGED <<api, lastRv, hist, live, watching, pending, cache, env, rollback>>
      /\ Goto("kubeUpdate") \/ Done
  BY DEF PreUpgrade, ReleaseLabels, Labels, UpgradeLabels, apiVars, informer
<1>2. used' \in [Kinds -> Nat]
  BY UsedType DEF PreUpgrade, HookFails, TypeInv, TypeOK, Kinds
<1>3. cache'[at] \in Objects
  BY <1>1, HandledType
<1>4. Done \/ GoesOn
  BY <1>1, <1>3, GotoType DEF UpgradeLabels
<1> QED
  BY <1>1, <1>2, <1>4, HandlerStepType DEF TypeInv, TypeOK, HistTypeOK, LiveTypeOK

LEMMA KubeUpdateType ==
  ASSUME TypeInv, KubeUpdate
  PROVE  TypeInv'
<1> DEFINE orig == Manifest(cur.rec.spec)
           target == Manifest(cache[at].spec)
<1>1. /\ pc = "kubeUpdate" /\ pc # "idle" /\ pc \in ReleaseLabels
      /\ pc \in UpgradeLabels
      /\ UNCHANGED <<api, lastRv, hist, watching, pending, env, rollback>>
  BY DEF KubeUpdate, ReleaseLabels, Labels, UpgradeLabels, apiVars
<1>2. used' \in [Kinds -> Nat]
  BY UsedType DEF KubeUpdate, TypeInv, TypeOK, Kinds
<1>3. cur.rec.spec \in Specs
  BY <1>1 DEF TypeInv, WorkerShape, HoldsRecord, Records
<1>4. /\ at[1] \in Namespaces /\ orig \in Manifests /\ target \in Manifests
      /\ cache[at] \in Objects
  BY <1>1, <1>3, HandledType, ManifestType
<1>5. PICK done, gone : Applied(at[1], orig, target, done, gone)
  BY DEF KubeUpdate, UpdateSucceeds, UpdateFails, UpdateTimesOut
<1>6. LiveTypeOK'
  BY <1>4, <1>5, AppliedType DEF TypeInv, TypeOK
<1>7. /\ cache' \in [Keys -> Objects \cup {NoObj}] /\ cache'[at] \in Objects
      /\ Goto("postUpgrade") \/ Goto("failStatus")
  <2>1. CASE Goto("postUpgrade") /\ UNCHANGED cache
    BY <1>4, <2>1 DEF TypeInv, TypeOK
  <2>2. CASE Goto("failStatus") /\ SetCode("FAILED")
    BY <1>1, <2>2, SetCodeType DEF Codes
  <2> QED
    BY <2>1, <2>2 DEF KubeUpdate
<1>8. GoesOn
  BY <1>1, <1>7, GotoType DEF UpgradeLabels
<1> QED
  BY <1>1, <1>2, <1>6, <1>7, <1>8, HandlerStepType DEF TypeInv, TypeOK, HistTypeOK

LEMMA PostUpgradeType ==
  ASSUME TypeInv, PostUpgrade
  PROVE  TypeInv'
<1>1. /\ pc = "postUpgrade" /\ pc # "idle" /\ pc \in ReleaseLabels
      /\ pc \in UpgradeLabels
      /\ UNCHANGED <<api, lastRv, hist, live, watching, pending, cache, env, rollback>>
      /\ Goto("supersede") \/ Done
  BY DEF PostUpgrade, ReleaseLabels, Labels, UpgradeLabels, apiVars, informer
<1>2. used' \in [Kinds -> Nat]
  BY UsedType DEF PostUpgrade, HookFails, TypeInv, TypeOK, Kinds
<1>3. cache'[at] \in Objects
  BY <1>1, HandledType
<1>4. Done \/ GoesOn
  BY <1>1, <1>3, GotoType DEF UpgradeLabels
<1> QED
  BY <1>1, <1>2, <1>4, HandlerStepType DEF TypeInv, TypeOK, HistTypeOK, LiveTypeOK

(* A record keeps its type when its code changes.                            *)
LEMMA RetiredType ==
  ASSUME TypeInv, pc \in UpgradeLabels \cup UninstallLabels, NEW c \in Codes
  PROVE  [cur.rec EXCEPT !.code = c] \in Records
BY DEF TypeInv, WorkerShape, HoldsRecord, Records

LEMMA SupersedeType ==
  ASSUME TypeInv, Supersede
  PROVE  TypeInv'
<1>1. /\ pc = "supersede" /\ pc # "idle" /\ pc \in ReleaseLabels
      /\ pc \in UpgradeLabels
      /\ UNCHANGED <<api, lastRv, live, watching, pending, env, rollback>>
      /\ Rewrite(Superseded) /\ SetCode("DEPLOYED") /\ Goto("upgradeStatus")
  BY DEF Supersede, ReleaseLabels, Labels, UpgradeLabels, apiVars
<1>2. Superseded \in Records
  BY <1>1, RetiredType DEF Superseded, Codes
<1>3. HistTypeOK' /\ used' \in [Kinds -> Nat]
  BY <1>1, <1>2, RewriteType
<1>4. cache' \in [Keys -> Objects \cup {NoObj}] /\ cache'[at] \in Objects
  BY <1>1, SetCodeType DEF Codes
<1>5. GoesOn
  BY <1>1, <1>4, GotoType DEF UpgradeLabels
<1> QED
  BY <1>1, <1>3, <1>4, <1>5, HandlerStepType DEF TypeInv, TypeOK, LiveTypeOK

LEMMA UpgradeStatusType ==
  ASSUME TypeInv, UpgradeStatus
  PROVE  TypeInv'
<1>1. /\ pc = "upgradeStatus" /\ pc # "idle" /\ pc \in ReleaseLabels
      /\ pc \in UpgradeLabels
      /\ UNCHANGED <<hist, live, watching, cache, env, rollback>>
      /\ Goto("record") \/ Done
  BY DEF UpgradeStatus, ReleaseLabels, Labels, UpgradeLabels
<1>2. /\ api' \in [Keys -> Objects \cup {NoObj}]
      /\ lastRv' \in Nat
      /\ pending' \in [Keys -> Seq(Deltas)]
      /\ used' \in [Kinds -> Nat]
  BY <1>1, WriteType DEF UpgradeStatus
<1>3. cache'[at] \in Objects
  BY <1>1, HandledType
<1>4. Done \/ GoesOn
  BY <1>1, <1>3, GotoType
<1> QED
  BY <1>1, <1>2, <1>4, HandlerStepType DEF TypeInv, TypeOK, HistTypeOK, LiveTypeOK

LEMMA FailStatusType ==
  ASSUME TypeInv, FailStatus
  PROVE  TypeInv'
<1>1. /\ pc = "failStatus" /\ pc # "idle" /\ pc \in ReleaseLabels
      /\ UNCHANGED <<hist, live, watching, cache, env, rollback>>
      /\ pc' = "failSupersede" /\ wrote' \in BOOLEAN /\ UNCHANGED <<at, cur, todo>>
  BY DEF FailStatus, ReleaseLabels, Labels
<1>2. /\ api' \in [Keys -> Objects \cup {NoObj}]
      /\ lastRv' \in Nat
      /\ pending' \in [Keys -> Seq(Deltas)]
      /\ used' \in [Kinds -> Nat]
  BY <1>1, WriteType DEF FailStatus
<1>3. cache'[at] \in Objects
  BY <1>1, HandledType
<1>4. GoesOn
  BY <1>1, <1>3 DEF GoesOn, Labels, InstallLabels, UpgradeLabels, ReleaseLabels,
                    TypeInv, TypeOK
<1> QED
  BY <1>1, <1>2, <1>4, HandlerStepType DEF TypeInv, TypeOK, HistTypeOK, LiveTypeOK

LEMMA FailSupersedeType ==
  ASSUME TypeInv, FailSupersede
  PROVE  TypeInv'
<1>1. /\ pc = "failSupersede" /\ pc # "idle" /\ pc \in ReleaseLabels
      /\ pc \in UpgradeLabels
      /\ UNCHANGED <<api, lastRv, live, watching, pending, cache, env, rollback>>
      /\ Rewrite(Superseded) /\ Goto("failRecord")
  BY DEF FailSupersede, ReleaseLabels, Labels, UpgradeLabels, apiVars, informer
<1>2. Superseded \in Records
  BY <1>1, RetiredType DEF Superseded, Codes
<1>3. HistTypeOK' /\ used' \in [Kinds -> Nat]
  BY <1>1, <1>2, RewriteType
<1>4. cache'[at] \in Objects
  BY <1>1, HandledType
<1>5. GoesOn
  BY <1>1, <1>4, GotoType DEF UpgradeLabels
<1> QED
  BY <1>1, <1>3, <1>5, HandlerStepType DEF TypeInv, TypeOK, LiveTypeOK

LEMMA FailRecordType ==
  ASSUME TypeInv, FailRecord
  PROVE  TypeInv'
<1>1. /\ pc = "failRecord" /\ pc # "idle" /\ pc \in ReleaseLabels
      /\ pc \in UpgradeLabels
      /\ UNCHANGED <<api, lastRv, live, watching, pending, cache, env, rollback>>
      /\ Record
      /\ Goto("record") \/ Done
  BY DEF FailRecord, ReleaseLabels, Labels, UpgradeLabels, apiVars, informer
<1>2. HistTypeOK' /\ used' \in [Kinds -> Nat]
  BY <1>1, RecordType
<1>3. cache'[at] \in Objects
  BY <1>1, HandledType
<1>4. Done \/ GoesOn
  BY <1>1, <1>3, GotoType
<1> QED
  BY <1>1, <1>2, <1>4, HandlerStepType DEF TypeInv, TypeOK, LiveTypeOK

LEMMA PurgeType ==
  ASSUME TypeInv, Purge
  PROVE  TypeInv'
<1>1. /\ pc = "purge" /\ pc # "idle" /\ pc \notin ReleaseLabels
      /\ pc \in UninstallLabels
      /\ UNCHANGED <<api, lastRv, live, watching, pending, cache, env, rollback>>
      /\ Goto("purge") \/ Done
      /\ UNCHANGED hist \/ \E r \in 1..MaxRev : StoreDelete(StoreKey, r)
  BY DEF Purge, ReleaseLabels, Labels, UninstallLabels, apiVars, informer, History
<1>2. used' \in [Kinds -> Nat]
  BY UsedType DEF Purge, TypeInv, TypeOK, Kinds
<1>3. StoreKey \in Keys
  BY <1>1 DEF StoreKey, TypeInv, WorkerShape, Keys
<1>4. HistTypeOK'
  BY <1>1, <1>3, StoreType DEF TypeInv, TypeOK, HistTypeOK
<1>5. Done \/ GoesOn
  BY <1>1, GotoType DEF UninstallLabels
<1> QED
  BY <1>1, <1>2, <1>4, <1>5, HandlerStepType DEF TypeInv, TypeOK, LiveTypeOK

LEMMA PreDeleteType ==
  ASSUME TypeInv, PreDelete
  PROVE  TypeInv'
<1>1. /\ pc = "preDelete" /\ pc # "idle" /\ pc \notin ReleaseLabels
      /\ pc \in UninstallLabels
      /\ UNCHANGED <<api, lastRv, hist, live, watching, pending, cache, env, rollback>>
      /\ Goto("markDeleting") \/ Done
  BY DEF PreDelete, ReleaseLabels, Labels, UninstallLabels, apiVars, informer
<1>2. used' \in [Kinds -> Nat]
  BY UsedType DEF PreDelete, HookFails, TypeInv, TypeOK, Kinds
<1>3. Done \/ GoesOn
  BY <1>1, GotoType DEF UninstallLabels
<1> QED
  BY <1>1, <1>2, <1>3, HandlerStepType DEF TypeInv, TypeOK, HistTypeOK, LiveTypeOK

LEMMA MarkDeletingType ==
  ASSUME TypeInv, MarkDeleting
  PROVE  TypeInv'
<1>1. /\ pc = "markDeleting" /\ pc # "idle" /\ pc \notin ReleaseLabels
      /\ pc \in UninstallLabels
      /\ UNCHANGED <<api, lastRv, live, watching, pending, cache, env, rollback>>
  BY DEF MarkDeleting, ReleaseLabels, Labels, UninstallLabels, apiVars, informer
<1>2. CASE Spend("discovery") /\ UNCHANGED hist /\ Done
  <2>1. used' \in [Kinds -> Nat]
    BY <1>2, UsedType DEF TypeInv, TypeOK, Kinds
  <2> QED
    BY <1>1, <1>2, <2>1, HandlerStepType DEF TypeInv, TypeOK, HistTypeOK, LiveTypeOK
<1>3. Deleting \in Records
  BY <1>1, RetiredType DEF Deleting, Codes
<1>4. CASE Spend("discovery") /\ StoreUpdate(StoreKey, cur.rev, Deleting) /\ Done
  <2>1. used' \in [Kinds -> Nat]
    BY <1>4, UsedType DEF TypeInv, TypeOK, Kinds
  <2>2. StoreKey \in Keys /\ cur.rev \in 1..MaxRev
    BY <1>1 DEF TypeInv, WorkerShape, HoldsRecord, UninstallLabels, StoreKey, Keys
  <2>3. HistTypeOK'
    BY <1>3, <1>4, <2>2, StoreType DEF TypeInv, TypeOK, HistTypeOK
  <2> QED
    BY <1>1, <1>4, <2>1, <2>3, HandlerStepType DEF TypeInv, TypeOK, LiveTypeOK
<1>5. CASE /\ Rewrite(Deleting)
           /\ todo' = FilesToDelete(Manifest(cur.rec.spec))
           /\ pc' = "deleting"
           /\ UNCHANGED <<at, cur, wrote>>
  <2>1. HistTypeOK' /\ used' \in [Kinds -> Nat]
    BY <1>1, <1>3, <1>5, RewriteType
  <2>2. cur.rec.spec \in Specs
    BY <1>1 DEF TypeInv, WorkerShape, HoldsRecord, Records
  <2>3. todo' \in SUBSET Resources
    BY <1>5, <2>2, ManifestType DEF FilesToDelete
  <2>4. GoesOn
    BY <1>1, <1>5, <2>3 DEF GoesOn, Labels, InstallLabels, UpgradeLabels,
                            UninstallLabels, ReleaseLabels, TypeInv, TypeOK
  <2> QED
    BY <1>1, <2>1, <2>4, HandlerStepType DEF TypeInv, TypeOK, LiveTypeOK
<1> QED
  BY <1>2, <1>4, <1>5 DEF MarkDeleting

LEMMA DeleteResourceType ==
  ASSUME TypeInv, DeleteResource
  PROVE  TypeInv'
<1>1. /\ pc = "deleting" /\ pc # "idle" /\ pc \notin ReleaseLabels
      /\ UNCHANGED <<pc, at, cur, wrote, api, lastRv, hist, watching, pending,
                     cache, env, rollback>>
  BY DEF DeleteResource, ReleaseLabels, Labels, apiVars, informer
<1>2. PICK r \in todo : /\ Deleted(env, r) \/ UNCHANGED live
                        /\ Works \/ Spend("kube")
                        /\ todo' = todo \ {r}
  BY DEF DeleteResource
<1>3. used' \in [Kinds -> Nat]
  BY <1>2, UsedType DEF TypeInv, TypeOK, Kinds
<1>4. env \in Namespaces /\ r \in Resources /\ todo' \in SUBSET Resources
  BY <1>1, <1>2 DEF TypeInv, TypeOK, WorkerShape
<1>5. LiveTypeOK'
  BY <1>2, <1>4, DeletedType DEF TypeInv, TypeOK, LiveTypeOK
<1>6. GoesOn
  BY <1>1, <1>4 DEF GoesOn, Labels, InstallLabels, UpgradeLabels, UninstallLabels,
                    ReleaseLabels, TypeInv, TypeOK
<1> QED
  BY <1>1, <1>3, <1>5, <1>6, HandlerStepType DEF TypeInv, TypeOK, HistTypeOK

LEMMA PostDeleteType ==
  ASSUME TypeInv, PostDelete
  PROVE  TypeInv'
<1>1. /\ pc = "deleting" /\ pc # "idle" /\ pc \notin ReleaseLabels
      /\ pc \in UninstallLabels
      /\ UNCHANGED <<api, lastRv, hist, live, watching, pending, cache, env,
                     rollback, used>>
      /\ Goto("markDeleted")
  BY DEF PostDelete, ReleaseLabels, Labels, UninstallLabels, apiVars, informer, Works
<1>2. GoesOn
  BY <1>1, GotoType DEF UninstallLabels
<1> QED
  BY <1>1, <1>2, HandlerStepType DEF TypeInv, TypeOK, HistTypeOK, LiveTypeOK

LEMMA MarkDeletedType ==
  ASSUME TypeInv, MarkDeleted
  PROVE  TypeInv'
<1> DEFINE rec == [cur.rec EXCEPT !.code = "DELETED"]
<1>1. /\ pc = "markDeleted" /\ pc # "idle" /\ pc \in UninstallLabels
      /\ UNCHANGED <<api, lastRv, live, watching, pending, cache, env, rollback>>
      /\ Rewrite(rec) /\ Done
  BY DEF MarkDeleted, UninstallLabels, apiVars, informer
<1>2. rec \in Records
  BY <1>1, RetiredType DEF Codes
<1>3. HistTypeOK' /\ used' \in [Kinds -> Nat]
  BY <1>1, <1>2, RewriteType
<1> QED
  BY <1>1, <1>3, HandlerStepType DEF TypeInv, TypeOK, LiveTypeOK

-----------------------------------------------------------------------------
(* Every action keeps the type invariant: the rollback goroutine. *)

(* A step of the goroutine that writes nothing but its own state.            *)
LEMMA RollbackStepType ==
  ASSUME TypeInv, UNCHANGED <<apiVars, hist, live, informer, env, worker, events>>,
         unread' \in SUBSET unread, used' \in [Kinds -> Nat],
         rb' \in [pc : {"idle", "get", "read", "write"}, req : Nat,
                  cur : [rev : 0..MaxRev, rec : Records \cup {NoRec}],
                  ns : Namespaces \cup {NoNs}, tgt : Records \cup {NoRec}, rv : Nat],
         RollbackShape'
  PROVE  TypeInv'
<1>1. TypeOK'
  BY DEF TypeInv, TypeOK, HistTypeOK, LiveTypeOK, apiVars, informer, worker
<1>2. WorkerShape'
  BY WorkerShapeKept DEF TypeInv, informer
<1> QED
  BY <1>1, <1>2 DEF TypeInv

(* An event is dropped.                                                      *)
LEMMA DroppedType ==
  ASSUME Dropped
  PROVE  /\ rb' \in [pc : {"idle", "get", "read", "write"}, req : Nat,
                     cur : [rev : 0..MaxRev, rec : Records \cup {NoRec}],
                     ns : Namespaces \cup {NoNs}, tgt : Records \cup {NoRec},
                     rv : Nat]
         /\ RollbackShape'
<1>1. NoCur \in [rev : 0..MaxRev, rec : Records \cup {NoRec}]
  BY ReleaseAssumption DEF NoCur
<1>2. RbIdle.pc = "idle"
  BY DEF RbIdle
<1> QED
  BY <1>1, <1>2 DEF Dropped, RbIdle, RollbackShape

(* The event the goroutine handles.                                          *)
LEMMA RequestType ==
  ASSUME TypeInv, NEW i \in 1..Len(events)
  PROVE  events[i] \in RollbackRequests
BY ServerAssumption DEF TypeInv, TypeOK

LEMMA RollbackLastType ==
  ASSUME TypeInv, RollbackLast
  PROVE  TypeInv'
<1>1. PICK i \in unread :
        /\ unread' = unread \ {i}
        /\ \/ (Works \/ Spend("store")) /\ Dropped
           \/ /\ Works
              /\ \E r \in Known(NameOf(events[i].object)) :
                   rb' = [RbIdle EXCEPT !.pc = "get", !.req = i,
                            !.cur = [rev |-> r,
                                     rec |-> hist[<<env, NameOf(events[i].object)>>][r]]]
  BY DEF RollbackLast
<1> DEFINE name == NameOf(events[i].object)
           o == <<env, name>>
<1>2. /\ UNCHANGED <<apiVars, hist, live, informer, env, worker, events>>
      /\ unread' \in SUBSET unread
  BY <1>1 DEF RollbackLast
<1>3. used' \in [Kinds -> Nat]
  BY <1>1, UsedType DEF TypeInv, TypeOK, Kinds
<1>4. CASE Dropped
  BY <1>2, <1>3, <1>4, DroppedType, RollbackStepType
<1>5. ASSUME NEW r \in Known(name),
             rb' = [RbIdle EXCEPT !.pc = "get", !.req = i,
                                  !.cur = [rev |-> r, rec |-> hist[o][r]]]
      PROVE  TypeInv'
  <2>1. i \in 1..Len(events) /\ i \in Nat
    BY DEF TypeInv, TypeOK
  <2>2. env \in Namespaces /\ name \in Names /\ o \in Keys /\ r \in History(o)
    BY <1>5 DEF Known, Keys
  <2>3. hist[o][r] \in Records
    BY <2>2, HistoryType DEF TypeInv, TypeOK
  <2>4. r \in 1..MaxRev /\ r \in 0..MaxRev
    BY <2>2, ReleaseAssumption DEF History
  <2>5. rb' = [pc |-> "get", req |-> i, cur |-> [rev |-> r, rec |-> hist[o][r]],
               ns |-> NoNs, tgt |-> NoRec, rv |-> 0]
    BY <1>5 DEF RbIdle
  <2>6. rb' \in [pc : {"idle", "get", "read", "write"}, req : Nat,
                 cur : [rev : 0..MaxRev, rec : Records \cup {NoRec}],
                 ns : Namespaces \cup {NoNs}, tgt : Records \cup {NoRec}, rv : Nat]
    BY <2>1, <2>3, <2>4, <2>5
  <2>7. RollbackShape'
    BY <1>2, <2>1, <2>2, <2>3, <2>4, <2>5 DEF RollbackShape
  <2> QED
    BY <1>2, <1>3, <2>6, <2>7, RollbackStepType
<1> QED
  BY <1>1, <1>4, <1>5

LEMMA RollbackGetType ==
  ASSUME TypeInv, RollbackGet
  PROVE  TypeInv'
<1> DEFINE o == <<env, NameOf(events[rb.req].object)>>
           v == TargetRevision
<1>1. /\ UNCHANGED <<apiVars, hist, live, informer, env, worker, events>>
      /\ unread' \in SUBSET unread
      /\ rb.pc = "get"
  BY DEF RollbackGet
<1>2. used' \in [Kinds -> Nat]
  BY UsedType DEF RollbackGet, TypeInv, TypeOK, Kinds
<1>3. CASE Dropped
  BY <1>1, <1>2, <1>3, DroppedType, RollbackStepType
<1>4. CASE /\ v \in History(o)
           /\ rb' = [rb EXCEPT !.pc = "read", !.ns = env, !.tgt = hist[o][v]]
  <2>1. rb.req \in 1..Len(events) /\ env \in Namespaces
    BY <1>1 DEF TypeInv, RollbackShape
  <2>2. o \in Keys
    BY <1>1 DEF TypeInv, RollbackShape, Keys
  <2>3. hist[o][v] \in Records
    BY <1>4, <2>2, HistoryType DEF TypeInv, TypeOK
  <2>4. rb' \in [pc : {"idle", "get", "read", "write"}, req : Nat,
                 cur : [rev : 0..MaxRev, rec : Records \cup {NoRec}],
                 ns : Namespaces \cup {NoNs}, tgt : Records \cup {NoRec}, rv : Nat]
    BY <1>4, <2>1, <2>3 DEF TypeInv, TypeOK
  <2>5. /\ rb'.req = rb.req /\ rb'.cur = rb.cur /\ rb'.ns = env
        /\ rb'.tgt = hist[o][v]
    BY <1>4 DEF TypeInv, TypeOK
  <2>6. RollbackShape'
    BY <1>1, <2>1, <2>3, <2>5 DEF TypeInv, RollbackShape
  <2> QED
    BY <1>1, <1>2, <2>4, <2>6, RollbackStepType
<1> QED
  BY <1>3, <1>4 DEF RollbackGet

(* The key of the release rolled back.                                       *)
LEMMA RollbackKeyType ==
  ASSUME TypeInv, rb.pc \in {"read", "write"}
  PROVE  /\ RollbackKey \in Keys
         /\ RollbackSpec \in Specs
         /\ StatusOf(rb.cur.rec, rb.cur.rev) \in Statuses
<1>1. /\ rb.req \in 1..Len(events) /\ rb.ns \in Namespaces /\ rb.tgt \in Records
      /\ NameOf(events[rb.req].object) \in Names
      /\ rb.cur.rec \in Records /\ rb.cur.rev \in 0..MaxRev
  BY DEF TypeInv, TypeOK, RollbackShape
<1>2. events[rb.req] \in RollbackRequests
  BY <1>1, RequestType
<1>3. RollbackKey \in Keys
  BY <1>1, <1>2 DEF RollbackKey, Keys, RollbackRequests
<1>4. RollbackSpec \in Specs
  BY <1>1, <1>2, ReleaseAssumption DEF RollbackSpec, Specs, Records, RollbackRequests
<1>5. StatusOf(rb.cur.rec, rb.cur.rev) \in Statuses
  BY <1>1 DEF StatusOf, Statuses, Times, Records
<1> QED
  BY <1>3, <1>4, <1>5

LEMMA RollbackReadType ==
  ASSUME TypeInv, RollbackRead
  PROVE  TypeInv'
<1>1. /\ UNCHANGED <<apiVars, hist, live, informer, env, worker, events>>
      /\ unread' \in SUBSET unread
      /\ rb.pc = "read"
  BY DEF RollbackRead
<1>2. used' \in [Kinds -> Nat]
  BY UsedType DEF RollbackRead, TypeInv, TypeOK, Kinds
<1>3. CASE Dropped
  BY <1>1, <1>2, <1>3, DroppedType, RollbackStepType
<1>4. CASE /\ api[RollbackKey] # NoObj
           /\ rb' = [rb EXCEPT !.pc = "write", !.rv = api[RollbackKey].rv]
  <2>1. api[RollbackKey].rv \in Nat
    BY <1>1, <1>4, RollbackKeyType DEF TypeInv, TypeOK, Objects
  <2>2. rb' \in [pc : {"idle", "get", "read", "write"}, req : Nat,
                 cur : [rev : 0..MaxRev, rec : Records \cup {NoRec}],
                 ns : Namespaces \cup {NoNs}, tgt : Records \cup {NoRec}, rv : Nat]
    BY <1>4, <2>1 DEF TypeInv, TypeOK
  <2>3. rb'.req = rb.req /\ rb'.cur = rb.cur /\ rb'.ns = rb.ns /\ rb'.tgt = rb.tgt
    BY <1>4 DEF TypeInv, TypeOK
  <2>4. RollbackShape'
    BY <1>1, <2>3 DEF TypeInv, RollbackShape
  <2> QED
    BY <1>1, <1>2, <2>2, <2>4, RollbackStepType
<1> QED
  BY <1>3, <1>4 DEF RollbackRead

LEMMA RollbackWriteType ==
  ASSUME TypeInv, RollbackWrite
  PROVE  TypeInv'
<1>1. /\ UNCHANGED <<hist, live, watching, cache, env, worker, events, unread>>
      /\ rb.pc = "write" /\ Dropped
  BY DEF RollbackWrite
<1>2. used' \in [Kinds -> Nat]
  BY UsedType DEF RollbackWrite, TypeInv, TypeOK, Kinds
<1>3. /\ api' \in [Keys -> Objects \cup {NoObj}]
      /\ lastRv' \in Nat
      /\ pending' \in [Keys -> Seq(Deltas)]
  <2>1. CASE Put(RollbackKey, RollbackSpec, StatusOf(rb.cur.rec, rb.cur.rev))
    BY <1>1, <2>1, RollbackKeyType, PutType DEF TypeInv
  <2>2. CASE UNCHANGED <<apiVars, pending>>
    BY <2>2 DEF TypeInv, TypeOK, apiVars
  <2> QED
    BY <2>1, <2>2 DEF RollbackWrite
<1>4. TypeOK'
  BY <1>1, <1>2, <1>3, DroppedType DEF TypeInv, TypeOK, HistTypeOK, LiveTypeOK, worker
<1>5. WorkerShape'
  BY <1>1, WorkerShapeKept DEF TypeInv
<1> QED
  BY <1>1, <1>4, <1>5, DroppedType DEF TypeInv

-----------------------------------------------------------------------------
(* Type correctness. *)

LEMMA InitType == Init => TypeInv
<1> SUFFICES ASSUME Init PROVE TypeInv
  OBVIOUS
<1>1. /\ NoCur \in [rev : 0..MaxRev, rec : Records \cup {NoRec}]
      /\ RbIdle \in [pc : {"idle", "get", "read", "write"}, req : Nat,
                     cur : [rev : 0..MaxRev, rec : Records \cup {NoRec}],
                     ns : Namespaces \cup {NoNs}, tgt : Records \cup {NoRec},
                     rv : Nat]
      /\ RbIdle.pc = "idle"
  BY ReleaseAssumption DEF NoCur, RbIdle
<1>2. HistTypeOK /\ LiveTypeOK
  BY DEF Init, HistInit, HistTypeOK, LiveInit, LiveTypeOK
<1>3. TypeOK
  <2>1. /\ api \in [Keys -> Objects \cup {NoObj}]
        /\ cache \in [Keys -> Objects \cup {NoObj}]
        /\ lastRv \in Nat /\ used \in [Kinds -> Nat]
    BY DEF Init
  <2>2. pending \in [Keys -> Seq(Deltas)]
    BY DEF Init
  <2>3. events \in Seq(Requests) /\ unread \in SUBSET (1..Len(events))
    BY DEF Init
  <2>4. /\ watching \in {"open", "closed", "listed"} /\ pc \in Labels
        /\ env \in Namespaces \cup {NoNs} /\ at \in Keys \cup {Keyless}
        /\ todo \in SUBSET Resources /\ wrote \in BOOLEAN
    BY DEF Init, Labels
  <2> QED
    BY <1>1, <1>2, <2>1, <2>2, <2>3, <2>4 DEF Init, TypeOK
<1>4. WorkerShape
  BY InputType DEF Init, WorkerShape, InstallLabels, UpgradeLabels, UninstallLabels,
                   ReleaseLabels
<1>5. RollbackShape
  BY <1>1 DEF Init, RollbackShape
<1> QED
  BY <1>3, <1>4, <1>5 DEF TypeInv

LEMMA NextType == TypeInv /\ [Next]_vars => TypeInv'
<1> SUFFICES ASSUME TypeInv, [Next]_vars PROVE TypeInv'
  OBVIOUS
<1>1. CASE UserStep
  BY <1>1, CreateReleaseType, EditReleaseType, DeleteReleaseType, PostRollbackType
     DEF UserStep
<1>2. CASE WatchClose \/ Relist \/ WatchOpen
  BY <1>2, WatchCloseType, RelistType, WatchOpenType
<1>3. CASE Deliver
  <2>1. ASSUME NEW k \in Keys, DeleteFuncPanics(k)
        PROVE  TypeInv'
    BY <2>1, RestartType, UsedType DEF DeleteFuncPanics, TypeInv, TypeOK
  <2> QED
    BY <1>3, <2>1, AddFuncType, UpdateFuncIgnoresType, UpdateFuncType, DeleteFuncType
       DEF Deliver
<1>4. CASE Install
  BY <1>4, PreInstallType, CreateResourcesType, PostInstallType, InstallStatusType
     DEF Install
<1>5. CASE Upgrade
  BY <1>5, PreUpgradeType, KubeUpdateType, PostUpgradeType, SupersedeType,
     UpgradeStatusType, FailStatusType, FailSupersedeType, FailRecordType
     DEF Upgrade
<1>6. CASE RecordRelease
  BY <1>6, RecordReleaseType
<1>7. CASE Uninstall
  BY <1>7, PurgeType, PreDeleteType, MarkDeletingType, DeleteResourceType,
     PostDeleteType, MarkDeletedType
     DEF Uninstall
<1>8. CASE RollbackStep
  BY <1>8, RollbackLastType, RollbackGetType, RollbackReadType, RollbackWriteType
     DEF RollbackStep
<1>9. CASE Crash
  BY <1>9, RestartType, UsedType DEF Crash, Kinds, TypeInv, TypeOK
<1>10. CASE UNCHANGED vars
  BY <1>10 DEF vars, TypeInv, TypeOK, HistTypeOK, LiveTypeOK, WorkerShape, HoldsRecord,
               RollbackShape
<1> QED
  BY <1>1, <1>2, <1>3, <1>4, <1>5, <1>6, <1>7, <1>8, <1>9, <1>10
     DEF Next, WorkerStep

(* Every variable keeps its type, and a handler always has at hand what its  *)
(* next step uses: the cached object, the record it read, a namespace in     *)
(* env.Releases.                                                             *)
THEOREM TypeInvariant == Spec => []TypeInv
<1> QED
  BY InitType, NextType, PTL DEF Spec

THEOREM TypeCorrect == Spec => []TypeOK
<1>1. TypeInv => TypeOK
  BY DEF TypeInv
<1> QED
  BY <1>1, TypeInvariant, PTL
=============================================================================
