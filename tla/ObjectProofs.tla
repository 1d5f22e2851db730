---------------------------- MODULE ObjectProofs ----------------------------
(***************************************************************************)
(* What the server writes into Release objects.                             *)
(*                                                                         *)
(* A rollback gives a release what one of its own revisions had.  Between   *)
(* the read of the target and the write of the Release object the worker    *)
(* may turn env.Releases to another namespace and record new revisions.     *)
(*                                                                         *)
(* A status write leaves the spec as the user has it.  It is made with the  *)
(* resource version of the cached object, which the watch delivered before  *)
(* the handler began: a version stands for one spec wherever it is kept.    *)
(***************************************************************************)
EXTENDS HistoryProofs

Object == events[rb.req].object

(* The target the goroutine holds is the revision its event names, as the    *)
(* release's own history has it.                                             *)
HoldsTarget ==
  rb.pc \in {"read", "write"} =>
    \A r \in 1..MaxRev : MakeKey(NameOf(Object), r) = Object =>
      /\ r \in History(RollbackKey)
      /\ Manifest(hist[RollbackKey][r].spec) = Manifest(rb.tgt.spec)

TargetInv == ContiguousInv /\ RecordInv /\ HoldsTarget

-----------------------------------------------------------------------------
(* Who touches the rollback goroutine, and the Release objects with it. *)

OthersLeaveRollback ==
  rb' = rb /\ (events' = events \/ \E q : events' = Append(events, q))

(* Every step leaves the rollback goroutine alone, ends it, or is its own.   *)
LEMMA RollbackKinds ==
  ASSUME [Next]_vars
  PROVE  \/ OthersLeaveRollback
         \/ rb'.pc = "idle" /\ api' = api
         \/ RollbackStep
<1>1. CASE UserStep
  BY <1>1 DEF UserStep, CreateRelease, EditRelease, DeleteRelease, PostRollback,
              OthersLeaveRollback, rollback
<1>2. CASE WatchClose \/ Relist \/ WatchOpen \/ UNCHANGED vars
  BY <1>2 DEF WatchClose, Relist, WatchOpen, vars, OthersLeaveRollback, rollback
<1>3. CASE Crash \/ \E k \in Keys : DeleteFuncPanics(k)
  BY <1>3 DEF Crash, DeleteFuncPanics, Restart, RbIdle, apiVars
<1>4. CASE \E k \in Keys : AddFunc(k) \/ UpdateFuncIgnores(k) \/ UpdateFunc(k)
                           \/ DeleteFunc(k)
  BY <1>4 DEF AddFunc, UpdateFuncIgnores, UpdateFunc, DeleteFunc,
              OthersLeaveRollback, rollback
<1>5. CASE Install \/ RecordRelease
  BY <1>5 DEF Install, PreInstall, CreateResources, PostInstall, InstallStatus,
              RecordRelease, OthersLeaveRollback, rollback
<1>6. CASE Upgrade
  BY <1>6 DEF Upgrade, PreUpgrade, KubeUpdate, PostUpgrade, Supersede, UpgradeStatus,
              FailStatus, FailSupersede, FailRecord, OthersLeaveRollback, rollback
<1>7. CASE Uninstall
  BY <1>7 DEF Uninstall, Purge, PreDelete, MarkDeleting, DeleteResource, PostDelete,
              MarkDeleted, OthersLeaveRollback, rollback
<1> QED
  BY <1>1, <1>2, <1>3, <1>4, <1>5, <1>6, <1>7 DEF Next, WorkerStep, Deliver

(* Without a purge a record stays, and keeps its spec.                       *)
LEMMA RecordsStay ==
  ASSUME Purging = {FALSE}, TypeInv, ContiguousInv, RecordInv, [Next]_vars,
         NEW k \in Keys, NEW r \in History(k)
  PROVE  r \in History(k)' /\ hist'[k][r].spec = hist[k][r].spec
<1>1. CASE UNCHANGED hist
  BY <1>1 DEF History
<1>2. ASSUME NEW c \in Codes, NEW label \in UpgradeLabels \cup UninstallLabels,
             NEW next, Rewrites(c, label, next)
      PROVE  r \in History(k)'
  BY <1>2, RewritesHistory
<1>3. ASSUME Adds
      PROVE  r \in History(k)'
  <2>1. StoreKey \in Keys /\ NextRev \in 1..MaxRev /\ NewRecord \in Records
    BY <1>3, HeldType DEF Adds
  <2> PICK s \in Keys : s = StoreKey
    BY <2>1
  <2> PICK n \in 1..MaxRev : n = NextRev
    BY <2>1
  <2> PICK rec \in Records : rec = NewRecord
    BY <2>1
  <2>2. ASSUME hist' = [hist EXCEPT ![s][n] = rec]
        PROVE  r \in History(k)'
    <3>1. /\ History(s)' = History(s) \cup {n}
          /\ \A q \in Keys : q # s => History(q)' = History(q)
      BY <2>2, WrittenHistory
    <3>2. CASE k = s
      BY <3>1, <3>2
    <3> QED
      BY <3>1, <3>2
  <2> QED
    BY <1>1, <1>3, <2>2 DEF Adds, History
<1>4. ~Purges
  BY DEF Purges, ContiguousInv
<1>5. r \in History(k)'
  BY StepKinds, DeliverBegins, StorelessKeeps, <1>1, <1>2, <1>3, <1>4
     DEF UpgradeLabels, UninstallLabels, Codes
<1>6. OnlyRetires(k, r)
  BY RecordStep DEF Retires, History
<1> QED
  BY <1>5, <1>6 DEF OnlyRetires

(* The revision an event names is the one prepareRollback computes.          *)
LEMMA NamedIsTarget ==
  ASSUME TypeInv, rb.pc = "get", NEW r \in 1..MaxRev,
         MakeKey(NameOf(Object), r) = Object
  PROVE  TargetRevision = r
<1>1. NameOf(Object) \in Named
  BY ReleaseAssumption DEF TypeInv, RollbackShape, Object
<1>2. r \in 0..(Half - 1) /\ r # 0
  BY ReleaseAssumption, NamingAssumption
<1>3. VersionOf(Object) = r
  BY <1>1, <1>2, KeyIsRead
<1> QED
  BY <1>2, <1>3 DEF TargetRevision, Object

(* The target held stays that of the release named, whoever acts.            *)
LEMMA TargetStep ==
  ASSUME Purging = {FALSE}, TypeInv, TargetInv, [Next]_vars
  PROVE  TargetInv'
<1>1. ContiguousInv' /\ RecordInv'
  BY ContiguousStep, RecordStep DEF TargetInv
<1> SUFFICES HoldsTarget'
  BY <1>1 DEF TargetInv
<1>2. ASSUME rb.pc \in {"read", "write"}, rb'.req = rb.req, rb'.ns = rb.ns,
             rb'.tgt = rb.tgt, events'[rb.req] = events[rb.req]
      PROVE  HoldsTarget'
  <2>1. Object' = Object /\ RollbackKey' = RollbackKey /\ RollbackKey \in Keys
    BY <1>2, RollbackKeyType DEF Object, RollbackKey
  <2>2. ASSUME NEW r \in 1..MaxRev, MakeKey(NameOf(Object), r) = Object
        PROVE  /\ (r \in History(RollbackKey))'
               /\ Manifest(hist'[RollbackKey][r].spec) = Manifest(rb.tgt.spec)
    <3> PICK k \in Keys : k = RollbackKey
      BY <2>1
    <3>1. r \in History(k) /\ Manifest(hist[k][r].spec) = Manifest(rb.tgt.spec)
      BY <1>2, <2>2 DEF TargetInv, HoldsTarget
    <3>2. r \in History(k)' /\ hist'[k][r].spec = hist[k][r].spec
      BY <3>1, RecordsStay DEF TargetInv
    <3>3. (r \in History(RollbackKey))'
      BY <2>1, <3>2 DEF History
    <3> QED
      BY <3>1, <3>2, <3>3
  <2> QED
    BY <1>2, <2>1, <2>2 DEF HoldsTarget
<1>3. CASE rb'.pc \notin {"read", "write"}
  BY <1>3 DEF HoldsTarget
<1>4. CASE OthersLeaveRollback /\ rb.pc \in {"read", "write"}
  <2>1. rb.req \in 1..Len(events) /\ events \in Seq(Requests)
    BY <1>4 DEF TypeInv, TypeOK, RollbackShape
  <2>2. events'[rb.req] = events[rb.req]
    BY <1>4, <2>1 DEF OthersLeaveRollback
  <2> QED
    BY <1>2, <1>4, <2>2 DEF OthersLeaveRollback
<1>5. CASE RollbackGet /\ rb'.pc \in {"read", "write"}
  <2>1. /\ rb.pc = "get" /\ UNCHANGED <<hist, events>>
        /\ rb' = [rb EXCEPT !.pc = "read", !.ns = env,
                            !.tgt = hist[<<env, NameOf(Object)>>][TargetRevision]]
        /\ TargetRevision \in History(<<env, NameOf(Object)>>)
    BY <1>5 DEF RollbackGet, Dropped, RbIdle, Object
  <2>2. /\ rb'.req = rb.req /\ rb'.ns = env
        /\ rb'.tgt = hist[<<env, NameOf(Object)>>][TargetRevision]
    BY <2>1 DEF TypeInv, TypeOK
  <2>3. Object' = Object /\ RollbackKey' = <<env, NameOf(Object)>>
    BY <2>1, <2>2 DEF Object, RollbackKey
  <2>4. ASSUME NEW r \in 1..MaxRev, MakeKey(NameOf(Object), r) = Object
        PROVE  TargetRevision = r
    BY <2>1, <2>4, NamedIsTarget
  <2> QED
    BY <2>1, <2>2, <2>3, <2>4 DEF HoldsTarget, History
<1>6. CASE RollbackRead /\ rb'.pc \in {"read", "write"}
  <2>1. /\ rb.pc = "read" /\ UNCHANGED events
        /\ rb' = [rb EXCEPT !.pc = "write", !.rv = api[RollbackKey].rv]
    BY <1>6 DEF RollbackRead, Dropped, RbIdle
  <2>2. rb'.req = rb.req /\ rb'.ns = rb.ns /\ rb'.tgt = rb.tgt
    BY <2>1 DEF TypeInv, TypeOK
  <2> QED
    BY <1>2, <2>1, <2>2
<1>7. CASE RollbackLast \/ RollbackWrite
  <2>1. Dropped \/ \E i, c : rb' = [RbIdle EXCEPT !.pc = "get", !.req = i, !.cur = c]
    BY <1>7 DEF RollbackLast, RollbackWrite
  <2>2. ASSUME NEW i, NEW c,
               rb' = [RbIdle EXCEPT !.pc = "get", !.req = i, !.cur = c]
        PROVE  rb'.pc = "get"
    BY <2>2 DEF RbIdle
  <2>3. Dropped => rb'.pc = "idle"
    BY DEF Dropped, RbIdle
  <2>4. rb'.pc \in {"idle", "get"}
    BY <2>1, <2>2, <2>3
  <2> QED
    BY <1>3, <2>4
<1>8. CASE OthersLeaveRollback /\ rb.pc \notin {"read", "write"}
  BY <1>3, <1>8 DEF OthersLeaveRollback
<1> QED
  BY RollbackKinds, <1>3, <1>4, <1>5, <1>6, <1>7, <1>8 DEF RollbackStep

(* The write of a rollback, seen from any release.                           *)
WritesTarget ==
  \A k \in Keys : RollbackWrites(k) =>
    /\ k[2] = SubSeq(Object, 1, Len(Object) - 1)
    /\ \A r \in Wanted(k) :
         r \in History(k) /\ Manifest(api'[k].spec) = Manifest(hist[k][r].spec)

(* The write of a rollback is that of the target it holds.                   *)
LEMMA RollbackIsWritten ==
  ASSUME TypeInv, [Next]_vars, NEW k \in Keys, RollbackWrites(k)
  PROVE  /\ k = RollbackKey /\ rb.pc = "write"
         /\ Manifest(api'[k].spec) = Manifest(rb.tgt.spec)
<1>1. rb.pc = "write" /\ rb'.pc = "idle" /\ api'[k] # api[k]
  BY DEF RollbackWrites
<1>2. RollbackWrite
  BY <1>1, RollbackKinds
     DEF OthersLeaveRollback, RollbackStep, RollbackLast, RollbackGet, RollbackRead
<1>3. Put(RollbackKey, RollbackSpec, StatusOf(rb.cur.rec, rb.cur.rev))
  BY <1>1, <1>2 DEF RollbackWrite, apiVars
<1>4. RollbackKey \in Keys /\ api \in [Keys -> Objects \cup {NoObj}]
  BY <1>1, RollbackKeyType DEF TypeInv, TypeOK
<1>5. k = RollbackKey /\ api'[k].spec = RollbackSpec
  BY <1>1, <1>3, <1>4 DEF Put
<1> QED
  BY <1>1, <1>5 DEF RollbackSpec, Manifest

LEMMA TargetWritten ==
  ASSUME TypeInv, TargetInv, [Next]_vars
  PROVE  WritesTarget
<1> SUFFICES ASSUME NEW k \in Keys, RollbackWrites(k)
             PROVE  /\ k[2] = SubSeq(Object, 1, Len(Object) - 1)
                    /\ \A r \in Wanted(k) :
                         /\ r \in History(k)
                         /\ Manifest(api'[k].spec) = Manifest(hist[k][r].spec)
  BY DEF WritesTarget
<1>1. k = RollbackKey /\ rb.pc = "write" /\ Manifest(api'[k].spec) = Manifest(rb.tgt.spec)
  BY RollbackIsWritten
<1>2. k[2] = NameOf(Object)
  BY <1>1 DEF RollbackKey, Object
<1>3. ASSUME NEW r \in Wanted(k)
      PROVE  r \in History(k) /\ Manifest(hist[k][r].spec) = Manifest(rb.tgt.spec)
  <2>1. r \in 1..MaxRev /\ MakeKey(NameOf(Object), r) = Object
    BY <1>2 DEF Wanted, Object
  <2> QED
    BY <1>1, <2>1 DEF TargetInv, HoldsTarget
<1> QED
  BY <1>1, <1>2, <1>3 DEF NameOf

(* No target is held at first.                                               *)
LEMMA InitTarget == Init => TargetInv
BY InitContiguous, InitRecord DEF Init, TargetInv, HoldsTarget, RbIdle

(* When no user asks for a purge, a rollback event for a revision of a       *)
(* release writes no other release, and gives that one the chart and the     *)
(* values which the revision has in its own history at the moment of the     *)
(* write, however the worker moves env.Releases and the history meanwhile.   *)
THEOREM RollbackIsOwn ==
  ASSUME Purging = {FALSE}
  PROVE  Spec => RollbackWritesTarget
<1>1. TypeInv /\ TargetInv /\ [Next]_vars => TargetInv' /\ WritesTarget
  BY TargetStep, TargetWritten
<1>2. WritesTarget <=>
        \A k \in Keys : RollbackWrites(k) =>
          /\ LET object == events[rb.req].object
             IN  k[2] = SubSeq(object, 1, Len(object) - 1)
          /\ \A r \in Wanted(k) :
               /\ r \in History(k)
               /\ Manifest(api'[k].spec) = Manifest(hist[k][r].spec)
  BY DEF WritesTarget, Object
<1> QED
  BY <1>1, <1>2, InitTarget, TypeInvariant, PTL DEF Spec, RollbackWritesTarget

-----------------------------------------------------------------------------
(* A rollback without a revision. *)

OneNamespace == \A p, q \in Namespaces : p = q

(* The last revision, once read, stays one of the release; the target is the *)
(* one before it.                                                            *)
HoldsPrevious ==
  /\ rb.pc = "get" => \A ns \in Namespaces : rb.cur.rev \in History(<<ns, NameOf(Object)>>)
  /\ rb.pc \in {"read", "write"} /\ VersionOf(Object) = 0 =>
       /\ rb.cur.rev \in History(RollbackKey)
       /\ rb.cur.rev - 1 \in History(RollbackKey)
       /\ Manifest(hist[RollbackKey][rb.cur.rev - 1].spec) = Manifest(rb.tgt.spec)

PreviousInv == ContiguousInv /\ RecordInv /\ HoldsPrevious

(* A goroutine that goes on holds what it held, whatever the worker records. *)
LEMMA PreviousKept ==
  ASSUME Purging = {FALSE}, TypeInv, PreviousInv, [Next]_vars,
         rb'.pc # "idle", rb'.pc = rb.pc \/ (rb.pc = "read" /\ rb'.pc = "write"),
         rb'.req = rb.req, rb'.cur = rb.cur, rb'.ns = rb.ns, rb'.tgt = rb.tgt,
         events'[rb.req] = events[rb.req]
  PROVE  HoldsPrevious'
<1>1. /\ Object' = Object /\ RollbackKey' = RollbackKey /\ VersionOf(Object)' = VersionOf(Object)
      /\ NameOf(Object)' = NameOf(Object)
  BY DEF Object, RollbackKey, VersionOf, NameOf
<1>2. ASSUME rb'.pc = "get", NEW ns \in Namespaces
      PROVE  (rb.cur.rev \in History(<<ns, NameOf(Object)>>))'
  <2>1. <<ns, NameOf(Object)>> \in Keys
    BY <1>2 DEF TypeInv, RollbackShape, Object, Keys
  <2> PICK k \in Keys : k = <<ns, NameOf(Object)>>
    BY <2>1
  <2>2. rb.cur.rev \in History(k)
    BY <1>2 DEF PreviousInv, HoldsPrevious
  <2>3. rb.cur.rev \in History(k)'
    BY <2>2, RecordsStay DEF PreviousInv
  <2> QED
    BY <1>1, <2>3 DEF History
<1>3. ASSUME rb'.pc \in {"read", "write"}, VersionOf(Object)' = 0
      PROVE  /\ (rb.cur.rev \in History(RollbackKey))'
             /\ (rb.cur.rev - 1 \in History(RollbackKey))'
             /\ (Manifest(hist[RollbackKey][rb.cur.rev - 1].spec) = Manifest(rb.tgt.spec))'
  <2>1. rb.pc \in {"read", "write"}
    BY <1>3
  <2>2. RollbackKey \in Keys
    BY <2>1, RollbackKeyType
  <2> PICK k \in Keys : k = RollbackKey
    BY <2>2
  <2>3. /\ rb.cur.rev \in History(k) /\ rb.cur.rev - 1 \in History(k)
        /\ Manifest(hist[k][rb.cur.rev - 1].spec) = Manifest(rb.tgt.spec)
    BY <1>1, <1>3, <2>1 DEF PreviousInv, HoldsPrevious
  <2>4. /\ rb.cur.rev \in History(k)' /\ rb.cur.rev - 1 \in History(k)'
        /\ hist'[k][rb.cur.rev - 1].spec = hist[k][rb.cur.rev - 1].spec
    BY <2>3, RecordsStay DEF PreviousInv
  <2>5. Manifest(hist'[k][rb.cur.rev - 1].spec) = Manifest(rb.tgt.spec)
    BY <2>3, <2>4
  <2> QED
    BY <1>1, <2>4, <2>5 DEF History, Manifest
<1> QED
  BY <1>2, <1>3 DEF HoldsPrevious

LEMMA PreviousStep ==
  ASSUME Purging = {FALSE}, OneNamespace, TypeInv, PreviousInv, [Next]_vars
  PROVE  PreviousInv'
<1>1. ContiguousInv' /\ RecordInv'
  BY ContiguousStep, RecordStep DEF PreviousInv
<1> SUFFICES HoldsPrevious'
  BY <1>1 DEF PreviousInv
<1>2. CASE rb'.pc = "idle"
  BY <1>2 DEF HoldsPrevious
<1>3. CASE OthersLeaveRollback /\ rb.pc # "idle"
  <2>1. rb.req \in 1..Len(events) /\ events \in Seq(Requests)
    BY <1>3 DEF TypeInv, TypeOK, RollbackShape
  <2>2. events'[rb.req] = events[rb.req]
    BY <1>3, <2>1 DEF OthersLeaveRollback
  <2> QED
    BY <1>3, <2>2, PreviousKept DEF OthersLeaveRollback
<1>4. CASE RollbackLast /\ rb'.pc # "idle"
  <2> DEFINE key(i) == <<env, NameOf(events[i].object)>>
  <2>1. ~Dropped
    BY <1>4 DEF Dropped, RbIdle
  <2>2. PICK i \in unread : \E r \in Known(NameOf(events[i].object)) :
          /\ IsLast(key(i), r)
          /\ rb' = [RbIdle EXCEPT !.pc = "get", !.req = i,
                                  !.cur = [rev |-> r, rec |-> hist[key(i)][r]]]
    BY <1>4, <2>1 DEF RollbackLast
  <2>3. PICK r \in Known(NameOf(events[i].object)) :
          /\ IsLast(key(i), r)
          /\ rb' = [RbIdle EXCEPT !.pc = "get", !.req = i,
                                  !.cur = [rev |-> r, rec |-> hist[key(i)][r]]]
    BY <2>2
  <2>4. /\ rb'.pc = "get" /\ rb'.req = i /\ rb'.cur.rev = r
        /\ UNCHANGED <<events, hist>>
    BY <1>4, <2>3 DEF RbIdle, RollbackLast
  <2>5. env \in Namespaces /\ r \in History(key(i))
    BY <2>3 DEF Known
  <2>6. \A ns \in Namespaces : ns = env
    BY <2>5 DEF OneNamespace
  <2>7. \A ns \in Namespaces : (rb.cur.rev \in History(<<ns, NameOf(Object)>>))'
    BY <2>4, <2>5, <2>6 DEF History, Object, NameOf
  <2> QED
    BY <2>4, <2>7 DEF HoldsPrevious
<1>5. CASE RollbackGet /\ rb'.pc # "idle"
  <2>1. /\ rb.pc = "get" /\ UNCHANGED <<hist, events>>
        /\ rb' = [rb EXCEPT !.pc = "read", !.ns = env,
                            !.tgt = hist[<<env, NameOf(Object)>>][TargetRevision]]
        /\ TargetRevision \in History(<<env, NameOf(Object)>>)
    BY <1>5 DEF RollbackGet, Dropped, RbIdle, Object
  <2>2. /\ rb'.pc = "read" /\ rb'.req = rb.req /\ rb'.ns = env /\ rb'.cur = rb.cur
        /\ rb'.tgt = hist[<<env, NameOf(Object)>>][TargetRevision]
    BY <2>1 DEF TypeInv, TypeOK
  <2>3. Object' = Object /\ RollbackKey' = <<env, NameOf(Object)>>
    BY <2>1, <2>2 DEF Object, RollbackKey
  <2>4. VersionOf(Object) = 0 => TargetRevision = rb.cur.rev - 1
    BY DEF TargetRevision, Object
  <2>5. rb.cur.rev \in History(<<env, NameOf(Object)>>)
    BY <2>1 DEF PreviousInv, HoldsPrevious, TypeInv, RollbackShape
  <2> QED
    BY <2>1, <2>2, <2>3, <2>4, <2>5 DEF HoldsPrevious, History, VersionOf
<1>6. CASE RollbackRead /\ rb'.pc # "idle"
  <2>1. /\ rb.pc = "read" /\ UNCHANGED events
        /\ rb' = [rb EXCEPT !.pc = "write", !.rv = api[RollbackKey].rv]
    BY <1>6 DEF RollbackRead, Dropped, RbIdle
  <2>2. /\ rb'.pc = "write" /\ rb'.req = rb.req /\ rb'.cur = rb.cur /\ rb'.ns = rb.ns
        /\ rb'.tgt = rb.tgt
    BY <2>1 DEF TypeInv, TypeOK
  <2> QED
    BY <2>1, <2>2, PreviousKept
<1>7. CASE RollbackWrite
  BY <1>2, <1>7 DEF RollbackWrite, Dropped, RbIdle
<1>8. CASE OthersLeaveRollback /\ rb.pc = "idle"
  BY <1>2, <1>8 DEF OthersLeaveRollback
<1> QED
  BY RollbackKinds, <1>2, <1>3, <1>4, <1>5, <1>6, <1>7, <1>8 DEF RollbackStep

WritesPrevious ==
  \A k \in Keys : RollbackWrites(k) /\ VersionOf(Object) = 0 =>
    \E r, q \in History(k) :
      r < q /\ Manifest(api'[k].spec) = Manifest(hist[k][r].spec)

LEMMA PreviousWritten ==
  ASSUME TypeInv, PreviousInv, [Next]_vars
  PROVE  WritesPrevious
<1> SUFFICES ASSUME NEW k \in Keys, RollbackWrites(k), VersionOf(Object) = 0
             PROVE  \E r, q \in History(k) :
                      r < q /\ Manifest(api'[k].spec) = Manifest(hist[k][r].spec)
  BY DEF WritesPrevious
<1>1. k = RollbackKey /\ Manifest(api'[k].spec) = Manifest(rb.tgt.spec) /\ rb.pc = "write"
  BY RollbackIsWritten
<1>2. /\ rb.cur.rev \in History(k) /\ rb.cur.rev - 1 \in History(k)
      /\ Manifest(hist[k][rb.cur.rev - 1].spec) = Manifest(rb.tgt.spec)
  BY <1>1 DEF PreviousInv, HoldsPrevious
<1>3. rb.cur.rev \in Nat
  BY <1>2 DEF History
<1> QED
  BY <1>1, <1>2, <1>3

LEMMA InitPrevious == Init => PreviousInv
BY InitContiguous, InitRecord DEF Init, PreviousInv, HoldsPrevious, RbIdle

(* In a single namespace, and when no user asks for a purge, an event that   *)
(* names no revision takes its release back to a revision before the last,   *)
(* whatever the worker records between the reads and the write.  With two    *)
(* namespaces it may not: see the run rollback_mixed.                        *)
THEOREM RollbackIsBackwards ==
  ASSUME Purging = {FALSE}, OneNamespace
  PROVE  Spec => RollbackGoesBack
<1>1. TypeInv /\ PreviousInv /\ [Next]_vars => PreviousInv' /\ WritesPrevious
  BY PreviousStep, PreviousWritten
<1>2. WritesPrevious <=>
        \A k \in Keys :
          RollbackWrites(k) /\ VersionOf(events[rb.req].object) = 0 =>
            \E r, q \in History(k) :
              r < q /\ Manifest(api'[k].spec) = Manifest(hist[k][r].spec)
  BY DEF WritesPrevious, Object
<1> QED
  BY <1>1, <1>2, InitPrevious, TypeInvariant, PTL DEF Spec, RollbackGoesBack

-----------------------------------------------------------------------------
(* Release objects and their versions. *)

(* A spec in which empty values may have been filled in, and nothing else.   *)
Filled(old, new) ==
  \/ new = old
  \/ NoValues(old.config) /\ [new EXCEPT !.config = old.config] = old

(* Object o, which the API server gave out when it had a or before: while    *)
(* the version is the same, so is the spec.                                  *)
Exact(o, a, n) ==
  o.rv <= n /\ (a # NoObj /\ a.rv = o.rv => o.spec = a.spec)

(* The same, where a handler may have filled in the values.                  *)
Derived(o, a, n) ==
  o.rv <= n /\ (a # NoObj /\ a.rv = o.rv => Filled(a.spec, o.spec))

(* A resource version stands for one spec of a release, in the API server,   *)
(* in the queue and, but for reuseValues, in the cache.                      *)
VersionInv ==
  \A k \in Keys :
    /\ api[k] # NoObj => api[k].rv <= lastRv
    /\ \A i \in 1..Len(pending[k]) :
         pending[k][i].kind = "set" => Exact(pending[k][i].obj, api[k], lastRv)
    /\ cache[k] # NoObj => Derived(cache[k], api[k], lastRv)

-----------------------------------------------------------------------------
(* What a step may do to the three. *)

New(spec, status) == [rv |-> lastRv + 1, spec |-> spec, status |-> status]

ApiMoves ==
  \/ api' = api /\ lastRv' = lastRv
  \/ \E k \in Keys : api' = [api EXCEPT ![k] = NoObj] /\ lastRv' = lastRv
  \/ \E k \in Keys, spec \in Specs, status \in Statuses :
       api' = [api EXCEPT ![k] = New(spec, status)] /\ lastRv' = lastRv + 1

(* A delta was there before, is a deletion, or has what the API server has.  *)
Explained(d, k) ==
  \/ \E i \in 1..Len(pending[k]) : d = pending[k][i]
  \/ d.kind # "set"
  \/ api'[k] # NoObj /\ d = Set(api'[k])

PendingMoves ==
  \A k \in Keys : \A j \in 1..Len(pending'[k]) : Explained(pending'[k][j], k)

(* A cached object has the spec it had, or that of a delta, filled in.       *)
CacheMoves ==
  \A k \in Keys :
    \/ cache'[k] = NoObj
    \/ /\ cache[k] # NoObj
       /\ cache'[k].rv = cache[k].rv /\ cache'[k].spec = cache[k].spec
    \/ \E i \in 1..Len(pending[k]) :
         /\ pending[k][i].kind = "set"
         /\ cache'[k].rv = pending[k][i].obj.rv
         /\ Filled(pending[k][i].obj.spec, cache'[k].spec)

(* A version once given out keeps its meaning.                               *)
LEMMA VersionsKept ==
  ASSUME TypeOK, VersionInv, ApiMoves, NEW k \in Keys
  PROVE  /\ api'[k] # NoObj => api'[k].rv <= lastRv'
         /\ lastRv <= lastRv'
         /\ \A o : o.rv \in Nat /\ Exact(o, api[k], lastRv) => Exact(o, api'[k], lastRv')
         /\ \A o : o.rv \in Nat /\ Derived(o, api[k], lastRv) =>
                   Derived(o, api'[k], lastRv')
<1>1. lastRv \in Nat /\ (api[k] # NoObj => api[k].rv \in Nat /\ api[k].rv <= lastRv)
  BY DEF TypeOK, VersionInv, Objects
<1>2. CASE api'[k] = api[k] /\ (lastRv' = lastRv \/ lastRv' = lastRv + 1)
  BY <1>1, <1>2 DEF Exact, Derived
<1>3. CASE api'[k] = NoObj /\ lastRv' = lastRv
  BY <1>1, <1>3 DEF Exact, Derived
<1>4. CASE api'[k].rv = lastRv + 1 /\ lastRv' = lastRv + 1
  BY <1>1, <1>4 DEF Exact, Derived
<1>5. api \in [Keys -> Objects \cup {NoObj}]
  BY DEF TypeOK
<1> QED
  BY <1>2, <1>3, <1>4, <1>5 DEF ApiMoves, New

(* The three moves keep the meaning of the versions.                         *)
LEMMA VersionMoves ==
  ASSUME TypeOK, TypeOK', VersionInv, ApiMoves, PendingMoves, CacheMoves
  PROVE  VersionInv'
<1> SUFFICES ASSUME NEW k \in Keys
             PROVE  /\ api'[k] # NoObj => api'[k].rv <= lastRv'
                    /\ \A i \in 1..Len(pending'[k]) : pending'[k][i].kind = "set" =>
                         Exact(pending'[k][i].obj, api'[k], lastRv')
                    /\ cache'[k] # NoObj => Derived(cache'[k], api'[k], lastRv')
  BY DEF VersionInv
<1>1. /\ pending[k] \in Seq(Deltas) /\ pending'[k] \in Seq(Deltas)
      /\ cache[k] \in Objects \cup {NoObj} /\ lastRv \in Nat /\ lastRv' \in Nat
      /\ api'[k] \in Objects \cup {NoObj} /\ cache'[k] \in Objects \cup {NoObj}
  BY DEF TypeOK
<1>2. ASSUME NEW i \in 1..Len(pending[k]), pending[k][i].kind = "set"
      PROVE  /\ pending[k][i].obj.rv \in Nat
             /\ Exact(pending[k][i].obj, api'[k], lastRv')
  <2>1. pending[k][i] \in Deltas
    BY <1>1
  <2>2. pending[k][i].obj.rv \in Nat
    BY <1>2, <2>1 DEF Deltas, Objects
  <2>3. Exact(pending[k][i].obj, api[k], lastRv)
    BY <1>2 DEF VersionInv
  <2> QED
    BY <2>2, <2>3, VersionsKept
<1>3. ASSUME NEW j \in 1..Len(pending'[k]), pending'[k][j].kind = "set"
      PROVE  Exact(pending'[k][j].obj, api'[k], lastRv')
  <2>1. Explained(pending'[k][j], k)
    BY DEF PendingMoves
  <2>2. CASE api'[k] # NoObj /\ pending'[k][j] = Set(api'[k])
    BY <2>2, VersionsKept DEF Set, Exact
  <2> QED
    BY <1>2, <1>3, <2>1, <2>2 DEF Explained
<1>4. ASSUME cache'[k] # NoObj
      PROVE  Derived(cache'[k], api'[k], lastRv')
  <2>1. CASE /\ cache[k] # NoObj
             /\ cache'[k].rv = cache[k].rv /\ cache'[k].spec = cache[k].spec
    <3>1. cache[k].rv \in Nat /\ Derived(cache[k], api[k], lastRv)
      BY <1>1, <2>1 DEF VersionInv, Objects
    <3>2. Derived(cache[k], api'[k], lastRv')
      BY <3>1, VersionsKept
    <3> QED
      BY <2>1, <3>2 DEF Derived
  <2>2. ASSUME NEW i \in 1..Len(pending[k]), pending[k][i].kind = "set",
               cache'[k].rv = pending[k][i].obj.rv,
               Filled(pending[k][i].obj.spec, cache'[k].spec)
        PROVE  Derived(cache'[k], api'[k], lastRv')
    <3>1. Exact(pending[k][i].obj, api'[k], lastRv')
      BY <1>2, <2>2
    <3> QED
      BY <2>2, <3>1 DEF Exact, Derived
  <2> QED
    BY <1>4, <2>1, <2>2 DEF CacheMoves
<1> QED
  BY <1>3, <1>4, VersionsKept

-----------------------------------------------------------------------------
(* The moves of the steps. *)

(* What the watch delivers of a write is what the API server now has.        *)
LEMMA NotifyMoves ==
  ASSUME TypeOK, NEW k \in Keys, NEW d \in Deltas, Notify(k, d),
         d.kind # "set" \/ (api'[k] # NoObj /\ d = Set(api'[k]))
  PROVE  PendingMoves
<1>1. pending \in [Keys -> Seq(Deltas)]
  BY DEF TypeOK
<1>2. CASE pending' = pending
  BY <1>1, <1>2 DEF PendingMoves, Explained
<1>3. CASE pending' = [pending EXCEPT ![k] = Queued(pending[k], d)]
  <2>1. ASSUME NEW j \in 1..Len(Queued(pending[k], d))
        PROVE  \/ Queued(pending[k], d)[j] = d
               \/ \E i \in 1..Len(pending[k]) : Queued(pending[k], d)[j] = pending[k][i]
    <3> DEFINE ds == pending[k]
    <3>1. ds \in Seq(Deltas)
      BY <1>1
    <3> HIDE DEF ds
    <3>2. \/ Queued(ds, d) = ds
          \/ Len(ds) > 0 /\ Queued(ds, d) = [ds EXCEPT ![Len(ds)] = d]
          \/ Queued(ds, d) = Append(ds, d)
      BY <3>1 DEF Queued
    <3>3. j \in 1..Len(Queued(ds, d))
      BY <2>1 DEF ds
    <3>4. \/ Queued(ds, d)[j] = d
          \/ \E i \in 1..Len(ds) : Queued(ds, d)[j] = ds[i]
      BY <3>1, <3>2, <3>3
    <3> QED
      BY <3>4 DEF ds
  <2>2. ASSUME NEW q \in Keys, NEW j \in 1..Len(pending'[q])
        PROVE  Explained(pending'[q][j], q)
    <3>1. CASE q = k
      BY <1>1, <1>3, <2>1, <2>2, <3>1 DEF Explained
    <3>2. CASE q # k
      BY <1>1, <1>3, <2>2, <3>2 DEF Explained
    <3> QED
      BY <3>1, <3>2
  <2> QED
    BY <2>2 DEF PendingMoves
<1> QED
  BY <1>2, <1>3 DEF Notify

(* An accepted write gives the release a version no one has seen.            *)
LEMMA PutMoves ==
  ASSUME TypeOK, NEW k \in Keys, NEW spec \in Specs, NEW status \in Statuses,
         Put(k, spec, status)
  PROVE  ApiMoves /\ PendingMoves
<1>1. /\ api' = [api EXCEPT ![k] = New(spec, status)] /\ lastRv' = lastRv + 1
      /\ Notify(k, Set(New(spec, status)))
  BY DEF Put, New
<1>2. New(spec, status) \in Objects
  BY DEF TypeOK, New, Objects
<1>3. api'[k] = New(spec, status) /\ api'[k] # NoObj
  BY <1>1, <1>2, AbsenceAssumption DEF TypeOK
<1>4. Set(New(spec, status)) \in Deltas
  BY <1>2, SetType
<1>5. PendingMoves
  BY <1>1, <1>3, <1>4, NotifyMoves
<1> QED
  BY <1>1, <1>5 DEF ApiMoves

(* The API server is left alone.                                             *)
LEMMA SameApi ==
  ASSUME UNCHANGED apiVars
  PROVE  ApiMoves
BY DEF ApiMoves, apiVars

(* The queue is left alone.                                                  *)
LEMMA SamePending ==
  ASSUME UNCHANGED pending
  PROVE  PendingMoves
BY DEF PendingMoves, Explained

(* The cache is left alone.                                                  *)
LEMMA SameCache ==
  ASSUME UNCHANGED cache
  PROVE  CacheMoves
BY DEF CacheMoves

(* Taking a delta brings nothing new into the queue.                         *)
LEMMA PopMoves ==
  ASSUME TypeOK, NEW k \in Keys, Pop(k)
  PROVE  /\ PendingMoves
         /\ 1 \in 1..Len(pending[k]) /\ pending[k][1] = Head(pending[k])
<1>1. pending \in [Keys -> Seq(Deltas)] /\ pending[k] # <<>>
      /\ pending' = [pending EXCEPT ![k] = Tail(pending[k])]
  BY DEF TypeOK, Pop
<1>2. ASSUME NEW j \in 1..Len(Tail(pending[k]))
      PROVE  j + 1 \in 1..Len(pending[k]) /\ Tail(pending[k])[j] = pending[k][j + 1]
  BY <1>1
<1>3. ASSUME NEW q \in Keys, NEW j \in 1..Len(pending'[q])
      PROVE  Explained(pending'[q][j], q)
  <2>1. CASE q = k
    BY <1>1, <1>2, <1>3, <2>1 DEF Explained
  <2>2. CASE q # k
    BY <1>1, <1>3, <2>2 DEF Explained
  <2> QED
    BY <2>1, <2>2
<1>4. PendingMoves
  BY <1>3 DEF PendingMoves
<1> QED
  BY <1>1, <1>4

(* A handler that begins with an object takes it from the queue.             *)
LEMMA CachedMoves ==
  ASSUME TypeOK, NEW k \in Keys, NEW o, Cached(k, o),
         \/ o = NoObj
         \/ \E i \in 1..Len(pending[k]) :
              /\ pending[k][i].kind = "set"
              /\ o.rv = pending[k][i].obj.rv
              /\ Filled(pending[k][i].obj.spec, o.spec)
  PROVE  CacheMoves
BY DEF TypeOK, Cached, CacheMoves

(* Handlers change the status of the cached object only.                     *)
LEMMA StatusMoves ==
  ASSUME TypeOK, at \in Keys, cache[at] \in Objects,
         cache[at] # NoObj, NEW status,
         cache' = [cache EXCEPT ![at] = [cache[at] EXCEPT !.status = status]]
  PROVE  CacheMoves
<1>1. ASSUME NEW k \in Keys
      PROVE  \/ cache'[k] = NoObj
             \/ /\ cache[k] # NoObj
                /\ cache'[k].rv = cache[k].rv /\ cache'[k].spec = cache[k].spec
  BY DEF TypeOK, Objects
<1> QED
  BY <1>1 DEF CacheMoves


-----------------------------------------------------------------------------
(* The moves of every action. *)

Moves == ApiMoves /\ PendingMoves /\ CacheMoves

(* Users write through the API server only.                                  *)
LEMMA UserMoves ==
  ASSUME TypeInv, NEW k \in Keys, CreateRelease(k) \/ EditRelease(k) \/ DeleteRelease(k)
  PROVE  Moves
<1>1. CacheMoves
  BY SameCache DEF CreateRelease, EditRelease, DeleteRelease
<1>2. CASE CreateRelease(k)
  <2>1. PICK s \in UserSpecs : Put(k, s, NewStatus)
    BY <1>2 DEF CreateRelease
  <2>2. s \in Specs /\ NewStatus \in Statuses
    BY InputType
  <2> QED
    BY <1>1, <2>1, <2>2, PutMoves DEF Moves, TypeInv
<1>3. CASE EditRelease(k)
  <2>1. PICK s \in UserSpecs : Put(k, s, api[k].status)
    BY <1>3 DEF EditRelease
  <2>2. s \in Specs /\ api[k].status \in Statuses
    BY <1>3, InputType DEF EditRelease, TypeInv, TypeOK, Objects
  <2> QED
    BY <1>1, <2>1, <2>2, PutMoves DEF Moves, TypeInv
<1>4. CASE DeleteRelease(k)
  <2>1. [kind |-> "del"] \in Deltas
    BY DEF Deltas
  <2>2. /\ api' = [api EXCEPT ![k] = NoObj] /\ lastRv' = lastRv
        /\ Notify(k, [kind |-> "del"])
    BY <1>4 DEF DeleteRelease
  <2>3. ApiMoves
    BY <2>2 DEF ApiMoves
  <2>4. PendingMoves
    BY <2>1, <2>2, NotifyMoves DEF TypeInv
  <2> QED
    BY <1>1, <2>3, <2>4 DEF Moves
<1> QED
  BY <1>2, <1>3, <1>4

(* Opened or listed again, the watch delivers what the API server has.       *)
LEMMA WatchMoves ==
  ASSUME TypeInv, WatchOpen \/ Relist
  PROVE  Moves
<1>1. ApiMoves /\ CacheMoves /\ api' = api
  BY SameApi, SameCache DEF WatchOpen, Relist, apiVars
<1>2. ASSUME NEW k \in Keys, NEW ds \in Seq(Deltas), NEW j \in 1..Len(ds),
             pending'[k] = ds,
             \/ ds = pending[k]
             \/ api[k] # NoObj /\ ds = Append(pending[k], Set(api[k]))
             \/ ds = Queued(pending[k], [kind |-> "gone"])
      PROVE  Explained(pending'[k][j], k)
  <2>1. pending[k] \in Seq(Deltas)
    BY DEF TypeInv, TypeOK
  <2>2. CASE ds = pending[k]
    BY <1>2, <2>2 DEF Explained
  <2>3. CASE api[k] # NoObj /\ ds = Append(pending[k], Set(api[k]))
    <3>1. ds[j] = Set(api[k]) \/ \E i \in 1..Len(pending[k]) : ds[j] = pending[k][i]
      BY <1>2, <2>1, <2>3
    <3> QED
      BY <1>1, <1>2, <2>3, <3>1 DEF Explained
  <2>4. CASE ds = Queued(pending[k], [kind |-> "gone"])
    <3>1. ds = pending[k] \/ ds = Append(pending[k], [kind |-> "gone"])
      BY <2>4 DEF Queued
    <3>2. ds[j] = [kind |-> "gone"] \/ \E i \in 1..Len(pending[k]) : ds[j] = pending[k][i]
      BY <1>2, <2>1, <3>1
    <3> QED
      BY <1>2, <3>2 DEF Explained
  <2> QED
    BY <1>2, <2>2, <2>3, <2>4
<1>3. ASSUME NEW k \in Keys
      PROVE  /\ pending'[k] \in Seq(Deltas)
             /\ \/ pending'[k] = pending[k]
                \/ api[k] # NoObj /\ pending'[k] = Append(pending[k], Set(api[k]))
                \/ pending'[k] = Queued(pending[k], [kind |-> "gone"])
  <2>1. pending' \in [Keys -> Seq(Deltas)]
    BY WatchOpenType, RelistType DEF TypeInv, TypeOK
  <2> QED
    BY <2>1 DEF WatchOpen, Relist
<1>4. PendingMoves
  BY <1>2, <1>3 DEF PendingMoves
<1> QED
  BY <1>1, <1>4 DEF Moves

(* Empty values are filled in, with those of the last revision or at least   *)
(* with what stands for none.                                                *)
LEMMA SuppliedFills ==
  ASSUME NEW o \in Objects, NEW rec \in Records
  PROVE  Supplied(o, rec).rv = o.rv /\ Filled(o.spec, Supplied(o, rec).spec)
<1>1. CASE NoValues(o.spec.config)
  <2>1. \E c \in Configs : Supplied(o, rec) = [o EXCEPT !.spec.config = c]
    <3>1. \E c \in Configs : Reused(o, rec) = [o EXCEPT !.spec.config = c]
      BY <1>1 DEF Reused, Objects, Specs, Records
    <3> PICK c \in Configs : Reused(o, rec) = [o EXCEPT !.spec.config = c]
      BY <3>1
    <3>2. CASE c = NoConfig
      <4>1. Completed([o EXCEPT !.spec.config = c]) = [o EXCEPT !.spec.config = EmptyConfig]
        BY <3>2 DEF Completed, Objects, Specs
      <4> QED
        BY <4>1, ReleaseAssumption DEF Supplied
    <3>3. CASE c # NoConfig
      BY <3>3 DEF Supplied, Completed, Objects, Specs
    <3> QED
      BY <3>2, <3>3
  <2> PICK c \in Configs : Supplied(o, rec) = [o EXCEPT !.spec.config = c]
    BY <2>1
  <2>2. /\ Supplied(o, rec).rv = o.rv
        /\ Supplied(o, rec).spec = [o.spec EXCEPT !.config = c]
    BY DEF Objects
  <2>3. [Supplied(o, rec).spec EXCEPT !.config = o.spec.config] = o.spec
    BY <2>2 DEF Objects, Specs
  <2> QED
    BY <1>1, <2>2, <2>3 DEF Filled
<1>2. CASE ~NoValues(o.spec.config)
  BY <1>2 DEF Supplied, Reused, Completed, Filled, NoValues
<1> QED
  BY <1>1, <1>2

LEMMA CompletedFills ==
  ASSUME NEW o \in Objects
  PROVE  Filled(o.spec, Completed(o).spec)
<1>1. CASE o.spec.config = NoConfig
  <2>1. Completed(o).spec = [o.spec EXCEPT !.config = EmptyConfig]
    BY <1>1 DEF Completed, Objects
  <2>2. [Completed(o).spec EXCEPT !.config = o.spec.config] = o.spec
    BY <2>1 DEF Objects, Specs
  <2> QED
    BY <1>1, <2>1, <2>2 DEF Filled, NoValues
<1>2. CASE o.spec.config # NoConfig
  BY <1>2 DEF Completed, Filled
<1> QED
  BY <1>1, <1>2

(* The object a handler begins with, kept as it is or with values filled in.  *)
LEMMA TakenMoves ==
  ASSUME TypeOK, NEW k \in Keys, Pop(k), Head(pending[k]).kind = "set",
         NEW o \in Objects, cache' = [cache EXCEPT ![k] = o],
         o.rv = Head(pending[k]).obj.rv,
         Filled(Head(pending[k]).obj.spec, o.spec)
  PROVE  CacheMoves
<1>1. 1 \in 1..Len(pending[k]) /\ pending[k][1] = Head(pending[k])
  BY PopMoves
<1>2. /\ pending[k][1].kind = "set" /\ o.rv = pending[k][1].obj.rv
      /\ Filled(pending[k][1].obj.spec, o.spec)
  BY <1>1
<1>3. \E i \in 1..Len(pending[k]) :
        /\ pending[k][i].kind = "set"
        /\ o.rv = pending[k][i].obj.rv
        /\ Filled(pending[k][i].obj.spec, o.spec)
  BY <1>1, <1>2
<1> QED
  BY <1>3 DEF TypeOK, CacheMoves

(* An update's object, after reuseValues and prepareUpdate.                   *)
LEMMA UpdateMoves ==
  ASSUME TypeOK, NEW k \in Keys, Pop(k), Head(pending[k]).kind = "set",
         Head(pending[k]).obj \in Objects,
         NEW rec \in Records, NEW r \in 1..(MaxRev - 1),
         \/ cache' = [cache EXCEPT ![k] = Supplied(Head(pending[k]).obj, rec)]
         \/ cache' = [cache EXCEPT ![k] =
                        PreparedUpdate(Supplied(Head(pending[k]).obj, rec), r)]
  PROVE  CacheMoves
<1> PICK new \in Objects : new = Head(pending[k]).obj
  OBVIOUS
<1>1. /\ Supplied(new, rec) \in Objects /\ Supplied(new, rec).rv = new.rv
      /\ Filled(new.spec, Supplied(new, rec).spec)
  BY SuppliedFills, PreparedType
<1> PICK o \in Objects : o = Supplied(new, rec)
  BY <1>1
<1>2. /\ PreparedUpdate(o, r) \in Objects
      /\ PreparedUpdate(o, r).rv = o.rv /\ PreparedUpdate(o, r).spec = o.spec
  BY PreparedType DEF PreparedUpdate, Objects
<1> PICK p \in Objects : p = PreparedUpdate(o, r)
  BY <1>2
<1>3. CASE cache' = [cache EXCEPT ![k] = o]
  BY <1>1, <1>3, TakenMoves
<1>4. CASE cache' = [cache EXCEPT ![k] = p]
  BY <1>1, <1>2, <1>4, TakenMoves
<1> QED
  BY <1>3, <1>4

(* A handler that begins with the object as it came.                          *)
LEMMA PlainMoves ==
  ASSUME TypeOK, NEW k \in Keys, Pop(k), Head(pending[k]).kind = "set",
         Cached(k, Head(pending[k]).obj)
  PROVE  CacheMoves
<1> PICK o \in Objects : o = Head(pending[k]).obj
  BY PopType
<1>1. cache' = [cache EXCEPT ![k] = o]
  BY DEF Cached
<1> QED
  BY <1>1, TakenMoves DEF Filled

(* An install begins with the object as it came, but for its status and for  *)
(* values that were nil.                                                     *)
LEMMA PreparedMoves ==
  ASSUME TypeOK, NEW k \in Keys, Pop(k), Head(pending[k]).kind = "set",
         \/ Cached(k, Completed(Head(pending[k]).obj))
         \/ Cached(k, PreparedRelease(Head(pending[k]).obj))
  PROVE  CacheMoves
<1> PICK o \in Objects : o = Head(pending[k]).obj
  BY PopType
<1>1. Completed(o) \in Objects /\ Completed(o).rv = o.rv
      /\ Filled(o.spec, Completed(o).spec)
  BY CompletedType, CompletedFills
<1> PICK c \in Objects : c = Completed(o)
  BY <1>1
<1>2. /\ PreparedRelease(o) \in Objects
      /\ PreparedRelease(o).rv = o.rv /\ PreparedRelease(o).spec = c.spec
  BY <1>1 DEF PreparedRelease, Objects, Statuses, Codes, Times
<1> PICK p \in Objects : p = PreparedRelease(o)
  BY <1>2
<1>3. CASE cache' = [cache EXCEPT ![k] = c]
  BY <1>1, <1>3, TakenMoves
<1>4. CASE cache' = [cache EXCEPT ![k] = p]
  BY <1>1, <1>2, <1>4, TakenMoves
<1> QED
  BY <1>3, <1>4 DEF Cached

(* An update begins with its object, in which values may be filled in.       *)
LEMMA UpdateFuncMoves ==
  ASSUME TypeInv, NEW k \in Keys, UpdateFunc(k)
  PROVE  CacheMoves
<1>1. /\ TypeOK /\ Pop(k) /\ Head(pending[k]).kind = "set"
      /\ Head(pending[k]).obj \in Objects /\ <<env, k[2]>> \in Keys
  BY PopType DEF TypeInv, UpdateFunc, WorkerShape, Keys
<1>2. CASE Cached(k, Head(pending[k]).obj)
  BY <1>1, <1>2, PlainMoves
<1>3. ASSUME NEW r \in 1..(MaxRev - 1), IsLast(<<env, k[2]>>, r),
             \/ cache' = [cache EXCEPT ![k] =
                            Supplied(Head(pending[k]).obj, hist[<<env, k[2]>>][r])]
             \/ cache' = [cache EXCEPT ![k] =
                            PreparedUpdate(Supplied(Head(pending[k]).obj,
                                                  hist[<<env, k[2]>>][r]), r)]
      PROVE  CacheMoves
  <2> PICK rec \in Records : rec = hist[<<env, k[2]>>][r]
    BY <1>1, <1>3, HistoryType DEF IsLast, TypeInv, TypeOK
  <2> QED
    BY <1>1, <1>3, UpdateMoves
<1> QED
  BY <1>2, <1>3 DEF UpdateFunc, PrepareFails, Cached

(* The informer's deliveries.                                                *)
LEMMA DeliverMoves ==
  ASSUME TypeInv, NEW k \in Keys,
         AddFunc(k) \/ UpdateFuncIgnores(k) \/ UpdateFunc(k) \/ DeleteFunc(k)
  PROVE  Moves
<1>1. TypeOK /\ Pop(k) /\ ApiMoves
  BY SameApi DEF TypeInv, AddFunc, UpdateFuncIgnores, UpdateFunc, DeleteFunc
<1>2. CASE AddFunc(k)
  <2>1. \/ Cached(k, Head(pending[k]).obj)
        \/ Cached(k, Completed(Head(pending[k]).obj))
        \/ Cached(k, PreparedRelease(Head(pending[k]).obj))
    BY <1>2 DEF AddFunc, PrepareFails
  <2> QED
    BY <1>1, <1>2, <2>1, PlainMoves, PreparedMoves, PopMoves DEF AddFunc, Moves
<1>3. CASE UpdateFuncIgnores(k)
  BY <1>1, <1>3, PlainMoves, PopMoves DEF UpdateFuncIgnores, Moves
<1>4. CASE UpdateFunc(k)
  BY <1>1, <1>4, UpdateFuncMoves, PopMoves DEF Moves
<1>5. CASE DeleteFunc(k)
  BY <1>1, <1>5, CachedMoves, PopMoves DEF DeleteFunc, Moves
<1> QED
  BY <1>2, <1>3, <1>4, <1>5

(* A new process has what the API server has, and an empty cache.            *)
LEMMA RestartMoves ==
  ASSUME TypeInv, Restart
  PROVE  Moves
<1>1. ApiMoves /\ api' = api
  BY SameApi DEF Restart, apiVars
<1>2. CacheMoves
  BY DEF Restart, CacheMoves
<1>3. ASSUME NEW k \in Keys, NEW j \in 1..Len(pending'[k])
      PROVE  Explained(pending'[k][j], k)
  <2>1. CASE api[k] = NoObj
    <3>1. pending'[k] = <<>>
      BY <2>1 DEF Restart
    <3> QED
      BY <1>3, <3>1
  <2>2. CASE api[k] # NoObj
    <3>1. pending'[k] = <<Set(api[k])>>
      BY <2>2 DEF Restart
    <3> QED
      BY <1>1, <1>3, <2>2, <3>1 DEF Explained
  <2> QED
    BY <2>1, <2>2
<1> QED
  BY <1>1, <1>2, <1>3 DEF Moves, PendingMoves

(* A status write, accepted or not.                                          *)
LEMMA WriteMoves ==
  ASSUME TypeInv, pc \in ReleaseLabels, WriteSucceeds \/ WriteFails, UNCHANGED cache
  PROVE  Moves
<1>1. CacheMoves
  BY SameCache
<1>2. CASE UNCHANGED <<apiVars, pending>>
  BY <1>1, <1>2, SameApi, SamePending DEF Moves
<1>3. CASE Write
  <2>1. /\ at \in Keys /\ cache[at].spec \in Specs
        /\ Wire(cache[at].status) \in Statuses
    BY HandledType, WireType DEF Objects
  <2>2. ApiMoves /\ PendingMoves
    BY <1>3, <2>1, PutMoves DEF Write, TypeInv
  <2> QED
    BY <1>1, <2>2 DEF Moves
<1> QED
  BY <1>2, <1>3 DEF WriteSucceeds, WriteFails

(* Every other step of a handler.                                            *)
LEMMA HandlerMoves ==
  ASSUME TypeInv, UNCHANGED <<apiVars, pending>>,
         \/ UNCHANGED cache
         \/ /\ pc \in ReleaseLabels
            /\ \/ \E c : SetCode(c)
               \/ cache' = [cache EXCEPT ![at].status.ver = 1]
  PROVE  Moves
<1>1. ASSUME pc \in ReleaseLabels, NEW c, SetCode(c)
      PROVE  CacheMoves
  <2>1. cache' = [cache EXCEPT ![at] =
                    [cache[at] EXCEPT !.status = [cache[at].status EXCEPT !.code = c]]]
    BY <1>1 DEF SetCode
  <2> QED
    BY <1>1, <2>1, HandledType, StatusMoves, AbsenceAssumption DEF TypeInv
<1>2. ASSUME pc \in ReleaseLabels, cache' = [cache EXCEPT ![at].status.ver = 1]
      PROVE  CacheMoves
  <2>1. cache' = [cache EXCEPT ![at] =
                    [cache[at] EXCEPT !.status = [cache[at].status EXCEPT !.ver = 1]]]
    BY <1>2
  <2> QED
    BY <1>2, <2>1, HandledType, StatusMoves, AbsenceAssumption DEF TypeInv
<1> QED
  BY <1>1, <1>2, SameApi, SamePending, SameCache DEF Moves

(* The rollback goroutine writes through the API server only.                *)
LEMMA RollbackMoves ==
  ASSUME TypeInv, RollbackStep
  PROVE  Moves
<1>1. CASE RollbackLast \/ RollbackGet \/ RollbackRead
  BY <1>1, HandlerMoves DEF RollbackLast, RollbackGet, RollbackRead, informer
<1>2. CASE RollbackWrite
  <2>1. CASE UNCHANGED <<apiVars, pending>>
    BY <1>2, <2>1, HandlerMoves DEF RollbackWrite
  <2>2. CASE Put(RollbackKey, RollbackSpec, StatusOf(rb.cur.rec, rb.cur.rev))
    <3>1. /\ RollbackKey \in Keys /\ RollbackSpec \in Specs
          /\ StatusOf(rb.cur.rec, rb.cur.rev) \in Statuses
      BY <1>2, RollbackKeyType DEF RollbackWrite
    <3>2. ApiMoves /\ PendingMoves
      BY <2>2, <3>1, PutMoves DEF TypeInv
    <3> QED
      BY <1>2, <3>2, SameCache DEF RollbackWrite, Moves
  <2> QED
    BY <1>2, <2>1, <2>2 DEF RollbackWrite
<1> QED
  BY <1>1, <1>2 DEF RollbackStep

(* All that the watch does.                                                  *)
LEMMA WatchesMove ==
  ASSUME TypeInv, WatchClose \/ Relist \/ WatchOpen
  PROVE  Moves
<1>1. CASE WatchClose
  BY <1>1, SameApi, SamePending, SameCache DEF WatchClose, informer, Moves
<1>2. CASE Relist \/ WatchOpen
  BY <1>2, WatchMoves
<1> QED
  BY <1>1, <1>2

(* The handlers' steps after their first.                                    *)
LEMMA WorkMoves ==
  ASSUME TypeInv, Install \/ Upgrade \/ RecordRelease \/ Uninstall
  PROVE  Moves
<1>1. CASE InstallStatus \/ UpgradeStatus \/ FailStatus
  <2>1. pc \in ReleaseLabels
    BY <1>1 DEF InstallStatus, UpgradeStatus, FailStatus, ReleaseLabels, Labels
  <2>2. (WriteSucceeds \/ WriteFails) /\ UNCHANGED cache
    BY <1>1 DEF InstallStatus, UpgradeStatus, FailStatus
  <2> QED
    BY <2>1, <2>2, WriteMoves
<1>2. CASE PreInstall \/ CreateResources \/ PostInstall
  <2>1. pc \in ReleaseLabels /\ UNCHANGED <<apiVars, pending>>
    BY <1>2 DEF PreInstall, CreateResources, PostInstall, ReleaseLabels, Labels
  <2>2. \/ UNCHANGED cache
        \/ SetCode("FAILED") \/ SetCode("DEPLOYED")
        \/ cache' = [cache EXCEPT ![at].status.ver = 1]
    BY <1>2 DEF PreInstall, CreateResources, PostInstall
  <2> QED
    BY <2>1, <2>2, HandlerMoves
<1>3. CASE KubeUpdate \/ Supersede
  <2>1. pc \in ReleaseLabels /\ UNCHANGED <<apiVars, pending>>
    BY <1>3 DEF KubeUpdate, Supersede, ReleaseLabels, Labels
  <2>2. UNCHANGED cache \/ SetCode("FAILED") \/ SetCode("DEPLOYED")
    BY <1>3 DEF KubeUpdate, Supersede
  <2> QED
    BY <2>1, <2>2, HandlerMoves
<1>4. CASE \/ PreUpgrade \/ PostUpgrade \/ FailSupersede \/ FailRecord
           \/ RecordRelease \/ Uninstall
  <2>1. UNCHANGED <<apiVars, pending>> /\ UNCHANGED cache
    BY <1>4 DEF PreUpgrade, PostUpgrade, FailSupersede, FailRecord, RecordRelease,
                Uninstall, Purge, PreDelete, MarkDeleting, DeleteResource, PostDelete,
                MarkDeleted, informer
  <2> QED
    BY <2>1, HandlerMoves
<1> QED
  BY <1>1, <1>2, <1>3, <1>4 DEF Install, Upgrade

(* Every step of the specification.                                          *)
LEMMA NextMoves ==
  ASSUME TypeInv, [Next]_vars
  PROVE  Moves
<1>1. CASE UserStep
  <2>1. CASE PostRollback
    BY <2>1, SameApi, SamePending, SameCache DEF PostRollback, informer, Moves
  <2> QED
    BY <1>1, <2>1, UserMoves DEF UserStep
<1>2. CASE WatchClose \/ Relist \/ WatchOpen
  BY <1>2, WatchesMove
<1>3. CASE \E k \in Keys : AddFunc(k) \/ UpdateFuncIgnores(k) \/ UpdateFunc(k)
                           \/ DeleteFunc(k)
  BY <1>3, DeliverMoves
<1>4. CASE Crash \/ \E k \in Keys : DeleteFuncPanics(k)
  BY <1>4, RestartMoves DEF Crash, DeleteFuncPanics
<1>5. CASE Install \/ Upgrade \/ RecordRelease \/ Uninstall
  BY <1>5, WorkMoves
<1>6. CASE RollbackStep
  BY <1>6, RollbackMoves
<1>7. CASE UNCHANGED vars
  BY <1>7, SameApi, SamePending, SameCache DEF vars, apiVars, Moves
<1> QED
  BY <1>1, <1>2, <1>3, <1>4, <1>5, <1>6, <1>7 DEF Next, WorkerStep, Deliver

(* VersionInv is inductive, on top of the types.                             *)
LEMMA VersionStep == TypeInv /\ VersionInv /\ [Next]_vars => VersionInv'
<1> SUFFICES ASSUME TypeInv, VersionInv, [Next]_vars PROVE VersionInv'
  OBVIOUS
<1>1. TypeOK /\ TypeOK'
  BY NextType DEF TypeInv
<1> QED
  BY <1>1, NextMoves, VersionMoves DEF Moves

(* There are no objects at first.                                            *)
LEMMA InitVersion == Init => VersionInv
BY DEF Init, VersionInv

(* A status write, seen from any release.                                    *)
StatusKeepsSpec ==
  \A k \in Keys :
    pc \in StatusLabels /\ pc' # pc /\ api'[k] # api[k] =>
      api[k] # NoObj /\ api'[k] # NoObj /\ Filled(api[k].spec, api'[k].spec)

(* Who moves the worker on from a status label without a crash.              *)
LEMMA StatusKinds ==
  ASSUME [Next]_vars, pc \in StatusLabels, pc' # pc
  PROVE  api' = api \/ Write
<1>1. pc # "idle"
  BY DEF StatusLabels
<1>2. CASE UserStep
  BY <1>2 DEF UserStep, CreateRelease, EditRelease, DeleteRelease, PostRollback, worker
<1>3. CASE WatchClose \/ Relist \/ WatchOpen \/ UNCHANGED vars
  BY <1>3 DEF WatchClose, Relist, WatchOpen, vars, worker
<1>4. CASE \E k \in Keys : AddFunc(k) \/ UpdateFuncIgnores(k) \/ UpdateFunc(k)
                           \/ DeleteFunc(k) \/ DeleteFuncPanics(k)
  BY <1>1, <1>4
     DEF AddFunc, UpdateFuncIgnores, UpdateFunc, DeleteFunc, DeleteFuncPanics, Pop
<1>5. CASE Crash
  BY <1>5 DEF Crash, Restart, apiVars
<1>6. CASE InstallStatus \/ UpgradeStatus \/ FailStatus
  <2>1. WriteSucceeds \/ WriteFails
    BY <1>6 DEF InstallStatus, UpgradeStatus, FailStatus
  <2> QED
    BY <2>1 DEF WriteSucceeds, WriteFails, apiVars
<1>7. CASE \/ PreInstall \/ CreateResources \/ PostInstall \/ PreUpgrade \/ KubeUpdate
           \/ PostUpgrade \/ Supersede \/ FailSupersede \/ FailRecord \/ RecordRelease
           \/ Uninstall
  BY <1>7 DEF PreInstall, CreateResources, PostInstall, PreUpgrade, KubeUpdate,
              PostUpgrade, Supersede, FailSupersede, FailRecord, RecordRelease,
              Uninstall, Purge, PreDelete, MarkDeleting, DeleteResource, PostDelete,
              MarkDeleted, apiVars
<1>8. CASE RollbackStep
  BY <1>8 DEF RollbackStep, RollbackLast, RollbackGet, RollbackRead, RollbackWrite, worker
<1> QED
  BY <1>2, <1>3, <1>4, <1>5, <1>6, <1>7, <1>8
     DEF Next, WorkerStep, Deliver, Install, Upgrade

(* What a status write has in hand has the spec that is there.               *)
LEMMA StatusStep ==
  ASSUME TypeInv, VersionInv, [Next]_vars
  PROVE  StatusKeepsSpec
<1> SUFFICES ASSUME NEW k \in Keys, pc \in StatusLabels, pc' # pc, api'[k] # api[k]
             PROVE  /\ api[k] # NoObj /\ api'[k] # NoObj
                    /\ Filled(api[k].spec, api'[k].spec)
  BY DEF StatusKeepsSpec
<1>1. Write
  BY StatusKinds
<1>2. at \in Keys /\ cache[at] \in Objects /\ cache[at] # NoObj
  BY HandledType, AbsenceAssumption DEF StatusLabels, ReleaseLabels, Labels
<1>3. /\ api[at] # NoObj /\ api[at].rv = cache[at].rv
      /\ api' = [api EXCEPT ![at] = New(cache[at].spec, Wire(cache[at].status))]
  BY <1>1 DEF Write, CanWrite, Put, New
<1>4. k = at /\ api'[k].spec = cache[at].spec
  BY <1>2, <1>3 DEF TypeInv, TypeOK, New
<1>5. Filled(api[at].spec, cache[at].spec)
  BY <1>2, <1>3 DEF VersionInv, Derived
<1>6. api'[k] # NoObj
  <2>1. api' \in [Keys -> Objects \cup {NoObj}]
    BY NextType DEF TypeInv, TypeOK
  <2>2. New(cache[at].spec, Wire(cache[at].status)) \in Objects
    BY <1>2, WireType DEF TypeInv, TypeOK, Objects, New
  <2> QED
    BY <1>2, <1>3, <1>4, <2>2, AbsenceAssumption DEF TypeInv, TypeOK
<1> QED
  BY <1>3, <1>4, <1>5, <1>6

(* Whatever the users, the watch, the rollback goroutine and crashes do      *)
(* while a handler is on its way, its status write changes the spec of no    *)
(* object, but for values that were empty, and brings no deleted one back.   *)
THEOREM StatusKeeps == Spec => StatusWritesKeepSpec
<1>1. TypeInv /\ VersionInv /\ [Next]_vars => VersionInv' /\ StatusKeepsSpec
  BY VersionStep, StatusStep
<1>2. StatusKeepsSpec =>
        \A k \in Keys :
          pc \in StatusLabels /\ pc' # pc /\ api'[k] # api[k] =>
            /\ api[k] # NoObj
            /\ api'[k] # NoObj
            /\ \/ api'[k].spec = api[k].spec
               \/ /\ NoValues(api[k].spec.config)
                  /\ [api'[k].spec EXCEPT !.config = api[k].spec.config]
                        = api[k].spec
  BY DEF StatusKeepsSpec, Filled
<1> QED
  BY <1>1, <1>2, InitVersion, TypeInvariant, PTL DEF Spec, StatusWritesKeepSpec
=============================================================================
