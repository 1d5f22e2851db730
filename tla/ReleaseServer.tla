--------------------------- MODULE ReleaseServer ---------------------------
(***************************************************************************)
(* tillerc's release server: the informer that turns changes of Release    *)
(* objects into calls of InstallRelease, UpdateRelease and UninstallRelease,*)
(* the goroutine that turns rollback events into writes of Release objects, *)
(* and the users and the API server around them.                           *)
(*                                                                         *)
(* Actors: users (create, edit, delete, post a rollback event); the watch   *)
(* (drop, resume, list again); the informer's worker, which runs one        *)
(* handler at a time to its end; the rollback goroutine; the process, which *)
(* may die and start again.  A handler is cut at every call it makes to the *)
(* API server, the record store or the cluster: between two of them users,  *)
(* the watch, the rollback goroutine and a crash may act.                   *)
(*                                                                         *)
(* The informer hands a handler the very object it keeps in its cache, and  *)
(* the handlers write into it: cache[k] is both.                            *)
(***************************************************************************)
EXTENDS Storage, KubeClient

CONSTANTS
  UserSpecs,  \* the specs users write
  Requests,   \* the rollback events users post
  NoNs,       \* "no namespace": env.Releases before the first AddFunc
  Limit       \* bounds: how often each kind of event happens in a behaviour

Kinds == {"create", "edit", "delete", "rollback", "crash", "gap",
          "kube", "api", "store", "discovery"}

Keyless == <<NoNs, NoNs>>

(* A rollback event: the name of the involved object, whether its message is *)
(* a RollbackReq, and what that says.                                        *)
RollbackRequests ==
  [object : Named, readable : BOOLEAN, dryRun : BOOLEAN, disableHooks : BOOLEAN]

ASSUME ServerAssumption ==
  /\ UserSpecs \subseteq Specs
  /\ Requests \subseteq RollbackRequests
  /\ Limit \in [Kinds -> Nat]
  /\ NoNs \notin Namespaces

Labels == {"idle",
           "preInstall", "create", "postInstall", "installStatus",
           "preUpgrade", "kubeUpdate", "postUpgrade", "supersede",
           "upgradeStatus", "failStatus", "failSupersede", "failRecord",
           "record",
           "purge", "preDelete", "markDeleting", "deleting", "markDeleted"}

(* The labels at which a handler works on the cached object.                *)
ReleaseLabels == Labels \ {"idle", "purge", "preDelete", "markDeleting",
                           "deleting", "markDeleted"}

Deltas == [kind : {"set"}, obj : Objects] \cup [kind : {"del", "gone"}]

VARIABLES
  api,      \* the API server: key -> Release object
  lastRv,   \* the last resource version it gave out
  watching, \* the informer's watch: "open", "closed", "listed"
  pending,  \* DeltaFIFO: key -> deltas not yet handled
  cache,    \* the informer's store: key -> Release object
  env,      \* the namespace env.Releases stores records in
  pc,       \* where the informer's worker is
  at,       \* the key it handles
  cur,      \* the record its handler read: revision and copy
  todo,     \* the resources an uninstall has yet to delete
  wrote,    \* performUpdate's failure path: the status write succeeded
  events,   \* the rollback events posted
  unread,   \* those the rollback goroutine has yet to handle
  rb,       \* the rollback goroutine
  used      \* how often each kind of event has happened

apiVars   == <<api, lastRv>>
informer  == <<watching, pending, cache>>
worker    == <<pc, at, cur, todo, wrote>>
rollback  == <<events, unread, rb>>
vars == <<api, lastRv, watching, pending, cache, env, pc, at, cur, todo, wrote,
          events, unread, rb, used, hist, live>>

NoCur == [rev |-> 0, rec |-> NoRec]

RbIdle == [pc |-> "idle", req |-> 0, cur |-> NoCur, ns |-> NoNs, tgt |-> NoRec,
           rv |-> 0]

-----------------------------------------------------------------------------
(* Bounded events and faults. *)

Spend(kind) ==
  /\ used[kind] < Limit[kind]
  /\ used' = [used EXCEPT ![kind] = @ + 1]

Works == UNCHANGED used

-----------------------------------------------------------------------------
(* The API server and the watch. *)

Deletion(d) == d.kind # "set"

(* DeltaFIFO: two deletions in a row become one, and the one that carries   *)
(* the object is kept.                                                      *)
Queued(ds, d) ==
  IF ds # <<>> /\ Deletion(ds[Len(ds)]) /\ Deletion(d)
  THEN IF d.kind = "gone" THEN ds ELSE [ds EXCEPT ![Len(ds)] = d]
  ELSE Append(ds, d)

(* DeltaFIFO.Delete skips an object nobody knows of.                        *)
Notify(k, d) ==
  IF watching = "open" /\ ~(Deletion(d) /\ cache[k] = NoObj /\ pending[k] = <<>>)
  THEN pending' = [pending EXCEPT ![k] = Queued(@, d)]
  ELSE UNCHANGED pending

Set(o) == [kind |-> "set", obj |-> o]

(* A write the API server accepts.                                          *)
Put(k, spec, status) ==
  LET o == [rv |-> lastRv + 1, spec |-> spec, status |-> status]
  IN  /\ api' = [api EXCEPT ![k] = o]
      /\ lastRv' = lastRv + 1
      /\ Notify(k, Set(o))

(* Users.                                                                   *)
CreateRelease(k) ==
  /\ api[k] = NoObj
  /\ Spend("create")
  /\ \E s \in UserSpecs : Put(k, s, NewStatus)
  /\ UNCHANGED <<hist, live, watching, cache, env, worker, rollback>>

EditRelease(k) ==
  /\ api[k] # NoObj
  /\ Spend("edit")
  /\ \E s \in UserSpecs : s # api[k].spec /\ Put(k, s, api[k].status)
  /\ UNCHANGED <<hist, live, watching, cache, env, worker, rollback>>

DeleteRelease(k) ==
  /\ api[k] # NoObj
  /\ Spend("delete")
  /\ api' = [api EXCEPT ![k] = NoObj]
  /\ Notify(k, [kind |-> "del"])
  /\ UNCHANGED <<lastRv, hist, live, watching, cache, env, worker, rollback>>

PostRollback ==
  /\ Spend("rollback")
  /\ \E q \in Requests : events' = Append(events, q)
  /\ unread' = unread \cup {Len(events) + 1}
  /\ UNCHANGED <<apiVars, hist, live, informer, env, worker, rb>>

(* The watch ends: what happens until it resumes is not delivered.          *)
WatchClose ==
  /\ watching = "open"
  /\ Spend("gap")
  /\ watching' = "closed"
  /\ UNCHANGED <<apiVars, hist, live, pending, cache, env, worker, rollback>>

(* WatchFunc passes no resource version, so the watch begins with every     *)
(* object that exists at that moment.                                       *)
WatchOpen ==
  /\ watching # "open"
  /\ watching' = "open"
  /\ pending' = [k \in Keys |-> IF api[k] = NoObj THEN pending[k]
                                ELSE Append(pending[k], Set(api[k]))]
  /\ Works
  /\ UNCHANGED <<apiVars, hist, live, cache, env, worker, rollback>>

(* The watch ended with an error: DeltaFIFO.Replace with a new list.  A     *)
(* Sync after a queued deletion is skipped; an object that is cached and    *)
(* not listed is deleted with its final state unknown.                      *)
Relist ==
  /\ watching = "closed"
  /\ watching' = "listed"
  /\ pending' = [k \in Keys |->
       IF api[k] # NoObj
       THEN IF pending[k] # <<>> /\ Deletion(pending[k][Len(pending[k])])
            THEN pending[k] ELSE Append(pending[k], Set(api[k]))
       ELSE IF cache[k] # NoObj THEN Queued(pending[k], [kind |-> "gone"])
            ELSE pending[k]]
  /\ Works
  /\ UNCHANGED <<apiVars, hist, live, cache, env, worker, rollback>>

-----------------------------------------------------------------------------
(* The worker. *)

Goto(label) == pc' = label /\ UNCHANGED <<at, cur, todo, wrote>>

Done == pc' = "idle" /\ at' = Keyless /\ cur' = NoCur /\ todo' = {} /\ wrote' = FALSE

Begin(label, k, c) ==
  /\ pc' = label
  /\ at' = k
  /\ cur' = c
  /\ UNCHANGED <<todo, wrote>>

(* The next delta of key k is taken.                                        *)
Pop(k) ==
  /\ pc = "idle"
  /\ pending[k] # <<>>
  /\ pending' = [pending EXCEPT ![k] = Tail(@)]
  /\ UNCHANGED watching

Cached(k, o) == cache' = [cache EXCEPT ![k] = o]

(* Mutant: records go to the namespace of the release.                       *)
OwnStoreKey == at

(* The store the handler's env.Releases stands for, for its release.        *)
StoreKey == <<env, at[2]>>

(* What Storage.History finds of a name: nothing while env.Releases is nil.  *)
Known(name) ==
  IF env \in Namespaces /\ name \in Names THEN History(<<env, name>>) ELSE {}

(* Does rendering fail?  Discovery of the API versions is a remote call.    *)
RenderFails(spec) ==
  \/ spec.chart \in BadRender /\ Works
  \/ spec.chart \notin BadRender /\ Spend("discovery")

Renders(spec) == spec.chart \notin BadRender /\ Works

(* No values become empty values before anything is rendered.               *)
Completed(o) ==
  IF o.spec.config = NoConfig THEN [o EXCEPT !.spec.config = EmptyConfig] ELSE o

(* A handler that goes no further leaves the object in the cache with its    *)
(* values filled in; one that misses the chart returns before that.          *)
PrepareFails(k, o, filled) ==
  \/ RenderFails(o.spec) /\ Cached(k, filled)
  \/ o.spec.chart \in BadRender /\ Works /\ Cached(k, o)

(* prepareRelease: LastDeployedVersion is not set yet.                      *)
PreparedRelease(o) ==
  [Completed(o) EXCEPT !.status.code = "UNKNOWN", !.status.first = "clock",
                       !.status.last = "clock"]

(* Mutant: the name of the release taken for its namespace.                  *)
StoreNamedAfter(k) == k[2]

(* The namespace of the store that AddFunc sets.                             *)
StoreNamespace(k) == k[1]

(* A delta of an object the cache does not have: AddFunc and, inside it,    *)
(* InstallRelease up to its first call to the cluster.                      *)
AddFunc(k) ==
  /\ Pop(k)
  /\ cache[k] = NoObj
  /\ Head(pending[k]).kind = "set"
  /\ env' = StoreNamespace(k)
  /\ LET o == Head(pending[k]).obj
     IN  \/ PrepareFails(k, o, Completed(o)) /\ UNCHANGED worker
         \/ /\ Renders(o.spec)
            /\ Cached(k, PreparedRelease(o))
            /\ IF o.spec.chart \in BadManifest \/ o.spec.dryRun
               THEN UNCHANGED worker
               ELSE Begin("preInstall", k, NoCur)
  /\ UNCHANGED <<apiVars, hist, live, rollback>>

(* Mutant: only a resync is ignored.                                         *)
IgnoredResync(old, new) == old = new

(* UpdateFunc takes an update with another status for one of the server's   *)
(* own writes, and one that changes nothing for a resync.                   *)
Ignored(old, new) == old.status # new.status \/ old = new

UpdateFuncIgnores(k) ==
  /\ Pop(k)
  /\ cache[k] # NoObj
  /\ Head(pending[k]).kind = "set"
  /\ Ignored(cache[k], Head(pending[k]).obj)
  /\ Cached(k, Head(pending[k]).obj)
  /\ Works
  /\ UNCHANGED <<apiVars, hist, live, env, worker, rollback>>

(* Mutant: the values of the last revision always win.                       *)
AlwaysReused(o, rec) ==
  IF NoValues(rec.spec.config) THEN o ELSE [o EXCEPT !.spec.config = rec.spec.config]

(* reuseValues: empty values are replaced by those of the last revision,    *)
(* when that has any.                                                       *)
Reused(o, rec) ==
  IF NoValues(o.spec.config) /\ ~NoValues(rec.spec.config)
  THEN [o EXCEPT !.spec.config = rec.spec.config] ELSE o

Supplied(o, rec) == Completed(Reused(o, rec))

PreparedUpdate(o, r) ==
  [o EXCEPT !.status.first = "zero", !.status.last = "clock", !.status.ver = r + 1]

(* UpdateRelease up to its first call to the cluster: Last, reuseValues,    *)
(* rendering, the new status and validation.                                *)
UpdateFunc(k) ==
  /\ Pop(k)
  /\ cache[k] # NoObj
  /\ Head(pending[k]).kind = "set"
  /\ LET new == Head(pending[k]).obj
         o == <<env, k[2]>>
     IN  /\ ~Ignored(cache[k], new)
         /\ \/ /\ \/ Known(k[2]) = {} /\ Works
                  \/ Known(k[2]) # {} /\ Spend("store")
               /\ Cached(k, new)
               /\ UNCHANGED worker
            \/ \E r \in 1..(MaxRev - 1) :
                 /\ IsLast(o, r)
                 /\ LET n == Supplied(new, hist[o][r])
                    IN  \/ PrepareFails(k, new, n) /\ UNCHANGED worker
                        \/ /\ Renders(n.spec)
                           /\ Cached(k, PreparedUpdate(n, r))
                           /\ IF n.spec.chart \in BadManifest \/ n.spec.dryRun
                              THEN UNCHANGED worker
                              ELSE Begin("preUpgrade", k,
                                         [rev |-> r, rec |-> hist[o][r]])
  /\ UNCHANGED <<apiVars, hist, live, env, rollback>>

(* UninstallRelease up to its first change: the history of the name decides, *)
(* not the object that was deleted.                                         *)
DeleteFunc(k) ==
  /\ Pop(k)
  /\ Head(pending[k]).kind = "del"
  /\ Cached(k, NoObj)
  /\ LET o == <<env, k[2]>>
     IN  \/ /\ \/ Known(k[2]) = {} /\ Works
               \/ Known(k[2]) # {} /\ Spend("store")
            /\ UNCHANGED worker
         \/ /\ env # NoNs
            /\ \E r \in 1..MaxRev :
                 /\ IsLast(o, r)
                 /\ Begin(IF hist[o][r].spec.purge THEN "purge" ELSE "preDelete",
                          k, [rev |-> r, rec |-> hist[o][r]])
            /\ Works
  /\ UNCHANGED <<apiVars, hist, live, env, rollback>>

-----------------------------------------------------------------------------
(* The steps the handlers share. *)

HasHook(event, spec) == ~spec.disableHooks /\ event \in Hooks[spec.chart]

(* execHook: every hook of the chart for this event is created and watched.  *)
(* It fails when one does not complete, and when one cannot be created: a    *)
(* hook is never removed, so one of a fixed name fails whenever it ran       *)
(* before.  Which hooks have a fixed name is left open, so any may fail, any *)
(* number of times.                                                          *)
HookFails(event, spec) == HasHook(event, spec) /\ Works

(* Client.Release(ns).Update(rel): the cached resource version decides.      *)
CanWrite == api[at] # NoObj /\ api[at].rv = cache[at].rv

(* Mutant: the object is read first, and written with the version it has now. *)
WriteOverwrites ==
  api[at] # NoObj /\ Put(at, cache[at].spec, Wire(cache[at].status))

Write == CanWrite /\ Put(at, cache[at].spec, Wire(cache[at].status))

WriteSucceeds == Write /\ Works

(* It fails on a conflict or a missing object, on an error of the server, or *)
(* because the answer was lost.                                              *)
WriteFails ==
  \/ ~CanWrite /\ Works /\ UNCHANGED <<apiVars, pending>>
  \/ Spend("api") /\ (UNCHANGED <<apiVars, pending>> \/ Write)

(* The revision a handler records: the one after the record it read, or 1.   *)
NextRev == cur.rev + 1

(* Storage.Create of the handled release.                                    *)
Record ==
  \/ /\ StoreCreate(StoreKey, NextRev,
                    [spec |-> cache[at].spec, code |-> cache[at].status.code])
     /\ Works
  \/ Spend("store") /\ UNCHANGED hist

(* Mutant: recordRelease called with reuse = false.                          *)
RewriteAsCreate(rec) ==
  \/ StoreCreate(StoreKey, cur.rev, rec) /\ Works
  \/ Spend("store") /\ UNCHANGED hist

(* recordRelease(rel, true): the record the handler holds is written back,   *)
(* an error is only logged.                                                  *)
Rewrite(rec) ==
  \/ StoreUpdate(StoreKey, cur.rev, rec) /\ Works
  \/ Spend("store") /\ UNCHANGED hist

SetCode(c) == cache' = [cache EXCEPT ![at].status.code = c]

-----------------------------------------------------------------------------
(* InstallRelease, after prepareRelease. *)

PreInstall ==
  /\ pc = "preInstall"
  /\ \/ Works /\ cache' = [cache EXCEPT ![at].status.ver = 1] /\ Goto("create")
     \/ HookFails("pre-install", cache[at].spec) /\ UNCHANGED cache /\ Done
  /\ UNCHANGED <<apiVars, hist, live, watching, pending, env, rollback>>

CreateResources ==
  /\ pc = "create"
  /\ LET m == Manifest(cache[at].spec)
     IN  \/ /\ CreateSucceeds(at[1], m) /\ Works
            /\ Goto("postInstall") /\ UNCHANGED cache
         \/ /\ CreateFails(at[1], m)
            /\ IF CanCreate(at[1], m) THEN Spend("kube") ELSE Works
            /\ Goto("installStatus") /\ SetCode("FAILED")
  /\ UNCHANGED <<apiVars, hist, watching, pending, env, rollback>>

PostInstall ==
  /\ pc = "postInstall"
  /\ \/ Works /\ SetCode("DEPLOYED")
     \/ HookFails("post-install", cache[at].spec) /\ SetCode("FAILED")
  /\ Goto("installStatus")
  /\ UNCHANGED <<apiVars, hist, live, watching, pending, env, rollback>>

InstallStatus ==
  /\ pc = "installStatus"
  /\ WriteSucceeds \/ WriteFails
  /\ Goto("record")
  /\ UNCHANGED <<hist, live, watching, cache, env, rollback>>

(* The last step of an install, and of an update: Storage.Create.            *)
RecordRelease ==
  /\ pc = "record"
  /\ Record
  /\ Done
  /\ UNCHANGED <<apiVars, live, informer, env, rollback>>

-----------------------------------------------------------------------------
(* UpdateRelease, after prepareUpdate. *)

PreUpgrade ==
  /\ pc = "preUpgrade"
  /\ \/ Works /\ Goto("kubeUpdate")
     \/ HookFails("pre-upgrade", cache[at].spec) /\ Done
  /\ UNCHANGED <<apiVars, hist, live, informer, env, rollback>>

KubeUpdate ==
  /\ pc = "kubeUpdate"
  /\ LET orig == Manifest(cur.rec.spec)
         target == Manifest(cache[at].spec)
     IN  \/ /\ \/ UpdateSucceeds(at[1], orig, target, {}) /\ Works
               \/ \E left \in SUBSET (Targets(orig) \ Targets(target)) :
                    UpdateSucceeds(at[1], orig, target, left) /\ Spend("kube")
            /\ Goto("postUpgrade") /\ UNCHANGED cache
         \/ /\ \/ /\ UpdateFails(at[1], orig, target)
                  /\ IF CanUpdate(at[1], orig, target) THEN Spend("kube") ELSE Works
               \/ UpdateTimesOut(at[1], orig, target) /\ Spend("kube")
            /\ Goto("failStatus") /\ SetCode("FAILED")
  /\ UNCHANGED <<apiVars, hist, watching, pending, env, rollback>>

PostUpgrade ==
  /\ pc = "postUpgrade"
  /\ \/ Works /\ Goto("supersede")
     \/ HookFails("post-upgrade", cache[at].spec) /\ Done
  /\ UNCHANGED <<apiVars, hist, live, informer, env, rollback>>

(* Mutant: the code of the original release is not set.                      *)
NotSuperseded == cur.rec

(* Mutant: the updated release is written under the original's revision.     *)
SupersededByNew == [spec |-> cache[at].spec, code |-> "SUPERSEDED"]

(* performUpdate's original release, as it is written back.                  *)
Superseded == [cur.rec EXCEPT !.code = "SUPERSEDED"]

Supersede ==
  /\ pc = "supersede"
  /\ Rewrite(Superseded)
  /\ SetCode("DEPLOYED")
  /\ Goto("upgradeStatus")
  /\ UNCHANGED <<apiVars, live, watching, pending, env, rollback>>

(* Mutant: a failed status write is tried again with the same object.        *)
UpgradeStatusRetries ==
  /\ pc = "upgradeStatus"
  /\ \/ WriteSucceeds /\ Goto("record")
     \/ WriteFails /\ Goto("upgradeStatus")
  /\ UNCHANGED <<hist, live, watching, cache, env, rollback>>

(* An error of the status write ends UpdateRelease: nothing is recorded.     *)
UpgradeStatus ==
  /\ pc = "upgradeStatus"
  /\ \/ WriteSucceeds /\ Goto("record")
     \/ WriteFails /\ Done
  /\ UNCHANGED <<hist, live, watching, cache, env, rollback>>

(* The update of the cluster failed: status, superseded record, new record.  *)
FailStatus ==
  /\ pc = "failStatus"
  /\ \/ WriteSucceeds /\ wrote' = TRUE
     \/ WriteFails /\ wrote' = FALSE
  /\ pc' = "failSupersede"
  /\ UNCHANGED <<at, cur, todo, hist, live, watching, cache, env, rollback>>

FailSupersede ==
  /\ pc = "failSupersede"
  /\ Rewrite(Superseded)
  /\ Goto("failRecord")
  /\ UNCHANGED <<apiVars, live, informer, env, rollback>>

(* The error of the cluster was overwritten by the result of the status      *)
(* write: when that succeeded, UpdateRelease goes on and records once more.  *)
FailRecord ==
  /\ pc = "failRecord"
  /\ Record
  /\ IF wrote THEN Goto("record") ELSE Done
  /\ UNCHANGED <<apiVars, live, informer, env, rollback>>

-----------------------------------------------------------------------------
(* UninstallRelease, after Last. *)

(* Mutant: the list is reversed, as Last does it.                            *)
PurgeDescending ==
  /\ pc = "purge"
  /\ \/ /\ Works
        /\ \E r \in History(StoreKey) :
             /\ IsLast(StoreKey, r)
             /\ StoreDelete(StoreKey, r)
             /\ IF History(StoreKey) = {r} THEN Done ELSE Goto("purge")
     \/ Spend("store") /\ UNCHANGED hist /\ Done
  /\ UNCHANGED <<apiVars, live, informer, env, rollback>>

(* purgeReleases deletes the records in ascending order and stops at the     *)
(* first error; nothing else is deleted.                                     *)
Purge ==
  /\ pc = "purge"
  /\ \/ /\ Works
        /\ \E r \in History(StoreKey) :
             /\ \A q \in History(StoreKey) : r <= q
             /\ StoreDelete(StoreKey, r)
             /\ IF History(StoreKey) = {r} THEN Done ELSE Goto("purge")
     \/ Spend("store") /\ UNCHANGED hist /\ Done
  /\ UNCHANGED <<apiVars, live, informer, env, rollback>>

PreDelete ==
  /\ pc = "preDelete"
  /\ \/ Works /\ Goto("markDeleting")
     \/ HookFails("pre-delete", cur.rec.spec) /\ Done
  /\ UNCHANGED <<apiVars, hist, live, informer, env, rollback>>

(* Discovery, then the DELETING record, then the files to delete: those      *)
(* filterManifestsToKeep does not keep.  sortManifests fails when an API      *)
(* version of the manifest is no longer served.                              *)
Deleting == [cur.rec EXCEPT !.code = "DELETING"]

MarkDeleting ==
  /\ pc = "markDeleting"
  /\ \/ Spend("discovery") /\ UNCHANGED hist /\ Done
     \/ Spend("discovery") /\ StoreUpdate(StoreKey, cur.rev, Deleting) /\ Done
     \/ /\ Rewrite(Deleting)
        /\ todo' = FilesToDelete(Manifest(cur.rec.spec))
        /\ pc' = "deleting"
        /\ UNCHANGED <<at, cur, wrote>>
  /\ UNCHANGED <<apiVars, live, informer, env, rollback>>

(* The resources go from the namespace of the record; errors are collected.  *)
DeleteResource ==
  /\ pc = "deleting"
  /\ \E r \in todo :
       /\ \/ Deleted(env, r) /\ Works
          \/ Spend("kube") /\ UNCHANGED live
       /\ todo' = todo \ {r}
  /\ UNCHANGED <<pc, at, cur, wrote, apiVars, hist, informer, env, rollback>>

(* The post-delete hooks, whose errors are collected too, so that nothing    *)
(* depends on them.                                                          *)
PostDelete ==
  /\ pc = "deleting"
  /\ todo = {}
  /\ Works
  /\ Goto("markDeleted")
  /\ UNCHANGED <<apiVars, hist, live, informer, env, rollback>>

MarkDeleted ==
  /\ pc = "markDeleted"
  /\ Rewrite([cur.rec EXCEPT !.code = "DELETED"])
  /\ Done
  /\ UNCHANGED <<apiVars, live, informer, env, rollback>>

-----------------------------------------------------------------------------
(* RollbackRelease, in a goroutine of its own. *)

Dropped == rb' = RbIdle

(* What an event must be for prepareRollback to look at the records.         *)
Accepted(q) ==
  q.readable /\ ValidName(NameOf(q.object)) /\ VersionOf(q.object) >= 0

(* The next event and the last revision of the release.  Whatever goes       *)
(* wrong, the event is not handled again.                                    *)
RollbackLast ==
  /\ rb.pc = "idle"
  /\ \E i \in unread :
       /\ unread' = unread \ {i}
       /\ LET name == NameOf(events[i].object)
              o == <<env, name>>
          IN  \/ ~Accepted(events[i]) /\ Works /\ Dropped
              \/ /\ Accepted(events[i])
                 /\ \/ Known(name) = {} /\ Works
                    \/ Known(name) # {} /\ Spend("store")
                 /\ Dropped
              \/ /\ Accepted(events[i])
                 /\ Works
                 /\ \E r \in Known(name) :
                      /\ IsLast(o, r)
                      /\ rb' = [RbIdle EXCEPT !.pc = "get", !.req = i,
                                             !.cur = [rev |-> r, rec |-> hist[o][r]]]
  /\ UNCHANGED <<apiVars, hist, live, informer, env, worker, events>>

(* Mutant: zero stands for the current revision.                             *)
RevisionOrCurrent ==
  LET version == VersionOf(events[rb.req].object)
  IN  IF version = 0 THEN rb.cur.rev ELSE version

(* The revision asked for, or the one before the last.                       *)
TargetRevision ==
  LET version == VersionOf(events[rb.req].object)
  IN  IF version = 0 THEN rb.cur.rev - 1 ELSE version

(* It is read through env.Releases, which AddFunc may have set meanwhile.    *)
RollbackGet ==
  /\ rb.pc = "get"
  /\ LET o == <<env, NameOf(events[rb.req].object)>>
         v == TargetRevision
     IN  \/ /\ v \in History(o)
            /\ Works
            /\ rb' = [rb EXCEPT !.pc = "read", !.ns = env, !.tgt = hist[o][v]]
         \/ v \notin History(o) /\ Works /\ Dropped
         \/ v \in History(o) /\ Spend("store") /\ Dropped
  /\ UNCHANGED <<apiVars, hist, live, informer, env, worker, events, unread>>

(* Mutant: the namespace of env.Releases once more.                          *)
KeyOfStore == <<env, NameOf(events[rb.req].object)>>

RollbackKey == <<rb.ns, NameOf(events[rb.req].object)>>

(* performKubeUpdateForRollback reads the Release object for its metadata    *)
(* and so for its resource version,                                          *)
RollbackRead ==
  /\ rb.pc = "read"
  /\ \/ /\ api[RollbackKey] # NoObj
        /\ Works
        /\ rb' = [rb EXCEPT !.pc = "write", !.rv = api[RollbackKey].rv]
     \/ api[RollbackKey] = NoObj /\ Works /\ Dropped
     \/ api[RollbackKey] # NoObj /\ Spend("api") /\ Dropped
  /\ UNCHANGED <<apiVars, hist, live, informer, env, worker, events, unread>>

(* and writes the target's chart and values under the status of the last     *)
(* record.                                                                   *)
RollbackSpec ==
  [chart |-> rb.tgt.spec.chart, config |-> rb.tgt.spec.config,
   dryRun |-> events[rb.req].dryRun,
   disableHooks |-> events[rb.req].disableHooks, purge |-> FALSE]

CanRollback == api[RollbackKey] # NoObj /\ api[RollbackKey].rv = rb.rv

RollbackWrite ==
  /\ rb.pc = "write"
  /\ \/ /\ CanRollback
        /\ Put(RollbackKey, RollbackSpec, StatusOf(rb.cur.rec, rb.cur.rev))
        /\ Works
     \/ ~CanRollback /\ Works /\ UNCHANGED <<apiVars, pending>>
     \/ CanRollback /\ Spend("api") /\ UNCHANGED <<apiVars, pending>>
  /\ Dropped
  /\ UNCHANGED <<hist, live, watching, cache, env, worker, events, unread>>

-----------------------------------------------------------------------------
(* The process. *)

(* A new process lists every Release object and every rollback event that    *)
(* still exists, then watches.                                               *)
Restart ==
  /\ pc' = "idle"
  /\ at' = Keyless
  /\ cur' = NoCur
  /\ todo' = {}
  /\ wrote' = FALSE
  /\ cache' = [k \in Keys |-> NoObj]
  /\ env' = NoNs
  /\ watching' = "listed"
  /\ pending' = [k \in Keys |-> IF api[k] = NoObj THEN <<>> ELSE <<Set(api[k])>>]
  /\ unread' = 1..Len(events)
  /\ rb' = RbIdle
  /\ UNCHANGED <<apiVars, hist, live, events>>

Crash == Spend("crash") /\ Restart

(* A deletion with an unknown final state fails DeleteFunc's type assertion. *)
DeleteFuncPanics(k) ==
  /\ pc = "idle"
  /\ pending[k] # <<>>
  /\ Head(pending[k]).kind = "gone"
  /\ Works
  /\ Restart

-----------------------------------------------------------------------------

Init ==
  /\ HistInit
  /\ LiveInit
  /\ api = [k \in Keys |-> NoObj]
  /\ lastRv = 0
  /\ watching = "open"
  /\ pending = [k \in Keys |-> <<>>]
  /\ cache = [k \in Keys |-> NoObj]
  /\ env = NoNs
  /\ pc = "idle"
  /\ at = Keyless
  /\ cur = NoCur
  /\ todo = {}
  /\ wrote = FALSE
  /\ events = <<>>
  /\ unread = {}
  /\ rb = RbIdle
  /\ used = [x \in Kinds |-> 0]

UserStep ==
  \/ \E k \in Keys : CreateRelease(k) \/ EditRelease(k) \/ DeleteRelease(k)
  \/ PostRollback

Deliver ==
  \E k \in Keys : \/ AddFunc(k) \/ UpdateFuncIgnores(k) \/ UpdateFunc(k)
                  \/ DeleteFunc(k) \/ DeleteFuncPanics(k)

Install == PreInstall \/ CreateResources \/ PostInstall \/ InstallStatus

Upgrade ==
  \/ PreUpgrade \/ KubeUpdate \/ PostUpgrade \/ Supersede \/ UpgradeStatus
  \/ FailStatus \/ FailSupersede \/ FailRecord

Uninstall ==
  \/ Purge \/ PreDelete \/ MarkDeleting \/ DeleteResource \/ PostDelete
  \/ MarkDeleted

(* The goroutine of RunAndHold, and that of RunForRollback.                  *)
WorkerStep == Deliver \/ Install \/ Upgrade \/ RecordRelease \/ Uninstall

RollbackStep == RollbackLast \/ RollbackGet \/ RollbackRead \/ RollbackWrite

Next ==
  \/ UserStep \/ WatchClose \/ Relist \/ WatchOpen
  \/ WorkerStep \/ RollbackStep \/ Crash

Spec == Init /\ [][Next]_vars

(* The worker watches a hook: with a timeout of 0 it may do so for ever.     *)
Waiting ==
  \/ pc = "preInstall" /\ HasHook("pre-install", cache[at].spec)
  \/ pc = "postInstall" /\ HasHook("post-install", cache[at].spec)
  \/ pc = "preUpgrade" /\ HasHook("pre-upgrade", cache[at].spec)
  \/ pc = "postUpgrade" /\ HasHook("post-upgrade", cache[at].spec)
  \/ pc = "preDelete" /\ HasHook("pre-delete", cur.rec.spec)
  \/ pc = "deleting" /\ todo = {} /\ HasHook("post-delete", cur.rec.spec)

(* Both goroutines run when they can, and the reflector's loop resumes the   *)
(* watch; users, faults, crashes and the ends of hooks are owed to no one.   *)
FairSpec ==
  /\ Spec
  /\ WF_vars(~Waiting /\ WorkerStep)
  /\ WF_vars(RollbackStep)
  /\ WF_vars(WatchOpen)
=============================================================================
