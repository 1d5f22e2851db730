# A specification of tillerc

tillerc is Helm's Tiller as a Kubernetes controller.  Users do not call it: they
create, edit and delete `Release` objects (a third-party resource,
`helm.sh/v1beta1`), and post events of reason `releaseRollback`.  tillerc watches
both and installs, upgrades, uninstalls and rolls back charts.  It keeps one
`ReleaseVersion` object for each revision of a release.

The specification covers what decides whether these three kinds of state, the
Release objects, the revision records and the resources in the cluster, agree
with each other while users, the watch, two goroutines and crashes interleave.

## 1. The system

### Components

| component | source | state | operations |
|---|---|---|---|
| process | `cmd/tillerc/main.go` | the two goroutines | start; everything but the API server's objects is lost when it dies |
| release informer | `pkg/tiller/release_server.go` `RunAndHold`, vendored `client/cache` | queue of deltas, cache of Release objects, the watch | list, watch, `AddFunc`, `UpdateFunc`, `DeleteFunc` |
| install | `InstallRelease`, `prepareRelease`, `performRelease` | the cached Release object, which it writes into | hooks, create, hooks, status write, record |
| update | `UpdateRelease`, `prepareUpdate`, `reuseValues`, `performUpdate` | the cached object, the last record | hooks, update of the cluster, hooks, supersede, status write, record; a failure path of its own |
| uninstall | `UninstallRelease`, `purgeReleases` | the last record | purge, or hooks, DELETING, deletions, hooks, DELETED |
| rollback | `RunForRollback`, `RollbackRelease` | the events not handled yet | read two records, read the Release, write it back |
| storage, release_version driver | `pkg/storage`, `pkg/storage/driver` | the `ReleaseVersion` objects of one namespace, named `<name>-v<revision>` | Create, Update, Delete, Get, History, Last |
| environment | `pkg/tiller/environment` | `env.Releases`, shared by all of the above | set by `AddFunc` |
| kube client | vendored `helm/pkg/kube` | the cluster | Create, Update (three-way by name, two-way by content), Delete, WatchUntilReady |
| hook execution | `execHook` in `pkg/tiller/release_server.go` | the hooks' resources in the cluster, which nothing removes | create a hook, watch it until it is ready, next |
| hooks file, resource policy, kind sorter | `pkg/tiller/hooks.go`, `resource_policy.go`, `kind_sorter.go` | none | pure sorting and filtering of manifests |
| releaseutil | `pkg/releaseutil` | none | sort by revision, reverse; filters only the stubs of `pkg/storage` call |
| charts, template engine | vendored | none | rendering |

### How they interact

- The informer's worker runs one handler at a time, to its end, and hands it *the
  object in its cache*.  Handlers write the status, the manifest and the revision
  into that object, so the cache differs from the API server until the watch
  delivers the handler's own write.
- `UpdateFunc` compares the status of the old and the new object to tell the
  server's own writes from edits.  The cached old object is the one the handler has written
  into; times are in it with nanoseconds, and come back in whole seconds.
- The rollback goroutine never touches the cluster: it writes an old chart under the
  Release object, and the informer delivers that as an edit.
- All handlers and the rollback goroutine share `env.Releases`, which `AddFunc` points
  at the namespace of the release it adds.
- Status writes carry the resource version of the cached object, so they fail when
  someone wrote in between.  Record writes carry none.
- The name of a record is all that a rollback event carries: `prepareRollback` takes it apart
  again, with an `Atoi` whose error is ignored and a cut to 32 bits.
- Hooks are watched by the worker itself: while a Job runs, no other release is handled.

### What is hard about it

Edits, deletes and rollbacks arrive while a handler is between two remote calls; each
remote call can fail; the answer of one can be lost; the process can die between
any two; the watch can miss events and a restarted process sees every release as a
new one.  The full list, with the line where each bites, is `hazards` in
`PROJECT.json`.

### What makes it correct

- *informer*: the server's own writes do not come back as work (`RevisionsHaveCauses`,
  `Settles`); an edit is not lost (`UpdatesAreApplied`, which does not hold).
- *install, update*: what is recorded DEPLOYED has been put into the cluster (`RecordedIsApplied`), and it is what the
  cluster runs, unless an operation on the release ended in one of a few named ways that leave no record of what it did
  (`RecordedIsLive`; without the exception, `DeployedIsLive`, it does not hold);
  status writes do not overwrite edits (`StatusWritesKeepSpec`).
- *records*: contiguous (`HistoryContiguous`), one DEPLOYED at most and the newest
  (`OnlyNewestDeployed`), immutable but for their status (`RecordsOnlyRetire`); all in all a
  log (`ImplementsRevisionLog`).
- *uninstall*: it happens (`UninstallFollows`) and leaves nothing but what is to be kept and what the cluster refused to
  delete, with the same exception (`UninstalledIsGone`).
- *rollback*: it writes the release the event names, with what the revision it names has in that
  release's own history (`RollbackWritesTarget`); without a revision it goes back
  (`RollbackGoesBack`, which does not hold with two namespaces).
- *hooks*: they have run, for this operation and not for another, before the cluster changes and
  before the release is DEPLOYED (`HooksBeforeResources`, `DeployedAfterHooks`); a timeout
  frees the worker (`TimedOperationsEnd`).
- *kube client*: what a call leaves behind, whichever request fails, is what its callers reckon
  with (`ImplementsKubeCalls`).
- *files*: what is created is deleted, or kept (`UninstallLeavesKept`); namespaces come
  first and go last, unknown kinds come and go last (`NamespacesOutlive`, `UnknownLast`).

## 2. The modules

| module | models |
|---|---|
| `Naming` | names of releases and records: `makeKey`, `GetReleaseNameFromReleaseVersion`, the parsing in `prepareRollback` |
| `Release` | the data: Release objects, records, statuses and times, charts and manifests; the instance's constants and their assumptions |
| `Storage` | variable `hist`, the records of every namespace; `pkg/storage` with the release_version driver, and the sorts of `releaseutil` over any listing |
| `KubeClient` | variable `live`, the resources in the cluster and the manifest each was made from; the outcomes of the client's Create, Update, Delete |
| `ReleaseServer` | everything else: users, API server, watch, informer, the handlers, the rollback goroutine, crash and restart; extends `Storage` and `KubeClient` |
| `ReleaseServerProps` | the properties |
| `ClusterHistory` | two history variables over `ReleaseServer`, the releases that have drifted and the deletions that were refused, and what the records say of the cluster |
| `MCReleaseServer`, `MCClusterHistory` | the instances TLC checks |
| `RevisionLog` | abstract: the history of each release as a log that grows at its end, whose newest entry alone retires, and that a purge shortens from its beginning |
| `KubeCalls` | abstract: the kube client as `ReleaseServer` sees it, a call of Create or Update in one step |
| `KubeSteps`, `MCKubeSteps` | the same client one request at a time; implements `KubeCalls` |
| `Hooks`, `MCHooks` | `execHook` and its callers, one hook and one request at a time, with the Jobs, the watch, the timer and users; stands alone |
| `Manifests`, `MCManifests` | the files of one chart: hooks and manifests, kind order, resource policy, and an install and an uninstall one resource at a time; stands alone |
| `ReleaseServerProofs` | type correctness, proved |
| `HistoryProofs` | the properties of the records, names that are read back, and the sort that finds the last revision, proved |
| `LogProofs` | that the records implement `RevisionLog`, and that every revision was asked for, proved |
| `ClusterProofs` | that the cluster is what the records say, proved |
| `ObjectProofs` | what rollbacks and status writes put into Release objects, proved |
| `HooksProofs` | the order of hooks and resources, proved |
| `KubeProofs` | that `KubeSteps` implements `KubeCalls`, proved |
| `ManifestsProofs` | the order of the kinds and what an uninstall leaves, proved |

### State

`api` and `lastRv` are the API server; `watching`, `pending`, `cache` the reflector, the
DeltaFIFO and the informer's store; `env` the namespace of `env.Releases`; `pc`, `at`,
`cur`, `todo`, `wrote` the handler that runs: its next remote call, its key, the record it
read, what is left to delete, and the one local variable (`err` of `performUpdate`'s
failure path) that matters; `events`, `unread`, `rb` the rollback events and their goroutine;
`hist` the records; `live` the cluster.  `used` counts events and faults for the
bounds and is compared with the number of revisions by `RevisionsHaveCauses`.

### Actions

A handler is cut at each remote call; what the code does between two calls is in the
action of the second, or in the first action of the handler.  One action is one label
of `pc`:

- `AddFunc` (with `prepareRelease`) → `PreInstall` → `CreateResources` → `PostInstall` →
  `InstallStatus` → `RecordRelease`
- `UpdateFunc` (with `prepareUpdate`) → `PreUpgrade` → `KubeUpdate` → `PostUpgrade` → `Supersede` →
  `UpgradeStatus` → `RecordRelease`; when the cluster fails: `FailStatus` → `FailSupersede` →
  `FailRecord`, and then `RecordRelease` if the status write succeeded, because
  the error of the cluster has been overwritten by its result (line 253)
- `DeleteFunc` (with `Last`) → `Purge`…, or `PreDelete` → `MarkDeleting` → `DeleteResource`… →
  `PostDelete` → `MarkDeleted`
- `RollbackLast` → `RollbackGet` → `RollbackRead` → `RollbackWrite`
- users: `CreateRelease`, `EditRelease`, `DeleteRelease`, `PostRollback`; watch: `WatchClose`,
  `WatchOpen`, `Relist`; process: `Crash`, `DeleteFuncPanics`

### What is abstracted

- A manifest is the pair (chart, values) it was rendered from; a chart is a model value
  with the set of resources it renders to, its hook events, and whether it renders and
  validates.  Charts have no NOTES.
- Of a Release's spec the fields that steer the code are kept: chart, config, dry run,
  disable hooks, purge.  `Wait`, `Timeout` and `Recreate` appear as the outcome
  `UpdateTimesOut` only.  Version, manifest and hooks are computed by every handler before
  it uses them; the record's are kept through its revision, chart and values.
- Times are *absent*, *decoded* or *from this process's clock*.  Two decoded times are
  taken for equal, which is what happens when both go back to one deployment.
- In `ReleaseServer` each operation of the kube client is one step.  A failing one may have applied any
  part (`CreateFails`, `UpdateFails`), so the order of resources in a manifest is
  left open.  `KubeSteps` has the requests, and the run `kube_steps` and the theorem
  `StepsImplementCalls` are the reason why the one step may stand for them.  In `updateResource` the patch is the difference between the recorded and
  the new manifest, field by field: what they agree on stays as the cluster has it.
- In `ReleaseServer` the hooks of one event are one step, which may fail whenever the chart has a hook for the event,
  any number of times and not as a bounded fault: a hook of a fixed name is never removed, so it fails each time
  but the first (`execHook` 777), and which hooks have a fixed name is left open.  `Hooks` has what is inside that step.
- Values are *nil*, *empty* or some.  A handler replaces nil by empty ones (`Completed`) before it calls for discovery or
  renders, so an object in the cache may have been changed by a handler that then failed.  Both render the same.
- Before a Create the kube client looks for the namespace and may create it (`ensureNamespace`).  A failure there is a creation
  that made nothing, which `CreateFails` has; namespaces themselves are not in the model.
- A name is the sequence of its parts between dashes, a part its text and the number it ends in.
  Leading zeros are left out, for the storage never writes one.  TLC takes 4-bit integers for
  the 32 bits of a revision and 6 for the 64 of an int (`Half = 8`, `MaxInt = 31`), which keeps what matters:
  the cut of the largest int is -1, and numbers beyond either width exist.  The theorems take any.
- The DeltaFIFO hands over any key that has deltas.  The code goes through keys in the order
  of their first delta, and through all deltas of a key before the next, so the model has
  every order the code has and more.  A resync delivers the cached object itself,
  which is equal to itself: it is left out.
- A watch that closes is either opened again (`WatchFunc` passes no resource version, so it
  begins with all objects) or follows a new list (`Relist`).
- Rollback events are kept: a new process lists them again.  The server's expiry of events
  (an hour by default) is not modelled.
- Charts fail to render or to validate for good (`BadRender`, `BadManifest`).  A validation that fails for
  a while is one more way in which a handler ends before it has changed anything.
- The API server accepts an unconditional update of a `ReleaseVersion`.

### Manifests

`files` is what the templates of one chart render to, `queue` the loop of `perform` (install) or of
`UninstallRelease` (uninstall), `made` and `cluster` the resources that were created and that
exist, `es` the deletions that failed.  `Install` (sort) → `CreateResource`… → `EndInstall`
(the end, or the first error) → `Uninstall` (split, sort, filter) → `DeleteResource`…, which goes
on after an error → `EndUninstall`.

A document is its kind, hook annotation and resource policy.  `sort.Sort` is not stable and the
map of files has no order, so `InstallSorted` and `UninstallSorted` admit every order that `Less` admits.
Left out: documents that do not parse and API versions that are not served, which end the handler (in the
server they are `BadRender` and the discovery fault), the events a hook names, and the names of resources: two
documents are two resources.

`ReleaseServer` and `Manifests` are two views of one system.  The first
takes a manifest for a set of resources that are created and deleted in any order, the second
looks into one install and one uninstall, where only the files matter.

### Hooks

`op` is the operation that runs (install, upgrade or delete, of which release, with hooks or not, with a timeout or
not), `when` the event's moment, `due` the hooks still to run, `hook` the one in hand; `object` is what the hooks
have left in each namespace, `watch` what the open watch has delivered.  `Begin` → `CreateHook` → `OpenWatch`
→ `HookReady` or an error (`HookFailed`, `TimesOut`, `WatchCloses`) … → `EndOfEvent` → `Apply` (the step that changes the
cluster) → the same for the post-hooks → `End`.  Around them Jobs complete and fail, users remove what is left, and the
process crashes.

The order of operations is `ReleaseServer`'s business: here any may come next that finds the record it needs, so
what is shown holds for every order.  `HookNs` is the code's: pre-install hooks go to a namespace
named like the release, all others to the release's own.  A hook file holds one resource; a hook for two
events of one operation fails at its second creation, which the model does.  That the watch begins with the
resource as it is, and that a deleted resource counts as ready, are from `watchUntilReady`.

### KubeSteps

`call` is the call that runs, `phase` whether it visits the target's resources or deletes what only the original has,
`rest` what is still to come, `errs` whether a patch has failed, `fault` whether any request has.  Each step is one
request; it may fail before or after it took effect.  `before` is the cluster as the call found it, and stands for `live`
in the mapping `KC == INSTANCE KubeCalls WITH live <- before`: a call has done nothing until it returns, and then
everything at once.  That is how `ReleaseServer` takes it.  It is a statement about one call with nobody else
at the resources meanwhile, which is what the one worker gives; users who change a chart's resources by hand are
in no model.

## 3. What is checked

Runs of module `MCClusterHistory` (`core`) and `MCReleaseServer` (the others).  Deadlock is not checked: users stop, and the server rests.

| run | instance | properties | shows |
|---|---|---|---|
| `core` | 1 namespace, 1 name, two charts that share a resource, one of them with a resource to be kept and without values, the other with hooks for all six events; 2 creates, 2 edits, a delete, a rollback without a revision; one failure each of the cluster and of a status write (with and without effect); hooks fail whenever they may; 1,014,984 states | `TypeOK`, `RevisionsHaveCauses`, `RecordedIsLive`, `UninstalledIsGone`, `RollbackGoesBack`, `StatusWritesKeepSpec`, `UninstallFollows` | over two lives under one name, in every interleaving of users with both goroutines, the server's writes cause no work, records and cluster part only in the named ways, a rollback goes back, and deletes are carried out |
| `restarts` | 2 specs, a post-upgrade hook; 2 creates, edit, delete, rollback, one crash, one gap of the watch; 1,035,235 states | `OnlyNewestDeployed`, `RevisionsHaveCauses`, `RecordsOnlyRetire`, `Settles` | a crash at any step and a missed event leave a consistent history without revisions nobody asked for, and the server comes to rest |
| `faults` | all specs, purge and empty values among them; create, edit, delete, a dry-run rollback; one failure each of the cluster, a status write (with and without effect), the record store, discovery; hooks fail whenever they may; 1,088,656 states | `RecordsOnlyRetire`, `StatusWritesKeepSpec`, `ImplementsRevisionLog`, `RecordedIsApplied` | what holds on every error path |
| `namespaces` | 2 namespaces, the same name in both; 2 creates, 2 edits, one rollback event out of 12, with good names, bad names and numbers too large; a post-upgrade hook; 3,197,985 states | `HistoryContiguous`, `OnlyNewestDeployed`, `RollbackWritesTarget` | the shared `env.Releases` mixes up releases, and the records of each namespace stay well formed all the same; an event that names a revision writes that revision's release and no other |

`faults` shows the refinement of `RevisionLog` (`RL == INSTANCE RevisionLog WITH log <- HistoryLog …`): whatever fails, who reads
the records sees revisions appended, the newest one retired, and the oldest purged.

Runs of the other modules:

| run | instance | properties | shows |
|---|---|---|---|
| `manifests` | 4 paths, one a partial; every file empty or one document of a namespace, a secret, a pod or an unknown kind, to be kept or not, or a pod that is a hook; about 572,000 states | `NamespacesOutlive`, `UnknownLast`, `UninstallLeavesKept` | for every such chart, in every order the sort may give, with errors at any call |
| `hooks` | two releases named `a`, one in a namespace `a`; a Job and another kind, on overlapping events; 3 operations; 139,528 states | `HooksBeforeResources`, `DeployedAfterHooks`, `TimedOperationsEnd` | a hook left behind by another operation, another release or a crashed process never passes for one that ran, and a timeout frees the worker |
| `kube_steps` | charts with a shared resource and an empty one, 2 values; 3 calls; 386,087 states | `ImplementsKubeCalls` | with a failure or a lost answer at any request, a call has one of the outcomes of `KubeCalls` |

Secret and pod are ranked differently by the two tables; three files are the least that hold a namespace, a resource in it
and one more on the other side of either.  The release in the namespace `a` shares its hooks' namespace with the
pre-install hooks of the other; three operations are an install of each and one more that meets what both left.
Three calls are a create, an update of what it left, whole or in part, and one on top of a failed update.

Each property of these runs has a mutant in `PROJECT.json`, a change of one definition that a
plausible bug would make, under which TLC finds it violated.

### When records and cluster part

Nothing in the code notices when a handler has changed the cluster and ends without a record, and the next upgrade patches the difference
of two *recorded* manifests.  `ClusterHistory` keeps what the program forgets, in two history variables that restrict no step:
`drifted`, the releases on which an operation ended in such a way, and `refused`, what their last uninstall could not delete.  A release
drifts for good when

- an update fails in the cluster, or leaves behind what it should have deleted (`UpdateFalters`);
- a handler that has changed the cluster ends and adds no revision (`EndsUnrecorded`): its post-upgrade hook fails, its status write meets a newer edit, the
  process dies, the store fails, or it was an install under a name whose revision 1 exists already;
- `env.Releases` is turned to another release's namespace when it changes the cluster (`ChangesAstray`);
- a purge deletes records (`PurgesRecord`), which leaves the resources;
- an uninstall runs whose record could not be written, and still says DEPLOYED (`UninstallsUnrecorded`).

Everything else must leave records and cluster in agreement, and the two properties say so over every interleaving: installs that fail half way, hooks
and status writes that fail where a record follows, double records of the failure path, edits, rollbacks and deletes
in between, uninstalls that stop or are refused, failing discovery.  A *failed install* that records
what it left counts: the uninstall that follows must remove the part that was created.  `deployed_drift` shows that the exception is needed.

### Bounds

`Limit` says how often each event and fault happens in a behaviour; `MaxRev` is the last
revision there is room for, chosen above what the events can cause so that its guard
(`1..(MaxRev - 1)` in `UpdateFunc`) never cuts a behaviour off.  One name
is enough where nothing but `env.Releases` is shared between releases; that sharing depends
on the namespace, which `namespaces` varies.  Two edits are needed for an edit on top of a
failed one, two creates for a life after a delete, one crash falls at each step.

The charts of `core` and `faults` have hooks for all events, those of `restarts` and `namespaces` one for post-upgrade, where a failure ends
a handler that has changed the cluster, and those of the runs that end in a violation none: what these show happens without any hook.
With a post-install hook in `restarts`, a server that dies and installs again within the same second writes the same FAILED status twice, takes
the second for a resync, and may take a later write of its own for an edit: a revision nobody asked for, which needs a hook failure, a crash and two
installs within a second.  The instance leaves it out; the bound of `RevisionsHaveCauses` does not cover it.

The theorems below have none of these bounds but `MaxRev`, `MaxOps` and `MaxCalls`, for which any number may be put.

### Fairness

`core` and `restarts` assume weak fairness of the worker's steps while it is not `Waiting` for a hook, of the rollback
goroutine's steps and of `WatchOpen`: both goroutines run loops that never return
(`controller.Run(wait.NeverStop)`), no handler waits for another, and the reflector's loop opens the
watch again.  Nothing is assumed of users, faults and crashes: their number is bounded, and a
call that may fail owes nothing.  Nor is the end of a hook assumed: with a timeout of 0 `watch.Until` waits for ever, and so
`Settles` and `UninstallFollows` leave the case that the worker watches one for ever (`[]Waiting`).  `UninstallFollows` leaves the case of a
pre-delete hook too: when that fails, the uninstall ends before it has begun, and nothing tries again.  One condition for `WorkerStep` as a
whole is enough: the worker is sequential.

`hooks` assumes weak fairness of the worker and of the timer of `watch.Until`, which goes off.  Jobs owe nobody an end, users
nobody a deletion, and the API server need never close a watch: without a timeout an operation may last for ever, and the
only worker with it, which is why `TimedOperationsEnd` speaks of those with a timeout.

### What the code does not do

Five runs each show a sentence of the repository that the code does not keep; `findings` quotes
them.

| run | property | in short |
|---|---|---|
| `edit_lost` | `UpdatesAreApplied` | an edit during an install is taken for the server's own status write |
| `deployed_drift` | `DeployedIsLive` | an upgrade that conflicts with an edit is applied and not recorded; the next one patches against the wrong original, and what is recorded DEPLOYED is not what runs |
| `restart_failed` | `FailedIsNotDeployed` | a restart installs again what runs, fails, and says FAILED |
| `uninstall_other` | `UninstallsOwnResources` | a delete in one namespace uninstalls the release of that name in another |
| `rollback_mixed` | `RollbackGoesBack` | an `AddFunc` between the two reads of `prepareRollback` makes the number of one release select a revision of another, which is then written |

More were met that have no run of their own, because they take a step or two:

- When the status write of an upgrade fails, the old record stays SUPERSEDED without a newer one (`performUpdate`
  265-272; it is the first half of `deployed_drift`).
- `prepareUpdate` says it finds "the non-deleted release", and `Last` returns a DELETED one as well.
- `sortManifests` says a file without a known hook type goes to the generic bucket, and drops a file
  whose annotation names an unknown one (163-166).
- A policy other than `keep` keeps a resource from being deleted (`filterManifestsToKeep` 49-52).
- Purge is tested before anything is deleted, and deletes the records only (823-829): the resources stay in the cluster.
- A rollback to a revision with empty values keeps the current ones: `reuseValues` fills them in again (279-285).
- A hook that is the second document of a file is created like a resource and never deleted: the installer sorts files,
  the uninstaller documents.
- A name that is used again after a delete: the second install changes the cluster, finds that revision 1 exists and is not
  recorded (743), so the last revision stays DELETED while its resources run.  `core` has such behaviours; for `UninstalledIsGone` the release has drifted.
- A handler fills in nil values before a discovery that may fail, in the object the cache holds, so that the next comparison of the two objects
  at 176 sees a difference nobody made.
- A chart without templates is refused by an install (509) and accepted by an update.  The model has no chart of
  this kind: one is refused by both or by neither.

`DeployedIsLive` is what the comment on DEPLOYED says, without the exception of `RecordedIsLive`.  It fails in `deployed_drift`, in which three edits
suffice; with a hook that fails after an upgrade was applied two would do.

## 4. What is proved

By TLAPS, for all values of the constants that satisfy the assumptions of their modules (`NamingAssumption`,
`ReleaseAssumption`, `AbsenceAssumption`, `ResourceAssumption`, `ServerAssumption`, `StepsAssumption`, `HooksAssumption`, those of
`Manifests`):

| theorem | says | assumes |
|---|---|---|
| `TypeInvariant`, `TypeCorrect` | `TypeOK` always | |
| `RecordsRetire` | `RecordsOnlyRetire`, with every fault, crash and purge | |
| `ContiguousHistory` | `HistoryContiguous` | no spec purges |
| `NewestDeployed` | `OnlyNewestDeployed` | no spec purges, the record store does not fail |
| `RecordsImplementLog` | `ImplementsRevisionLog`, with every fault, crash and purge | |
| `StatusKeeps` | `StatusWritesKeepSpec`, with every fault, edit, rollback and crash | |
| `RollbackIsOwn` | `RollbackWritesTarget` | no spec purges |
| `RollbackIsBackwards` | `RollbackGoesBack` | no spec purges, one namespace |
| `RevisionsAreOwed` | `RevisionsHaveCauses` | no crash and no gap of the watch; finitely many names and namespaces |
| `DeployedWasApplied` | `RecordedIsApplied`, with every fault, crash and purge | |
| `DeployedStaysLive`, `DeletedIsGoneForGood` | `RecordedIsLive`, `UninstalledIsGone`, with every fault, crash and purge | one release name to a namespace |
| `KeyIsRead`, `KeysAreUnique` | the name of a record says which release and revision it is, up to the width of an int32, and no two share one | |
| `SortFindsLast` | in whatever order the records are listed, both callers of the sort take the highest revision | |
| `HooksTypeCorrect` | `TypeOK` of `Hooks` | |
| `HooksRunFirst`, `HooksRunLast` | `HooksBeforeResources`, `DeployedAfterHooks` | |
| `StepsImplementCalls` | `ImplementsKubeCalls` | |
| `KindsAreOrdered` | `Less` is a strict weak order, as `sort.Sort` requires | no kind twice in the table |
| `UnknownIsLast`, `NamespacesLast` | `UnknownLast`, `NamespacesOutlive` | one document in a file |
| `UninstallComplete` | `UninstallLeavesKept` | one document in a file, no policy but keep |

The assumptions are needed.  `purgeReleases` deletes upwards from revision 1 and stops
at an error or a crash, which leaves a history that begins later.  When the write that supersedes the old record
fails, which `recordRelease` only logs, the new record is added beside an old one that is
still DEPLOYED.  A purge and a new life between the rollback's read of a record and its write leave another revision under the
number that was read.  With two namespaces the two reads of a rollback may be of two releases (`rollback_mixed`).  A new process, or
a new list after a gap, hands over again what was handled before, and each time a revision may follow: `RevisionsHaveCauses` allows for that by counting
lifetimes, and beyond one of them only TLC has checked it.

That the cluster is what the last revision says is proved of `HSpec`, which is `Spec` with the two history variables beside it: no fault, crash or
purge is excluded, and neither is a second namespace.  What is excluded is a second name in one namespace, for two releases there may render
the same resource, and each overwrites or deletes what is the other's.  What the code itself breaks is in the definition of `drifted`, clause by clause,
and each has its reason: an update that failed leaves a mixture of two manifests, which the next patch does not mend; what was
applied and not recorded is the wrong original for the next one; a purge forgets what is still in the cluster.

`DeployedWasApplied` needs no exception, for it speaks of one
handler: between the last change of the cluster and the record come a hook, the superseding of the old record and a status write, with edits,
rollbacks and other releases' events in the queue, and what is then written as DEPLOYED is what was applied.

A file with two documents is sorted by its first, so the second may be of a kind that
belongs elsewhere.  A resource whose policy is not `keep` (misspelt, say) is in neither
list of `filterManifestsToKeep`, and stays in the cluster too.

The argument, from the bottom:

1. `TypeInv` = `TypeOK` and `WorkerShape` and `RollbackShape`.  `TypeOK` alone is not inductive: a handler writes
   `cache[at]` and `cur.rec` back, so that there is an object in the cache
   and a record in hand at each label has to be carried along.
2. `StepKinds` sorts the steps of the specification by what they do to the records: leave them alone
   (`StorelessKeeps`), write back the record in hand (`RewriteSteps`), add one (`RecordSteps`), remove the
   first (`PurgeSteps`).  Every theorem about records is then four cases.
3. `RecordInv`: the record in hand is the stored one but for its status (`HoldsStored`), and at `record`
   the status is decided (`OutcomeDecided`).  The rollback goroutine and users never write records, and the
   worker is one, so nothing comes between reading and writing back.
   This gives `RecordsRetire`.
4. `ContiguousInv`: the revision in hand exists while nothing is purged (`HoldsExisting`), so the next one,
   which is what `Record` adds, leaves no gap.
5. `NewestInv`: the revision in hand is the last one (`HoldsLast`), and at the labels that record it is no
   longer DEPLOYED.
6. `LogInv` = `RecordInv`, `HoldsNewest` and `PurgeIsAsked`: the record in hand is the newest (at `record` it may be
   the newest but one, where the failure path has recorded already), and a purge that runs was asked for by the
   newest record.  `LogIs` turns each of the four kinds of steps into a change of one release's log, and
   `AddIsLogged`, `RetireIsLogged`, `PurgeIsLogged` into an action of `RevisionLog`; the second `Record` of the failure path
   finds its key taken and is a stutter.
7. `TargetInv` = `ContiguousInv`, `RecordInv` and `HoldsTarget`: the record which the rollback goroutine read is still in the history of the
   release its event names, with the same chart and values.  Between its read and its write the worker adds and retires records, which keeps
   specs (`RecordsStay`), and `env` moves, which `rb.ns` does not.
8. `VersionInv`: while a resource version is the one the API server has, the spec is too, in the queue exactly, in the
   cache but for values `reuseValues` filled in (`Derived`).  It follows from three facts about any step: a write takes a version nobody has seen
   (`ApiMoves`), what comes into the queue is what the API server has (`PendingMoves`), and what comes into the cache was in the queue
   or in the cache (`CacheMoves`).  `Write` compares versions, so it writes the spec that is there.
9. `SortFindsLast` is about the operators: `Listings` are the bijections of the revisions, and a sorted one ends in, and reversed begins with, the highest.
10. `HooksInv`: what is no longer due has run in the namespace it belongs to (`RunSoFar`), and the hook in hand was created by this
   operation (`HookInHand`).  A creation is refused where a resource exists, so what is there is never taken over from another operation.
11. `StepsInv`: during the visits, what is to come is as the call found it and the rest is done or its patch failed (`VisitInv`); during the deletions
   every visit has succeeded (`DeleteInv`).  `PartialFails` and `FinishSucceeds` say that this is what `KubeCalls` allows.
12. `AppliedInv`: from the change of the cluster to the record, while nothing has failed (`Confirmed`), the resources are what the cached object
   says (`Runs`).  The one worker alone changes `live`, and at these labels it does not; the rollback goroutine and users write the API server, not
   the cached object (`ClusterKinds` sorts the steps).  With `RecordInv` the record that is added is of that object.
13. `ClusterInv`: of a release that has not drifted, and that no handler is changing, the cluster has the resources of the last revision and no others
   (`LastIsLive`), all of them if it is DEPLOYED and none but the kept and the refused if it is DELETED (`Says`); from the change of the cluster to the
   record it has those of the object in hand (`HandledIsLive`); an uninstall has deleted what is no longer on its list
   (`UninstallIsUnderWay`); an update that failed has drifted before it is recorded (`FailuresDrift`).  `Partly`, "nothing else
   is there", is the part that makes it inductive: a resource of an earlier revision that was left behind would be patched, or kept, by a
   later one that renders it again.  It rests on `LogInv`: the record in hand is the newest; and on `Numbered`, because without a purge an install finds either no record
   or revision 1.
14. `PreviousInv`: the revision before the one which the rollback goroutine read first is still there (`HoldsPrevious`), by `ContiguousInv`, and has the manifest of
   the record read second.
15. `CauseInv`: revisions, and all that may still become one (`Owed`: deltas that look new to a handler, a handler at work, unread events, the rollback
   in progress), are no more than what was asked for.  It takes `Chains`: the queue of a release leads from the object in the cache to the one in the API
   server, in the order of resource versions, so that a write of the server's own arrives behind the very object it
   was made from, with another status, unless both carry the same times; and `Stamped`: a status that is written carries this process's clock,
   which no decoded one does.  Each step moves a unit from one summand to another, or
   asks for a new one.
16. In `ManifestsProofs`, `SortInv`: what is queued is sorted, is behind what was handled (`Behind`) and, with
   it, is everything (`Queued`).  Each document is queued once (`QueuedOnce`), without which a namespace that is gone
   could still wait.  `Tables` is what the two lists of kinds contribute: the same kinds, and
   the namespace at the two ends.

Each of these invariants was checked by TLC on the instances of the passing runs before it was proved; `ClusterInv` on those of `core`, `restarts` and `faults`
and on one with two namespaces.  That is where purges, crashes and a store that fails were tried with the two cluster properties; `core` has none of these.

Model-checked only: `RevisionsHaveCauses` with crashes and gaps (`restarts`), and the liveness properties `Settles`, `UninstallFollows` and
`TimedOperationsEnd`: liveness under fairness and ENABLED are beyond the provers at hand.

## 5. The plan

The first plan is done: the data, the records, the server with all its actors, names, hooks, the kube client and the sorting
of manifests are modelled; the two abstract specifications are implemented, by TLC and by proof; every safety property of a passing run is
proved, under the assumptions named above.  What could follow, in this order:

1. `RevisionsHaveCauses` with crashes and gaps: `Owed` would have to count, for each lifetime, the releases it may
   install again.
2. Of a release that has drifted: that what a failed upgrade leaves is between the two manifests, and which operations bring records and cluster together again.
3. `Hooks` put into `ReleaseServer` in place of the one step that may fail, with its resources as part of the cluster, which would tell the hooks
   of a fixed name from the others.

## 6. Not modelled

- The text of templates, manifests and notes, and the engine that renders them: vendored and pure.
- `pkg/releaseutil/filter.go`, and the `List…` and `Deployed` functions of `pkg/storage`, which return nothing or are called by nobody.
- The driver interface and the labels of records: what a label query returns is `History`.
- The engine yard of `pkg/tiller/environment`, a table of one engine, and `PrintingKubeClient`, which belongs to the tests.
- Of the kube client: the polling of `waitForResources` (one outcome, a timeout) and the reaper behind a deletion (one request).
- Users who change or remove a chart's resources by hand, other than those of hooks.
- The expiry of events and records in the API server, authorisation, quotas.
- Flags, logging, tests, fixtures and build scripts.
