------------------------- MODULE ReleaseServerProps -------------------------
(***************************************************************************)
(* What the release server promises of its records, of the Release objects *)
(* and of the cluster.                                                     *)
(***************************************************************************)
EXTENDS ReleaseServer

(* Every variable has its type; while a handler works on a release it has   *)
(* the object in the cache, and while it works on an earlier revision it    *)
(* holds that record.                                                       *)
TypeOK ==
  /\ HistTypeOK
  /\ LiveTypeOK
  /\ api \in [Keys -> Objects \cup {NoObj}]
  /\ lastRv \in Nat
  /\ watching \in {"open", "closed", "listed"}
  /\ pending \in [Keys -> Seq(Deltas)]
  /\ cache \in [Keys -> Objects \cup {NoObj}]
  /\ env \in Namespaces \cup {NoNs}
  /\ pc \in Labels
  /\ at \in Keys \cup {Keyless}
  /\ cur \in [rev : 0..MaxRev, rec : Records \cup {NoRec}]
  /\ todo \in SUBSET Resources
  /\ wrote \in BOOLEAN
  /\ events \in Seq(Requests)
  /\ unread \in SUBSET (1..Len(events))
  /\ rb \in [pc : {"idle", "get", "read", "write"}, req : Nat,
             cur : [rev : 0..MaxRev, rec : Records \cup {NoRec}],
             ns : Namespaces \cup {NoNs}, tgt : Records \cup {NoRec}, rv : Nat]
  /\ used \in [Kinds -> Nat]

-----------------------------------------------------------------------------
(* The revision history. *)

(* Revisions are numbered 1, 2, ... without a gap: performUpdate's record    *)
(* follows the last one, and nothing but a purge removes one.               *)
HistoryContiguous ==
  \A k \in Keys : \A r \in History(k) : 1..r \subseteq History(k)

(* At most the newest revision is DEPLOYED: an upgrade supersedes the record *)
(* it read before it adds its own, whatever crashes or interferes between.  *)
OnlyNewestDeployed ==
  \A k \in Keys : \A r \in History(k) :
    hist[k][r].code = "DEPLOYED" => \A q \in History(k) : q <= r

(* A recorded revision is immutable but for its status: it is born DEPLOYED  *)
(* or FAILED, keeps its spec, and only ever retires.                        *)
OnlyRetires(k, r) ==
  /\ r \in History(k) /\ r \in History(k)' =>
       /\ hist'[k][r].spec = hist[k][r].spec
       /\ hist'[k][r].code \in {hist[k][r].code, "SUPERSEDED", "DELETING", "DELETED"}
  /\ r \notin History(k) /\ r \in History(k)' =>
       hist'[k][r].code \in {"DEPLOYED", "FAILED"}

RecordsOnlyRetire == [][\A k \in Keys : \A r \in 1..MaxRev : OnlyRetires(k, r)]_vars

(* To whoever reads the records, the history of each release is a log that   *)
(* grows at its end, whose newest revision alone changes its status, and     *)
(* that a purge shortens from its beginning: the handlers, which read the    *)
(* last revision many calls before they write it back or add to it, never    *)
(* act on one that is no longer the last.                                    *)
Asks(spec) == spec.purge

HistoryLog == [k \in Keys |-> [r \in History(k) |-> hist[k][r]]]

RL == INSTANCE RevisionLog
  WITH Releases <- Keys, LogSpecs <- Specs, Purges <- Asks, log <- HistoryLog

ImplementsRevisionLog == RL!Spec

(* The server's own status writes come back to it as updates, and it must    *)
(* not take them for new ones: every revision is owed to a write of a user,  *)
(* or to a rollback event, which counts once for every process that lists it. *)
Revisions == {x \in Keys \X (1..MaxRev) : x[2] \in History(x[1])}

Lifetimes == 1 + used["crash"] + used["gap"]

RevisionsHaveCauses ==
  Cardinality(Revisions) <=
    used["create"] + used["edit"] + used["rollback"] * Lifetimes

-----------------------------------------------------------------------------
(* The Release objects. *)

StatusLabels == {"installStatus", "upgradeStatus", "failStatus"}

(* The worker writes a status onto the spec the user sees, never onto one    *)
(* the user has changed meanwhile: empty values may be filled in, the rest   *)
(* of the spec is left as it is, and a deleted object does not come back.    *)
StatusWritesKeepSpec ==
  [][\A k \in Keys :
       pc \in StatusLabels /\ pc' # pc /\ api'[k] # api[k] =>
         /\ api[k] # NoObj
         /\ api'[k] # NoObj
         /\ \/ api'[k].spec = api[k].spec
            \/ /\ NoValues(api[k].spec.config)
               /\ [api'[k].spec EXCEPT !.config = api[k].spec.config]
                     = api[k].spec]_vars

RollbackWrites(k) == rb.pc = "write" /\ rb'.pc = "idle" /\ api'[k] # api[k]

(* The revisions of a release that the event in hand names.                  *)
Wanted(k) == {r \in 1..MaxRev : MakeKey(k[2], r) = events[rb.req].object}

(* A rollback event for "<name>-v<revision>" changes no release but that of  *)
(* this name, and gives it the chart and the values of that revision of its  *)
(* own, whatever release the worker turned env.Releases to meanwhile.        *)
RollbackWritesTarget ==
  [][\A k \in Keys : RollbackWrites(k) =>
       /\ LET object == events[rb.req].object
          IN  k[2] = SubSeq(object, 1, Len(object) - 1)
       /\ \A r \in Wanted(k) :
            /\ r \in History(k)
            /\ Manifest(api'[k].spec) = Manifest(hist[k][r].spec)]_vars

(* prepareRollback "finds the previous release": an event that names no      *)
(* revision gives the release what one of its own revisions had that is not  *)
(* the last.                                                                 *)
RollbackGoesBack ==
  [][\A k \in Keys :
       RollbackWrites(k) /\ VersionOf(events[rb.req].object) = 0 =>
         \E r, q \in History(k) :
           r < q /\ Manifest(api'[k].spec) = Manifest(hist[k][r].spec)]_vars

-----------------------------------------------------------------------------
(* The records and the cluster. *)

(* A revision is recorded as DEPLOYED only while the cluster runs it, though  *)
(* up to three calls come between the last change of the cluster and the     *)
(* record, any of which may fail or be the last of the process: every        *)
(* resource of it is there, as an install made it, and after an upgrade with *)
(* whatever the revision has changed.                                        *)
Shows(resource, orig, m) ==
  /\ orig.chart # m.chart => resource.chart = m.chart
  /\ orig.config # m.config => resource.config = m.config

Runs(ns, m) ==
  \A x \in Targets(m) :
    /\ live[ns][x] # NoRes
    /\ IF cur = NoCur THEN live[ns][x] = m
                      ELSE Shows(live[ns][x], Manifest(cur.rec.spec), m)

RecordedIsApplied ==
  [][\A k \in Keys : \A r \in 1..MaxRev :
       hist[k][r] = NoRec /\ hist'[k][r] # NoRec /\ hist'[k][r].code = "DEPLOYED" =>
         Runs(at[1], Manifest(hist'[k][r].spec))]_vars

(* A handler that has changed the cluster goes on to add its record.         *)
AppliedLabels == {"postInstall", "installStatus", "postUpgrade", "supersede",
                  "upgradeStatus", "failStatus", "failSupersede", "failRecord",
                  "record"}

-----------------------------------------------------------------------------
(* Progress. *)

Quiet ==
  /\ pc = "idle"
  /\ \A k \in Keys : pending[k] = <<>>
  /\ unread = {}
  /\ rb.pc = "idle"
  /\ watching = "open"

(* When users and faults stop, the server comes to rest: its writes do not   *)
(* keep it busy, and neither a crash nor a dropped watch leaves work behind. *)
(* Only a hook it watches without a timeout can hold it for ever.            *)
Settles == <>[]Quiet \/ <>[]Waiting

(* A deleted release is uninstalled: its last revision does not stay         *)
(* DEPLOYED, unless the release is created again, the last revision has a    *)
(* pre-delete hook, which may fail, or a hook is watched for ever.           *)
UninstallFollows ==
  \A k \in Keys :
    (/\ api[k] = NoObj
     /\ \E r \in 1..MaxRev : IsLast(k, r) /\ hist[k][r].code = "DEPLOYED")
    ~> (\/ api[k] # NoObj
        \/ \E r \in 1..MaxRev :
             /\ IsLast(k, r)
             /\ \/ hist[k][r].code = "DELETED"
                \/ HasHook("pre-delete", hist[k][r].spec)
        \/ []Waiting)

-----------------------------------------------------------------------------
(* What comments in the repository say, and the code does not keep. *)

(* status.pb.go: FAILED "indicates that the release was not successfully     *)
(* deployed": no release object says so of a revision that is recorded as    *)
(* DEPLOYED and is in the cluster.                                           *)
FailedIsNotDeployed ==
  pc = "idle" =>
    \A k \in Keys : \A r \in 1..MaxRev :
      api[k] # NoObj /\ api[k].status.code = "FAILED" /\ api[k].status.ver = r =>
        ~(r \in History(k) /\ hist[k][r].code = "DEPLOYED")

(* UpdateRelease "takes an existing release and new information, and         *)
(* upgrades the release": when the server is at rest, the last revision of   *)
(* a release is the one the user asked for.                                  *)
UpdatesAreApplied ==
  Quiet =>
    \A k \in Keys : \A r \in 1..MaxRev :
      api[k] # NoObj /\ IsLast(k, r) => hist[k][r].spec = api[k].spec

(* UninstallRelease "deletes all of the resources associated with this       *)
(* release": an uninstall touches no resource of another namespace.          *)
UninstallsOwnResources ==
  [][\A ns \in Namespaces :
       pc = "deleting" /\ live'[ns] # live[ns] => at[1] = ns]_vars

(* status.pb.go: DEPLOYED "indicates that the release has been pushed to     *)
(* Kubernetes": while no handler runs, a release whose last revision is      *)
(* DEPLOYED has every resource of that revision in the cluster, as the       *)
(* revision has it.                                                          *)
DeployedIsLive ==
  pc = "idle" =>
    \A k \in Keys : \A r \in 1..MaxRev :
      IsLast(k, r) /\ hist[k][r].code = "DEPLOYED" =>
        LET m == Manifest(hist[k][r].spec)
        IN  \A x \in Targets(m) : live[k[1]][x] = m
=============================================================================
