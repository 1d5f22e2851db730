------------------------------- MODULE Hooks -------------------------------
(***************************************************************************)
(* execHook, which runs the hooks of a chart before and after an operation *)
(* changes the cluster, and the callers that act on what it returns.  For   *)
(* ReleaseServer one event is one step that may fail; here the hooks are    *)
(* created and watched one by one, while the cluster runs their Jobs and    *)
(* users remove them.                                                      *)
(*                                                                         *)
(* ReleaseServer says which operation comes when: here any may come next    *)
(* that finds the record it needs.  A hook file holds one resource.         *)
(***************************************************************************)
EXTENDS Naturals

CONSTANTS
  Namespaces,  \* those of the releases, and those named like a release
  Releases,    \* <<namespace, name>>
  Files,       \* the hooks of the chart; the path stands for the resource
  EventsOf,    \* hook -> the events it is annotated with
  Jobs,        \* the hooks whose kind is Job
  MaxOps       \* bound: operations in a behaviour

Operations == {"install", "upgrade", "delete"}

Moments == {"pre", "post"}

(* The map "events" of hooks.go: "pre-install" is <<"pre", "install">>.      *)
Events == Moments \X Operations

ASSUME HooksAssumption ==
  /\ Releases \subseteq Namespaces \X Namespaces
  /\ EventsOf \in [Files -> SUBSET Events]
  /\ Jobs \subseteq Files
  /\ MaxOps \in Nat

VARIABLES
  object,    \* namespace -> hook -> its resource in the cluster
  recorded,  \* the releases that have a record
  count,     \* the operations so far; the last is the one that runs
  op,        \* which release it is for, what it does, and two of its options
  when,      \* before or after it changes the cluster
  pc,        \* what it does next
  due,       \* the hooks of the event that are still to run
  hook,      \* the one that runs
  watch,     \* what its watch has delivered
  outcome    \* the status code the operation ended with

vars == <<object, recorded, count, op, when, pc, due, hook, watch, outcome>>
progress == <<count, op, when, pc, due, hook>>

Ops == [of : Releases, does : Operations,
        hooked : BOOLEAN,  \* ~DisableHooks
        timed : BOOLEAN]   \* Timeout > 0

(* Who created the resource last, and what became of it: a Job runs until it *)
(* is complete or failed, other kinds only exist.                           *)
Objects == [by : 0..MaxOps, phase : {"active", "complete", "failed", "gone"}]

(* performRelease passes ObjectMeta.Name for the namespace.                  *)
HookNs == IF when = "pre" /\ op.does = "install" THEN op.of[2] ELSE op.of[1]

HooksOf(moment) ==
  IF op.hooked THEN {h \in Files : <<moment, op.does>> \in EventsOf[h]} ELSE {}

Exists(ns, h) == object[ns][h].phase # "gone"

SetObject(ns, h, by, phase) ==
  object' = [object EXCEPT ![ns][h] = [by |-> by, phase |-> phase]]

-----------------------------------------------------------------------------
(* The operation. *)

Begin(k, does, hooked, timed) ==
  /\ pc = "idle"
  /\ count < MaxOps
  /\ \/ does = "install"
     \/ does = "upgrade" /\ \E r \in recorded : r[2] = k[2]
     \/ does = "delete" /\ k \in recorded
  /\ count' = count + 1
  /\ op' = [of |-> k, does |-> does, hooked |-> hooked, timed |-> timed]
  /\ when' = "pre"
  /\ pc' = "hooks"
  /\ due' = HooksOf("pre")'
  /\ outcome' = "UNKNOWN"
  /\ UNCHANGED <<object, recorded, hook, watch>>

End(code) ==
  /\ pc' = "idle"
  /\ outcome' = code
  /\ recorded' = IF op.does = "install" /\ code # "UNKNOWN"
                 THEN recorded \cup {op.of} ELSE recorded
  /\ watch' = "closed"
  /\ UNCHANGED <<count, op, when, due, hook>>

(* Mutant: the error of a post-install hook is collected, as that of a       *)
(* post-delete hook is.                                                      *)
PostErrorsCollected ==
  End(IF when = "pre" \/ op.does = "upgrade" THEN "UNKNOWN"
      ELSE IF op.does = "install" THEN "DEPLOYED" ELSE "DELETED")

(* What the callers make of an error of execHook: it ends the operation, and *)
(* only after an install, or a deletion, is anything recorded.               *)
EventFails ==
  End(IF when = "pre" \/ op.does = "upgrade" THEN "UNKNOWN"
      ELSE IF op.does = "install" THEN "FAILED" ELSE "DELETED")

(* Mutant: a resource that exists already will do.                           *)
CreateUnlessThere(h) ==
  IF Exists(HookNs, h) THEN UNCHANGED object
  ELSE SetObject(HookNs, h, count, "active")

Create(h) == ~Exists(HookNs, h) /\ SetObject(HookNs, h, count, "active")

(* Client.Create of the next hook: it fails when the resource exists, on an  *)
(* error of the server, or because the answer was lost.                      *)
CreateHook(h) ==
  /\ pc = "hooks"
  /\ h \in due
  /\ \/ /\ Create(h)
        /\ hook' = h
        /\ pc' = "open"
        /\ UNCHANGED <<recorded, count, op, when, due, watch, outcome>>
     \/ (UNCHANGED object \/ Create(h)) /\ EventFails

(* What a watch delivers of a resource in this phase that decides.           *)
Verdict(h, phase) ==
  IF h \notin Jobs \/ phase = "complete" THEN "ready"
  ELSE IF phase = "failed" THEN "error" ELSE "nothing"

(* The manifest has no resource version, so the watch begins with the        *)
(* resource as it is; of one that is gone again it delivers nothing.         *)
OpenWatch ==
  /\ pc = "open"
  /\ \/ /\ pc' = "watch"
        /\ watch' = IF Exists(HookNs, hook)
                    THEN Verdict(hook, object[HookNs][hook].phase) ELSE "nothing"
        /\ UNCHANGED <<recorded, count, op, when, due, hook, outcome>>
     \/ EventFails
  /\ UNCHANGED object

HookReady ==
  /\ pc = "watch"
  /\ watch = "ready"
  /\ due' = due \ {hook}
  /\ pc' = "hooks"
  /\ watch' = "closed"
  /\ UNCHANGED <<object, recorded, count, op, when, hook, outcome>>

HookFailed == pc = "watch" /\ watch = "error" /\ EventFails /\ UNCHANGED object

(* Mutant: execHook passes no timeout on.                                    *)
NeverTimesOut == FALSE

(* watch.Until: the timer, which races with a late event.                    *)
TimesOut == pc = "watch" /\ op.timed /\ EventFails /\ UNCHANGED object

(* The server closes the watch when it likes: that is an error as well.      *)
WatchCloses == pc = "watch" /\ EventFails /\ UNCHANGED object

(* All hooks of the event have run.                                          *)
EndOfEvent ==
  /\ pc = "hooks"
  /\ due = {}
  /\ IF when = "pre"
     THEN pc' = "apply" /\ UNCHANGED <<recorded, count, op, when, due, hook, watch, outcome>>
     ELSE End(IF op.does = "delete" THEN "DELETED" ELSE "DEPLOYED")
  /\ UNCHANGED object

(* The call, or calls, that change the cluster.  Their errors end an install *)
(* and an upgrade; a deletion collects them, but ends when discovery or the  *)
(* sorting of its manifests fails before the first of them.                  *)
Apply ==
  /\ pc = "apply"
  /\ \/ /\ when' = "post"
        /\ pc' = "hooks"
        /\ due' = HooksOf("post")
        /\ UNCHANGED <<recorded, count, op, hook, watch, outcome>>
     \/ End(IF op.does = "delete" THEN "UNKNOWN" ELSE "FAILED")
  /\ UNCHANGED object

-----------------------------------------------------------------------------
(* The cluster, users, and the process. *)

(* An event of the resource the open watch is for; one that came first has   *)
(* decided already.                                                          *)
Delivered(ns, h, verdict) ==
  watch' = IF pc = "watch" /\ ns = HookNs /\ h = hook /\ watch = "nothing"
           THEN verdict ELSE watch

JobEnds(ns, h, phase) ==
  /\ h \in Jobs
  /\ object[ns][h].phase = "active"
  /\ SetObject(ns, h, object[ns][h].by, phase)
  /\ Delivered(ns, h, Verdict(h, phase))
  /\ UNCHANGED <<recorded, progress, outcome>>

(* A user removes what a hook has left.  To watchUntilReady a resource that  *)
(* is deleted is ready.                                                      *)
Remove(ns, h) ==
  /\ Exists(ns, h)
  /\ SetObject(ns, h, object[ns][h].by, "gone")
  /\ Delivered(ns, h, "ready")
  /\ UNCHANGED <<recorded, progress, outcome>>

Crash ==
  /\ pc # "idle"
  /\ pc' = "idle"
  /\ watch' = "closed"
  /\ UNCHANGED <<object, recorded, count, op, when, due, hook, outcome>>

-----------------------------------------------------------------------------

Init ==
  /\ object = [ns \in Namespaces |-> [h \in Files |-> [by |-> 0, phase |-> "gone"]]]
  /\ recorded = {}
  /\ count = 0
  /\ op \in Ops
  /\ when = "pre"
  /\ pc = "idle"
  /\ due = {}
  /\ hook \in Files
  /\ watch = "closed"
  /\ outcome = "UNKNOWN"

Starts ==
  \E k \in Releases, does \in Operations, hooked, timed \in BOOLEAN :
    Begin(k, does, hooked, timed)

WorkerStep ==
  \/ \E h \in Files : CreateHook(h)
  \/ OpenWatch \/ HookReady \/ HookFailed \/ EndOfEvent \/ Apply

ClusterStep ==
  \E ns \in Namespaces, h \in Files :
    \/ \E phase \in {"complete", "failed"} : JobEnds(ns, h, phase)
    \/ Remove(ns, h)

Next ==
  Starts \/ WorkerStep \/ TimesOut \/ WatchCloses \/ ClusterStep \/ Crash

Spec == Init /\ [][Next]_vars

(* The worker runs when it can, and a timer goes off.  Neither a Job nor the *)
(* API server owes the worker an end of its watch.                           *)
FairSpec == Spec /\ WF_vars(WorkerStep) /\ WF_vars(TimesOut)

-----------------------------------------------------------------------------

TypeOK ==
  /\ object \in [Namespaces -> [Files -> Objects]]
  /\ recorded \subseteq Releases
  /\ count \in 0..MaxOps
  /\ op \in Ops
  /\ when \in Moments
  /\ pc \in {"idle", "hooks", "open", "watch", "apply"}
  /\ due \subseteq Files
  /\ hook \in Files
  /\ watch \in {"closed", "nothing", "ready", "error"}
  /\ outcome \in {"UNKNOWN", "DEPLOYED", "FAILED", "DELETED"}

(* The running operation has created the hook, and if it is a Job that is     *)
(* still there, it is complete.                                              *)
HasRun(h, ns) ==
  LET x == object[ns][h]
  IN  x.by = count /\ (h \in Jobs => x.phase \in {"complete", "gone"})

(* When an operation is about to change the cluster, each of its pre-hooks    *)
(* has run, in the namespace it belongs to, for this operation: not for an    *)
(* earlier one, nor for the release of the same name in another namespace,    *)
(* whose pre-install hooks live in the same namespace, nor for one a crash    *)
(* cut short; and no Job among them has failed.                              *)
HooksBeforeResources ==
  pc = "apply" => \A h \in HooksOf("pre") : HasRun(h, HookNs)

(* An install or an upgrade is DEPLOYED only when its post-hooks have run for *)
(* it as well: the last change of the status comes after the last hook.       *)
DeployedAfterHooks ==
  pc = "idle" /\ outcome = "DEPLOYED" =>
    \A h \in HooksOf("post") : HasRun(h, op.of[1])

(* An operation with a timeout comes to its end, whatever its Jobs do, and    *)
(* whoever removes them: the one worker is free again for other releases.     *)
TimedOperationsEnd == (pc # "idle" /\ op.timed) ~> pc = "idle"
=============================================================================
