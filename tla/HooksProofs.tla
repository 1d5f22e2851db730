---------------------------- MODULE HooksProofs ----------------------------
(***************************************************************************)
(* Proofs about the execution of hooks: the resources of an operation       *)
(* change after its pre-hooks have run, and it is DEPLOYED after its         *)
(* post-hooks have, for any releases, charts, Jobs and number of operations. *)
(***************************************************************************)
EXTENDS Hooks, TLAPS

(* Every hook of the event that is no longer due has run.                    *)
RunSoFar ==
  pc \in {"hooks", "open", "watch"} =>
    \A h \in HooksOf(when) \ due : HasRun(h, HookNs)

(* The hook in hand is due, and it is this operation that created it.        *)
HookInHand ==
  pc \in {"open", "watch"} => hook \in due /\ object[HookNs][hook].by = count

ReadyHasRun == pc = "watch" /\ watch = "ready" => HasRun(hook, HookNs)

(* An operation has no outcome yet, and the cluster changes between the two   *)
(* events.                                                                   *)
Undecided == pc # "idle" => outcome = "UNKNOWN"

Between == pc = "apply" => when = "pre"

(* The moment of a release that became DEPLOYED is the last.                 *)
DeployedAtTheEnd ==
  pc = "idle" /\ outcome = "DEPLOYED" => when = "post"

HooksInv ==
  /\ RunSoFar /\ HookInHand /\ ReadyHasRun /\ Undecided /\ Between
  /\ DeployedAtTheEnd /\ HooksBeforeResources /\ DeployedAfterHooks

(* Every variable has its type: the hooks that are due are hooks, and what    *)
(* became of a resource is known to have been done by an operation so far.    *)
THEOREM HooksTypeCorrect == Spec => []TypeOK
<1> USE HooksAssumption
<1>1. Init => TypeOK
  BY DEF Init, TypeOK, Objects, Moments
<1>2. TypeOK /\ [Next]_vars => TypeOK'
  <2> SUFFICES ASSUME TypeOK, [Next]_vars PROVE TypeOK'
    OBVIOUS
  <2> USE DEF TypeOK, Moments
  <2>1. /\ HookNs \in Namespaces
        /\ \A m : HooksOf(m) \subseteq Files
    BY DEF HookNs, HooksOf, Ops
  <2>2. ASSUME NEW code \in {"UNKNOWN", "DEPLOYED", "FAILED", "DELETED"},
               End(code), object' \in [Namespaces -> [Files -> Objects]]
        PROVE  TypeOK'
    BY <2>2 DEF End, Ops
  <2>3. ASSUME EventFails, object' \in [Namespaces -> [Files -> Objects]]
        PROVE  TypeOK'
    BY <2>2, <2>3 DEF EventFails
  <2>4. ASSUME NEW ns \in Namespaces, NEW h \in Files, NEW by \in 0..MaxOps,
               NEW phase \in {"active", "complete", "failed", "gone"},
               SetObject(ns, h, by, phase)
        PROVE  object' \in [Namespaces -> [Files -> Objects]]
    BY <2>4 DEF SetObject, Objects
  <2>5. ASSUME NEW ns \in Namespaces, NEW h \in Files
        PROVE  object[ns][h].by \in 0..MaxOps
    BY DEF Objects
  <2>6. ASSUME NEW k \in Releases, NEW does \in Operations,
               NEW hooked \in BOOLEAN, NEW timed \in BOOLEAN,
               Begin(k, does, hooked, timed)
        PROVE  TypeOK'
    <3>1. op' \in Ops /\ count' \in 0..MaxOps
      BY <2>6 DEF Begin, Ops
    <3>2. due' \subseteq Files
      BY <2>6 DEF Begin, HooksOf
    <3> QED
      BY <2>6, <3>1, <3>2 DEF Begin
  <2>7. ASSUME NEW h \in Files, CreateHook(h)
        PROVE  TypeOK'
    <3>1. object' \in [Namespaces -> [Files -> Objects]]
      BY <2>1, <2>4, <2>7 DEF CreateHook, Create
    <3> QED
      BY <2>3, <2>7, <3>1 DEF CreateHook
  <2>8. ASSUME OpenWatch PROVE TypeOK'
    BY <2>3, <2>8 DEF OpenWatch, Verdict
  <2>9. ASSUME HookReady PROVE TypeOK'
    BY <2>9 DEF HookReady
  <2>10. ASSUME HookFailed \/ TimesOut \/ WatchCloses PROVE TypeOK'
    BY <2>3, <2>10 DEF HookFailed, TimesOut, WatchCloses
  <2>11. ASSUME EndOfEvent PROVE TypeOK'
    BY <2>2, <2>11 DEF EndOfEvent
  <2>12. ASSUME Apply PROVE TypeOK'
    BY <2>1, <2>2, <2>12 DEF Apply
  <2>13. ASSUME NEW ns \in Namespaces, NEW h \in Files,
                NEW phase \in {"complete", "failed"}, JobEnds(ns, h, phase)
         PROVE  TypeOK'
    <3>1. object' \in [Namespaces -> [Files -> Objects]]
      BY <2>4, <2>5, <2>13 DEF JobEnds
    <3> QED
      BY <2>13, <3>1 DEF JobEnds, Delivered, Verdict, progress
  <2>14. ASSUME NEW ns \in Namespaces, NEW h \in Files, Remove(ns, h)
         PROVE  TypeOK'
    <3>1. object' \in [Namespaces -> [Files -> Objects]]
      BY <2>4, <2>5, <2>14 DEF Remove
    <3> QED
      BY <2>14, <3>1 DEF Remove, Delivered, progress
  <2>15. ASSUME Crash PROVE TypeOK'
    BY <2>15 DEF Crash
  <2>16. ASSUME UNCHANGED vars PROVE TypeOK'
    BY <2>16 DEF vars
  <2> QED
    BY <2>6, <2>7, <2>8, <2>9, <2>10, <2>11, <2>12, <2>13, <2>14, <2>15, <2>16
    DEF Next, Starts, WorkerStep, ClusterStep
<1> QED
  BY <1>1, <1>2, PTL DEF Spec

-----------------------------------------------------------------------------

(* An operation that ends without being DEPLOYED leaves nothing to show.     *)
LEMMA EndingKeeps ==
  ASSUME NEW code, code # "DEPLOYED", End(code)
  PROVE  HooksInv'
BY DEF End, HooksInv, RunSoFar, HookInHand, ReadyHasRun, Undecided, Between,
       DeployedAtTheEnd, HooksBeforeResources, DeployedAfterHooks

LEMMA FailureKeeps ==
  ASSUME EventFails
  PROVE  HooksInv'
<1>1. PICK code \in {"UNKNOWN", "FAILED", "DELETED"} : End(code)
  BY DEF EventFails
<1> QED
  BY <1>1, EndingKeeps

(* What the cluster and users do to a resource does not undo that its hook    *)
(* has run: a Job that ended does not run again, and who created a resource   *)
(* stays the same.                                                           *)
LEMMA RunsStay ==
  ASSUME TypeOK, NEW ns \in Namespaces, NEW h \in Files, NEW phase,
         SetObject(ns, h, object[ns][h].by, phase),
         phase = "gone" \/ (phase = "complete" /\ object[ns][h].phase = "active")
           \/ (h \in Jobs /\ object[ns][h].phase = "active"),
         UNCHANGED count
  PROVE  /\ \A m \in Namespaces, g \in Files : HasRun(g, m) => HasRun(g, m)'
         /\ \A m \in Namespaces, g \in Files : object'[m][g].by = object[m][g].by
<1> USE DEF TypeOK
<1>1. object'[ns][h] = [by |-> object[ns][h].by, phase |-> phase]
  BY DEF SetObject
<1>2. \A m \in Namespaces, g \in Files :
        m # ns \/ g # h => object'[m][g] = object[m][g]
  BY DEF SetObject
<1> QED
  BY <1>1, <1>2 DEF HasRun

(* The operation in hand is the same, and so are the hooks of its events.     *)
LEMMA SameOperation ==
  ASSUME UNCHANGED <<op, when>>
  PROVE  HookNs' = HookNs /\ \A m : HooksOf(m)' = HooksOf(m)
BY DEF HookNs, HooksOf

(* Neither the cluster nor a user can undo what the hooks have come to.       *)
LEMMA ClusterKeeps ==
  ASSUME TypeOK, HooksInv, NEW ns \in Namespaces, NEW h \in Files,
         UNCHANGED <<recorded, progress, outcome>>,
         \/ Remove(ns, h)
         \/ \E phase \in {"complete", "failed"} : JobEnds(ns, h, phase)
  PROVE  HooksInv'
<1> USE HooksAssumption DEF progress
<1>1. /\ HookNs \in Namespaces /\ op.of[1] \in Namespaces
      /\ \A m : HooksOf(m) \subseteq Files
  BY DEF HookNs, HooksOf, Ops, TypeOK
<1>2. /\ \A m \in Namespaces, g \in Files : HasRun(g, m) => HasRun(g, m)'
      /\ \A m \in Namespaces, g \in Files : object'[m][g].by = object[m][g].by
  BY RunsStay DEF Remove, JobEnds
<1>3. HookNs' = HookNs /\ \A m : HooksOf(m)' = HooksOf(m)
  BY SameOperation
<1>4. ASSUME pc = "watch", watch' = "ready" PROVE HasRun(hook, HookNs)'
  <2>0. hook \in Files /\ object[HookNs][hook].by = count
    BY <1>4 DEF TypeOK, HooksInv, HookInHand
  <2>1. CASE watch = "ready"
    BY <1>1, <1>2, <1>3, <2>0, <2>1, <1>4 DEF HooksInv, ReadyHasRun, HasRun
  <2>2. CASE watch # "ready"
    <3>1. ns = HookNs /\ h = hook
      BY <1>4, <2>2 DEF Remove, JobEnds, Delivered
    <3>2. object'[ns][h].phase \in {"complete", "gone"}
      BY <1>4, <2>2, <3>1 DEF Remove, JobEnds, Delivered, SetObject, Verdict, TypeOK
    <3> QED
      BY <1>2, <1>3, <1>1, <2>0, <3>1, <3>2 DEF HasRun
  <2> QED
    BY <2>1, <2>2
<1>5. RunSoFar' /\ HookInHand'
  BY <1>1, <1>2, <1>3 DEF HooksInv, RunSoFar, HookInHand, TypeOK
<1>6. ReadyHasRun'
  BY <1>4 DEF ReadyHasRun
<1>7. Undecided' /\ Between' /\ DeployedAtTheEnd'
  BY DEF HooksInv, Undecided, Between, DeployedAtTheEnd
<1>8. HooksBeforeResources'
  BY <1>1, <1>2, <1>3 DEF HooksInv, HooksBeforeResources
<1>9. DeployedAfterHooks'
  BY <1>1, <1>2, <1>3 DEF HooksInv, DeployedAfterHooks
<1> QED
  BY <1>5, <1>6, <1>7, <1>8, <1>9 DEF HooksInv

(* Creating the next hook does not disturb those that have run: each hook of  *)
(* the event is created once.                                                *)
LEMMA CreateKeeps ==
  ASSUME TypeOK, HooksInv, NEW h \in Files, CreateHook(h)
  PROVE  HooksInv'
<1> USE HooksAssumption
<1>1. CASE EventFails
  BY <1>1, FailureKeeps
<1>2. CASE ~EventFails
  <2>1. /\ pc = "hooks" /\ h \in due /\ Create(h) /\ hook' = h /\ pc' = "open"
        /\ UNCHANGED <<recorded, count, op, when, due, watch, outcome>>
    BY <1>2 DEF CreateHook
  <2>2. HookNs' = HookNs /\ \A m : HooksOf(m)' = HooksOf(m)
    BY <2>1, SameOperation
  <2>3. HookNs \in Namespaces /\ HooksOf(when) \subseteq Files
    BY DEF HookNs, HooksOf, Ops, TypeOK
  <2>4. /\ object'[HookNs][h].by = count
        /\ \A g \in Files : g # h => object'[HookNs][g] = object[HookNs][g]
    BY <2>1, <2>3 DEF Create, SetObject, TypeOK
  <2>5. RunSoFar' /\ HookInHand'
    BY <2>1, <2>2, <2>3, <2>4 DEF HooksInv, RunSoFar, HookInHand, HasRun
  <2> QED
    BY <2>1, <2>5 DEF HooksInv, ReadyHasRun, Undecided, Between,
       DeployedAtTheEnd, HooksBeforeResources, DeployedAfterHooks
<1> QED
  BY <1>1, <1>2

LEMMA OpenKeeps ==
  ASSUME TypeOK, HooksInv, OpenWatch
  PROVE  HooksInv'
<1>1. CASE EventFails
  BY <1>1, FailureKeeps
<1>2. CASE ~EventFails
  <2>1. /\ pc = "open" /\ pc' = "watch"
        /\ watch' = IF Exists(HookNs, hook)
                    THEN Verdict(hook, object[HookNs][hook].phase) ELSE "nothing"
        /\ UNCHANGED <<object, recorded, count, op, when, due, hook, outcome>>
    BY <1>2 DEF OpenWatch
  <2>2. HookNs' = HookNs /\ \A m : HooksOf(m)' = HooksOf(m)
    BY <2>1, SameOperation
  <2>3. RunSoFar' /\ HookInHand'
    BY <2>1, <2>2 DEF HooksInv, RunSoFar, HookInHand, HasRun
  <2>4. ReadyHasRun'
    BY <2>1, <2>2 DEF HooksInv, HookInHand, ReadyHasRun, HasRun, Verdict
  <2> QED
    BY <2>1, <2>3, <2>4 DEF HooksInv, Undecided, Between, DeployedAtTheEnd,
       HooksBeforeResources, DeployedAfterHooks
<1> QED
  BY <1>1, <1>2

(* When no hook is due any more, all of the event have run.                   *)
LEMMA EventKeeps ==
  ASSUME TypeOK, HooksInv, EndOfEvent
  PROVE  HooksInv'
<1>1. pc = "hooks" /\ due = {} /\ UNCHANGED <<object, count, op, when>>
  BY DEF EndOfEvent, End
<1>2. HookNs' = HookNs /\ \A m : HooksOf(m)' = HooksOf(m)
  BY <1>1, SameOperation
<1>3. \A h \in HooksOf(when) : HasRun(h, HookNs)
  BY <1>1 DEF HooksInv, RunSoFar
<1>4. CASE when = "pre"
  BY <1>1, <1>2, <1>3, <1>4
  DEF EndOfEvent, HooksInv, RunSoFar, HookInHand, ReadyHasRun, Undecided, Between,
      DeployedAtTheEnd, HooksBeforeResources, DeployedAfterHooks, HasRun
<1>5. CASE when # "pre"
  <2>1. when = "post" /\ HookNs = op.of[1]
    BY <1>5 DEF TypeOK, Moments, HookNs
  <2>2. pc' = "idle"
    BY <1>5 DEF EndOfEvent, End
  <2>3. DeployedAfterHooks' /\ DeployedAtTheEnd'
    BY <1>1, <1>2, <1>3, <2>1 DEF DeployedAfterHooks, DeployedAtTheEnd, HasRun
  <2> QED
    BY <2>2, <2>3 DEF HooksInv, RunSoFar, HookInHand, ReadyHasRun, Undecided,
       Between, HooksBeforeResources
<1> QED
  BY <1>4, <1>5

(* Whatever the worker, the cluster, users or a crash do next.                *)
LEMMA HooksStep ==
  ASSUME TypeOK, HooksInv, [Next]_vars
  PROVE  HooksInv'
<1> USE DEF HooksInv, RunSoFar, HookInHand, ReadyHasRun, Undecided, Between,
            DeployedAtTheEnd, HooksBeforeResources, DeployedAfterHooks
<1>1. ASSUME NEW k \in Releases, NEW does \in Operations,
             NEW hooked \in BOOLEAN, NEW timed \in BOOLEAN,
             Begin(k, does, hooked, timed)
      PROVE  HooksInv'
  <2>1. pc' = "hooks" /\ outcome' = "UNKNOWN" /\ due' = HooksOf(when)'
    BY <1>1 DEF Begin, HooksOf
  <2> QED
    BY <2>1
<1>2. ASSUME NEW h \in Files, CreateHook(h) PROVE HooksInv'
  BY <1>2, CreateKeeps
<1>3. ASSUME OpenWatch PROVE HooksInv'
  BY <1>3, OpenKeeps
<1>4. ASSUME HookReady PROVE HooksInv'
  <2>1. HookNs' = HookNs /\ \A m : HooksOf(m)' = HooksOf(m)
    BY <1>4, SameOperation DEF HookReady
  <2> QED
    BY <1>4, <2>1 DEF HookReady, HasRun
<1>5. ASSUME HookFailed \/ TimesOut \/ WatchCloses PROVE HooksInv'
  BY <1>5, FailureKeeps DEF HookFailed, TimesOut, WatchCloses
<1>6. ASSUME EndOfEvent PROVE HooksInv'
  BY <1>6, EventKeeps
<1>7. ASSUME Apply PROVE HooksInv'
  <2> DEFINE code == IF op.does = "delete" THEN "UNKNOWN" ELSE "FAILED"
  <2>1. CASE End(code)
    BY <2>1, EndingKeeps
  <2>2. CASE ~End(code)
    <3>1. /\ pc = "apply" /\ pc' = "hooks" /\ when' = "post"
          /\ due' = HooksOf("post") /\ UNCHANGED <<op, outcome>>
      BY <1>7, <2>2 DEF Apply
    <3>2. HooksOf(when)' = HooksOf("post")
      BY <3>1 DEF HooksOf
    <3> QED
      BY <3>1, <3>2
  <2> QED
    BY <2>1, <2>2
<1>8. ASSUME NEW ns \in Namespaces, NEW h \in Files,
             \/ \E phase \in {"complete", "failed"} : JobEnds(ns, h, phase)
             \/ Remove(ns, h)
      PROVE  HooksInv'
  BY <1>8, ClusterKeeps DEF JobEnds, Remove
<1>9. ASSUME Crash PROVE HooksInv'
  BY <1>9 DEF Crash
<1>10. ASSUME UNCHANGED vars PROVE HooksInv'
  BY <1>10 DEF vars, HookNs, HooksOf, HasRun
<1> QED
  BY <1>1, <1>2, <1>3, <1>4, <1>5, <1>6, <1>7, <1>8, <1>9, <1>10
  DEF Next, Starts, WorkerStep, ClusterStep

LEMMA HooksAlways == Spec => []HooksInv
<1>1. Init => HooksInv
  BY DEF Init, HooksInv, RunSoFar, HookInHand, ReadyHasRun, Undecided, Between,
         DeployedAtTheEnd, HooksBeforeResources, DeployedAfterHooks
<1>2. TypeOK /\ HooksInv /\ [Next]_vars => HooksInv'
  BY HooksStep
<1> QED
  BY <1>1, <1>2, HooksTypeCorrect, PTL DEF Spec

(* The resources of an operation change only after each of its pre-hooks has  *)
(* run for this very operation.                                              *)
THEOREM HooksRunFirst == Spec => []HooksBeforeResources
BY HooksAlways, PTL DEF HooksInv

(* A release becomes DEPLOYED only after each of its post-hooks has run for   *)
(* the operation that made it so.                                            *)
THEOREM HooksRunLast == Spec => []DeployedAfterHooks
BY HooksAlways, PTL DEF HooksInv
=============================================================================
