----------------------------- MODULE KubeSteps -----------------------------
(***************************************************************************)
(* kube.Client as it runs: a call of Create or Update visits the resources  *)
(* of its manifest one after the other, and each visit is a request to the  *)
(* API server that may fail or lose its answer.  The order of a manifest is *)
(* left open.                                                              *)
(***************************************************************************)
EXTENDS KubeClient

CONSTANT MaxCalls  \* bound: calls in a behaviour

ASSUME StepsAssumption == MaxCalls \in Nat

VARIABLES
  answer,  \* how the last call ended
  call,    \* the call that runs
  phase,   \* "none": no call runs; "visit", "delete"
  rest,    \* the resources of this phase that are still to come
  errs,    \* updateErrors: a patch has failed
  fault,   \* a request of this call has failed
  before,  \* the cluster as the call that runs, or the next, finds it
  calls    \* how many there have been

(* ReleaseServer's view: a call that runs has done nothing yet.              *)
KC == INSTANCE KubeCalls WITH live <- before

vars == <<live, answer, call, phase, rest, errs, fault, before, calls>>

Orig == IF call.orig = NoRes THEN {} ELSE Targets(call.orig)

InCluster(r) == live[call.ns][r] # NoRes

Place(r, m) == live' = [live EXCEPT ![call.ns][r] = m]

Return(ok, f) ==
  /\ phase' = "none"
  /\ answer' = [call |-> call, ok |-> ok, fault |-> f]
  /\ call' = NoRes
  /\ rest' = {}
  /\ errs' = FALSE
  /\ fault' = FALSE
  /\ before' = live'
  /\ UNCHANGED calls

(* Build reads the manifests.                                                *)
Begin(c) ==
  /\ phase = "none"
  /\ calls < MaxCalls
  /\ calls' = calls + 1
  /\ call' = c
  /\ phase' = "visit"
  /\ rest' = Targets(c.target)
  /\ UNCHANGED <<live, answer, errs, fault, before>>

Visited(r) ==
  /\ rest' = rest \ {r}
  /\ UNCHANGED <<answer, call, phase, errs, fault, before, calls>>

(* A request before any visit (ensureNamespace of a Create is the first), or *)
(* the read of a resource before it is created or patched, returns an error: *)
(* the call ends.                                                            *)
RequestFails ==
  /\ phase = "visit"
  /\ UNCHANGED live
  /\ Return(FALSE, TRUE)

(* createResource, for Create and for what Update does not find.             *)
CreateResource(r) ==
  /\ phase = "visit"
  /\ r \in rest
  /\ ~InCluster(r)
  /\ Place(r, call.target)
  /\ Visited(r) \/ Return(FALSE, TRUE)

(* Create of what exists is refused, and Update gives up on a resource that  *)
(* exists and is not in the original manifest.                               *)
Refused(r) ==
  /\ phase = "visit"
  /\ r \in rest
  /\ InCluster(r)
  /\ r \notin Orig
  /\ UNCHANGED live
  /\ Return(FALSE, fault)

PatchResource(r) ==
  Place(r, Patched(call.orig, call.target, live[call.ns][r]))

(* updateResource.  Nothing is sent when the two manifests agree; the error  *)
(* of a patch, or of the pods that are recreated after it, is collected, and *)
(* the visits go on.                                                        *)
UpdateResource(r) ==
  /\ phase = "visit"
  /\ r \in rest
  /\ InCluster(r)
  /\ r \in Orig
  /\ \/ PatchResource(r) /\ Visited(r)
     \/ /\ call.orig # call.target
        /\ PatchResource(r) \/ UNCHANGED live
        /\ rest' = rest \ {r}
        /\ errs' = TRUE
        /\ fault' = TRUE
        /\ UNCHANGED <<answer, call, phase, before, calls>>

Deletes ==
  /\ phase' = "delete"
  /\ rest' = Orig \ Targets(call.target)
  /\ UNCHANGED <<answer, call, errs, fault, before, calls>>

EmptyCreate == call.orig = NoRes /\ Targets(call.target) = {}

(* Mutant: updateErrors is not looked at.                                    *)
ErrorsForgotten ==
  /\ phase = "visit"
  /\ rest = {}
  /\ UNCHANGED live
  /\ IF EmptyCreate THEN Return(FALSE, fault) ELSE Deletes

(* The visits are over: an Update with errors returns them, a Create of      *)
(* nothing is ErrNoObjectsVisited.  What is in the original manifest only is *)
(* then deleted.                                                            *)
EndOfVisits ==
  /\ phase = "visit"
  /\ rest = {}
  /\ UNCHANGED live
  /\ IF errs \/ EmptyCreate THEN Return(FALSE, fault) ELSE Deletes

(* The errors of the deletions are only logged.                              *)
DeleteResource(r) ==
  /\ phase = "delete"
  /\ r \in rest
  /\ \/ Place(r, NoRes) /\ Visited(r)
     \/ /\ Place(r, NoRes) \/ UNCHANGED live
        /\ rest' = rest \ {r}
        /\ fault' = TRUE
        /\ UNCHANGED <<answer, call, phase, errs, before, calls>>

(* Without deletions to do, the call returns, or waits for the resources and *)
(* times out.                                                               *)
EndOfCall ==
  /\ phase = "delete"
  /\ rest = {}
  /\ UNCHANGED live
  /\ Return(TRUE, fault) \/ Return(FALSE, TRUE)

-----------------------------------------------------------------------------

Init ==
  /\ LiveInit
  /\ answer = KC!NoAnswer
  /\ call = NoRes
  /\ phase = "none"
  /\ rest = {}
  /\ errs = FALSE
  /\ fault = FALSE
  /\ before = live
  /\ calls = 0

Visit ==
  \/ RequestFails
  \/ \E r \in Resources : CreateResource(r) \/ Refused(r) \/ UpdateResource(r)
  \/ EndOfVisits

Next ==
  \/ \E c \in KC!Calls : Begin(c)
  \/ Visit
  \/ \E r \in Resources : DeleteResource(r)
  \/ EndOfCall

Spec == Init /\ [][Next]_vars

-----------------------------------------------------------------------------

(* Whatever request fails, and wherever, a call has one of the outcomes the   *)
(* release server reckons with: a call that returns no error has done all of  *)
(* its work but deletions, one that gave up has deleted nothing, and without  *)
(* a fault it succeeds if it can.                                            *)
ImplementsKubeCalls == KC!Spec
=============================================================================
