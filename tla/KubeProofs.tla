----------------------------- MODULE KubeProofs -----------------------------
(***************************************************************************)
(* Proof that kube.Client, one request at a time, does what the release      *)
(* server takes its calls for, for any charts, namespaces, cluster and       *)
(* number of calls.                                                        *)
(***************************************************************************)
EXTENDS KubeSteps, TLAPS

Clusters == [Namespaces -> [Resources -> Manifests \cup {NoRes}]]

(* What a visit makes of a resource, and which a call can visit.             *)
After(r) ==
  IF before[call.ns][r] = NoRes THEN call.target
  ELSE Patched(call.orig, call.target, before[call.ns][r])

Reached(r) == before[call.ns][r] = NoRes \/ r \in Orig

(* A cluster l in which a call has come no further than its visits.          *)
Partial(l) ==
  /\ l \in Clusters
  /\ \A ns \in Namespaces : ns # call.ns => l[ns] = before[ns]
  /\ \A r \in Resources :
       \/ l[call.ns][r] = before[call.ns][r]
       \/ r \in Targets(call.target) /\ Reached(r) /\ l[call.ns][r] = After(r)

(* The visits: what is still to come is as it was, and the rest is done, or   *)
(* its patch failed.                                                        *)
VisitInv ==
  phase = "visit" =>
    /\ rest \subseteq Targets(call.target)
    /\ Partial(live)
    /\ \A r \in rest : live[call.ns][r] = before[call.ns][r]
    /\ \A r \in Targets(call.target) \ rest :
         Reached(r) /\ (~errs => live[call.ns][r] = After(r))

(* The deletions: they begin when every visit has succeeded.                 *)
DeleteInv ==
  phase = "delete" =>
    /\ ~errs /\ ~EmptyCreate
    /\ rest \subseteq Orig \ Targets(call.target)
    /\ live \in Clusters
    /\ \A ns \in Namespaces : ns # call.ns => live[ns] = before[ns]
    /\ \A r \in Targets(call.target) : Reached(r) /\ live[call.ns][r] = After(r)
    /\ \A r \in Resources \ Targets(call.target) :
         /\ r \notin Orig \ rest => live[call.ns][r] = before[call.ns][r]
         /\ live[call.ns][r] \in {before[call.ns][r], NoRes}
         /\ r \in Orig \ rest /\ ~fault => live[call.ns][r] = NoRes

RestInv ==
  /\ call \in KC!Calls \cup {NoRes}
  /\ phase \in {"none", "visit", "delete"}
  /\ phase # "none" => call \in KC!Calls
  /\ phase = "none" => before = live /\ ~errs /\ ~fault
  /\ before \in Clusters
  /\ errs \in BOOLEAN /\ fault \in BOOLEAN
  /\ errs => fault
  /\ phase # "none" /\ call.orig = NoRes => ~fault

StepsInv == RestInv /\ VisitInv /\ DeleteInv

(* What the parts of a call are.                                             *)
LEMMA CallParts ==
  ASSUME NEW c \in KC!Calls
  PROVE  /\ c.ns \in Namespaces /\ c.target \in Manifests
         /\ c.orig \in Manifests \cup {NoRes}
         /\ c.orig = NoRes => c = KC!Create(c.ns, c.target)
         /\ c.orig # NoRes => c = KC!Update(c.ns, c.orig, c.target)
         /\ Targets(c.target) \subseteq Resources
         /\ c.orig # NoRes => Targets(c.orig) \subseteq Resources
BY ReleaseAssumption, ResourceAssumption
DEF KC!Calls, KC!Create, KC!Update, KC!Manifests, Manifests, Targets

(* A visit, or a request that failed, makes a resource what a call makes of   *)
(* it: a resource of the kind the cluster can hold.                          *)
LEMMA PatchedIsManifest ==
  ASSUME NEW o \in Manifests, NEW t \in Manifests, NEW w \in Manifests
  PROVE  Patched(o, t, w) \in Manifests
BY DEF Patched, Manifests

(* A call that returns an error, having come no further than its visits, is   *)
(* an atomic call that failed.                                               *)
LEMMA PartialFails ==
  ASSUME RestInv, call \in KC!Calls, Partial(live'), NEW f \in BOOLEAN,
         before' = live', answer' = [call |-> call, ok |-> FALSE, fault |-> f],
         f \/ (call.orig = NoRes /\ ~KC!CanCreate(call.ns, call.target))
           \/ (call.orig # NoRes /\ ~KC!CanUpdate(call.ns, call.orig, call.target))
  PROVE  KC!Next
<1> USE DEF RestInv, Clusters
<1> DEFINE ns == call.ns
           m == call.target
           done == {r \in Targets(m) : Reached(r) /\ live'[ns][r] = After(r)}
<1>1. /\ ns \in Namespaces /\ m \in Manifests /\ Targets(m) \subseteq Resources
      /\ call.orig \in Manifests \cup {NoRes}
      /\ KC!Manifests = Manifests
      /\ KC!Targets(m) = Targets(m)
  BY CallParts DEF KC!Manifests, Manifests, KC!Targets, Targets
<1>2. before' = [before EXCEPT ![ns] =
                   [r \in Resources |-> IF r \in done THEN After(r) ELSE before[ns][r]]]
  <2>1. \A n \in Namespaces : n # ns => live'[n] = before[n]
    BY DEF Partial
  <2>2. \A r \in Resources :
          live'[ns][r] = IF r \in done THEN After(r) ELSE before[ns][r]
    BY DEF Partial
  <2>3. live'[ns] = [r \in Resources |-> IF r \in done THEN After(r) ELSE before[ns][r]]
    BY <1>1, <2>2 DEF Partial
  <2> QED
    BY <1>1, <2>1, <2>3 DEF Partial
<1>3. CASE call.orig = NoRes
  <2>1. call = KC!Create(ns, m)
    BY <1>3, CallParts
  <2>2. \A r \in done : before[ns][r] = NoRes /\ After(r) = m
    BY <1>3 DEF Reached, Orig, After
  <2>3. done \in SUBSET KC!Absent(ns, KC!Targets(m))
    BY <1>1, <2>2 DEF KC!Absent
  <2>4. KC!Created(ns, m, done)
    <3>1. [r \in Resources |-> IF r \in done THEN After(r) ELSE before[ns][r]]
            = [r \in Resources |-> IF r \in done THEN m ELSE before[ns][r]]
      BY <2>2
    <3> QED
      BY <1>1, <1>2, <3>1 DEF KC!Created
  <2>5. KC!CreateFails(ns, m)
    BY <2>3, <2>4 DEF KC!CreateFails
  <2>6. KC!CallCreate(ns, m)
    BY <1>3, <2>1, <2>5 DEF KC!CallCreate, KC!Answered
  <2> QED
    BY <1>1, <2>6 DEF KC!Next
<1>4. CASE call.orig # NoRes
  <2> DEFINE o == call.orig
  <2>1. call = KC!Update(ns, o, m) /\ o \in Manifests
    BY <1>1, <1>4, CallParts
  <2>2. done \in SUBSET KC!Reachable(ns, o, m)
    BY <1>1, <1>4 DEF KC!Reachable, Reached, Orig, KC!Targets, Targets
  <2>3. KC!Applied(ns, o, m, done, {})
    <3>1. [r \in Resources |-> IF r \in done THEN After(r) ELSE before[ns][r]]
            = [r \in Resources |->
                 IF r \in done
                 THEN IF before[ns][r] = NoRes THEN m ELSE KC!Patched(o, m, before[ns][r])
                 ELSE IF r \in {} THEN NoRes ELSE before[ns][r]]
      BY DEF After, KC!Patched, Patched
    <3> QED
      BY <1>1, <1>2, <3>1 DEF KC!Applied
  <2>4. KC!UpdateFails(ns, o, m)
    BY <2>2, <2>3 DEF KC!UpdateFails
  <2>5. KC!CallUpdate(ns, o, m)
    BY <1>4, <2>1, <2>4 DEF KC!CallUpdate, KC!Answered
  <2> QED
    BY <1>1, <2>1, <2>5 DEF KC!Next
<1> QED
  BY <1>3, <1>4

(* A call that comes to its end is an atomic call that has done all of its    *)
(* work, but for the deletions that failed.                                  *)
LEMMA FinishSucceeds ==
  ASSUME RestInv, DeleteInv, phase = "delete", rest = {}, live' = live,
         before' = live', NEW ok \in BOOLEAN, NEW f \in BOOLEAN,
         (ok /\ f = fault) \/ (~ok /\ f),
         answer' = [call |-> call, ok |-> ok, fault |-> f]
  PROVE  KC!Next
<1> USE DEF RestInv, Clusters
<1> DEFINE ns == call.ns
           m == call.target
<1>1. /\ ns \in Namespaces /\ m \in Manifests /\ Targets(m) \subseteq Resources
      /\ call \in KC!Calls /\ call.orig \in Manifests \cup {NoRes}
      /\ KC!Manifests = Manifests
      /\ \A x : KC!Targets(x) = Targets(x)
  BY CallParts DEF KC!Manifests, Manifests, KC!Targets, Targets
<1>2. CASE call.orig = NoRes /\ ~ok
  <2>1. Partial(live')
    BY <1>1, <1>2 DEF DeleteInv, Partial, Orig
  <2> QED
    BY <1>1, <1>2, <2>1, PartialFails
<1>3. CASE call.orig = NoRes /\ ok
  <2>1. call = KC!Create(ns, m)
    BY <1>1, <1>3, CallParts
  <2>2. KC!CanCreate(ns, m)
    BY <1>1, <1>3 DEF DeleteInv, EmptyCreate, Reached, Orig, KC!CanCreate, KC!Absent
  <2>3. KC!Created(ns, m, Targets(m))
    <3>1. \A r \in Resources :
            live[ns][r] = IF r \in Targets(m) THEN m ELSE before[ns][r]
      BY <1>1, <1>3 DEF DeleteInv, Reached, Orig, After
    <3>2. live[ns] = [r \in Resources |-> IF r \in Targets(m) THEN m ELSE before[ns][r]]
      BY <1>1, <3>1 DEF DeleteInv
    <3>3. live = [before EXCEPT ![ns] =
                    [r \in Resources |-> IF r \in Targets(m) THEN m ELSE before[ns][r]]]
      BY <1>1, <3>2 DEF DeleteInv
    <3> QED
      BY <1>1, <3>3 DEF KC!Created
  <2>4. f = FALSE
    BY <1>3
  <2>5. KC!CallCreate(ns, m)
    BY <1>1, <1>3, <2>1, <2>2, <2>3, <2>4
    DEF KC!CallCreate, KC!CreateSucceeds, KC!Answered
  <2> QED
    BY <1>1, <2>5 DEF KC!Next
<1>4. CASE call.orig # NoRes
  <2> DEFINE o == call.orig
             left == {r \in Targets(o) \ Targets(m) : live[ns][r] # NoRes}
  <2>1. call = KC!Update(ns, o, m) /\ o \in Manifests
    BY <1>1, <1>4, CallParts
  <2>2. KC!CanUpdate(ns, o, m)
    BY <1>1, <1>4 DEF DeleteInv, Reached, Orig, KC!CanUpdate, KC!Reachable
  <2>3. KC!Applied(ns, o, m, Targets(m), (Targets(o) \ Targets(m)) \ left)
    <3> DEFINE F == [r \in Resources |->
                       IF r \in Targets(m)
                       THEN IF before[ns][r] = NoRes THEN m
                            ELSE KC!Patched(o, m, before[ns][r])
                       ELSE IF r \in (Targets(o) \ Targets(m)) \ left THEN NoRes
                            ELSE before[ns][r]]
    <3>1. \A r \in Targets(m) : live[ns][r] = F[r]
      BY <1>1 DEF DeleteInv, After, KC!Patched, Patched
    <3>2. \A r \in Resources \ Targets(m) : live[ns][r] = F[r]
      <4> SUFFICES ASSUME NEW r \in Resources \ Targets(m) PROVE live[ns][r] = F[r]
        OBVIOUS
      <4>1. CASE r \in Targets(o) /\ live[ns][r] = NoRes
        BY <4>1
      <4>2. CASE r \in Targets(o) /\ live[ns][r] # NoRes
        BY <1>4, <4>2 DEF DeleteInv, Orig
      <4>3. CASE r \notin Targets(o)
        BY <1>4, <4>3 DEF DeleteInv, Orig
      <4> QED
        BY <4>1, <4>2, <4>3
    <3>3. \A r \in Resources : live[ns][r] = F[r]
      BY <3>1, <3>2
    <3>4. live[ns] = [r \in Resources |-> live[ns][r]]
      BY <1>1 DEF DeleteInv
    <3>5. F = [r \in Resources |-> F[r]]
      OBVIOUS
    <3>6. live[ns] = F
      <4> HIDE DEF F
      <4> QED
        BY <3>3, <3>4, <3>5
    <3>7. live = [before EXCEPT ![ns] = F]
      <4>1. live \in Clusters /\ before \in Clusters
            /\ \A x \in Namespaces : x # ns => live[x] = before[x]
        BY DEF DeleteInv
      <4> HIDE DEF F
      <4> QED
        BY <1>1, <3>6, <4>1
    <3> QED
      BY <1>1, <3>7 DEF KC!Applied
  <2>4. left \in SUBSET (Targets(o) \ Targets(m)) /\ (~fault => left = {})
    <3>1. Targets(o) \subseteq Resources
      BY <1>1, <1>4, CallParts
    <3>2. \A r \in Targets(o) \ Targets(m) : ~fault => live[ns][r] = NoRes
      BY <1>4, <3>1 DEF DeleteInv, Orig
    <3> QED
      BY <3>2
  <2>5. KC!UpdateSucceeds(ns, o, m, left)
    BY <1>1, <2>2, <2>3 DEF KC!UpdateSucceeds
  <2>6. KC!CallUpdate(ns, o, m)
    <3>1. CASE ok /\ ~fault
      BY <1>1, <2>1, <2>4, <2>5, <3>1 DEF KC!CallUpdate, KC!Answered
    <3>2. CASE ok /\ fault
      BY <1>1, <2>1, <2>4, <2>5, <3>2 DEF KC!CallUpdate, KC!Answered
    <3>3. CASE ~ok
      BY <1>1, <2>1, <2>4, <2>5, <3>3 DEF KC!CallUpdate, KC!UpdateTimesOut, KC!Answered
    <3> QED
      BY <3>1, <3>2, <3>3
  <2> QED
    BY <1>1, <2>1, <2>6 DEF KC!Next
<1> QED
  BY <1>2, <1>3, <1>4

(* A call that returns leaves nothing behind.                                *)
LEMMA ReturnKeeps ==
  ASSUME RestInv, live' \in Clusters, NEW ok, NEW f, Return(ok, f)
  PROVE  StepsInv'
BY DEF Return, StepsInv, RestInv, VisitInv, DeleteInv, Clusters

(* A request that failed ends the call where its visits had come to.         *)
LEMMA ReturnFails ==
  ASSUME RestInv, call \in KC!Calls, Partial(live'), NEW f \in BOOLEAN,
         Return(FALSE, f),
         f \/ (call.orig = NoRes /\ ~KC!CanCreate(call.ns, call.target))
           \/ (call.orig # NoRes /\ ~KC!CanUpdate(call.ns, call.orig, call.target))
  PROVE  StepsInv' /\ KC!Next
<1>1. StepsInv'
  BY ReturnKeeps DEF Partial
<1>2. KC!Next
  BY PartialFails DEF Return
<1> QED
  BY <1>1, <1>2

(* A visit brings one resource to where the call wants it, or leaves it.      *)
LEMMA PlaceIsPartial ==
  ASSUME RestInv, call \in KC!Calls, VisitInv, phase = "visit", NEW r \in rest,
         Reached(r), NEW x \in {live[call.ns][r], After(r)}, After(r) \in Manifests,
         Place(r, x)
  PROVE  /\ live' \in Clusters
         /\ live'[call.ns][r] = x
         /\ \A q \in Resources : q # r => live'[call.ns][q] = live[call.ns][q]
         /\ \A ns \in Namespaces : ns # call.ns => live'[ns] = live[ns]
         /\ Partial(live')
<1> USE DEF RestInv, Clusters
<1>1. call.ns \in Namespaces /\ Targets(call.target) \subseteq Resources
  BY CallParts
<1>2. live \in Clusters /\ rest \subseteq Targets(call.target) /\ r \in Resources
  BY <1>1 DEF VisitInv, Partial
<1>3. /\ live' \in Clusters
      /\ live'[call.ns][r] = x
      /\ \A q \in Resources : q # r => live'[call.ns][q] = live[call.ns][q]
      /\ \A ns \in Namespaces : ns # call.ns => live'[ns] = live[ns]
  BY <1>1, <1>2 DEF Place
<1>4. Partial(live')
  BY <1>1, <1>2, <1>3 DEF VisitInv, Partial
<1> QED
  BY <1>3, <1>4

(* A visit that is over without ending the call keeps the invariant.         *)
LEMMA VisitKeeps ==
  ASSUME StepsInv, phase = "visit", NEW r \in rest, Reached(r),
         After(r) \in Manifests, NEW x \in {live[call.ns][r], After(r)},
         Place(r, x), rest' = rest \ {r}, UNCHANGED <<call, phase, before>>,
         \/ x = After(r) /\ UNCHANGED <<errs, fault>>
         \/ errs' = TRUE /\ fault' = TRUE /\ call.orig # NoRes
  PROVE  StepsInv'
<1> USE DEF StepsInv, RestInv
<1>1. /\ Targets(call.target) \subseteq Resources
      /\ rest \subseteq Targets(call.target)
  BY CallParts DEF VisitInv
<1>2. /\ live'[call.ns][r] = x
      /\ \A q \in Resources : q # r => live'[call.ns][q] = live[call.ns][q]
      /\ Partial(live')
  BY PlaceIsPartial
<1>3. /\ Partial(live)' /\ Orig' = Orig
      /\ \A q : Reached(q)' <=> Reached(q)
      /\ \A q : After(q)' = After(q)
  BY <1>2 DEF Partial, Reached, After, Orig
<1>4. VisitInv'
  BY <1>1, <1>2, <1>3 DEF VisitInv
<1>5. call' \in KC!Calls /\ phase' = "visit" /\ before' \in Clusters
  OBVIOUS
<1>6. /\ errs' \in BOOLEAN /\ fault' \in BOOLEAN /\ errs' => fault'
      /\ call'.orig = NoRes => ~fault'
  OBVIOUS
<1> QED
  BY <1>4, <1>5, <1>6 DEF DeleteInv

(* A deletion keeps the invariant, whether or not it succeeds.               *)
LEMMA DeleteKeeps ==
  ASSUME StepsInv, NEW r \in Resources, DeleteResource(r)
  PROVE  StepsInv'
<1> USE DEF StepsInv, RestInv
<1>1. /\ phase = "delete" /\ r \in rest /\ rest' = rest \ {r}
      /\ UNCHANGED <<answer, call, phase, errs, before, calls>>
      /\ \/ Place(r, NoRes) /\ UNCHANGED fault
         \/ (Place(r, NoRes) \/ UNCHANGED live) /\ fault' = TRUE
  BY DEF DeleteResource, Visited
<1>2. /\ call.ns \in Namespaces /\ r \in Orig \ Targets(call.target)
      /\ live \in Clusters /\ call.orig # NoRes
  BY <1>1, CallParts DEF DeleteInv, Orig
<1>3. /\ live' \in Clusters
      /\ live'[call.ns][r] \in {live[call.ns][r], NoRes}
      /\ live'[call.ns][r] = NoRes \/ fault' = TRUE
      /\ \A q \in Resources : q # r => live'[call.ns][q] = live[call.ns][q]
      /\ \A ns \in Namespaces : ns # call.ns => live'[ns] = live[ns]
  BY <1>1, <1>2 DEF Place, Clusters
<1>4. /\ Orig' = Orig /\ EmptyCreate' = EmptyCreate
      /\ \A q : Reached(q)' <=> Reached(q)
      /\ \A q : After(q)' = After(q)
  BY <1>1 DEF Reached, After, Orig, EmptyCreate
<1>5. Targets(call.target) \subseteq Resources
  BY <1>1, CallParts
<1>6. fault => fault'
  BY <1>1
<1>7. DeleteInv'
  <2>1. \A t \in Targets(call.target) : Reached(t)' /\ live'[call.ns][t] = After(t)'
    BY <1>1, <1>2, <1>3, <1>4, <1>5 DEF DeleteInv
  <2>2. ASSUME NEW q \in Resources \ Targets(call.target)
        PROVE  /\ q \notin Orig \ rest' => live'[call.ns][q] = before[call.ns][q]
               /\ live'[call.ns][q] \in {before[call.ns][q], NoRes}
               /\ q \in Orig \ rest' /\ ~fault' => live'[call.ns][q] = NoRes
    <3>1. CASE q = r
      BY <1>1, <1>2, <1>3, <3>1 DEF DeleteInv
    <3>2. CASE q # r
      BY <1>1, <1>3, <1>6, <3>2 DEF DeleteInv
    <3> QED
      BY <3>1, <3>2
  <2>3. \A ns \in Namespaces : ns # call.ns => live'[ns] = before[ns]
    BY <1>1, <1>3 DEF DeleteInv
  <2> QED
    BY <1>1, <1>3, <1>4, <2>1, <2>2, <2>3 DEF DeleteInv
<1>8. phase' = "delete"
  BY <1>1
<1>9. /\ call' \in KC!Calls /\ before' \in Clusters
      /\ errs' \in BOOLEAN /\ fault' \in BOOLEAN /\ errs' => fault'
      /\ call'.orig = NoRes => ~fault'
  BY <1>1, <1>2
<1>10. RestInv'
  <2>1. UNCHANGED <<call, phase, before, errs>> /\ fault' \in {fault, TRUE}
    BY <1>1
  <2> QED
    BY <1>2, <1>8, <2>1
<1>11. VisitInv'
  BY <1>8 DEF VisitInv
<1> QED
  BY <1>7, <1>10, <1>11

(* Every step of the client keeps the invariant, and is a step of an atomic   *)
(* call or invisible.                                                       *)
LEMMA StepsRefine ==
  ASSUME StepsInv, [Next]_vars
  PROVE  StepsInv' /\ [KC!Next]_<<before, answer>>
<1> USE DEF StepsInv, RestInv
<1>1. ASSUME NEW c \in KC!Calls, Begin(c)
      PROVE  StepsInv' /\ UNCHANGED <<before, answer>>
  <2>1. Partial(live)'
    BY <1>1 DEF Begin, Partial
  <2>2. VisitInv'
    BY <1>1, <2>1 DEF Begin, VisitInv
  <2> QED
    BY <1>1, <2>2 DEF Begin, DeleteInv
<1>2. ASSUME RequestFails PROVE StepsInv' /\ KC!Next
  BY <1>2, ReturnFails DEF RequestFails, VisitInv, Partial
<1>3. ASSUME NEW r \in Resources, CreateResource(r)
      PROVE  StepsInv' /\ [KC!Next]_<<before, answer>>
  <2>1. phase = "visit" /\ r \in rest /\ ~InCluster(r) /\ Place(r, call.target)
    BY <1>3 DEF CreateResource
  <2>2. Reached(r) /\ After(r) = call.target /\ After(r) \in Manifests
    BY <2>1, CallParts DEF InCluster, VisitInv, Reached, After
  <2>3. CASE Visited(r)
    <3>1. StepsInv'
      BY <2>1, <2>2, <2>3, VisitKeeps DEF Visited
    <3> QED
      BY <2>3, <3>1 DEF Visited
  <2>4. CASE Return(FALSE, TRUE)
    <3>1. Partial(live')
      BY <2>1, <2>2, PlaceIsPartial
    <3> QED
      BY <2>1, <2>4, <3>1, ReturnFails
  <2> QED
    BY <1>3, <2>3, <2>4 DEF CreateResource
<1>4. ASSUME NEW r \in Resources, Refused(r)
      PROVE  StepsInv' /\ KC!Next
  <2>1. /\ phase = "visit" /\ r \in rest /\ InCluster(r) /\ r \notin Orig
        /\ live' = live /\ Return(FALSE, fault)
    BY <1>4 DEF Refused
  <2>2. r \in Targets(call.target) /\ before[call.ns][r] # NoRes
    BY <2>1 DEF VisitInv, InCluster
  <2>3. Partial(live')
    BY <2>1 DEF VisitInv, Partial
  <2>4. /\ call.orig = NoRes => ~KC!CanCreate(call.ns, call.target)
        /\ call.orig # NoRes => ~KC!CanUpdate(call.ns, call.orig, call.target)
    BY <2>1, <2>2 DEF KC!CanCreate, KC!Absent, KC!CanUpdate, KC!Reachable,
       KC!Targets, Targets, Orig
  <2> QED
    BY <2>1, <2>3, <2>4, ReturnFails
<1>5. ASSUME NEW r \in Resources, UpdateResource(r)
      PROVE  StepsInv' /\ UNCHANGED <<before, answer>>
  <2>1. phase = "visit" /\ r \in rest /\ InCluster(r) /\ r \in Orig
    BY <1>5 DEF UpdateResource
  <2>2. /\ Reached(r)
        /\ live[call.ns][r] = before[call.ns][r]
        /\ call.orig # NoRes
        /\ call.ns \in Namespaces
        /\ r \in Targets(call.target)
    BY <2>1, CallParts DEF Reached, VisitInv, Orig
  <2>3. After(r) = Patched(call.orig, call.target, live[call.ns][r])
    BY <2>1, <2>2 DEF After, InCluster
  <2>4. After(r) \in Manifests
    <3>1. live[call.ns][r] \in Manifests
      BY <2>1, <2>2 DEF InCluster, Clusters
    <3> QED
      BY <2>1, <2>2, <2>3, <3>1, CallParts, PatchedIsManifest
  <2>5. UNCHANGED live => Place(r, live[call.ns][r])
    <3>1. live \in Clusters
      BY <2>1 DEF VisitInv, Partial
    <3> QED
      BY <2>2, <3>1 DEF Place, Clusters
  <2>6. CASE PatchResource(r) /\ Visited(r)
    BY <2>1, <2>2, <2>3, <2>4, <2>6, VisitKeeps DEF PatchResource, Visited
  <2>7. CASE ~(PatchResource(r) /\ Visited(r))
    <3>1. /\ PatchResource(r) \/ UNCHANGED live
          /\ rest' = rest \ {r} /\ errs' = TRUE /\ fault' = TRUE
          /\ UNCHANGED <<answer, call, phase, before, calls>>
      BY <1>5, <2>7 DEF UpdateResource
    <3>2. PICK x \in {live[call.ns][r], After(r)} : Place(r, x)
      BY <2>3, <2>5, <3>1 DEF PatchResource
    <3> QED
      BY <2>1, <2>2, <2>4, <3>1, <3>2, VisitKeeps
  <2> QED
    BY <2>6, <2>7
<1>6. ASSUME EndOfVisits PROVE StepsInv' /\ [KC!Next]_<<before, answer>>
  <2>1. phase = "visit" /\ rest = {} /\ live' = live /\ Partial(live)
    BY <1>6 DEF EndOfVisits, VisitInv
  <2>2. CASE errs \/ EmptyCreate
    <3>1. Return(FALSE, fault)
      BY <1>6, <2>2 DEF EndOfVisits
    <3>2. Partial(live')
      BY <2>1 DEF Partial
    <3>3. EmptyCreate => call.orig = NoRes /\ ~KC!CanCreate(call.ns, call.target)
      BY DEF EmptyCreate, KC!CanCreate, KC!Targets, Targets
    <3> QED
      BY <2>1, <2>2, <3>1, <3>2, <3>3, ReturnFails
  <2>3. CASE ~(errs \/ EmptyCreate)
    <3>1. Deletes
      BY <1>6, <2>3 DEF EndOfVisits
    <3>2. /\ Orig' = Orig /\ EmptyCreate' = EmptyCreate
          /\ \A q : Reached(q)' <=> Reached(q)
          /\ \A q : After(q)' = After(q)
      BY <3>1 DEF Deletes, Reached, After, Orig, EmptyCreate
    <3>3. DeleteInv'
      BY <2>1, <2>3, <3>1, <3>2 DEF Deletes, VisitInv, DeleteInv, Partial
    <3> QED
      BY <2>1, <3>1, <3>3 DEF Deletes, VisitInv
  <2> QED
    BY <2>2, <2>3
<1>7. ASSUME NEW r \in Resources, DeleteResource(r)
      PROVE  StepsInv' /\ UNCHANGED <<before, answer>>
  BY <1>7, DeleteKeeps DEF DeleteResource, Visited
<1>8. ASSUME EndOfCall PROVE StepsInv' /\ KC!Next
  <2>1. phase = "delete" /\ rest = {} /\ live' = live /\ live \in Clusters
    BY <1>8 DEF EndOfCall, DeleteInv
  <2>2. PICK ok \in BOOLEAN, f \in BOOLEAN :
          ((ok /\ f = fault) \/ (~ok /\ f)) /\ Return(ok, f)
    BY <1>8 DEF EndOfCall
  <2>3. StepsInv'
    BY <2>1, <2>2, ReturnKeeps
  <2>4. KC!Next
    BY <2>1, <2>2, FinishSucceeds DEF Return
  <2> QED
    BY <2>3, <2>4
<1>9. ASSUME UNCHANGED vars PROVE StepsInv' /\ UNCHANGED <<before, answer>>
  BY <1>9 DEF vars, VisitInv, DeleteInv, Partial, Reached, After, Orig, EmptyCreate
<1> QED
  BY <1>1, <1>2, <1>3, <1>4, <1>5, <1>6, <1>7, <1>8, <1>9 DEF Next, Visit

(* Client.Create and Client.Update, with a failure or a lost answer at any    *)
(* request, have no outcome but those of the one-step calls that             *)
(* ReleaseServer makes of them: it may take a call for one step.             *)
THEOREM StepsImplementCalls == Spec => ImplementsKubeCalls
<1>1. Init => StepsInv /\ KC!Init
  <2> SUFFICES ASSUME Init PROVE StepsInv /\ KC!Init
    OBVIOUS
  <2>1. live \in Clusters
    BY DEF Init, LiveInit, Clusters
  <2>2. StepsInv
    BY <2>1 DEF Init, StepsInv, RestInv, VisitInv, DeleteInv
  <2>3. KC!Init
    BY DEF Init, LiveInit, KC!Init, KC!LiveInit
  <2> QED
    BY <2>2, <2>3
<1>2. StepsInv /\ [Next]_vars => StepsInv' /\ [KC!Next]_<<before, answer>>
  BY StepsRefine
<1> QED
  BY <1>1, <1>2, PTL DEF Spec, ImplementsKubeCalls, KC!Spec
=============================================================================
