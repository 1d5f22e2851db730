----------------------------- MODULE KubeCalls -----------------------------
(***************************************************************************)
(* What ReleaseServer takes the client for: a call of Create or Update is   *)
(* one step, and a fault, if there was one, decides which outcomes there    *)
(* are.  Without a fault a call succeeds if it can.                         *)
(***************************************************************************)
EXTENDS KubeClient

VARIABLE answer  \* the last call: what it asked for and how it ended

(* A create has no original manifest.                                       *)
Create(ns, m) == [ns |-> ns, orig |-> NoRes, target |-> m]

Update(ns, orig, m) == [ns |-> ns, orig |-> orig, target |-> m]

Calls ==
  {Create(ns, m) : ns \in Namespaces, m \in Manifests} \cup
  {Update(ns, orig, m) : ns \in Namespaces, orig \in Manifests, m \in Manifests}

NoAnswer == [call |-> NoRes, ok |-> FALSE, fault |-> FALSE]

Answered(c, ok, fault) == answer' = [call |-> c, ok |-> ok, fault |-> fault]

CallCreate(ns, m) ==
  LET c == Create(ns, m)
  IN  \/ Answered(c, TRUE, FALSE) /\ CreateSucceeds(ns, m)
      \/ Answered(c, FALSE, TRUE) /\ CreateFails(ns, m)
      \/ Answered(c, FALSE, FALSE) /\ ~CanCreate(ns, m) /\ CreateFails(ns, m)

CallUpdate(ns, orig, m) ==
  LET c == Update(ns, orig, m)
  IN  \/ Answered(c, TRUE, FALSE) /\ UpdateSucceeds(ns, orig, m, {})
      \/ /\ Answered(c, TRUE, TRUE)
         /\ \E left \in SUBSET (Targets(orig) \ Targets(m)) :
              UpdateSucceeds(ns, orig, m, left)
      \/ Answered(c, FALSE, TRUE) /\ UpdateFails(ns, orig, m)
      \/ Answered(c, FALSE, FALSE) /\ ~CanUpdate(ns, orig, m) /\ UpdateFails(ns, orig, m)
      \/ Answered(c, FALSE, TRUE) /\ UpdateTimesOut(ns, orig, m)

Init == LiveInit /\ answer = NoAnswer

Next ==
  \E ns \in Namespaces, m \in Manifests :
    CallCreate(ns, m) \/ \E orig \in Manifests : CallUpdate(ns, orig, m)

Spec == Init /\ [][Next]_<<live, answer>>
=============================================================================
