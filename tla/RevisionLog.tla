----------------------------- MODULE RevisionLog -----------------------------
(***************************************************************************)
(* What the records of a release are to whoever reads them: a log of        *)
(* numbered revisions.  It grows at its end, only its newest revision       *)
(* changes, and of that only the status; a purge takes revisions from its   *)
(* beginning.  Nothing is said of handlers, goroutines, the cluster or      *)
(* failures.                                                               *)
(***************************************************************************)
EXTENDS Naturals

CONSTANTS
  Releases,    \* whose logs these are
  LogSpecs,    \* what a revision keeps of a release
  Purges(_)    \* the specs that ask for a purge

VARIABLE log   \* release -> revision -> its spec and its status code

Born == {"DEPLOYED", "FAILED"}

Retired == {"SUPERSEDED", "DELETING", "DELETED"}

Entries == [spec : LogSpecs, code : Born \cup Retired]

Newest(x, r) == r \in DOMAIN log[x] /\ \A q \in DOMAIN log[x] : q <= r

Becomes(x, f) == log' = [log EXCEPT ![x] = f]

(* A new revision is any entry that is not yet out of use.                   *)
Added(x, r) ==
  /\ r \in DOMAIN log'[x]
  /\ log'[x][r] \in Entries
  /\ log'[x][r].code \in Born
  /\ Becomes(x, [q \in DOMAIN log[x] \cup {r} |->
                   IF q = r THEN log'[x][r] ELSE log[x][q]])

Init == log = [x \in Releases |-> [r \in {} |-> {}]]

(* The first revision; after a purge that did not come to its end, later     *)
(* ones may be left.                                                         *)
Begin(x) == 1 \notin DOMAIN log[x] /\ Added(x, 1)

(* The revision after the newest.                                            *)
Extend(x) == \E r \in DOMAIN log[x] : Newest(x, r) /\ Added(x, r + 1)

(* The newest revision goes out of use.                                      *)
Retire(x) ==
  \E r \in DOMAIN log[x], c \in Retired :
    Newest(x, r) /\ Becomes(x, [log[x] EXCEPT ![r].code = c])

(* The oldest revision is removed, when the newest asks for it.              *)
Purge(x) ==
  \E r, n \in DOMAIN log[x] :
    /\ Newest(x, n) /\ Purges(log[x][n].spec)
    /\ \A q \in DOMAIN log[x] : r <= q
    /\ Becomes(x, [q \in DOMAIN log[x] \ {r} |-> log[x][q]])

Next == \E x \in Releases : Begin(x) \/ Extend(x) \/ Retire(x) \/ Purge(x)

Spec == Init /\ [][Next]_log
=============================================================================
