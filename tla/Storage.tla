------------------------------ MODULE Storage ------------------------------
(***************************************************************************)
(* The revision history of every release: ReleaseVersion objects named     *)
(* "<name>-v<revision>", one namespace per storage.Storage value, reached  *)
(* through the release_version driver.                                     *)
(***************************************************************************)
EXTENDS Release, Functions

VARIABLE hist  \* <<namespace, name>> -> revision -> record

HistTypeOK == hist \in [Keys -> [1..MaxRev -> Records \cup {NoRec}]]

HistInit == hist = [k \in Keys |-> [r \in 1..MaxRev |-> NoRec]]

(* Storage.History: the revisions that exist.                               *)
History(k) == {r \in 1..MaxRev : hist[k][r] # NoRec}

(* The list Query returns: the API server lists records in the order of     *)
(* their names, where "a-v10" comes before "a-v2", so any order is possible. *)
Listings(k) == Bijection(1..Cardinality(History(k)), History(k))

(* releaseutil: SortByRevision, and SortByRevisionVersion, which is the same.*)
SortedByRevision(q) == \A i, j \in DOMAIN q : i < j => ~(q[j] < q[i])

Reversed(q) == [i \in DOMAIN q |-> q[Len(q) + 1 - i]]

(* Storage.Last takes the first record of the reversed list, UninstallRelease*)
(* the last of the sorted list: both the highest revision.                   *)
IsLast(k, r) ==
  /\ r \in History(k)
  /\ \A q \in History(k) : q <= r

(* Mutant: a Create that overwrites.                                        *)
StoreUpsert(k, r, rec) == hist' = [hist EXCEPT ![k][r] = rec]

(* Storage.Create: the driver returns ErrReleaseExists when the key is      *)
(* taken.                                                                   *)
StoreCreate(k, r, rec) ==
  hist' = IF r \in History(k) THEN hist ELSE [hist EXCEPT ![k][r] = rec]

(* Storage.Update: the API server answers NotFound for a missing key, and   *)
(* accepts the write without a resource version otherwise.                  *)
StoreUpdate(k, r, rec) ==
  hist' = IF r \in History(k) THEN [hist EXCEPT ![k][r] = rec] ELSE hist

StoreDelete(k, r) == hist' = [hist EXCEPT ![k][r] = NoRec]
=============================================================================
