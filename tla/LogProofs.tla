----------------------------- MODULE LogProofs -----------------------------
(***************************************************************************)
(* Theorems about the revision history as a whole.                          *)
(*                                                                         *)
(* The records implement the log of RevisionLog.  The argument: only the    *)
(* worker writes records, so the record a handler read as the last one is   *)
(* the last one still when the handler writes it back, adds to it or        *)
(* purges, however many calls, failures and other actors come between.      *)
(*                                                                         *)
(* Every revision is owed to a user.  The argument is a balance: the        *)
(* revisions there are, the deltas under way that a handler will take for   *)
(* new, the revision a handler may still add and the rollback events yet to *)
(* be written are never more than users have asked for.                     *)
(***************************************************************************)
EXTENDS HistoryProofs

(* The record a handler holds is the newest one of its release; the release  *)
(* an update records may be there already.                                   *)
HoldsNewest ==
  /\ pc \in UpgradeLabels \cup UninstallLabels => IsLast(StoreKey, cur.rev)
  /\ pc = "record" /\ cur # NoCur =>
       IsLast(StoreKey, cur.rev) \/ IsLast(StoreKey, NextRev)

(* A purge goes on for as long as the record that asked for it is there.     *)
PurgeIsAsked == pc = "purge" => Asks(hist[StoreKey][cur.rev].spec)

LogInv == RecordInv /\ HoldsNewest /\ PurgeIsAsked

LogStep == [RL!Next]_HistoryLog

-----------------------------------------------------------------------------
(* The log that a store with one record written or removed stands for. *)

LEMMA LogUnchanged ==
  ASSUME UNCHANGED hist
  PROVE  /\ LogStep
         /\ \A k \in Keys : \A r : IsLast(k, r)' <=> IsLast(k, r)
<1>1. \A k \in Keys : History(k)' = History(k)
  BY DEF History
<1>2. HistoryLog' = HistoryLog
  BY DEF HistoryLog, History
<1>3. \A k \in Keys : \A r : IsLast(k, r)' <=> IsLast(k, r)
  BY <1>1 DEF IsLast
<1> QED
  BY <1>2, <1>3 DEF LogStep

(* The log of a release whose records are row, and what changes of the logs  *)
(* when the records of one release do.                                       *)
LogOf(row) == [r \in {q \in 1..MaxRev : row[q] # NoRec} |-> row[r]]

LEMMA LogIsRows ==
  /\ HistoryLog = [k \in Keys |-> LogOf(hist[k])]
  /\ HistoryLog' = [k \in Keys |-> LogOf(hist'[k])]
BY DEF HistoryLog, History, LogOf

LEMMA LogChanges ==
  ASSUME NEW k \in Keys, \A q \in Keys : q # k => hist'[q] = hist[q]
  PROVE  HistoryLog' = [HistoryLog EXCEPT ![k] = LogOf(hist'[k])]
BY LogIsRows

LEMMA LogWritten ==
  ASSUME TypeInv, NEW k \in Keys, NEW r \in 1..MaxRev, NEW rec \in Records,
         hist' = [hist EXCEPT ![k][r] = rec]
  PROVE  HistoryLog' = [HistoryLog EXCEPT ![k] =
           [q \in History(k) \cup {r} |-> IF q = r THEN rec ELSE hist[k][q]]]
<1>1. \A q \in Keys : q # k => hist'[q] = hist[q]
  BY DEF TypeInv, TypeOK, HistTypeOK
<1>2. \A p \in 1..MaxRev : hist'[k][p] = IF p = r THEN rec ELSE hist[k][p]
  BY DEF TypeInv, TypeOK, HistTypeOK
<1>3. {q \in 1..MaxRev : hist'[k][q] # NoRec} = History(k) \cup {r}
  BY <1>2, AbsenceAssumption DEF History
<1>4. LogOf(hist'[k]) =
        [q \in History(k) \cup {r} |-> IF q = r THEN rec ELSE hist[k][q]]
  BY <1>2, <1>3 DEF LogOf, History
<1> QED
  BY <1>1, <1>4, LogChanges

LEMMA LogRemoved ==
  ASSUME TypeInv, NEW k \in Keys, NEW r \in 1..MaxRev,
         hist' = [hist EXCEPT ![k][r] = NoRec]
  PROVE  /\ History(k)' = History(k) \ {r}
         /\ \A p \in 1..MaxRev : p # r => hist'[k][p] = hist[k][p]
         /\ HistoryLog' = [HistoryLog EXCEPT ![k] =
              [q \in History(k) \ {r} |-> hist[k][q]]]
<1>1. hist \in [Keys -> [1..MaxRev -> Records \cup {NoRec}]]
  BY DEF TypeInv, TypeOK, HistTypeOK
<1>2. /\ \A p \in 1..MaxRev : hist'[k][p] = IF p = r THEN NoRec ELSE hist[k][p]
      /\ \A q \in Keys : q # k => hist'[q] = hist[q]
  BY <1>1
<1>3. /\ History(k)' = History(k) \ {r}
      /\ {q \in 1..MaxRev : hist'[k][q] # NoRec} = History(k) \ {r}
  BY <1>2 DEF History
<1>4. LogOf(hist'[k]) = [q \in History(k) \ {r} |-> hist[k][q]]
  BY <1>2, <1>3 DEF LogOf, History
<1> QED
  BY <1>2, <1>3, <1>4, LogChanges

LEMMA LogIs ==
  ASSUME NEW k \in Keys
  PROVE  /\ k \in DOMAIN HistoryLog
         /\ HistoryLog[k] = [r \in History(k) |-> hist[k][r]]
         /\ DOMAIN HistoryLog[k] = History(k)
         /\ \A r \in History(k) : HistoryLog[k][r] = hist[k][r]
         /\ \A r : RL!Newest(k, r) <=> IsLast(k, r)
BY DEF HistoryLog, History, RL!Newest, IsLast

-----------------------------------------------------------------------------
(* The steps of the log. *)

(* A record after the newest one, or the first, is added.                    *)
LEMMA AddIsLogged ==
  ASSUME TypeInv, NEW k \in Keys, NEW r \in 1..MaxRev, NEW rec \in Records,
         rec.code \in {"DEPLOYED", "FAILED"}, r \notin History(k),
         r = 1 \/ \E n \in 1..MaxRev : IsLast(k, n) /\ r = n + 1,
         hist' = [hist EXCEPT ![k][r] = rec]
  PROVE  LogStep
<1>1. HistoryLog' = [HistoryLog EXCEPT ![k] =
        [q \in History(k) \cup {r} |-> IF q = r THEN rec ELSE hist[k][q]]]
  BY LogWritten
<1>2. HistoryLog'[k] =
        [q \in History(k) \cup {r} |-> IF q = r THEN rec ELSE hist[k][q]]
  BY <1>1, LogIs
<1>3. r \in DOMAIN HistoryLog'[k] /\ HistoryLog'[k][r] = rec
  BY <1>2
<1>4. rec \in RL!Entries /\ rec.code \in RL!Born
  BY DEF RL!Entries, RL!Born, RL!Retired, Records
<1>5. [q \in History(k) \cup {r} |-> IF q = r THEN rec ELSE hist[k][q]] =
        [q \in DOMAIN HistoryLog[k] \cup {r} |->
          IF q = r THEN HistoryLog'[k][r] ELSE HistoryLog[k][q]]
  BY <1>3, LogIs
<1>6. RL!Added(k, r)
  BY <1>1, <1>3, <1>4, <1>5 DEF RL!Added, RL!Becomes
<1>7. CASE r = 1
  BY <1>6, <1>7, LogIs DEF RL!Begin, RL!Next, LogStep
<1>8. ASSUME NEW n \in 1..MaxRev, IsLast(k, n), r = n + 1 PROVE LogStep
  <2>1. n \in DOMAIN HistoryLog[k] /\ RL!Newest(k, n)
    BY <1>8, LogIs DEF IsLast
  <2>2. RL!Extend(k)
    BY <1>6, <1>8, <2>1 DEF RL!Extend
  <2> QED
    BY <2>2 DEF RL!Next, LogStep
<1> QED
  BY <1>7, <1>8

(* The newest record is written back with another code.                      *)
LEMMA RetireIsLogged ==
  ASSUME TypeInv, NEW k \in Keys, NEW r \in 1..MaxRev, IsLast(k, r),
         NEW rec \in Records, rec.code \in {"SUPERSEDED", "DELETING", "DELETED"},
         rec.spec = hist[k][r].spec,
         hist' = [hist EXCEPT ![k][r] = rec]
  PROVE  LogStep /\ \A q : IsLast(k, q)' <=> IsLast(k, q)
<1>1. HistoryLog' = [HistoryLog EXCEPT ![k] =
        [q \in History(k) \cup {r} |-> IF q = r THEN rec ELSE hist[k][q]]]
  BY LogWritten
<1>2. hist[k][r] \in Records /\ r \in History(k)
  BY HistoryType DEF IsLast, TypeInv, TypeOK
<1>3. rec = [hist[k][r] EXCEPT !.code = rec.code]
  BY <1>2 DEF Records
<1>4. [q \in History(k) \cup {r} |-> IF q = r THEN rec ELSE hist[k][q]] =
        [HistoryLog[k] EXCEPT ![r].code = rec.code]
  <2>1. History(k) \cup {r} = History(k)
    BY <1>2
  <2>2. HistoryLog[k] = [q \in History(k) |-> hist[k][q]]
    BY LogIs
  <2>3. [q \in History(k) |-> IF q = r THEN rec ELSE hist[k][q]] =
          [[q \in History(k) |-> hist[k][q]] EXCEPT ![r] =
             [hist[k][r] EXCEPT !.code = rec.code]]
    BY <1>2, <1>3
  <2>4. [[q \in History(k) |-> hist[k][q]] EXCEPT ![r].code = rec.code] =
          [[q \in History(k) |-> hist[k][q]] EXCEPT ![r] =
             [hist[k][r] EXCEPT !.code = rec.code]]
    BY <1>2
  <2> QED
    BY <2>1, <2>2, <2>3, <2>4
<1>5. r \in DOMAIN HistoryLog[k] /\ RL!Newest(k, r) /\ rec.code \in RL!Retired
  BY <1>2, LogIs DEF RL!Retired
<1>6. RL!Retire(k)
  BY <1>1, <1>4, <1>5 DEF RL!Retire, RL!Becomes
<1>7. History(k)' = History(k)
  <2>1. History(k)' = History(k) \cup {r}
    BY WrittenHistory
  <2> QED
    BY <1>2, <2>1
<1> QED
  BY <1>6, <1>7 DEF RL!Next, LogStep, IsLast

(* The oldest record goes, when the newest asks for it.                      *)
LEMMA PurgeIsLogged ==
  ASSUME TypeInv, NEW k \in Keys, NEW n \in 1..MaxRev, IsLast(k, n),
         Asks(hist[k][n].spec), NEW r \in History(k),
         \A q \in History(k) : r <= q,
         hist' = [hist EXCEPT ![k][r] = NoRec]
  PROVE  LogStep
<1>1. r \in 1..MaxRev
  BY DEF History
<1>2. HistoryLog' = [HistoryLog EXCEPT ![k] = [q \in History(k) \ {r} |-> hist[k][q]]]
  BY <1>1, LogRemoved
<1>3. [q \in History(k) \ {r} |-> hist[k][q]] =
        [q \in DOMAIN HistoryLog[k] \ {r} |-> HistoryLog[k][q]]
  BY LogIs
<1>4. /\ r \in DOMAIN HistoryLog[k] /\ n \in DOMAIN HistoryLog[k]
      /\ RL!Newest(k, n) /\ Asks(HistoryLog[k][n].spec)
      /\ \A q \in DOMAIN HistoryLog[k] : r <= q
  BY LogIs DEF IsLast
<1>5. RL!Purge(k)
  BY <1>2, <1>3, <1>4 DEF RL!Purge, RL!Becomes
<1> QED
  BY <1>5 DEF RL!Next, LogStep

-----------------------------------------------------------------------------
(* Every step of the server is a step of the log, or none. *)

(* Whoever leaves the store alone leaves the newest records what they are.   *)
LEMMA KeepsNewest ==
  ASSUME HoldsNewest, PurgeIsAsked, UNCHANGED <<hist, env>>,
         pc' # "idle" => at' = at /\ cur' = cur,
         pc' \in UpgradeLabels \cup UninstallLabels =>
           pc \in UpgradeLabels \cup UninstallLabels,
         pc' = "record" => pc \in UpgradeLabels \cup {"record"} \/ cur = NoCur,
         pc' = "purge" => pc = "purge"
  PROVE  HoldsNewest' /\ PurgeIsAsked'
<1>1. \A k \in Keys : \A r : IsLast(k, r)' <=> IsLast(k, r)
  BY LogUnchanged
<1>2. pc' # "idle" => StoreKey' = StoreKey /\ cur' = cur /\ NextRev' = NextRev
  BY DEF StoreKey, NextRev
<1>3. \A k, r : IsLast(k, r)' <=> IsLast(k, r)
  BY DEF IsLast, History
<1>4. pc' # "idle" => /\ IsLast(StoreKey, cur.rev)' <=> IsLast(StoreKey, cur.rev)
                      /\ IsLast(StoreKey, NextRev)' <=> IsLast(StoreKey, NextRev)
  BY <1>2 DEF IsLast, History
<1>5. HoldsNewest'
  BY <1>2, <1>4 DEF HoldsNewest, UpgradeLabels, UninstallLabels
<1>6. PurgeIsAsked'
  BY <1>2 DEF PurgeIsAsked
<1> QED
  BY <1>5, <1>6

(* A handler begins with the record it has just read.                        *)
LEMMA DeliverLogs ==
  ASSUME TypeInv, LogInv, NEW k \in Keys,
         AddFunc(k) \/ UpdateFuncIgnores(k) \/ UpdateFunc(k) \/ DeleteFunc(k)
  PROVE  HoldsNewest' /\ PurgeIsAsked' /\ LogStep
<1>1. hist' = hist /\ LogStep
  BY DeliverBegins, LogUnchanged
<1>2. CASE pc' \in {"idle", "preInstall"}
  BY <1>1, <1>2 DEF HoldsNewest, PurgeIsAsked, UpgradeLabels, UninstallLabels
<1>3. ASSUME env' = env, at' = k, env \in Namespaces,
             NEW r \in 1..MaxRev, IsLast(<<env, k[2]>>, r),
             cur' = [rev |-> r, rec |-> hist[<<env, k[2]>>][r]],
             \/ pc' \in {"preUpgrade", "preDelete"}
             \/ pc' = "purge" /\ hist[<<env, k[2]>>][r].spec.purge
      PROVE  HoldsNewest' /\ PurgeIsAsked' /\ LogStep
  <2>1. StoreKey' = <<env, k[2]>> /\ cur'.rev = r
    BY <1>3 DEF StoreKey
  <2>2. IsLast(StoreKey, cur.rev)'
    BY <1>1, <1>3, <2>1 DEF IsLast, History
  <2>3. pc' = "purge" => Asks(hist[StoreKey][cur.rev].spec)'
    BY <1>1, <1>3, <2>1 DEF Asks
  <2> QED
    BY <1>1, <1>3, <2>2, <2>3 DEF HoldsNewest, PurgeIsAsked
<1> QED
  BY <1>2, <1>3, DeliverBegins

(* A record written back is the newest one.                                  *)
LEMMA RewriteLogs ==
  ASSUME TypeInv, LogInv, NEW c \in {"SUPERSEDED", "DELETING", "DELETED"},
         NEW label \in (UpgradeLabels \cup UninstallLabels) \ {"purge"},
         NEW next \in ({"idle"} \cup UpgradeLabels \cup UninstallLabels) \ {"purge"},
         Rewrites(c, label, next)
  PROVE  HoldsNewest' /\ PurgeIsAsked' /\ LogStep
<1>1. /\ pc = label /\ pc # "idle" /\ pc' \notin {"purge", "record"}
      /\ env' = env /\ (pc' # "idle" => at' = at /\ cur' = cur)
      /\ pc \in UpgradeLabels \cup UninstallLabels
  BY DEF Rewrites, UpgradeLabels, UninstallLabels
<1>2. CASE UNCHANGED hist
  BY <1>1, <1>2, KeepsNewest, LogUnchanged DEF LogInv
<1>3. CASE /\ cur.rev \in History(StoreKey)
           /\ hist' = [hist EXCEPT ![StoreKey][cur.rev] = [cur.rec EXCEPT !.code = c]]
  <2>1. IsLast(StoreKey, cur.rev) /\ hist[StoreKey][cur.rev].spec = cur.rec.spec
    BY <1>1, <1>3 DEF LogInv, HoldsNewest, RecordInv, HoldsStored
  <2> PICK s \in Keys : s = StoreKey
    BY <1>1, HeldType
  <2> PICK r \in 1..MaxRev : r = cur.rev
    BY <1>1, HeldType
  <2>2. PICK rec \in Records : /\ rec = [cur.rec EXCEPT !.code = c]
                               /\ rec.code = c /\ rec.spec = cur.rec.spec
    <3>1. cur.rec \in Records /\ c \in Codes
      BY <1>1, HeldType DEF Codes
    <3>2. [cur.rec EXCEPT !.code = c] \in Records
      BY <3>1 DEF Records
    <3>3. /\ [cur.rec EXCEPT !.code = c].code = c
          /\ [cur.rec EXCEPT !.code = c].spec = cur.rec.spec
      BY <3>1 DEF Records
    <3> QED
      BY <3>2, <3>3
  <2>3. LogStep /\ \A q : IsLast(s, q)' <=> IsLast(s, q)
    BY <1>3, <2>1, <2>2, RetireIsLogged
  <2>4. pc' # "idle" => StoreKey' = s /\ cur'.rev = r
    BY <1>1 DEF StoreKey
  <2>5. pc' # "idle" => IsLast(StoreKey, cur.rev)'
    BY <2>1, <2>3, <2>4 DEF IsLast
  <2> QED
    BY <1>1, <2>3, <2>5 DEF HoldsNewest, PurgeIsAsked, UpgradeLabels, UninstallLabels
<1> QED
  BY <1>2, <1>3 DEF Rewrites

(* A record added is the first one or follows the newest.                    *)
LEMMA AddLogs ==
  ASSUME TypeInv, LogInv, Adds
  PROVE  HoldsNewest' /\ PurgeIsAsked' /\ LogStep
<1>1. /\ pc \in {"record", "failRecord"} /\ pc # "idle" /\ env' = env
      /\ \/ pc' = "idle"
         \/ pc = "failRecord" /\ pc' = "record" /\ at' = at /\ cur' = cur
  BY DEF Adds
<1>2. PurgeIsAsked' /\ pc' \notin UpgradeLabels \cup UninstallLabels
  BY <1>1 DEF PurgeIsAsked, UpgradeLabels, UninstallLabels
<1>3. CASE UNCHANGED hist
  BY <1>1, <1>2, <1>3, KeepsNewest, LogUnchanged DEF LogInv, UpgradeLabels
<1>4. CASE /\ NextRev \notin History(StoreKey)
           /\ hist' = [hist EXCEPT ![StoreKey][NextRev] = NewRecord]
  <2>1. /\ StoreKey \in Keys /\ NextRev \in 1..MaxRev /\ NewRecord \in Records
        /\ cur.rev \in 0..MaxRev /\ NextRev = cur.rev + 1
    BY <1>1, HeldType DEF NextRev
  <2>2. NewRecord.code \in {"DEPLOYED", "FAILED"}
    BY <1>1 DEF LogInv, RecordInv, OutcomeDecided, DecidedLabels, NewRecord
  <2>3. NextRev = 1 \/ IsLast(StoreKey, cur.rev)
    BY <1>1, <1>4, <2>1 DEF LogInv, HoldsNewest, UpgradeLabels, NoCur, IsLast
  <2> PICK s \in Keys : s = StoreKey
    BY <2>1
  <2> PICK n \in 1..MaxRev : n = NextRev
    BY <2>1
  <2> PICK rec \in Records : rec = NewRecord
    BY <2>1
  <2>4. n = 1 \/ \E p \in 1..MaxRev : IsLast(s, p) /\ n = p + 1
    BY <2>1, <2>3 DEF IsLast, History
  <2>5. LogStep
    BY <1>4, <2>2, <2>4, AddIsLogged
  <2>6. ASSUME pc' = "record" PROVE HoldsNewest'
    <3>1. pc = "failRecord" /\ StoreKey' = s /\ NextRev' = n
      BY <1>1, <2>6 DEF StoreKey, NextRev
    <3>2. IsLast(s, cur.rev)
      BY <3>1 DEF LogInv, HoldsNewest, UpgradeLabels
    <3>3. History(s)' = History(s) \cup {n}
      BY <1>4, WrittenHistory
    <3>4. \A q \in History(s)' : q <= n
      BY <2>1, <3>2, <3>3 DEF IsLast, History
    <3>5. IsLast(StoreKey, NextRev)'
      BY <3>1, <3>3, <3>4 DEF IsLast
    <3> QED
      BY <1>2, <3>5 DEF HoldsNewest
  <2>7. pc' = "idle" => HoldsNewest'
    BY <1>2 DEF HoldsNewest
  <2> QED
    BY <1>1, <1>2, <2>5, <2>6, <2>7
<1> QED
  BY <1>3, <1>4 DEF Adds

(* A purge takes the oldest record, and the newest, which asks for it, last. *)
LEMMA PurgeLogs ==
  ASSUME TypeInv, LogInv, Purge
  PROVE  HoldsNewest' /\ PurgeIsAsked' /\ LogStep
<1>1. /\ pc = "purge" /\ pc # "idle" /\ env' = env
      /\ IsLast(StoreKey, cur.rev) /\ Asks(hist[StoreKey][cur.rev].spec)
  BY DEF Purge, LogInv, HoldsNewest, PurgeIsAsked, UninstallLabels
<1>2. CASE UNCHANGED hist /\ Done
  BY <1>2, LogUnchanged
     DEF Done, HoldsNewest, PurgeIsAsked, UpgradeLabels, UninstallLabels
<1>3. ASSUME NEW r \in History(StoreKey), \A q \in History(StoreKey) : r <= q,
             StoreDelete(StoreKey, r),
             IF History(StoreKey) = {r} THEN Done ELSE Goto("purge")
      PROVE  HoldsNewest' /\ PurgeIsAsked' /\ LogStep
  <2> PICK s \in Keys : s = StoreKey
    BY <1>1, HeldType
  <2> PICK n \in 1..MaxRev : n = cur.rev
    BY <1>1, HeldType DEF UninstallLabels
  <2>1. r \in 1..MaxRev /\ hist' = [hist EXCEPT ![s][r] = NoRec]
    BY <1>3 DEF StoreDelete, History
  <2>2. LogStep
    BY <1>1, <1>3, <2>1, PurgeIsLogged
  <2>3. CASE Done
    BY <2>2, <2>3 DEF Done, HoldsNewest, PurgeIsAsked, UpgradeLabels, UninstallLabels
  <2>4. CASE Goto("purge") /\ History(s) # {r}
    <3>1. StoreKey' = s /\ cur' = cur /\ pc' = "purge"
      BY <1>1, <2>4 DEF Goto, StoreKey
    <3>2. n # r
      <4>1. ASSUME n = r PROVE History(s) = {r}
        <5>1. \A q \in History(s) : q \in 1..MaxRev /\ q <= r /\ r <= q
          BY <1>1, <1>3, <4>1 DEF IsLast, History
        <5>2. \A q \in History(s) : q = r
          BY <2>1, <5>1
        <5> QED
          BY <5>2
      <4> QED
        BY <2>4, <4>1
    <3>3. History(s)' = History(s) \ {r} /\ hist'[s][n] = hist[s][n]
      <4> PICK p \in 1..MaxRev : p = r
        BY <2>1
      <4>1. /\ History(s)' = History(s) \ {p}
            /\ \A q \in 1..MaxRev : q # p => hist'[s][q] = hist[s][q]
        BY <2>1, LogRemoved
      <4> QED
        BY <3>2, <4>1
    <3>4. IsLast(StoreKey, cur.rev)'
      BY <1>1, <3>1, <3>2, <3>3 DEF IsLast
    <3>5. Asks(hist[StoreKey][cur.rev].spec)'
      BY <1>1, <3>1, <3>3 DEF Asks
    <3> QED
      BY <2>2, <3>1, <3>4, <3>5 DEF HoldsNewest, PurgeIsAsked
  <2> QED
    BY <1>3, <2>3, <2>4
<1> QED
  BY <1>2, <1>3 DEF Purge

LEMMA LogSteps ==
  ASSUME TypeInv, LogInv, [Next]_vars
  PROVE  LogInv' /\ LogStep
<1>1. RecordInv'
  BY RecordStep DEF LogInv
<1> SUFFICES HoldsNewest' /\ PurgeIsAsked' /\ LogStep
  BY <1>1 DEF LogInv
<1>2. CASE UNCHANGED <<hist, cache, env, worker>>
  BY <1>2, KeepsNewest, LogUnchanged DEF LogInv, worker
<1>3. CASE \E k \in Keys : AddFunc(k) \/ UpdateFuncIgnores(k) \/ UpdateFunc(k)
                           \/ DeleteFunc(k)
  BY <1>3, DeliverLogs
<1>4. CASE hist' = hist /\ pc' = "idle"
  BY <1>4, LogUnchanged
     DEF HoldsNewest, PurgeIsAsked, UpgradeLabels, UninstallLabels
<1>5. CASE Storeless
  <2>1. pc = "installStatus" => cur = NoCur
    BY DEF TypeInv, WorkerShape, InstallLabels
  <2> QED
    BY <1>5, <2>1, StorelessKeeps, KeepsNewest, LogUnchanged
       DEF LogInv, UpgradeLabels, UninstallLabels
<1>6. CASE \/ Rewrites("SUPERSEDED", "supersede", "upgradeStatus")
           \/ Rewrites("SUPERSEDED", "failSupersede", "failRecord")
           \/ Rewrites("DELETING", "markDeleting", "deleting")
           \/ Rewrites("DELETED", "markDeleted", "idle")
  BY <1>6, RewriteLogs DEF UpgradeLabels, UninstallLabels
<1>7. CASE Adds
  BY <1>7, AddLogs
<1>8. CASE Purge
  BY <1>8, PurgeLogs
<1> QED
  BY StepKinds, <1>2, <1>3, <1>4, <1>5, <1>6, <1>7, <1>8

LEMMA InitLog == Init => LogInv /\ RL!Init
<1> SUFFICES ASSUME Init PROVE LogInv /\ RL!Init
  OBVIOUS
<1>1. LogInv
  BY InitRecord
     DEF Init, LogInv, HoldsNewest, PurgeIsAsked, UpgradeLabels, UninstallLabels
<1>2. \A k \in Keys : LogOf(hist[k]) = [r \in {} |-> {}]
  BY DEF Init, HistInit, LogOf
<1>3. RL!Init
  BY <1>2, LogIsRows DEF RL!Init
<1> QED
  BY <1>1, <1>3

(* To whoever reads them, the records of every release are a log that grows  *)
(* at its end, whose newest entry alone changes its status, and that a purge *)
(* shortens from its beginning, as long as the newest revision that asked    *)
(* for it is there: in every instance, and whatever fails, crashes or        *)
(* interferes between a handler's read of the last record and its writes.    *)
THEOREM RecordsImplementLog == Spec => ImplementsRevisionLog
<1>1. TypeInv /\ LogInv /\ [Next]_vars => LogInv' /\ [RL!Next]_HistoryLog
  BY LogSteps DEF LogStep
<1> QED
  BY <1>1, InitLog, TypeInvariant, PTL DEF Spec, ImplementsRevisionLog, RL!Spec

-----------------------------------------------------------------------------
(* Every revision has a cause. *)

(* One process and one watch: a new one lists again what was handled before.  *)
OneLifetime == Limit["crash"] = 0 /\ Limit["gap"] = 0

(* The object that a delta comes after, in the queue or in the cache.        *)
Ahead(k, i) ==
  IF i = 1 THEN cache[k]
  ELSE IF pending[k][i - 1].kind = "set" THEN pending[k][i - 1].obj ELSE NoObj

(* A delta that the handlers may take for new: nothing is ahead of it, or an  *)
(* object with the same status.                                              *)
Causes(k, i) ==
  /\ pending[k][i].kind = "set"
  /\ Ahead(k, i) # NoObj => Ahead(k, i).status = pending[k][i].obj.status

(* The versions they bring.                                                  *)
Fresh ==
  {x \in Keys \X (0..lastRv) :
     \E i \in 1..Len(pending[x[1]]) :
       Causes(x[1], i) /\ pending[x[1]][i].obj.rv = x[2]}

(* A delta has been through the API server, and is newer than what precedes   *)
(* it.                                                                       *)
Delivered(k, i) ==
  /\ pending[k][i].kind # "gone"
  /\ pending[k][i].kind = "set" =>
       /\ pending[k][i].obj.rv <= lastRv
       /\ pending[k][i].obj.status.last # "clock"
       /\ cache[k] # NoObj => cache[k].rv < pending[k][i].obj.rv
       /\ \A j \in 1..(i - 1) :
            pending[k][j].kind = "set" => pending[k][j].obj.rv < pending[k][i].obj.rv

(* The queue leads from the cached object to the one in the API server.      *)
Chain(k) ==
  /\ api[k] # NoObj => api[k].rv <= lastRv /\ api[k].status.last # "clock"
  /\ cache[k] # NoObj => cache[k].rv <= lastRv
  /\ \A i \in 1..Len(pending[k]) : Delivered(k, i)
  /\ pending[k] # <<>> =>
       LET d == pending[k][Len(pending[k])]
       IN  IF d.kind = "set" THEN api[k] = d.obj ELSE api[k] = NoObj

Chains == watching = "open" /\ \A k \in Keys : Chain(k)

(* The object in hand carries the time of this process.                      *)
Stamped == pc \in ReleaseLabels => cache[at].status.last = "clock"

(* The handler in progress may still add a revision.                         *)
Adding == IF pc \in ReleaseLabels /\ NextRev \notin History(StoreKey) THEN 1 ELSE 0

TurningBack == IF rb.pc # "idle" THEN 1 ELSE 0

(* The revisions there are, and those still to come.                         *)
Owed == Cardinality(Revisions) + Cardinality(Fresh) + Adding + Cardinality(unread)
          + TurningBack

Asked == used["create"] + used["edit"] + used["rollback"]

CauseInv ==
  /\ Chains
  /\ Stamped
  /\ Owed <= Asked
  /\ used["crash"] = 0 /\ used["gap"] = 0

-----------------------------------------------------------------------------
(* Counting. *)

LEMMA CountKeeps ==
  ASSUME NEW S, IsFiniteSet(S), NEW T, T \subseteq S
  PROVE  /\ Cardinality(S) \in Nat /\ Cardinality(T) \in Nat
         /\ Cardinality(T) <= Cardinality(S)
BY FS_Subset, FS_CardinalityType

LEMMA CountAdds ==
  ASSUME NEW S, IsFiniteSet(S), NEW x, NEW T, T \subseteq S \cup {x}
  PROVE  /\ Cardinality(S) \in Nat /\ Cardinality(T) \in Nat
         /\ Cardinality(T) <= Cardinality(S) + 1
<1>1. IsFiniteSet(S \cup {x}) /\ Cardinality(S \cup {x}) <= Cardinality(S) + 1
      /\ Cardinality(S) \in Nat
  BY FS_AddElement, FS_CardinalityType
<1>2. Cardinality(T) \in Nat /\ Cardinality(T) <= Cardinality(S \cup {x})
      /\ Cardinality(S \cup {x}) \in Nat
  BY <1>1, CountKeeps
<1> QED
  BY <1>1, <1>2

LEMMA CountDrops ==
  ASSUME NEW S, IsFiniteSet(S), NEW x \in S, NEW T, T \subseteq S \ {x}
  PROVE  /\ Cardinality(S) \in Nat /\ Cardinality(T) \in Nat
         /\ Cardinality(T) + 1 <= Cardinality(S)
<1>1. IsFiniteSet(S \ {x}) /\ Cardinality(S \ {x}) = Cardinality(S) - 1
      /\ Cardinality(S) \in Nat
  BY FS_RemoveElement, FS_CardinalityType
<1>2. Cardinality(T) \in Nat /\ Cardinality(T) <= Cardinality(S \ {x})
  BY <1>1, CountKeeps
<1> QED
  BY <1>1, <1>2

(* All that is counted is finite.                                            *)
LEMMA Countable ==
  ASSUME IsFiniteSet(Namespaces), IsFiniteSet(Names), TypeInv
  PROVE  IsFiniteSet(Revisions) /\ IsFiniteSet(Fresh) /\ IsFiniteSet(unread)
<1>1. IsFiniteSet(Keys)
  BY FS_Product DEF Keys
<1>2. lastRv \in Nat /\ MaxRev \in Nat /\ Len(events) \in Nat /\ unread \subseteq 1..Len(events)
  BY ReleaseAssumption, NamingAssumption DEF TypeInv, TypeOK
<1>3. IsFiniteSet(1..MaxRev) /\ IsFiniteSet(0..lastRv) /\ IsFiniteSet(1..Len(events))
  BY <1>2, FS_Interval
<1>4. IsFiniteSet(Keys \X (1..MaxRev)) /\ IsFiniteSet(Keys \X (0..lastRv))
  BY <1>1, <1>3, FS_Product
<1>5. Revisions \subseteq Keys \X (1..MaxRev) /\ Fresh \subseteq Keys \X (0..lastRv)
  BY DEF Revisions, Fresh
<1> QED
  BY <1>2, <1>3, <1>4, <1>5, FS_Subset

-----------------------------------------------------------------------------
(* What a step does to one queue. *)

(* A release that a step leaves alone.                                       *)
LEMMA ChainKept ==
  ASSUME TypeInv, NEW k \in Keys, Chain(k), lastRv <= lastRv', lastRv' \in Nat,
         api'[k] = api[k], cache'[k] = cache[k], pending'[k] = pending[k]
  PROVE  /\ Chain(k)'
         /\ \A v \in Nat : <<k, v>> \in Fresh' => <<k, v>> \in Fresh
<1>1. pending[k] \in Seq(Deltas) /\ api[k] \in Objects \cup {NoObj}
      /\ cache[k] \in Objects \cup {NoObj} /\ lastRv \in Nat
  BY DEF TypeInv, TypeOK
<1>2. \A i \in 1..Len(pending[k]) : pending[k][i] \in Deltas
  BY <1>1
<1>3. \A i \in 1..Len(pending[k]) :
        pending[k][i].kind = "set" => pending[k][i].obj.rv \in Nat
  BY <1>2 DEF Deltas, Objects
<1>4. Chain(k)'
  BY <1>1, <1>3 DEF Chain, Delivered, Objects
<1>5. ASSUME NEW v \in Nat, <<k, v>> \in Fresh'
      PROVE  <<k, v>> \in Fresh
  <2>1. PICK i \in 1..Len(pending[k]) : Causes(k, i) /\ pending[k][i].obj.rv = v
    BY <1>5 DEF Fresh, Causes, Ahead
  <2>2. v \in 0..lastRv
    BY <1>1, <2>1 DEF Chain, Delivered, Causes
  <2> QED
    BY <2>1, <2>2 DEF Fresh
<1> QED
  BY <1>4, <1>5

(* A write that the API server accepts.                                      *)
LEMMA PutChains ==
  ASSUME TypeInv, Chains, NEW k \in Keys, NEW spec \in Specs, NEW status \in Statuses,
         status.last # "clock", Put(k, spec, status), UNCHANGED <<watching, cache>>
  PROVE  /\ Chains'
         /\ Fresh' \subseteq Fresh \cup {<<k, lastRv + 1>>}
         /\ pending[k] = <<>> /\ cache[k] # NoObj /\ cache[k].status # status =>
              Fresh' \subseteq Fresh
<1>1. /\ pending[k] \in Seq(Deltas) /\ lastRv \in Nat
      /\ api \in [Keys -> Objects \cup {NoObj}] /\ cache \in [Keys -> Objects \cup {NoObj}]
      /\ pending \in [Keys -> Seq(Deltas)]
  BY DEF TypeInv, TypeOK
<1>2. [rv |-> lastRv + 1, spec |-> spec, status |-> status] \in Objects
  BY <1>1 DEF Objects
<1> PICK o \in Objects : o = [rv |-> lastRv + 1, spec |-> spec, status |-> status]
  BY <1>2
<1> PICK P \in Seq(Deltas) : P = pending[k]
  BY <1>1
<1> PICK n \in Nat : n = Len(P)
  OBVIOUS
<1>3. /\ o # NoObj /\ o.rv = lastRv + 1 /\ o.status = status
      /\ lastRv' = lastRv + 1 /\ api'[k] = o
      /\ \A q \in Keys : q # k => api'[q] = api[q] /\ pending'[q] = pending[q]
  BY <1>1, AbsenceAssumption DEF Put, Notify
<1>4. pending'[k] = Append(P, Set(o))
  BY <1>1 DEF Put, Notify, Queued, Deletion, Set, Chains
<1>5. /\ Len(pending'[k]) = n + 1
      /\ pending'[k][n + 1].kind = "set" /\ pending'[k][n + 1].obj = o
      /\ \A i \in 1..n : pending'[k][i] = P[i]
  BY <1>1, <1>4 DEF Set
<1>6. \A i \in 1..n : P[i].kind = "set" => P[i].obj.rv \in Nat
  <2>1. \A i \in 1..n : P[i] \in Deltas
    BY <1>1
  <2> QED
    BY <2>1 DEF Deltas, Objects
<1>7. cache[k] # NoObj => cache[k].rv \in Nat
  BY <1>1 DEF Objects
<1>8. Chain(k)'
  <2>1. ASSUME NEW i \in 1..n
        PROVE  Delivered(k, i)'
    <3>1. Delivered(k, i)
      BY DEF Chains, Chain
    <3>2. pending'[k][i] = pending[k][i] /\ i \in Nat
          /\ \A j \in 1..(i - 1) : pending'[k][j] = pending[k][j]
      BY <1>5
    <3>3. P[i].kind = "set" => P[i].obj.rv <= lastRv + 1
      <4>1. P[i].kind = "set" => P[i].obj.rv <= lastRv /\ P[i].obj.rv \in Nat
        BY <1>6, <3>1 DEF Delivered
      <4> QED
        BY <1>1, <4>1
    <3> QED
      BY <1>3, <3>1, <3>2, <3>3 DEF Delivered
  <2>2. Delivered(k, n + 1)'
    <3>1. (n + 1) - 1 = n
      OBVIOUS
    <3>2. \A j \in 1..n : P[j].kind = "set" => P[j].obj.rv < lastRv + 1
      BY <1>1, <1>6 DEF Chains, Chain, Delivered
    <3>3. cache[k] # NoObj => cache[k].rv < lastRv + 1
      BY <1>1, <1>7 DEF Chains, Chain
    <3> QED
      BY <1>1, <1>3, <1>5, <3>1, <3>2, <3>3 DEF Delivered
  <2>3. \A i \in 1..(n + 1) : i \in 1..n \/ i = n + 1
    BY <1>1
  <2>4. \A i \in 1..Len(pending'[k]) : Delivered(k, i)'
    BY <1>5, <2>1, <2>2, <2>3
  <2> QED
    BY <1>1, <1>3, <1>5, <1>7, <2>4 DEF Chains, Chain
<1>9. ASSUME NEW q \in Keys, q # k
      PROVE  Chain(q)' /\ \A v \in Nat : <<q, v>> \in Fresh' => <<q, v>> \in Fresh
  BY <1>1, <1>3, <1>9, ChainKept DEF Chains
<1>10. ASSUME NEW v \in Nat, <<k, v>> \in Fresh'
       PROVE  <<k, v>> \in Fresh \/ (v = lastRv + 1 /\ Causes(k, n + 1)')
  <2>1. PICK i \in 1..(n + 1) : Causes(k, i)' /\ pending'[k][i].obj.rv = v
    BY <1>5, <1>10 DEF Fresh
  <2>2. CASE i \in 1..n
    <3>1. Causes(k, i) /\ P[i].obj.rv = v
      BY <1>1, <1>5, <2>1, <2>2 DEF Causes, Ahead
    <3>2. v \in 0..lastRv
      BY <1>1, <2>2, <3>1 DEF Chains, Chain, Delivered, Causes
    <3> QED
      BY <2>2, <3>1, <3>2 DEF Fresh
  <2> QED
    BY <1>1, <1>5, <2>1, <2>2
<1>11. P = <<>> /\ cache[k] # NoObj /\ cache[k].status # status => ~Causes(k, n + 1)'
  BY <1>1, <1>3, <1>5 DEF Causes, Ahead
<1>12. \A x \in Fresh' : x \in Keys \X Nat /\ x = <<x[1], x[2]>>
  BY <1>1, <1>3 DEF Fresh
<1> QED
  BY <1>3, <1>8, <1>9, <1>10, <1>11, <1>12 DEF Chains

(* A deletion.                                                               *)
LEMMA DeleteChains ==
  ASSUME TypeInv, Chains, NEW k \in Keys, api[k] # NoObj,
         api' = [api EXCEPT ![k] = NoObj], Notify(k, [kind |-> "del"]),
         UNCHANGED <<lastRv, watching, cache>>
  PROVE  Chains' /\ Fresh' \subseteq Fresh
<1>1. /\ pending[k] \in Seq(Deltas) /\ lastRv \in Nat
      /\ api \in [Keys -> Objects \cup {NoObj}] /\ cache \in [Keys -> Objects \cup {NoObj}]
      /\ pending \in [Keys -> Seq(Deltas)]
  BY DEF TypeInv, TypeOK
<1> PICK P \in Seq(Deltas) : P = pending[k]
  BY <1>1
<1> PICK n \in Nat : n = Len(P)
  OBVIOUS
<1> PICK d \in Deltas : d = [kind |-> "del"]
  BY DEF Deltas
<1>2. d.kind = "del"
  OBVIOUS
<1>3. /\ api'[k] = NoObj
      /\ \A q \in Keys : q # k => api'[q] = api[q] /\ pending'[q] = pending[q]
  BY <1>1 DEF Notify
<1>4. pending' = pending \/ pending' = [pending EXCEPT ![k] = Append(P, d)]
  <2>1. P # <<>> => P[Len(P)].kind = "set"
    BY DEF Chains, Chain
  <2>2. ~(P # <<>> /\ Deletion(P[Len(P)]) /\ Deletion(d))
    BY <2>1 DEF Deletion
  <2>3. Queued(P, d) = Append(P, d)
    BY <2>2 DEF Queued
  <2> QED
    BY <1>1, <2>3 DEF Notify
<1>5. ASSUME NEW q \in Keys, q # k
      PROVE  Chain(q)' /\ \A v \in Nat : <<q, v>> \in Fresh' => <<q, v>> \in Fresh
  BY <1>1, <1>3, <1>5, ChainKept DEF Chains
<1>6. \A x \in Fresh' : x \in Keys \X Nat /\ x = <<x[1], x[2]>>
  BY <1>1 DEF Fresh
<1> SUFFICES Chain(k)' /\ \A v \in Nat : <<k, v>> \in Fresh' => <<k, v>> \in Fresh
  BY <1>5, <1>6 DEF Chains
<1>7. CASE P = <<>> /\ pending'[k] = P
  <2>1. Chain(k)'
    BY <1>1, <1>3, <1>7 DEF Chains, Chain
  <2>2. \A v : <<k, v>> \notin Fresh'
    BY <1>7 DEF Fresh
  <2> QED
    BY <2>1, <2>2
<1>8. CASE pending'[k] = Append(P, d)
  <2>1. /\ Len(pending'[k]) = n + 1 /\ pending'[k][n + 1] = d
        /\ \A i \in 1..n : pending'[k][i] = P[i]
    BY <1>8
  <2>2. \A i \in 1..(n + 1) : i \in 1..n \/ i = n + 1
    OBVIOUS
  <2>3. ASSUME NEW i \in 1..n
        PROVE  Delivered(k, i)'
    <3>1. Delivered(k, i)
      BY DEF Chains, Chain
    <3>2. pending'[k][i] = pending[k][i]
          /\ \A j \in 1..(i - 1) : pending'[k][j] = pending[k][j]
      BY <2>1
    <3> QED
      BY <3>1, <3>2 DEF Delivered
  <2>4. Delivered(k, n + 1)'
    BY <1>2, <2>1 DEF Delivered
  <2>5. \A i \in 1..Len(pending'[k]) : Delivered(k, i)'
    BY <2>1, <2>2, <2>3, <2>4
  <2>6. Chain(k)'
    BY <1>1, <1>2, <1>3, <2>1, <2>5 DEF Chains, Chain
  <2>7. ASSUME NEW v \in Nat, <<k, v>> \in Fresh'
        PROVE  <<k, v>> \in Fresh
    <3>1. PICK i \in 1..(n + 1) : Causes(k, i)' /\ pending'[k][i].obj.rv = v
      BY <2>1, <2>7 DEF Fresh
    <3>2. i \in 1..n
      BY <1>2, <2>1, <2>2, <3>1 DEF Causes
    <3>3. Causes(k, i) /\ P[i].obj.rv = v
      <4>1. pending'[k][i] = pending[k][i] /\ cache' = cache
        BY <2>1, <3>2
      <4>2. i # 1 => pending'[k][i - 1] = pending[k][i - 1]
        BY <2>1, <3>2
      <4>3. Ahead(k, i)' = Ahead(k, i)
        BY <4>1, <4>2 DEF Ahead
      <4> QED
        BY <3>1, <4>1, <4>3 DEF Causes
    <3>4. v \in 0..lastRv
      BY <1>1, <3>2, <3>3 DEF Chains, Chain, Delivered, Causes
    <3> QED
      BY <3>2, <3>3, <3>4 DEF Fresh
  <2> QED
    BY <2>6, <2>7
<1>9. P # <<>> => pending'[k] = Append(P, d)
  <2> SUFFICES ASSUME P # <<>>
               PROVE  pending'[k] = Append(P, d)
    OBVIOUS
  <2>1. watching = "open" /\ pending[k] # <<>>
    BY DEF Chains
  <2>2. P[Len(P)].kind = "set"
    BY DEF Chains, Chain
  <2>3. Queued(P, d) = Append(P, d)
    BY <2>2 DEF Queued, Deletion
  <2>4. pending'[k] = Queued(P, d)
    BY <1>1, <2>1 DEF Notify
  <2> QED
    BY <2>3, <2>4
<1>10. pending'[k] = P \/ pending'[k] = Append(P, d)
  BY <1>1, <1>4
<1> QED
  BY <1>7, <1>8, <1>9, <1>10

(* The worker takes a delta: none becomes new by it, and this one is gone.   *)
LEMMA PopChains ==
  ASSUME TypeInv, Chains, NEW k \in Keys, Pop(k), UNCHANGED <<api, lastRv>>,
         NEW o \in Objects \cup {NoObj}, cache' = [cache EXCEPT ![k] = o],
         Head(pending[k]).kind = "set" =>
           /\ o # NoObj /\ o.rv = Head(pending[k]).obj.rv
           /\ o.status = Head(pending[k]).obj.status \/ o.status.last = "clock",
         Head(pending[k]).kind # "set" => o = NoObj
  PROVE  /\ Chains'
         /\ Fresh' \subseteq Fresh
         /\ Head(pending[k]).kind = "set" => <<k, Head(pending[k]).obj.rv>> \notin Fresh'
<1>1. /\ pending[k] \in Seq(Deltas) /\ lastRv \in Nat
      /\ api \in [Keys -> Objects \cup {NoObj}] /\ cache \in [Keys -> Objects \cup {NoObj}]
      /\ pending \in [Keys -> Seq(Deltas)]
  BY DEF TypeInv, TypeOK
<1> PICK P \in Seq(Deltas) : P = pending[k]
  BY <1>1
<1> PICK n \in Nat : n = Len(P)
  OBVIOUS
<1>2. P # <<>> /\ n > 0 /\ P[1] = Head(pending[k]) /\ watching' = watching
  BY DEF Pop
<1>3. /\ cache'[k] = o /\ pending'[k] = Tail(P)
      /\ \A q \in Keys : q # k => cache'[q] = cache[q] /\ pending'[q] = pending[q]
  BY <1>1 DEF Pop
<1>4. /\ Len(pending'[k]) = n - 1
      /\ \A i \in 1..(n - 1) : pending'[k][i] = P[i + 1] /\ i + 1 \in 1..n
  BY <1>2, <1>3
<1>5. \A i \in 1..n : P[i] \in Deltas /\ (P[i].kind = "set" => P[i].obj.rv \in Nat
                                          /\ P[i].obj \in Objects)
  <2>1. \A i \in 1..n : P[i] \in Deltas
    BY <1>1
  <2> QED
    BY <2>1 DEF Deltas, Objects
<1>6. P[1].kind = "set" => P[1].obj.rv <= lastRv
  BY <1>2 DEF Chains, Chain, Delivered
<1>7. o # NoObj => P[1].kind = "set" /\ o.rv = P[1].obj.rv
  BY <1>2
<1>8. ASSUME NEW i \in 1..(n - 1)
      PROVE  Delivered(k, i)'
  <2>1. Delivered(k, i + 1) /\ pending'[k][i] = P[i + 1]
    BY <1>4 DEF Chains, Chain
  <2>2. (i + 1) - 1 = i /\ 1 \in 1..i
    OBVIOUS
  <2>3. \A j \in 1..i : P[j].kind = "set" /\ P[i + 1].kind = "set" =>
                          P[j].obj.rv < P[i + 1].obj.rv
    BY <2>1, <2>2 DEF Delivered
  <2>4. \A j \in 1..(i - 1) : pending'[k][j] = P[j + 1] /\ j + 1 \in 1..i
    BY <1>4
  <2>5. \A j \in 1..(i - 1) : pending'[k][j].kind = "set" /\ pending'[k][i].kind = "set" =>
                                pending'[k][j].obj.rv < pending'[k][i].obj.rv
    BY <2>1, <2>3, <2>4
  <2>6. o # NoObj /\ P[i + 1].kind = "set" => o.rv < P[i + 1].obj.rv
    BY <1>7, <2>2, <2>3
  <2> QED
    BY <1>3, <2>1, <2>5, <2>6 DEF Delivered
<1>9. Chain(k)'
  <2>1. pending'[k] # <<>> => n - 1 \in 1..(n - 1) /\ (n - 1) + 1 = n
    BY <1>3, <1>4
  <2>2. pending'[k] # <<>> => pending'[k][Len(pending'[k])] = P[Len(P)]
    BY <1>4, <2>1
  <2>3. o # NoObj => o.rv <= lastRv
    BY <1>6, <1>7
  <2>4. \A i \in 1..Len(pending'[k]) : Delivered(k, i)'
    BY <1>4, <1>8
  <2> QED
    BY <1>2, <1>3, <2>2, <2>3, <2>4 DEF Chains, Chain
<1>10. ASSUME NEW v \in Nat, <<k, v>> \in Fresh'
       PROVE  <<k, v>> \in Fresh /\ (P[1].kind = "set" => P[1].obj.rv < v)
  <2>1. PICK i \in 1..(n - 1) : Causes(k, i)' /\ pending'[k][i].obj.rv = v
    BY <1>4, <1>10 DEF Fresh
  <2>2. pending'[k][i] = P[i + 1] /\ i + 1 \in 1..n /\ (i + 1) - 1 = i /\ i + 1 # 1
        /\ 1 \in 1..i
    BY <1>4
  <2>3. Causes(k, i + 1)
    <3>1. CASE i = 1
      <4>1. P[2].kind = "set" /\ P[2].obj.status.last # "clock"
        BY <2>1, <2>2, <3>1 DEF Causes, Chains, Chain, Delivered
      <4>2. P[1].kind = "set" => o.status = P[1].obj.status
        BY <1>2, <1>3, <2>1, <2>2, <3>1, <4>1 DEF Causes, Ahead
      <4>3. Ahead(k, 2) = IF P[1].kind = "set" THEN P[1].obj ELSE NoObj
        BY DEF Ahead
      <4>4. P[1].kind = "set" => P[1].obj.status = P[2].obj.status
        BY <1>2, <1>3, <2>1, <2>2, <3>1, <4>2 DEF Causes, Ahead
      <4> QED
        BY <3>1, <4>1, <4>3, <4>4 DEF Causes
    <3>2. CASE i # 1
      <4>1. pending'[k][i - 1] = P[i]
        <5>1. i - 1 \in 1..(n - 1) /\ (i - 1) + 1 = i
          BY <3>2
        <5> QED
          BY <1>4, <5>1
      <4>2. Ahead(k, i)' = Ahead(k, i + 1)
        BY <2>2, <3>2, <4>1 DEF Ahead
      <4> QED
        BY <2>1, <2>2, <4>2 DEF Causes
    <3> QED
      BY <3>1, <3>2
  <2>4. Delivered(k, i + 1) /\ P[i + 1].kind = "set" /\ P[i + 1].obj.rv = v
    BY <2>1, <2>2 DEF Chains, Chain, Causes
  <2>5. v \in 0..lastRv
    BY <1>1, <2>4 DEF Delivered
  <2>6. P[1].kind = "set" => P[1].obj.rv < v
    BY <2>2, <2>4 DEF Delivered
  <2> QED
    BY <2>2, <2>3, <2>4, <2>5, <2>6 DEF Fresh
<1>11. ASSUME NEW q \in Keys, q # k
       PROVE  Chain(q)' /\ \A v \in Nat : <<q, v>> \in Fresh' => <<q, v>> \in Fresh
  BY <1>1, <1>3, <1>11, ChainKept DEF Chains
<1>12. \A x \in Fresh' : x \in Keys \X Nat /\ x = <<x[1], x[2]>>
  BY <1>1 DEF Fresh
<1>13. P[1].kind = "set" => <<k, P[1].obj.rv>> \notin Fresh'
  BY <1>2, <1>5, <1>10
<1> QED
  BY <1>2, <1>9, <1>10, <1>11, <1>12, <1>13 DEF Chains

(* The handler writes into the object in hand, which bears its time.         *)
LEMMA CachedChains ==
  ASSUME TypeInv, Chains, NEW k \in Keys, UNCHANGED <<api, lastRv, watching, pending>>,
         NEW o \in Objects, cache[k] # NoObj, cache' = [cache EXCEPT ![k] = o],
         o.rv = cache[k].rv, o.status.last = "clock"
  PROVE  Chains' /\ Fresh' \subseteq Fresh
<1>1. /\ pending[k] \in Seq(Deltas) /\ lastRv \in Nat
      /\ api \in [Keys -> Objects \cup {NoObj}] /\ cache \in [Keys -> Objects \cup {NoObj}]
      /\ pending \in [Keys -> Seq(Deltas)]
  BY DEF TypeInv, TypeOK
<1>2. cache'[k] = o /\ \A q \in Keys : q # k => cache'[q] = cache[q]
  BY <1>1
<1>3. Chain(k)'
  BY <1>2 DEF Chains, Chain, Delivered
<1>4. ASSUME NEW v \in Nat, <<k, v>> \in Fresh'
      PROVE  <<k, v>> \in Fresh
  <2>1. PICK i \in 1..Len(pending[k]) : Causes(k, i)' /\ pending[k][i].obj.rv = v
    BY <1>4 DEF Fresh
  <2>2. pending[k][i].obj.status.last # "clock"
    BY <2>1 DEF Causes, Chains, Chain, Delivered
  <2>3. i # 1
    BY <1>2, <2>1, <2>2, AbsenceAssumption DEF Causes, Ahead
  <2>4. Causes(k, i)
    BY <2>1, <2>3 DEF Causes, Ahead
  <2> QED
    BY <1>4, <2>1, <2>4 DEF Fresh
<1>5. ASSUME NEW q \in Keys, q # k
      PROVE  Chain(q)' /\ \A v \in Nat : <<q, v>> \in Fresh' => <<q, v>> \in Fresh
  BY <1>1, <1>2, <1>5, ChainKept DEF Chains
<1>6. \A x \in Fresh' : x \in Keys \X Nat /\ x = <<x[1], x[2]>>
  BY <1>1 DEF Fresh
<1> QED
  BY <1>3, <1>4, <1>5, <1>6 DEF Chains

-----------------------------------------------------------------------------
(* What the actors do to the queues and the cache. *)

(* Neither goroutine stands for a user or ends the watch or the process.     *)
Charged == \/ Works \/ Spend("kube") \/ Spend("api")
           \/ Spend("store") \/ Spend("discovery")

Counted == {"create", "edit", "rollback", "crash", "gap"}

SameCounts == \A kind \in Counted : used'[kind] = used[kind]

LEMMA ChargedCounts ==
  ASSUME TypeInv, Charged
  PROVE  SameCounts
<1>1. used \in [Kinds -> Nat]
  BY DEF TypeInv, TypeOK
<1>2. ASSUME NEW kind \in Kinds \ Counted, Spend(kind)
      PROVE  SameCounts
  BY <1>1, <1>2 DEF Spend, SameCounts, Counted, Kinds
<1>3. {"kube", "api", "store", "discovery"} \subseteq Kinds \ Counted
  BY DEF Kinds, Counted
<1>4. Works => SameCounts
  BY DEF Works, SameCounts
<1> QED
  BY <1>2, <1>3, <1>4 DEF Charged

LEMMA HandlersCharged ==
  ASSUME Install \/ Upgrade \/ RecordRelease \/ Uninstall
  PROVE  Charged
<1> USE DEF Charged
<1>1. CASE PreInstall \/ CreateResources \/ PostInstall \/ PreUpgrade \/ KubeUpdate
           \/ PostUpgrade
  BY <1>1 DEF PreInstall, CreateResources, PostInstall, PreUpgrade, KubeUpdate,
              PostUpgrade, HookFails
<1>2. CASE InstallStatus \/ UpgradeStatus \/ FailStatus
  BY <1>2 DEF InstallStatus, UpgradeStatus, FailStatus, WriteSucceeds, WriteFails
<1>3. CASE Supersede \/ FailSupersede \/ FailRecord \/ RecordRelease
  BY <1>3 DEF Supersede, FailSupersede, FailRecord, RecordRelease, Rewrite, Record
<1>4. CASE Uninstall
  BY <1>4 DEF Uninstall, Purge, PreDelete, MarkDeleting, DeleteResource, PostDelete,
              MarkDeleted, Rewrite, HookFails
<1> QED
  BY <1>1, <1>2, <1>3, <1>4 DEF Install, Upgrade

LEMMA OthersCharged ==
  ASSUME \/ RollbackStep
         \/ \E k \in Keys : Begins(k)
  PROVE  Charged
<1> USE DEF Charged
<1>1. CASE RollbackStep
  BY <1>1 DEF RollbackStep, RollbackLast, RollbackGet, RollbackRead, RollbackWrite
<1>2. ASSUME NEW k \in Keys, Begins(k)
      PROVE  Charged
  BY <1>2 DEF Begins, AddFunc, UpdateFuncIgnores, UpdateFunc, DeleteFunc, PrepareFails,
              RenderFails, Renders
<1> QED
  BY <1>1, <1>2

(* Who leaves them alone.                                                    *)
LEMMA SameChains ==
  ASSUME Chains, UNCHANGED <<api, lastRv, watching, pending, cache>>
  PROVE  Chains' /\ Fresh' = Fresh
BY DEF Chains, Chain, Delivered, Fresh, Causes, Ahead

(* A handler writes its status to the API server, or into the object in hand *)
(* and under the time it has set there.                                      *)
Stamps ==
  /\ pc \in ReleaseLabels /\ UNCHANGED <<api, lastRv, pending>>
  /\ \E status \in Statuses :
       /\ status.last = cache[at].status.last
       /\ cache' = [cache EXCEPT ![at] = [cache[at] EXCEPT !.status = status]]

LEMMA HandlerStamps ==
  ASSUME TypeInv, pc \in ReleaseLabels, UNCHANGED <<api, lastRv, pending>>,
         \/ \E c \in Codes : SetCode(c)
         \/ cache' = [cache EXCEPT ![at].status.ver = 1]
  PROVE  Stamps
<1>1. at \in Keys /\ cache[at] \in Objects /\ 1 \in 0..MaxRev
  BY HandledType, ReleaseAssumption
<1>2. ASSUME NEW c \in Codes, SetCode(c)
      PROVE  Stamps
  <2> DEFINE s == [cache[at].status EXCEPT !.code = c]
  <2>1. s \in Statuses /\ s.last = cache[at].status.last
    BY <1>1 DEF Objects, Statuses
  <2>2. cache' = [cache EXCEPT ![at] = [cache[at] EXCEPT !.status = s]]
    BY <1>2 DEF SetCode
  <2> QED
    BY <2>1, <2>2 DEF Stamps
<1>3. ASSUME cache' = [cache EXCEPT ![at].status.ver = 1]
      PROVE  Stamps
  <2> DEFINE s == [cache[at].status EXCEPT !.ver = 1]
  <2>1. s \in Statuses /\ s.last = cache[at].status.last
    BY <1>1 DEF Objects, Statuses
  <2>2. cache' = [cache EXCEPT ![at] = [cache[at] EXCEPT !.status = s]]
    BY <1>3
  <2> QED
    BY <2>1, <2>2 DEF Stamps
<1> QED
  BY <1>2, <1>3

LEMMA HandlerWrites ==
  ASSUME TypeInv, Install \/ Upgrade \/ RecordRelease \/ Uninstall
  PROVE  /\ UNCHANGED <<watching, env, events, unread, rb>>
         /\ pc' \in ReleaseLabels => pc \in ReleaseLabels /\ at' = at /\ cur' = cur
         /\ \/ UNCHANGED <<api, lastRv, pending, cache>>
            \/ pc \in ReleaseLabels /\ Write /\ cache' = cache
            \/ Stamps
<1> USE DEF ReleaseLabels, Labels
<1>1. CASE InstallStatus \/ UpgradeStatus \/ FailStatus
  <2>1. WriteSucceeds \/ WriteFails =>
          UNCHANGED <<api, lastRv, pending>> \/ Write
    BY DEF WriteSucceeds, WriteFails, apiVars
  <2> QED
    BY <1>1, <2>1 DEF InstallStatus, UpgradeStatus, FailStatus, Goto, Done, rollback
<1>2. CASE PreInstall \/ CreateResources \/ PostInstall
  <2>1. /\ UNCHANGED <<api, lastRv, pending, watching, env, events, unread, rb>>
        /\ pc \in ReleaseLabels
        /\ pc' \in ReleaseLabels => at' = at /\ cur' = cur
    BY <1>2 DEF PreInstall, CreateResources, PostInstall, Goto, Done, apiVars, rollback
  <2>2. \/ UNCHANGED cache
        \/ SetCode("FAILED") \/ SetCode("DEPLOYED")
        \/ cache' = [cache EXCEPT ![at].status.ver = 1]
    BY <1>2 DEF PreInstall, CreateResources, PostInstall
  <2> QED
    BY <2>1, <2>2, HandlerStamps DEF Codes
<1>3. CASE KubeUpdate \/ Supersede
  <2>1. /\ UNCHANGED <<api, lastRv, pending, watching, env, events, unread, rb>>
        /\ pc \in ReleaseLabels
        /\ pc' \in ReleaseLabels => at' = at /\ cur' = cur
    BY <1>3 DEF KubeUpdate, Supersede, Goto, Done, apiVars, rollback
  <2>2. UNCHANGED cache \/ SetCode("FAILED") \/ SetCode("DEPLOYED")
    BY <1>3 DEF KubeUpdate, Supersede
  <2> QED
    BY <2>1, <2>2, HandlerStamps DEF Codes
<1>4. CASE PreUpgrade \/ PostUpgrade \/ FailSupersede \/ FailRecord \/ RecordRelease
  BY <1>4 DEF PreUpgrade, PostUpgrade, FailSupersede, FailRecord, RecordRelease,
              Goto, Done, apiVars, informer, rollback
<1>5. CASE Uninstall
  BY <1>5 DEF Uninstall, Purge, PreDelete, MarkDeleting, DeleteResource, PostDelete,
              MarkDeleted, Goto, Done, apiVars, informer, rollback
<1> QED
  BY <1>1, <1>2, <1>3, <1>4, <1>5 DEF Install, Upgrade

(* The object a handler writes is not delivered as a new one.                *)
LEMMA HandlerChains ==
  ASSUME TypeInv, TypeInv', Chains, Stamped,
         Install \/ Upgrade \/ RecordRelease \/ Uninstall
  PROVE  Chains' /\ Stamped' /\ Fresh' \subseteq Fresh
<1>1. /\ UNCHANGED <<watching, env, events, unread, rb>>
      /\ pc' \in ReleaseLabels => pc \in ReleaseLabels /\ at' = at /\ cur' = cur
      /\ \/ UNCHANGED <<api, lastRv, pending, cache>>
         \/ pc \in ReleaseLabels /\ Write /\ cache' = cache
         \/ Stamps
  BY HandlerWrites
<1>2. CASE UNCHANGED <<api, lastRv, pending, cache>>
  BY <1>1, <1>2, SameChains DEF Stamped
<1>3. CASE pc \in ReleaseLabels /\ Write /\ cache' = cache
  <2> PICK k \in Keys : k = at
    BY <1>3, HandledType
  <2>1. /\ cache[k] \in Objects /\ cache[k].spec \in Specs /\ cache[k].status \in Statuses
        /\ cache[k].status.last = "clock" /\ cache[k] # NoObj /\ cache[k].rv \in Nat
    BY <1>3, HandledType, AbsenceAssumption DEF Stamped, Objects
  <2>2. /\ Wire(cache[k].status) \in Statuses /\ Wire(cache[k].status).last = "wire"
        /\ Wire(cache[k].status) # cache[k].status
    BY <2>1, WireType DEF Wire, Decoded, Statuses
  <2>3. Put(k, cache[k].spec, Wire(cache[k].status)) /\ api[k] # NoObj /\ api[k].rv = cache[k].rv
    BY <1>3 DEF Write, CanWrite
  <2>4. pending[k] = <<>>
    <3> SUFFICES ASSUME pending[k] # <<>> PROVE FALSE
      OBVIOUS
    <3>1. pending[k] \in Seq(Deltas)
      BY DEF TypeInv, TypeOK
    <3> PICK n \in Nat : n = Len(pending[k])
      BY <3>1
    <3>2. n \in 1..Len(pending[k])
      BY <3>1
    <3>3. pending[k][n].kind = "set" /\ api[k] = pending[k][n].obj
      BY <2>3 DEF Chains, Chain
    <3>4. cache[k].rv < pending[k][n].obj.rv
      BY <2>1, <3>2, <3>3 DEF Chains, Chain, Delivered
    <3> QED
      BY <2>1, <2>3, <3>3, <3>4
  <2>5. Chains' /\ Fresh' \subseteq Fresh
    <3> PICK spec \in Specs : spec = cache[k].spec
      BY <2>1
    <3> PICK status \in Statuses : status = Wire(cache[k].status)
      BY <2>2
    <3>1. status.last # "clock" /\ Put(k, spec, status) /\ cache[k].status # status
      BY <2>2, <2>3
    <3> QED
      BY <1>1, <1>3, <2>1, <2>4, <3>1, PutChains
  <2> QED
    BY <1>1, <1>3, <2>5 DEF Stamped
<1>4. CASE Stamps
  <2> PICK k \in Keys : k = at
    BY <1>4, HandledType DEF Stamps
  <2>1. /\ cache[k] \in Objects /\ cache[k].status.last = "clock" /\ cache[k] # NoObj
        /\ cache \in [Keys -> Objects \cup {NoObj}]
    BY <1>4, HandledType, AbsenceAssumption DEF Stamps, Stamped, TypeInv, TypeOK
  <2>2. PICK status \in Statuses :
          /\ status.last = "clock"
          /\ cache' = [cache EXCEPT ![k] = [cache[k] EXCEPT !.status = status]]
    BY <1>4, <2>1 DEF Stamps
  <2>3. PICK o \in Objects : o = [cache[k] EXCEPT !.status = status]
    BY <2>1 DEF Objects
  <2>4. o.rv = cache[k].rv /\ o.status.last = "clock"
    BY <2>1, <2>2, <2>3 DEF Objects
  <2>5. cache' = [cache EXCEPT ![k] = o] /\ cache'[k] = o
    BY <2>1, <2>2, <2>3
  <2>6. Chains' /\ Fresh' \subseteq Fresh
    BY <1>1, <1>4, <2>1, <2>4, <2>5, CachedChains DEF Stamps
  <2>7. Stamped'
    BY <1>1, <2>4, <2>5 DEF Stamped
  <2> QED
    BY <2>6, <2>7
<1> QED
  BY <1>1, <1>2, <1>3, <1>4

(* What UpdateFunc makes of an object it takes for new.                      *)
LEMMA UpdateTakes ==
  ASSUME TypeInv, NEW k \in Keys, UpdateFunc(k), NEW d \in Objects,
         d = Head(pending[k]).obj
  PROVE  \E n \in Objects :
           /\ Cached(k, n) /\ n.rv = d.rv
           /\ \/ n.status = d.status /\ pc' = pc
              \/ n.status.last = "clock" /\ (pc' = pc \/ at' = k)
<1>1. \/ Cached(k, d) /\ pc' = pc
      \/ \E r \in 1..(MaxRev - 1) :
           /\ IsLast(<<env, k[2]>>, r)
           /\ LET n == Supplied(d, hist[<<env, k[2]>>][r])
              IN  \/ Cached(k, n) /\ pc' = pc
                  \/ Cached(k, PreparedUpdate(n, r)) /\ (pc' = pc \/ at' = k)
  BY DEF UpdateFunc, PrepareFails, Begin, worker
<1>2. CASE Cached(k, d) /\ pc' = pc
  BY <1>2
<1>3. ASSUME NEW r \in 1..(MaxRev - 1), IsLast(<<env, k[2]>>, r), NEW n,
             n = Supplied(d, hist[<<env, k[2]>>][r]),
             \/ Cached(k, n) /\ pc' = pc
             \/ Cached(k, PreparedUpdate(n, r)) /\ (pc' = pc \/ at' = k)
      PROVE  \E q \in Objects :
               /\ Cached(k, q) /\ q.rv = d.rv
               /\ \/ q.status = d.status /\ pc' = pc
                  \/ q.status.last = "clock" /\ (pc' = pc \/ at' = k)
  <2>1. <<env, k[2]>> \in Keys
    BY DEF UpdateFunc, TypeInv, WorkerShape, Keys
  <2>2. hist[<<env, k[2]>>][r] \in Records
    BY <1>3, <2>1, HistoryType DEF IsLast, TypeInv, TypeOK
  <2>3. n \in Objects /\ PreparedUpdate(n, r) \in Objects
    BY <1>3, <2>2, PreparedType
  <2>4. n.rv = d.rv /\ n.status = d.status
    BY <1>3 DEF Supplied, Completed, Reused, Objects
  <2>5. /\ PreparedUpdate(n, r).rv = d.rv
        /\ PreparedUpdate(n, r).status.last = "clock"
    BY <2>3, <2>4 DEF PreparedUpdate, Objects, Statuses
  <2>6. CASE Cached(k, n) /\ pc' = pc
    BY <2>3, <2>4, <2>6
  <2>7. CASE Cached(k, PreparedUpdate(n, r)) /\ (pc' = pc \/ at' = k)
    BY <2>3, <2>5, <2>7
  <2> QED
    BY <1>3, <2>6, <2>7
<1> QED
  BY <1>1, <1>2, <1>3

(* A handler begins with a delta it takes for new.                           *)
LEMMA BeginsChains ==
  ASSUME TypeInv, TypeInv', Chains, NEW k \in Keys, Begins(k)
  PROVE  /\ Chains' /\ Stamped' /\ Fresh' \subseteq Fresh
         /\ pc = "idle" /\ UNCHANGED <<hist, unread, rb>>
         /\ pc' \in ReleaseLabels => \E x \in Fresh : x \notin Fresh'
<1> DEFINE d == Head(pending[k])
<1>1. /\ pending[k] \in Seq(Deltas) /\ pending[k] # <<>> /\ Pop(k)
      /\ UNCHANGED <<api, lastRv, hist, unread, rb>> /\ pc = "idle"
  BY DEF TypeInv, TypeOK, Begins, AddFunc, UpdateFuncIgnores, UpdateFunc, DeleteFunc, Pop,
         apiVars, rollback
<1>2. 1 \in 1..Len(pending[k]) /\ d = pending[k][1] /\ d \in Deltas
  BY <1>1
<1>3. Delivered(k, 1)
  BY <1>2 DEF Chains, Chain
<1>4. d.kind = "set" => d.obj \in Objects /\ d.obj.rv \in 0..lastRv
  <2>1. d.kind = "set" => d.obj \in Objects
    BY <1>2 DEF Deltas
  <2>2. d.kind = "set" => d.obj.rv <= lastRv
    BY <1>2, <1>3 DEF Delivered
  <2> QED
    BY <2>1, <2>2 DEF Objects, TypeInv, TypeOK
<1> PICK o \in Objects \cup {NoObj} : o = cache'[k]
  BY DEF TypeInv, TypeOK
<1>5. cache \in [Keys -> Objects \cup {NoObj}] /\ NoObj \notin Objects
  BY AbsenceAssumption DEF TypeInv, TypeOK
<1> DEFINE Taken ==
      /\ cache' = [cache EXCEPT ![k] = o]
      /\ d.kind = "set" =>
           /\ o # NoObj /\ o.rv = d.obj.rv
           /\ o.status = d.obj.status \/ o.status.last = "clock"
      /\ d.kind # "set" => o = NoObj
      /\ pc' \in ReleaseLabels =>
           /\ at' = k /\ d.kind = "set" /\ o.status.last = "clock"
           /\ cache[k] # NoObj => cache[k].status = d.obj.status
<1>6. ASSUME AddFunc(k)
      PROVE  Taken
  <2>1. d.kind = "set" /\ cache[k] = NoObj
    BY <1>6 DEF AddFunc
  <2>2. \/ Cached(k, d.obj) /\ pc' = pc
        \/ Cached(k, Completed(d.obj)) /\ pc' = pc
        \/ Cached(k, PreparedRelease(d.obj)) /\ (pc' = pc \/ at' = k)
    BY <1>6 DEF AddFunc, PrepareFails, Begin, worker
  <2> PICK c \in Objects : /\ c = Completed(d.obj)
                           /\ c.rv = d.obj.rv /\ c.status = d.obj.status
    BY <1>4, <2>1, CompletedType
  <2>3. /\ PreparedRelease(d.obj).rv = d.obj.rv
        /\ PreparedRelease(d.obj).status.last = "clock"
        /\ PreparedRelease(d.obj) \in Objects
    BY DEF PreparedRelease, Objects, Statuses, Codes, Times
  <2>4. Taken
    BY <1>1, <1>4, <1>5, <2>1, <2>2, <2>3 DEF Cached, ReleaseLabels, Labels
  <2> QED
    BY <2>4
<1>7. ASSUME UpdateFuncIgnores(k)
      PROVE  Taken
  <2>1. d.kind = "set" /\ Cached(k, d.obj) /\ pc' = pc
    BY <1>7 DEF UpdateFuncIgnores, worker
  <2> QED
    BY <1>1, <1>4, <1>5, <2>1 DEF Cached, ReleaseLabels, Labels
<1>8. ASSUME UpdateFunc(k)
      PROVE  Taken
  <2>1. d.kind = "set" /\ cache[k] # NoObj /\ cache[k].status = d.obj.status
    BY <1>8 DEF UpdateFunc, Ignored
  <2>2. PICK n \in Objects :
          /\ Cached(k, n) /\ n.rv = d.obj.rv
          /\ \/ n.status = d.obj.status /\ pc' = pc
             \/ n.status.last = "clock" /\ (pc' = pc \/ at' = k)
    BY <1>4, <1>8, <2>1, UpdateTakes
  <2>3. o = n /\ cache' = [cache EXCEPT ![k] = o]
    BY <1>5, <2>2 DEF Cached
  <2> QED
    BY <1>1, <1>5, <2>1, <2>2, <2>3 DEF ReleaseLabels, Labels
<1>9. ASSUME DeleteFunc(k)
      PROVE  Taken
  <2>1. d.kind = "del" /\ Cached(k, NoObj) /\ pc' \notin ReleaseLabels
    BY <1>1, <1>9 DEF DeleteFunc, Begin, worker, ReleaseLabels, Labels
  <2> QED
    BY <1>5, <2>1 DEF Cached
<1>10. Taken
  BY <1>6, <1>7, <1>8, <1>9 DEF Begins
<1>11. /\ Chains' /\ Fresh' \subseteq Fresh
       /\ d.kind = "set" => <<k, d.obj.rv>> \notin Fresh'
  BY <1>1, <1>10, PopChains
<1>12. Stamped'
  BY <1>10 DEF Stamped
<1>13. ASSUME pc' \in ReleaseLabels
       PROVE  <<k, d.obj.rv>> \in Fresh
  <2>1. Causes(k, 1)
    BY <1>2, <1>10, <1>13 DEF Causes, Ahead
  <2> QED
    BY <1>2, <1>4, <1>10, <1>13, <2>1 DEF Fresh
<1> QED
  BY <1>1, <1>10, <1>11, <1>12, <1>13

-----------------------------------------------------------------------------
(* What the actors do to the records. *)

LEMMA FewerRevisions ==
  ASSUME \A k \in Keys : History(k)' \subseteq History(k)
  PROVE  Revisions' \subseteq Revisions
BY DEF Revisions

(* A handler that adds no record owes no more than before.                   *)
LEMMA AddingKept ==
  ASSUME env' = env,
         pc' \in ReleaseLabels =>
           /\ pc \in ReleaseLabels /\ at' = at /\ cur' = cur
           /\ History(StoreKey)' = History(StoreKey)
  PROVE  Adding' <= Adding
<1>1. pc' \in ReleaseLabels /\ NextRev' \notin History(StoreKey)' =>
        pc \in ReleaseLabels /\ NextRev \notin History(StoreKey)
  BY DEF NextRev
<1> QED
  BY <1>1 DEF Adding

(* A handler adds the record it owes, or none.                               *)
LEMMA HandlerRecords ==
  ASSUME TypeInv, Install \/ Upgrade \/ RecordRelease \/ Uninstall
  PROVE  \/ Revisions' \subseteq Revisions /\ Adding' <= Adding
         \/ /\ \E x : Revisions' \subseteq Revisions \cup {x}
            /\ Adding = 1 /\ Adding' = 0
<1>1. /\ env' = env
      /\ pc' \in ReleaseLabels => pc \in ReleaseLabels /\ at' = at /\ cur' = cur
  BY HandlerWrites
<1>2. pc' \in ReleaseLabels => StoreKey' = StoreKey /\ NextRev' = NextRev
  BY <1>1 DEF StoreKey, NextRev
<1>3. CASE \A k \in Keys : History(k)' = History(k)
  <2>1. Revisions' \subseteq Revisions
    BY <1>3, FewerRevisions
  <2>2. pc' \in ReleaseLabels => History(StoreKey)' = History(StoreKey)
    <3>1. pc' \in ReleaseLabels => pc # "idle"
      BY <1>1 DEF ReleaseLabels
    <3> QED
      BY <1>2, <1>3, <3>1, HeldType
  <2> QED
    BY <1>1, <2>1, <2>2, AddingKept
<1>4. CASE UNCHANGED hist
  BY <1>3, <1>4 DEF History
<1>5. ASSUME NEW c \in Codes, NEW label \in UpgradeLabels \cup UninstallLabels,
             NEW next, Rewrites(c, label, next)
      PROVE  \A k \in Keys : History(k)' = History(k)
  BY <1>5, RewritesHistory
<1>6. CASE \/ Rewrites("SUPERSEDED", "supersede", "upgradeStatus")
           \/ Rewrites("SUPERSEDED", "failSupersede", "failRecord")
           \/ Rewrites("DELETING", "markDeleting", "deleting")
           \/ Rewrites("DELETED", "markDeleted", "idle")
  BY <1>3, <1>5, <1>6 DEF Codes, UpgradeLabels, UninstallLabels
<1>7. CASE Adds /\ NextRev \notin History(StoreKey)
           /\ hist' = [hist EXCEPT ![StoreKey][NextRev] = NewRecord]
  <2>1. pc \in {"record", "failRecord"} /\ pc # "idle" /\ pc \in ReleaseLabels
    BY <1>7 DEF Adds, ReleaseLabels, Labels
  <2> PICK k \in Keys : k = StoreKey
    BY <2>1, HeldType
  <2> PICK r \in 1..MaxRev : r = NextRev
    BY <2>1, HeldType
  <2> PICK rec \in Records : rec = NewRecord
    BY <2>1, HeldType
  <2>2. /\ History(k)' = History(k) \cup {r}
        /\ \A q \in Keys : q # k => History(q)' = History(q)
    BY <1>7, WrittenHistory
  <2>3. Revisions' \subseteq Revisions \cup {<<k, r>>}
    BY <2>2 DEF Revisions
  <2>4. Adding = 1
    BY <1>7, <2>1 DEF Adding
  <2>5. Adding' = 0
    <3>1. pc' \in ReleaseLabels => NextRev' \in History(StoreKey)'
      BY <1>2, <2>2
    <3> QED
      BY <3>1 DEF Adding
  <2> QED
    BY <2>3, <2>4, <2>5
<1>8. CASE Purges
  <2>1. pc' \notin ReleaseLabels /\ pc # "idle"
    BY <1>8 DEF Purges, ReleaseLabels, Labels
  <2>2. ASSUME NEW r \in 1..MaxRev, hist' = [hist EXCEPT ![StoreKey][r] = NoRec]
        PROVE  \A k \in Keys : History(k)' \subseteq History(k)
    <3>1. hist \in [Keys -> [1..MaxRev -> Records \cup {NoRec}]] /\ StoreKey \in Keys
      BY <2>1, HeldType DEF TypeInv, TypeOK, HistTypeOK
    <3> QED
      BY <2>2, <3>1 DEF History
  <2>3. Adding' <= Adding
    BY <1>1, <2>1, AddingKept
  <2> QED
    BY <1>4, <1>8, <2>2, <2>3, FewerRevisions DEF Purges
<1>9. Storeless => UNCHANGED hist
  BY StorelessKeeps
<1>10. \/ Storeless \/ Adds \/ Purges
       \/ Rewrites("SUPERSEDED", "supersede", "upgradeStatus")
       \/ Rewrites("SUPERSEDED", "failSupersede", "failRecord")
       \/ Rewrites("DELETING", "markDeleting", "deleting")
       \/ Rewrites("DELETED", "markDeleted", "idle")
  BY RewriteSteps, RecordSteps, PurgeSteps DEF Install, Upgrade, Uninstall, Storeless
<1> QED
  BY <1>4, <1>6, <1>7, <1>8, <1>9, <1>10 DEF Adds

-----------------------------------------------------------------------------
(* No step owes more than was asked for. *)

(* The terms of the balance.                                                 *)
LEMMA OwedType ==
  ASSUME IsFiniteSet(Namespaces), IsFiniteSet(Names), TypeInv
  PROVE  /\ Cardinality(Revisions) \in Nat /\ Cardinality(Fresh) \in Nat
         /\ Cardinality(unread) \in Nat /\ Adding \in 0..1 /\ TurningBack \in 0..1
         /\ used["create"] \in Nat /\ used["edit"] \in Nat /\ used["rollback"] \in Nat
<1>1. used \in [Kinds -> Nat] /\ {"create", "edit", "rollback"} \subseteq Kinds
  BY DEF TypeInv, TypeOK, Kinds
<1>2. Cardinality(Revisions) \in Nat /\ Cardinality(Fresh) \in Nat
      /\ Cardinality(unread) \in Nat
  BY Countable, FS_CardinalityType
<1>3. Adding \in 0..1 /\ TurningBack \in 0..1
  BY DEF Adding, TurningBack
<1> QED
  BY <1>1, <1>2, <1>3

(* A step that asks for nothing and owes no more than before.                *)
LEMMA SettledStep ==
  ASSUME IsFiniteSet(Namespaces), IsFiniteSet(Names), TypeInv, CauseInv,
         Chains', Stamped', SameCounts, Owed' \in Nat, Owed' <= Owed
  PROVE  CauseInv'
<1>1. Asked' = Asked /\ used'["crash"] = 0 /\ used'["gap"] = 0
  BY DEF CauseInv, SameCounts, Counted, Asked
<1>2. Owed \in Nat /\ Asked \in Nat
  BY OwedType DEF Owed, Asked
<1> QED
  BY <1>1, <1>2 DEF CauseInv

(* A handler goes on.                                                        *)
LEMMA HandlerSettles ==
  ASSUME IsFiniteSet(Namespaces), IsFiniteSet(Names), TypeInv, TypeInv', CauseInv,
         Install \/ Upgrade \/ RecordRelease \/ Uninstall
  PROVE  CauseInv'
<1>1. /\ Cardinality(Revisions) \in Nat /\ Cardinality(Fresh) \in Nat
      /\ Cardinality(unread) \in Nat /\ Adding \in 0..1 /\ TurningBack \in 0..1
  BY OwedType
<1>2. IsFiniteSet(Revisions) /\ IsFiniteSet(Fresh)
  BY Countable
<1>3. Chains' /\ Stamped' /\ Fresh' \subseteq Fresh
  BY HandlerChains DEF CauseInv
<1>4. Cardinality(Fresh') \in Nat /\ Cardinality(Fresh') <= Cardinality(Fresh)
  BY <1>2, <1>3, CountKeeps
<1>5. UNCHANGED <<unread, rb>>
  BY HandlerWrites
<1>6. SameCounts
  BY HandlersCharged, ChargedCounts
<1>7. CASE Revisions' \subseteq Revisions /\ Adding' <= Adding
  <2>1. Cardinality(Revisions') \in Nat /\ Cardinality(Revisions') <= Cardinality(Revisions)
    BY <1>2, <1>7, CountKeeps
  <2>2. Adding' \in 0..1
    BY DEF Adding
  <2> QED
    BY <1>1, <1>3, <1>4, <1>5, <1>6, <1>7, <2>1, <2>2, SettledStep DEF Owed, TurningBack
<1>8. ASSUME NEW x, Revisions' \subseteq Revisions \cup {x}, Adding = 1, Adding' = 0
      PROVE  CauseInv'
  <2>1. Cardinality(Revisions') \in Nat
        /\ Cardinality(Revisions') <= Cardinality(Revisions) + 1
    BY <1>2, <1>8, CountAdds
  <2> QED
    BY <1>1, <1>3, <1>4, <1>5, <1>6, <1>8, <2>1, SettledStep DEF Owed, TurningBack
<1> QED
  BY <1>7, <1>8, HandlerRecords

(* A handler begins: the delta it takes for new is paid for.                 *)
LEMMA BeginSettles ==
  ASSUME IsFiniteSet(Namespaces), IsFiniteSet(Names), TypeInv, TypeInv', CauseInv,
         NEW k \in Keys, Begins(k)
  PROVE  CauseInv'
<1>1. /\ Chains' /\ Stamped' /\ Fresh' \subseteq Fresh
      /\ pc = "idle" /\ UNCHANGED <<hist, unread, rb>>
      /\ pc' \in ReleaseLabels => \E x \in Fresh : x \notin Fresh'
  BY BeginsChains DEF CauseInv
<1>2. SameCounts
  BY OthersCharged, ChargedCounts
<1>3. /\ Cardinality(Revisions) \in Nat /\ Cardinality(Fresh) \in Nat
      /\ Cardinality(unread) \in Nat /\ TurningBack \in 0..1
  BY OwedType
<1>4. Revisions' = Revisions /\ TurningBack' = TurningBack
  BY <1>1 DEF Revisions, History, TurningBack
<1>5. Adding = 0
  BY <1>1 DEF Adding, ReleaseLabels
<1>6. CASE pc' \notin ReleaseLabels
  <2>1. Adding' = 0
    BY <1>6 DEF Adding
  <2>2. Cardinality(Fresh') \in Nat /\ Cardinality(Fresh') <= Cardinality(Fresh)
    BY <1>1, Countable, CountKeeps
  <2> QED
    BY <1>1, <1>2, <1>3, <1>4, <1>5, <2>1, <2>2, SettledStep DEF Owed
<1>7. ASSUME NEW x \in Fresh, x \notin Fresh'
      PROVE  CauseInv'
  <2>1. Adding' \in 0..1
    BY DEF Adding
  <2>2. Fresh' \subseteq Fresh \ {x}
    BY <1>1, <1>7
  <2>3. Cardinality(Fresh') \in Nat /\ Cardinality(Fresh') + 1 <= Cardinality(Fresh)
    BY <2>2, Countable, CountDrops
  <2> QED
    BY <1>1, <1>2, <1>3, <1>4, <1>5, <2>1, <2>3, SettledStep DEF Owed
<1> QED
  BY <1>1, <1>6, <1>7

(* The rollback goroutine takes an event and pays for its write with it.     *)
LEMMA RollbackSettles ==
  ASSUME IsFiniteSet(Namespaces), IsFiniteSet(Names), TypeInv, CauseInv, RollbackStep
  PROVE  CauseInv'
<1>1. /\ UNCHANGED <<hist, watching, cache, env, pc, at, cur>>
      /\ SameCounts
  BY OthersCharged, ChargedCounts
     DEF RollbackStep, RollbackLast, RollbackGet, RollbackRead, RollbackWrite,
         informer, worker
<1>2. /\ Revisions' = Revisions /\ Adding' = Adding /\ Stamped'
  BY <1>1 DEF Revisions, History, Adding, NextRev, StoreKey, CauseInv, Stamped
<1>3. /\ Cardinality(Revisions) \in Nat /\ Cardinality(Fresh) \in Nat
      /\ Cardinality(unread) \in Nat /\ Adding \in 0..1
  BY OwedType
<1>4. CASE RollbackLast
  <2>1. /\ rb.pc = "idle" /\ UNCHANGED <<api, lastRv, pending>>
        /\ \E i \in unread : unread' = unread \ {i}
    BY <1>4 DEF RollbackLast, apiVars, informer
  <2>2. Cardinality(unread') \in Nat /\ Cardinality(unread') + 1 <= Cardinality(unread)
    BY <2>1, Countable, CountDrops
  <2>3. TurningBack = 0 /\ TurningBack' \in 0..1
    BY <2>1 DEF TurningBack
  <2>4. Chains' /\ Fresh' = Fresh
    BY <1>1, <2>1, SameChains DEF CauseInv
  <2> QED
    BY <1>1, <1>2, <1>3, <2>2, <2>3, <2>4, SettledStep DEF Owed
<1>5. CASE RollbackGet \/ RollbackRead
  <2>1. rb.pc # "idle" /\ UNCHANGED <<api, lastRv, pending, unread>>
    BY <1>5 DEF RollbackGet, RollbackRead, apiVars, informer
  <2>2. TurningBack = 1 /\ TurningBack' \in 0..1
    BY <2>1 DEF TurningBack
  <2>3. Chains' /\ Fresh' = Fresh
    BY <1>1, <2>1, SameChains DEF CauseInv
  <2> QED
    BY <1>1, <1>2, <1>3, <2>1, <2>2, <2>3, SettledStep DEF Owed
<1>6. CASE RollbackWrite
  <2>1. rb.pc = "write" /\ rb' = RbIdle /\ unread' = unread
    BY <1>6 DEF RollbackWrite, Dropped
  <2>2. TurningBack = 1 /\ TurningBack' = 0
    BY <2>1 DEF TurningBack, RbIdle
  <2>3. CASE UNCHANGED <<apiVars, pending>>
    <3>1. Chains' /\ Fresh' = Fresh
      BY <1>1, <2>3, SameChains DEF CauseInv, apiVars
    <3> QED
      BY <1>1, <1>2, <1>3, <2>1, <2>2, <3>1, SettledStep DEF Owed
  <2>4. CASE Put(RollbackKey, RollbackSpec, StatusOf(rb.cur.rec, rb.cur.rev))
    <3>1. /\ RollbackKey \in Keys /\ RollbackSpec \in Specs
          /\ StatusOf(rb.cur.rec, rb.cur.rev) \in Statuses
          /\ StatusOf(rb.cur.rec, rb.cur.rev).last # "clock"
      BY <2>1, RollbackKeyType DEF StatusOf
    <3> PICK k \in Keys : k = RollbackKey
      BY <3>1
    <3> PICK spec \in Specs : spec = RollbackSpec
      BY <3>1
    <3> PICK status \in Statuses : status = StatusOf(rb.cur.rec, rb.cur.rev)
      BY <3>1
    <3>2. Chains' /\ Fresh' \subseteq Fresh \cup {<<k, lastRv + 1>>}
      BY <1>1, <2>4, <3>1, PutChains DEF CauseInv
    <3>3. Cardinality(Fresh') \in Nat /\ Cardinality(Fresh') <= Cardinality(Fresh) + 1
      BY <3>2, Countable, CountAdds
    <3> QED
      BY <1>1, <1>2, <1>3, <2>1, <2>2, <3>2, <3>3, SettledStep DEF Owed
  <2> QED
    BY <1>6, <2>3, <2>4 DEF RollbackWrite
<1> QED
  BY <1>4, <1>5, <1>6 DEF RollbackStep

(* What a user asks for may be owed.                                         *)
LEMMA UserAsks ==
  ASSUME IsFiniteSet(Namespaces), IsFiniteSet(Names), TypeInv, CauseInv, UserStep
  PROVE  CauseInv'
<1>1. UNCHANGED <<hist, watching, cache, env, pc, at, cur, rb>>
  BY DEF UserStep, CreateRelease, EditRelease, DeleteRelease, PostRollback, informer,
         worker, rollback
<1>2. /\ Revisions' = Revisions /\ Adding' = Adding /\ Stamped'
      /\ TurningBack' = TurningBack
  BY <1>1 DEF Revisions, History, Adding, NextRev, StoreKey, CauseInv, Stamped, TurningBack
<1>3. /\ Cardinality(Revisions) \in Nat /\ Cardinality(Fresh) \in Nat
      /\ Cardinality(unread) \in Nat /\ Adding \in 0..1 /\ TurningBack \in 0..1
      /\ used["create"] \in Nat /\ used["edit"] \in Nat /\ used["rollback"] \in Nat
  BY OwedType
<1>4. used \in [Kinds -> Nat]
  BY DEF TypeInv, TypeOK
<1>5. ASSUME NEW k \in Keys, NEW spec \in Specs, NEW status \in Statuses,
             status.last # "clock", Put(k, spec, status), unread' = unread,
             Spend("create") \/ Spend("edit")
      PROVE  CauseInv'
  <2>1. Chains' /\ Fresh' \subseteq Fresh \cup {<<k, lastRv + 1>>}
    BY <1>1, <1>5, PutChains DEF CauseInv
  <2>2. Cardinality(Fresh') \in Nat /\ Cardinality(Fresh') <= Cardinality(Fresh) + 1
    BY <2>1, Countable, CountAdds
  <2>3. /\ used'["crash"] = used["crash"] /\ used'["gap"] = used["gap"]
        /\ Asked' = Asked + 1
    BY <1>3, <1>4, <1>5 DEF Spend, Kinds, Asked
  <2> QED
    BY <1>2, <1>3, <1>5, <2>1, <2>2, <2>3 DEF CauseInv, Owed, Asked
<1>6. ASSUME NEW k \in Keys, CreateRelease(k)
      PROVE  CauseInv'
  <2>1. PICK spec \in UserSpecs : Put(k, spec, NewStatus)
    BY <1>6 DEF CreateRelease
  <2>2. spec \in Specs /\ NewStatus \in Statuses /\ NewStatus.last # "clock"
    BY InputType DEF NewStatus
  <2> PICK status \in Statuses : status = NewStatus
    BY <2>2
  <2> QED
    BY <1>5, <1>6, <2>1, <2>2 DEF CreateRelease, rollback
<1>7. ASSUME NEW k \in Keys, EditRelease(k)
      PROVE  CauseInv'
  <2>1. PICK spec \in UserSpecs : Put(k, spec, api[k].status)
    BY <1>7 DEF EditRelease
  <2>2. /\ spec \in Specs /\ api[k].status \in Statuses
        /\ api[k].status.last # "clock"
    BY <1>7, InputType DEF EditRelease, TypeInv, TypeOK, Objects, CauseInv, Chains, Chain
  <2> PICK status \in Statuses : status = api[k].status
    BY <2>2
  <2> QED
    BY <1>5, <1>7, <2>1, <2>2 DEF EditRelease, rollback
<1>8. ASSUME NEW k \in Keys, DeleteRelease(k)
      PROVE  CauseInv'
  <2>1. Chains' /\ Fresh' \subseteq Fresh
    BY <1>1, <1>8, DeleteChains DEF DeleteRelease, CauseInv
  <2>2. Cardinality(Fresh') \in Nat /\ Cardinality(Fresh') <= Cardinality(Fresh)
    BY <2>1, Countable, CountKeeps
  <2>3. SameCounts /\ unread' = unread
    BY <1>4, <1>8 DEF DeleteRelease, Spend, Kinds, SameCounts, Counted, rollback
  <2> QED
    BY <1>2, <1>3, <2>1, <2>2, <2>3, SettledStep DEF Owed
<1>9. CASE PostRollback
  <2>1. /\ Spend("rollback") /\ unread' = unread \cup {Len(events) + 1}
        /\ UNCHANGED <<api, lastRv, pending>>
    BY <1>9 DEF PostRollback, apiVars, informer
  <2>2. Cardinality(unread') \in Nat /\ Cardinality(unread') <= Cardinality(unread) + 1
    BY <2>1, Countable, CountAdds
  <2>3. Chains' /\ Fresh' = Fresh
    BY <1>1, <2>1, SameChains DEF CauseInv
  <2>4. /\ used'["crash"] = used["crash"] /\ used'["gap"] = used["gap"]
        /\ Asked' = Asked + 1
    <3>1. used' = [used EXCEPT !["rollback"] = used["rollback"] + 1]
      BY <2>1 DEF Spend
    <3>2. /\ used'["rollback"] = used["rollback"] + 1
          /\ used'["create"] = used["create"] /\ used'["edit"] = used["edit"]
          /\ used'["crash"] = used["crash"] /\ used'["gap"] = used["gap"]
      BY <1>4, <3>1 DEF Kinds
    <3> QED
      BY <1>3, <3>2 DEF Asked
  <2> QED
    BY <1>2, <1>3, <2>2, <2>3, <2>4 DEF CauseInv, Owed, Asked
<1> QED
  BY <1>6, <1>7, <1>8, <1>9 DEF UserStep

(* Without a gap or a crash nothing is listed again.                         *)
LEMMA OnlyLife ==
  ASSUME OneLifetime, TypeInv, CauseInv, Next
  PROVE  \/ UserStep \/ RollbackStep
         \/ \E k \in Keys : Begins(k)
         \/ Install \/ Upgrade \/ RecordRelease \/ Uninstall
<1>1. ~WatchClose /\ ~Crash
  BY NeverSpent DEF OneLifetime, Kinds, WatchClose, Crash
<1>2. ~Relist /\ ~WatchOpen
  BY DEF Relist, WatchOpen, CauseInv, Chains
<1>3. ASSUME NEW k \in Keys
      PROVE  ~DeleteFuncPanics(k)
  <2> SUFFICES ASSUME DeleteFuncPanics(k) PROVE FALSE
    OBVIOUS
  <2>1. pending[k] \in Seq(Deltas) /\ pending[k] # <<>> /\ Head(pending[k]).kind = "gone"
    BY DEF DeleteFuncPanics, TypeInv, TypeOK
  <2>2. 1 \in 1..Len(pending[k]) /\ Head(pending[k]) = pending[k][1]
    BY <2>1
  <2> QED
    BY <2>1, <2>2 DEF CauseInv, Chains, Chain, Delivered
<1> QED
  BY <1>1, <1>2, <1>3 DEF Next, WorkerStep, Deliver, Begins

LEMMA CauseStep ==
  ASSUME OneLifetime, IsFiniteSet(Namespaces), IsFiniteSet(Names),
         TypeInv, CauseInv, [Next]_vars
  PROVE  CauseInv'
<1>1. TypeInv'
  BY NextType
<1>2. CASE UNCHANGED vars
  <2>1. Chains' /\ Fresh' = Fresh
    BY <1>2, SameChains DEF CauseInv, vars
  <2>2. Revisions' = Revisions /\ Adding' = Adding /\ TurningBack' = TurningBack
    BY <1>2 DEF vars, Revisions, History, Adding, NextRev, StoreKey, TurningBack
  <2> QED
    BY <1>2, <2>1, <2>2 DEF CauseInv, Owed, Asked, Stamped, vars
<1> QED
  BY <1>1, <1>2, OnlyLife, UserAsks, RollbackSettles, BeginSettles, HandlerSettles

LEMMA InitCause == Init => CauseInv
<1> SUFFICES ASSUME Init PROVE CauseInv
  OBVIOUS
<1>1. Revisions = {} /\ Fresh = {} /\ unread = {}
  BY DEF Init, HistInit, Revisions, History, Fresh
<1>2. Adding = 0 /\ TurningBack = 0
  BY DEF Init, RbIdle, Adding, TurningBack, ReleaseLabels
<1>3. Owed = 0 /\ Asked = 0 /\ used["crash"] = 0 /\ used["gap"] = 0
  BY <1>1, <1>2, FS_EmptySet DEF Init, Owed, Asked, Kinds
<1>4. Chains /\ Stamped
  BY DEF Init, Chains, Chain, Stamped, ReleaseLabels
<1> QED
  BY <1>3, <1>4 DEF CauseInv

(* While the process lives and its watch holds, there are never more         *)
(* revisions, of all releases together, than users have asked for: the       *)
(* server's own status writes come back to it as updates, and it installs    *)
(* and upgrades nothing for their sake, however users, the rollback          *)
(* goroutine and failing calls come between.                                 *)
THEOREM RevisionsAreOwed ==
  ASSUME OneLifetime, IsFiniteSet(Namespaces), IsFiniteSet(Names)
  PROVE  Spec => []RevisionsHaveCauses
<1>1. TypeInv /\ CauseInv /\ [Next]_vars => CauseInv'
  BY CauseStep
<1>2. TypeInv /\ CauseInv => RevisionsHaveCauses
  <2> SUFFICES ASSUME TypeInv, CauseInv PROVE RevisionsHaveCauses
    OBVIOUS
  <2>1. Lifetimes = 1
    BY DEF CauseInv, Lifetimes
  <2>2. Owed <= Asked
    BY DEF CauseInv
  <2> QED
    BY <2>1, <2>2, OwedType DEF Owed, Asked, RevisionsHaveCauses
<1> QED
  BY <1>1, <1>2, InitCause, TypeInvariant, PTL DEF Spec
=============================================================================
