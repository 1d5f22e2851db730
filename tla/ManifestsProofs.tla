-------------------------- MODULE ManifestsProofs --------------------------
(***************************************************************************)
(* What the order of the kinds is good for, proved for every chart whose   *)
(* files hold one document: namespaces come first and go last, unknown     *)
(* kinds come and go last, and an uninstall leaves what is to be kept.     *)
(***************************************************************************)
EXTENDS Manifests, FiniteSetTheorems, TLAPS

(* The properties of Less that sort.Sort relies on hold for any list of      *)
(* kinds that names none twice: it is irreflexive and transitive, and so is  *)
(* being neither before nor after (kindSorter.Less).                         *)
THEOREM KindsAreOrdered ==
  ASSUME NEW order \in Seq(STRING),
         \A i, j \in DOMAIN order : order[i] = order[j] => i = j
  PROVE  /\ \A a : ~Less(order, a, a)
         /\ \A a, b, c : Less(order, a, b) /\ Less(order, b, c) => Less(order, a, c)
         /\ \A a, b, c :
              ~Less(order, a, b) /\ ~Less(order, b, c) => ~Less(order, a, c)
<1>. DOMAIN order \subseteq Int
  OBVIOUS
<1>1. ASSUME NEW a  PROVE ~Less(order, a, a)
  BY DEF Less, Before, Ranked
<1>2. ASSUME NEW a, NEW b, NEW c, Less(order, a, b), Less(order, b, c)
      PROVE  Less(order, a, c)
  BY <1>2 DEF Less, Before, Ranked
<1>3. ASSUME NEW a, NEW b, NEW c, Less(order, a, c)
      PROVE  Less(order, a, b) \/ Less(order, b, c)
  BY <1>3 DEF Less, Before, Ranked
<1>. QED  BY <1>1, <1>2, <1>3

-----------------------------------------------------------------------------
(* The two tables. *)

KnownKinds == {"Namespace", "Secret", "ConfigMap", "PersistentVolume",
               "ServiceAccount", "Service", "Pod", "ReplicationController",
               "Deployment", "DaemonSet", "Ingress", "Job"}

(* InstallOrder and UninstallOrder know the same kinds; a namespace is the   *)
(* first to be installed and the last to be uninstalled.                     *)
LEMMA Tables ==
  /\ \A k : Ranked(InstallOrder, k) <=> Ranked(UninstallOrder, k)
  /\ \A k : Ranked(InstallOrder, k) /\ k # "Namespace" =>
              Less(InstallOrder, "Namespace", k)
  /\ \A k : Ranked(InstallOrder, k) /\ k # "Namespace" =>
              Less(UninstallOrder, k, "Namespace")
<1>1. \A k : Ranked(InstallOrder, k) <=> k \in KnownKinds
  BY DEF Ranked, InstallOrder, KnownKinds
<1>2. \A k : Ranked(UninstallOrder, k) <=> k \in KnownKinds
  BY DEF Ranked, UninstallOrder, KnownKinds
<1>3. \A i \in 2..12 : Before(InstallOrder, "Namespace", InstallOrder[i])
  BY DEF Before, InstallOrder
<1>4. \A i \in 1..11 : Before(UninstallOrder, UninstallOrder[i], "Namespace")
  BY DEF Before, UninstallOrder
<1>5. \A k : Ranked(InstallOrder, k) /\ k # "Namespace" =>
               Before(InstallOrder, "Namespace", k)
  BY <1>3 DEF Ranked, InstallOrder
<1>6. \A k : Ranked(UninstallOrder, k) /\ k # "Namespace" =>
               Before(UninstallOrder, k, "Namespace")
  BY <1>4 DEF Ranked, UninstallOrder
<1>. QED  BY <1>1, <1>2, <1>5, <1>6 DEF Less

-----------------------------------------------------------------------------
(* The inductive invariant. *)

Queued == {queue[i] : i \in DOMAIN queue}

SortTypes ==
  /\ files \in [Paths -> UNION {[1..n -> Docs] : n \in 0..MaxDocs}]
  /\ queue \in Seq(ManifestDocs)
  /\ made \subseteq ManifestDocs
  /\ cluster \subseteq made
  /\ stage \in {"rendered", "installing", "installed", "uninstalling", "uninstalled"}

QueuedOnce == \A i, j \in DOMAIN queue : queue[i] = queue[j] => i = j

InOrder(order) ==
  \A i, j \in DOMAIN queue :
    i < j => ~Less(order, Doc(queue[j]).kind, Doc(queue[i]).kind)

(* Nothing that is waiting should have come before what has been handled.    *)
Behind(order) ==
  \A x \in Handled, i \in DOMAIN queue :
    ~Less(order, Doc(queue[i]).kind, Doc(x).kind)

NamespacesMade ==
  \A x \in made, n \in ManifestDocs :
    /\ Doc(n).kind = "Namespace"
    /\ Doc(x).kind # "Namespace" /\ Ranked(InstallOrder, Doc(x).kind)
    => n \in made

Installing ==
  stage = "installing" =>
    /\ ManifestDocs = made \cup Queued
    /\ InOrder(InstallOrder)
    /\ Behind(InstallOrder)

Uninstalling ==
  stage \in {"uninstalling", "uninstalled"} =>
    /\ QueuedOnce
    /\ Queued \subseteq FilesToDelete
    /\ InOrder(UninstallOrder)
    /\ Behind(UninstallOrder)
    /\ made \ FilesToDelete \subseteq cluster
    /\ made \cap Queued \subseteq cluster
    /\ (cluster \cap FilesToDelete) \ es \subseteq Queued

SortInv ==
  /\ SortTypes
  /\ NamespacesMade
  /\ Installing
  /\ Uninstalling
  /\ stage \in {"rendered", "installing", "installed"} => cluster = made /\ es = {}
  /\ stage = "rendered" => made = {}
  /\ stage = "uninstalled" => queue = <<>>

(* A file with a single document is the document.                            *)
OneDocument == MaxDocs = 1

LEMMA SingleDocs ==
  ASSUME OneDocument, SortTypes, NEW x \in ManifestDocs
  PROVE  /\ x = <<x[1], 1>>
         /\ Doc(x) = files[x[1]][1]
         /\ Doc(x).hook = "none"
BY DEF OneDocument, ManifestDocs, Generic, Doc

(* What is left when the first document of the queue has been taken.         *)
LEMMA Taken ==
  ASSUME SortTypes, queue # <<>>, queue' = Tail(queue), files' = files
  PROVE  /\ queue' \in Seq(ManifestDocs)
         /\ Head(queue) \in ManifestDocs
         /\ Head(queue) = queue[1] /\ 1 \in DOMAIN queue
         /\ \A i \in DOMAIN queue' :
              i \in Int /\ i + 1 \in DOMAIN queue /\ queue'[i] = queue[i + 1]
         /\ Queued = Queued' \cup {Head(queue)}
         /\ \A i \in DOMAIN queue : i \in Int /\ i >= 1
<1>1. queue \in Seq(ManifestDocs) /\ Len(queue) \in Nat /\ Len(queue) >= 1
      /\ DOMAIN queue = 1..Len(queue)
  BY DEF SortTypes
<1>2. /\ queue' \in Seq(ManifestDocs)
      /\ Len(queue') = Len(queue) - 1
      /\ DOMAIN queue' = 1..(Len(queue) - 1)
      /\ \A i \in 1..(Len(queue) - 1) : queue'[i] = queue[i + 1]
      /\ Head(queue) = queue[1]
  BY <1>1
<1>3. Queued = Queued' \cup {Head(queue)}
  <2>1. ASSUME NEW i \in DOMAIN queue  PROVE queue[i] \in Queued' \cup {Head(queue)}
    <3>1. CASE i = 1
      BY <3>1, <1>2
    <3>2. CASE i # 1
      <4>1. i - 1 \in DOMAIN queue' /\ queue'[i - 1] = queue[i]
        BY <3>2, <1>1, <1>2
      <4>. QED  BY <4>1 DEF Queued
    <3>. QED  BY <3>1, <3>2
  <2>2. ASSUME NEW i \in DOMAIN queue'  PROVE queue'[i] \in Queued
    <3>1. i + 1 \in DOMAIN queue /\ queue'[i] = queue[i + 1]
      BY <1>1, <1>2
    <3>. QED  BY <3>1 DEF Queued
  <2>. QED  BY <2>1, <2>2, <1>1, <1>2 DEF Queued
<1>. QED  BY <1>1, <1>2, <1>3

(* The files of a chart do not change, nor does what depends on them alone.  *)
LEMMA SameFiles ==
  ASSUME files' = files
  PROVE  /\ ManifestDocs' = ManifestDocs
         /\ FilesToDelete' = FilesToDelete
         /\ \A x : Doc(x)' = Doc(x)
BY DEF ManifestDocs, FilesToDelete, Generic, Skipped, Doc

LEMMA ManifestCount ==
  /\ Cardinality(ManifestDocs) \in Nat
  /\ Cardinality(FilesToDelete) \in Nat
<1>1. IsFiniteSet(Paths) /\ IsFiniteSet(1..MaxDocs)
  BY ManifestsAssumption, FS_Interval DEF ManifestsAssumption
<1>2. IsFiniteSet(Paths \X (1..MaxDocs))
  BY <1>1, FS_Product
<1>3. ManifestDocs \subseteq Paths \X (1..MaxDocs) /\ FilesToDelete \subseteq ManifestDocs
  BY DEF ManifestDocs, FilesToDelete
<1>. QED  BY <1>2, <1>3, FS_Subset, FS_CardinalityType

LEMMA InitSortInv == Init => SortInv
BY DEF Init, SortInv, SortTypes, NamespacesMade, Installing, Uninstalling

(* Starting an install puts every document of the manifest into the queue.   *)
LEMMA InstallStep == ASSUME OneDocument, SortInv, Install  PROVE SortInv'
<1>. USE DEF SortInv, Install
<1>0. /\ ManifestDocs' = ManifestDocs
      /\ \A x : Doc(x)' = Doc(x)
  BY SameFiles
<1>1. /\ queue' \in Sequenced(ManifestDocs)
      /\ InstallSorted(queue')
      /\ made' = {} /\ cluster' = {} /\ es' = {}
  OBVIOUS
<1>2. /\ queue' \in [1..Cardinality(ManifestDocs) -> ManifestDocs]
      /\ ManifestDocs = Queued'
  BY <1>1 DEF Sequenced, Bijection, Injection, Surjection, Queued
<1>3. queue' \in Seq(ManifestDocs)
  BY <1>1, ManifestCount, <1>2
<1>4. InOrder(InstallOrder)'
  <2>. SUFFICES ASSUME NEW i \in DOMAIN queue', NEW j \in DOMAIN queue', i < j
                PROVE  ~Less(InstallOrder, Doc(queue'[j]).kind, Doc(queue'[i]).kind)
    BY <1>0 DEF InOrder
  <2>1. queue'[i] \in ManifestDocs /\ queue'[j] \in ManifestDocs
    BY <1>2
  <2>2. queue'[i][2] = 1 /\ queue'[j][2] = 1
    BY <2>1, SingleDocs
  <2>3. queue'[i][1] # queue'[j][1]
    BY <2>2, <1>1 DEF InstallSorted
  <2>4. ~Less(InstallOrder, files[queue'[j][1]][1].kind, files[queue'[i][1]][1].kind)
    BY <2>3, <1>1 DEF InstallSorted
  <2>. QED  BY <2>4, <2>1, SingleDocs
<1>5. SortTypes'
  BY <1>0, <1>1, <1>3 DEF SortTypes
<1>6. Installing'
  BY <1>0, <1>1, <1>2, <1>4 DEF Installing, Behind, Handled
<1>. QED  BY <1>1, <1>5, <1>6 DEF NamespacesMade, Uninstalling

LEMMA CreateStep ==
  ASSUME OneDocument, SortInv, CreateResource  PROVE SortInv'
<1>. USE DEF SortInv, CreateResource
<1>0. /\ ManifestDocs' = ManifestDocs
      /\ \A x : Doc(x)' = Doc(x)
  BY SameFiles
<1>1. /\ stage = "installing" /\ stage' = "installing"
      /\ made' = made \cup {Head(queue)}
      /\ cluster' = made' /\ es' = {}
  OBVIOUS
<1>2. /\ queue' \in Seq(ManifestDocs)
      /\ Head(queue) \in ManifestDocs
      /\ Head(queue) = queue[1] /\ 1 \in DOMAIN queue
      /\ \A i \in DOMAIN queue' :
           i \in Int /\ i + 1 \in DOMAIN queue /\ queue'[i] = queue[i + 1]
      /\ Queued = Queued' \cup {Head(queue)}
      /\ \A i \in DOMAIN queue : i \in Int /\ i >= 1
  BY Taken
<1>3. /\ ManifestDocs = made \cup Queued
      /\ InOrder(InstallOrder)
      /\ Behind(InstallOrder)
  BY <1>1 DEF Installing
<1>4. InOrder(InstallOrder)'
  BY <1>0, <1>2, <1>3 DEF InOrder
<1>5. Behind(InstallOrder)'
  <2>. SUFFICES ASSUME NEW x \in made', NEW i \in DOMAIN queue'
                PROVE  ~Less(InstallOrder, Doc(queue'[i]).kind, Doc(x).kind)
    BY <1>0, <1>1 DEF Behind, Handled
  <2>1. i + 1 \in DOMAIN queue /\ queue'[i] = queue[i + 1] /\ 1 < i + 1
    BY <1>2
  <2>2. CASE x = queue[1]
    BY <2>1, <2>2, <1>2, <1>3 DEF InOrder
  <2>3. CASE x # queue[1]
    <3>1. x \in Handled
      BY <2>3, <1>1, <1>2 DEF Handled
    <3>. QED  BY <3>1, <2>1, <1>3 DEF Behind
  <2>. QED  BY <2>2, <2>3
<1>6. ManifestDocs' = made' \cup Queued'
  BY <1>0, <1>1, <1>2, <1>3
<1>7. Installing'
  BY <1>4, <1>5, <1>6 DEF Installing
<1>8. SortTypes'
  BY <1>0, <1>1, <1>2 DEF SortTypes
<1>9. NamespacesMade'
  (* a namespace that still waits would be behind what was made *)
  <2>. SUFFICES ASSUME NEW x \in made', NEW n \in ManifestDocs,
                       Doc(n).kind = "Namespace", Doc(x).kind # "Namespace",
                       Ranked(InstallOrder, Doc(x).kind)
                PROVE  n \in made'
    BY <1>0 DEF NamespacesMade
  <2>1. Less(InstallOrder, Doc(n).kind, Doc(x).kind)
    BY Tables
  <2>2. n \notin Queued'
    <3>. SUFFICES ASSUME NEW i \in DOMAIN queue', n = queue'[i]  PROVE FALSE
      BY DEF Queued
    <3>. QED  BY <2>1, <1>0, <1>1, <1>5 DEF Behind, Handled
  <2>. QED  BY <2>2, <1>0, <1>6
<1>. QED  BY <1>1, <1>7, <1>8, <1>9 DEF Uninstalling

LEMMA EndInstallStep == ASSUME SortInv, EndInstall  PROVE SortInv'
<1>. USE DEF SortInv, EndInstall
<1>0. /\ ManifestDocs' = ManifestDocs
      /\ \A x : Doc(x)' = Doc(x)
  BY SameFiles
<1>1. SortTypes'
  BY <1>0 DEF SortTypes
<1>2. NamespacesMade'
  BY <1>0 DEF NamespacesMade
<1>. QED  BY <1>1, <1>2 DEF Installing, Uninstalling

(* Starting an uninstall puts every document that may be deleted into the    *)
(* queue, once.                                                              *)
LEMMA UninstallStep == ASSUME SortInv, Uninstall  PROVE SortInv'
<1>. USE DEF SortInv, Uninstall
<1>0. /\ ManifestDocs' = ManifestDocs
      /\ FilesToDelete' = FilesToDelete
      /\ \A x : Doc(x)' = Doc(x)
  BY SameFiles
<1>1. /\ queue' \in Sequenced(FilesToDelete)
      /\ UninstallSorted(queue')
      /\ stage' = "uninstalling"
      /\ made' = made /\ cluster' = made /\ es' = {}
  OBVIOUS
<1>2. /\ queue' \in [1..Cardinality(FilesToDelete) -> FilesToDelete]
      /\ FilesToDelete = Queued'
      /\ QueuedOnce'
  BY <1>1 DEF Sequenced, Bijection, Injection, Surjection, IsInjective, Queued, QueuedOnce
<1>3. FilesToDelete \subseteq ManifestDocs
  BY DEF FilesToDelete
<1>4. queue' \in Seq(ManifestDocs)
  BY <1>2, <1>3, ManifestCount
<1>5. InOrder(UninstallOrder)'
  BY <1>0, <1>1 DEF InOrder, UninstallSorted
<1>6. Handled' = {}
  BY <1>0, <1>1, <1>2 DEF Handled, Queued
<1>7. Uninstalling'
  BY <1>0, <1>1, <1>2, <1>5, <1>6 DEF Uninstalling, Behind
<1>8. SortTypes'
  BY <1>0, <1>1, <1>4 DEF SortTypes
<1>9. NamespacesMade'
  BY <1>0, <1>1 DEF NamespacesMade
<1>. QED  BY <1>1, <1>7, <1>8, <1>9 DEF Installing

LEMMA DeleteStep == ASSUME SortInv, DeleteResource  PROVE SortInv'
<1>. USE DEF SortInv, DeleteResource
<1>. DEFINE d == Head(queue)
<1>0. /\ ManifestDocs' = ManifestDocs
      /\ FilesToDelete' = FilesToDelete
      /\ \A x : Doc(x)' = Doc(x)
  BY SameFiles
<1>1. /\ stage = "uninstalling" /\ stage' = "uninstalling"
      /\ made' = made
      /\ cluster \ {d} \subseteq cluster' /\ cluster' \subseteq cluster
      /\ es \subseteq es' /\ (d \notin cluster' \/ d \in es')
  OBVIOUS
<1>2. /\ queue' \in Seq(ManifestDocs)
      /\ d \in ManifestDocs
      /\ d = queue[1] /\ 1 \in DOMAIN queue
      /\ \A i \in DOMAIN queue' :
           i \in Int /\ i + 1 \in DOMAIN queue /\ queue'[i] = queue[i + 1]
      /\ Queued = Queued' \cup {d}
      /\ \A i \in DOMAIN queue : i \in Int /\ i >= 1
  BY Taken
<1>3. /\ QueuedOnce
      /\ Queued \subseteq FilesToDelete
      /\ InOrder(UninstallOrder)
      /\ Behind(UninstallOrder)
      /\ made \ FilesToDelete \subseteq cluster
      /\ made \cap Queued \subseteq cluster
      /\ (cluster \cap FilesToDelete) \ es \subseteq Queued
  BY <1>1 DEF Uninstalling
<1>. HIDE DEF d
<1>4. d \notin Queued' /\ d \in FilesToDelete
  <2>1. \A i \in DOMAIN queue' : i + 1 # 1
    BY <1>2
  <2>. QED  BY <2>1, <1>2, <1>3 DEF Queued, QueuedOnce
<1>5. QueuedOnce'
  BY <1>2, <1>3 DEF QueuedOnce
<1>6. InOrder(UninstallOrder)'
  BY <1>0, <1>2, <1>3 DEF InOrder
<1>7. Behind(UninstallOrder)'
  <2>. SUFFICES ASSUME NEW x \in FilesToDelete \ Queued', NEW i \in DOMAIN queue'
                PROVE  ~Less(UninstallOrder, Doc(queue'[i]).kind, Doc(x).kind)
    BY <1>0, <1>1 DEF Behind, Handled, Queued
  <2>1. i + 1 \in DOMAIN queue /\ queue'[i] = queue[i + 1] /\ 1 < i + 1
    BY <1>2
  <2>2. CASE x = d
    BY <2>1, <2>2, <1>2, <1>3 DEF InOrder
  <2>3. CASE x # d
    <3>1. x \in Handled
      BY <2>3, <1>1, <1>2 DEF Handled, Queued
    <3>. QED  BY <3>1, <2>1, <1>3 DEF Behind
  <2>. QED  BY <2>2, <2>3
<1>8. Uninstalling'
  <2>1. Queued' \subseteq FilesToDelete'
    BY <1>0, <1>2, <1>3
  <2>2. made' \ FilesToDelete' \subseteq cluster'
    BY <1>0, <1>1, <1>3, <1>4
  <2>3. made' \cap Queued' \subseteq cluster'
    BY <1>1, <1>2, <1>3, <1>4
  <2>4. (cluster' \cap FilesToDelete') \ es' \subseteq Queued'
    BY <1>0, <1>1, <1>2, <1>3
  <2>. QED  BY <2>1, <2>2, <2>3, <2>4, <1>5, <1>6, <1>7 DEF Uninstalling
<1>9. SortTypes'
  BY <1>0, <1>1, <1>2 DEF SortTypes
<1>10. NamespacesMade'
  BY <1>0, <1>1 DEF NamespacesMade
<1>. QED  BY <1>1, <1>8, <1>9, <1>10 DEF Installing

LEMMA EndUninstallStep == ASSUME SortInv, EndUninstall  PROVE SortInv'
<1>. USE DEF SortInv, EndUninstall
<1>0. /\ ManifestDocs' = ManifestDocs
      /\ FilesToDelete' = FilesToDelete
      /\ \A x : Doc(x)' = Doc(x)
  BY SameFiles
<1>1. SortTypes'
  BY <1>0 DEF SortTypes
<1>2. NamespacesMade'
  BY <1>0 DEF NamespacesMade
<1>3. Uninstalling'
  BY <1>0 DEF Uninstalling, QueuedOnce, Queued, InOrder, Behind, Handled
<1>. QED  BY <1>1, <1>2, <1>3 DEF Installing

LEMMA Stutter == ASSUME SortInv, UNCHANGED vars  PROVE SortInv'
<1>. USE DEF SortInv, vars
<1>0. /\ ManifestDocs' = ManifestDocs
      /\ FilesToDelete' = FilesToDelete
      /\ \A x : Doc(x)' = Doc(x)
  BY SameFiles
<1>1. SortTypes'
  BY <1>0 DEF SortTypes
<1>2. NamespacesMade'
  BY <1>0 DEF NamespacesMade
<1>3. Installing'
  BY <1>0 DEF Installing, Queued, InOrder, Behind, Handled
<1>4. Uninstalling'
  BY <1>0 DEF Uninstalling, QueuedOnce, Queued, InOrder, Behind, Handled
<1>. QED  BY <1>1, <1>2, <1>3, <1>4

(* SortInv is an invariant of every chart with one document in a file: what  *)
(* is queued is sorted and behind what was handled, and is all that is left. *)
THEOREM SortInvariant == OneDocument /\ Spec => []SortInv
<1>. SUFFICES ASSUME OneDocument  PROVE Spec => []SortInv
  OBVIOUS
<1>1. SortInv /\ [Next]_vars => SortInv'
  <2>. SUFFICES ASSUME SortInv, [Next]_vars  PROVE SortInv'
    OBVIOUS
  <2>1. CASE Install
    BY <2>1, InstallStep
  <2>2. CASE CreateResource
    BY <2>2, CreateStep
  <2>3. CASE EndInstall
    BY <2>3, EndInstallStep
  <2>4. CASE Uninstall
    BY <2>4, UninstallStep
  <2>5. CASE DeleteResource
    BY <2>5, DeleteStep
  <2>6. CASE EndUninstall
    BY <2>6, EndUninstallStep
  <2>7. CASE UNCHANGED vars
    BY <2>7, Stutter
  <2>. QED  BY <2>1, <2>2, <2>3, <2>4, <2>5, <2>6, <2>7 DEF Next
<1>. QED  BY <1>1, InitSortInv, PTL DEF Spec

-----------------------------------------------------------------------------
(* What follows from it. *)

(* A resource of an unknown kind is created, and deleted, after all of a     *)
(* known kind (sortManifests with InstallOrder and with UninstallOrder).     *)
THEOREM UnknownIsLast == OneDocument /\ Spec => []UnknownLast
<1>1. SortInv => UnknownLast
  <2>. SUFFICES ASSUME SortInv, stage \in {"installing", "uninstalling"},
                       NEW x \in Handled, NEW i \in DOMAIN queue,
                       Ranked(InstallOrder, Doc(queue[i]).kind)
                PROVE  Ranked(InstallOrder, Doc(x).kind)
    BY DEF UnknownLast
  <2>1. CASE stage = "installing"
    BY <2>1 DEF SortInv, Installing, Behind, Less
  <2>2. CASE stage = "uninstalling"
    BY <2>2, Tables DEF SortInv, Uninstalling, Behind, Less
  <2>. QED  BY <2>1, <2>2
<1>. QED  BY <1>1, SortInvariant, PTL

(* While a resource of a known kind is in the cluster, its chart's           *)
(* namespaces are: they are created first and deleted last.                  *)
THEOREM NamespacesLast == OneDocument /\ Spec => []NamespacesOutlive
<1>. SUFFICES ASSUME OneDocument  PROVE Spec => []NamespacesOutlive
  OBVIOUS
<1>1. SortInv => NamespacesOutlive
  <2>. SUFFICES ASSUME SortInv, NEW x \in cluster \ es, NEW n \in ManifestDocs,
                       Doc(n).kind = "Namespace", Doc(x).kind # "Namespace",
                       Ranked(InstallOrder, Doc(x).kind), Doc(x).policy = "none"
                PROVE  n \in cluster \cup es
    BY DEF NamespacesOutlive
  <2>1. x \in made /\ x \in ManifestDocs /\ n \in made
    BY DEF SortInv, SortTypes, NamespacesMade
  <2>2. CASE stage \in {"rendered", "installing", "installed"}
    BY <2>1, <2>2 DEF SortInv
  <2>3. CASE stage \in {"uninstalling", "uninstalled"}
    <3>1. /\ Queued \subseteq FilesToDelete
          /\ Behind(UninstallOrder)
          /\ made \ FilesToDelete \subseteq cluster
          /\ made \cap Queued \subseteq cluster
          /\ (cluster \cap FilesToDelete) \ es \subseteq Queued
      BY <2>3 DEF SortInv, Uninstalling
    <3>2. x \in FilesToDelete
      BY <2>1, SingleDocs DEF SortInv, FilesToDelete
    <3>3. x \in Queued
      BY <3>1, <3>2
    <3>4. n \notin Handled
      (* x waits, and a namespace is deleted after it *)
      BY <3>1, <3>3, Tables DEF Behind, Queued
    <3>5. n \in Queued \/ n \notin FilesToDelete
      BY <2>3, <3>4 DEF Handled, Queued
    <3>. QED  BY <2>1, <3>1, <3>5
  <2>. QED  BY <2>2, <2>3 DEF SortInv, SortTypes
<1>. QED  BY <1>1, SortInvariant, PTL

(* When no document has a policy but keep, an uninstall deletes what the     *)
(* install created but what is to be kept (UninstallRelease).                *)
THEOREM UninstallComplete ==
  ASSUME OneDocument, \A doc \in Docs : doc.policy \in {"none", "keep"}
  PROVE  Spec => []UninstallLeavesKept
<1>1. SortInv => UninstallLeavesKept
  <2>. SUFFICES ASSUME SortInv, stage = "uninstalled"
                PROVE  cluster \ es = {x \in made \ es : Doc(x).policy = "keep"}
    BY DEF UninstallLeavesKept
  <2>1. /\ Queued = {}
        /\ made \ FilesToDelete \subseteq cluster
        /\ (cluster \cap FilesToDelete) \ es \subseteq Queued
        /\ cluster \subseteq made /\ made \subseteq ManifestDocs
    BY DEF SortInv, SortTypes, Uninstalling, Queued
  <2>2. ASSUME NEW x \in ManifestDocs
        PROVE  /\ Doc(x).policy \in {"none", "keep"}
               /\ x \in FilesToDelete <=> Doc(x).policy = "none"
    <3>1. Doc(x) \in Docs /\ Doc(x).hook = "none"
      BY SingleDocs DEF SortInv, SortTypes, ManifestDocs, Doc, OneDocument
    <3>. QED  BY <3>1 DEF FilesToDelete
  <2>. QED  BY <2>1, <2>2
<1>. QED  BY <1>1, SortInvariant, PTL
=============================================================================
