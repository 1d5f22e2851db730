--------------------------- MODULE MCReleaseServer ---------------------------
(***************************************************************************)
(* Small instances of the release server: one or two namespaces, one name,  *)
(* the charts "web" and "job" whose resources overlap, three values files.  *)
(***************************************************************************)
EXTENDS ReleaseServerProps

(* "web" renders to r1 and r2, "job" to r2 and r3; r3 is annotated "keep"   *)
(* where the configuration says so.  "broken" does not render, "invalid"    *)
(* renders to a manifest the schema rejects, "empty" renders to nothing.    *)
MCTemplates ==
  [c \in Charts |-> CASE c = "web" -> {"r1", "r2"}
                      [] c = "job" -> {"r2", "r3"}
                      [] c = "empty" -> {}
                      [] OTHER -> {"r1"}]

MCHooks == [c \in Charts |-> IF c = "web" THEN HookEvents ELSE {}]

NoHooks == [c \in Charts |-> {}]

(* The hook whose failure ends an upgrade that was applied and is not         *)
(* recorded; a post-install hook that fails, a restart and the second install *)
(* within the same second as the first would look like a resync, which is     *)
(* left out here.                                                            *)
UpgradeHooks == [c \in Charts |-> IF c = "web" THEN {"post-upgrade"} ELSE {}]

User(c, v) == [chart |-> c, config |-> v, dryRun |-> FALSE,
               disableHooks |-> FALSE, purge |-> FALSE]

(* Specs of plain users: two charts, two configurations.                    *)
PlainSpecs == {User("web", "v1"), User("web", "v2"), User("job", "v1")}

(* Everything a spec can say.                                               *)
AllSpecs ==
  PlainSpecs \cup
  {User("broken", "v1"), User("invalid", "v1"), User("empty", "v1"),
   User("job", "none"),
   [User("web", "v2") EXCEPT !.dryRun = TRUE],
   [User("web", "v2") EXCEPT !.disableHooks = TRUE],
   [User("job", "v1") EXCEPT !.purge = TRUE]}

(* Two charts, one of them without values: an edit from the other takes its  *)
(* values over.                                                              *)
TwoCharts == {User("web", "v1"), User("job", "none")}

FewSpecs == {User("web", "v1"), User("web", "v2")}

Word(text) == [text |-> text, num |-> NoNumber]

Number(text, n) == [text |-> text, num |-> n]

(* One release, "a".                                                        *)
OneName == {<<Word("a")>>}

Back(parts) ==
  [object |-> parts, readable |-> TRUE, dryRun |-> FALSE, disableHooks |-> FALSE]

ToRevision(n) == Back(MakeKey(<<Word("a")>>, n))

ToPrevious == {ToRevision(0)}

DryRollback == {[ToRevision(1) EXCEPT !.dryRun = TRUE]}

(* Names as users may get them wrong: "a-v2", "a-2", "a-x", "a", "-v1",      *)
(* "a-b-v1", and numbers beyond 32 bits (4 here): "a-v17", "a-v9", "a-v99".  *)
AnyObject ==
  {ToRevision(n) : n \in {0, 1, 2, 9, 17, 99}} \cup
  {Back(p) : p \in {<<Word("a"), Number("none", 2)>>, <<Word("a"), Word("x")>>,
                    <<Word("a")>>, <<Empty, Number("v", 1)>>,
                    <<Word("a"), Word("b"), Number("v", 1)>>}} \cup
  {[ToRevision(1) EXCEPT !.readable = FALSE]}

NoLimit == [x \in Kinds |-> 0]

(* create, edit, delete, rollback, crash, gap: how many of each.            *)
Events(c, e, d, r, x, g) ==
  [NoLimit EXCEPT !["create"] = c, !["edit"] = e, !["delete"] = d,
                  !["rollback"] = r, !["crash"] = x, !["gap"] = g]

TwoLives == [Events(2, 2, 1, 1, 0, 0) EXCEPT !["kube"] = 1, !["api"] = 1]

Restarts == Events(2, 1, 1, 1, 1, 1)

TwoNamespaces == Events(2, 2, 0, 1, 0, 0)

EveryFault ==
  [Events(1, 1, 1, 1, 0, 0) EXCEPT !["kube"] = 1, !["api"] = 1, !["store"] = 1,
                                   !["discovery"] = 1]

CreateEdit == Events(1, 1, 0, 0, 0, 0)

CreateEditThrice == Events(1, 3, 0, 0, 0, 0)

CreateCrash == Events(1, 0, 0, 0, 1, 0)

CreateTwoDelete == Events(2, 0, 1, 0, 0, 0)
=============================================================================
