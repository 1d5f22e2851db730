---------------------------- MODULE MCKubeSteps ----------------------------
(***************************************************************************)
(* One namespace, charts that share a resource and one that renders to      *)
(* nothing.                                                                *)
(***************************************************************************)
EXTENDS KubeSteps

MCTemplates ==
  [c \in Charts |-> CASE c = "web" -> {"r1", "r2"}
                      [] c = "job" -> {"r2", "r3"}
                      [] OTHER -> {}]

NoHooks == [c \in Charts |-> {}]

OneName == {<<[text |-> "a", num |-> NoNumber]>>}
=============================================================================
