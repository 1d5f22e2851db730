------------------------------ MODULE MCHooks ------------------------------
(***************************************************************************)
(* Two releases named "a", one of them in the namespace "a", and a chart    *)
(* with two hooks: a Job that runs before an install and around an upgrade, *)
(* and another kind that runs around an install and before a deletion.      *)
(***************************************************************************)
EXTENDS Hooks

TwoNamedA == {<<"n1", "a">>, <<"a", "a">>}

MCEventsOf ==
  [h \in Files |->
     IF h = "job" THEN {<<"pre", "install">>, <<"pre", "upgrade">>, <<"post", "upgrade">>}
     ELSE {<<"pre", "install">>, <<"post", "install">>, <<"pre", "delete">>,
           <<"post", "delete">>}]
=============================================================================
