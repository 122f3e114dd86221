---------------------------- MODULE MCEnvironment ----------------------------
(***************************************************************************)
(* Model checking of Environment: one user with one application.           *)
(***************************************************************************)
EXTENDS Environment

MCSource == {<<"cluster", "m">>, <<"u", "n">>, <<"u", "m">>}
MCBase == {<<"u", "m">>}
MCOwner == [a \in App |-> "u"]
MCFirstRefs == [a \in App |-> {"m"}]
MCRefs == [a \in App |-> {"n", "m"}]
MCOnChange == [a \in App |-> {"m", Own}]
MCDefault == [n \in Name |-> IF n = "m" THEN "y" ELSE Empty]
=============================================================================
