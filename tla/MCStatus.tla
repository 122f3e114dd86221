------------------------------ MODULE MCStatus ------------------------------
(* A small instance of Status for TLC, and the variants of its definitions  *)
(* that the properties tell from the code.                                  *)
EXTENDS Status, FiniteSets

\* Bound: one informer is behind at a time.
OneBehind ==
    Cardinality({i \in 1..3 : CASE i = 1 -> workSeen # work
                                [] i = 2 -> podSeen # pod
                                [] i = 3 -> appNews}) <= 1
=============================================================================
