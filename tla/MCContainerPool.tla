-------------------------- MODULE MCContainerPool --------------------------
(***************************************************************************)
(* Instances of ContainerPool for TLC.  Sessions a1 and a2 belong to one   *)
(* user (a delegation), b1 to another.                                     *)
(***************************************************************************)
EXTENDS ContainerPool

CONSTANTS a1, a2, b1

ThreeSessions   == {a1, a2, b1}
ThreeBuckets    == [s \in ThreeSessions |-> IF s = b1 THEN "B" ELSE "A"]

\* a1 and a2 are interchangeable.
SameUser        == Permutations({a1, a2})
=============================================================================
