---------------------------- MODULE MCWideModel ----------------------------
(* Small instances of WideModel.                                           *)
EXTENDS WideModel, TLC

CONSTANTS m1, m2, m3

\* Two models in the registry, and a package whose weights were never fetched.
MCPackages ==
    {[id |-> m, weights |-> TRUE, present |-> TRUE] : m \in {m1, m2}}
    \cup {[id |-> m3, weights |-> TRUE, present |-> FALSE]}

MCSymmetry == Permutations(Slots) \cup Permutations({m1, m2})
=============================================================================
