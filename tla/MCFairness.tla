------------------------------- MODULE MCFairness -------------------------------
(***************************************************************************)
(* Instances of Fairness for TLC: two overlapping activations, two rounds, *)
(* and the sets of events that the properties tell apart.                  *)
(***************************************************************************)
EXTENDS Fairness, TLC

CONSTANTS r1, r2, b1, b2, u1

MCScenarios == {{}, {"overlap"}, {"flush", "expire"}, {"db", "crash"}, {"drop"}}

Symmetry == Permutations({r1, r2}) \cup Permutations({b1, b2})
=============================================================================
