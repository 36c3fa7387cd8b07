-------------------------- MODULE MCHazardRotation --------------------------
\* Instances of HazardRotation for TLC: one or two servers, two patterns.
EXTENDS HazardRotation, TLC
CONSTANTS s1, s2, h1, h2
Symmetry == Permutations({s1, s2}) \cup Permutations({h1, h2})
=============================================================================
