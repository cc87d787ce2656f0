--------------------------- MODULE MCQueryCache ---------------------------
(* Instances of QueryCache for TLC.                                        *)
EXTENDS QueryCache, TLC

Symmetry ==
  Permutations(Callers) \cup Permutations(Keys)
    \cup Permutations(Flights) \cup Permutations(Previews)
============================================================================
