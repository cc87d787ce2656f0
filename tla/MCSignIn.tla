------------------------------ MODULE MCSignIn ------------------------------
(* An instance of SignIn for TLC.                                          *)
EXTENDS SignIn, TLC

Symmetry ==
  Permutations(Tabs) \cup Permutations(Requests) \cup Permutations(Flows)
    \cup Permutations(Codes) \cup Permutations(Sids) \cup Permutations(Subjects)
============================================================================
