---------------------------- MODULE MCApiTokens ----------------------------
(* An instance of ApiTokens for TLC.                                       *)
EXTENDS ApiTokens, TLC

CONSTANTS adminScope

(* A scope that needs more than membership.                                *)
MCNeeds == adminScope :> 4

Symmetry == Permutations(Tokens) \cup Permutations(Requests)
============================================================================
