--------------------------- MODULE MCWorkspaces ---------------------------
(* An instance of Workspaces for TLC.                                      *)
EXTENDS Workspaces

CONSTANTS s1, s2, g1

(* One of the subjects is in the group.                                    *)
MCGroupsOf == [s \in Subjects |-> IF s = s2 THEN {g1} ELSE {}]
============================================================================
