SPECIFICATION FairSpec
CONSTANTS
  None = None
  s1 = s1
  s2 = s2
  g1 = g1
  AllWorkspaces = {w1}
  Subjects = {s1, s2}
  Groups = {g1}
  GroupsOf <- MCGroupsOf
  Requests = {r1, r2}
INVARIANTS
  AdminRemains
PROPERTIES
  EveryChangeEnds
