SPECIFICATION Spec
SYMMETRY Symmetry
CONSTANTS
  None = None
  adminScope = adminScope
  Tokens = {t1, t2, t3}
  Subjects = {s1}
  Scopes = {adminScope}
  Ranks = {0, 1, 4}
  Needs <- MCNeeds
  Requests = {r1, r2}
  MaxNow = 2
INVARIANTS
  OneSuccessor
  RevocationFinal
  DeadTokenRefused
  ScopesWithinRole
