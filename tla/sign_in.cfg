SPECIFICATION Spec
SYMMETRY Symmetry
CONSTANTS
  None = None
  Tabs = {t1, t2}
  Requests = {r1, r2}
  Flows = {f1, f2}
  Codes = {c1, c2}
  Sids = {s1, s2}
  Subjects = {u1}
  FlowTTL = 1
  SessionTTL = 1
  MaxNow = 2
INVARIANTS
  TypeOK
  SessionsFromFlows
  SignInKept
  DeadSessionRefused
PROPERTY AnonymousSticks
