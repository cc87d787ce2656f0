SPECIFICATION Spec
SYMMETRY Symmetry
CONSTANTS
  Callers = {c1, c2}
  Keys = {k1, k2}
  Flights = {f1, f2}
  Previews = {p1}
  queryCacheEntries = 1
  queryFlightLimit = 1
  slotLimit = 2
  ttl = 1
  MaxSource = 1
  MaxNow = 1
  None = None
INVARIANTS
  TypeOK
  LiveWorkKept
  OneFlightPerKey
  SlotsAccounted
  CacheBounded
  NoStaleAnswer
PROPERTY
  ImplementsAnswers
