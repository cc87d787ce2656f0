SPECIFICATION FairSpec
CONSTANTS
  Callers = {c1, c2}
  Keys = {k1}
  Flights = {f1, f2}
  Previews = {p1}
  queryCacheEntries = 1
  queryFlightLimit = 1
  slotLimit = 1
  ttl = 1
  MaxSource = 0
  MaxNow = 1
  None = None
PROPERTIES
  EveryRequestEnds
  AbandonedWorkEnds
