SPECIFICATION RecordsSpec
CONSTANTS
  Rows = {1, 2}
  Columns = {c}
  Values = {0, 1}
  Drafts = {d}
  Terms = {all, some}
  Filters = {unfiltered, filtered}
  all = all
  some = some
  unfiltered = unfiltered
  filtered = filtered
  Hits <- MCHits
  NoTerm = all
  NoFilter = unfiltered
  Records = {r}
  Owner <- MCOwner
  PageSize = 1
  PageSlots = {p}
  None = None
  Tables <- MCTables
  MaxGestures = 4
  MaxOthers = 1
INVARIANT RecordsTypeOK ReadsOwnWrites InsertOnce RelatedFits
PROPERTY EditsKeepTheirQuery
CHECK_DEADLOCK FALSE
