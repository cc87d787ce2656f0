SPECIFICATION ConnectionsSpec
CONSTANTS
  None = None
  tt = tt  u = u  s1 = s1  s2 = s2  pt = pt  pg = pg  nn = nn  ff = ff  gg = gg
  ServerIds <- MCServerIds
  MapTables = {tt, u}
  Schemas = {s1, s2}
  SchemaOf <- MCSchemaOf
  GuessOf <- MCGuessOf
  GeometryOf <- MCGeometryOf
  NumericOf <- MCNumericOf
  FilterTerms = {ff, gg}
  FirstStored <- MCFirstStored
  PlacesOf <- MCPlacesOf
  Names = {"given", "other"}
  StoreGestures = 3
  EditorGestures = 3
  PanelGestures = 3
INVARIANTS
  ConsoleTypeOK
  LayersStand
  ChoicesStand
CHECK_DEADLOCK FALSE
