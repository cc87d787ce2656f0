----------------------------- MODULE SourcesPanel -----------------------------
(***************************************************************************)
(* The page around the store: the catalogue of the selected connection,    *)
(* the table, layer and map object that are selected, and the requests for *)
(* them (App.tsx, connections/ConnectionCatalog.tsx).                      *)
(*                                                                         *)
(* Every step ends with Render, which runs the effects of the page. The    *)
(* answers to catalogue requests are not guarded: one that comes after the *)
(* user went to another connection is shown there, and the panel is then   *)
(* late until the catalogue is cleared.                                    *)
(***************************************************************************)
EXTENDS ConnectionStore

CONSTANTS
  Schemas,       \* schemas
  SchemaOf,      \* the schema of a table
  PanelGestures  \* gestures in a behaviour, a bound

ASSUME PanelConstants == PanelGestures \in Nat /\ \A t \in MapTables : SchemaOf[t] \in Schemas

VARIABLES
  panel,      \* the state of the page
  flights,    \* requests that nothing cancels
  shown,      \* the schemas the server shows of a connection
  panelSteps

panelVars == <<panel, flights, shown, panelSteps>>

-----------------------------------------------------------------------------
\* What is derived of the store.

Selected(s) == IF Has(s.connections, s.selected) THEN Get(s.connections, s.selected) ELSE None
Works(s) == \E c \in Range(s.connections) : c.id = s.selected /\ c.test = "success"
OwnLayers(s) == Only(s.mapLayers, {y \in Range(s.mapLayers) : y.connection = s.selected})
TableKey(s) == IF s.selected \in DOMAIN s.tables THEN s.tables[s.selected] ELSE None
SelectedNames(s, id) == IF id \in DOMAIN s.names THEN s.names[id] ELSE {}
SavedView(s, key) ==
  LET found == Only(s.views, {v \in Range(s.views) : v.connection = s.selected /\ v.id = key.value})
  IN IF key.kind = "view" /\ found # << >> THEN found[1] ELSE None
\* The table of the selection, the view's when a view is selected.
SourceTable(s) ==
  LET key == TableKey(s)
  IN IF key = None THEN None
     ELSE IF key.kind = "table" THEN key.value
     ELSE LET v == SavedView(s, key) IN IF v = None THEN None ELSE v.table
\* The sources of record previews, which are checked for rows.
PreviewSources(s) ==
  {x \in Range(s.mapSources) :
     /\ x.kind = "flowmap" /\ x.row # None
     /\ \E y \in Range(OwnLayers(s)) : y.purpose = "record-preview" /\ y.source = x.id}

\* The source of the analytics dock, of a table or a view, and of a layer.
OneColumn(t) ==
  LET columns == DOMAIN GeometryOf[t]
  IN IF Cardinality(columns) = 1 THEN CHOOSE c \in columns : TRUE ELSE None
TableSource(conn, t, filter, known) ==
  [connection |-> conn, layer |-> None, name |-> None, table |-> t, filter |-> <<filter, None>>,
   column |-> IF known THEN OneColumn(t) ELSE None, flow |-> None, spatial |-> None]
LayerSource(s, y) ==
  LET x == Get(s.mapSources, y.source)
  IN [connection |-> x.connection, layer |-> y.id, name |-> y.name, table |-> x.table,
      filter |-> <<x.filter, x.row>>, column |-> x.column, flow |-> x.flow,
      spatial |-> x.spatial]

EmptyPanel ==
  [schemas |-> None, tables |-> [n \in Schemas |-> None], metadata |-> [t \in MapTables |-> None],
   expanded |-> {}, loadingSchemas |-> FALSE, loadingTables |-> {}, reading |-> None,
   failed |-> None, restored |-> None, opened |-> FALSE, active |-> None, selection |-> None,
   located |-> None, locating |-> None,
   analysed |-> None, checked |-> None, checks |-> {}, late |-> FALSE]
Cleared(p) ==
  [p EXCEPT !.schemas = None, !.tables = [n \in Schemas |-> None],
            !.metadata = [t \in MapTables |-> None], !.expanded = {}, !.loadingSchemas = FALSE,
            !.loadingTables = {}, !.late = FALSE]

\* A request, with what its closure remembers.
Flight(kind, conn) ==
  [kind |-> kind, conn |-> conn, table |-> None, schema |-> None, names |-> {}, all |-> FALSE,
   outer |-> FALSE, open |-> None, layer |-> None, source |-> None, pattern |-> None, n |-> 0]
SchemasFlight(s, all) ==
  [Flight("schemas", s.selected) EXCEPT !.table = SourceTable(s), !.all = all]

-----------------------------------------------------------------------------
\* The effects, in their order. s, p and f are the store, the panel and the
\* requests the step leaves, store is what it found.

\* Another connection, or one that does not work, clears the catalogue.
ClearForeign(s, p, swapped) ==
  LET moved == s.selected # store.selected
      q == IF moved \/ (swapped /\ ~Works(s)) THEN Cleared(p) ELSE p
  IN IF moved THEN [q EXCEPT !.active = None, !.selection = None] ELSE q

\* A selection kept from an earlier page has its catalogue loaded, once.
RestoreKey(s) ==
  LET t == SourceTable(s) IN IF t # None /\ Works(s) THEN <<s.selected, t>> ELSE None
MustRestore(s, p) == RestoreKey(s) \notin {None, p.restored}

\* Some layer is active while there is one.
ChooseActive(s, p) ==
  IF Has(OwnLayers(s), p.active) THEN p ELSE [p EXCEPT !.active = First(OwnLayers(s))]
\* A map object whose layer is gone is not selected.
KeepSelection(s, p) ==
  IF p.selection # None /\ ~Has(OwnLayers(s), p.selection.layer)
  THEN [p EXCEPT !.selection = None] ELSE p

\* The metadata of the selected table, when it is listed and not yet there. A
\* failure stands until something the effect depends on changes.
ReadingOn(s, p) ==
  <<Selected(s), SourceTable(s), p.metadata, p.tables, SelectedNames(s, s.selected)>>
\* Mutant of ReadMetadata: a request that runs is not cancelled.
ReadMetadataOnce(s, p) ==
  LET t == SourceTable(s)
  IN IF p.reading # None /\ panel.reading = p.reading /\ p.metadata = panel.metadata THEN p
     ELSE [p EXCEPT !.reading =
             IF /\ t # None /\ p.tables[SchemaOf[t]] # None /\ p.metadata[t] = None
                /\ SchemaOf[t] \in SelectedNames(s, s.selected)
             THEN [conn |-> s.selected, table |-> t] ELSE None]
ReadMetadata(s, p) ==
  LET t == SourceTable(s)
      wanted == /\ t # None /\ Selected(s) # None
                /\ SchemaOf[t] \in SelectedNames(s, s.selected) /\ p.tables[SchemaOf[t]] # None
                /\ p.metadata[t] = None /\ p.failed # ReadingOn(s, p)
  IN [p EXCEPT !.reading = IF wanted THEN [conn |-> s.selected, table |-> t] ELSE None,
               !.failed = IF @ = ReadingOn(s, p) THEN @ ELSE None]

\* Mutant of CheckPreviews: the checks that run are not aborted.
CheckPreviewsOn(s, p, replaced) ==
  LET key == [conn |-> Selected(s), sources |-> PreviewSources(s)]
  IN IF key = p.checked /\ ~replaced THEN p
     ELSE [p EXCEPT !.checked = key,
                    !.checks = @ \cup (IF Works(s) THEN {x.id : x \in key.sources} ELSE {})]
\* A change of the sources or of the connection aborts the checks and starts
\* them again.
CheckPreviews(s, p, replaced) ==
  LET key == [conn |-> Selected(s), sources |-> PreviewSources(s)]
  IN IF key = p.checked /\ ~replaced THEN p
     ELSE [p EXCEPT !.checked = key,
                    !.checks = IF Works(s) THEN {x.id : x \in key.sources} ELSE {}]

\* The dock's source follows the metadata of its table.
FollowTable(s, p) ==
  LET t == SourceTable(s)
      a == p.analysed
  IN IF t = None \/ a = None THEN p
     ELSE IF p.metadata[t] # None /\ a.layer = None /\ a.connection = s.selected /\ a.table = t
     THEN [p EXCEPT !.analysed.column = OneColumn(t)] ELSE p
\* It follows the active layer.
FollowLayer(s, p) ==
  IF p.analysed # None /\ p.active # None /\ p.analysed.layer = p.active
  THEN [p EXCEPT !.analysed = LayerSource(s, Get(s.mapLayers, p.active))] ELSE p

\* A view that is gone is deselected.
DropVanishedView(s) ==
  LET key == TableKey(s)
  IN IF key = None THEN s
     ELSE IF key.kind = "view" /\ SavedView(s, key) = None
          THEN SetSelectedTable(s, s.selected, None) ELSE s

Effects(s, p0, replaced) ==
  LET swapped == replaced \/ Selected(s) # Selected(store)
      p == KeepSelection(s, ChooseActive(s, ClearForeign(s, p0, swapped)))
      q == [p EXCEPT !.restored = RestoreKey(s), !.loadingSchemas = @ \/ MustRestore(s, p)]
  IN CheckPreviews(s, FollowLayer(s, FollowTable(s, ReadMetadata(s, q))), replaced)
Restored(s, p, f) == IF MustRestore(s, p) THEN f \cup {SchemasFlight(s, FALSE)} ELSE f
Render(s0, p, f, replaced) ==
  LET s == DropVanishedView(s0)
  IN store' = s /\ panel' = Effects(s, p, replaced) /\ flights' = Restored(s, p, f)

Do == panelSteps < PanelGestures /\ panelSteps' = panelSteps + 1 /\ UNCHANGED shown
Answer(f) == f \in flights /\ UNCHANGED <<panelSteps, shown>>

PanelInit ==
  /\ shown = [c \in Ids(store.connections) \cup ServerIds |-> Schemas]
  /\ panel = Effects(store, EmptyPanel, TRUE)
  /\ flights = Restored(store, EmptyPanel, {Flight("servers", None)})
  /\ panelSteps = 0

-----------------------------------------------------------------------------
\* Connections.

\* The connections of the server come once, after the page is loaded.
ServersListed ==
  LET f == Flight("servers", None)
  IN /\ Answer(f)
     /\ \E listed \in {<< >>} \cup {<<i>> : i \in ServerIds} :
          Render(UpsertServerConnections(store, listed), panel, flights \ {f},
                 Has(store.connections, store.selected) /\ store.selected \in Range(listed))
ChooseConnection(c) == Do /\ Render(SelectConnection(store, c.id), panel, flights, FALSE)
DeleteConnection(c) ==
  Do /\ ~c.server /\ Render(RemoveConnection(store, c.id), panel, flights, FALSE)
ToggleActive(c) == Do /\ Render(ToggleConnectionActive(store, c.id), panel, flights, FALSE)

-----------------------------------------------------------------------------
\* The catalogue.

\* loadCatalogSchemas, of the connection and the selection at the call.
LoadCatalog(s, p, f, all) ==
  IF Works(s) THEN Render(s, [p EXCEPT !.loadingSchemas = TRUE],
                          f \cup {SchemasFlight(s, all)}, FALSE)
  ELSE Render(s, p, f, FALSE)
\* loadSchemaTables, for the catalogue and for a table to be opened.
TablesWanted(n) == Selected(store) # None /\ panel.tables[n] = None
TablesFlight(n, open) == [Flight("tables", store.selected) EXCEPT !.schema = n, !.open = open]

\* handleSelectTable, of the connection at the call.
SelectTable(s, id, key) == SetSelectedTable(s, id, key)
AnalyseTable(s, p, id, key) ==
  IF key = None THEN p
  ELSE IF key.kind = "table"
       THEN IF p.metadata[key.value] = None THEN p
            ELSE [p EXCEPT !.analysed = TableSource(id, key.value, None, TRUE)]
  ELSE IF Has(s.views, key.value)
       THEN LET v == Get(s.views, key.value)
            IN [p EXCEPT !.analysed = TableSource(id, v.table, v.filter,
                                                  p.metadata[v.table] # None)]
  ELSE p
Choosing(s, p, f, key) ==
  Render(SelectTable(s, s.selected, key), AnalyseTable(s, p, s.selected, key), f, FALSE)

RefreshCatalog ==
  Do /\ Works(store) /\ ~panel.loadingSchemas /\ LoadCatalog(store, panel, flights, FALSE)
ToggleCatalog ==
  /\ Do /\ Works(store)
  /\ LET p == [panel EXCEPT !.opened = ~@]
     IN IF ~panel.opened /\ panel.schemas = None THEN LoadCatalog(store, p, flights, FALSE)
        ELSE Render(store, p, flights, FALSE)

Listed(n) == Works(store) /\ panel.opened /\ panel.schemas # None /\ n \in panel.schemas.names
ToggleSchema(n) ==
  /\ Do /\ Listed(n)
  /\ LET id == store.selected
         names == SelectedNames(store, id)
         p == [panel EXCEPT !.expanded = @ \cup {n}]
         cleared == IF SourceTable(store) # None /\ SchemaOf[SourceTable(store)] = n
                    THEN SelectTable(store, id, None) ELSE store
     IN IF n \in names
        THEN Render(SetSelectedSchemaNames(cleared, id, names \ {n}), p, flights, FALSE)
        ELSE Render(SetSelectedSchemaNames(store, id, names \cup {n}),
                    IF TablesWanted(n) THEN [p EXCEPT !.loadingTables = @ \cup {n}] ELSE p,
                    IF TablesWanted(n) THEN flights \cup {TablesFlight(n, None)} ELSE flights,
                    FALSE)
ToggleExpanded(n) ==
  /\ Do /\ Listed(n)
  /\ IF n \in panel.expanded
     THEN Render(store, [panel EXCEPT !.expanded = @ \ {n}], flights, FALSE)
     ELSE LET p == [panel EXCEPT !.expanded = @ \cup {n}]
          IN Render(store,
                    IF TablesWanted(n) THEN [p EXCEPT !.loadingTables = @ \cup {n}] ELSE p,
                    IF TablesWanted(n) THEN flights \cup {TablesFlight(n, None)} ELSE flights,
                    FALSE)

ChooseTable(t) ==
  /\ Do /\ Listed(SchemaOf[t]) /\ SchemaOf[t] \in panel.expanded
  /\ panel.tables[SchemaOf[t]] # None
  /\ Choosing(store, panel, flights, [kind |-> "table", value |-> t])
ViewListed(v) ==
  v.connection = store.selected /\ Listed(SchemaOf[v.table]) /\ SchemaOf[v.table] \in panel.expanded
ChooseView(v) ==
  Do /\ ViewListed(v) /\ Choosing(store, panel, flights, [kind |-> "view", value |-> v.id])
DeleteView(v) ==
  /\ Do /\ ViewListed(v)
  /\ LET key == [kind |-> "view", value |-> v.id]
         s == IF TableKey(store) = key THEN SelectTable(store, store.selected, None) ELSE store
     IN Render(RemoveSavedTableView(s, v.id), panel, flights, FALSE)

\* A table is opened from a related record: its schema is selected and its
\* tables are awaited.
OpenTable(t) ==
  /\ Do /\ Works(store)
  /\ LET n == SchemaOf[t]
         s == SetSelectedSchemaNames(store, store.selected,
                                     SelectedNames(store, store.selected) \cup {n})
         p == [panel EXCEPT !.expanded = @ \cup {n}]
     IN IF TablesWanted(n)
        THEN Render(s, [p EXCEPT !.loadingTables = @ \cup {n}],
                    flights \cup {TablesFlight(n, [kind |-> "table", value |-> t])}, FALSE)
        ELSE Choosing(s, p, flights, [kind |-> "table", value |-> t])

\* The end of loadCatalogSchemas: hidden schemas are left, the schema of the
\* table that was selected at the call is selected, or the table is deselected.
CatalogLoaded(p, fs, f, visible) ==
  LET n == IF f.table = None THEN None ELSE SchemaOf[f.table]
      own == IF n \in visible THEN {n} ELSE {}
      s == SetSelectedSchemaNames(store, f.conn,
                                  (SelectedNames(store, f.conn) \cap visible) \cup own)
      q == [p EXCEPT !.expanded = (@ \cap visible) \cup own]
  IN IF n = None THEN Render(s, [q EXCEPT !.loadingSchemas = FALSE], fs, FALSE)
     ELSE IF own = {}
     THEN Render(SelectTable(s, f.conn, None), [q EXCEPT !.loadingSchemas = FALSE], fs, FALSE)
     ELSE Render(s, [q EXCEPT !.loadingTables = @ \cup {n}],
                 fs \cup {[Flight("tables", f.conn) EXCEPT !.schema = n, !.outer = TRUE]}, FALSE)
Late(p, f) == [p EXCEPT !.late = @ \/ f.conn # store.selected]

SchemasAnswered(f) ==
  /\ Answer(f) /\ f.kind = "schemas"
  /\ LET visible == shown[f.conn]
         p == [Late(panel, f) EXCEPT !.schemas = [of |-> f.conn, names |-> visible]]
         fs == flights \ {f}
     IN IF f.all
        THEN Render(store, p, fs \cup {[f EXCEPT !.kind = "all", !.names = visible]}, FALSE)
        ELSE CatalogLoaded(p, fs, f, visible)
AllTablesAnswered(f) ==
  /\ Answer(f) /\ f.kind = "all"
  /\ CatalogLoaded([Late(panel, f) EXCEPT !.tables = [n \in Schemas |->
                      IF n \in f.names THEN f.conn ELSE @[n]]], flights \ {f}, f, f.names)
\* A table that was opened is selected also when its schema failed to load.
TablesEnded(p, f) ==
  LET q == [p EXCEPT !.loadingTables = @ \ {f.schema},
                     !.loadingSchemas = @ /\ ~f.outer]
  IN IF f.open = None THEN Render(store, q, flights \ {f}, FALSE)
     ELSE Render(SelectTable(store, f.conn, f.open), q, flights \ {f}, FALSE)
TablesAnswered(f) ==
  /\ Answer(f) /\ f.kind = "tables"
  /\ TablesEnded([Late(panel, f) EXCEPT !.tables[f.schema] = f.conn], f)
TablesRefused(f) == Answer(f) /\ f.kind = "tables" /\ TablesEnded(panel, f)
CatalogRefused(f) ==
  /\ Answer(f) /\ f.kind \in {"schemas", "all"}
  /\ Render(store, [panel EXCEPT !.loadingSchemas = FALSE], flights \ {f}, FALSE)

\* The metadata's request is cancelled with the selection it is for.
MetadataAnswered ==
  /\ panel.reading # None /\ UNCHANGED <<panelSteps, shown>>
  /\ Render(store, [panel EXCEPT !.metadata[panel.reading.table] = panel.reading.conn],
            flights, FALSE)

MetadataRefused ==
  /\ panel.reading # None /\ UNCHANGED <<panelSteps, shown>>
  /\ Render(store, [panel EXCEPT !.failed = ReadingOn(store, panel)], flights, FALSE)

-----------------------------------------------------------------------------
\* Layers and what is selected on the map.

ActivateLayer(y) == [panel EXCEPT !.active = y.id, !.analysed = LayerSource(store, y)]
ChooseLayer(y) ==
  Do /\ Has(OwnLayers(store), y.id) /\ Render(store, ActivateLayer(y), flights, FALSE)
\* The layer is made visible, and the map goes to it when its extent is known.
LocateLayer(y) ==
  /\ Do /\ Has(OwnLayers(store), y.id) /\ panel.locating \in {None, y.id}
  /\ Render(IF y.visible THEN store ELSE ToggleMapLayerVisibility(store, y.id),
            [panel EXCEPT !.active = y.id, !.locating = y.id],
            flights \cup {[Flight("extent", y.connection) EXCEPT !.layer = y.id]}, FALSE)
ExtentAnswered(f) ==
  /\ Answer(f) /\ f.kind = "extent"
  /\ Render(store, [panel EXCEPT !.located = f.layer, !.locating = None], flights \ {f}, FALSE)
ExtentRefused(f) ==
  /\ Answer(f) /\ f.kind = "extent"
  /\ Render(store, [panel EXCEPT !.locating = None], flights \ {f}, FALSE)
ChangeLayer(y) ==
  /\ Do /\ Has(OwnLayers(store), y.id)
  /\ \/ Render(RemoveMapLayer(store, y.id), panel, flights, FALSE)
     \/ Render(ToggleMapLayerVisibility(store, y.id), panel, flights, FALSE)
     \/ Render(OfLayer(store, y.id, {y.kind}, LAMBDA z : [z EXCEPT !.name = "other"]), panel,
               flights, FALSE)
     \/ LET x == Get(store.mapSources, y.source)
        IN /\ x.kind = "flowmap"
           /\ Render(UpdateFlowmapSource(store, x.id, [x.flow EXCEPT !.density = 2]), panel,
                     flights, FALSE)

Object(layer, source) == [layer |-> layer, source |-> source]
ClickMap(y) ==
  /\ Do /\ Has(OwnLayers(store), y.id) /\ y.visible
  /\ Render(store, [ActivateLayer(y) EXCEPT !.selection = Object(y.id, y.source)], flights, FALSE)
ClickNothing ==
  Do /\ panel.selection # None /\ Render(store, [panel EXCEPT !.selection = None], flights, FALSE)

\* A record of the inspector is shown on the map: a flow at once, a feature
\* when it has been found.
Located(p, layer, source) ==
  [p EXCEPT !.selection = Object(layer, source), !.active = layer, !.located = layer]
LocateFeature(y) ==
  /\ Do /\ Has(OwnLayers(store), y.id)
  /\ IF y.kind = "geojson"
     THEN Render(store, panel,
                 flights \cup {[Flight("feature", store.selected) EXCEPT
                                  !.layer = y.id, !.source = y.source]}, FALSE)
     ELSE Render(store, Located(panel, y.id, y.source), flights, FALSE)
\* A related record's layer is added first.
LocateRelated(t, c) ==
  /\ Do /\ Works(store)
  /\ LET p == GeometryPayload(store.selected, t, c, "record-preview")
         s == AddGeoJsonLayer(store, p)
         x == FindGeoJsonSource(s, p)[1]
         y == Only(s.mapLayers, {z \in Range(s.mapLayers) : z.kind = "geojson" /\ z.source = x.id})[1]
     IN Render(s, panel,
               flights \cup {[Flight("feature", store.selected) EXCEPT
                                !.layer = y.id, !.source = x.id]}, FALSE)
FeatureAnswered(f) ==
  /\ Answer(f) /\ f.kind = "feature"
  /\ Render(store, Located(panel, f.layer, f.source), flights \ {f}, FALSE)
FeatureRefused(f) ==
  Answer(f) /\ f.kind = "feature" /\ Render(store, panel, flights \ {f}, FALSE)
GeometryFlow(c) ==
  [startMode |-> "geometry", startLon |-> None, startLat |-> None, startGeometry |-> c,
   endMode |-> "geometry", endLon |-> None, endLat |-> None, endGeometry |-> c,
   magnitude |-> None, density |-> 1]
DrawRelatedArc(t, c) ==
  /\ Do /\ Works(store)
  /\ LET p == FlowPayload(store.selected, t, GeometryFlow(c), 1)
         s == AddArcLayer(store, p)
         x == FindFlowmapSource(s, p)[1]
         y == Only(s.mapLayers, {z \in Range(s.mapLayers) : z.kind = "arc" /\ z.source = x.id})[1]
     IN Render(s, Located(panel, y.id, x.id), flights, FALSE)

\* The previews of a record that is no more are removed, one after the other.
RemoveMapLayers(s, gone) ==
  LET left[n \in 0..Len(gone)] == IF n = 0 THEN s ELSE RemoveMapLayer(left[n - 1], gone[n].id)
  IN left[Len(gone)]
PreviewAnswered(id, empty) ==
  /\ id \in panel.checks /\ UNCHANGED <<panelSteps, shown>>
  /\ LET gone == Only(store.mapLayers, {y \in Range(store.mapLayers) :
                                     y.source = id /\ y.purpose = "record-preview"})
     IN Render(IF empty THEN RemoveMapLayers(store, gone) ELSE store,
               [panel EXCEPT !.checks = @ \ {id}], flights, FALSE)

\* A selection filters another layer's source, and the active layer's filter
\* is cleared.
FilterBySelection(x) ==
  /\ Do /\ panel.selection # None /\ x.id # panel.selection.source
  /\ \E y \in Range(OwnLayers(store)) : y.source = x.id
  /\ LET from == Only(store.mapSources, {z \in Range(store.mapSources) :
                                      z.id = panel.selection.source /\ z.kind = "geojson"})
         spatial == [layer |-> panel.selection.layer, table |-> from[1].table,
                     column |-> from[1].column]
     IN /\ from # << >>
        /\ Render(IF x.kind = "flowmap" THEN UpdateFlowmapSpatialFilter(store, x.id, spatial)
                  ELSE UpdateGeoJsonSpatial(store, x.id, spatial), panel, flights, FALSE)
ClearSpatialFilter(x) ==
  /\ Do /\ x.spatial # None /\ panel.active # None
  /\ Get(store.mapLayers, panel.active).source = x.id
  /\ Render(IF x.kind = "flowmap" THEN UpdateFlowmapSpatialFilter(store, x.id, None)
            ELSE UpdateGeoJsonSpatial(store, x.id, None), panel, flights, FALSE)
\* A feature was drawn.
FeatureCreated(x) ==
  Do /\ x.kind = "geojson"
     /\ Render(RefreshMapSourcesForConnection(store, x.connection), panel, flights, FALSE)

CatalogNext ==
  \/ ServersListed \/ RefreshCatalog \/ ToggleCatalog \/ MetadataAnswered \/ MetadataRefused
  \/ \E c \in Range(store.connections) :
       (store.selected # c.id /\ ChooseConnection(c)) \/ DeleteConnection(c) \/ ToggleActive(c)
  \/ \E n \in Schemas : ToggleSchema(n) \/ ToggleExpanded(n)
  \/ \E t \in MapTables : ChooseTable(t) \/ OpenTable(t)
  \/ \E v \in Range(store.views) : ChooseView(v) \/ DeleteView(v)
  \/ \E f \in flights :
       SchemasAnswered(f) \/ AllTablesAnswered(f) \/ TablesAnswered(f) \/ TablesRefused(f)
       \/ CatalogRefused(f)
MapNext ==
  \/ \E c \in Range(store.connections) : store.selected # c.id /\ ChooseConnection(c)
  \/ \E y \in Range(store.mapLayers) :
       ChooseLayer(y) \/ LocateLayer(y) \/ ChangeLayer(y) \/ ClickMap(y) \/ LocateFeature(y)
  \/ ClickNothing
  \/ \E t \in MapTables : \E c \in DOMAIN GeometryOf[t] : LocateRelated(t, c) \/ DrawRelatedArc(t, c)
  \/ \E id \in panel.checks, empty \in BOOLEAN : PreviewAnswered(id, empty)
  \/ \E f \in flights :
       ExtentAnswered(f) \/ ExtentRefused(f) \/ FeatureAnswered(f) \/ FeatureRefused(f)
  \/ \E x \in Range(store.mapSources) :
       FilterBySelection(x) \/ ClearSpatialFilter(x) \/ FeatureCreated(x)

-----------------------------------------------------------------------------
PanelTypeOK ==
  /\ DOMAIN panel = DOMAIN EmptyPanel
  /\ panel.expanded \subseteq Schemas /\ panel.loadingTables \subseteq Schemas
  /\ panel.loadingSchemas \in BOOLEAN /\ panel.late \in BOOLEAN
  /\ panel.checks \subseteq Ids(store.mapSources)
  /\ \A f \in flights : DOMAIN f = DOMAIN Flight("any", None)
  /\ panelSteps \in 0..PanelGestures

\* The metadata is the selected connection's, whatever came late.
MetadataIsOwn == \A t \in MapTables : panel.metadata[t] \in {None, store.selected}
\* So is the rest of the catalogue, unless an answer for another connection
\* came after the user had left it.
CatalogIsOwn ==
  ~panel.late =>
    /\ panel.schemas # None => panel.schemas.of = store.selected
    /\ \A n \in Schemas : panel.tables[n] \in {None, store.selected}
\* What is active or selected on the map is a layer of the selected connection
\* that is still there.
ChoiceIsThere ==
  /\ panel.active = None <=> OwnLayers(store) = << >>
  /\ panel.active # None => Has(OwnLayers(store), panel.active)
  /\ panel.selection # None => Has(OwnLayers(store), panel.selection.layer)
\* The dock analyses the active layer as it is.
AnalysedAsIs ==
  panel.analysed # None /\ panel.active # None /\ panel.analysed.layer = panel.active =>
    panel.analysed = LayerSource(store, Get(store.mapLayers, panel.active))
\* A check that runs is for the rows of a preview of this connection as it is.
ChecksAreCurrent ==
  \A id \in panel.checks :
    \E x \in PreviewSources(store) : x.id = id /\ x \in panel.checked.sources

=============================================================================
