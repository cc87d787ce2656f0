--------------------------- MODULE ConnectionStore ---------------------------
(***************************************************************************)
(* The store of connections, map sources, map layers and saved views that  *)
(* the page keeps in localStorage (connections/store.ts, store-helpers.ts  *)
(* and model.ts).                                                          *)
(*                                                                         *)
(* The store is one value; an operator per operation gives the next one.   *)
(* Identities are UUIDs, and here the next number.                         *)
(***************************************************************************)
EXTENDS Integers, Sequences, FiniteSets, Functions

CONSTANTS
  None,          \* null
  ServerIds,     \* connections the backend may list
  MapTables,     \* tables
  GeometryOf,    \* the geometry columns of each, with their types
  NumericOf,     \* its numeric columns
  FilterTerms,   \* filters of saved views
  FirstStored,   \* what an earlier page may have left in localStorage
  StoreGestures  \* gestures in a behaviour, a bound

ASSUME StoreConstants ==
  /\ ServerIds \subseteq Int /\ \A i \in ServerIds : i < 0
  /\ None \notin Int \cup FilterTerms
  /\ StoreGestures \in Nat

VARIABLES store, storeSteps

storeVars == <<store, storeSteps>>

-----------------------------------------------------------------------------
\* DatabaseConnection: whether the backend keeps it, what its last test said,
\* whether the page holds a password, and whether it looks like the bundled
\* test database.
Connection ==
  [id : Int, server : BOOLEAN, active : BOOLEAN, secret : BOOLEAN, bundled : BOOLEAN,
   test : {"idle", "testing", "success", "error"}]

\* GeoJsonTableSource and FlowmapTableSource.
Source(kind, id, p) ==
  [id |-> id, kind |-> kind, connection |-> p.connection, table |-> p.table,
   column |-> p.column, type |-> p.type, filter |-> p.filter, view |-> p.view,
   flow |-> p.flow, row |-> p.row, spatial |-> None, key |-> 0]

\* The elements of a list that are in S, in their order.
Only(list, S) ==
  LET kept[n \in 0..Len(list)] ==
        IF n = 0 THEN << >>
        ELSE IF list[n] \in S THEN Append(kept[n - 1], list[n]) ELSE kept[n - 1]
  IN kept[Len(list)]
Mapped(list, P(_), F(_)) == [i \in DOMAIN list |-> IF P(list[i]) THEN F(list[i]) ELSE list[i]]

First(list) == IF list = << >> THEN None ELSE list[1].id
Ids(list) == {list[i].id : i \in DOMAIN list}
Has(list, id) == id \in Ids(list)
Get(list, id) == list[CHOOSE i \in DOMAIN list : list[i].id = id]
Unique(list) == \A i, j \in DOMAIN list : list[i].id = list[j].id => i = j

\* getDefaultLayerColor, getDefaultLayerIcon, createDefaultFlowmapStyle.
DefaultColor(index) == index % 6
DefaultIcon(type) ==
  CASE type = "line" -> "line" [] type = "polygon" -> "square" [] type = "point" -> "circle"
    [] OTHER -> "diamond"
FlowmapStyle ==
  [rendering |-> "curved", thickness |-> 2, clustering |-> FALSE, locations |-> TRUE,
   totals |-> FALSE, labels |-> FALSE, topFlows |-> 500, scheme |-> "Teal", dark |-> FALSE]
GeoJsonStyle(index, type) ==
  [fillColor |-> DefaultColor(index), fillOpacity |-> IF type = "polygon" THEN 50 ELSE 80,
   strokeColor |-> DefaultColor(index), strokeOpacity |-> 95, strokeWidth |-> 2,
   pointRadius |-> 6]
ArcStyle(index) == [color |-> DefaultColor(index), opacity |-> 86, width |-> 3]

-----------------------------------------------------------------------------
\* Connections.

AddConnection(s, bundled) ==
  LET c == [id |-> s.made + 1, server |-> FALSE, active |-> TRUE, secret |-> TRUE,
            bundled |-> bundled, test |-> "idle"]
  IN [s EXCEPT !.connections = <<c>> \o @, !.selected = c.id, !.made = @ + 1,
               !.names = [i \in DOMAIN @ \cup {c.id} |-> IF i = c.id THEN {} ELSE @[i]],
               !.tables = [i \in DOMAIN @ \cup {c.id} |-> IF i = c.id THEN None ELSE @[i]]]

\* What the page remembers of a server connection survives the next list of
\* them; those that are no longer listed are gone, and what was drawn from
\* them stays.
UpsertServerConnections(s, ids) ==
  LET Listed(i) ==
        IF Has(s.connections, i)
        THEN [Get(s.connections, i) EXCEPT !.server = TRUE, !.secret = FALSE]
        ELSE [id |-> i, server |-> TRUE, active |-> TRUE, secret |-> FALSE, bundled |-> FALSE,
              test |-> "idle"]
      own == Only(s.connections, {c \in Range(s.connections) : ~(c.server \/ c.id \in Range(ids))})
      next == [i \in DOMAIN ids |-> Listed(ids[i])] \o own
      known == DOMAIN s.names
  IN [s EXCEPT
       !.connections = next,
       !.selected = IF Has(next, @) THEN @ ELSE First(next),
       !.names = [i \in known \cup Range(ids) |-> IF i \in known THEN @[i] ELSE {}],
       !.tables = [i \in DOMAIN @ \cup Range(ids) |-> IF i \in DOMAIN @ THEN @[i] ELSE None]]

\* A connection takes its sources, layers and views with it.
RemoveConnection(s, id) ==
  LET next == Only(s.connections, {c \in Range(s.connections) : c.id # id})
      sources == Only(s.mapSources, {x \in Range(s.mapSources) : x.connection # id})
  IN [s EXCEPT
       !.connections = next,
       !.mapSources = sources,
       !.mapLayers = Only(@, {y \in Range(@) : y.connection # id /\ Has(sources, y.source)}),
       !.views = Only(@, {v \in Range(@) : v.connection # id}),
       !.selected = IF @ = id THEN First(next) ELSE @,
       !.names = [i \in DOMAIN @ \ {id} |-> @[i]],
       !.tables = [i \in DOMAIN @ \ {id} |-> @[i]]]

SelectConnection(s, id) == [s EXCEPT !.selected = id]
SetSelectedSchemaNames(s, id, names) ==
  [s EXCEPT !.names = [i \in DOMAIN @ \cup {id} |-> IF i = id THEN names ELSE @[i]]]
SetSelectedTable(s, id, key) ==
  [s EXCEPT !.tables = [i \in DOMAIN @ \cup {id} |-> IF i = id THEN key ELSE @[i]]]

OfConnection(s, id, Change(_)) ==
  [s EXCEPT !.connections = Mapped(@, LAMBDA c : c.id = id, Change)]
ToggleConnectionActive(s, id) == OfConnection(s, id, LAMBDA c : [c EXCEPT !.active = ~@])
SetConnectionTestPending(s, id) == OfConnection(s, id, LAMBDA c : [c EXCEPT !.test = "testing"])
SetConnectionTestSuccess(s, id) ==
  OfConnection(s, id, LAMBDA c : [c EXCEPT !.test = "success", !.active = TRUE])
SetConnectionTestError(s, id) ==
  OfConnection(s, id, LAMBDA c : [c EXCEPT !.test = "error", !.active = FALSE])

-----------------------------------------------------------------------------
\* Saved views.

AddSavedTableView(s, v) ==
  [s EXCEPT !.views = <<[id |-> s.made + 1, connection |-> v.connection, table |-> v.table,
                         filter |-> v.filter]>> \o @,
            !.made = @ + 1]

\* isGeoJsonSourceLinkedToView: a source of no view that has the view's filter
\* counts as the view's.
LinkedToView(x, v) ==
  \/ x.view = v.id
  \/ x.view = None /\ x.connection = v.connection /\ x.table = v.table /\ x.filter = v.filter

\* A source whose data may have changed gets a new key, and is read again.
Touch(s, x) == [x EXCEPT !.key = s.made + 1]

\* Mutant of UpdateSavedTableView: only sources of the very view follow it, and
\* the others take its name.
UpdateSavedTableViewLoosely(s, id, f) ==
  LET before == Get(s.views, id)
  IN [s EXCEPT
       !.views = Mapped(@, LAMBDA v : v.id = id, LAMBDA v : [v EXCEPT !.filter = f]),
       !.mapSources = Mapped(@, LAMBDA x : x.kind = "geojson" /\ LinkedToView(x, before),
                             LAMBDA x : [Touch(s, x) EXCEPT !.view = id]),
       !.made = @ + 1]

\* The layers of a view follow its filter.
UpdateSavedTableView(s, id, f) ==
  IF ~Has(s.views, id) THEN s ELSE
  LET before == Get(s.views, id)
  IN [s EXCEPT
       !.views = Mapped(@, LAMBDA v : v.id = id, LAMBDA v : [v EXCEPT !.filter = f]),
       !.mapSources = Mapped(@, LAMBDA x : x.kind = "geojson" /\ LinkedToView(x, before),
                             LAMBDA x : [Touch(s, x) EXCEPT !.filter = f, !.view = id]),
       !.made = @ + 1]

\* They keep it when the view is deleted.
RemoveSavedTableView(s, id) ==
  IF ~Has(s.views, id) THEN s ELSE
  LET before == Get(s.views, id)
  IN [s EXCEPT
       !.views = Only(@, {v \in Range(@) : v.id # id}),
       !.mapSources = Mapped(@, LAMBDA x : x.kind = "geojson" /\ LinkedToView(x, before),
                             LAMBDA x : [Touch(s, x) EXCEPT !.view = None]),
       !.made = @ + 1]

-----------------------------------------------------------------------------
\* Layers.

SameTable(x, p) == x.connection = p.connection /\ x.table = p.table
FindGeoJsonSource(s, p) ==
  Only(s.mapSources, {x \in Range(s.mapSources) :
    x.kind = "geojson" /\ SameTable(x, p) /\ x.column = p.column /\ x.view = p.view
    /\ x.filter = p.filter})
FindFlowmapSource(s, p) ==
  Only(s.mapSources, {x \in Range(s.mapSources) :
    x.kind = "flowmap" /\ SameTable(x, p) /\ x.flow = p.flow /\ x.row = p.row})

\* A layer of a source that has one already is that one, made visible.
Layered(s, found, fresh, p, kind, icon, style) ==
  LET x == IF found = << >> THEN fresh ELSE found[1]
      old == Only(s.mapLayers, {y \in Range(s.mapLayers) : y.kind = kind /\ y.source = x.id})
      y == [id |-> s.made + 2, kind |-> kind, connection |-> p.connection, source |-> x.id,
            name |-> p.name, visible |-> TRUE, tooltip |-> TRUE, icon |-> icon,
            purpose |-> p.purpose, style |-> style]
  IN [s EXCEPT
       !.mapSources = IF found = << >> THEN Append(@, fresh) ELSE @,
       !.mapLayers = IF old = << >> THEN Append(@, y)
                     ELSE Mapped(@, LAMBDA z : z.id = old[1].id,
                                 LAMBDA z : [z EXCEPT !.visible = TRUE]),
       !.made = @ + 2]

AddGeoJsonLayer(s, p) ==
  Layered(s, FindGeoJsonSource(s, p), Source("geojson", s.made + 1, p), p, "geojson",
          DefaultIcon(p.type), GeoJsonStyle(Len(s.mapLayers), p.type))
AddFlowmapLayer(s, p) ==
  Layered(s, FindFlowmapSource(s, p), Source("flowmap", s.made + 1, p), p, "flowmap", "flow",
          FlowmapStyle)
AddArcLayer(s, p) ==
  Layered(s, FindFlowmapSource(s, p), Source("flowmap", s.made + 1, p), p, "arc", "flow",
          ArcStyle(Len(s.mapLayers)))

RefreshMapSourcesForConnection(s, id) ==
  [s EXCEPT !.mapSources = Mapped(@, LAMBDA x : x.connection = id, LAMBDA x : Touch(s, x)),
            !.made = @ + 1]
RefreshGeoJsonSourcesForTable(s, p) ==
  [s EXCEPT !.mapSources = Mapped(@, LAMBDA x : x.kind = "geojson" /\ SameTable(x, p),
                                  LAMBDA x : Touch(s, x)),
            !.made = @ + 1]

\* A source goes with the last layer that draws it.
RemoveMapLayer(s, id) ==
  IF ~Has(s.mapLayers, id) THEN s ELSE
  LET source == Get(s.mapLayers, id).source
      rest == Only(s.mapLayers, {y \in Range(s.mapLayers) : y.id # id})
  IN [s EXCEPT !.mapLayers = rest,
               !.mapSources = IF \E i \in DOMAIN rest : rest[i].source = source THEN @
                              ELSE Only(@, {x \in Range(@) : x.id # source})]

OfLayer(s, id, kinds, Change(_)) ==
  [s EXCEPT !.mapLayers = Mapped(@, LAMBDA y : y.id = id /\ y.kind \in kinds, Change)]
ToggleMapLayerVisibility(s, id) ==
  OfLayer(s, id, {"geojson", "flowmap", "arc"}, LAMBDA y : [y EXCEPT !.visible = ~@])

\* A patch of a layer is a field and its value. The style of a flow map is
\* merged, the fields of the others are their own.
Patched(y, field, value) ==
  CASE field \in {"name", "icon", "tooltip"} -> [y EXCEPT ![field] = value]
    [] OTHER -> [y EXCEPT !.style = [@ EXCEPT ![field] = value]]
UpdateGeoJsonLayer(s, id, field, value) ==
  OfLayer(s, id, {"geojson"}, LAMBDA y : Patched(y, field, value))
UpdateFlowmapLayer(s, id, field, value) ==
  OfLayer(s, id, {"flowmap"}, LAMBDA y : Patched(y, field, value))
UpdateArcLayer(s, id, field, value) ==
  OfLayer(s, id, {"arc"}, LAMBDA y : Patched(y, field, value))

OfSource(s, id, kind, Change(_)) ==
  [s EXCEPT !.mapSources = Mapped(@, LAMBDA x : x.id = id /\ x.kind = kind, Change)]
UpdateGeoJsonColumn(s, id, column, type) ==
  [OfSource(s, id, "geojson",
            LAMBDA x : [Touch(s, x) EXCEPT !.column = column, !.type = type])
   EXCEPT !.made = @ + 1]
UpdateGeoJsonSpatial(s, id, spatial) ==
  [OfSource(s, id, "geojson", LAMBDA x : [Touch(s, x) EXCEPT !.spatial = spatial])
   EXCEPT !.made = @ + 1]
UpdateFlowmapSource(s, id, flow) ==
  OfSource(s, id, "flowmap", LAMBDA x : [x EXCEPT !.flow = flow])
UpdateFlowmapSpatialFilter(s, id, spatial) ==
  OfSource(s, id, "flowmap", LAMBDA x : [x EXCEPT !.spatial = spatial])

\* FlowmapTableSource's columns, and a payload for a layer.
CoordinateFlow(lon, lat, geometry) ==
  [startMode |-> "coordinates", startLon |-> lon, startLat |-> lat, startGeometry |-> geometry,
   endMode |-> "coordinates", endLon |-> lon, endLat |-> lat, endGeometry |-> geometry,
   magnitude |-> None, density |-> 1]
GeometryPayload(connection, table, column, purpose) ==
  [connection |-> connection, table |-> table, column |-> column,
   type |-> GeometryOf[table][column], filter |-> None, view |-> None, flow |-> None,
   row |-> None, purpose |-> purpose, name |-> "given"]
FlowPayload(connection, table, flow, row) ==
  [connection |-> connection, table |-> table, column |-> None, type |-> None,
   filter |-> None, view |-> None, flow |-> flow, row |-> row,
   purpose |-> IF row = None THEN "configured" ELSE "record-preview", name |-> "given"]

-----------------------------------------------------------------------------
\* What is stored, and what a page that is loaded makes of it.

StripSecret(c) == [c EXCEPT !.secret = FALSE]
Partialize(s) == [s EXCEPT !.connections = [i \in DOMAIN @ |-> StripSecret(@[i])]]

\* migrateLegacyLayers: the layers of a build without sources, one after the
\* other; a second one of the same source is dropped.
MigrateLayer(s, p) ==
  LET found == FindGeoJsonSource(s, p)
      fresh == Source("geojson", s.made + 1, p)
      x == IF found = << >> THEN fresh ELSE found[1]
      known == \E y \in Range(s.mapLayers) : y.id = p.id \/ y.source = x.id
      layer == [id |-> p.id, kind |-> "geojson", connection |-> p.connection, source |-> x.id,
                name |-> p.name, visible |-> p.visible, tooltip |-> TRUE, icon |-> p.icon,
                purpose |-> "configured",
                style |-> [GeoJsonStyle(p.color, p.type) EXCEPT
                             !.fillOpacity = p.opacity,
                             !.strokeOpacity = IF p.opacity > 85 THEN 100 ELSE p.opacity + 15]]
  IN [s EXCEPT
       !.mapSources = IF found = << >> THEN Append(@, fresh) ELSE @,
       !.mapLayers = IF known THEN @ ELSE Append(@, layer),
       !.made = @ + 1]
MigrateLegacy(s, imported) ==
  LET migrated[n \in 0..Len(imported)] ==
        IF n = 0 THEN s ELSE MigrateLayer(migrated[n - 1], imported[n])
  IN migrated[Len(imported)]

\* Fields an older build did not store get what a new one starts with.
StyleOf(kind, index) ==
  CASE kind = "geojson" -> GeoJsonStyle(index, None)
    [] kind = "arc" -> ArcStyle(index)
    [] kind = "flowmap" -> FlowmapStyle
NormalizeLayer(y, index) ==
  [y EXCEPT !.purpose = IF @ = None THEN "configured" ELSE @,
            !.style = IF @ = None THEN StyleOf(y.kind, index) ELSE @]
NormalizeSource(x) == [x EXCEPT !.key = IF @ = None THEN 0 ELSE @]
\* A password that was stored is dropped, except that the bundled connection
\* is given its own when it has none.
NormalizeConnection(c) == [c EXCEPT !.secret = c.bundled /\ ~@]
\* A view without a filter is no view. Filters of an older build are views.
NormalizeView(views) == Only(views, {v \in Range(views) : v.filter # None})

\* merge: the bundled test connection is dropped, not what was drawn from it,
\* and the selection falls to the first connection that is left.
Merge(stored) ==
  LET s == stored.state
      migrated ==
        MigrateLegacy([s EXCEPT
          !.mapSources = [i \in DOMAIN @ |-> NormalizeSource(@[i])],
          !.mapLayers = [i \in DOMAIN @ |-> NormalizeLayer(@[i], i - 1)]], stored.imported)
      normalized == [i \in DOMAIN s.connections |-> NormalizeConnection(s.connections[i])]
      kept == Only(normalized, {c \in Range(normalized) : ~c.bundled})
  IN [migrated EXCEPT
       !.connections = kept,
       !.views = NormalizeView(@ \o stored.filters),
       !.selected = IF Has(kept, @) THEN @ ELSE First(kept)]

Reloaded(s) == Merge([state |-> Partialize(s), imported |-> << >>, filters |-> << >>])

EmptyStore ==
  [connections |-> << >>, mapSources |-> << >>, mapLayers |-> << >>, views |-> << >>,
   selected |-> None, names |-> << >>, tables |-> << >>, made |-> 0]

-----------------------------------------------------------------------------
\* The operations of the store, called in any order.

StoreInit(stored) == store = Merge(stored) /\ storeSteps = 0

Call(s) == storeSteps < StoreGestures /\ storeSteps' = storeSteps + 1 /\ store' = s

ConnectionCalled ==
  \/ \E b \in BOOLEAN : Call(AddConnection(store, b))
  \/ \E listed \in {<< >>} \cup {<<i>> : i \in ServerIds} :
       Call(UpsertServerConnections(store, listed))
  \/ \E i \in DOMAIN store.connections :
       LET c == store.connections[i]
       IN \/ ~c.server /\ Call(RemoveConnection(store, c.id))
          \/ store.selected # c.id /\ Call(SelectConnection(store, c.id))
          \/ Call(RefreshMapSourcesForConnection(store, c.id))
  \/ Call(Reloaded(store))

ViewCalled ==
  \/ \E i \in DOMAIN store.connections, t \in MapTables, f \in FilterTerms :
       Call(AddSavedTableView(store, [connection |-> store.connections[i].id, table |-> t,
                                      filter |-> f]))
  \/ \E i \in DOMAIN store.views :
       \/ \E f \in FilterTerms : Call(UpdateSavedTableView(store, store.views[i].id, f))
       \/ Call(RemoveSavedTableView(store, store.views[i].id))

LayerCalled ==
  \/ /\ store.selected # None
     /\ \E t \in MapTables :
          \/ \E c \in DOMAIN GeometryOf[t], p \in {"configured", "record-preview"} :
               Call(AddGeoJsonLayer(store, GeometryPayload(store.selected, t, c, p)))
          \/ \E c \in DOMAIN GeometryOf[t], n \in NumericOf[t], row \in {None, 1} :
               LET p == FlowPayload(store.selected, t, CoordinateFlow(n, n, c), row)
               IN \/ Call(AddArcLayer(store, p))
                  \/ row = None /\ Call(AddFlowmapLayer(store, p))
          \/ Call(RefreshGeoJsonSourcesForTable(store, [connection |-> store.selected,
                                                        table |-> t]))
  \/ \E i \in DOMAIN store.mapLayers :
       \/ Call(RemoveMapLayer(store, store.mapLayers[i].id))
       \/ Call(ToggleMapLayerVisibility(store, store.mapLayers[i].id))
  \/ \E i \in DOMAIN store.mapSources :
       LET x == store.mapSources[i]
       IN \/ /\ x.kind = "geojson"
             /\ \E c \in DOMAIN GeometryOf[x.table] :
                  Call(UpdateGeoJsonColumn(store, x.id, c, GeometryOf[x.table][c]))
          \/ /\ x.kind = "flowmap"
             /\ Call(UpdateFlowmapSource(store, x.id, [x.flow EXCEPT !.density = 3 - @]))

StoreNext == ConnectionCalled \/ ViewCalled \/ LayerCalled

-----------------------------------------------------------------------------
\* Every identity is given once, every entry has its fields, and unset is what
\* a field may be that an older build did not store.
SourceFields ==
  {"id", "kind", "connection", "table", "column", "type", "filter", "view", "flow", "row",
   "spatial", "key"}
LayerFields ==
  {"id", "kind", "connection", "source", "name", "visible", "tooltip", "icon", "purpose", "style"}
ListFits(list) == list \in Seq(Range(list)) /\ Unique(list)
ConnectionsFit(s) ==
  /\ ListFits(s.connections)
  /\ \A c \in Range(s.connections) : c \in Connection /\ c.id \in 1..s.made \cup ServerIds
SourcesFit(s) ==
  /\ ListFits(s.mapSources)
  /\ \A x \in Range(s.mapSources) :
       DOMAIN x = SourceFields /\ x.id \in 1..s.made /\ x.kind \in {"geojson", "flowmap"}
LayersFit(s, unset) ==
  /\ ListFits(s.mapLayers)
  /\ \A y \in Range(s.mapLayers) :
       /\ DOMAIN y = LayerFields /\ y.id \in 1..s.made
       /\ y.kind \in {"geojson", "flowmap", "arc"} /\ y.visible \in BOOLEAN
       /\ y.purpose \in {"configured", "record-preview"} \cup unset
       /\ y.style \in unset \/ DOMAIN y.style = DOMAIN StyleOf(y.kind, 0)
ViewsFit(s) ==
  /\ ListFits(s.views)
  /\ \A v \in Range(s.views) :
       DOMAIN v = {"id", "connection", "table", "filter"} /\ v.id \in 1..s.made
\* What is selected of a connection is a table, or a view of one.
KeysFit(s) ==
  /\ \A v \in Range(s.views) : v.table \in MapTables
  /\ \A i \in DOMAIN s.tables :
       LET key == s.tables[i]
       IN key = None \/ key.kind = "view" \/ key.value \in MapTables
StateFits(s, unset) ==
  /\ DOMAIN s = DOMAIN EmptyStore /\ s.made \in Nat
  /\ ConnectionsFit(s) /\ SourcesFit(s) /\ LayersFit(s, unset) /\ ViewsFit(s)

StoreTypeOK == StateFits(store, {}) /\ storeSteps \in 0..StoreGestures

\* A layer draws a source of its own connection and kind.
LayersHaveSources(s) ==
  \A y \in Range(s.mapLayers) : \E x \in Range(s.mapSources) :
    /\ x.id = y.source /\ x.connection = y.connection
    /\ x.kind = IF y.kind = "geojson" THEN "geojson" ELSE "flowmap"
\* A source no layer draws is gone.
SourcesHaveLayers(s) ==
  \A x \in Range(s.mapSources) : \E y \in Range(s.mapLayers) : y.source = x.id
\* The type of a source is that of the column it reads.
TypesFollowColumns(s) ==
  \A x \in Range(s.mapSources) : x.kind = "geojson" => x.type = GeometryOf[x.table][x.column]
\* A source of a view is of the view's connection and has the filter the view
\* has now.
ViewsAreFollowed(s) ==
  \A x \in Range(s.mapSources) :
    x.view # None =>
      /\ x.kind = "geojson" /\ x.filter # None
      /\ \E v \in Range(s.views) :
           v.id = x.view /\ v.connection = x.connection /\ v.filter = x.filter
\* Some connection is selected while there is one.
SelectionStands(s) ==
  IF s.connections = << >> THEN s.selected = None ELSE Has(s.connections, s.selected)

ReferencesStand(s) ==
  LayersHaveSources(s) /\ SourcesHaveLayers(s) /\ TypesFollowColumns(s) /\ ViewsAreFollowed(s)

\* What an earlier page left was kept by the same store, but for the fields an
\* older build did not have, and the layers and the filters of a build that
\* had neither sources nor views.
StoredFits(stored) ==
  LET s == stored.state
  IN /\ StateFits(s, {None}) /\ ReferencesStand(s)
     /\ ListFits(stored.imported) /\ ListFits(stored.filters)
     /\ \A p \in Range(stored.imported) :
          /\ p.id \in (1..s.made) \ Ids(s.mapLayers) /\ p.visible \in BOOLEAN
          /\ p.view = None /\ p.type = GeometryOf[p.table][p.column]
     /\ LET all == [s EXCEPT !.views = @ \o stored.filters] IN ViewsFit(all) /\ KeysFit(all)

ASSUME StoredAlike == \A stored \in FirstStored : StoredFits(stored)

=============================================================================
