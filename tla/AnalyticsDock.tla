---------------------------- MODULE AnalyticsDock ----------------------------
(***************************************************************************)
(* The analytics dock of the workspace: the source that is analysed, the   *)
(* filters and the selection shared with the map and the table             *)
(* (analytics/workspace-store.ts), the charts that are shown in the dock,  *)
(* over the map and as layers of it, and the queries behind them           *)
(* (analytics/WorkspaceAnalytics.tsx, workspace-context.ts,                *)
(* workspace-map-layer-store.ts, AnalyticsMapLayerQueries.tsx).            *)
(*                                                                         *)
(* A gesture runs its handler and the effects that follow from it in one   *)
(* step; an answer to a query is the question it answers. A gesture that   *)
(* leaves the question of a chart as it was does not ask it again, which   *)
(* the code may do.                                                        *)
(***************************************************************************)
EXTENDS Screens, FiniteSets

CONSTANTS
  Sources,       \* tables, each on its connection
  Datasets,      \* identities of datasets
  SourceOf,      \* the table of each dataset, None for one with SQL
  FieldsOf,      \* names of the physical fields of each dataset
  Keys,          \* primary key columns, the same for every table
  Geometry,      \* the sources with a geometry column of their own
  FirstCharts,   \* the charts saved at first
  FirstDatasets, \* the datasets saved at first
  Dashboards,    \* saved dashboards
  MapCharts,     \* the charts that can be drawn in a layer of the map
  Children,      \* those of them that composite maps are made of
  OverlayIds, LayerIds,
  Preview,       \* the preview of the dock, as an asker of queries
  DockGestures   \* gestures of the user in a behaviour, a bound

ASSUME DockConstants ==
  /\ SourceOf \in [Datasets -> Sources \cup {Nothing}]
  /\ Nothing \notin Sources \cup Datasets
  /\ FirstDatasets \subseteq Datasets /\ Geometry \subseteq Sources
  /\ Dashboards # {} /\ DockGestures \in Nat
  /\ LayerIds \cap Dashboards = {} /\ Nothing \notin LayerIds \cup Dashboards

VARIABLES
  ws,       \* the workspace store: source, selection, filters, viewport, refreshVersion
  overlays, \* its overlays
  layers,   \* the layers of the map layer store
  dock,     \* the choices made in the dock
  known,    \* datasets, charts and saved metrics the dock has loaded
  stored,   \* the same on the server
  catalog,  \* the newest load of the three lists
  creating, \* createDataset under way
  saving,   \* saveQuickChart under way
  shows,    \* useChartQuery of every chart that may be on screen
  dockSteps

dockVars == <<ws, overlays, layers, dock, known, stored, catalog, creating, saving,
              shows, dockSteps>>

-----------------------------------------------------------------------------
\* A chart: a quick one counts or sums, as chosen in the dock, and is not saved.
Quick == {"count", "sum"}
Chart == [dataset: Datasets, kind: Quick \cup {"saved", "geo", "composite"}]
ASSUME DockCharts ==
  /\ FirstCharts \cup MapCharts \subseteq Chart
  /\ \A c \in FirstCharts : c.kind \notin Quick
  /\ (LayerIds \cup Dashboards \cup {Nothing}) \cap Chart = {}
Fields == UNION {FieldsOf[d] : d \in Datasets}
Askers == {Preview} \cup OverlayIds \cup (LayerIds \X MapCharts)
\* Where filters are set, their sourceWidgetId: the chart of the preview, a
\* layer of the map, or a widget of the dashboard that is open.
Origins == Chart \cup LayerIds \cup Dashboards

Question == [kind: {"idle", "empty", "error", "ask"}, chart: Chart \cup {Nothing},
             source: Sources \cup {Nothing}, filters: SUBSET Fields, rows: BOOLEAN,
             extent: BOOLEAN, version: Nat]
Unasked == [kind |-> "idle", chart |-> Nothing, source |-> Nothing, filters |-> {},
            rows |-> FALSE, extent |-> FALSE, version |-> 0]
\* useChartQuery: what it wants, what it shows, whether its request runs, and
\* an aborted request whose answer is still on its way.
Query == [wants: Question, result: Question \cup {Nothing}, failed: BOOLEAN,
          live: BOOLEAN, late: Question \cup {Nothing}]
Idle == [wants |-> Unasked, result |-> Nothing, failed |-> FALSE, live |-> FALSE,
         late |-> Nothing]

DockTypeOK ==
  /\ ws \in [source: Sources \cup {Nothing}, selected: Sources \cup {Nothing}, filters: SUBSET Fields,
             by: Origins \cup {Nothing}, dataset: Datasets \cup {Nothing},
             viewport: BOOLEAN, version: Nat]
  /\ overlays \in [OverlayIds -> [chart: Chart, reference: BOOLEAN] \cup {Nothing}]
  /\ layers \in [LayerIds -> [chart: Chart, reference: BOOLEAN, visible: BOOLEAN]
                             \cup {Nothing}]
  /\ dock \in [dataset: Datasets \cup {Nothing}, chart: Chart \cup {Nothing},
               dashboard: Dashboards \cup {Nothing}, sum: BOOLEAN, picked: BOOLEAN,
               scope: {"all", "filtered", "selected", "extent"},
               binding: {"follow", "pinned", "reference"}]
  /\ {known, stored} \subseteq
       [datasets: SUBSET Datasets, charts: SUBSET Chart, metrics: SUBSET Datasets]
  /\ catalog \in {Nothing} \cup
       [unread: SUBSET {"datasets", "charts"},
        answer: [datasets: SUBSET Datasets, charts: SUBSET Chart, metrics: SUBSET Datasets]]
  /\ creating \in {Nothing} \cup [source: Sources, dataset: Datasets \cup {Nothing}]
  /\ saving \in {Nothing} \cup [dataset: Datasets, stage: {"metric", "chart", "done"}]
  /\ shows \in [Askers -> Query]
  /\ dockSteps \in 0..DockGestures

-----------------------------------------------------------------------------
\* sourceCompatible: the dataset is that table, and not a query of its own.
Compatible(source, d) == source # Nothing /\ d # Nothing /\ SourceOf[d] = source

Follows == {d \in known.datasets : Compatible(ws.source, d)}
First(ds) == IF ds = {} THEN Nothing ELSE CHOOSE d \in ds : TRUE
\* selectedDataset, activeChart
Selected == IF dock.dataset \in known.datasets THEN dock.dataset ELSE First(Follows)
\* quickMetricNeedsSave
Unsaved == dock.sum /\ Selected # Nothing /\ Selected \notin known.metrics
Active ==
  IF dock.chart \in known.charts THEN dock.chart
  ELSE IF Selected = Nothing THEN Nothing
  ELSE [dataset |-> Selected, kind |-> IF dock.sum THEN "sum" ELSE "count"]
\* activeDataset: without it the chart and its controls are not rendered.
Rendered == Active # Nothing /\ Active.dataset \in known.datasets
\* bindingCompatible, and the scope that a chart bound elsewhere falls back to
Bound == Rendered /\ Compatible(ws.source, Active.dataset)
Scope == IF dock.binding = "reference" \/ (dock.binding = "pinned" /\ ~Bound)
         THEN "all" ELSE dock.scope

\* mapFiltersToPhysicalDataset: filters go over to another dataset of the
\* same table, field by field, or not at all.
Rebinds(filters, from, to) ==
  /\ SourceOf[from] # Nothing /\ SourceOf[from] = SourceOf[to]
  /\ filters \subseteq FieldsOf[from] \cap FieldsOf[to]
\* selectionToAnalyticsFilter and viewportToAnalyticsFilter have a filter.
SelectionBinds(d) == Keys \subseteq FieldsOf[d]
ExtentBinds(source, d) == Compatible(source, d) /\ source \in Geometry

\* Mutant of FiltersOfOthers: a chart is filtered by what was picked in itself.
AllFilters(scope, mine) == IF scope = "all" THEN {} ELSE ws.filters
\* The filters in the scope of a chart, except those set in it (mine).
FiltersOfOthers(scope, mine) == IF scope = "all" \/ mine THEN {} ELSE ws.filters

\* The question a chart asks: the filters in its scope, the selection or the
\* extent of the map, and the source it is limited to.
Asks(chart, scope, linked, mine) ==
  LET d == chart.dataset
      filters == FiltersOfOthers(scope, mine)
      foreign == scope # "all" /\ ws.dataset \notin {Nothing, d}
      fails == \/ scope = "selected" /\ ~SelectionBinds(d)
               \/ scope = "extent" /\ ~(ws.viewport /\ ExtentBinds(ws.source, d))
      kind == IF foreign /\ ~Rebinds(filters, ws.dataset, d) THEN "error"
              ELSE IF scope = "selected" /\ ws.selected = Nothing THEN "empty"
              ELSE IF fails THEN "error" ELSE "ask"
  IN  [kind |-> kind, chart |-> chart, filters |-> filters,
       source |-> IF linked /\ Compatible(ws.source, d) THEN ws.source ELSE Nothing,
       rows |-> scope = "selected", extent |-> scope = "extent", version |-> ws.version]

\* overlaysForSource: linked overlays and layers of another source are hidden.
OnMap(chart, reference) == reference \/ Compatible(ws.source, chart.dataset)
Entries(layer) == IF layer.chart.kind = "composite" THEN Children ELSE {layer.chart}
\* An overlay has no picks of its own, a layer leaves out those in any of its
\* charts, the preview those in the chart it shows.
WantedOverlay(o) ==
  IF o = Nothing \/ ~OnMap(o.chart, o.reference) THEN Unasked
  ELSE Asks(o.chart, IF o.reference THEN "all" ELSE "filtered", ~o.reference, FALSE)
WantedLayer(layer, k) ==
  IF layer = Nothing \/ ~layer.visible \/ ~OnMap(layer.chart, layer.reference)
     \/ k[2] \notin Entries(layer)
  THEN Unasked
  ELSE Asks(k[2], IF layer.reference THEN "all" ELSE "filtered", ~layer.reference,
            ws.by = k[1])
PickedHere == ws.by = Active /\ (Active.kind \in Quick => dock.picked)
WantedPreview ==
  IF ~Rendered \/ (Unsaved /\ Active.kind \in Quick) THEN Unasked
  ELSE Asks(Active, Scope, dock.binding # "reference" /\ Scope # "all", PickedHere)
Wanted(k) ==
  IF k = Preview THEN WantedPreview
  ELSE IF k \in OverlayIds THEN WantedOverlay(overlays[k])
  ELSE WantedLayer(layers[k[1]], k)

\* The effect of useChartQuery: another question aborts the request in
\* flight, clears the result and asks.
Settle(q, wanted) ==
  IF wanted = q.wants THEN q
  ELSE [wants |-> wanted, result |-> IF wanted.kind = "empty" THEN wanted ELSE Nothing,
        failed |-> wanted.kind = "error", live |-> wanted.kind = "ask",
        late |-> IF q.live THEN q.wants ELSE q.late]
Rerender == shows' = [k \in Askers |-> Settle(shows[k], Wanted(k)')]

\* The effects on the binding, the source and its first dataset.
Resets(d, source, first) ==
  /\ d.binding = "follow"
  /\ <<d.binding, source, first>> # <<dock.binding, ws.source, First(Follows)>>
Follow(d, source, first) ==
  IF Resets(d, source, first)
  THEN [d EXCEPT !.chart = Nothing, !.dashboard = Nothing, !.dataset = first]
  ELSE IF d.dataset = Nothing THEN [d EXCEPT !.dataset = first]
  ELSE d
\* The quick chart has another identity when it is made anew: from another
\* aggregate or dataset, a dataset that was loaded again (renewed), or
\* dimensions that were reset. It is then not the one last picked in.
Choose(d, renewed) ==
  LET first == First(Follows)'
      next == Follow(d, ws'.source, first)
      selected == IF next.dataset \in known'.datasets THEN next.dataset ELSE first
      kept == /\ ~renewed /\ ~Resets(d, ws'.source, first)
              /\ next.sum = dock.sum /\ selected = Selected
  IN  dock' = [next EXCEPT !.picked = @ /\ kept]

DockGesture == dockSteps < DockGestures /\ dockSteps' = dockSteps + 1
DockIdle == UNCHANGED dockSteps
NoRequests == UNCHANGED <<stored, catalog, creating, saving>>

DockInit ==
  /\ ws = [source |-> Nothing, selected |-> Nothing, filters |-> {}, by |-> Nothing,
           dataset |-> Nothing, viewport |-> FALSE, version |-> 0]
  /\ overlays = [o \in OverlayIds |-> Nothing]
  /\ layers = [l \in LayerIds |-> Nothing]
  /\ dock = [dataset |-> Nothing, chart |-> Nothing, dashboard |-> Nothing, sum |-> FALSE,
             picked |-> FALSE, scope |-> "filtered", binding |-> "follow"]
  /\ known = [datasets |-> {}, charts |-> {}, metrics |-> {}]
  /\ stored = [datasets |-> FirstDatasets, charts |-> FirstCharts, metrics |-> {}]
  /\ catalog = [unread |-> {"datasets", "charts"}, answer |-> known]
  /\ creating = Nothing /\ saving = Nothing
  /\ shows = [k \in Askers |-> Idle]
  /\ dockSteps = 0

-----------------------------------------------------------------------------
(* The workspace store.                                                    *)

NoFilters(w) == [w EXCEPT !.filters = {}, !.by = Nothing, !.dataset = Nothing]
\* Mutant of SetSource: the filters of the source before are kept.
SetSourceKeepingFilters(w, s) ==
  [w EXCEPT !.source = s, !.selected = IF s = w.source THEN @ ELSE Nothing]
\* setSource: filters stay with their dataset, the selection with its table.
SetSource(w, s) ==
  [(IF Compatible(s, w.dataset) THEN w ELSE NoFilters(w)) EXCEPT
     !.source = s, !.selected = IF s = w.source THEN @ ELSE Nothing]
\* setFilters
SetFilters(w, filters, by, d) ==
  IF Compatible(w.source, d)
  THEN [w EXCEPT !.filters = filters, !.by = by, !.dataset = d]
  ELSE NoFilters(w)

\* A layer or a table is chosen to be analysed.
AnalyzeSource ==
  /\ DockGesture
  /\ \E s \in Sources : ws' = SetSource(ws, s)
  /\ UNCHANGED <<overlays, layers, known>> /\ NoRequests
  /\ Choose(dock, FALSE) /\ Rerender

\* A feature of the map is clicked, which makes its layer the source, or rows
\* of the table are marked, which counts for the table that is the source.
SelectRows ==
  /\ DockGesture
  /\ \E s \in Sources \cup {Nothing} :
       ws' = IF s = Nothing THEN [ws EXCEPT !.selected = Nothing]
             ELSE [SetSource(ws, s) EXCEPT !.selected = s]
  /\ UNCHANGED <<overlays, layers, known>> /\ NoRequests
  /\ Choose(dock, FALSE) /\ Rerender

\* canShare and no scopeError: the preview may set filters for everybody.
MayShare == dock.binding # "reference" /\ Bound

PickInPreview ==
  /\ MayShare /\ shows[Preview].result # Nothing
  /\ DockGesture
  /\ \E f \in FieldsOf[Active.dataset] :
       \E filters \in {{f}, {}} : ws' = SetFilters(ws, filters, Active, Active.dataset)
  /\ dock' = [dock EXCEPT !.picked = @ \/ Active.kind \in Quick]
  /\ UNCHANGED <<overlays, layers, known>> /\ NoRequests
  /\ Rerender

\* A pick on a layer of the map, unless it is a reference.
PickOnMap ==
  /\ ws.source # Nothing
  /\ DockGesture
  /\ \E k \in LayerIds \X MapCharts :
       /\ layers[k[1]] # Nothing
       /\ ~layers[k[1]].reference /\ shows[k].result # Nothing
       /\ \E f \in FieldsOf[k[2].dataset] : ws' = SetFilters(ws, {f}, k[1], k[2].dataset)
  /\ UNCHANGED <<overlays, layers, known, dock>> /\ NoRequests
  /\ Rerender

\* syncDashboardFilters: filters of one dataset that go over to a dataset of
\* the source; others are refused with a message.
PickInDashboard ==
  /\ dock.dashboard # Nothing /\ dock.binding # "reference" /\ ws.source # Nothing
  /\ DockGesture
  /\ \E d \in known.datasets, f \in Fields :
       /\ f \in FieldsOf[d] /\ Follows # {}
       /\ d = First(Follows) \/ Rebinds({f}, d, First(Follows))
       /\ ws' = SetFilters(ws, {f}, dock.dashboard, First(Follows))
  /\ UNCHANGED <<overlays, layers, known, dock>> /\ NoRequests
  /\ Rerender

\* The button Clear filters, and a dashboard with no filter left.
ClearFilters ==
  /\ ws.filters # {}
  /\ Rendered \/ (dock.dashboard # Nothing /\ dock.binding # "reference" /\ ws.source # Nothing)
  /\ DockGesture
  /\ ws' = NoFilters(ws)
  /\ UNCHANGED <<overlays, layers, known, dock>> /\ NoRequests
  /\ Rerender

\* The map is moved, or unmounted.
MoveMap ==
  /\ DockGesture
  /\ ws' = [ws EXCEPT !.viewport = ~@]
  /\ UNCHANGED <<overlays, layers, known, dock>> /\ NoRequests
  /\ Rerender

\* Refresh analytics; a load of the lists under way is given up.
RefreshDock ==
  /\ DockGesture
  /\ ws' = [ws EXCEPT !.version = @ + 1]
  /\ catalog' = [unread |-> {"datasets", "charts"},
                 answer |-> [datasets |-> {}, charts |-> {}, metrics |-> {}]]
  /\ UNCHANGED <<overlays, layers, known, dock, stored, creating, saving>>
  /\ Rerender

-----------------------------------------------------------------------------
(* The choices of the dock.                                                *)

Chosen(d) ==
  /\ DockGesture
  /\ UNCHANGED <<ws, overlays, layers, known>>
  /\ NoRequests
  /\ Choose(d, FALSE) /\ Rerender

ChooseDataset == \E d \in Follows \ {dock.dataset} : Chosen([dock EXCEPT !.dataset = d])
ChooseChart ==
  \E c \in (known.charts \cup {Nothing}) \ {dock.chart} :
    Chosen([dock EXCEPT !.chart = c, !.dashboard = IF c = Nothing THEN @ ELSE Nothing])
ChooseDashboard ==
  \E b \in (Dashboards \cup {Nothing}) \ {dock.dashboard} :
    Chosen([dock EXCEPT !.dashboard = b, !.chart = IF b = Nothing THEN @ ELSE Nothing])
\* The form of a quick chart is there when nothing saved is chosen.
QuickForm == dock.chart \notin known.charts /\ dock.dashboard = Nothing /\ Selected # Nothing
ChooseAggregate == QuickForm /\ Chosen([dock EXCEPT !.sum = ~@])
ChooseBinding ==
  /\ Rendered
  /\ \E b \in {"follow", "pinned", "reference"} \ {dock.binding} :
       Chosen([dock EXCEPT !.binding = b])
\* The extent can be chosen while the map has one and the source a geometry.
ScopesOffered ==
  IF dock.binding = "reference" THEN {}
  ELSE {"all", "filtered", "selected"} \cup
       (IF ws.viewport /\ ws.source \in Geometry THEN {"extent"} ELSE {})
ChooseScope ==
  /\ Rendered
  /\ \E sc \in ScopesOffered \ {dock.scope} : Chosen([dock EXCEPT !.scope = sc])

-----------------------------------------------------------------------------
(* Charts over the map and layers of it.                                   *)

\* The buttons are disabled for a chart whose metric is not saved yet.
MayAdd == Rendered /\ ~(Unsaved /\ Active.kind \in Quick)
Reference == dock.binding = "reference"

OnMapGesture ==
  /\ DockGesture
  /\ UNCHANGED <<ws, dock, known>> /\ NoRequests
  /\ Rerender

AddOverlay ==
  /\ MayAdd /\ (Reference \/ Bound)
  /\ \E o \in OverlayIds :
       /\ overlays[o] = Nothing
       /\ overlays' = [overlays EXCEPT ![o] = [chart |-> Active, reference |-> Reference]]
  /\ UNCHANGED layers /\ OnMapGesture
\* The overlays on screen, each with a button to remove it.
Visible ==
  {o \in OverlayIds : overlays[o] # Nothing /\ OnMap(overlays[o].chart, overlays[o].reference)}
RemoveOverlay ==
  /\ \E o \in Visible : overlays' = [overlays EXCEPT ![o] = Nothing]
  /\ UNCHANGED layers /\ OnMapGesture

\* addActiveChartAsMapLayer: a composite map needs all its charts, and a
\* linked one needs them all bound to the source.
MayAddLayer ==
  /\ MayAdd /\ Active.kind \in {"geo", "composite"} /\ (Reference \/ Bound)
  /\ Active.kind = "composite" =>
       /\ Children \subseteq known.charts
       /\ \A c \in Children : c.dataset \in known.datasets
       /\ Reference \/ \A c \in Children : Compatible(ws.source, c.dataset)
\* Its id is new, so no filters in force were set in it.
AddLayer ==
  /\ MayAddLayer
  /\ \E l \in LayerIds :
       /\ layers[l] = Nothing /\ l # ws.by
       /\ layers' = [layers EXCEPT ![l] = [chart |-> Active, reference |-> Reference,
                                            visible |-> TRUE]]
  /\ UNCHANGED overlays /\ OnMapGesture
\* The list of native map layers has a switch and a button for each.
Listed == {l \in LayerIds : layers[l] # Nothing}
RemoveLayer ==
  /\ \E l \in Listed : layers' = [layers EXCEPT ![l] = Nothing]
  /\ UNCHANGED overlays /\ OnMapGesture
ToggleLayer ==
  /\ \E l \in Listed : layers' = [layers EXCEPT ![l].visible = ~@]
  /\ UNCHANGED overlays /\ OnMapGesture

-----------------------------------------------------------------------------
(* Requests.                                                               *)

\* The three lists are read one by one.
ReadCatalog ==
  /\ catalog # Nothing
  /\ \E list \in catalog.unread :
       catalog' = [unread |-> catalog.unread \ {list},
                   answer |-> IF list = "charts"
                              THEN [catalog.answer EXCEPT !.charts = stored.charts]
                              ELSE [catalog.answer EXCEPT !.datasets = stored.datasets,
                                                          !.metrics = stored.metrics]]
  /\ DockIdle
  /\ UNCHANGED <<ws, overlays, layers, dock, known, stored, creating, saving, shows>>

CatalogAnswered ==
  /\ catalog # Nothing /\ catalog.unread = {}
  /\ known' = catalog.answer /\ catalog' = Nothing
  /\ DockIdle
  /\ UNCHANGED <<ws, overlays, layers, stored, creating, saving>>
  /\ Choose(dock, TRUE) /\ Rerender

\* Analyze this source is offered when no dataset of it is known.
MayCreate == ws.source # Nothing /\ Follows = {} /\ creating = Nothing

CreateDataset ==
  /\ MayCreate
  /\ creating' = [source |-> ws.source, dataset |-> Nothing]
  /\ DockGesture
  /\ UNCHANGED <<ws, overlays, layers, dock, known, stored, catalog, saving, shows>>

DatasetSaved ==
  /\ creating # Nothing /\ creating.dataset = Nothing
  /\ \E d \in Datasets \ stored.datasets :
       /\ SourceOf[d] = creating.source
       /\ stored' = [stored EXCEPT !.datasets = @ \cup {d}]
       /\ creating' = [creating EXCEPT !.dataset = d]
  /\ DockIdle
  /\ UNCHANGED <<ws, overlays, layers, dock, known, catalog, saving, shows>>

\* The dock takes the dataset unless another source was chosen meanwhile.
DatasetAnswered ==
  /\ creating # Nothing /\ creating.dataset # Nothing
  /\ UNCHANGED <<ws, overlays, layers, stored, catalog, saving>>
  /\ IF ws.source = creating.source
     THEN /\ known' = [known EXCEPT !.datasets = @ \cup {creating.dataset}]
          /\ Choose([dock EXCEPT !.dataset = creating.dataset], TRUE)
          /\ Rerender
     ELSE UNCHANGED <<known, dock, shows>>
  /\ creating' = Nothing
  /\ DockIdle

\* Save & preview: first the metric that the dataset lacks, then the chart. A
\* bound: one quick chart of each dataset is saved.
SaveQuickChart ==
  /\ QuickForm /\ saving = Nothing
  /\ [dataset |-> Selected, kind |-> "saved"] \notin stored.charts
  /\ saving' = [dataset |-> Selected, stage |-> IF Unsaved THEN "metric" ELSE "chart"]
  /\ DockGesture
  /\ UNCHANGED <<ws, overlays, layers, dock, known, stored, catalog, creating, shows>>

\* The dataset comes back with its metric, and a quick chart of it is made anew.
MetricSaved ==
  /\ saving # Nothing /\ saving.stage = "metric"
  /\ saving' = [saving EXCEPT !.stage = "chart"]
  /\ stored' = [stored EXCEPT !.metrics = @ \cup {saving.dataset}]
  /\ known' = [known EXCEPT !.metrics = @ \cup ({saving.dataset} \cap known.datasets)]
  /\ dock' = [dock EXCEPT !.picked = @ /\ saving.dataset # Selected]
  /\ DockIdle
  /\ UNCHANGED <<ws, overlays, layers, catalog, creating>> /\ Rerender

ChartSaved ==
  /\ saving # Nothing /\ saving.stage = "chart"
  /\ saving' = [saving EXCEPT !.stage = "done"]
  /\ stored' = [stored EXCEPT !.charts = @ \cup {[dataset |-> saving.dataset, kind |-> "saved"]}]
  /\ DockIdle
  /\ UNCHANGED <<ws, overlays, layers, dock, known, catalog, creating, shows>>

\* The saved chart is chosen, whatever source is there by now.
ChartAnswered ==
  /\ saving # Nothing /\ saving.stage = "done"
  /\ UNCHANGED <<ws, overlays, layers, stored, catalog, creating>>
  /\ LET c == [dataset |-> saving.dataset, kind |-> "saved"]
     IN  known' = [known EXCEPT !.charts = @ \cup {c}] /\ Choose([dock EXCEPT !.chart = c], FALSE)
  /\ saving' = Nothing
  /\ DockIdle /\ Rerender

\* A save or a load fails, with a message and nothing else.
RequestFailed ==
  /\ \/ catalog # Nothing /\ catalog' = Nothing /\ UNCHANGED <<creating, saving>>
     \/ creating # Nothing /\ creating' = Nothing /\ UNCHANGED <<catalog, saving>>
     \/ saving # Nothing /\ saving' = Nothing /\ UNCHANGED <<catalog, creating>>
  /\ DockGesture
  /\ UNCHANGED <<ws, overlays, layers, dock, known, stored, shows>>

\* The answer of the request that is not aborted, or its failure.
QueryAnswered ==
  /\ \E k \in Askers :
       /\ shows[k].live
       /\ \/ shows' = [shows EXCEPT ![k].live = FALSE, ![k].result = shows[k].wants]
          \/ shows' = [shows EXCEPT ![k].live = FALSE, ![k].failed = TRUE]
  /\ DockIdle /\ NoRequests
  /\ UNCHANGED <<ws, overlays, layers, dock, known>>

\* The answer of an aborted request changes nothing.
LateAnswer ==
  /\ \E k \in Askers :
       shows[k].late # Nothing /\ shows' = [shows EXCEPT ![k].late = Nothing]
  /\ DockIdle /\ NoRequests
  /\ UNCHANGED <<ws, overlays, layers, dock, known>>

\* The page is reloaded: overlays and layers come back from localStorage.
ReloadPage ==
  /\ DockGesture
  /\ ws' = [NoFilters(ws) EXCEPT !.source = Nothing, !.selected = Nothing,
                                 !.viewport = FALSE, !.version = 0]
  /\ dock' = [dataset |-> Nothing, chart |-> Nothing, dashboard |-> Nothing, sum |-> FALSE,
              picked |-> FALSE, scope |-> "filtered", binding |-> "follow"]
  /\ known' = [datasets |-> {}, charts |-> {}, metrics |-> {}]
  /\ catalog' = [unread |-> {"datasets", "charts"}, answer |-> known']
  /\ creating' = Nothing /\ saving' = Nothing
  /\ UNCHANGED <<overlays, layers, stored>>
  /\ shows' = [k \in Askers |-> Settle(Idle, Wanted(k)')]

DockNext ==
  \/ AnalyzeSource \/ SelectRows \/ PickInPreview \/ PickOnMap \/ PickInDashboard
  \/ ClearFilters \/ MoveMap \/ RefreshDock
  \/ ChooseDataset \/ ChooseChart \/ ChooseDashboard \/ ChooseAggregate
  \/ ChooseBinding \/ ChooseScope
  \/ AddOverlay \/ RemoveOverlay \/ AddLayer \/ RemoveLayer \/ ToggleLayer
  \/ ReadCatalog \/ CatalogAnswered \/ CreateDataset \/ DatasetSaved \/ DatasetAnswered
  \/ SaveQuickChart \/ MetricSaved \/ ChartSaved \/ ChartAnswered \/ RequestFailed
  \/ QueryAnswered \/ LateAnswer \/ ReloadPage

DockSpec == DockInit /\ [][DockNext]_dockVars

-----------------------------------------------------------------------------
\* A result limited by nothing that is shared, and one of a linked chart: it is
\* narrowed by the filters of all other charts, which are of the source that
\* is analysed, and read from that source as long as it is of it.
Unlimited(r) == r.filters = {} /\ r.source = Nothing /\ ~r.rows /\ ~r.extent
Linked(r, picked) ==
  /\ r.filters = IF picked THEN {} ELSE ws.filters
  /\ r.filters # {} =>
       Compatible(ws.source, r.chart.dataset) /\ r.filters \subseteq FieldsOf[r.chart.dataset]
  /\ r.source = IF Compatible(ws.source, r.chart.dataset) THEN ws.source ELSE Nothing

\* In the dock, by the scope that is chosen there.
PreviewShows(r) ==
  /\ r.chart = Active /\ r.chart.dataset \in known.datasets
  /\ r.rows <=> Scope = "selected"
  /\ r.kind = "empty" <=> Scope = "selected" /\ ws.selected = Nothing
  /\ r.rows /\ r.kind # "empty" => Keys \subseteq FieldsOf[r.chart.dataset]
  /\ r.extent <=> Scope = "extent"
  /\ r.extent => ws.viewport /\ ws.source \in Geometry /\ r.source = ws.source
  /\ IF Scope = "all" THEN Unlimited(r)
     ELSE Linked(r, ws.by = r.chart /\ (r.chart.kind \in Quick => dock.picked))
\* Over the map, where nothing is picked.
OverlayShows(o, r) ==
  /\ o # Nothing /\ r.chart = o.chart /\ r.kind = "ask" /\ ~r.rows /\ ~r.extent
  /\ IF o.reference THEN Unlimited(r) ELSE Linked(r, FALSE) /\ r.source # Nothing
\* In a layer, one of its charts.
LayerShows(l, r) ==
  /\ layers[l] # Nothing /\ layers[l].visible /\ r.kind = "ask" /\ ~r.rows /\ ~r.extent
  /\ r.chart = layers[l].chart \/ (layers[l].chart.kind = "composite" /\ r.chart \in Children)
  /\ IF layers[l].reference THEN Unlimited(r) ELSE Linked(r, ws.by = l)

\* Every chart shows what it should: the chart that is placed there now,
\* narrowed by the filters that others have set and never by its own picks, by
\* the selection and the extent in force and the source that is analysed, and
\* nothing of them where it is a reference, whatever was asked before.
DockAnswersFit ==
  \A k \in Askers :
    LET r == shows[k].result
    IN  r # Nothing =>
          /\ r.version = ws.version
          /\ IF k = Preview THEN PreviewShows(r)
             ELSE IF k \in OverlayIds THEN OverlayShows(overlays[k], r)
             ELSE LayerShows(k[1], r)

\* The filters and the selection that everybody shares are those of the
\* source that is analysed, filters name columns of their dataset, and a dock
\* that follows the source has no dataset of another one.
SharedScopeFits ==
  /\ ws.selected \in {Nothing, ws.source}
  /\ ws.filters # {} =>
       Compatible(ws.source, ws.dataset) /\ ws.filters \subseteq FieldsOf[ws.dataset]
  /\ dock.binding = "follow" /\ dock.dataset # Nothing => Compatible(ws.source, dock.dataset)

=============================================================================
