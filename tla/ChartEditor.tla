----------------------------- MODULE ChartEditor -----------------------------
(***************************************************************************)
(* The editor of charts (analytics/ChartBuilder.tsx, AggregateFilters.tsx):*)
(* a draft of one chart, what makes it valid, its preview and its saves.   *)
(*                                                                         *)
(* A preview is cancelled by every edit. A save, and the first load of the *)
(* catalog, replace the draft without cancelling it.                       *)
(***************************************************************************)
EXTENDS Screens, FiniteSets, Sequences

CONSTANTS
  ChartIds,      \* identities of charts
  FirstSaved,    \* the charts that are saved at first, by identity
  ChartDatasets, \* datasets
  ColumnsOf,     \* the columns of each, in order
  MetricsOf,     \* the number of metrics of each
  EditGestures   \* gestures in a behaviour, a bound

ASSUME ChartConstants ==
  /\ Nothing \notin ChartIds \cup ChartDatasets /\ ChartDatasets # {}
  /\ \A d \in ChartDatasets :
       /\ 1 \in DOMAIN ColumnsOf[d] /\ \A i \in DOMAIN ColumnsOf[d] : ColumnsOf[d][i] # Nothing
       /\ MetricsOf[d] \in Nat \ {0}
  /\ EditGestures \in Nat

VARIABLES
  editor,  \* the screen
  kept,    \* the charts on the server
  fetch,   \* the load of the catalog, and what was read
  trial,   \* previews under way: the version and the question of each
  keeping, \* the save or the removal under way
  editSteps

chartVars == <<editor, kept, fetch, trial, keeping, editSteps>>

-----------------------------------------------------------------------------
Types == {"kpi", "bar", "pie", "line", "matrixHeatmap", "calendarHeatmap", "regionMap",
          "geoHeatmap", "geoArc", "compositeMap"}
GeoTypes == {"geoHeatmap", "geoArc"}
ChartColumns(d) == {ColumnsOf[d][i] : i \in DOMAIN ColumnsOf[d]}
\* Coordinates of a map: longitude and latitude, and those of the target.
Places(type) == IF type = "geoArc" THEN 1..4 ELSE 1..2

\* emptyChart
New(id, d) ==
  [id |-> id, revision |-> 0, named |-> TRUE, dataset |-> d, type |-> "bar",
   dims |-> <<ColumnsOf[d][1]>>, metrics |-> 1, time |-> Nothing, grain |-> Nothing,
   sort |-> Nothing, filters |-> 0, having |-> 0, coords |-> [p \in 1..4 |-> Nothing],
   layers |-> {}, look |-> FALSE]

\* chartValidation
Among(c, f) == \E i \in DOMAIN c.dims : c.dims[i] = f
Coordinate(c, p) ==
  IF c.coords[p] # Nothing THEN c.coords[p]
  ELSE IF p \in DOMAIN c.dims THEN c.dims[p] ELSE Nothing
ValidChart(c) ==
  /\ c.named
  /\ IF c.type = "compositeMap" THEN c.layers # {}
     ELSE CASE c.type = "kpi" -> c.metrics > 0 /\ c.dims = <<>>
            [] c.type \in GeoTypes -> \A p \in Places(c.type) : Among(c, Coordinate(c, p))
            [] c.type \in {"regionMap", "matrixHeatmap"} -> Len(c.dims) = 2 /\ c.metrics = 1
            [] c.type = "calendarHeatmap" ->
                 Len(c.dims) = 1 /\ c.metrics = 1 /\ c.grain = "day" /\ c.time = c.dims[1]
            [] c.type = "pie" -> Len(c.dims) = 1 /\ c.metrics = 1
            [] OTHER -> c.metrics > 0 /\ Len(c.dims) \in 1..2

ColumnsOrNone == (UNION {ChartColumns(d) : d \in ChartDatasets}) \cup {Nothing}
Drafts ==
  [id: ChartIds, revision: Nat, named: BOOLEAN, dataset: ChartDatasets, type: Types,
   dims: UNION {Seq(ChartColumns(d)) : d \in ChartDatasets}, metrics: Nat, time: ColumnsOrNone,
   grain: {"day", "month", Nothing}, sort: ColumnsOrNone, filters: 0..1, having: 0..1,
   coords: [1..4 -> ColumnsOrNone], layers: SUBSET ChartIds, look: BOOLEAN]
\* Dimensions are columns of the dataset, and time is grouped by one of them only.
SoundChart(c) ==
  /\ c.dims \in Seq(ChartColumns(c.dataset))
  /\ c.time # Nothing => Among(c, c.time)
  /\ c.grain # Nothing => c.time # Nothing

\* What is saved at first was made by this editor, and an identity is free.
ASSUME ChartsSaved ==
  /\ \A c \in DOMAIN FirstSaved : FirstSaved[c] \in Drafts /\ SoundChart(FirstSaved[c])
  /\ ChartIds \ DOMAIN FirstSaved # {}

\* What a preview of a chart asks.
Asking(c, charts) ==
  IF c.type = "compositeMap"
  THEN [layers |-> {x \in c.layers : charts[x] # Nothing}, query |-> Nothing]
  ELSE [layers |-> {},
        query |-> <<c.dataset, c.dims, c.metrics, c.time, c.grain, c.sort, c.filters, c.having>>]

\* Two drafts ask the same, whatever of their layers the catalog has.
SameQuestion(c, d) ==
  /\ Asking(c, editor.charts).query = Asking(d, editor.charts).query
  /\ Asking(c, editor.charts).query = Nothing => c.layers = d.layers

EditorTypeOK ==
  /\ editor.draft.id \in ChartIds /\ editor.draft.revision \in Nat
  /\ editor.draft.type \in Types /\ editor.draft.dataset \in ChartDatasets
  /\ editor.draft.dims \in Seq(ChartColumns(editor.draft.dataset))
  /\ editor.draft.coords \in [1..4 -> ColumnsOrNone]
  /\ editor.draft.layers \subseteq ChartIds
  /\ {editor.loading, editor.saving, editor.failed, editor.first, editor.chosen,
      editor.replaced} \subseteq BOOLEAN
  /\ DOMAIN kept = ChartIds /\ DOMAIN editor.charts = ChartIds
  /\ editSteps \in 0..EditGestures

Draft == editor.draft
EditGesture == editSteps < EditGestures /\ editSteps' = editSteps + 1
EditorIdle == UNCHANGED editSteps
NoAnswer == UNCHANGED <<kept, fetch, trial, keeping>>

\* update: the preview is cancelled, its result and its selection are dropped.
\* An error of the preview stays.
Cancel == {[t EXCEPT !.aborted = TRUE] : t \in trial}
\* Mutant of Updated: the version is not moved on.
UpdatedSameVersion(draft) ==
  [editor EXCEPT !.draft = draft, !.loading = FALSE, !.result = Nothing, !.chosen = FALSE,
                 !.replaced = FALSE]
Updated(draft) ==
  [editor EXCEPT !.draft = draft, !.loading = FALSE, !.result = Nothing, !.chosen = FALSE,
                 !.version = @ + 1, !.replaced = FALSE]
Edit(draft) ==
  /\ EditGesture
  /\ editor' = Updated(draft) /\ trial' = Cancel
  /\ UNCHANGED <<kept, fetch, keeping>>

Free == {c \in ChartIds : kept[c] = Nothing /\ c # editor.draft.id}
Fresh == CHOOSE c \in Free : TRUE
FirstDataset == CHOOSE d \in ChartDatasets : TRUE

EditorInit ==
  /\ kept = [c \in ChartIds |-> IF c \in DOMAIN FirstSaved THEN FirstSaved[c] ELSE Nothing]
  /\ editor = [charts |-> [c \in ChartIds |-> Nothing],
               draft |-> New(CHOOSE c \in ChartIds : kept[c] = Nothing, FirstDataset),
               result |-> Nothing, failed |-> FALSE, loading |-> FALSE, saving |-> FALSE,
               first |-> FALSE, chosen |-> FALSE, version |-> 0, replaced |-> FALSE]
  /\ fetch = [read |-> FALSE, charts |-> Nothing] /\ trial = {} /\ keeping = Nothing
  /\ editSteps = 0

-----------------------------------------------------------------------------
(* The catalog.                                                            *)

\* The layers of the chart before stay with a chart saved without layers: it
\* is laid over the draft, and the server leaves an empty list out.
Over(saved) ==
  [saved EXCEPT !.layers = IF @ = {} THEN editor.draft.layers ELSE @]

ChooseSaved == \E c \in ChartIds : editor.charts[c] # Nothing /\ Edit(Over(editor.charts[c]))
NewChart == Free # {} /\ Edit([New(Fresh, FirstDataset) EXCEPT !.layers = editor.draft.layers])
ReloadChart ==
  /\ editor.draft.revision > 0 /\ editor.charts[editor.draft.id] # Nothing
  /\ Edit(Over(editor.charts[editor.draft.id]))

RefreshCatalog ==
  /\ fetch = Nothing /\ EditGesture
  /\ fetch' = [read |-> FALSE, charts |-> Nothing] /\ UNCHANGED <<editor, kept, trial, keeping>>
CatalogRead ==
  /\ fetch # Nothing /\ ~fetch.read /\ EditorIdle
  /\ fetch' = [read |-> TRUE, charts |-> kept] /\ UNCHANGED <<editor, kept, trial, keeping>>
\* The first load that answers opens the first chart, over whatever was begun.
CatalogShown ==
  /\ fetch # Nothing /\ fetch.read /\ EditorIdle
  /\ LET listed == {c \in ChartIds : fetch.charts[c] # Nothing}
         c == CHOOSE x \in listed : TRUE
     IN  editor' = [editor EXCEPT !.charts = fetch.charts, !.first = TRUE,
                      !.draft = IF editor.first \/ listed = {} THEN @ ELSE fetch.charts[c],
                      !.replaced = @ \/ (~editor.first /\ listed # {})]
  /\ fetch' = Nothing
  /\ UNCHANGED <<kept, trial, keeping>>
CatalogFailed ==
  /\ fetch # Nothing /\ EditGesture
  /\ fetch' = Nothing /\ UNCHANGED <<editor, kept, trial, keeping>>

-----------------------------------------------------------------------------
(* The form.                                                               *)

NotComposite == Draft.type # "compositeMap"

NameChart == Edit([Draft EXCEPT !.named = ~@])
SetType == \E t \in Types \ {Draft.type} : Edit([Draft EXCEPT !.type = t])
\* Mutant of SetDataset: the query keeps the fields of the dataset before.
SetDatasetOnly ==
  \E d \in ChartDatasets \ {Draft.dataset} : Edit([Draft EXCEPT !.dataset = d])
\* Another dataset starts the query and the options afresh.
SetDataset ==
  \E d \in ChartDatasets \ {Draft.dataset} :
    Edit([New(Draft.id, d) EXCEPT !.revision = Draft.revision, !.named = Draft.named,
            !.type = Draft.type, !.layers = Draft.layers])
\* Layers are other charts on a map.
SetLayers ==
  /\ Draft.type = "compositeMap"
  /\ \E c \in ChartIds \ {Draft.id} :
       /\ editor.charts[c] # Nothing /\ editor.charts[c].type \in GeoTypes
       /\ Edit([Draft EXCEPT !.layers = IF c \in @ THEN @ \ {c} ELSE @ \cup {c}])
\* Mutant of WithDims: the date field may be gone from the dimensions.
WithDimsOnly(dims) == [Draft EXCEPT !.dims = dims]
\* The date field goes with its dimension, and its grouping with it.
WithDims(dims) ==
  LET stays == \E i \in DOMAIN dims : dims[i] = Draft.time
  IN  [Draft EXCEPT !.dims = dims, !.time = IF stays THEN @ ELSE Nothing,
                    !.grain = IF stays THEN @ ELSE Nothing]
SetDims ==
  /\ NotComposite
  /\ \/ \E f \in ChartColumns(Draft.dataset) : ~Among(Draft, f) /\ Edit(WithDims(Append(Draft.dims, f)))
     \/ \E i \in DOMAIN Draft.dims :
          Edit(WithDims(SubSeq(Draft.dims, 1, i - 1) \o SubSeq(Draft.dims, i + 1, Len(Draft.dims))))
SetMetrics ==
  /\ NotComposite
  /\ \E n \in 0..MetricsOf[Draft.dataset] : n # Draft.metrics /\ Edit([Draft EXCEPT !.metrics = n])
SetTime ==
  /\ NotComposite
  /\ \/ \E i \in DOMAIN Draft.dims :
          Edit([Draft EXCEPT !.time = Draft.dims[i], !.grain = IF @ = Nothing THEN "day" ELSE @])
     \/ Draft.time # Nothing /\ Edit([Draft EXCEPT !.time = Nothing, !.grain = Nothing])
SetGrain ==
  /\ NotComposite /\ Draft.time # Nothing
  /\ \E g \in {"day", "month", Nothing} : g # Draft.grain /\ Edit([Draft EXCEPT !.grain = g])
\* By a dimension or by a metric, and which way.
SetSort ==
  /\ NotComposite
  /\ \E by \in {Draft.dims[i] : i \in DOMAIN Draft.dims} \cup {Nothing} :
       by # Draft.sort /\ Edit([Draft EXCEPT !.sort = by])
\* Rows for filters and for conditions on the metrics that are asked for.
SetFilterRows ==
  /\ NotComposite
  /\ \E n \in 0..1 : n # Draft.filters /\ Edit([Draft EXCEPT !.filters = n])
SetAggregateRows ==
  /\ NotComposite
  /\ \E n \in 0..1 :
       /\ n # Draft.having
       /\ n > Draft.having => Draft.metrics > 0
       /\ Edit([Draft EXCEPT !.having = n])
SetCoordinate ==
  /\ Draft.type \in GeoTypes
  /\ \E p \in Places(Draft.type), f \in ChartColumns(Draft.dataset) \cup {Nothing} :
       /\ f # Draft.coords[p] /\ (f = Nothing \/ Among(Draft, f))
       /\ Edit([Draft EXCEPT !.coords[p] = f])
\* Options that change how a chart looks.
SetLook == Edit([Draft EXCEPT !.look = ~@])

-----------------------------------------------------------------------------
(* Preview, save and removal.                                              *)

\* The button is busy while a preview runs.
TryChart ==
  /\ ValidChart(Draft) /\ ~editor.loading
  /\ EditGesture
  /\ editor' = [editor EXCEPT !.version = @ + 1, !.loading = TRUE, !.failed = FALSE,
                              !.chosen = FALSE, !.replaced = FALSE]
  /\ trial' = Cancel \cup {[version |-> editor.version + 1, aborted |-> FALSE,
                            asks |-> Asking(Draft, editor.charts)]}
  /\ UNCHANGED <<kept, fetch, keeping>>
\* Only the answer of the newest version is taken, only its failure is shown.
TryAnswered ==
  /\ EditorIdle
  /\ \E t \in trial :
       /\ trial' = trial \ {t}
       /\ IF t.version # editor.version THEN UNCHANGED editor
          ELSE \/ editor' = [editor EXCEPT !.loading = FALSE, !.result = t.asks]
               \/ editor' = [editor EXCEPT !.loading = FALSE, !.failed = @ \/ ~t.aborted]
  /\ UNCHANGED <<kept, fetch, keeping>>
\* Marks of the preview are chosen, or given up.
ChooseMarks ==
  /\ editor.result # Nothing /\ ~editor.failed /\ ~editor.loading
  /\ EditGesture
  /\ editor' = [editor EXCEPT !.chosen = ~@]
  /\ NoAnswer

SaveChart ==
  /\ ValidChart(Draft) /\ ~editor.saving
  /\ EditGesture
  /\ editor' = [editor EXCEPT !.saving = TRUE]
  /\ keeping' = [kind |-> "save", chart |-> Draft, stage |-> "sent"]
  /\ UNCHANGED <<kept, fetch, trial>>
DeleteChart ==
  /\ Draft.revision > 0 /\ ~editor.saving
  /\ EditGesture
  /\ editor' = [editor EXCEPT !.saving = TRUE]
  /\ keeping' = [kind |-> "delete", chart |-> Draft, stage |-> "sent"]
  /\ UNCHANGED <<kept, fetch, trial>>
\* The server, external: the revision must fit, layers must be other charts
\* that exist, and a chart that is a layer cannot be removed.
Accepts(op) ==
  /\ op.chart.revision = IF kept[op.chart.id] = Nothing THEN 0 ELSE kept[op.chart.id].revision
  /\ op.kind = "save" =>
       \A l \in op.chart.layers : l # op.chart.id /\ kept[l] # Nothing
  /\ op.kind = "delete" =>
       \A c \in ChartIds : kept[c] # Nothing => op.chart.id \notin kept[c].layers
Served ==
  /\ keeping # Nothing /\ keeping.stage = "sent" /\ EditorIdle
  /\ IF Accepts(keeping)
     THEN LET saved == [keeping.chart EXCEPT !.revision = @ + 1]
          IN  /\ kept' = [kept EXCEPT ![keeping.chart.id] =
                            IF keeping.kind = "save" THEN saved ELSE Nothing]
              /\ keeping' = [keeping EXCEPT !.stage = "done", !.chart = saved]
     ELSE UNCHANGED kept /\ keeping' = [keeping EXCEPT !.stage = "refused"]
  /\ UNCHANGED <<editor, fetch, trial>>
\* The draft becomes what was saved, and edits made meanwhile are gone.
SaveShown ==
  /\ keeping # Nothing /\ keeping.stage = "done" /\ keeping.kind = "save" /\ EditorIdle
  /\ editor' = [editor EXCEPT !.saving = FALSE, !.draft = keeping.chart,
                  !.charts[keeping.chart.id] = keeping.chart,
                  !.replaced = @ \/ ~SameQuestion(keeping.chart, Draft)]
  /\ keeping' = Nothing
  /\ UNCHANGED <<kept, fetch, trial>>
DeleteShown ==
  /\ keeping # Nothing /\ keeping.stage = "done" /\ keeping.kind = "delete" /\ EditorIdle
  /\ Free # {}
  /\ editor' = [Updated([New(Fresh, FirstDataset) EXCEPT !.layers = Draft.layers])
                  EXCEPT !.saving = FALSE, !.charts[keeping.chart.id] = Nothing]
  /\ trial' = Cancel /\ keeping' = Nothing
  /\ UNCHANGED <<kept, fetch>>
KeepRefused ==
  /\ keeping # Nothing /\ keeping.stage \in {"sent", "refused"}
  /\ IF keeping.stage = "sent" THEN EditGesture ELSE EditorIdle
  /\ editor' = [editor EXCEPT !.saving = FALSE] /\ keeping' = Nothing
  /\ UNCHANGED <<kept, fetch, trial>>

EditorNext ==
  \/ ChooseSaved \/ NewChart \/ ReloadChart \/ RefreshCatalog \/ CatalogRead \/ CatalogShown
  \/ CatalogFailed \/ NameChart \/ SetType \/ SetDataset \/ SetLayers \/ SetDims \/ SetMetrics
  \/ SetTime \/ SetGrain \/ SetSort \/ SetFilterRows \/ SetAggregateRows \/ SetCoordinate
  \/ SetLook \/ TryChart \/ TryAnswered \/ ChooseMarks \/ SaveChart \/ DeleteChart
  \/ Served \/ SaveShown \/ DeleteShown \/ KeepRefused

EditorSpec == EditorInit /\ [][EditorNext]_chartVars

-----------------------------------------------------------------------------
\* The preview shows what the draft asks, or nothing: an edit leaves no result
\* of the draft before, and a late answer brings none back. A save answered and
\* a first load replace the draft beside its preview and are excepted until the
\* next edit (ChartBuilder.tsx:147 and :213).
TrialFits ==
  editor.result # Nothing /\ ~editor.replaced /\ ~editor.loading /\ ~editor.failed =>
    /\ editor.result.query = Asking(Draft, editor.charts).query
    /\ editor.result.query = Nothing => editor.result.layers \subseteq Draft.layers

\* A date field is one of the dimensions, and time is grouped by one only.
TimeGroupsADimension ==
  /\ Draft.time # Nothing => Among(Draft, Draft.time)
  /\ Draft.grain # Nothing => Draft.time # Nothing

=============================================================================
