--------------------------- MODULE AnalyticsState ---------------------------
(***************************************************************************)
(* The definitions the analytics store keeps and what the backend computes *)
(* from them: validation, publication and export                           *)
(* (backend/internal/analytics: types.go, store.go, publication.go,        *)
(* transfer.go, import_reference.go).                                      *)
(*                                                                         *)
(* Names, labels, layout, SQL text and filter values are left out; kept    *)
(* are the references between objects, which is what validation, pinning   *)
(* and export are about.  A reference is a field of a dataset.  A filter   *)
(* made of alternatives (anyOf) is left out: each of them is a filter.     *)
(***************************************************************************)
EXTENDS Naturals, FiniteSets

CONSTANTS
  Datasets, Charts, Dashboards,   \* ids of editable objects
  Publications, Shares,           \* random ids
  Fields,                         \* field ids
  Meanings,                       \* semantic ids
  Widgets,                        \* widget ids
  None

Reference == [dataset : Datasets, field : Fields]

(* A relationship: source is a field of the dataset that declares it.      *)
Relationship ==
  [source : Fields, dataset : Datasets, field : Fields, allowFiltering : BOOLEAN]

(* means is the semantic id of a field, if it has one.                     *)
Dataset == [fields : SUBSET Fields, means : [Fields -> Meanings \cup {None}],
            relationships : SUBSET Relationship]

(* uses are the fields of the chart's dataset that it selects and the      *)
(* fields of any dataset that it filters by.                               *)
Chart == [dataset : Datasets, compositeMap : BOOLEAN,
          uses : SUBSET Reference, layers : SUBSET Charts]

(* A filter without a dataset is about that of the chart it meets; with    *)
(* targets it is for those widgets only.                                   *)
Filter == [dataset : Datasets \cup {None}, field : Fields, targets : SUBSET Widgets]

(* A widget without a chart is a text.                                     *)
Widget == [id : Widgets, chart : Charts \cup {None}, targets : SUBSET Widgets]

Dashboard == [widgets : SUBSET Widget, nativeFilters : SUBSET Filter,
              filters : SUBSET Filter]

Versioned(D) == [revision : Nat \ {0}, def : D]

(* What a publication pins: the definitions as they were.                  *)
Publication ==
  [dashboard : Dashboard,
   charts : [Charts -> Chart \cup {None}],
   datasets : [Datasets -> Dataset \cup {None}]]

(* The filters of a share are locked: its viewers cannot remove them.      *)
Share == [publication : Publications, revision : Nat \ {0},
          revoked : BOOLEAN, expires : BOOLEAN, filters : SUBSET Filter]

EditableKinds == {"datasets", "charts", "dashboards"}

State ==
  [datasets : [Datasets -> Versioned(Dataset) \cup {None}],
   charts : [Charts -> Versioned(Chart) \cup {None}],
   dashboards : [Dashboards -> Versioned(Dashboard) \cup {None}],
   publications : [Publications -> Publication \cup {None}],
   shares : [Shares -> Share \cup {None}]]

(* null is no id, and no object.                                           *)
ASSUME NoneApart ==
  /\ None \notin Datasets \cup Charts \cup Dashboards \cup Publications \cup Shares
  /\ None \notin Meanings
  /\ None \notin Dataset \cup Chart
  /\ None \notin Versioned(Dataset) \cup Versioned(Chart) \cup Versioned(Dashboard)
  /\ None \notin Publication \cup Share

Present(m) == {id \in DOMAIN m : m[id] # None}

----------------------------------------------------------------------------
(* validateState.                                                          *)

HasField(s, ref) ==
  /\ s.datasets[ref.dataset] # None
  /\ ref.field \in s.datasets[ref.dataset].def.fields

ValidDataset(s, d) ==
  LET def == s.datasets[d].def IN
  \A r \in def.relationships : r.source \in def.fields /\ HasField(s, r)

ValidChart(s, c) ==
  LET def == s.charts[c].def IN
  /\ s.datasets[def.dataset] # None
  /\ \A ref \in def.uses : HasField(s, ref)
  /\ \A l \in def.layers : l # c /\ s.charts[l] # None

(* The depth-first search with colours finds a cycle exactly when some     *)
(* charts each have a layer among them.                                    *)
NoLayerCycle(s) ==
  \A S \in SUBSET Present(s.charts) :
    S # {} => \E c \in S : s.charts[c].def.layers \cap S = {}

WidgetIds(def) == {w.id : w \in def.widgets}
WidgetCharts(def) == {w.chart : w \in def.widgets} \ {None}

ValidDashboard(s, b) ==
  LET def == s.dashboards[b].def IN
  /\ \A v, w \in def.widgets : v.id = w.id => v = w
  /\ \A c \in WidgetCharts(def) : s.charts[c] # None
  /\ \A f \in def.nativeFilters : f.dataset # None
  /\ \A f \in def.nativeFilters \cup def.filters : f.dataset # None => HasField(s, f)
  /\ \A x \in def.widgets \cup def.nativeFilters \cup def.filters :
       x.targets \subseteq WidgetIds(def)

ValidState(s) ==
  /\ \A d \in Present(s.datasets) : ValidDataset(s, d)
  /\ \A c \in Present(s.charts) : ValidChart(s, c)
  /\ NoLayerCycle(s)
  /\ \A b \in Present(s.dashboards) : ValidDashboard(s, b)

----------------------------------------------------------------------------
(* Transitive dependencies.                                                *)

(* What a search with a visited set collects from the roots.               *)
Closure(roots, Succ(_), all) ==
  {x \in all : \A T \in SUBSET all :
     roots \subseteq T /\ (\A y \in T : Succ(y) \subseteq T) => x \in T}

Layers(s, c) == IF s.charts[c] = None THEN {} ELSE s.charts[c].def.layers

Targets(s, d) ==
  IF s.datasets[d] = None THEN {}
  ELSE {r.dataset : r \in s.datasets[d].def.relationships}

(* addChart, from the widgets of a dashboard.                              *)
PinnedCharts(s, b) ==
  LET Succ(c) == Layers(s, c) IN
  Closure(WidgetCharts(s.dashboards[b].def), Succ, Charts)

(* addDataset.                                                             *)
WithTargets(s, roots) ==
  LET Succ(d) == Targets(s, d) IN Closure(roots, Succ, Datasets)

ChartDatasets(s, charts) == {s.charts[c].def.dataset : c \in charts}

FilterDatasets(refs) == {ref.dataset : ref \in refs} \ {None}

(* Publish collects the datasets of native filters and of charts.          *)
PinnedDatasets(s, b) ==
  WithTargets(s, FilterDatasets(s.dashboards[b].def.nativeFilters)
                   \cup ChartDatasets(s, PinnedCharts(s, b)))

----------------------------------------------------------------------------
(* Publish.                                                                *)

Snapshot(s, b) ==
  [dashboard |-> s.dashboards[b].def,
   charts |-> [c \in Charts |->
     IF c \in PinnedCharts(s, b) THEN s.charts[c].def ELSE None],
   datasets |-> [d \in Datasets |->
     IF d \in PinnedDatasets(s, b) THEN s.datasets[d].def ELSE None]]

(* CompileQuery against the pinned datasets: a filter on another dataset   *)
(* needs exactly one relationship that allows filtering.                   *)
Compiles(p, root, uses) ==
  /\ p.datasets[root] # None
  /\ \A ref \in uses :
       \/ ref.dataset = root /\ ref.field \in p.datasets[root].fields
       \/ /\ ref.dataset # root
          /\ p.datasets[ref.dataset] # None
          /\ ref.field \in p.datasets[ref.dataset].fields
          /\ Cardinality({r \in p.datasets[root].relationships :
                            r.dataset = ref.dataset /\ r.allowFiltering}) = 1

(* contains: the widget's chart and, under it, the layers of composite     *)
(* maps, as they are in the publication.                                   *)
WidgetShows(p, w) ==
  LET Succ(c) == IF p.charts[c] = None THEN {} ELSE p.charts[c].layers
  IN  IF w.chart = None THEN {} ELSE Closure({w.chart}, Succ, Charts)

PlainCharts(p) == {c \in Present(p.charts) : ~p.charts[c].compositeMap}

(* The filters of a group that query applies to the charts of a widget.    *)
Applying(filters, w) == {f \in filters : f.targets = {} \/ w.id \in f.targets}

Source(f, root) == IF f.dataset = None THEN root ELSE f.dataset

(* A filter of an unpinned dataset or an unknown field is an error, not a  *)
(* filter that is skipped.                                                 *)
Known(p, f, root) ==
  /\ p.datasets[Source(f, root)] # None
  /\ f.field \in p.datasets[Source(f, root)].fields

(* mapFilter: the field itself, the first field of the chart's dataset of  *)
(* the same meaning (any of them here, all the same to the compiler), the  *)
(* field across a relationship, or nothing if it is not compatible.        *)
MappedTo(p, f, root) ==
  LET from == Source(f, root)
      target == p.datasets[root]
      meaning == p.datasets[from].means[f.field]
      alike == IF meaning = None THEN {} ELSE {x \in target.fields : target.means[x] = meaning}
      joined == \E r \in target.relationships : r.dataset = from /\ r.allowFiltering
  IN  IF from = root THEN {[dataset |-> root, field |-> f.field]}
      ELSE IF alike # {} THEN {[dataset |-> root, field |-> x] : x \in alike}
      ELSE IF joined THEN {[dataset |-> from, field |-> f.field]} ELSE {}

(* Faulty variant: a locked filter that cannot be mapped is skipped, as an *)
(* unscoped filter of the dashboard is.                                    *)
MandatoryScoped(p, w, locked) ==
  {f \in Applying(p.dashboard.filters \cup locked, w) : f.targets # {}}

(* The filters that must be mapped: locked ones always apply, and one that *)
(* is scoped to a widget applies to it.                                    *)
Mandatory(p, w, locked) ==
  Applying(locked, w) \cup {f \in Applying(p.dashboard.filters, w) : f.targets # {}}

(* query of a chart in a widget, without filters of the viewer.            *)
QueryFits(p, c, w, locked) ==
  LET root == p.charts[c].dataset
      applying == Applying(p.dashboard.filters \cup locked, w)
  IN  /\ \A f \in applying : Known(p, f, root)
      /\ \A f \in Mandatory(p, w, locked) : MappedTo(p, f, root) # {}
      /\ Compiles(p, root, p.charts[c].uses \cup UNION {MappedTo(p, f, root) : f \in applying})

(* validateFilters: every chart of every widget, those of a text excepted. *)
FiltersFit(p, locked) ==
  /\ \A f \in p.dashboard.filters \cup locked : f.targets \subseteq WidgetIds(p.dashboard)
  /\ \A w \in p.dashboard.widgets : \A c \in PlainCharts(p) \cap WidgetShows(p, w) :
       QueryFits(p, c, w, locked)

(* Every pinned query compiles on its own and as it is shown.              *)
Publishable(p) ==
  /\ \A c \in PlainCharts(p) : Compiles(p, p.charts[c].dataset, p.charts[c].uses)
  /\ FiltersFit(p, {})

----------------------------------------------------------------------------
(* ExportDashboard and ImportDashboard.                                    *)

ChartFilterDatasets(s, charts) ==
  UNION {FilterDatasets(s.charts[c].def.uses) : c \in charts}

(* Faulty variant: the filters of the dashboard itself are forgotten.      *)
BundleDatasetsWithoutFilters(s, b) ==
  LET charts == PinnedCharts(s, b) IN
  WithTargets(s, ChartDatasets(s, charts) \cup ChartFilterDatasets(s, charts)
                   \cup FilterDatasets(s.dashboards[b].def.nativeFilters))

BundleDatasets(s, b) ==
  LET charts == PinnedCharts(s, b) IN
  WithTargets(s, ChartDatasets(s, charts) \cup ChartFilterDatasets(s, charts)
                   \cup FilterDatasets(s.dashboards[b].def.nativeFilters)
                   \cup FilterDatasets(s.dashboards[b].def.filters))

Unrevised(o) == [o EXCEPT !.revision = 1]

(* The bundle as the state that bundleState builds from it on import.      *)
Bundle(s, b) ==
  [datasets |-> [d \in Datasets |->
     IF d \in BundleDatasets(s, b) THEN Unrevised(s.datasets[d]) ELSE None],
   charts |-> [c \in Charts |->
     IF c \in PinnedCharts(s, b) THEN Unrevised(s.charts[c]) ELSE None],
   dashboards |-> [x \in Dashboards |->
     IF x = b THEN Unrevised(s.dashboards[b]) ELSE None],
   publications |-> [p \in Publications |-> None],
   shares |-> [h \in Shares |-> None]]

MergeKind(old, new) ==
  [id \in DOMAIN old |->
     IF new[id] = None THEN old[id]
     ELSE [new[id] EXCEPT !.revision =
             IF old[id] = None THEN 1 ELSE old[id].revision + 1]]

Merge(s, bundle) ==
  [s EXCEPT !.datasets = MergeKind(@, bundle.datasets),
            !.charts = MergeKind(@, bundle.charts),
            !.dashboards = MergeKind(@, bundle.dashboards)]

(* What a reference definition would not change.                           *)
Unchanged(old, new) ==
  {id \in Present(new) : old[id] # None /\ old[id].def = new[id].def}

Without(m, ids) == [id \in DOMAIN m |-> IF id \in ids THEN None ELSE m[id]]

(* The saves of ImportReference, all but those of the ids in alike.        *)
MergeReference(s, reference, alike) ==
  Merge(s, [reference EXCEPT !.datasets = Without(@, alike),
                             !.charts = Without(@, alike),
                             !.dashboards = Without(@, alike)])

(* CompileQuery of every chart of the reference, over the merged datasets. *)
ReferenceCompiles(s, reference) ==
  LET defs == [datasets |-> [d \in Datasets |->
        IF s.datasets[d] = None THEN None ELSE s.datasets[d].def]] IN
  \A c \in Present(reference.charts) :
    LET def == reference.charts[c].def IN
    ~def.compositeMap => Compiles(defs, def.dataset, def.uses)

Overlaps(s, bundle) ==
  \/ Present(s.datasets) \cap Present(bundle.datasets) # {}
  \/ Present(s.charts) \cap Present(bundle.charts) # {}
  \/ Present(s.dashboards) \cap Present(bundle.dashboards) # {}
============================================================================
