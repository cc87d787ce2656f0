------------------------ MODULE AnalyticsStoreProofs ------------------------
(***************************************************************************)
(* Proofs about AnalyticsStore, for any sets of ids, editors and viewers   *)
(* and any number of writes and crashes: the types, that the file always   *)
(* opens and is what is served, that publications are closed and never     *)
(* change, that one of the editors of a revision wins, that a revoked link *)
(* is dead, and that the store implements the durable objects.             *)
(***************************************************************************)
EXTENDS AnalyticsStore, TLAPS

----------------------------------------------------------------------------
(* What validation, export and publication of the definitions guarantee of *)
(* each other.                                                             *)

(* The searches for dependencies: what they find holds the roots, is       *)
(* closed, and is the least such set.                                      *)

LEMMA PinnedChartsClosure ==
  ASSUME NEW s, NEW b
  PROVE  /\ PinnedCharts(s, b) \subseteq Charts
         /\ WidgetCharts(s.dashboards[b].def) \cap Charts \subseteq PinnedCharts(s, b)
         /\ \A c \in PinnedCharts(s, b) : Layers(s, c) \cap Charts \subseteq PinnedCharts(s, b)
         /\ \A T \in SUBSET Charts :
              /\ WidgetCharts(s.dashboards[b].def) \subseteq T
              /\ \A y \in T : Layers(s, y) \subseteq T
              => PinnedCharts(s, b) \subseteq T
  BY DEF PinnedCharts, Closure

LEMMA WithTargetsClosure ==
  ASSUME NEW s, NEW roots
  PROVE  /\ WithTargets(s, roots) \subseteq Datasets
         /\ roots \cap Datasets \subseteq WithTargets(s, roots)
         /\ \A d \in WithTargets(s, roots) :
              Targets(s, d) \cap Datasets \subseteq WithTargets(s, roots)
         /\ \A T \in SUBSET Datasets :
              /\ roots \subseteq T
              /\ \A y \in T : Targets(s, y) \subseteq T
              => WithTargets(s, roots) \subseteq T
  BY DEF WithTargets, Closure

----------------------------------------------------------------------------
(* In a valid state, what is found is there.                               *)

LEMMA DatasetTyped ==
  ASSUME NEW s \in State, NEW d \in Present(s.datasets)
  PROVE  /\ d \in Datasets
         /\ s.datasets[d] \in Versioned(Dataset)
         /\ s.datasets[d].def \in Dataset
         /\ Targets(s, d) \subseteq Datasets
<1>1. d \in Datasets /\ s.datasets[d] \in Versioned(Dataset) /\ s.datasets[d] # None
  BY DEF State, Present
<1>2. s.datasets[d].def \in Dataset
  BY <1>1 DEF Versioned
<1>3. \A r \in s.datasets[d].def.relationships : r.dataset \in Datasets
  BY <1>2 DEF Dataset, Relationship
<1> QED
  BY <1>1, <1>2, <1>3 DEF Targets

LEMMA ChartTyped ==
  ASSUME NEW s \in State, NEW c \in Present(s.charts)
  PROVE  /\ c \in Charts
         /\ s.charts[c] \in Versioned(Chart)
         /\ s.charts[c].def \in Chart
         /\ s.charts[c].def.dataset \in Datasets
         /\ s.charts[c].def.uses \subseteq Reference
         /\ Layers(s, c) = s.charts[c].def.layers
         /\ Layers(s, c) \subseteq Charts
<1>1. c \in Charts /\ s.charts[c] \in Versioned(Chart) /\ s.charts[c] # None
  BY DEF State, Present
<1>2. s.charts[c].def \in Chart
  BY <1>1 DEF Versioned
<1> QED
  BY <1>1, <1>2 DEF Chart, Layers

LEMMA BoardTyped ==
  ASSUME NEW s \in State, NEW b \in Present(s.dashboards)
  PROVE  /\ b \in Dashboards
         /\ s.dashboards[b] \in Versioned(Dashboard)
         /\ s.dashboards[b].def \in Dashboard
         /\ s.dashboards[b].def.widgets \subseteq Widget
         /\ WidgetCharts(s.dashboards[b].def) \subseteq Charts
         /\ s.dashboards[b].def.nativeFilters \subseteq Filter
         /\ s.dashboards[b].def.filters \subseteq Filter
<1>1. b \in Dashboards /\ s.dashboards[b] \in Versioned(Dashboard)
  BY DEF State, Present
<1>2. s.dashboards[b].def \in Dashboard
  BY <1>1 DEF Versioned
<1>3. s.dashboards[b].def.widgets \subseteq Widget
  BY <1>2 DEF Dashboard
<1>4. WidgetCharts(s.dashboards[b].def) \subseteq Charts
  BY <1>3 DEF WidgetCharts, Widget
<1> QED
  BY <1>1, <1>2, <1>3, <1>4 DEF Dashboard

LEMMA PinnedArePresent ==
  ASSUME NEW s \in State, ValidState(s), NEW b \in Present(s.dashboards)
  PROVE  /\ PinnedCharts(s, b) \subseteq Present(s.charts)
         /\ WidgetCharts(s.dashboards[b].def) \subseteq PinnedCharts(s, b)
         /\ \A c \in PinnedCharts(s, b) : s.charts[c].def.layers \subseteq PinnedCharts(s, b)
<1>1. Present(s.charts) \in SUBSET Charts
  BY ChartTyped
<1>2. WidgetCharts(s.dashboards[b].def) \subseteq Present(s.charts)
  <2>1. ValidDashboard(s, b)
    BY DEF ValidState
  <2> QED
    BY <2>1, BoardTyped DEF ValidDashboard, Present, State
<1>3. ASSUME NEW c \in Present(s.charts)
      PROVE  Layers(s, c) \subseteq Present(s.charts)
  <2>1. ValidChart(s, c)
    BY DEF ValidState
  <2> QED
    BY <2>1, ChartTyped DEF ValidChart, Present, State
<1>4. PinnedCharts(s, b) \subseteq Present(s.charts)
  BY <1>1, <1>2, <1>3, PinnedChartsClosure
<1>5. WidgetCharts(s.dashboards[b].def) \subseteq PinnedCharts(s, b)
  BY PinnedChartsClosure, BoardTyped
<1>6. ASSUME NEW c \in PinnedCharts(s, b)
      PROVE  s.charts[c].def.layers \subseteq PinnedCharts(s, b)
  BY <1>4, PinnedChartsClosure, ChartTyped
<1> QED
  BY <1>4, <1>5, <1>6

LEMMA TargetsArePresent ==
  ASSUME NEW s \in State, ValidState(s), NEW roots \in SUBSET Present(s.datasets)
  PROVE  /\ WithTargets(s, roots) \subseteq Present(s.datasets)
         /\ roots \subseteq WithTargets(s, roots)
         /\ \A d \in WithTargets(s, roots) :
              \A r \in s.datasets[d].def.relationships : r.dataset \in WithTargets(s, roots)
<1>1. Present(s.datasets) \in SUBSET Datasets
  BY DatasetTyped
<1>2. ASSUME NEW d \in Present(s.datasets)
      PROVE  Targets(s, d) \subseteq Present(s.datasets)
  <2>1. ValidDataset(s, d)
    BY DEF ValidState
  <2>2. ASSUME NEW r \in s.datasets[d].def.relationships
        PROVE  s.datasets[r.dataset] # None
    BY <2>1 DEF ValidDataset, HasField
  <2>3. \A t \in Targets(s, d) : s.datasets[t] # None
    BY <2>2 DEF Targets, Present
  <2> QED
    BY <2>3, DatasetTyped DEF Present, State
<1>3. WithTargets(s, roots) \subseteq Present(s.datasets)
  BY <1>1, <1>2, WithTargetsClosure
<1>4. ASSUME NEW d \in WithTargets(s, roots), NEW r \in s.datasets[d].def.relationships
      PROVE  r.dataset \in WithTargets(s, roots)
  <2>1. r.dataset \in Targets(s, d)
    BY <1>3 DEF Targets, Present
  <2> QED
    BY <2>1, <1>3, WithTargetsClosure, DatasetTyped
<1> QED
  BY <1>1, <1>3, <1>4, WithTargetsClosure

----------------------------------------------------------------------------
(* Export.                                                                 *)

LEMMA BundleDatasetsPresent ==
  ASSUME NEW s \in State, ValidState(s), NEW b \in Present(s.dashboards)
  PROVE  /\ BundleDatasets(s, b) \subseteq Present(s.datasets)
         /\ \A d \in BundleDatasets(s, b) :
              \A r \in s.datasets[d].def.relationships : r.dataset \in BundleDatasets(s, b)
         /\ \A c \in PinnedCharts(s, b) :
              /\ s.charts[c].def.dataset \in BundleDatasets(s, b)
              /\ \A ref \in s.charts[c].def.uses : ref.dataset \in BundleDatasets(s, b)
         /\ \A f \in s.dashboards[b].def.nativeFilters \cup s.dashboards[b].def.filters :
              f.dataset # None => f.dataset \in BundleDatasets(s, b)
<1> DEFINE charts == PinnedCharts(s, b)
           def == s.dashboards[b].def
           roots == ChartDatasets(s, charts) \cup ChartFilterDatasets(s, charts)
                      \cup FilterDatasets(def.nativeFilters) \cup FilterDatasets(def.filters)
<1>1. ASSUME NEW c \in charts
      PROVE  /\ s.charts[c].def.dataset \in Present(s.datasets)
             /\ \A ref \in s.charts[c].def.uses : ref.dataset \in Present(s.datasets)
  <2>1. c \in Present(s.charts)
    BY PinnedArePresent
  <2>2. ValidChart(s, c)
    BY <2>1 DEF ValidState
  <2>3. s.charts[c].def.dataset \in Datasets /\ s.charts[c].def.uses \subseteq Reference
    BY <2>1, ChartTyped
  <2> QED
    BY <2>2, <2>3 DEF ValidChart, HasField, Present, State, Reference
<1>2. ASSUME NEW f \in def.nativeFilters \cup def.filters, f.dataset # None
      PROVE  f.dataset \in Present(s.datasets)
  <2>1. HasField(s, f)
    BY <1>2 DEF ValidState, ValidDashboard
  <2>2. f.dataset \in Datasets
    BY <1>2, BoardTyped DEF Filter
  <2> QED
    BY <2>1, <2>2 DEF HasField, Present, State
<1>3. roots \in SUBSET Present(s.datasets)
  BY <1>1, <1>2 DEF ChartDatasets, ChartFilterDatasets, FilterDatasets
<1>4. BundleDatasets(s, b) = WithTargets(s, roots)
  BY DEF BundleDatasets
<1>5. /\ \A c \in charts : /\ s.charts[c].def.dataset \in roots
                           /\ \A ref \in s.charts[c].def.uses : ref.dataset \in roots
      /\ \A f \in def.nativeFilters \cup def.filters : f.dataset # None => f.dataset \in roots
  BY <1>1, NoneApart DEF Present, State, ChartDatasets, ChartFilterDatasets, FilterDatasets
<1> HIDE DEF roots
<1> QED
  BY <1>3, <1>4, <1>5, TargetsArePresent

LEMMA UnrevisedTyped ==
  ASSUME NEW D, NEW o \in Versioned(D)
  PROVE  Unrevised(o) \in Versioned(D) /\ Unrevised(o).def = o.def
  BY DEF Unrevised, Versioned

LEMMA BundleTyped ==
  ASSUME NEW s \in State, ValidState(s), NEW b \in Present(s.dashboards)
  PROVE  Bundle(s, b) \in State
<1>1. \A d \in BundleDatasets(s, b) : Unrevised(s.datasets[d]) \in Versioned(Dataset)
  BY BundleDatasetsPresent, DatasetTyped, UnrevisedTyped
<1>2. \A c \in PinnedCharts(s, b) : Unrevised(s.charts[c]) \in Versioned(Chart)
  BY PinnedArePresent, ChartTyped, UnrevisedTyped
<1>3. Unrevised(s.dashboards[b]) \in Versioned(Dashboard)
  BY BoardTyped, UnrevisedTyped
<1> QED
  BY <1>1, <1>2, <1>3 DEF Bundle, State

(* A dashboard of a valid state is exported as a state that is valid by    *)
(* itself, which is what bundleState asks of it on import.                 *)
THEOREM ExportsAreValid ==
  ASSUME NEW s \in State, ValidState(s), NEW b \in Present(s.dashboards)
  PROVE  ValidState(Bundle(s, b))
<1> DEFINE n == Bundle(s, b)
<1>1. ASSUME NEW d \in Datasets
      PROVE  /\ d \in BundleDatasets(s, b) =>
                  n.datasets[d] # None /\ n.datasets[d].def = s.datasets[d].def
             /\ d \notin BundleDatasets(s, b) => n.datasets[d] = None
  <2>1. n.datasets[d] = IF d \in BundleDatasets(s, b) THEN Unrevised(s.datasets[d]) ELSE None
    BY DEF Bundle
  <2>2. d \in BundleDatasets(s, b) => s.datasets[d] \in Versioned(Dataset)
    BY BundleDatasetsPresent, DatasetTyped
  <2> QED
    BY <2>1, <2>2, UnrevisedTyped, NoneApart
<1>2. ASSUME NEW c \in Charts
      PROVE  /\ c \in PinnedCharts(s, b) =>
                  n.charts[c] # None /\ n.charts[c].def = s.charts[c].def
             /\ c \notin PinnedCharts(s, b) => n.charts[c] = None
  <2>1. n.charts[c] = IF c \in PinnedCharts(s, b) THEN Unrevised(s.charts[c]) ELSE None
    BY DEF Bundle
  <2>2. c \in PinnedCharts(s, b) => s.charts[c] \in Versioned(Chart)
    BY PinnedArePresent, ChartTyped
  <2> QED
    BY <2>1, <2>2, UnrevisedTyped, NoneApart
<1>3. Present(n.datasets) = BundleDatasets(s, b)
  <2>1. DOMAIN n.datasets = Datasets
    BY DEF Bundle
  <2> QED
    BY <1>1, <2>1, BundleDatasetsPresent, DatasetTyped DEF Present
<1>4. Present(n.charts) = PinnedCharts(s, b)
  <2>1. DOMAIN n.charts = Charts
    BY DEF Bundle
  <2> QED
    BY <1>2, <2>1, PinnedArePresent, ChartTyped DEF Present
<1>5. \A x \in Present(n.dashboards) : x = b
  BY DEF Bundle, Present
<1>6. n.dashboards[b].def = s.dashboards[b].def
  BY BoardTyped, UnrevisedTyped DEF Bundle
<1>7. ASSUME NEW ref, ref.dataset \in BundleDatasets(s, b), HasField(s, ref)
      PROVE  HasField(n, ref)
  BY <1>1, <1>7, BundleDatasetsPresent, DatasetTyped DEF HasField
<1> HIDE DEF n
<1>8. ASSUME NEW d \in Present(n.datasets)
      PROVE  ValidDataset(n, d)
  <2>1. d \in Present(s.datasets) /\ n.datasets[d].def = s.datasets[d].def
    BY <1>1, <1>3, BundleDatasetsPresent, DatasetTyped
  <2>2. ValidDataset(s, d)
    BY <2>1 DEF ValidState
  <2> QED
    BY <1>3, <1>7, <2>1, <2>2, BundleDatasetsPresent DEF ValidDataset
<1>9. ASSUME NEW c \in Present(n.charts)
      PROVE  ValidChart(n, c)
  <2>1. /\ c \in PinnedCharts(s, b) /\ c \in Present(s.charts)
        /\ n.charts[c].def = s.charts[c].def
    BY <1>2, <1>4, PinnedArePresent, ChartTyped
  <2>2. ValidChart(s, c)
    BY <2>1 DEF ValidState
  <2>3. /\ s.charts[c].def.dataset \in BundleDatasets(s, b)
        /\ \A ref \in s.charts[c].def.uses : ref.dataset \in BundleDatasets(s, b)
    BY <2>1, BundleDatasetsPresent
  <2>4. n.datasets[s.charts[c].def.dataset] # None
    BY <1>1, <2>1, <2>3, ChartTyped
  <2>5. \A l \in s.charts[c].def.layers : n.charts[l] # None
    BY <1>2, <2>1, PinnedArePresent, ChartTyped
  <2> QED
    BY <1>7, <2>1, <2>2, <2>3, <2>4, <2>5 DEF ValidChart
<1>10. NoLayerCycle(n)
  <2>1. SUFFICES ASSUME NEW S \in SUBSET Present(n.charts), S # {}
                 PROVE  \E c \in S : n.charts[c].def.layers \cap S = {}
    BY DEF NoLayerCycle
  <2>2. S \subseteq Present(s.charts) /\ S \subseteq PinnedCharts(s, b)
    BY <1>4, PinnedArePresent
  <2>3. NoLayerCycle(s)
    BY DEF ValidState
  <2>4. PICK c \in S : s.charts[c].def.layers \cap S = {}
    BY <2>1, <2>2, <2>3 DEF NoLayerCycle
  <2>5. n.charts[c].def = s.charts[c].def
    BY <1>2, <2>2, ChartTyped
  <2> QED
    BY <2>4, <2>5
<1>11. ASSUME NEW x \in Present(n.dashboards)
       PROVE  ValidDashboard(n, x)
  <2>1. x = b
    BY <1>5
  <2>2. ValidDashboard(s, b)
    BY DEF ValidState
  <2>3. \A c \in WidgetCharts(s.dashboards[b].def) : n.charts[c] # None
    BY <1>2, PinnedArePresent, BoardTyped
  <2>4. \A f \in s.dashboards[b].def.nativeFilters \cup s.dashboards[b].def.filters :
          f.dataset # None => HasField(n, f)
    BY <1>7, <2>2, BundleDatasetsPresent DEF ValidDashboard
  <2> QED
    BY <1>6, <2>1, <2>2, <2>3, <2>4 DEF ValidDashboard
<1> QED
  BY <1>8, <1>9, <1>10, <1>11 DEF ValidState, n

----------------------------------------------------------------------------
(* Publication.                                                            *)

LEMMA PinnedDatasetsPresent ==
  ASSUME NEW s \in State, ValidState(s), NEW b \in Present(s.dashboards)
  PROVE  /\ PinnedDatasets(s, b) \subseteq Present(s.datasets)
         /\ \A d \in PinnedDatasets(s, b) :
              \A r \in s.datasets[d].def.relationships : r.dataset \in PinnedDatasets(s, b)
         /\ \A c \in PinnedCharts(s, b) : s.charts[c].def.dataset \in PinnedDatasets(s, b)
         /\ \A f \in s.dashboards[b].def.nativeFilters : f.dataset \in PinnedDatasets(s, b)
<1> DEFINE charts == PinnedCharts(s, b)
           def == s.dashboards[b].def
           roots == FilterDatasets(def.nativeFilters) \cup ChartDatasets(s, charts)
<1>1. ASSUME NEW c \in charts
      PROVE  s.charts[c].def.dataset \in Present(s.datasets)
  <2>1. c \in Present(s.charts)
    BY PinnedArePresent
  <2>2. ValidChart(s, c)
    BY <2>1 DEF ValidState
  <2> QED
    BY <2>1, <2>2, ChartTyped DEF ValidChart, Present, State
<1>2. ASSUME NEW f \in def.nativeFilters
      PROVE  f.dataset # None /\ f.dataset \in Present(s.datasets)
  <2>1. f.dataset # None /\ HasField(s, f)
    BY DEF ValidState, ValidDashboard
  <2>2. f.dataset \in Datasets
    BY <2>1, BoardTyped DEF Filter
  <2> QED
    BY <2>1, <2>2 DEF HasField, Present, State
<1>3. roots \in SUBSET Present(s.datasets)
  BY <1>1, <1>2 DEF ChartDatasets, FilterDatasets
<1>4. PinnedDatasets(s, b) = WithTargets(s, roots)
  BY DEF PinnedDatasets
<1>5. /\ \A c \in charts : s.charts[c].def.dataset \in roots
      /\ \A f \in def.nativeFilters : f.dataset \in roots
  BY <1>2 DEF ChartDatasets, FilterDatasets
<1> HIDE DEF roots
<1> QED
  BY <1>3, <1>4, <1>5, TargetsArePresent

LEMMA SnapshotTyped ==
  ASSUME NEW s \in State, ValidState(s), NEW b \in Present(s.dashboards)
  PROVE  Snapshot(s, b) \in Publication
<1>1. \A d \in PinnedDatasets(s, b) : s.datasets[d].def \in Dataset
  BY PinnedDatasetsPresent, DatasetTyped
<1>2. \A c \in PinnedCharts(s, b) : s.charts[c].def \in Chart
  BY PinnedArePresent, ChartTyped
<1>3. s.dashboards[b].def \in Dashboard
  BY BoardTyped
<1> QED
  BY <1>1, <1>2, <1>3 DEF Snapshot, Publication

(* The charts a widget shows: its own, and the layers of those.            *)
LEMMA ShownClosure ==
  ASSUME NEW pub \in Publication, NEW w, w.chart # None, w.chart \in Charts
  PROVE  /\ w.chart \in WidgetShows(pub, w)
         /\ \A c \in WidgetShows(pub, w) :
              pub.charts[c] # None => pub.charts[c].layers \subseteq WidgetShows(pub, w)
<1> DEFINE Succ(c) == IF pub.charts[c] = None THEN {} ELSE pub.charts[c].layers
<1>1. WidgetShows(pub, w) = {x \in Charts : \A T \in SUBSET Charts :
        {w.chart} \subseteq T /\ (\A y \in T : Succ(y) \subseteq T) => x \in T}
  BY DEF WidgetShows, Closure
<1>2. \A c \in Charts : pub.charts[c] # None => pub.charts[c].layers \subseteq Charts
  BY DEF Publication, Chart
<1> QED
  BY <1>1, <1>2

(* Publish pins no chart that no widget shows.                             *)
LEMMA PinnedAreShown ==
  ASSUME NEW s \in State, ValidState(s), NEW b \in Present(s.dashboards),
         NEW c \in PinnedCharts(s, b)
  PROVE  \E w \in s.dashboards[b].def.widgets : c \in WidgetShows(Snapshot(s, b), w)
<1> DEFINE pub == Snapshot(s, b)
           widgets == s.dashboards[b].def.widgets
           T == {x \in PinnedCharts(s, b) : \E w \in widgets : x \in WidgetShows(pub, w)}
<1>1. pub \in Publication
  BY SnapshotTyped
<1>2. ASSUME NEW x \in PinnedCharts(s, b)
      PROVE  pub.charts[x] # None /\ pub.charts[x] = s.charts[x].def
  BY PinnedArePresent, ChartTyped, NoneApart DEF Snapshot
<1>3. ASSUME NEW x \in WidgetCharts(s.dashboards[b].def)
      PROVE  x \in T
  <2>1. x # None /\ \E w \in widgets : w.chart = x
    BY DEF WidgetCharts
  <2>2. PICK w \in widgets : w.chart = x
    BY <2>1
  <2>3. x \in Charts
    BY BoardTyped
  <2>4. x \in WidgetShows(pub, w)
    BY <1>1, <2>1, <2>2, <2>3, ShownClosure
  <2> QED
    BY <2>4, PinnedArePresent
<1>4. ASSUME NEW x \in T
      PROVE  Layers(s, x) \subseteq T
  <2>1. PICK w \in widgets : x \in WidgetShows(pub, w)
    OBVIOUS
  <2>2. w.chart # None
    BY <2>1 DEF WidgetShows
  <2>3. w.chart \in Charts
    BY <2>2, BoardTyped DEF WidgetCharts
  <2>4. pub.charts[x].layers \subseteq WidgetShows(pub, w)
    BY <1>1, <1>2, <2>1, <2>2, <2>3, ShownClosure
  <2>5. Layers(s, x) = s.charts[x].def.layers
    BY PinnedArePresent, ChartTyped
  <2> QED
    BY <1>2, <2>4, <2>5, PinnedArePresent
<1>5. T \in SUBSET Charts
  BY PinnedChartsClosure
<1> HIDE DEF T
<1>6. PinnedCharts(s, b) \subseteq T
  BY <1>3, <1>4, <1>5, PinnedChartsClosure
<1> QED
  BY <1>6 DEF T

(* What validateFilters accepts applies to every chart it reaches: the     *)
(* dashboard's own filters are of pinned datasets, and locked ones narrow. *)
LEMMA FittingFiltersApply ==
  ASSUME NEW pub, NEW locked, FiltersFit(pub, locked),
         NEW c \in PlainCharts(pub), \E w \in pub.dashboard.widgets : c \in WidgetShows(pub, w)
  PROVE  /\ \A f \in pub.dashboard.filters \cup locked :
              Meets(pub, f, c) => Known(pub, f, pub.charts[c].dataset)
         /\ \A f \in locked :
              Meets(pub, f, c) => MappedTo(pub, f, pub.charts[c].dataset) # {}
<1>1. ASSUME NEW f \in pub.dashboard.filters \cup locked, Meets(pub, f, c)
      PROVE  /\ Known(pub, f, pub.charts[c].dataset)
             /\ f \in locked => MappedTo(pub, f, pub.charts[c].dataset) # {}
  <2>1. PICK w \in pub.dashboard.widgets :
          c \in WidgetShows(pub, w) /\ (f.targets = {} \/ w.id \in f.targets)
    BY <1>1 DEF Meets
  <2>2. QueryFits(pub, c, w, locked)
    BY <2>1 DEF FiltersFit
  <2>3. /\ f \in Applying(pub.dashboard.filters \cup locked, w)
        /\ f \in locked => f \in Mandatory(pub, w, locked)
    BY <2>1 DEF Applying, Mandatory
  <2> QED
    BY <2>2, <2>3 DEF QueryFits
<1> QED
  BY <1>1

(* What Publish writes holds everything that its queries may refer to.     *)
THEOREM SnapshotsAreClosed ==
  ASSUME NEW s \in State, ValidState(s), NEW b \in Present(s.dashboards),
         Publishable(Snapshot(s, b))
  PROVE  Closed(Snapshot(s, b))
<1> DEFINE pub == Snapshot(s, b)
<1>1. /\ pub.dashboard = s.dashboards[b].def
      /\ DOMAIN pub.datasets = Datasets /\ DOMAIN pub.charts = Charts
  BY DEF Snapshot
<1>2. \A d \in PinnedDatasets(s, b) :
        /\ pub.datasets[d] # None
        /\ pub.datasets[d] = s.datasets[d].def
  BY PinnedDatasetsPresent, DatasetTyped, NoneApart DEF Snapshot
<1>3. \A c \in PinnedCharts(s, b) :
        /\ pub.charts[c] # None
        /\ pub.charts[c] = s.charts[c].def
  BY PinnedArePresent, ChartTyped, NoneApart DEF Snapshot
<1>4. Present(pub.datasets) \subseteq PinnedDatasets(s, b)
  BY DEF Snapshot, Present
<1>5. Present(pub.charts) \subseteq PinnedCharts(s, b)
  BY DEF Snapshot, Present
<1>6. \A c \in Present(pub.charts) : \E w \in pub.dashboard.widgets : c \in WidgetShows(pub, w)
  BY <1>1, <1>5, PinnedAreShown
<1>7. ASSUME NEW c \in PlainCharts(pub)
      PROVE  /\ \A ref \in pub.charts[c].uses : pub.datasets[ref.dataset] # None
             /\ \A f \in pub.dashboard.filters :
                  Meets(pub, f, c) => pub.datasets[Source(f, pub.charts[c].dataset)] # None
  <2>1. Compiles(pub, pub.charts[c].dataset, pub.charts[c].uses) /\ FiltersFit(pub, {})
    BY DEF Publishable
  <2>2. \E w \in pub.dashboard.widgets : c \in WidgetShows(pub, w)
    BY <1>6 DEF PlainCharts
  <2>3. \A f \in pub.dashboard.filters : Meets(pub, f, c) => Known(pub, f, pub.charts[c].dataset)
    BY <2>1, <2>2, FittingFiltersApply
  <2> QED
    BY <2>1, <2>3 DEF Compiles, Known
<1> HIDE DEF pub
<1>8. \A c \in WidgetCharts(pub.dashboard) : pub.charts[c] # None
  BY <1>1, <1>3, PinnedArePresent
<1>9. \A f \in pub.dashboard.nativeFilters : pub.datasets[f.dataset] # None
  BY <1>1, <1>2, PinnedDatasetsPresent
<1>10. \A d \in Present(pub.datasets) :
         \A r \in pub.datasets[d].relationships : pub.datasets[r.dataset] # None
  BY <1>2, <1>4, PinnedDatasetsPresent
<1>11. \A c \in Present(pub.charts) :
         /\ pub.datasets[pub.charts[c].dataset] # None
         /\ \A l \in pub.charts[c].layers : pub.charts[l] # None
  BY <1>2, <1>3, <1>5, PinnedDatasetsPresent, PinnedArePresent
<1> QED
  BY <1>6, <1>7, <1>8, <1>9, <1>10, <1>11 DEF Closed, pub

----------------------------------------------------------------------------
(* Imports.                                                                *)

LEMMA MergeKindTyped ==
  ASSUME NEW I, NEW D, None \notin Versioned(D),
         NEW old \in [I -> Versioned(D) \cup {None}],
         NEW new \in [I -> Versioned(D) \cup {None}]
  PROVE  /\ MergeKind(old, new) \in [I -> Versioned(D) \cup {None}]
         /\ \A id \in I :
              old[id] # None =>
                \/ MergeKind(old, new)[id] = old[id]
                \/ MergeKind(old, new)[id].revision > old[id].revision
<1> DEFINE m == MergeKind(old, new)
           revision(id) == IF old[id] = None THEN 1 ELSE old[id].revision + 1
<1>1. m = [id \in I |-> IF new[id] = None THEN old[id]
                        ELSE [new[id] EXCEPT !.revision = revision(id)]]
  BY DEF MergeKind
<1>2. ASSUME NEW id \in I
      PROVE  revision(id) \in Nat \ {0}
  BY DEF Versioned
<1> HIDE DEF m, revision
<1>3. ASSUME NEW id \in I, new[id] # None
      PROVE  m[id] \in Versioned(D) /\ m[id].revision = revision(id)
  <2>1. new[id] \in Versioned(D)
    BY <1>3
  <2> QED
    BY <1>1, <1>2, <1>3, <2>1 DEF Versioned
<1>4. m \in [I -> Versioned(D) \cup {None}]
  BY <1>1, <1>3
<1>5. ASSUME NEW id \in I, old[id] # None
      PROVE  m[id] # None /\ (m[id] = old[id] \/ m[id].revision > old[id].revision)
  <2>1. CASE new[id] = None
    BY <1>1, <1>5, <2>1
  <2>2. CASE new[id] # None
    BY <1>3, <1>5, <2>2 DEF revision, Versioned
  <2> QED
    BY <2>1, <2>2
<1> QED
  BY <1>4, <1>5 DEF m

LEMMA MergeTyped ==
  ASSUME NEW s \in State, NEW n \in State
  PROVE  Merge(s, n) \in State
<1>1. MergeKind(s.datasets, n.datasets) \in [Datasets -> Versioned(Dataset) \cup {None}]
  BY MergeKindTyped, NoneApart DEF State
<1>2. MergeKind(s.charts, n.charts) \in [Charts -> Versioned(Chart) \cup {None}]
  BY MergeKindTyped, NoneApart DEF State
<1>3. MergeKind(s.dashboards, n.dashboards)
        \in [Dashboards -> Versioned(Dashboard) \cup {None}]
  BY MergeKindTyped, NoneApart DEF State
<1> QED
  BY <1>1, <1>2, <1>3 DEF Merge, State

(* What a write may make of the stored objects: publications stay, revoked *)
(* shares stay revoked, and an object that is changed gets a later revision. *)
Evolves(s, n) ==
  /\ \A p \in Publications :
       s.publications[p] # None => n.publications[p] = s.publications[p]
  /\ \A h \in Shares :
       s.shares[h] # None /\ s.shares[h].revoked =>
         n.shares[h] # None /\ n.shares[h].revoked
  /\ \A k \in EditableKinds : \A id \in IdsOf(k) :
       s[k][id] # None /\ n[k][id] # None =>
         n[k][id] = s[k][id] \/ n[k][id].revision > s[k][id].revision

(* The next state of a request that has passed its checks.                 *)
Acceptable(s, n) ==
  n \in State /\ ValidState(n) /\ AllClosed(n) /\ Evolves(s, n)

LEMMA MergeEvolves ==
  ASSUME NEW s \in State, NEW n \in State, AllClosed(s)
  PROVE  Evolves(s, Merge(s, n)) /\ AllClosed(Merge(s, n))
<1> DEFINE m == Merge(s, n)
<1>1. /\ m.publications = s.publications /\ m.shares = s.shares
      /\ m.datasets = MergeKind(s.datasets, n.datasets)
      /\ m.charts = MergeKind(s.charts, n.charts)
      /\ m.dashboards = MergeKind(s.dashboards, n.dashboards)
  BY DEF Merge, State
<1>2. \A id \in Datasets :
        s.datasets[id] # None =>
          m.datasets[id] = s.datasets[id] \/ m.datasets[id].revision > s.datasets[id].revision
  <2>1. /\ s.datasets \in [Datasets -> Versioned(Dataset) \cup {None}]
        /\ n.datasets \in [Datasets -> Versioned(Dataset) \cup {None}]
        /\ None \notin Versioned(Dataset)
    BY NoneApart DEF State
  <2>2. \A id \in Datasets :
          s.datasets[id] # None =>
            \/ MergeKind(s.datasets, n.datasets)[id] = s.datasets[id]
            \/ MergeKind(s.datasets, n.datasets)[id].revision > s.datasets[id].revision
    BY <2>1, MergeKindTyped
  <2> QED
    BY <1>1, <2>2
<1>3. \A id \in Charts :
        s.charts[id] # None =>
          m.charts[id] = s.charts[id] \/ m.charts[id].revision > s.charts[id].revision
  <2>1. /\ s.charts \in [Charts -> Versioned(Chart) \cup {None}]
        /\ n.charts \in [Charts -> Versioned(Chart) \cup {None}]
        /\ None \notin Versioned(Chart)
    BY NoneApart DEF State
  <2>2. \A id \in Charts :
          s.charts[id] # None =>
            \/ MergeKind(s.charts, n.charts)[id] = s.charts[id]
            \/ MergeKind(s.charts, n.charts)[id].revision > s.charts[id].revision
    BY <2>1, MergeKindTyped
  <2> QED
    BY <1>1, <2>2
<1>4. \A id \in Dashboards :
        s.dashboards[id] # None =>
          m.dashboards[id] = s.dashboards[id]
            \/ m.dashboards[id].revision > s.dashboards[id].revision
  <2>1. /\ s.dashboards \in [Dashboards -> Versioned(Dashboard) \cup {None}]
        /\ n.dashboards \in [Dashboards -> Versioned(Dashboard) \cup {None}]
        /\ None \notin Versioned(Dashboard)
    BY NoneApart DEF State
  <2>2. \A id \in Dashboards :
          s.dashboards[id] # None =>
            \/ MergeKind(s.dashboards, n.dashboards)[id] = s.dashboards[id]
            \/ MergeKind(s.dashboards, n.dashboards)[id].revision > s.dashboards[id].revision
    BY <2>1, MergeKindTyped
  <2> QED
    BY <1>1, <2>2
<1> HIDE DEF m
<1> QED
  BY <1>1, <1>2, <1>3, <1>4 DEF Evolves, AllClosed, ShareFits, EditableKinds, IdsOf, m

(* Validation does not read publications and shares.                       *)
LEMMA SameDefinitionsValid ==
  ASSUME NEW s, NEW n, ValidState(s),
         n.datasets = s.datasets, n.charts = s.charts, n.dashboards = s.dashboards
  PROVE  ValidState(n)
  BY DEF ValidState, ValidDataset, ValidChart, ValidDashboard, NoLayerCycle, HasField

LEMMA SameKinds ==
  ASSUME NEW s, NEW n,
         n.datasets = s.datasets, n.charts = s.charts, n.dashboards = s.dashboards
  PROVE  \A k \in EditableKinds : n[k] = s[k]
  BY DEF EditableKinds

FormOf(k) == CASE k = "datasets" -> Dataset
               [] k = "charts" -> Chart
               [] k = "dashboards" -> Dashboard

(* One object of a state is written or removed.                            *)
LEMMA PutAcceptable ==
  ASSUME NEW s \in State, AllClosed(s),
         NEW k \in EditableKinds, NEW id \in IdsOf(k),
         NEW v \in Versioned(FormOf(k)) \cup {None},
         s[k][id] # None /\ v # None => v.revision > s[k][id].revision,
         ValidState([s EXCEPT ![k][id] = v])
  PROVE  Acceptable(s, [s EXCEPT ![k][id] = v])
<1> DEFINE n == [s EXCEPT ![k][id] = v]
<1>1. /\ n.publications = s.publications /\ n.shares = s.shares
      /\ \A j \in EditableKinds : j # k => n[j] = s[j]
      /\ n[k] = [s[k] EXCEPT ![id] = v]
  BY DEF State, EditableKinds
<1>2. n \in State
  <2>1. CASE k = "datasets"
    BY <2>1 DEF State, IdsOf, FormOf
  <2>2. CASE k = "charts"
    BY <2>2 DEF State, IdsOf, FormOf
  <2>3. CASE k = "dashboards"
    BY <2>3 DEF State, IdsOf, FormOf
  <2> QED
    BY <2>1, <2>2, <2>3 DEF EditableKinds
<1>3. s[k] \in [IdsOf(k) -> Versioned(FormOf(k)) \cup {None}]
  BY DEF State, IdsOf, FormOf, EditableKinds
<1>4. \A j \in EditableKinds : \A i \in IdsOf(j) :
        s[j][i] # None /\ n[j][i] # None =>
          n[j][i] = s[j][i] \/ n[j][i].revision > s[j][i].revision
  BY <1>1, <1>3
<1> HIDE DEF n
<1>5. Evolves(s, n)
  BY <1>1, <1>4 DEF Evolves
<1>6. AllClosed(n)
  BY <1>1 DEF AllClosed, ShareFits
<1> QED
  BY <1>2, <1>5, <1>6 DEF Acceptable, n

----------------------------------------------------------------------------
(* The store: its requests, its file and its crashes.                      *)

(* What is known of the request that holds the lock.                       *)
OpSound ==
  op # None =>
    /\ up /\ editor[op.by].pc = "waiting"
    /\ ValidState(op.next) /\ AllClosed(op.next)
    /\ op.stage = "writing" => objects = file /\ Evolves(file, op.next)
    /\ op.stage = "renamed" => file = op.next
    /\ op.kind # None =>
         /\ op.kind \in EditableKinds /\ op.id \in IdsOf(op.kind)
         /\ op.next[op.kind][op.id] # None
    /\ op.revokes # None =>
         op.next.shares[op.revokes] # None /\ op.next.shares[op.revokes].revoked

(* Nobody else waits for an answer.                                        *)
Waiting == \A e \in Editors : editor[e].pc = "waiting" => op # None /\ op.by = e

(* The history of a draft tells how the stored revision compares with it.  *)
DraftSound(d) ==
  /\ d.kind = None => d.basis = "current"
  /\ d.kind # None =>
       /\ d.kind \in EditableKinds /\ d.id \in IdsOf(d.kind)
       /\ d.basis = "current" =>
            file[d.kind][d.id] # None /\ file[d.kind][d.id].revision = d.revision
       /\ d.basis = "updated" =>
            file[d.kind][d.id] # None /\ file[d.kind][d.id].revision > d.revision

Drafts == \A e \in Editors : DraftSound(editor[e].draft)

RevokedState == \A h \in revoked : file.shares[h] # None /\ file.shares[h].revoked

IInv ==
  /\ TypeOK /\ FileOpens /\ PublicationsClosed /\ ServedIsSaved
  /\ OpSound /\ Waiting
  /\ Drafts /\ OneWinner /\ RevokedState

----------------------------------------------------------------------------
(* A request that passed its checks.                                       *)

LEMMA Locked ==
  ASSUME IInv, NEW e \in Editors, CanWrite(e)
  PROVE  /\ objects \in State /\ objects = file
         /\ ValidState(objects) /\ AllClosed(objects)
         /\ DraftSound(editor[e].draft)
  BY DEF IInv, TypeOK, CanWrite, ServedIsSaved, FileOpens, PublicationsClosed,
         AllClosed, Drafts

(* Drafts stay sound as long as the file stays.                            *)
LEMMA SameDrafts ==
  ASSUME Drafts, file' = file,
         \A e \in Editors : editor'[e].draft = editor[e].draft
  PROVE  Drafts'
<1>1. ASSUME NEW e \in Editors
      PROVE  DraftSound(editor[e].draft)'
  <2>1. DraftSound(editor[e].draft)
    BY DEF Drafts
  <2> QED
    BY <2>1 DEF DraftSound
<1> QED
  BY <1>1 DEF Drafts

LEMMA WriteStep ==
  ASSUME IInv, NEW e \in Editors, CanWrite(e),
         NEW k \in EditableKinds \cup {None},
         NEW id \in Datasets \cup Charts \cup Dashboards \cup {None},
         NEW next, NEW share \in Shares \cup {None}, NEW basis \in Bases,
         Acceptable(objects, next), basis # "updated",
         k # None => id \in IdsOf(k) /\ next[k][id] # None,
         share # None => next.shares[share] # None /\ next.shares[share].revoked,
         Request(e, k, id, next, share), Waits(e, basis)
  PROVE  IInv'
<1> USE DEF Request, Waits
<1>1. op' \in Operation /\ op' # None
  <2>1. op' \in Operation
    BY DEF Operation, Acceptable
  <2> QED
    BY <2>1, OperationsApart
<1>2. /\ editor' \in [Editors -> Editor]
      /\ \A x \in Editors : editor'[x].draft = editor[x].draft
      /\ editor'[e].pc = "waiting" /\ editor'[e].replaced = basis
      /\ \A x \in Editors : x # e =>
           editor'[x].pc = editor[x].pc /\ editor'[x].replaced = editor[x].replaced
  BY DEF IInv, TypeOK, Editor
<1>3. TypeOK'
  BY <1>1, <1>2 DEF IInv, TypeOK
<1>4. FileOpens' /\ PublicationsClosed'
  BY DEF IInv, FileOpens, PublicationsClosed
<1>5. ServedIsSaved'
  BY <1>1 DEF ServedIsSaved, Unlocked
<1>6. OpSound'
  BY <1>1, <1>2, Locked DEF OpSound, Acceptable, CanWrite, Unlocked
<1>7. Waiting'
  BY <1>1, <1>2 DEF IInv, Waiting, CanWrite, Unlocked
<1>8. Drafts'
  BY <1>2, SameDrafts DEF IInv
<1>9. OneWinner' /\ RevokedState'
  BY <1>2 DEF IInv, OneWinner, RevokedState
<1> QED
  BY <1>3, <1>4, <1>5, <1>6, <1>7, <1>8, <1>9 DEF IInv

(* A draft whose revision is the stored one was not overwritten.           *)
LEMMA MatchingDraft ==
  ASSUME IInv, NEW e \in Editors, CanWrite(e), NEW k \in EditableKinds, NEW id,
         editor[e].draft.kind = k, editor[e].draft.id = id,
         Matches(k, id, editor[e].draft.revision)
  PROVE  /\ editor[e].draft.basis \in Bases /\ editor[e].draft.basis # "updated"
         /\ id \in IdsOf(k) /\ objects[k][id] # None
<1>1. editor[e].draft.basis \in Bases /\ editor[e].draft.revision \in Nat
  BY DEF IInv, TypeOK, Editor
<1>2. k # None
  BY OperationsApart
<1> QED
  BY <1>1, <1>2, Locked DEF DraftSound, Matches

----------------------------------------------------------------------------
(* The requests.                                                           *)

LEMMA SavedVersioned ==
  ASSUME IInv, NEW e \in Editors, CanWrite(e),
         NEW k \in EditableKinds, NEW id \in IdsOf(k), NEW def \in FormsOf(k)
  PROVE  /\ Saved(k, id, def) \in Versioned(FormOf(k))
         /\ Saved(k, id, def) # None
         /\ objects[k][id] # None => Saved(k, id, def).revision > objects[k][id].revision
<1>1. objects[k][id] \in Versioned(FormOf(k)) \cup {None}
  BY Locked DEF State, EditableKinds, IdsOf, FormOf
<1>2. def \in FormOf(k)
  BY StoreConstants DEF EditableKinds, FormsOf, FormOf
<1>3. objects[k][id] # None => objects[k][id].revision \in Nat \ {0}
  BY <1>1 DEF Versioned
<1>4. Saved(k, id, def) \in Versioned(FormOf(k))
  BY <1>2, <1>3 DEF Saved, Versioned
<1>5. None \notin Versioned(FormOf(k))
  BY NoneApart DEF EditableKinds, FormOf
<1> QED
  BY <1>3, <1>4, <1>5 DEF Saved

LEMMA PutTyped ==
  ASSUME NEW s \in State, NEW k \in EditableKinds, NEW id \in IdsOf(k), NEW v
  PROVE  [s EXCEPT ![k][id] = v][k][id] = v
<1>1. id \in DOMAIN s[k] /\ k \in DOMAIN s
  BY DEF State, EditableKinds, IdsOf
<1> QED
  BY <1>1 DEF State

LEMMA IdsTyped ==
  ASSUME NEW k \in EditableKinds
  PROVE  /\ IdsOf(k) \subseteq Datasets \cup Charts \cup Dashboards
         /\ k # None
  BY OperationsApart DEF EditableKinds, IdsOf

LEMMA CreateStep ==
  ASSUME IInv, NEW e \in Editors, NEW k \in EditableKinds, NEW id \in IdsOf(k),
         NEW def \in FormsOf(k), Create(e, k, id, def)
  PROVE  IInv'
<1> DEFINE next == [objects EXCEPT ![k][id] = Saved(k, id, def)]
<1>1. CanWrite(e) /\ ValidState(next) /\ Request(e, k, id, next, None) /\ Waits(e, "current")
  BY DEF Create
<1>2. Acceptable(objects, next)
  BY <1>1, Locked, SavedVersioned, PutAcceptable
<1>3. next[k][id] # None
  <2>1. objects \in State
    BY <1>1, Locked
  <2>2. Saved(k, id, def) # None
    BY <1>1, SavedVersioned
  <2> QED
    BY <2>1, <2>2, PutTyped
<1> HIDE DEF next
<1> QED
  BY <1>1, <1>2, <1>3, WriteStep, IdsTyped DEF Bases

LEMMA UpdateStep ==
  ASSUME IInv, NEW e \in Editors, NEW k \in EditableKinds, NEW id \in IdsOf(k),
         NEW def \in FormsOf(k), Update(e, k, id, def)
  PROVE  IInv'
<1> DEFINE next == [objects EXCEPT ![k][id] = Saved(k, id, def)]
           basis == editor[e].draft.basis
<1>1. /\ CanWrite(e) /\ ValidState(next)
      /\ Request(e, k, id, next, None) /\ Waits(e, basis)
  BY DEF Update
<1>2. basis \in Bases /\ basis # "updated"
  BY <1>1, MatchingDraft DEF Update
<1>3. Acceptable(objects, next)
  BY <1>1, Locked, SavedVersioned, PutAcceptable
<1>4. next[k][id] # None
  <2>1. objects \in State
    BY <1>1, Locked
  <2>2. Saved(k, id, def) # None
    BY <1>1, SavedVersioned
  <2> QED
    BY <2>1, <2>2, PutTyped
<1> HIDE DEF next, basis
<1> QED
  BY <1>1, <1>2, <1>3, <1>4, WriteStep, IdsTyped

LEMMA DeleteStep ==
  ASSUME IInv, NEW e \in Editors, NEW k \in EditableKinds, NEW id \in IdsOf(k),
         Delete(e, k, id)
  PROVE  IInv'
<1> DEFINE next == [objects EXCEPT ![k][id] = None]
           basis == editor[e].draft.basis
<1>1. /\ CanWrite(e) /\ ValidState(next)
      /\ Request(e, None, None, next, None) /\ Waits(e, basis)
  BY DEF Delete
<1>2. basis \in Bases /\ basis # "updated"
  BY <1>1, MatchingDraft DEF Delete
<1>3. Acceptable(objects, next)
  BY <1>1, Locked, PutAcceptable
<1> HIDE DEF next, basis
<1> QED
  BY <1>1, <1>2, <1>3, WriteStep

LEMMA PublishStep ==
  ASSUME IInv, NEW e \in Editors, NEW b \in Dashboards, NEW p \in Publications,
         Publish(e, b, p)
  PROVE  IInv'
<1> DEFINE snapshot == Snapshot(objects, b)
           next == [objects EXCEPT !.publications[p] = snapshot]
<1>1. /\ CanWrite(e) /\ Request(e, None, None, next, None) /\ Waits(e, "current")
      /\ Publishable(snapshot) /\ objects.publications[p] = None
      /\ Matches("dashboards", b, editor[e].draft.revision)
  BY DEF Publish
<1>2. objects \in State /\ ValidState(objects) /\ AllClosed(objects)
  BY <1>1, Locked
<1>3. b \in Present(objects.dashboards)
  BY <1>1, <1>2 DEF Matches, Present, State
<1>4. snapshot \in Publication /\ Closed(snapshot)
  BY <1>1, <1>2, <1>3, SnapshotTyped, SnapshotsAreClosed
<1> HIDE DEF snapshot
<1>5. /\ next.datasets = objects.datasets /\ next.charts = objects.charts
      /\ next.dashboards = objects.dashboards /\ next.shares = objects.shares
      /\ next.publications = [objects.publications EXCEPT ![p] = snapshot]
      /\ next \in State
  BY <1>2, <1>4 DEF State
<1>6. Acceptable(objects, next)
  <2> HIDE DEF next
  <2>1. ValidState(next)
    BY <1>2, <1>5, SameDefinitionsValid
  <2>2. objects.publications \in [Publications -> Publication \cup {None}]
    BY <1>2 DEF State
  <2>3. \A x \in Present(next.publications) : Closed(next.publications[x])
    BY <1>2, <1>4, <1>5, <2>2 DEF AllClosed, Present
  <2>4. \A h \in Present(next.shares) : ShareFits(next, next.shares[h])
    <3>1. SUFFICES ASSUME NEW h \in Present(objects.shares)
                   PROVE  ShareFits(next, objects.shares[h])
      BY <1>5
    <3>2. ShareFits(objects, objects.shares[h]) /\ objects.shares[h].publication # p
      BY <1>1, <1>2 DEF AllClosed, ShareFits
    <3>3. objects.shares[h].publication \in Publications
      BY <1>2 DEF Present, State, Share
    <3> QED
      BY <1>5, <2>2, <3>2, <3>3 DEF ShareFits
  <2>5. Evolves(objects, next)
    BY <1>1, <1>5, <2>2, SameKinds DEF Evolves
  <2> QED
    BY <1>5, <2>1, <2>3, <2>4, <2>5 DEF Acceptable, AllClosed
<1> HIDE DEF next
<1> QED
  BY <1>1, <1>6, WriteStep DEF Bases

(* A write that touches nothing but one share.                             *)
LEMMA ShareAcceptable ==
  ASSUME NEW s \in State, ValidState(s), AllClosed(s),
         NEW h \in Shares, NEW share \in Share, ShareFits(s, share),
         s.shares[h] # None /\ s.shares[h].revoked => share.revoked
  PROVE  /\ Acceptable(s, [s EXCEPT !.shares = [@ EXCEPT ![h] = share]])
         /\ [s EXCEPT !.shares = [@ EXCEPT ![h] = share]].shares[h] = share
         /\ share # None
<1> DEFINE next == [s EXCEPT !.shares = [@ EXCEPT ![h] = share]]
<1>1. /\ next.datasets = s.datasets /\ next.charts = s.charts
      /\ next.dashboards = s.dashboards /\ next.publications = s.publications
      /\ next.shares = [s.shares EXCEPT ![h] = share]
      /\ next \in State
      /\ s.shares \in [Shares -> Share \cup {None}]
  BY DEF State
<1>2. share # None
  BY NoneApart
<1> HIDE DEF next
<1>3. ValidState(next)
  BY <1>1, SameDefinitionsValid
<1>4. AllClosed(next)
  <2>1. \A x \in Present(next.shares) :
          x = h \/ (x \in Present(s.shares) /\ next.shares[x] = s.shares[x])
    BY <1>1 DEF Present
  <2>2. \A x \in Present(next.shares) : ShareFits(next, next.shares[x])
    BY <1>1, <2>1 DEF AllClosed, ShareFits, Present
  <2> QED
    BY <1>1, <2>2 DEF AllClosed
<1>5. Evolves(s, next)
  BY <1>1, <1>2, SameKinds DEF Evolves
<1>6. next.shares[h] = share
  BY <1>1
<1> QED
  BY <1>1, <1>2, <1>3, <1>4, <1>5, <1>6 DEF Acceptable, next

LEMMA CreateShareStep ==
  ASSUME IInv, NEW e \in Editors, NEW p \in Publications, NEW h \in Shares,
         NEW expires \in BOOLEAN, NEW locked \in LockedForms,
         CreateShare(e, p, h, expires, locked)
  PROVE  IInv'
<1> DEFINE share == [publication |-> p, revision |-> 1, revoked |-> FALSE,
                     expires |-> expires, filters |-> locked]
           next == [objects EXCEPT !.shares = [@ EXCEPT ![h] = share]]
<1>1. share \in Share
  BY StoreConstants DEF Share
<1>2. /\ CanWrite(e) /\ Waits(e, "current") /\ objects.shares[h] = None
      /\ objects.publications[p] # None /\ FiltersFit(objects.publications[p], locked)
      /\ Request(e, None, None, [objects EXCEPT !.shares[h] = share], None)
  BY DEF CreateShare
<1>3. ShareFits(objects, share)
  <2> DEFINE pub == objects.publications[p]
  <2>1. p \in Present(objects.publications) /\ AllClosed(objects)
    BY <1>2, Locked DEF Present, State
  <2>2. Closed(pub)
    BY <2>1 DEF AllClosed
  <2>3. ASSUME NEW f \in locked, NEW c \in PlainCharts(pub), Meets(pub, f, c)
        PROVE  /\ Known(pub, f, pub.charts[c].dataset)
               /\ MappedTo(pub, f, pub.charts[c].dataset) # {}
    <3>1. \E w \in pub.dashboard.widgets : c \in WidgetShows(pub, w)
      BY <2>2 DEF Closed, PlainCharts
    <3> HIDE DEF pub
    <3>2. FiltersFit(pub, locked)
      BY <1>2 DEF pub
    <3> QED
      BY <2>3, <3>1, <3>2, FittingFiltersApply
  <2>4. Narrowed(pub, locked)
    BY <2>3 DEF Narrowed
  <2> QED
    BY <1>2, <2>4 DEF ShareFits
<1> HIDE DEF share
<1>4. next = [objects EXCEPT !.shares[h] = share]
  OBVIOUS
<1>5. Acceptable(objects, next)
  BY <1>1, <1>2, <1>3, Locked, ShareAcceptable
<1> HIDE DEF next
<1> QED
  BY <1>2, <1>4, <1>5, WriteStep DEF Bases

LEMMA RevokeShareStep ==
  ASSUME IInv, NEW e \in Editors, NEW h \in Shares, NEW revision,
         RevokeShare(e, h, revision)
  PROVE  IInv'
<1> DEFINE share == [objects.shares[h] EXCEPT !.revoked = TRUE, !.revision = @ + 1]
           next == [objects EXCEPT !.shares = [@ EXCEPT ![h] = share]]
<1>1. /\ CanWrite(e) /\ Waits(e, "current") /\ objects.shares[h] # None
      /\ Request(e, None, None, [objects EXCEPT !.shares[h].revoked = TRUE,
                                               !.shares[h].revision = @ + 1], h)
  BY DEF RevokeShare
<1>2. objects \in State
  BY <1>1, Locked
<1>3. objects.shares[h] \in Share
  BY <1>1, <1>2 DEF State
<1>4. share \in Share /\ share.revoked
  <2>1. ASSUME NEW o \in Share
        PROVE  /\ [o EXCEPT !.revoked = TRUE, !.revision = @ + 1] \in Share
               /\ [o EXCEPT !.revoked = TRUE, !.revision = @ + 1].revoked
    <3>1. o.revision + 1 \in Nat \ {0}
      BY DEF Share
    <3> DEFINE r == o.revision + 1
    <3> HIDE DEF r
    <3>2. /\ [o EXCEPT !.revoked = TRUE, !.revision = r] \in Share
          /\ [o EXCEPT !.revoked = TRUE, !.revision = r].revoked
      BY <3>1 DEF Share, r
    <3> QED
      BY <3>2 DEF r
  <2> QED
    BY <1>3, <2>1
<1>5. ShareFits(objects, share)
  <2>1. h \in Present(objects.shares) /\ AllClosed(objects)
    BY <1>1, <1>2, Locked DEF Present, State
  <2>2. ASSUME NEW o \in Share, NEW r
        PROVE  LET n == [o EXCEPT !.revoked = TRUE, !.revision = r]
               IN  n.publication = o.publication /\ n.filters = o.filters
    BY DEF Share
  <2> DEFINE r == objects.shares[h].revision + 1
  <2>3. share = [objects.shares[h] EXCEPT !.revoked = TRUE, !.revision = r]
    BY <1>3 DEF Share
  <2> HIDE DEF r
  <2>4. share.publication = objects.shares[h].publication /\ share.filters = objects.shares[h].filters
    BY <1>3, <2>2, <2>3
  <2> QED
    BY <2>1, <2>4 DEF AllClosed, ShareFits
<1>6. next = [objects EXCEPT !.shares[h].revoked = TRUE, !.shares[h].revision = @ + 1]
  BY <1>2, <1>3 DEF State, Share
<1> HIDE DEF share
<1>7. Acceptable(objects, next) /\ next.shares[h] # None /\ next.shares[h].revoked
  BY <1>1, <1>4, <1>5, Locked, ShareAcceptable
<1> HIDE DEF next
<1> QED
  BY <1>1, <1>6, <1>7, WriteStep DEF Bases

LEMMA ImportDashboardStep ==
  ASSUME IInv, NEW e \in Editors, NEW replace, ImportDashboard(e, replace)
  PROVE  IInv'
<1> DEFINE next == Merge(objects, bundle)
<1>1. /\ CanWrite(e) /\ Waits(e, "current") /\ bundle # None
      /\ ValidState(next) /\ Request(e, None, None, next, None)
  BY DEF ImportDashboard
<1>2. bundle \in State
  BY <1>1 DEF IInv, TypeOK
<1>3. Acceptable(objects, next)
  BY <1>1, <1>2, Locked, MergeTyped, MergeEvolves DEF Acceptable
<1> HIDE DEF next
<1> QED
  BY <1>1, <1>3, WriteStep DEF Bases

LEMMA ImportReferenceStep ==
  ASSUME IInv, NEW e \in Editors, NEW alike, ImportReference(e, alike)
  PROVE  IInv'
<1> DEFINE reference ==
             [ReferenceBundle EXCEPT !.datasets = Without(@, alike),
                                     !.charts = Without(@, alike),
                                     !.dashboards = Without(@, alike)]
           next == Merge(objects, reference)
<1>1. /\ CanWrite(e) /\ Waits(e, "current")
      /\ ValidState(next) /\ Request(e, None, None, next, None)
  BY DEF ImportReference, MergeReference
<1>2. reference \in State
  BY StoreConstants DEF State, Without
<1> HIDE DEF reference
<1>3. Acceptable(objects, next)
  BY <1>1, <1>2, Locked, MergeTyped, MergeEvolves DEF Acceptable
<1> HIDE DEF next
<1> QED
  BY <1>1, <1>3, WriteStep DEF Bases

----------------------------------------------------------------------------
(* What follows a request, and the steps under the read lock.              *)

LEMMA RefuseStep ==
  ASSUME IInv, NEW e \in Editors, Refuse(e)
  PROVE  IInv'
<1> USE DEF Refuse
<1>1. /\ editor' \in [Editors -> Editor]
      /\ \A x \in Editors : /\ editor'[x].draft = editor[x].draft
                            /\ editor'[x].replaced = editor[x].replaced
                            /\ editor'[x].pc = "waiting" => editor[x].pc = "waiting"
  BY DEF IInv, TypeOK, Editor
<1>2. TypeOK' /\ FileOpens' /\ PublicationsClosed' /\ ServedIsSaved'
  BY <1>1 DEF IInv, TypeOK, FileOpens, PublicationsClosed, ServedIsSaved, Unlocked
<1>3. OpSound' /\ Waiting'
  BY <1>1 DEF IInv, OpSound, Waiting, Unlocked
<1>4. Drafts'
  BY <1>1, SameDrafts DEF IInv
<1>5. OneWinner' /\ RevokedState'
  BY <1>1 DEF IInv, OneWinner, RevokedState
<1> QED
  BY <1>2, <1>3, <1>4, <1>5 DEF IInv

LEMMA PersistFailsStep ==
  ASSUME IInv, PersistFails
  PROVE  IInv'
<1> USE DEF PersistFails
<1>1. op \in Operation /\ op.by \in Editors
  BY DEF IInv, TypeOK, Operation
<1>2. /\ editor' \in [Editors -> Editor]
      /\ \A x \in Editors : /\ editor'[x].draft = editor[x].draft
                            /\ editor'[x].replaced = editor[x].replaced
                            /\ x # op.by => editor'[x].pc = editor[x].pc
      /\ editor'[op.by].pc = "refused"
  BY <1>1 DEF IInv, TypeOK, Editor
<1>3. TypeOK' /\ FileOpens' /\ PublicationsClosed'
  BY <1>2 DEF IInv, TypeOK, FileOpens, PublicationsClosed
<1>4. ServedIsSaved'
  BY DEF IInv, OpSound, ServedIsSaved
<1>5. OpSound' /\ Waiting'
  BY <1>1, <1>2 DEF IInv, OpSound, Waiting
<1>6. Drafts'
  BY <1>2, SameDrafts DEF IInv
<1>7. OneWinner' /\ RevokedState'
  BY <1>2 DEF IInv, OneWinner, RevokedState
<1> QED
  BY <1>3, <1>4, <1>5, <1>6, <1>7 DEF IInv

(* The history of a draft when the file becomes n.                         *)
LEMMA BasisSound ==
  ASSUME NEW n \in State, file \in State, Evolves(file, n),
         NEW e \in Editors, editor[e] \in Editor, DraftSound(editor[e].draft)
  PROVE  LET d == editor[e].draft
             basis == Basis(d, n) IN
         /\ basis \in Bases
         /\ d.kind = None => basis = "current"
         /\ d.kind # None =>
              /\ basis = "current" =>
                   n[d.kind][d.id] # None /\ n[d.kind][d.id].revision = d.revision
              /\ basis = "updated" =>
                   n[d.kind][d.id] # None /\ n[d.kind][d.id].revision > d.revision
<1> DEFINE d == editor[e].draft
           basis == Basis(d, n)
<1>1. d.basis \in Bases /\ d.revision \in Nat
  BY DEF Editor
<1>2. basis \in Bases
  BY <1>1 DEF Basis, Bases
<1>3. CASE d.kind = None
  BY <1>2, <1>3 DEF Basis, DraftSound
<1>4. CASE d.kind # None
  <2> DEFINE old == file[d.kind][d.id]
             new == n[d.kind][d.id]
  <2>1. /\ d.kind \in EditableKinds /\ d.id \in IdsOf(d.kind)
        /\ d.basis = "current" => old # None /\ old.revision = d.revision
        /\ d.basis = "updated" => old # None /\ old.revision > d.revision
    BY <1>4 DEF DraftSound
  <2>2. old # None /\ new # None => new = old \/ new.revision > old.revision
    BY <2>1 DEF Evolves
  <2>3. old # None => old.revision \in Nat
    BY <2>1 DEF State, EditableKinds, IdsOf, Versioned
  <2>4. new # None => new.revision \in Nat
    BY <2>1 DEF State, EditableKinds, IdsOf, Versioned
  <2>5. basis = IF new = None THEN "deleted"
                ELSE IF d.basis = "current" /\ new # old THEN "updated"
                ELSE d.basis
    BY <1>4 DEF Basis
  <2> HIDE DEF d, basis, old, new
  <2>6. /\ basis = "current" => new # None /\ new.revision = d.revision
        /\ basis = "updated" => new # None /\ new.revision > d.revision
    BY <1>1, <2>1, <2>2, <2>3, <2>4, <2>5 DEF Bases
  <2> QED
    BY <1>2, <1>4, <2>6 DEF d, basis, new
<1> QED
  BY <1>3, <1>4

LEMMA RenameStep ==
  ASSUME IInv, Rename
  PROVE  IInv'
<1> USE DEF Rename
<1>1. op \in Operation /\ op.by \in Editors /\ op.next \in State
  BY DEF IInv, TypeOK, Operation
<1>2. /\ op' \in Operation /\ op' # None /\ op'.stage = "renamed"
      /\ op'.by = op.by /\ op'.next = op.next /\ op'.kind = op.kind
      /\ op'.id = op.id /\ op'.revokes = op.revokes
  BY <1>1, OperationsApart DEF Operation
<1>3. Evolves(file, op.next) /\ ValidState(op.next) /\ AllClosed(op.next)
  BY DEF IInv, OpSound
<1>4. ASSUME NEW e \in Editors
      PROVE  /\ editor'[e] \in Editor
             /\ editor'[e].pc = editor[e].pc /\ editor'[e].replaced = editor[e].replaced
             /\ DraftSound(editor[e].draft)'
  <2> DEFINE basis == Basis(editor[e].draft, op.next)
  <2>1. editor[e] \in Editor /\ DraftSound(editor[e].draft) /\ file \in State
    BY DEF IInv, TypeOK, Drafts
  <2>2. basis \in Bases
    BY <1>1, <1>3, <2>1, BasisSound
  <2>3. editor'[e] = [editor[e] EXCEPT !.draft.basis = basis]
    OBVIOUS
  <2> HIDE DEF basis
  <2>4. /\ editor'[e] \in Editor
        /\ editor'[e].pc = editor[e].pc /\ editor'[e].replaced = editor[e].replaced
        /\ editor'[e].draft.kind = editor[e].draft.kind
        /\ editor'[e].draft.id = editor[e].draft.id
        /\ editor'[e].draft.revision = editor[e].draft.revision
        /\ editor'[e].draft.basis = basis
    BY <2>1, <2>2, <2>3 DEF Editor
  <2>5. /\ editor[e].draft.kind = None => basis = "current"
        /\ editor[e].draft.kind # None =>
             /\ basis = "current" =>
                  /\ op.next[editor[e].draft.kind][editor[e].draft.id] # None
                  /\ op.next[editor[e].draft.kind][editor[e].draft.id].revision
                       = editor[e].draft.revision
             /\ basis = "updated" =>
                  /\ op.next[editor[e].draft.kind][editor[e].draft.id] # None
                  /\ op.next[editor[e].draft.kind][editor[e].draft.id].revision
                       > editor[e].draft.revision
    BY <1>1, <1>3, <2>1, BasisSound DEF basis
  <2>6. file' = op.next
    OBVIOUS
  <2>7. DraftSound(editor[e].draft)'
    BY <2>1, <2>4, <2>5, <2>6 DEF DraftSound
  <2> QED
    BY <2>4, <2>7
<1>5. editor' \in [Editors -> Editor]
  BY <1>4
<1>6. TypeOK'
  BY <1>1, <1>2, <1>5 DEF IInv, TypeOK
<1>7. FileOpens' /\ PublicationsClosed' /\ ServedIsSaved'
  BY <1>2, <1>3 DEF FileOpens, PublicationsClosed, AllClosed, ServedIsSaved, Unlocked
<1>8. OpSound' /\ Waiting'
  BY <1>1, <1>2, <1>3, <1>4 DEF IInv, OpSound, Waiting
<1>9. Drafts' /\ OneWinner'
  BY <1>4 DEF IInv, Drafts, OneWinner
<1>10. RevokedState'
  BY <1>3 DEF IInv, TypeOK, RevokedState, Evolves
<1> QED
  BY <1>6, <1>7, <1>8, <1>9, <1>10 DEF IInv

LEMMA SwapStep ==
  ASSUME IInv, Swap
  PROVE  IInv'
<1> USE DEF Swap
<1>1. op \in Operation /\ op.by \in Editors /\ op.next \in State
  BY DEF IInv, TypeOK, Operation
<1>2. file = op.next /\ ValidState(op.next) /\ AllClosed(op.next)
  BY DEF IInv, OpSound
<1> DEFINE draft == IF op.kind = None THEN editor[op.by].draft
                    ELSE [kind |-> op.kind, id |-> op.id, basis |-> "current",
                          revision |-> op.next[op.kind][op.id].revision]
<1>3. op.kind # None =>
        /\ op.kind \in EditableKinds /\ op.id \in IdsOf(op.kind)
        /\ op.next[op.kind][op.id] # None
  BY DEF IInv, OpSound
<1>4. op.kind # None => op.next[op.kind][op.id].revision \in Nat
  BY <1>1, <1>3 DEF State, EditableKinds, IdsOf, Versioned
<1>5. /\ editor' \in [Editors -> Editor]
      /\ editor'[op.by].pc = "ok" /\ editor'[op.by].draft = draft
      /\ \A x \in Editors : /\ editor'[x].replaced = editor[x].replaced
                            /\ x # op.by => editor'[x] = editor[x]
  <2>1. editor[op.by] \in Editor
    BY <1>1 DEF IInv, TypeOK
  <2>2. draft \in [kind : EditableKinds \cup {None},
                   id : Datasets \cup Charts \cup Dashboards \cup {None},
                   revision : Nat, basis : Bases]
    BY <1>1, <1>3, <1>4, <2>1 DEF Editor, Operation, Bases
  <2> HIDE DEF draft
  <2>3. editor' = [editor EXCEPT ![op.by] =
                     [editor[op.by] EXCEPT !.pc = "ok", !.draft = draft]]
    BY <1>1 DEF draft, IInv, TypeOK, Editor
  <2> DEFINE winner == [editor[op.by] EXCEPT !.pc = "ok", !.draft = draft]
  <2>4. /\ winner \in Editor /\ winner.pc = "ok" /\ winner.draft = draft
        /\ winner.replaced = editor[op.by].replaced
    BY <2>1, <2>2 DEF Editor
  <2>5. editor' = [editor EXCEPT ![op.by] = winner]
    BY <2>3
  <2>6. editor \in [Editors -> Editor]
    BY DEF IInv, TypeOK
  <2> HIDE DEF winner
  <2> QED
    BY <1>1, <2>4, <2>5, <2>6
<1>6. ASSUME NEW e \in Editors
      PROVE  DraftSound(editor[e].draft)'
  <2>1. DraftSound(editor[e].draft)
    BY DEF IInv, Drafts
  <2>2. CASE e # op.by \/ op.kind = None
    BY <1>5, <2>1, <2>2 DEF DraftSound
  <2>3. CASE e = op.by /\ op.kind # None
    <3>1. /\ editor'[e].draft.kind = op.kind /\ editor'[e].draft.id = op.id
          /\ editor'[e].draft.basis = "current"
          /\ editor'[e].draft.revision = op.next[op.kind][op.id].revision
      BY <1>5, <2>3
    <3>2. file' = op.next
      BY <1>2
    <3> QED
      BY <1>3, <2>3, <3>1, <3>2 DEF DraftSound
  <2> QED
    BY <2>2, <2>3
<1>7. revoked' \subseteq Shares /\ RevokedState'
  BY <1>1, <1>2 DEF IInv, TypeOK, RevokedState, OpSound, Operation
<1> HIDE DEF draft
<1>8. TypeOK'
  BY <1>1, <1>5, <1>7 DEF IInv, TypeOK
<1>9. FileOpens' /\ PublicationsClosed' /\ ServedIsSaved'
  BY <1>2 DEF IInv, FileOpens, PublicationsClosed, ServedIsSaved
<1>10. OpSound' /\ Waiting'
  BY <1>1, <1>5 DEF IInv, OpSound, Waiting
<1>11. Drafts' /\ OneWinner'
  BY <1>5, <1>6 DEF IInv, Drafts, OneWinner
<1> QED
  BY <1>7, <1>8, <1>9, <1>10, <1>11 DEF IInv

LEMMA LoadStep ==
  ASSUME IInv, NEW e \in Editors, NEW k \in EditableKinds, NEW id \in IdsOf(k),
         Load(e, k, id)
  PROVE  IInv'
<1> USE DEF Load
<1> DEFINE draft == [kind |-> k, id |-> id, revision |-> objects[k][id].revision,
                     basis |-> "current"]
<1>1. objects = file /\ objects[k][id] # None /\ objects \in State
  BY DEF IInv, ServedIsSaved, TypeOK
<1>2. objects[k][id].revision \in Nat
  BY <1>1 DEF State, EditableKinds, IdsOf, Versioned
<1>3. draft \in [kind : EditableKinds \cup {None},
                 id : Datasets \cup Charts \cup Dashboards \cup {None},
                 revision : Nat, basis : Bases]
  BY <1>2, IdsTyped DEF Bases
<1>4. editor' = [editor EXCEPT ![e].draft = draft]
  OBVIOUS
<1>5. /\ editor' \in [Editors -> Editor]
      /\ editor'[e].draft = draft
      /\ \A x \in Editors : /\ editor'[x].replaced = editor[x].replaced
                            /\ editor'[x].pc = editor[x].pc
                            /\ x # e => editor'[x].draft = editor[x].draft
  <2> HIDE DEF draft
  <2> QED
    BY <1>3, <1>4 DEF IInv, TypeOK, Editor
<1>6. ASSUME NEW x \in Editors
      PROVE  DraftSound(editor[x].draft)'
  <2>1. DraftSound(editor[x].draft)
    BY DEF IInv, Drafts
  <2>2. CASE x # e
    BY <1>5, <2>1, <2>2 DEF DraftSound
  <2>3. CASE x = e
    <3>1. /\ editor'[x].draft.kind = k /\ editor'[x].draft.id = id
          /\ editor'[x].draft.basis = "current"
          /\ editor'[x].draft.revision = objects[k][id].revision
      BY <1>5, <2>3
    <3>2. file'[k][id] = objects[k][id]
      BY <1>1
    <3> QED
      BY <1>1, <3>1, <3>2, IdsTyped DEF DraftSound
  <2> QED
    BY <2>2, <2>3
<1> HIDE DEF draft
<1>7. TypeOK' /\ FileOpens' /\ PublicationsClosed' /\ ServedIsSaved'
  BY <1>5 DEF IInv, TypeOK, FileOpens, PublicationsClosed, ServedIsSaved, Unlocked
<1>8. OpSound' /\ Waiting'
  BY <1>5 DEF IInv, OpSound, Waiting, Unlocked
<1>9. Drafts' /\ OneWinner' /\ RevokedState'
  BY <1>5, <1>6 DEF IInv, Drafts, OneWinner, RevokedState
<1> QED
  BY <1>7, <1>8, <1>9 DEF IInv

(* Steps that leave the objects, the file, the lock and the editors alone. *)
LEMMA QuietStep ==
  ASSUME IInv, UNCHANGED <<up, objects, file, op, editor, revoked>>, TypeOK'
  PROVE  IInv'
<1>1. FileOpens' /\ PublicationsClosed' /\ ServedIsSaved'
  BY DEF IInv, FileOpens, PublicationsClosed, ServedIsSaved, Unlocked
<1>2. OpSound' /\ Waiting'
  BY DEF IInv, OpSound, Waiting
<1>3. Drafts'
  BY SameDrafts DEF IInv
<1>4. OneWinner' /\ RevokedState'
  BY DEF IInv, OneWinner, RevokedState
<1> QED
  BY <1>1, <1>2, <1>3, <1>4 DEF IInv

LEMMA ExportStep ==
  ASSUME IInv, NEW b \in Dashboards, ExportDashboard(b)
  PROVE  IInv'
<1> USE DEF ExportDashboard
<1>1. /\ objects \in State /\ ValidState(objects)
      /\ b \in Present(objects.dashboards)
  BY DEF IInv, TypeOK, ServedIsSaved, FileOpens, Present, State
<1>2. bundle' \in State
  BY <1>1, BundleTyped
<1>3. TypeOK'
  BY <1>2 DEF IInv, TypeOK
<1> QED
  BY <1>3, QuietStep

LEMMA ViewerStep ==
  ASSUME IInv, NEW v \in Viewers,
         AnswerViewer(v) \/ \E h \in Shares : ResolveShare(v, h)
  PROVE  IInv'
<1>1. viewer' \in [Viewers -> Viewer]
  BY DEF IInv, TypeOK, Viewer, AnswerViewer, ResolveShare
<1>2. UNCHANGED <<up, objects, file, op, editor, bundle, lapsed, revoked, writes, crashes>>
  BY DEF AnswerViewer, ResolveShare
<1>3. TypeOK'
  BY <1>1, <1>2 DEF IInv, TypeOK
<1> QED
  BY <1>2, <1>3, QuietStep

LEMMA LapseStep ==
  ASSUME IInv, NEW h \in Shares, Lapse(h)
  PROVE  IInv'
<1>1. TypeOK'
  BY DEF IInv, TypeOK, Lapse
<1> QED
  BY <1>1, QuietStep DEF Lapse

LEMMA CrashStep ==
  ASSUME IInv, Crash
  PROVE  IInv'
<1>0. /\ up' = FALSE /\ op' = None /\ crashes' = crashes + 1
      /\ UNCHANGED <<objects, file, bundle, lapsed, revoked, writes>>
  BY DEF Crash
<1>1. /\ editor' \in [Editors -> Editor]
      /\ \A x \in Editors : /\ editor'[x].draft = editor[x].draft
                            /\ editor'[x].replaced = editor[x].replaced
                            /\ editor'[x].pc # "waiting"
  BY DEF Crash, IInv, TypeOK, Editor
<1>2. viewer' \in [Viewers -> Viewer]
  BY DEF Crash, Viewer
<1>3. TypeOK'
  <2>1. up' \in BOOLEAN
    BY <1>0
  <2>2. crashes' \in Nat
    BY <1>0 DEF IInv, TypeOK
  <2> QED
    BY <1>0, <1>1, <1>2, <2>1, <2>2 DEF IInv, TypeOK
<1>4. FileOpens' /\ PublicationsClosed' /\ ServedIsSaved'
  BY <1>0 DEF IInv, FileOpens, PublicationsClosed, ServedIsSaved, Unlocked
<1>5. OpSound' /\ Waiting'
  BY <1>0, <1>1 DEF OpSound, Waiting
<1>6. Drafts'
  BY <1>0, <1>1, SameDrafts DEF IInv
<1>7. OneWinner' /\ RevokedState'
  BY <1>0, <1>1 DEF IInv, OneWinner, RevokedState
<1> QED
  BY <1>3, <1>4, <1>5, <1>6, <1>7 DEF IInv

LEMMA OpenStep ==
  ASSUME IInv, Open
  PROVE  IInv'
<1> USE DEF Open
<1>1. op = None
  BY DEF IInv, OpSound
<1>2. TypeOK' /\ FileOpens' /\ PublicationsClosed' /\ ServedIsSaved'
  BY DEF IInv, TypeOK, FileOpens, PublicationsClosed, ServedIsSaved
<1>3. OpSound' /\ Waiting'
  BY <1>1 DEF IInv, OpSound, Waiting
<1>4. Drafts'
  BY SameDrafts DEF IInv
<1>5. OneWinner' /\ RevokedState'
  BY DEF IInv, OneWinner, RevokedState
<1> QED
  BY <1>2, <1>3, <1>4, <1>5 DEF IInv

LEMMA InitInvariant ==
  ASSUME Init
  PROVE  IInv
<1> USE DEF Init
<1>1. file \in State /\ ValidState(file) /\ AllClosed(file)
  BY StoreConstants, FilesClosed DEF AllClosed
<1>2. \A e \in Editors : editor[e] \in Editor /\ editor[e].draft = NoDraft
                        /\ editor[e].pc = "idle" /\ editor[e].replaced = "current"
  BY DEF Editor, NoDraft, Bases
<1>3. TypeOK
  BY <1>1, <1>2, StoreConstants DEF TypeOK, Viewer
<1>4. Drafts
  BY <1>2 DEF Drafts, DraftSound, NoDraft
<1> QED
  BY <1>1, <1>2, <1>3, <1>4
     DEF IInv, FileOpens, PublicationsClosed, AllClosed, ServedIsSaved, OpSound,
         Waiting, OneWinner, RevokedState

LEMMA NextInvariant ==
  ASSUME IInv, [Next]_vars
  PROVE  IInv'
<1>1. ASSUME NEW e \in Editors, EditorStep(e)
      PROVE  IInv'
  BY <1>1, CreateStep, UpdateStep, DeleteStep, LoadStep, PublishStep, CreateShareStep,
     RevokeShareStep, ImportDashboardStep, ImportReferenceStep, RefuseStep
     DEF EditorStep
<1>2. CASE UNCHANGED vars
  BY <1>2, QuietStep DEF vars, IInv, TypeOK
<1> QED
  BY <1>1, <1>2, ExportStep, PersistFailsStep, RenameStep, SwapStep, ViewerStep,
     LapseStep, CrashStep, OpenStep DEF Next

LEMMA Invariance == Spec => []IInv
  BY InitInvariant, NextInvariant, PTL DEF Spec

----------------------------------------------------------------------------
(* What holds in every state.                                              *)

(* Type correctness: whatever editors send and whenever the server stops,  *)
(* the map and the file hold objects of their types.                       *)
THEOREM TypeCorrectness == Spec => []TypeOK
  BY Invariance, PTL DEF IInv

(* The file can always be opened again: no sequence of writes, imports and *)
(* crashes leaves one that validateState of store.go refuses.              *)
THEOREM FileAlwaysOpens == Spec => []FileOpens
  BY Invariance, PTL DEF IInv

(* Whenever the lock is free, what is served is what a restart would load. *)
THEOREM ServedAlwaysSaved == Spec => []ServedIsSaved
  BY Invariance, PTL DEF IInv

(* Every publication holds all the definitions its queries refer to, also  *)
(* after the definitions it was made of were changed or deleted.           *)
THEOREM PublicationsAlwaysClosed == Spec => []PublicationsClosed
  BY Invariance, PTL DEF IInv

(* Of the editors who read one revision one at most replaces it, also when *)
(* the server stops between the rename and the answer.                     *)
THEOREM OneEditorWins == Spec => []OneWinner
  BY Invariance, PTL DEF IInv

(* What ExportDashboard makes of a saved dashboard, ImportDashboard takes. *)
THEOREM EveryExportImportable == Spec => []ExportsImportable
<1>1. IInv => ExportsImportable
  BY ExportsAreValid DEF IInv, TypeOK, FileOpens, ExportsImportable
<1> QED
  BY <1>1, Invariance, PTL

----------------------------------------------------------------------------
(* What holds of every step.                                               *)

(* A request that takes the lock or is refused leaves the file alone.      *)
LEMMA EditorTouches ==
  ASSUME NEW e \in Editors, EditorStep(e)
  PROVE  UNCHANGED <<file, viewer, revoked, up>>
<1>1. ASSUME NEW k \in EditableKinds, NEW id \in IdsOf(k),
             \/ \E def \in FormsOf(k) : Create(e, k, id, def) \/ Update(e, k, id, def)
             \/ Delete(e, k, id)
             \/ Load(e, k, id)
      PROVE  UNCHANGED <<file, viewer, revoked, up>>
  BY <1>1 DEF Create, Update, Delete, Load, Request
<1>2. ASSUME NEW b, NEW p, Publish(e, b, p)
      PROVE  UNCHANGED <<file, viewer, revoked, up>>
  BY <1>2 DEF Publish, Request
<1>3. ASSUME NEW p, NEW h, NEW expires, NEW locked,
             CreateShare(e, p, h, expires, locked)
      PROVE  UNCHANGED <<file, viewer, revoked, up>>
  BY <1>3 DEF CreateShare, Request
<1>4. ASSUME NEW h, NEW revision, RevokeShare(e, h, revision)
      PROVE  UNCHANGED <<file, viewer, revoked, up>>
  BY <1>4 DEF RevokeShare, Request
<1>5. ASSUME NEW replace, ImportDashboard(e, replace)
      PROVE  UNCHANGED <<file, viewer, revoked, up>>
  BY <1>5 DEF ImportDashboard, Request
<1>6. ASSUME NEW alike, ImportReference(e, alike)
      PROVE  UNCHANGED <<file, viewer, revoked, up>>
  BY <1>6 DEF ImportReference, Request
<1>7. ASSUME Refuse(e)
      PROVE  UNCHANGED <<file, viewer, revoked, up>>
  BY <1>7 DEF Refuse
<1> QED
  BY <1>1, <1>2, <1>3, <1>4, <1>5, <1>6, <1>7 DEF EditorStep

(* No write changes or removes a publication.                              *)
THEOREM PublicationsStay == Spec => PublicationsPinned
<1>1. ASSUME IInv, [Next]_vars
      PROVE  [\A p \in Present(file.publications) :
                file'.publications[p] = file.publications[p]]_vars
  <2>1. CASE Rename
    <3>1. Evolves(file, op.next) /\ file \in State /\ file' = op.next
      BY <1>1, <2>1 DEF IInv, OpSound, TypeOK, Rename
    <3> QED
      BY <3>1 DEF Evolves, Present, State
  <2>2. CASE file' = file
    BY <2>2
  <2>3. Rename \/ file' = file
    BY <1>1, EditorTouches DEF Next, ExportDashboard, PersistFails, Swap, AnswerViewer,
       ResolveShare, Lapse, Crash, Open, vars
  <2> QED
    BY <2>1, <2>2, <2>3
<1> QED
  BY <1>1, Invariance, PTL DEF Spec, PublicationsPinned

(* A link whose revocation was acknowledged is not served, whatever was    *)
(* written or restarted since.                                             *)
THEOREM RevokedLinksStayDead == Spec => RevokedNotServed
<1>1. ASSUME IInv, [Next]_vars
      PROVE  [\A v \in Viewers :
                viewer[v].pc = "idle" /\ viewer'[v].pc = "serving" =>
                  viewer'[v].share \notin revoked]_vars
  <2> SUFFICES ASSUME NEW v \in Viewers, viewer[v].pc = "idle",
                      viewer'[v].pc = "serving"
               PROVE  viewer'[v].share \notin revoked
    OBVIOUS
  <2>0. viewer \in [Viewers -> Viewer]
    BY <1>1 DEF IInv, TypeOK
  <2>1. \/ viewer' = viewer
        \/ \E w \in Viewers : AnswerViewer(w) \/ \E h \in Shares : ResolveShare(w, h)
        \/ Crash
    BY <1>1, EditorTouches DEF Next, ExportDashboard, PersistFails, Rename, Swap, Lapse,
       Open, vars
  <2>2. PICK h \in Shares : Unlocked /\ Resolvable(h) /\ viewer'[v].share = h
    BY <2>0, <2>1 DEF Viewer, AnswerViewer, ResolveShare, Crash
  <2>3. objects = file
    BY <1>1, <2>2 DEF IInv, ServedIsSaved
  <2> QED
    BY <1>1, <2>2, <2>3 DEF IInv, RevokedState, Resolvable
<1> QED
  BY <1>1, Invariance, PTL DEF Spec, RevokedNotServed

----------------------------------------------------------------------------
(* The refinement.                                                         *)

(* How far the request of each editor is, as the durable objects see it.   *)
Client ==
  [e \in Editors |->
    IF editor[e].pc # "waiting" THEN editor[e].pc
    ELSE IF op = None THEN "pending"
    ELSE IF op.stage = "writing" THEN "pending" ELSE "applied"]

LEMMA ClientAtRest ==
  ASSUME IInv, NEW e \in Editors, editor[e].pc # "waiting"
  PROVE  Client[e] = editor[e].pc /\ Client[e] \in Durable!Resting
  BY DEF Client, IInv, TypeOK, Editor, Durable!Resting

ClientIs(e, pc) == Client = [x \in Editors |-> IF x = e THEN pc ELSE editor[x].pc]

(* Only the request that holds the lock is on its way.                     *)
LEMMA ClientUnlocked ==
  IInv /\ op = None => Client = [e \in Editors |-> editor[e].pc]
  BY DEF Client, IInv, Waiting

LEMMA ClientLocked ==
  IInv /\ op # None =>
    /\ op.by \in Editors
    /\ op.stage = "writing" => ClientIs(op.by, "pending")
    /\ op.stage # "writing" => ClientIs(op.by, "applied")
<1> SUFFICES ASSUME IInv, op # None
             PROVE  /\ op.by \in Editors
                    /\ op.stage = "writing" => ClientIs(op.by, "pending")
                    /\ op.stage # "writing" => ClientIs(op.by, "applied")
  OBVIOUS
<1>1. op.by \in Editors /\ editor[op.by].pc = "waiting"
  BY DEF IInv, TypeOK, Operation, OpSound
<1>2. \A e \in Editors : editor[e].pc = "waiting" => e = op.by
  BY DEF IInv, Waiting
<1> QED
  BY <1>1, <1>2 DEF Client, ClientIs

LEMMA ClientNext ==
  IInv' =>
    /\ op' = None => Client' = [e \in Editors |-> editor'[e].pc]
    /\ op' # None /\ op'.stage = "writing" =>
         Client' = [x \in Editors |-> IF x = op'.by THEN "pending" ELSE editor'[x].pc]
    /\ op' # None /\ op'.stage # "writing" =>
         Client' = [x \in Editors |-> IF x = op'.by THEN "applied" ELSE editor'[x].pc]
<1>1. (IInv /\ op = None => Client = [e \in Editors |-> editor[e].pc])'
  BY ClientUnlocked, PTL
<1>2. (IInv /\ op # None =>
         /\ op.by \in Editors
         /\ op.stage = "writing" => ClientIs(op.by, "pending")
         /\ op.stage # "writing" => ClientIs(op.by, "applied"))'
  BY ClientLocked, PTL
<1> QED
  BY <1>1, <1>2 DEF ClientIs

LEMMA SubmitStep ==
  ASSUME IInv, IInv', NEW e \in Editors, CanWrite(e), file' = file,
         NEW k, NEW id, NEW next, NEW share, Request(e, k, id, next, share),
         NEW basis, Waits(e, basis)
  PROVE  Durable!Submit(e)
<1>1. op' # None /\ op'.by = e /\ op'.stage = "writing"
  <2>1. op' = [by |-> e, stage |-> "writing", next |-> next,
               kind |-> k, id |-> id, revokes |-> share]
    BY DEF Request
  <2>2. editor'[e].pc = "waiting"
    BY DEF Waits, IInv, TypeOK, Editor
  <2> QED
    BY <2>1, <2>2 DEF IInv, Waiting
<1>2. Client = [x \in Editors |-> editor[x].pc]
  BY ClientUnlocked DEF CanWrite, Unlocked
<1>3. Client' = [x \in Editors |-> IF x = e THEN "pending" ELSE editor'[x].pc]
  BY <1>1, ClientNext
<1>4. \A x \in Editors : x # e => editor'[x].pc = editor[x].pc
  BY DEF Waits, IInv, TypeOK
<1>5. Client' = [Client EXCEPT ![e] = "pending"]
  BY <1>2, <1>3, <1>4
<1>6. Client[e] \in Durable!Resting
  BY ClientAtRest DEF CanWrite
<1> QED
  BY <1>5, <1>6 DEF Durable!Submit, Client

LEMMA RefuseMaps ==
  ASSUME IInv, IInv', NEW e \in Editors, Refuse(e)
  PROVE  Durable!Refuse(e)
<1>1. op = None /\ op' = None /\ file' = file
  BY DEF Refuse, Unlocked
<1>2. Client' = [Client EXCEPT ![e] = "refused"]
  BY <1>1, ClientUnlocked, ClientNext DEF Refuse, IInv, TypeOK, Editor
<1>3. Client[e] \in Durable!Resting
  BY ClientAtRest DEF Refuse
<1> QED
  BY <1>1, <1>2, <1>3 DEF Durable!Refuse, Client

LEMMA PersistFailsMaps ==
  ASSUME IInv, IInv', PersistFails
  PROVE  \E e \in Editors : Durable!Refuse(e)
<1>1. op # None /\ op.stage = "writing" /\ op' = None /\ file' = file
  BY DEF PersistFails
<1>2. op.by \in Editors /\ ClientIs(op.by, "pending")
  BY <1>1, ClientLocked
<1>3. Client' = [e \in Editors |-> editor'[e].pc]
  BY <1>1, ClientNext
<1>4. \A e \in Editors : editor'[e].pc = IF e = op.by THEN "refused" ELSE editor[e].pc
  BY DEF PersistFails, IInv, TypeOK, Editor
<1>5. Client' = [Client EXCEPT ![op.by] = "refused"] /\ Client[op.by] = "pending"
  BY <1>2, <1>3, <1>4 DEF ClientIs
<1>8. PICK e \in Editors : e = op.by
  BY <1>2
<1>9. Durable!Refuse(e)
  BY <1>1, <1>5, <1>8 DEF Durable!Refuse, Client
<1> QED
  BY <1>9

LEMMA RenameMaps ==
  ASSUME IInv, IInv', Rename
  PROVE  \E e \in Editors : Durable!Commit(e)
<1>1. op # None /\ op.stage = "writing" /\ op \in Operation
  BY DEF Rename, IInv, TypeOK
<1>2. op.by \in Editors /\ ClientIs(op.by, "pending")
  BY <1>1, ClientLocked
<1>3. op' # None /\ op'.stage = "renamed" /\ op'.by = op.by
  <2>1. op' = [op EXCEPT !.stage = "renamed"]
    BY DEF Rename
  <2>2. op' \in Operation /\ op'.stage = "renamed" /\ op'.by = op.by
    BY <1>1, <2>1 DEF Operation
  <2> QED
    BY <2>2, OperationsApart
<1>4. Client' = [x \in Editors |-> IF x = op.by THEN "applied" ELSE editor'[x].pc]
  BY <1>3, ClientNext
<1>5. \A e \in Editors : editor'[e].pc = editor[e].pc
  BY DEF Rename, IInv, TypeOK, Editor
<1>6. Client' = [Client EXCEPT ![op.by] = "applied"] /\ Client[op.by] = "pending"
  BY <1>2, <1>4, <1>5 DEF ClientIs
<1>7. ValidState(file')
  BY DEF IInv, FileOpens
<1>8. PICK e \in Editors : e = op.by
  BY <1>2
<1>9. Durable!Commit(e)
  BY <1>6, <1>7, <1>8 DEF Durable!Commit, Client
<1> QED
  BY <1>9

LEMMA SwapMaps ==
  ASSUME IInv, IInv', Swap
  PROVE  \E e \in Editors : Durable!Acknowledge(e)
<1>1. op # None /\ op.stage = "renamed" /\ op' = None /\ file' = file
  BY DEF Swap
<1>2. op.by \in Editors /\ ClientIs(op.by, "applied")
  BY <1>1, ClientLocked
<1>3. Client' = [e \in Editors |-> editor'[e].pc]
  BY <1>1, ClientNext
<1>4. \A e \in Editors : editor'[e].pc = IF e = op.by THEN "ok" ELSE editor[e].pc
  <2>1. editor \in [Editors -> Editor]
    BY DEF IInv, TypeOK
  <2> QED
    BY <1>2, <2>1 DEF Swap, Editor
<1>5. Client' = [Client EXCEPT ![op.by] = "ok"] /\ Client[op.by] = "applied"
  BY <1>2, <1>3, <1>4 DEF ClientIs
<1>8. PICK e \in Editors : e = op.by
  BY <1>2
<1>9. Durable!Acknowledge(e)
  BY <1>1, <1>5, <1>8 DEF Durable!Acknowledge, Client
<1> QED
  BY <1>9

(* A crash puts the one editor whose request was on its way in doubt.      *)
LEMMA CrashMaps ==
  ASSUME IInv, IInv', Crash
  PROVE  \/ \E e \in Editors : Durable!LoseTouch(e)
         \/ UNCHANGED <<file, Client>>
<1>1. op' = None /\ file' = file
  BY DEF Crash
<1>2. Client' = [e \in Editors |-> editor'[e].pc]
  BY <1>1, ClientNext
<1>3. \A e \in Editors :
        editor'[e].pc = IF editor[e].pc = "waiting" THEN "unknown" ELSE editor[e].pc
  BY DEF Crash, IInv, TypeOK, Editor
<1>4. CASE op = None
  <2>1. \A e \in Editors : editor[e].pc # "waiting"
    BY <1>4 DEF IInv, Waiting
  <2>2. Client = [e \in Editors |-> editor[e].pc]
    BY <1>4, ClientUnlocked
  <2> QED
    BY <1>1, <1>2, <1>3, <2>1, <2>2
<1>5. CASE op # None
  <2>1. op.by \in Editors /\ (ClientIs(op.by, "pending") \/ ClientIs(op.by, "applied"))
    BY <1>5, ClientLocked
  <2>2. /\ editor[op.by].pc = "waiting"
        /\ \A e \in Editors : e # op.by => editor[e].pc # "waiting"
    BY <1>5, <2>1 DEF IInv, OpSound, Waiting
  <2>3. /\ Client' = [Client EXCEPT ![op.by] = "unknown"]
        /\ Client[op.by] \in {"pending", "applied"}
    BY <1>2, <1>3, <2>1, <2>2 DEF ClientIs
  <2>4. PICK e \in Editors : e = op.by
    BY <2>1
  <2>5. Durable!LoseTouch(e)
    BY <1>1, <2>3, <2>4 DEF Durable!LoseTouch, Client
  <2> QED
    BY <2>5
<1> QED
  BY <1>4, <1>5

LEMMA EditorMaps ==
  ASSUME IInv, IInv', NEW e \in Editors, EditorStep(e)
  PROVE  \/ Durable!Submit(e) \/ Durable!Refuse(e)
         \/ UNCHANGED <<file, Client>>
<1>0. file' = file
  BY EditorTouches
<1>1. ASSUME NEW k \in EditableKinds, NEW id \in IdsOf(k), NEW def \in FormsOf(k),
             Create(e, k, id, def) \/ Update(e, k, id, def)
      PROVE  Durable!Submit(e)
  BY <1>0, <1>1, SubmitStep DEF Create, Update
<1>2. ASSUME NEW k \in EditableKinds, NEW id \in IdsOf(k), Delete(e, k, id)
      PROVE  Durable!Submit(e)
  BY <1>0, <1>2, SubmitStep DEF Delete
<1>3. ASSUME NEW k \in EditableKinds, NEW id \in IdsOf(k), Load(e, k, id)
      PROVE  UNCHANGED <<file, Client>>
  <2>1. op = None /\ op' = None
    BY <1>3 DEF Load, Unlocked
  <2>2. \A x \in Editors : editor'[x].pc = editor[x].pc
    BY <1>3 DEF Load, IInv, TypeOK, Editor
  <2> QED
    BY <1>0, <2>1, <2>2, ClientUnlocked, ClientNext
<1>4. ASSUME NEW b, NEW p, Publish(e, b, p)
      PROVE  Durable!Submit(e)
  BY <1>0, <1>4, SubmitStep DEF Publish
<1>5. ASSUME NEW p, NEW h, NEW expires, NEW locked,
             CreateShare(e, p, h, expires, locked)
      PROVE  Durable!Submit(e)
  BY <1>0, <1>5, SubmitStep DEF CreateShare
<1>6. ASSUME NEW h, NEW revision, RevokeShare(e, h, revision)
      PROVE  Durable!Submit(e)
  BY <1>0, <1>6, SubmitStep DEF RevokeShare
<1>7. ASSUME NEW replace, ImportDashboard(e, replace)
      PROVE  Durable!Submit(e)
  BY <1>0, <1>7, SubmitStep DEF ImportDashboard
<1>8. ASSUME NEW alike, ImportReference(e, alike)
      PROVE  Durable!Submit(e)
  BY <1>0, <1>8, SubmitStep DEF ImportReference
<1>9. ASSUME Refuse(e)
      PROVE  Durable!Refuse(e)
  BY <1>9, RefuseMaps
<1> QED
  BY <1>1, <1>2, <1>3, <1>4, <1>5, <1>6, <1>7, <1>8, <1>9 DEF EditorStep

LEMMA NextMaps ==
  ASSUME IInv, IInv', [Next]_vars
  PROVE  [Durable!Next]_(Durable!vars)
<1>1. ASSUME NEW e \in Editors, EditorStep(e)
      PROVE  [Durable!Next]_(Durable!vars)
  BY <1>1, EditorMaps DEF Durable!Next, Durable!vars, Client
<1>2. CASE PersistFails \/ Rename \/ Swap
  BY <1>2, PersistFailsMaps, RenameMaps, SwapMaps DEF Durable!Next
<1>3. CASE Crash
  BY <1>3, CrashMaps DEF Durable!Next, Durable!vars, Client
<1>4. CASE UNCHANGED <<file, op, editor>>
  BY <1>4 DEF Durable!vars, Client
<1>5. \/ \E e \in Editors : EditorStep(e)
      \/ PersistFails \/ Rename \/ Swap
      \/ Crash
      \/ UNCHANGED <<file, op, editor>>
  BY DEF Next, ExportDashboard, AnswerViewer, ResolveShare, Lapse, Open, vars
<1> QED
  BY <1>1, <1>2, <1>3, <1>4, <1>5

(* The store with its lock, its file, its two-step writes and its crashes  *)
(* implements durable, atomic and validated objects.                       *)
THEOREM StoreIsDurable == Spec => ImplementsDurable
<1>1. Init => Durable!Init
  <2> SUFFICES ASSUME Init PROVE Durable!Init
    OBVIOUS
  <2>1. ValidState(file)
    BY StoreConstants DEF Init
  <2> QED
    BY <2>1 DEF Init, Durable!Init
<1>2. IInv /\ IInv' /\ [Next]_vars => [Durable!Next]_(Durable!vars)
  BY NextMaps
<1> QED
  BY <1>1, <1>2, Invariance, PTL DEF Spec, ImplementsDurable, Durable!Spec
=============================================================================
