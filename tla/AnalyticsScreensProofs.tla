------------------------ MODULE AnalyticsScreensProofs ------------------------
(***************************************************************************)
(* What the analytics screens keep, for every set of sources, datasets,    *)
(* charts, widgets and connections and any number of gestures: each screen *)
(* has an inductive invariant of its own, from which its type and its      *)
(* properties follow.                                                      *)
(*                                                                         *)
(* Each part below has the same layout: the invariant as a conjunction of  *)
(* what is typed and what relates the parts of the state, that it gives    *)
(* the properties of the screen, that it holds at first, and one lemma for *)
(* each group of steps.                                                    *)
(***************************************************************************)
EXTENDS AnalyticsScreens, SequenceTheorems, FiniteSetTheorems, WellFoundedInduction, TLAPS

-----------------------------------------------------------------------------
(***************************************************************************)
(* The dock of the workspace (DockInv).                                    *)
(*                                                                         *)
(* Every chart on the screen has asked what it asks now and shows nothing  *)
(* else, and the filters and the selection that the screens share are of   *)
(* the source in force.                                                    *)
(***************************************************************************)
(* The shared filters and selection.                                       *)
DockWorkspace ==
  [source: Sources \cup {Nothing}, selected: Sources \cup {Nothing}, filters: SUBSET Fields,
   by: Origins \cup {Nothing}, dataset: Datasets \cup {Nothing}, viewport: BOOLEAN, version: Nat]
DockScopeSound ==
  /\ ws \in DockWorkspace
  /\ ws.selected \in {Nothing, ws.source}
  /\ ws.filters # {} =>
       Compatible(ws.source, ws.dataset) /\ ws.filters \subseteq FieldsOf[ws.dataset]

(* The charts over the map and its layers.                                 *)
DockDrawnSound ==
  /\ overlays \in [OverlayIds -> [chart: Chart, reference: BOOLEAN] \cup {Nothing}]
  /\ layers \in [LayerIds -> [chart: Chart, reference: BOOLEAN, visible: BOOLEAN]
                             \cup {Nothing}]

(* The choices of the dock among what it knows.                            *)
DockLists == [datasets: SUBSET Datasets, charts: SUBSET Chart, metrics: SUBSET Datasets]
DockChoices ==
  [dataset: Datasets \cup {Nothing}, chart: Chart \cup {Nothing},
   dashboard: Dashboards \cup {Nothing}, sum: BOOLEAN, picked: BOOLEAN,
   scope: {"all", "filtered", "selected", "extent"}, binding: {"follow", "pinned", "reference"}]
DockChoicesSound ==
  /\ known \in DockLists /\ dock \in DockChoices
  /\ dock.binding = "follow" /\ dock.dataset # Nothing => Compatible(ws.source, dock.dataset)

(* A dataset that is being created is of the source it was asked for.      *)
DockRequestsSound ==
  /\ stored \in DockLists
  /\ catalog \in {Nothing} \cup [unread: SUBSET {"datasets", "charts"}, answer: DockLists]
  /\ creating \in {Nothing} \cup [source: Sources, dataset: Datasets \cup {Nothing}]
  /\ creating # Nothing /\ creating.dataset # Nothing =>
       SourceOf[creating.dataset] = creating.source
  /\ saving \in {Nothing} \cup [dataset: Datasets, stage: {"metric", "chart", "done"}]
  /\ dockSteps \in 0..DockGestures

(* Every chart has asked what it asks now, and shows nothing else.         *)
DockShowsSound ==
  /\ shows \in [Askers -> Query]
  /\ \A k \in Askers :
       /\ shows[k].wants = Wanted(k)
       /\ shows[k].result # Nothing =>
            shows[k].result = shows[k].wants /\ shows[k].wants.kind \in {"ask", "empty"}
       /\ shows[k].live => shows[k].wants.kind = "ask"

DockInv ==
  DockScopeSound /\ DockDrawnSound /\ DockChoicesSound /\ DockRequestsSound /\ DockShowsSound

-----------------------------------------------------------------------------
(* What a chart asks is a question.                                        *)
LEMMA FollowsKnown ==
  ASSUME known \in DockLists
  PROVE  /\ Follows \subseteq Datasets
         /\ First(Follows) \in Datasets \cup {Nothing}
         /\ First(Follows) # Nothing => Compatible(ws.source, First(Follows))
  BY DEF Follows, First, DockLists

LEMMA ActiveType ==
  ASSUME DockChoicesSound
  PROVE  Active \in Chart \cup {Nothing} /\ Selected \in Datasets \cup {Nothing}
<1>1. known \in DockLists /\ known.datasets \subseteq Datasets /\ known.charts \subseteq Chart
  BY DEF DockChoicesSound, DockLists
<1>2. Selected \in Datasets \cup {Nothing}
  BY <1>1, FollowsKnown DEF Selected
<1>3. Selected # Nothing =>
        [dataset |-> Selected, kind |-> IF dock.sum THEN "sum" ELSE "count"] \in Chart
  BY <1>2 DEF Chart, Quick
<1> QED
  BY <1>1, <1>2, <1>3 DEF Active

LEMMA AsksType ==
  ASSUME DockScopeSound, NEW chart \in Chart, NEW scope, NEW linked, NEW mine
  PROVE  Asks(chart, scope, linked, mine) \in Question
<1> DEFINE d == chart.dataset
           fs == FiltersOfOthers(scope, mine)
           foreign == scope # "all" /\ ws.dataset \notin {Nothing, d}
           fails == \/ scope = "selected" /\ ~SelectionBinds(d)
                    \/ scope = "extent" /\ ~(ws.viewport /\ ExtentBinds(ws.source, d))
           kind == IF foreign /\ ~Rebinds(fs, ws.dataset, d) THEN "error"
                   ELSE IF scope = "selected" /\ ws.selected = Nothing THEN "empty"
                   ELSE IF fails THEN "error" ELSE "ask"
           src == IF linked /\ Compatible(ws.source, d) THEN ws.source ELSE Nothing
<1>1. fs \in SUBSET Fields /\ ws.version \in Nat /\ ws.source \in Sources \cup {Nothing}
  BY DEF DockScopeSound, DockWorkspace, FiltersOfOthers
<1>2. kind \in {"idle", "empty", "error", "ask"}
  OBVIOUS
<1>3. src \in Sources \cup {Nothing}
  BY <1>1
<1>4. (scope = "selected") \in BOOLEAN /\ (scope = "extent") \in BOOLEAN
  OBVIOUS
<1>5. Asks(chart, scope, linked, mine) =
        [kind |-> kind, chart |-> chart, filters |-> fs, source |-> src,
         rows |-> scope = "selected", extent |-> scope = "extent", version |-> ws.version]
  BY DEF Asks
<1> HIDE DEF fs, kind, src
<1> QED
  BY <1>1, <1>2, <1>3, <1>4, <1>5 DEF Question

LEMMA WantedType ==
  ASSUME DockScopeSound, DockDrawnSound, DockChoicesSound, NEW k \in Askers
  PROVE  Wanted(k) \in Question
<1>1. Unasked \in Question
  BY DEF Unasked, Question
<1>2. CASE k = Preview
  <2>1. WantedPreview \in Question
    BY <1>1, ActiveType, AsksType DEF WantedPreview, Rendered
  <2> QED
    BY <1>2, <2>1 DEF Wanted
<1>3. CASE k # Preview /\ k \in OverlayIds
  <2>1. overlays[k] # Nothing => overlays[k].chart \in Chart
    BY <1>3 DEF DockDrawnSound
  <2>2. WantedOverlay(overlays[k]) \in Question
    BY <1>1, <2>1, AsksType DEF WantedOverlay
  <2> QED
    BY <1>3, <2>2 DEF Wanted
<1>4. CASE k # Preview /\ k \notin OverlayIds
  <2>1. k[2] \in Chart
    BY <1>4, DockCharts DEF Askers
  <2>2. WantedLayer(layers[k[1]], k) \in Question
    BY <1>1, <2>1, AsksType DEF WantedLayer
  <2> QED
    BY <1>4, <2>2 DEF Wanted
<1> QED
  BY <1>2, <1>3, <1>4

(* A question that stays the same is asked once, another one clears the    *)
(* result.                                                                 *)
LEMMA SettleSound ==
  ASSUME NEW q \in Query, NEW wanted \in Question,
         q.result # Nothing => q.result = q.wants /\ q.wants.kind \in {"ask", "empty"},
         q.live => q.wants.kind = "ask"
  PROVE  /\ Settle(q, wanted) \in Query
         /\ Settle(q, wanted).wants = wanted
         /\ Settle(q, wanted).result # Nothing =>
              Settle(q, wanted).result = wanted /\ wanted.kind \in {"ask", "empty"}
         /\ Settle(q, wanted).live => wanted.kind = "ask"
<1>1. CASE wanted = q.wants
  BY <1>1 DEF Settle
<1>2. CASE wanted # q.wants
  <2> DEFINE r == [wants |-> wanted,
                   result |-> IF wanted.kind = "empty" THEN wanted ELSE Nothing,
                   failed |-> wanted.kind = "error", live |-> wanted.kind = "ask",
                   late |-> IF q.live THEN q.wants ELSE q.late]
  <2>1. Settle(q, wanted) = r
    BY <1>2 DEF Settle
  <2>2. (IF q.live THEN q.wants ELSE q.late) \in Question \cup {Nothing}
    BY DEF Query
  <2>3. r \in Query
    BY <2>2 DEF Query
  <2>4. /\ r.wants = wanted /\ (r.live <=> wanted.kind = "ask")
        /\ r.result # Nothing => r.result = wanted /\ wanted.kind = "empty"
    OBVIOUS
  <2> HIDE DEF r
  <2> QED
    BY <2>1, <2>3, <2>4
<1> QED
  BY <1>1, <1>2

(* After the effects every chart has asked what it asks now.               *)
LEMMA RerenderSound ==
  ASSUME DockShowsSound, (DockScopeSound /\ DockDrawnSound /\ DockChoicesSound)', Rerender
  PROVE  DockShowsSound'
<1>1. ASSUME NEW k \in Askers PROVE Wanted(k)' \in Question
  <2>1. (DockScopeSound /\ DockDrawnSound /\ DockChoicesSound => Wanted(k) \in Question)'
    BY WantedType, PTL
  <2> QED
    BY <2>1
<1>2. shows' = [k \in Askers |-> Settle(shows[k], Wanted(k)')]
  BY DEF Rerender
<1>3. ASSUME NEW k \in Askers
      PROVE  /\ shows'[k] \in Query /\ shows'[k].wants = Wanted(k)'
             /\ shows'[k].result # Nothing =>
                  shows'[k].result = shows'[k].wants /\ shows'[k].wants.kind \in {"ask", "empty"}
             /\ shows'[k].live => shows'[k].wants.kind = "ask"
  <2>1. /\ shows[k] \in Query
        /\ shows[k].result # Nothing =>
             shows[k].result = shows[k].wants /\ shows[k].wants.kind \in {"ask", "empty"}
        /\ shows[k].live => shows[k].wants.kind = "ask"
    BY DEF DockShowsSound
  <2>2. shows'[k] = Settle(shows[k], Wanted(k)')
    BY <1>2
  <2> QED
    BY <1>1, <2>1, <2>2, SettleSound
<1> QED
  BY <1>2, <1>3 DEF DockShowsSound

(* A question only changes with what it is made of.                        *)
LEMMA WantedStays ==
  ASSUME UNCHANGED <<ws, overlays, layers, dock, known>>
  PROVE  \A k : Wanted(k)' = Wanted(k)
<1>1. Follows' = Follows
  BY DEF Follows, Compatible
<1>2. Selected' = Selected
  BY <1>1 DEF Selected, First
<1>3. Active' = Active /\ Unsaved' = Unsaved
  BY <1>2 DEF Active, Unsaved
<1>4. Rendered' = Rendered /\ PickedHere' = PickedHere
  BY <1>3 DEF Rendered, PickedHere
<1>5. Scope' = Scope
  BY <1>3, <1>4 DEF Scope, Bound, Compatible
<1>6. \A chart, scope, linked, mine :
        Asks(chart, scope, linked, mine)' = Asks(chart, scope, linked, mine)
  BY DEF Asks, FiltersOfOthers
<1>7. WantedPreview' = WantedPreview
  BY <1>3, <1>4, <1>5, <1>6 DEF WantedPreview
<1>8. \A o : WantedOverlay(o)' = WantedOverlay(o)
  BY <1>6 DEF WantedOverlay, OnMap, Compatible
<1>9. \A l, k : WantedLayer(l, k)' = WantedLayer(l, k)
  BY <1>6 DEF WantedLayer, OnMap, Entries, Compatible
<1> QED
  BY <1>7, <1>8, <1>9 DEF Wanted

-----------------------------------------------------------------------------
(* What is asked fits the chart that asks and what is shared.              *)
LEMMA AskedFits ==
  ASSUME DockScopeSound, NEW chart \in Chart, NEW scope, NEW linked \in BOOLEAN,
         NEW mine \in BOOLEAN, NEW r, r = Asks(chart, scope, linked, mine),
         r.kind \in {"ask", "empty"}
  PROVE  /\ r.chart = chart /\ r.version = ws.version
         /\ r.rows <=> scope = "selected"
         /\ r.extent <=> scope = "extent"
         /\ r.kind = "empty" <=> scope = "selected" /\ ws.selected = Nothing
         /\ r.rows /\ r.kind # "empty" => SelectionBinds(chart.dataset)
         /\ r.extent => ws.viewport /\ ExtentBinds(ws.source, chart.dataset)
         /\ scope = "all" /\ ~linked => Unlimited(r)
         /\ scope # "all" /\ linked => Linked(r, mine)
<1> DEFINE d == chart.dataset
           fs == FiltersOfOthers(scope, mine)
           foreign == scope # "all" /\ ws.dataset \notin {Nothing, d}
           fails == \/ scope = "selected" /\ ~SelectionBinds(d)
                    \/ scope = "extent" /\ ~(ws.viewport /\ ExtentBinds(ws.source, d))
           kind == IF foreign /\ ~Rebinds(fs, ws.dataset, d) THEN "error"
                   ELSE IF scope = "selected" /\ ws.selected = Nothing THEN "empty"
                   ELSE IF fails THEN "error" ELSE "ask"
           src == IF linked /\ Compatible(ws.source, d) THEN ws.source ELSE Nothing
<1>1. r = [kind |-> kind, chart |-> chart, filters |-> fs, source |-> src,
           rows |-> scope = "selected", extent |-> scope = "extent", version |-> ws.version]
  BY DEF Asks
<1>2. /\ kind \in {"ask", "empty"}
      /\ r.kind = kind /\ r.chart = chart /\ r.filters = fs /\ r.source = src
      /\ r.rows = (scope = "selected") /\ r.extent = (scope = "extent")
      /\ r.version = ws.version
  BY <1>1
<1>3. /\ ~(foreign /\ ~Rebinds(fs, ws.dataset, d))
      /\ kind = "empty" <=> scope = "selected" /\ ws.selected = Nothing
      /\ kind = "ask" => ~fails
  BY <1>2
<1>4. d \in Datasets /\ d # Nothing
  BY DockConstants DEF Chart
<1>5. fs # {} => Compatible(ws.source, d) /\ fs \subseteq FieldsOf[d]
  <2>1. CASE fs = {}
    BY <2>1
  <2>2. CASE fs # {}
    <3>1. fs = ws.filters /\ scope # "all"
      BY <2>2 DEF FiltersOfOthers
    <3>2. Compatible(ws.source, ws.dataset) /\ fs \subseteq FieldsOf[ws.dataset]
      BY <2>2, <3>1 DEF DockScopeSound
    <3>3. CASE ws.dataset = d
      BY <3>2, <3>3
    <3>4. CASE ws.dataset # d
      <4>1. Rebinds(fs, ws.dataset, d)
        BY <1>3, <3>1, <3>2, <3>4 DEF Compatible
      <4> QED
        BY <1>4, <3>2, <4>1 DEF Rebinds, Compatible
    <3> QED
      BY <3>3, <3>4
  <2> QED
    BY <2>1, <2>2
<1>6. scope = "all" => fs = {}
  BY DEF FiltersOfOthers
<1>7. scope # "all" => fs = IF mine THEN {} ELSE ws.filters
  BY DEF FiltersOfOthers
<1>8. ASSUME scope = "all", ~linked PROVE Unlimited(r)
  BY <1>2, <1>6, <1>8 DEF Unlimited
<1>9. ASSUME scope # "all", linked PROVE Linked(r, mine)
  <2> HIDE DEF fs
  <2> QED
    BY <1>2, <1>5, <1>7, <1>9 DEF Linked
<1>10. /\ r.rows /\ r.kind # "empty" => SelectionBinds(d)
       /\ r.extent => ws.viewport /\ ExtentBinds(ws.source, d)
  <2>1. r.extent => kind = "ask"
    BY <1>2, <1>3
  <2>2. ~fails => /\ scope = "selected" => SelectionBinds(d)
                  /\ scope = "extent" => ws.viewport /\ ExtentBinds(ws.source, d)
    OBVIOUS
  <2> HIDE DEF fails, kind
  <2> QED
    BY <1>2, <1>3, <2>1, <2>2
<1> QED
  BY <1>2, <1>3, <1>8, <1>9, <1>10

LEMMA PreviewFit ==
  ASSUME DockScopeSound, DockChoicesSound, Wanted(Preview).kind \in {"ask", "empty"}
  PROVE  PreviewShows(Wanted(Preview)) /\ Wanted(Preview).version = ws.version
<1> DEFINE r == Wanted(Preview)
           linked == dock.binding # "reference" /\ Scope # "all"
<1>1. r = WantedPreview /\ r.kind # "idle"
  BY DEF Wanted
<1>2. Rendered /\ r = Asks(Active, Scope, linked, PickedHere)
  BY <1>1 DEF WantedPreview, Unasked
<1>3. Active \in Chart /\ Active.dataset \in known.datasets
  BY <1>2, ActiveType DEF Rendered
<1>4. linked <=> Scope # "all"
  BY DEF Scope
<1>5. linked \in BOOLEAN /\ PickedHere \in BOOLEAN
  BY DEF PickedHere
<1> HIDE DEF linked
<1>6. /\ r.chart = Active /\ r.version = ws.version
      /\ r.rows <=> Scope = "selected"
      /\ r.extent <=> Scope = "extent"
      /\ r.kind = "empty" <=> Scope = "selected" /\ ws.selected = Nothing
      /\ r.rows /\ r.kind # "empty" => SelectionBinds(Active.dataset)
      /\ r.extent => ws.viewport /\ ExtentBinds(ws.source, Active.dataset)
      /\ Scope = "all" /\ ~linked => Unlimited(r)
      /\ Scope # "all" /\ linked => Linked(r, PickedHere)
  BY <1>2, <1>3, <1>5, AskedFits
<1> HIDE DEF r
<1>7. r.extent => ws.source \in Geometry /\ r.source = ws.source
  BY <1>4, <1>6 DEF ExtentBinds, Linked
<1>8. PickedHere <=> ws.by = r.chart /\ (r.chart.kind \in Quick => dock.picked)
  BY <1>6 DEF PickedHere
<1>9. PreviewShows(r)
  <2> DEFINE own == ws.by = r.chart /\ (r.chart.kind \in Quick => dock.picked)
  <2>1. own = PickedHere
    BY <1>8 DEF PickedHere
  <2>2. Scope # "all" => Linked(r, own)
    BY <1>4, <1>6, <2>1
  <2>3. Scope = "all" => Unlimited(r)
    BY <1>4, <1>6
  <2>4. r.rows /\ r.kind # "empty" => Keys \subseteq FieldsOf[r.chart.dataset]
    BY <1>6 DEF SelectionBinds
  <2>5. r.chart = Active /\ r.chart.dataset \in known.datasets
    BY <1>3, <1>6
  <2> HIDE DEF own
  <2> QED
    BY <1>6, <1>7, <2>2, <2>3, <2>4, <2>5 DEF PreviewShows, own
<1> QED
  BY <1>6, <1>9 DEF r

LEMMA OverlayFit ==
  ASSUME DockScopeSound, DockDrawnSound, NEW k \in OverlayIds, k # Preview,
         Wanted(k).kind \in {"ask", "empty"}
  PROVE  OverlayShows(overlays[k], Wanted(k)) /\ Wanted(k).version = ws.version
<1> DEFINE r == Wanted(k)
           o == overlays[k]
           scope == IF o.reference THEN "all" ELSE "filtered"
           linked == ~o.reference
           mine == FALSE
<1>1. r = WantedOverlay(o) /\ r.kind # "idle"
  BY DEF Wanted
<1>2. o # Nothing /\ OnMap(o.chart, o.reference) /\ r = Asks(o.chart, scope, linked, mine)
  <2>1. CASE o = Nothing \/ ~OnMap(o.chart, o.reference)
    <3>1. WantedOverlay(o) = Unasked
      BY <2>1, Zenon DEF WantedOverlay
    <3> QED
      BY <1>1, <3>1 DEF Unasked
  <2>2. CASE o # Nothing /\ OnMap(o.chart, o.reference)
    <3>1. WantedOverlay(o) = Asks(o.chart, scope, linked, mine)
      BY <2>2, Zenon DEF WantedOverlay
    <3> QED
      BY <1>1, <2>2, <3>1, Zenon
  <2> QED
    BY <2>1, <2>2, Zenon
<1>3. o.chart \in Chart /\ o.reference \in BOOLEAN
  BY <1>2 DEF DockDrawnSound
<1>4. linked \in BOOLEAN /\ mine \in BOOLEAN /\ (linked <=> ~o.reference) /\ ~mine
  OBVIOUS
<1>5. scope # "selected" /\ scope # "extent" /\ (scope = "all" <=> o.reference)
  OBVIOUS
<1> HIDE DEF o, scope, linked, mine
<1>7. /\ r.chart = o.chart /\ r.version = ws.version
      /\ r.rows <=> scope = "selected"
      /\ r.extent <=> scope = "extent"
      /\ r.kind = "empty" <=> scope = "selected" /\ ws.selected = Nothing
      /\ scope = "all" /\ ~linked => Unlimited(r)
      /\ scope # "all" /\ linked => Linked(r, mine)
  BY <1>2, <1>3, <1>4, AskedFits
<1>8. ~o.reference => r.source # Nothing
  BY <1>2, <1>4, <1>5, <1>7 DEF OnMap, Linked, Compatible
<1>9. r.kind = "ask" /\ ~r.rows /\ ~r.extent
  BY <1>5, <1>7
<1> HIDE DEF r
<1>10. OverlayShows(o, r)
  <2>1. IF o.reference THEN Unlimited(r) ELSE Linked(r, FALSE)
    BY <1>4, <1>5, <1>7 DEF mine
  <2> QED
    BY <1>2, <1>7, <1>8, <1>9, <2>1 DEF OverlayShows
<1> QED
  BY <1>7, <1>10 DEF r, o

LEMMA LayerFit ==
  ASSUME DockScopeSound, DockDrawnSound, NEW k \in Askers, k # Preview, k \notin OverlayIds,
         Wanted(k).kind \in {"ask", "empty"}
  PROVE  LayerShows(k[1], Wanted(k)) /\ Wanted(k).version = ws.version
<1> DEFINE r == Wanted(k)
           l == layers[k[1]]
           scope == IF l.reference THEN "all" ELSE "filtered"
           mine == ws.by = k[1]
           linked == ~l.reference
<1>1. r = WantedLayer(l, k) /\ r.kind # "idle"
  BY DEF Wanted
<1>2. /\ l # Nothing /\ l.visible /\ k[2] \in Entries(l)
      /\ r = Asks(k[2], scope, linked, mine)
  BY <1>1 DEF WantedLayer, Unasked
<1>3. k[1] \in LayerIds /\ k[2] \in Chart /\ l.reference \in BOOLEAN
  BY <1>2, DockCharts DEF Askers, DockDrawnSound
<1>4. linked \in BOOLEAN /\ mine \in BOOLEAN /\ (linked <=> ~l.reference)
  OBVIOUS
<1>5. scope # "selected" /\ scope # "extent" /\ (scope = "all" <=> l.reference)
  OBVIOUS
<1>6. k[2] = l.chart \/ (l.chart.kind = "composite" /\ k[2] \in Children)
  BY <1>2 DEF Entries
<1> DEFINE c == k[2]
<1>7. c \in Chart /\ r = Asks(c, scope, linked, mine)
  BY <1>2, <1>3
<1> HIDE DEF scope, linked, mine, l, c
<1>8. /\ r.chart = c /\ r.version = ws.version
      /\ r.rows <=> scope = "selected"
      /\ r.extent <=> scope = "extent"
      /\ r.kind = "empty" <=> scope = "selected" /\ ws.selected = Nothing
      /\ scope = "all" /\ ~linked => Unlimited(r)
      /\ scope # "all" /\ linked => Linked(r, mine)
  BY <1>4, <1>7, AskedFits
<1>9. r.kind = "ask" /\ ~r.rows /\ ~r.extent
  BY <1>5, <1>8
<1> HIDE DEF r
<1>10. LayerShows(k[1], r)
  <2>1. IF l.reference THEN Unlimited(r) ELSE Linked(r, mine)
    BY <1>4, <1>5, <1>8
  <2> QED
    BY <1>2, <1>6, <1>8, <1>9, <2>1 DEF LayerShows, mine, l, c
<1> QED
  BY <1>8, <1>10 DEF r

(* The invariant gives the properties of the dock.                         *)
LEMMA DockInvSuffices ==
  ASSUME DockInv
  PROVE  DockTypeOK /\ DockAnswersFit /\ SharedScopeFits
<1>1. DockTypeOK
  <2>1. ws \in [source: Sources \cup {Nothing}, selected: Sources \cup {Nothing},
                filters: SUBSET Fields, by: Origins \cup {Nothing},
                dataset: Datasets \cup {Nothing}, viewport: BOOLEAN, version: Nat]
    BY DEF DockInv, DockScopeSound, DockWorkspace
  <2>2. /\ overlays \in [OverlayIds -> [chart: Chart, reference: BOOLEAN] \cup {Nothing}]
        /\ layers \in [LayerIds -> [chart: Chart, reference: BOOLEAN, visible: BOOLEAN]
                                   \cup {Nothing}]
    BY DEF DockInv, DockDrawnSound
  <2>3. dock \in DockChoices /\ known \in DockLists
    BY DEF DockInv, DockChoicesSound
  <2>4. /\ stored \in DockLists
        /\ catalog \in {Nothing} \cup [unread: SUBSET {"datasets", "charts"}, answer: DockLists]
        /\ creating \in {Nothing} \cup [source: Sources, dataset: Datasets \cup {Nothing}]
        /\ saving \in {Nothing} \cup [dataset: Datasets, stage: {"metric", "chart", "done"}]
        /\ dockSteps \in 0..DockGestures
    BY DEF DockInv, DockRequestsSound
  <2>5. shows \in [Askers -> Query]
    BY DEF DockInv, DockShowsSound
  <2> QED
    BY <2>1, <2>2, <2>3, <2>4, <2>5, Zenon DEF DockTypeOK, DockChoices, DockLists
<1>2. DockAnswersFit
  <2>1. ASSUME NEW k \in Askers, shows[k].result # Nothing
        PROVE  /\ shows[k].result = Wanted(k)
               /\ Wanted(k).kind \in {"ask", "empty"}
    BY <2>1 DEF DockInv, DockShowsSound
  <2> QED
    BY <2>1, PreviewFit, OverlayFit, LayerFit DEF DockInv, DockAnswersFit
<1>3. SharedScopeFits
  BY DEF DockInv, DockScopeSound, DockChoicesSound, SharedScopeFits
<1> QED
  BY <1>1, <1>2, <1>3

-----------------------------------------------------------------------------
(* The store of the workspace.                                             *)

LEMMA NoFiltersSound ==
  ASSUME DockScopeSound, ws' = NoFilters(ws)
  PROVE  DockScopeSound' /\ ws'.source = ws.source
<1>1. NoFilters(ws) \in DockWorkspace
  BY DEF NoFilters, DockScopeSound, DockWorkspace
<1>2. /\ ws'.selected = ws.selected /\ ws'.source = ws.source
      /\ ws'.filters = {}
  BY DEF NoFilters, DockScopeSound, DockWorkspace
<1> QED
  BY <1>1, <1>2 DEF DockScopeSound

LEMMA SetSourceSound ==
  ASSUME DockScopeSound, NEW s \in Sources
  PROVE  /\ SetSource(ws, s) \in DockWorkspace
         /\ SetSource(ws, s).source = s
         /\ SetSource(ws, s).selected \in {Nothing, s}
         /\ SetSource(ws, s).filters # {} =>
              /\ Compatible(s, SetSource(ws, s).dataset)
              /\ SetSource(ws, s).filters \subseteq FieldsOf[SetSource(ws, s).dataset]
<1> DEFINE sel == IF s = ws.source THEN ws.selected ELSE Nothing
<1>1. sel \in Sources \cup {Nothing} /\ sel \in {Nothing, s}
  BY DEF DockScopeSound, DockWorkspace
<1>2. CASE Compatible(s, ws.dataset)
  <2>1. SetSource(ws, s) = [ws EXCEPT !.source = s, !.selected = sel]
    BY <1>2 DEF SetSource
  <2>2. ws.filters # {} => ws.filters \subseteq FieldsOf[ws.dataset]
    BY DEF DockScopeSound
  <2> HIDE DEF sel
  <2>3. /\ [ws EXCEPT !.source = s, !.selected = sel] \in DockWorkspace
        /\ [ws EXCEPT !.source = s, !.selected = sel].source = s
        /\ [ws EXCEPT !.source = s, !.selected = sel].selected = sel
        /\ [ws EXCEPT !.source = s, !.selected = sel].filters = ws.filters
        /\ [ws EXCEPT !.source = s, !.selected = sel].dataset = ws.dataset
    BY <1>1 DEF DockScopeSound, DockWorkspace
  <2> QED
    BY <1>1, <1>2, <2>1, <2>2, <2>3
<1>3. CASE ~Compatible(s, ws.dataset)
  <2>1. SetSource(ws, s) = [NoFilters(ws) EXCEPT !.source = s, !.selected = sel]
    BY <1>3 DEF SetSource, NoFilters, DockScopeSound, DockWorkspace
  <2> HIDE DEF sel
  <2>2. /\ SetSource(ws, s) \in DockWorkspace
        /\ SetSource(ws, s).source = s
        /\ SetSource(ws, s).selected = sel
        /\ SetSource(ws, s).filters = {}
    BY <1>1, <2>1 DEF NoFilters, DockScopeSound, DockWorkspace
  <2> QED
    BY <1>1, <2>2
<1> QED
  BY <1>2, <1>3

LEMMA SetFiltersSound ==
  ASSUME DockScopeSound, NEW by \in Origins \cup {Nothing}, NEW d \in Datasets,
         NEW fs \in SUBSET FieldsOf[d], ws' = SetFilters(ws, fs, by, d)
  PROVE  DockScopeSound' /\ ws'.source = ws.source
<1>1. CASE Compatible(ws.source, d)
  <2>1. fs \in SUBSET Fields
    BY DEF Fields
  <2>2. ws' = [ws EXCEPT !.filters = fs, !.by = by, !.dataset = d]
    BY <1>1 DEF SetFilters
  <2>3. ws' \in DockWorkspace
    BY <2>1, <2>2 DEF DockScopeSound, DockWorkspace
  <2>4. /\ ws'.source = ws.source /\ ws'.selected = ws.selected
        /\ ws'.dataset = d /\ ws'.filters = fs
    BY <2>2 DEF DockScopeSound, DockWorkspace
  <2> QED
    BY <1>1, <2>3, <2>4 DEF DockScopeSound, Compatible
<1>2. CASE ~Compatible(ws.source, d)
  <2>1. ws' = NoFilters(ws)
    BY <1>2 DEF SetFilters
  <2> QED
    BY <2>1, NoFiltersSound
<1> QED
  BY <1>1, <1>2

-----------------------------------------------------------------------------
(* The effects of the dock: a dataset that is chosen while the dock follows *)
(* the source is one of it.                                                *)
LEMMA FollowSound ==
  ASSUME DockChoicesSound, known' \in DockLists, NEW d \in DockChoices,
         /\ d.binding = "follow" /\ dock.binding = "follow" /\ ws'.source = ws.source
         /\ d.dataset # Nothing
         => Compatible(ws.source, d.dataset),
         NEW renewed, Choose(d, renewed)
  PROVE  DockChoicesSound'
<1> DEFINE first == First(Follows)'
           next == Follow(d, ws'.source, first)
           resets == Resets(d, ws'.source, first)
<1>1. first \in Datasets \cup {Nothing} /\ (first # Nothing => Compatible(ws'.source, first))
  <2>1. (known \in DockLists =>
           /\ First(Follows) \in Datasets \cup {Nothing}
           /\ First(Follows) # Nothing => Compatible(ws.source, First(Follows)))'
    BY FollowsKnown, PTL
  <2> QED
    BY <2>1 DEF Compatible
<1>2. PICK b \in BOOLEAN : dock' = [next EXCEPT !.picked = b]
  <2> DEFINE selected == IF next.dataset \in known'.datasets THEN next.dataset ELSE first
             same == /\ ~renewed /\ ~resets
                     /\ next.sum = dock.sum /\ selected = Selected
             b0 == next.picked /\ same
  <2>1. dock' = [next EXCEPT !.picked = b0]
    BY DEF Choose
  <2>2. b0 \in BOOLEAN
    OBVIOUS
  <2> HIDE DEF b0
  <2> QED
    BY <2>1, <2>2
<1>3. next \in DockChoices
      /\ (next.binding = "follow" /\ next.dataset # Nothing => Compatible(ws'.source, next.dataset))
  <2> HIDE DEF first
  <2>1. CASE resets
    <3>1. next = [d EXCEPT !.chart = Nothing, !.dashboard = Nothing, !.dataset = first]
      BY <2>1 DEF Follow
    <3> HIDE DEF next
    <3>2. next \in DockChoices /\ next.dataset = first
      BY <1>1, <3>1 DEF DockChoices
    <3> QED
      BY <1>1, <3>2
  <2>2. CASE ~resets /\ d.dataset = Nothing
    <3>1. next = [d EXCEPT !.dataset = first]
      BY <2>2 DEF Follow
    <3> HIDE DEF next
    <3>2. next \in DockChoices /\ next.dataset = first
      BY <1>1, <3>1 DEF DockChoices
    <3> QED
      BY <1>1, <3>2
  <2>3. CASE ~resets /\ d.dataset # Nothing
    <3>1. next = d
      BY <2>3 DEF Follow
    <3>2. d.binding = "follow" => dock.binding = "follow" /\ ws'.source = ws.source
      BY <2>3 DEF Resets
    <3> HIDE DEF next
    <3> QED
      BY <3>1, <3>2
  <2> QED
    BY <2>1, <2>2, <2>3
<1> HIDE DEF next, first, resets
<1>4. /\ dock' \in DockChoices /\ dock'.binding = next.binding
      /\ dock'.dataset = next.dataset
  BY <1>2, <1>3 DEF DockChoices
<1> QED
  BY <1>3, <1>4 DEF DockChoicesSound, Compatible

(* A choice among what is known of the same source.                        *)
LEMMA ChosenSound ==
  ASSUME DockInv, NEW d \in DockChoices, Chosen(d),
         /\ d.binding = "follow" /\ dock.binding = "follow" /\ d.dataset # Nothing
         => Compatible(ws.source, d.dataset)
  PROVE  DockInv'
<1>1. /\ dockSteps < DockGestures /\ dockSteps' = dockSteps + 1
      /\ UNCHANGED <<ws, overlays, layers, known, stored, catalog, creating, saving>>
      /\ Choose(d, FALSE) /\ Rerender
  BY DEF Chosen, DockGesture, NoRequests
<1>2. DockScopeSound'
  BY <1>1 DEF DockInv, DockScopeSound, Compatible
<1>3. DockDrawnSound'
  BY <1>1 DEF DockInv, DockDrawnSound
<1>4. known' \in DockLists
  BY <1>1 DEF DockInv, DockChoicesSound
<1>5. DockChoicesSound'
  BY <1>1, <1>4, FollowSound DEF DockInv
<1>6. DockRequestsSound'
  BY <1>1, DockConstants DEF DockInv, DockRequestsSound
<1>7. DockShowsSound'
  BY <1>1, <1>2, <1>3, <1>5, RerenderSound DEF DockInv
<1> QED
  BY <1>2, <1>3, <1>5, <1>6, <1>7 DEF DockInv

(* A step of the shared scope that leaves the source.                      *)
LEMMA ScopeStep ==
  ASSUME DockInv, DockScopeSound', DockRequestsSound', ws'.source = ws.source,
         UNCHANGED <<overlays, layers, known>>, Rerender,
         dock' \in DockChoices, dock'.binding = dock.binding, dock'.dataset = dock.dataset
  PROVE  DockInv'
<1>1. DockDrawnSound'
  BY DEF DockInv, DockDrawnSound
<1>2. DockChoicesSound'
  BY DEF DockInv, DockChoicesSound, Compatible
<1>3. DockShowsSound'
  BY <1>1, <1>2, RerenderSound DEF DockInv
<1> QED
  BY <1>1, <1>2, <1>3 DEF DockInv

(* A step of the requests alone.                                           *)
LEMMA RequestStep ==
  ASSUME DockInv, DockRequestsSound', UNCHANGED <<ws, overlays, layers, dock, known, shows>>
  PROVE  DockInv'
<1>1. DockScopeSound' /\ DockDrawnSound'
  BY DEF DockInv, DockScopeSound, DockDrawnSound, Compatible
<1>2. DockChoicesSound'
  BY DEF DockInv, DockChoicesSound, Compatible
<1>3. DockShowsSound'
  BY WantedStays DEF DockInv, DockShowsSound
<1> QED
  BY <1>1, <1>2, <1>3 DEF DockInv

(* A step that ends with the effects of the dock.                          *)
LEMMA EffectStep ==
  ASSUME DockInv, DockScopeSound', DockRequestsSound', known' \in DockLists,
         UNCHANGED <<overlays, layers>>, Rerender,
         NEW d \in DockChoices, NEW renewed, Choose(d, renewed),
         /\ d.binding = "follow" /\ dock.binding = "follow" /\ ws'.source = ws.source
         /\ d.dataset # Nothing
         => Compatible(ws.source, d.dataset)
  PROVE  DockInv'
<1>1. DockDrawnSound'
  BY DEF DockInv, DockDrawnSound
<1>2. DockChoicesSound'
  BY FollowSound DEF DockInv
<1>3. DockShowsSound'
  BY <1>1, <1>2, RerenderSound DEF DockInv
<1> QED
  BY <1>1, <1>2, <1>3 DEF DockInv

(* A gesture leaves the requests.                                          *)
LEMMA GestureKeepsRequests ==
  ASSUME DockRequestsSound, DockGesture, NoRequests
  PROVE  DockRequestsSound'
  BY DockConstants DEF DockRequestsSound, DockGesture, NoRequests

LEMMA IdleKeepsRequests ==
  ASSUME DockRequestsSound, DockIdle, NoRequests
  PROVE  DockRequestsSound'
  BY DEF DockRequestsSound, DockIdle, NoRequests

(* The own choices of the dock fit.                                        *)
LEMMA DockItselfFits ==
  ASSUME DockInv
  PROVE  /\ dock \in DockChoices /\ known \in DockLists /\ ws \in DockWorkspace
         /\ dock.binding = "follow" /\ dock.dataset # Nothing =>
              Compatible(ws.source, dock.dataset)
  BY DEF DockInv, DockChoicesSound, DockScopeSound

LEMMA SourceSteps ==
  ASSUME DockInv, AnalyzeSource \/ SelectRows
  PROVE  DockInv'
<1>1. /\ UNCHANGED <<overlays, layers, known>> /\ NoRequests /\ DockGesture
      /\ Choose(dock, FALSE) /\ Rerender
  BY DEF AnalyzeSource, SelectRows
<1>2. DockRequestsSound'
  BY <1>1, GestureKeepsRequests DEF DockInv
<1>3. DockScopeSound'
  <2>1. CASE \E s \in Sources : ws' = SetSource(ws, s)
    <3>1. PICK s \in Sources : ws' = SetSource(ws, s)
      BY <2>1
    <3> QED
      BY <3>1, SetSourceSound DEF DockInv, DockScopeSound, Compatible
  <2>2. CASE ws' = [ws EXCEPT !.selected = Nothing]
    BY <2>2 DEF DockInv, DockScopeSound, DockWorkspace, Compatible
  <2>3. CASE \E s \in Sources : ws' = [SetSource(ws, s) EXCEPT !.selected = s]
    <3>1. PICK s \in Sources : ws' = [SetSource(ws, s) EXCEPT !.selected = s]
      BY <2>3
    <3> DEFINE v == SetSource(ws, s)
    <3>2. /\ v \in DockWorkspace /\ v.source = s
          /\ v.filters # {} => Compatible(s, v.dataset) /\ v.filters \subseteq FieldsOf[v.dataset]
      BY SetSourceSound DEF DockInv
    <3> HIDE DEF v
    <3>3. /\ ws' \in DockWorkspace /\ ws'.source = s /\ ws'.selected = s
          /\ ws'.filters = v.filters /\ ws'.dataset = v.dataset
      BY <3>1, <3>2 DEF DockWorkspace, v
    <3> QED
      BY <3>2, <3>3 DEF DockScopeSound, Compatible
  <2>4. (\E s \in Sources : ws' = SetSource(ws, s)) \/ SelectRows
    BY DEF AnalyzeSource
  <2> QED
    BY <2>1, <2>2, <2>3, <2>4 DEF SelectRows
<1>4. known' \in DockLists
  BY <1>1, DockItselfFits
<1> QED
  BY <1>1, <1>2, <1>3, <1>4, DockItselfFits, EffectStep

LEMMA PickSteps ==
  ASSUME DockInv, PickInPreview \/ PickOnMap \/ PickInDashboard \/ ClearFilters
  PROVE  DockInv'
<1>1. UNCHANGED <<overlays, layers, known>> /\ NoRequests /\ DockGesture /\ Rerender
  BY DEF PickInPreview, PickOnMap, PickInDashboard, ClearFilters
<1>2. DockRequestsSound'
  BY <1>1, GestureKeepsRequests DEF DockInv
<1>3. DockScopeSound' /\ ws'.source = ws.source
  <2>1. CASE PickInPreview
    <3>0. PICK f \in FieldsOf[Active.dataset] :
            \E fs \in {{f}, {}} : ws' = SetFilters(ws, fs, Active, Active.dataset)
      BY <2>1 DEF PickInPreview
    <3>1. PICK fs \in {{f}, {}} : ws' = SetFilters(ws, fs, Active, Active.dataset)
      BY <3>0
    <3>2. Active \in Chart
      BY <2>1, ActiveType DEF PickInPreview, MayShare, Bound, Rendered, DockInv
    <3>3. Active.dataset \in Datasets
      BY <3>2 DEF Chart
    <3> DEFINE d0 == Active.dataset
               c0 == Active
    <3>4. c0 \in Origins \cup {Nothing} /\ fs \in SUBSET FieldsOf[d0] /\ DockScopeSound
      BY <3>2 DEF Origins, DockInv
    <3>5. d0 \in Datasets /\ ws' = SetFilters(ws, fs, c0, d0)
      BY <3>1, <3>3
    <3> HIDE DEF d0, c0
    <3> QED
      BY <3>4, <3>5, SetFiltersSound
  <2>2. CASE PickOnMap
    <3>1. PICK k \in LayerIds \X MapCharts :
            \E f \in FieldsOf[k[2].dataset] : ws' = SetFilters(ws, {f}, k[1], k[2].dataset)
      BY <2>2 DEF PickOnMap
    <3> DEFINE d0 == k[2].dataset
               l == k[1]
    <3>2. d0 \in Datasets /\ l \in Origins \cup {Nothing}
      BY DockCharts DEF Chart, Origins
    <3>3. PICK f \in FieldsOf[d0] : ws' = SetFilters(ws, {f}, l, d0)
      BY <3>1
    <3> DEFINE fs == {f}
    <3>4. fs \in SUBSET FieldsOf[d0] /\ DockScopeSound
      BY <3>3 DEF DockInv
    <3>5. ws' = SetFilters(ws, fs, l, d0)
      BY <3>3
    <3> HIDE DEF d0, fs, l
    <3> QED
      BY <3>2, <3>4, <3>5, SetFiltersSound
  <2>3. CASE PickInDashboard
    <3>1. PICK d \in known.datasets, f \in Fields :
            /\ f \in FieldsOf[d] /\ Follows # {}
            /\ d = First(Follows) \/ Rebinds({f}, d, First(Follows))
            /\ ws' = SetFilters(ws, {f}, dock.dashboard, First(Follows))
      BY <2>3 DEF PickInDashboard
    <3> DEFINE d0 == First(Follows)
               fs == {f}
               b == dock.dashboard
    <3>2. d0 \in Datasets
      BY <3>1, DockItselfFits, FollowsKnown DEF First
    <3>3. fs \in SUBSET FieldsOf[d0]
      BY <3>1 DEF Rebinds
    <3>4. b \in Origins \cup {Nothing}
      BY DockItselfFits DEF DockChoices, Origins
    <3>5. DockScopeSound /\ ws' = SetFilters(ws, fs, b, d0)
      BY <3>1 DEF DockInv
    <3> HIDE DEF d0, fs, b
    <3> QED
      BY <3>2, <3>3, <3>4, <3>5, SetFiltersSound
  <2>4. CASE ClearFilters
    BY <2>4, NoFiltersSound DEF ClearFilters, DockInv
  <2> QED
    BY <2>1, <2>2, <2>3, <2>4
<1>4. /\ dock' \in DockChoices /\ dock'.binding = dock.binding
      /\ dock'.dataset = dock.dataset
  <2>1. CASE PickInPreview
    <3>1. PICK b \in BOOLEAN : dock' = [dock EXCEPT !.picked = b]
      <4> DEFINE b0 == dock.picked \/ Active.kind \in Quick
      <4>1. dock' = [dock EXCEPT !.picked = b0] /\ b0 \in BOOLEAN
        BY <2>1 DEF PickInPreview
      <4> HIDE DEF b0
      <4> QED
        BY <4>1
    <3> QED
      BY <3>1, DockItselfFits DEF DockChoices
  <2>2. CASE UNCHANGED dock
    BY <2>2, DockItselfFits
  <2> QED
    BY <2>1, <2>2 DEF PickOnMap, PickInDashboard, ClearFilters
<1> QED
  BY <1>1, <1>2, <1>3, <1>4, ScopeStep

LEMMA ViewportSteps ==
  ASSUME DockInv, MoveMap \/ RefreshDock
  PROVE  DockInv'
<1>1. CASE MoveMap
  <2>1. DockScopeSound' /\ ws'.source = ws.source
    BY <1>1 DEF MoveMap, DockInv, DockScopeSound, DockWorkspace, Compatible
  <2>2. DockRequestsSound'
    BY <1>1, GestureKeepsRequests DEF MoveMap, DockInv
  <2> QED
    BY <1>1, <2>1, <2>2, DockItselfFits, ScopeStep DEF MoveMap
<1>2. CASE RefreshDock
  <2>1. DockScopeSound' /\ ws'.source = ws.source
    BY <1>2 DEF RefreshDock, DockInv, DockScopeSound, DockWorkspace, Compatible
  <2>2. catalog' \in [unread: SUBSET {"datasets", "charts"}, answer: DockLists]
    BY <1>2 DEF RefreshDock, DockLists
  <2>3. DockRequestsSound'
    BY <1>2, <2>2, DockConstants DEF RefreshDock, DockGesture, DockInv, DockRequestsSound
  <2> QED
    BY <1>2, <2>1, <2>3, DockItselfFits, ScopeStep DEF RefreshDock
<1> QED
  BY <1>1, <1>2

LEMMA ChoiceSteps ==
  ASSUME DockInv,
         \/ ChooseDataset \/ ChooseChart \/ ChooseDashboard \/ ChooseAggregate
         \/ ChooseBinding \/ ChooseScope
  PROVE  DockInv'
<1>1. CASE ChooseDataset
  <2>1. PICK d \in Follows : Chosen([dock EXCEPT !.dataset = d])
    BY <1>1 DEF ChooseDataset
  <2>2. d \in Datasets /\ Compatible(ws.source, d)
    BY DockItselfFits, FollowsKnown DEF Follows
  <2>3. /\ [dock EXCEPT !.dataset = d] \in DockChoices
        /\ [dock EXCEPT !.dataset = d].dataset = d
    BY <2>2, DockItselfFits DEF DockChoices
  <2> QED
    BY <2>1, <2>2, <2>3, ChosenSound
<1>2. CASE ChooseChart
  <2>1. PICK c \in known.charts \cup {Nothing} :
          Chosen([dock EXCEPT !.chart = c, !.dashboard = IF c = Nothing THEN @ ELSE Nothing])
    BY <1>2 DEF ChooseChart
  <2> DEFINE d == [dock EXCEPT !.chart = c, !.dashboard = IF c = Nothing THEN @ ELSE Nothing]
  <2>2. d \in DockChoices /\ d.dataset = dock.dataset /\ d.binding = dock.binding
    BY DockItselfFits DEF DockChoices, DockLists
  <2> HIDE DEF d
  <2> QED
    BY <2>1, <2>2, DockItselfFits, ChosenSound DEF d
<1>3. CASE ChooseDashboard
  <2>1. PICK b \in Dashboards \cup {Nothing} :
          Chosen([dock EXCEPT !.dashboard = b, !.chart = IF b = Nothing THEN @ ELSE Nothing])
    BY <1>3 DEF ChooseDashboard
  <2> DEFINE d == [dock EXCEPT !.dashboard = b, !.chart = IF b = Nothing THEN @ ELSE Nothing]
  <2>2. d \in DockChoices /\ d.dataset = dock.dataset /\ d.binding = dock.binding
    BY DockItselfFits DEF DockChoices
  <2> HIDE DEF d
  <2> QED
    BY <2>1, <2>2, DockItselfFits, ChosenSound DEF d
<1>4. CASE ChooseAggregate
  <2>1. Chosen([dock EXCEPT !.sum = ~@])
    BY <1>4 DEF ChooseAggregate
  <2>2. /\ [dock EXCEPT !.sum = ~@] \in DockChoices
        /\ [dock EXCEPT !.sum = ~@].dataset = dock.dataset
        /\ [dock EXCEPT !.sum = ~@].binding = dock.binding
    BY DockItselfFits DEF DockChoices
  <2> QED
    BY <2>1, <2>2, DockItselfFits, ChosenSound
<1>5. CASE ChooseBinding
  <2>1. PICK b \in {"follow", "pinned", "reference"} \ {dock.binding} :
          Chosen([dock EXCEPT !.binding = b])
    BY <1>5 DEF ChooseBinding
  <2>2. [dock EXCEPT !.binding = b] \in DockChoices /\ [dock EXCEPT !.binding = b].binding = b
    BY DockItselfFits DEF DockChoices
  <2>3. ~([dock EXCEPT !.binding = b].binding = "follow" /\ dock.binding = "follow")
    BY <2>2
  <2> QED
    BY <2>1, <2>2, <2>3, ChosenSound
<1>6. CASE ChooseScope
  <2>1. PICK sc \in ScopesOffered : Chosen([dock EXCEPT !.scope = sc])
    BY <1>6 DEF ChooseScope
  <2>2. sc \in {"all", "filtered", "selected", "extent"}
    BY DEF ScopesOffered
  <2>3. /\ [dock EXCEPT !.scope = sc] \in DockChoices
        /\ [dock EXCEPT !.scope = sc].dataset = dock.dataset
        /\ [dock EXCEPT !.scope = sc].binding = dock.binding
    BY <2>2, DockItselfFits DEF DockChoices
  <2> QED
    BY <2>1, <2>3, DockItselfFits, ChosenSound
<1> QED
  BY <1>1, <1>2, <1>3, <1>4, <1>5, <1>6

LEMMA MapSteps ==
  ASSUME DockInv,
         AddOverlay \/ RemoveOverlay \/ AddLayer \/ RemoveLayer \/ ToggleLayer
  PROVE  DockInv'
<1>1. OnMapGesture
  BY DEF AddOverlay, RemoveOverlay, AddLayer, RemoveLayer, ToggleLayer
<1>2. UNCHANGED <<ws, dock, known>> /\ NoRequests /\ DockGesture /\ Rerender
  BY <1>1 DEF OnMapGesture
<1>3. DockRequestsSound'
  BY <1>2, GestureKeepsRequests DEF DockInv
<1>4. DockScopeSound' /\ DockChoicesSound'
  BY <1>2 DEF DockInv, DockScopeSound, DockChoicesSound, Compatible
<1>5. DockDrawnSound'
  <2>1. Active # Nothing => Active \in Chart
    BY ActiveType DEF DockInv
  <2>2. Reference \in BOOLEAN
    BY DEF Reference
  <2>3. CASE AddOverlay
    <3>1. Active # Nothing /\ UNCHANGED layers
      BY <2>3 DEF AddOverlay, MayAdd, Rendered
    <3>2. PICK o \in OverlayIds :
            overlays' = [overlays EXCEPT ![o] = [chart |-> Active, reference |-> Reference]]
      BY <2>3 DEF AddOverlay
    <3>3. [chart |-> Active, reference |-> Reference] \in [chart: Chart, reference: BOOLEAN]
      BY <2>1, <2>2, <3>1
    <3> QED
      BY <3>1, <3>2, <3>3 DEF DockInv, DockDrawnSound
  <2>4. CASE RemoveOverlay
    BY <2>4 DEF RemoveOverlay, DockInv, DockDrawnSound
  <2>5. CASE AddLayer
    <3>1. Active # Nothing /\ UNCHANGED overlays
      BY <2>5 DEF AddLayer, MayAddLayer, MayAdd, Rendered
    <3>2. PICK l \in LayerIds :
            layers' = [layers EXCEPT ![l] = [chart |-> Active, reference |-> Reference,
                                              visible |-> TRUE]]
      BY <2>5 DEF AddLayer
    <3>3. [chart |-> Active, reference |-> Reference, visible |-> TRUE]
            \in [chart: Chart, reference: BOOLEAN, visible: BOOLEAN]
      BY <2>1, <2>2, <3>1
    <3> QED
      BY <3>1, <3>2, <3>3 DEF DockInv, DockDrawnSound
  <2>6. CASE RemoveLayer
    BY <2>6 DEF RemoveLayer, DockInv, DockDrawnSound
  <2>7. CASE ToggleLayer
    <3>1. PICK l \in LayerIds : layers[l] # Nothing /\ layers' = [layers EXCEPT ![l].visible = ~@]
      BY <2>7 DEF ToggleLayer, Listed
    <3>2. [layers[l] EXCEPT !.visible = ~@] \in [chart: Chart, reference: BOOLEAN, visible: BOOLEAN]
      BY <3>1 DEF DockInv, DockDrawnSound
    <3>3. layers' = [layers EXCEPT ![l] = [layers[l] EXCEPT !.visible = ~@]]
      BY <3>1
    <3>4. UNCHANGED overlays
      BY <2>7 DEF ToggleLayer
    <3> QED
      BY <3>2, <3>3, <3>4 DEF DockInv, DockDrawnSound
  <2> QED
    BY <2>3, <2>4, <2>5, <2>6, <2>7
<1>6. DockShowsSound'
  BY <1>2, <1>4, <1>5, RerenderSound DEF DockInv
<1> QED
  BY <1>3, <1>4, <1>5, <1>6 DEF DockInv

LEMMA ServedSteps ==
  ASSUME DockInv,
         \/ ReadCatalog \/ CreateDataset \/ DatasetSaved \/ SaveQuickChart \/ ChartSaved
         \/ RequestFailed
  PROVE  DockInv'
<1>1. UNCHANGED <<ws, overlays, layers, dock, known, shows>>
  BY DEF ReadCatalog, CreateDataset, DatasetSaved, SaveQuickChart, ChartSaved, RequestFailed
<1> USE DockConstants DEF DockInv, DockRequestsSound, DockIdle, DockGesture
<1>2. CASE ReadCatalog
  <2>1. PICK list \in catalog.unread :
          catalog' = [unread |-> catalog.unread \ {list},
                      answer |-> IF list = "charts"
                                 THEN [catalog.answer EXCEPT !.charts = stored.charts]
                                 ELSE [catalog.answer EXCEPT !.datasets = stored.datasets,
                                                             !.metrics = stored.metrics]]
    BY <1>2 DEF ReadCatalog
  <2>2. /\ catalog.answer \in DockLists /\ stored \in DockLists
        /\ catalog.unread \in SUBSET {"datasets", "charts"}
    BY <1>2 DEF ReadCatalog
  <2>3. /\ [catalog.answer EXCEPT !.charts = stored.charts] \in DockLists
        /\ [catalog.answer EXCEPT !.datasets = stored.datasets,
                                  !.metrics = stored.metrics] \in DockLists
    BY <2>2 DEF DockLists
  <2>4. catalog' \in [unread: SUBSET {"datasets", "charts"}, answer: DockLists]
    BY <2>1, <2>2, <2>3
  <2>5. UNCHANGED <<stored, creating, saving, dockSteps>>
    BY <1>2 DEF ReadCatalog
  <2>6. DockRequestsSound'
    BY <2>4, <2>5
  <2> QED
    BY <1>1, <2>6, RequestStep
<1>3. CASE CreateDataset
  <2>1. ws.source \in Sources
    BY <1>3 DEF CreateDataset, MayCreate, DockScopeSound, DockWorkspace
  <2>2. creating' \in [source: Sources, dataset: Datasets \cup {Nothing}]
        /\ creating'.dataset = Nothing
    BY <1>3, <2>1 DEF CreateDataset
  <2>3. DockRequestsSound'
    BY <1>3, <2>2 DEF CreateDataset
  <2> QED
    BY <1>1, <2>3, RequestStep
<1>4. CASE DatasetSaved
  <2>1. PICK d \in Datasets \ stored.datasets :
          /\ SourceOf[d] = creating.source
          /\ stored' = [stored EXCEPT !.datasets = @ \cup {d}]
          /\ creating' = [creating EXCEPT !.dataset = d]
    BY <1>4 DEF DatasetSaved
  <2>2. creating \in [source: Sources, dataset: Datasets \cup {Nothing}]
    BY <1>4 DEF DatasetSaved
  <2>3. /\ creating' \in [source: Sources, dataset: Datasets \cup {Nothing}]
        /\ creating'.dataset = d /\ creating'.source = creating.source
    BY <2>1, <2>2
  <2>4. stored' \in DockLists
    BY <2>1 DEF DockLists
  <2>5. DockRequestsSound'
    BY <1>4, <2>1, <2>3, <2>4 DEF DatasetSaved
  <2> QED
    BY <1>1, <2>5, RequestStep
<1>5. CASE SaveQuickChart
  <2>1. Selected \in Datasets
    BY <1>5, ActiveType DEF SaveQuickChart, QuickForm
  <2>2. saving' \in [dataset: Datasets, stage: {"metric", "chart", "done"}]
    BY <1>5, <2>1 DEF SaveQuickChart
  <2>3. DockRequestsSound'
    BY <1>5, <2>2 DEF SaveQuickChart
  <2> QED
    BY <1>1, <2>3, RequestStep
<1>6. CASE ChartSaved
  <2>1. saving \in [dataset: Datasets, stage: {"metric", "chart", "done"}]
    BY <1>6 DEF ChartSaved
  <2>2. saving' \in [dataset: Datasets, stage: {"metric", "chart", "done"}]
    BY <1>6, <2>1 DEF ChartSaved
  <2>3. [dataset |-> saving.dataset, kind |-> "saved"] \in Chart
    BY <2>1 DEF Chart
  <2>4. stored' \in DockLists
    BY <1>6, <2>3 DEF ChartSaved, DockLists
  <2>5. DockRequestsSound'
    BY <1>6, <2>2, <2>4 DEF ChartSaved
  <2> QED
    BY <1>1, <2>5, RequestStep
<1>7. CASE RequestFailed
  <2>1. DockRequestsSound'
    BY <1>7 DEF RequestFailed
  <2> QED
    BY <1>1, <2>1, RequestStep
<1> QED
  BY <1>2, <1>3, <1>4, <1>5, <1>6, <1>7

LEMMA AnsweredSteps ==
  ASSUME DockInv,
         CatalogAnswered \/ DatasetAnswered \/ MetricSaved \/ ChartAnswered
  PROVE  DockInv'
<1>1. UNCHANGED <<ws, overlays, layers>> /\ DockIdle
  BY DEF CatalogAnswered, DatasetAnswered, MetricSaved, ChartAnswered
<1>2. DockScopeSound'
  BY <1>1 DEF DockInv, DockScopeSound, Compatible
<1>3. CASE CatalogAnswered
  <2>1. known' \in DockLists
    BY <1>3 DEF CatalogAnswered, DockInv, DockRequestsSound
  <2>2. DockRequestsSound'
    BY <1>1, <1>3 DEF CatalogAnswered, DockInv, DockRequestsSound, DockIdle
  <2> QED
    BY <1>1, <1>2, <1>3, <2>1, <2>2, DockItselfFits, EffectStep DEF CatalogAnswered
<1>4. CASE DatasetAnswered
  <2>1. DockRequestsSound'
    BY <1>1, <1>4 DEF DatasetAnswered, DockInv, DockRequestsSound, DockIdle
  <2>2. creating.source \in Sources /\ creating.dataset \in Datasets
        /\ SourceOf[creating.dataset] = creating.source
    BY <1>4 DEF DatasetAnswered, DockInv, DockRequestsSound
  <2>3. CASE ws.source = creating.source
    <3>1. known' \in DockLists
      BY <1>4, <2>2, <2>3, DockItselfFits DEF DatasetAnswered, DockLists
    <3> DEFINE d == [dock EXCEPT !.dataset = creating.dataset]
    <3>2. d \in DockChoices /\ d.dataset = creating.dataset
      BY <2>2, DockItselfFits DEF DockChoices
    <3>3. Choose(d, TRUE) /\ Rerender
      BY <1>4, <2>3 DEF DatasetAnswered
    <3>4. Compatible(ws.source, creating.dataset)
      BY <2>2, <2>3, DockConstants DEF Compatible
    <3> HIDE DEF d
    <3> QED
      BY <1>1, <1>2, <2>1, <3>1, <3>2, <3>3, <3>4, EffectStep
  <2>4. CASE ws.source # creating.source
    BY <1>1, <1>4, <2>1, <2>4, RequestStep DEF DatasetAnswered
  <2> QED
    BY <2>3, <2>4
<1>5. CASE MetricSaved
  <2>1. saving \in [dataset: Datasets, stage: {"metric", "chart", "done"}]
    BY <1>5 DEF MetricSaved, DockInv, DockRequestsSound
  <2>2. saving' \in [dataset: Datasets, stage: {"metric", "chart", "done"}]
    BY <1>5, <2>1 DEF MetricSaved
  <2>3. stored' \in DockLists /\ known' \in DockLists
    BY <1>5, <2>1, DockItselfFits DEF MetricSaved, DockLists, DockInv, DockRequestsSound
  <2>4. DockRequestsSound'
    BY <1>1, <1>5, <2>2, <2>3 DEF MetricSaved, DockInv, DockRequestsSound, DockIdle
  <2>5. DockChoicesSound'
    <3> DEFINE b == dock.picked /\ saving.dataset # Selected
    <3>1. dock' = [dock EXCEPT !.picked = b] /\ b \in BOOLEAN
      BY <1>5 DEF MetricSaved
    <3> HIDE DEF b
    <3>2. /\ dock' \in DockChoices /\ dock'.binding = dock.binding
          /\ dock'.dataset = dock.dataset
      BY <3>1, DockItselfFits DEF DockChoices
    <3> QED
      BY <1>1, <2>3, <3>2, DockItselfFits DEF DockChoicesSound, Compatible
  <2>6. DockDrawnSound'
    BY <1>1 DEF DockInv, DockDrawnSound
  <2>7. DockShowsSound'
    BY <1>2, <1>5, <2>5, <2>6, RerenderSound DEF MetricSaved, DockInv
  <2> QED
    BY <1>2, <2>4, <2>5, <2>6, <2>7 DEF DockInv
<1>6. CASE ChartAnswered
  <2> DEFINE c == [dataset |-> saving.dataset, kind |-> "saved"]
             d == [dock EXCEPT !.chart = c]
  <2>1. c \in Chart
    BY <1>6 DEF ChartAnswered, DockInv, DockRequestsSound, Chart
  <2>2. known' = [known EXCEPT !.charts = @ \cup {c}] /\ Choose(d, FALSE) /\ Rerender
    BY <1>6 DEF ChartAnswered
  <2> HIDE DEF c
  <2>3. known' \in DockLists
    BY <2>1, <2>2, DockItselfFits DEF DockLists
  <2>4. d \in DockChoices /\ d.dataset = dock.dataset /\ d.binding = dock.binding
    BY <2>1, DockItselfFits DEF DockChoices
  <2>5. DockRequestsSound'
    BY <1>1, <1>6 DEF ChartAnswered, DockInv, DockRequestsSound, DockIdle
  <2> HIDE DEF d
  <2> QED
    BY <1>1, <1>2, <2>2, <2>3, <2>4, <2>5, DockItselfFits, EffectStep
<1> QED
  BY <1>3, <1>4, <1>5, <1>6

(* An answer to the request that is not aborted is an answer to what is    *)
(* asked, and the late one is dropped.                                     *)
LEMMA QuerySteps ==
  ASSUME DockInv, QueryAnswered \/ LateAnswer
  PROVE  DockInv'
<1>1. UNCHANGED <<ws, overlays, layers, dock, known>> /\ DockIdle /\ NoRequests
  BY DEF QueryAnswered, LateAnswer
<1>2. DockRequestsSound' /\ DockScopeSound' /\ DockDrawnSound' /\ DockChoicesSound'
  BY <1>1, IdleKeepsRequests
     DEF DockInv, DockScopeSound, DockDrawnSound, DockChoicesSound, Compatible
<1>3. PICK k \in Askers :
        \/ /\ shows[k].live
           /\ shows' = [shows EXCEPT ![k].live = FALSE, ![k].result = shows[k].wants]
        \/ shows' = [shows EXCEPT ![k].live = FALSE, ![k].failed = TRUE]
        \/ shows' = [shows EXCEPT ![k].late = Nothing]
  BY DEF QueryAnswered, LateAnswer
<1> DEFINE Like(q, old) == /\ q \in Query /\ q.wants = old.wants
                           /\ q.result # Nothing =>
                                q.result = q.wants /\ q.wants.kind \in {"ask", "empty"}
                           /\ q.live => q.wants.kind = "ask"
<1>4. \A j \in Askers : Like(shows[j], shows[j])
  BY DEF DockInv, DockShowsSound
<1>5. Like(shows'[k], shows[k])
  <2>1. shows \in [Askers -> Query] /\ shows[k] \in Query
    BY DEF DockInv, DockShowsSound
  <2>2. \/ /\ shows[k].live
           /\ shows'[k] = [shows[k] EXCEPT !.live = FALSE, !.result = shows[k].wants]
        \/ shows'[k] = [shows[k] EXCEPT !.live = FALSE, !.failed = TRUE]
        \/ shows'[k] = [shows[k] EXCEPT !.late = Nothing]
    BY <1>3, <2>1
  <2> QED
    BY <1>4, <2>1, <2>2 DEF Query
<1>6. \A j \in Askers \ {k} : shows'[j] = shows[j]
  BY <1>3 DEF DockInv, DockShowsSound
<1>7. shows' \in [Askers -> Query]
  BY <1>3, <1>5 DEF DockInv, DockShowsSound
<1>8. \A j \in Askers : Like(shows'[j], shows[j])
  BY <1>4, <1>5, <1>6
<1>9. \A j \in Askers : Wanted(j)' = Wanted(j)
  BY <1>1, WantedStays
<1>10. DockShowsSound'
  BY <1>7, <1>8, <1>9 DEF DockInv, DockShowsSound
<1> QED
  BY <1>2, <1>10 DEF DockInv

LEMMA ReloadStep ==
  ASSUME DockInv, ReloadPage
  PROVE  DockInv'
<1>1. /\ ws' = [NoFilters(ws) EXCEPT !.source = Nothing, !.selected = Nothing,
                                     !.viewport = FALSE, !.version = 0]
      /\ dock' = [dataset |-> Nothing, chart |-> Nothing, dashboard |-> Nothing, sum |-> FALSE,
                  picked |-> FALSE, scope |-> "filtered", binding |-> "follow"]
      /\ known' = [datasets |-> {}, charts |-> {}, metrics |-> {}]
      /\ catalog' = [unread |-> {"datasets", "charts"}, answer |-> known']
      /\ creating' = Nothing /\ saving' = Nothing
      /\ UNCHANGED <<overlays, layers, stored>>
      /\ shows' = [k \in Askers |-> Settle(Idle, Wanted(k)')]
      /\ DockGesture
  BY DEF ReloadPage
<1>2. NoFilters(ws) \in DockWorkspace /\ NoFilters(ws).filters = {}
  BY DEF NoFilters, DockWorkspace, DockInv, DockScopeSound
<1>3. DockScopeSound'
  BY <1>1, <1>2 DEF DockScopeSound, DockWorkspace
<1>4. DockDrawnSound'
  BY <1>1 DEF DockInv, DockDrawnSound
<1>5. DockChoicesSound'
  BY <1>1 DEF DockChoicesSound, DockChoices, DockLists
<1>6. DockRequestsSound'
  <2>1. known' \in DockLists
    BY <1>1 DEF DockLists
  <2> QED
    BY <1>1, <2>1, DockConstants DEF DockInv, DockRequestsSound, DockGesture
<1>7. Idle \in Query /\ Idle.result = Nothing /\ ~Idle.live
  BY DEF Idle, Query, Unasked, Question
<1>8. ASSUME NEW k \in Askers PROVE Wanted(k)' \in Question
  <2>1. (DockScopeSound /\ DockDrawnSound /\ DockChoicesSound => Wanted(k) \in Question)'
    BY WantedType, PTL
  <2> QED
    BY <1>3, <1>4, <1>5, <2>1
<1>9. DockShowsSound'
  BY <1>1, <1>7, <1>8, SettleSound DEF DockShowsSound
<1> QED
  BY <1>3, <1>4, <1>5, <1>6, <1>9 DEF DockInv

LEMMA DockStarts ==
  ASSUME DockInit
  PROVE  DockInv
<1>1. DockScopeSound
  BY DEF DockInit, DockScopeSound, DockWorkspace
<1>2. DockDrawnSound
  BY DEF DockInit, DockDrawnSound
<1>3. DockChoicesSound
  BY DEF DockInit, DockChoicesSound, DockChoices, DockLists
<1>4. DockRequestsSound
  BY DockConstants, DockCharts DEF DockInit, DockRequestsSound, DockLists
<1>5. ASSUME NEW k \in Askers PROVE Wanted(k) = Unasked
  <2>1. Follows = {} /\ First(Follows) = Nothing
    BY DEF DockInit, Follows, First
  <2>2. Active = Nothing
    BY <2>1 DEF DockInit, Active, Selected
  <2>3. WantedPreview = Unasked
    BY <2>2 DEF WantedPreview, Rendered
  <2>4. k \in OverlayIds => overlays[k] = Nothing
    BY DEF DockInit
  <2>5. k # Preview /\ k \notin OverlayIds => layers[k[1]] = Nothing
    BY DEF DockInit, Askers
  <2> QED
    BY <2>3, <2>4, <2>5 DEF Wanted, WantedOverlay, WantedLayer
<1>6. Idle \in Query /\ Idle.result = Nothing /\ Idle.wants = Unasked /\ ~Idle.live
  BY DEF Idle, Query, Unasked, Question
<1>7. DockShowsSound
  BY <1>5, <1>6 DEF DockInit, DockShowsSound
<1> QED
  BY <1>1, <1>2, <1>3, <1>4, <1>7 DEF DockInv

LEMMA DockStays ==
  ASSUME DockInv, DockNext
  PROVE  DockInv'
  BY SourceSteps, PickSteps, ViewportSteps, ChoiceSteps, MapSteps, ServedSteps, AnsweredSteps,
     QuerySteps, ReloadStep DEF DockNext

-----------------------------------------------------------------------------
(***************************************************************************)
(* The viewer of a published dashboard (ViewInv).                          *)
(*                                                                         *)
(* Every chart and every list of choices asks what the filters in force    *)
(* make of its question, and shows the answer to that unless its load runs *)
(* or failed.                                                              *)
(***************************************************************************)
(* A load shows the answer to its question unless it runs or failed.       *)
IsLoad(l) ==
  /\ l = [wants |-> l.wants, shown |-> l.shown, live |-> l.live, failed |-> l.failed,
          late |-> l.late]
  /\ l.live \in BOOLEAN /\ l.failed \in BOOLEAN
Answers(l) == IsLoad(l) /\ (~l.live /\ ~l.failed => l.shown = l.wants)

LEMMA NoLoadAnswers == Answers(NoLoad)
  BY DEF Answers, IsLoad, NoLoad

LEMMA AskForAnswers ==
  ASSUME NEW l, NEW question, IsLoad(l)
  PROVE  /\ IsLoad(AskFor(l, question))
         /\ AskFor(l, question).wants = question
         /\ Answers(l) => Answers(AskFor(l, question))
<1>1. CASE question = l.wants
  BY <1>1 DEF AskFor
<1>2. CASE question # l.wants
  <2> DEFINE r == [wants |-> question,
                   shown |-> IF question = Nothing THEN Nothing ELSE l.shown,
                   live |-> question # Nothing, failed |-> FALSE,
                   late |-> IF l.live THEN l.wants ELSE l.late]
  <2>1. AskFor(l, question) = r
    BY <1>2 DEF AskFor
  <2>2. IsLoad(r) /\ r.wants = question /\ (~r.live => r.shown = question)
    BY DEF IsLoad
  <2> QED
    BY <2>1, <2>2 DEF Answers
<1> QED
  BY <1>1, <1>2

LEMMA ReplyAnswers ==
  ASSUME NEW l, IsLoad(l), NEW m \in {Take(l), Fail(l), Drop(l)}
  PROVE  IsLoad(m) /\ m.wants = l.wants /\ (Answers(l) => Answers(m))
<1>1. \/ m = [l EXCEPT !.live = FALSE, !.shown = l.wants]
      \/ m = [l EXCEPT !.live = FALSE, !.failed = TRUE]
      \/ m = [l EXCEPT !.late = Nothing]
  BY DEF Take, Fail, Drop
<1> QED
  BY <1>1 DEF IsLoad, Answers

-----------------------------------------------------------------------------
(* The viewer: every request on screen is for what the filters in force    *)
(* make of it, and what is counted stays within the gestures.              *)
ViewPage == [shared: BOOLEAN, state: {"loading", "there", "failed"}]
ViewForm == [field: ViewFields \cup {Nothing}, value: BOOLEAN, scope: SUBSET Widgets, due: BOOLEAN]
ViewCounts == [all: 0..viewSteps, chart: [Widgets -> 0..viewSteps]]
ViewChartsSound ==
  /\ charts = [w \in Widgets |-> charts[w]]
  /\ \A w \in Widgets : Answers(charts[w])
  /\ page.state = "there" => \A w \in Widgets : charts[w].wants = Asked(w, filters, refresh)
ViewControlsSound ==
  /\ choices = [c \in Controls \cup {Nothing} |-> choices[c]]
  /\ \A c \in Controls : Answers(choices[c])
  /\ IsLoad(choices[Nothing]) /\ (~form.due => Answers(choices[Nothing]))
  /\ page.state = "there" /\ ~page.shared =>
       /\ \A c \in Controls : choices[c].wants = ControlContext(c, filters)
       /\ choices[Nothing].wants = FormContext(form.field, filters)
ViewInv ==
  /\ page \in ViewPage /\ (page.state # "there" => page.shared)
  /\ filters \in SUBSET ViewFilter /\ form \in ViewForm
  /\ refresh \in ViewCounts /\ viewSteps \in 0..ViewGestures
  /\ ViewChartsSound /\ ViewControlsSound

LEMMA ViewInvSuffices ==
  ASSUME ViewInv
  PROVE  ViewTypeOK /\ ViewerAnswersFit
<1>1. ASSUME NEW l, IsLoad(l) PROVE l \in Load({l.wants, l.shown, l.late})
  BY <1>1 DEF IsLoad, Load
<1>2. \A w \in Widgets : IsLoad(charts[w])
  BY DEF ViewInv, ViewChartsSound, Answers
<1>3. DOMAIN charts = Widgets /\ DOMAIN choices = Controls \cup {Nothing}
  BY DEF ViewInv, ViewChartsSound, ViewControlsSound
<1>4. refresh \in [all: 0..ViewGestures, chart: [Widgets -> 0..ViewGestures]]
  <2>1. 0..viewSteps \subseteq 0..ViewGestures
    BY ViewConstants DEF ViewInv
  <2> QED
    BY <2>1 DEF ViewInv, ViewCounts
<1>5. ViewTypeOK
  BY <1>1, <1>2, <1>3, <1>4 DEF ViewTypeOK, ViewInv, ViewPage, ViewForm
<1>6. ViewerAnswersFit
  BY DEF ViewerAnswersFit, ViewInv, ViewChartsSound, ViewControlsSound, Answers, Fits
<1> QED
  BY <1>5, <1>6

(* After the effects everything asks what the new filters make of it.      *)
LEMMA EffectsAsk ==
  ASSUME ViewInv, NEW fs, NEW f \in ViewForm, NEW r, f.due = form.due, View(fs, f, r),
         page'.shared = page.shared
  PROVE  ViewChartsSound' /\ ViewControlsSound' /\ form' \in ViewForm
<1> DEFINE wanted == IF page.shared THEN Nothing ELSE FormContext(f.field, fs)
           again == wanted # choices[Nothing].wants
           asked == AskFor(choices[Nothing], wanted)
<1>1. /\ filters' = fs /\ refresh' = r
      /\ charts' = [w \in Widgets |-> AskFor(charts[w], Asked(w, fs, r))]
      /\ form' = [f EXCEPT !.due = IF again THEN wanted # Nothing ELSE @]
      /\ choices' = [c \in Controls \cup {Nothing} |->
              IF c # Nothing
              THEN IF page.shared THEN choices[c] ELSE AskFor(choices[c], ControlContext(c, fs))
              ELSE IF again THEN [asked EXCEPT !.live = FALSE] ELSE asked]
  BY Zenon DEF View
<1>2. ViewChartsSound'
  <2>1. \A w \in Widgets : /\ Answers(AskFor(charts[w], Asked(w, fs, r)))
                           /\ AskFor(charts[w], Asked(w, fs, r)).wants = Asked(w, fs, r)
    BY AskForAnswers DEF ViewInv, ViewChartsSound, Answers
  <2>2. \A w \in Widgets : Answers(charts'[w]) /\ charts'[w].wants = Asked(w, fs, r)
    BY <1>1, <2>1
  <2>3. \A w \in Widgets : Asked(w, filters, refresh)' = Asked(w, fs, r)
    BY <1>1 DEF Asked
  <2>4. charts' = [w \in Widgets |-> charts'[w]]
    BY <1>1
  <2> HIDE DEF wanted, again, asked
  <2> QED
    BY <2>2, <2>3, <2>4 DEF ViewChartsSound
<1>3. form' \in ViewForm /\ form'.field = f.field
      /\ form'.due = IF again THEN wanted # Nothing ELSE form.due
  <2>1. again \in BOOLEAN /\ (wanted # Nothing) \in BOOLEAN
    OBVIOUS
  <2> HIDE DEF wanted, again
  <2> QED
    BY <1>1, <2>1 DEF ViewForm
<1>4. ViewControlsSound'
  <2>1. choices' = [c \in Controls \cup {Nothing} |-> choices'[c]]
    BY <1>1
  <2>2. ASSUME NEW c \in Controls
        PROVE  /\ Answers(choices'[c])
               /\ ~page.shared => choices'[c].wants = ControlContext(c, fs)
    <3>1. c # Nothing
      BY ViewConstants
    <3>2. choices'[c] = IF page.shared THEN choices[c]
                        ELSE AskFor(choices[c], ControlContext(c, fs))
      BY <1>1, <3>1
    <3>3. Answers(choices[c])
      BY DEF ViewInv, ViewControlsSound
    <3> QED
      BY <3>2, <3>3, AskForAnswers DEF Answers
  <2>3. /\ IsLoad(choices'[Nothing]) /\ (~form'.due => Answers(choices'[Nothing]))
        /\ choices'[Nothing].wants = wanted
    <3>1. IsLoad(choices[Nothing]) /\ (~form.due => Answers(choices[Nothing]))
      BY DEF ViewInv, ViewControlsSound
    <3>2. choices'[Nothing] = IF again THEN [asked EXCEPT !.live = FALSE] ELSE asked
      BY <1>1
    <3>3. /\ IsLoad(asked) /\ asked.wants = wanted
          /\ Answers(choices[Nothing]) => Answers(asked)
      BY <3>1, AskForAnswers
    <3>4. ~again => asked = choices[Nothing]
      BY DEF AskFor
    <3>5. again /\ wanted = Nothing => asked.shown = Nothing
      BY DEF AskFor
    <3> HIDE DEF wanted, again, asked
    <3>6. CASE again
      <4>1. choices'[Nothing] = [asked EXCEPT !.live = FALSE]
        BY <3>2, <3>6
      <4>2. IsLoad(choices'[Nothing]) /\ choices'[Nothing].wants = wanted
            /\ choices'[Nothing].shown = asked.shown
        BY <3>3, <4>1 DEF IsLoad
      <4> QED
        BY <1>3, <3>5, <3>6, <4>2 DEF Answers
    <3>7. CASE ~again
      BY <1>3, <3>1, <3>2, <3>3, <3>4, <3>7
    <3> QED
      BY <3>6, <3>7
  <2>4. \A c \in Controls : ControlContext(c, filters)' = ControlContext(c, fs)
    BY <1>1 DEF ControlContext
  <2>5. FormContext(form.field, filters)' = FormContext(f.field, fs)
    BY <1>1, <1>3 DEF FormContext
  <2> HIDE DEF again, asked
  <2> QED
    BY <2>1, <2>2, <2>3, <2>4, <2>5 DEF ViewControlsSound
<1> QED
  BY <1>2, <1>3, <1>4

(* A gesture changes the filters, the form or the counts within their      *)
(* types.                                                                  *)
LEMMA GestureKeepsView ==
  ASSUME ViewInv, Gestured, UNCHANGED page,
         NEW fs \in SUBSET ViewFilter, NEW f \in ViewForm, f.due = form.due, NEW r,
         r \in [all: 0..(viewSteps + 1), chart: [Widgets -> 0..(viewSteps + 1)]],
         View(fs, f, r)
  PROVE  ViewInv'
<1>1. ViewChartsSound' /\ ViewControlsSound' /\ form' \in ViewForm
  BY EffectsAsk
<1>2. filters' = fs /\ refresh' = r
  BY DEF View
<1>3. viewSteps' = viewSteps + 1 /\ viewSteps' \in 0..ViewGestures
  BY ViewConstants DEF ViewInv, Gestured
<1>4. refresh' \in ViewCounts'
  BY <1>2, <1>3 DEF ViewCounts
<1> QED
  BY <1>1, <1>2, <1>3, <1>4 DEF ViewInv

(* The counts are among those of one gesture more.                         *)
LEMMA CountsGrow ==
  ASSUME ViewInv
  PROVE  refresh \in [all: 0..(viewSteps + 1), chart: [Widgets -> 0..(viewSteps + 1)]]
<1>1. 0..viewSteps \subseteq 0..(viewSteps + 1)
  BY ViewConstants DEF ViewInv
<1> QED
  BY <1>1 DEF ViewInv, ViewCounts

LEMMA FilterSteps ==
  ASSUME ViewInv,
         \/ PickInChart \/ ChooseField \/ ChooseValues \/ ChooseTargets \/ ApplyFilter
         \/ ClearAll \/ RemoveFilter \/ SetControl
  PROVE  ViewInv'
<1>1. filters \in SUBSET ViewFilter /\ form \in ViewForm
  BY DEF ViewInv
<1>2. ASSUME NEW fs \in SUBSET ViewFilter, SetFiltersTo(fs) PROVE ViewInv'
  BY <1>1, <1>2, CountsGrow, GestureKeepsView DEF SetFiltersTo
<1>3. ASSUME NEW f \in ViewForm, f.due = form.due, SetForm(f) PROVE ViewInv'
  BY <1>1, <1>3, CountsGrow, GestureKeepsView DEF SetForm
<1>4. CASE PickInChart
  <2>1. PICK w \in Widgets, f \in ViewFields :
          \E fs \in {(filters \ {x \in filters : x.source = w}) \cup {},
                     (filters \ {x \in filters : x.source = w})
                       \cup {[field |-> f, source |-> w, targets |-> TargetsOf[w]]}} :
            SetFiltersTo(fs)
    BY <1>4 DEF PickInChart
  <2>2. [field |-> f, source |-> w, targets |-> TargetsOf[w]] \in ViewFilter
    BY ViewConstants DEF ViewFilter
  <2> QED
    BY <1>1, <1>2, <2>1, <2>2
<1>5. CASE ChooseField
  <2>1. PICK f \in ViewFields \cup {Nothing} : SetForm([form EXCEPT !.field = f, !.value = FALSE])
    BY <1>5 DEF ChooseField
  <2>2. /\ [form EXCEPT !.field = f, !.value = FALSE] \in ViewForm
        /\ [form EXCEPT !.field = f, !.value = FALSE].due = form.due
    BY <1>1 DEF ViewForm
  <2> QED
    BY <1>3, <2>1, <2>2
<1>6. CASE ChooseValues
  <2>1. [form EXCEPT !.value = ~@] \in ViewForm /\ [form EXCEPT !.value = ~@].due = form.due
    BY <1>1 DEF ViewForm
  <2> QED
    BY <1>3, <1>6, <2>1 DEF ChooseValues
<1>7. CASE ChooseTargets
  <2>1. PICK w \in Widgets :
          SetForm([form EXCEPT !.scope = IF w \in @ THEN @ \ {w} ELSE @ \cup {w}])
    BY <1>7 DEF ChooseTargets
  <2> DEFINE f == [form EXCEPT !.scope = IF w \in @ THEN @ \ {w} ELSE @ \cup {w}]
  <2>2. f \in ViewForm /\ f.due = form.due
    BY <1>1 DEF ViewForm
  <2> HIDE DEF f
  <2> QED
    BY <1>3, <2>1, <2>2 DEF f
<1>8. CASE ApplyFilter
  <2>1. [field |-> form.field, source |-> Nothing, targets |-> form.scope] \in ViewFilter
    BY <1>1, <1>8 DEF ApplyFilter, ViewFilter, ViewForm
  <2>2. Applied \in SUBSET ViewFilter
    BY <1>1, <2>1 DEF Applied
  <2>3. [form EXCEPT !.value = FALSE] \in ViewForm /\ [form EXCEPT !.value = FALSE].due = form.due
    BY <1>1 DEF ViewForm
  <2> QED
    BY <1>8, <2>2, <2>3, CountsGrow, GestureKeepsView DEF ApplyFilter
<1>9. CASE ClearAll
  BY <1>2, <1>9 DEF ClearAll
<1>10. CASE RemoveFilter
  BY <1>1, <1>2, <1>10 DEF RemoveFilter
<1>11. CASE SetControl
  <2>1. PICK c \in Controls :
          \E fs \in {{x \in filters : x.source # c},
                     {x \in filters : x.source # c}
                       \cup {[field |-> ControlOf[c], source |-> c,
                              targets |-> ControlTargets[c]]}} : SetFiltersTo(fs)
    BY <1>11 DEF SetControl
  <2>2. [field |-> ControlOf[c], source |-> c, targets |-> ControlTargets[c]] \in ViewFilter
    BY ViewConstants DEF ViewFilter
  <2> QED
    BY <1>1, <1>2, <2>1, <2>2
<1> QED
  BY <1>4, <1>5, <1>6, <1>7, <1>8, <1>9, <1>10, <1>11

LEMMA RefreshSteps ==
  ASSUME ViewInv, RefreshCharts \/ Tick \/ RetryChart
  PROVE  ViewInv'
<1>1. filters \in SUBSET ViewFilter /\ form \in ViewForm /\ refresh \in ViewCounts /\ viewSteps \in Nat
  BY DEF ViewInv
<1>2. CASE RefreshCharts \/ Tick
  <2>1. RefreshCharts
    BY <1>2 DEF Tick
  <2>2. [refresh EXCEPT !.all = @ + 1]
          \in [all: 0..(viewSteps + 1), chart: [Widgets -> 0..(viewSteps + 1)]]
    <3>1. refresh.all + 1 \in 0..(viewSteps + 1)
      BY <1>1 DEF ViewCounts
    <3>2. refresh \in [all: 0..(viewSteps + 1), chart: [Widgets -> 0..(viewSteps + 1)]]
      BY CountsGrow
    <3> QED
      BY <3>1, <3>2
  <2> QED
    BY <1>1, <2>1, <2>2, GestureKeepsView DEF RefreshCharts
<1>3. CASE RetryChart
  <2>1. PICK w \in Widgets :
          /\ Gestured /\ UNCHANGED page
          /\ View(filters, form, [refresh EXCEPT !.chart[w] = @ + 1])
    BY <1>3 DEF RetryChart
  <2>2. [refresh EXCEPT !.chart[w] = @ + 1]
          \in [all: 0..(viewSteps + 1), chart: [Widgets -> 0..(viewSteps + 1)]]
    <3>1. refresh.chart[w] + 1 \in 0..(viewSteps + 1)
      BY <1>1 DEF ViewCounts
    <3>2. refresh \in [all: 0..(viewSteps + 1), chart: [Widgets -> 0..(viewSteps + 1)]]
      BY CountsGrow
    <3>3. [refresh.chart EXCEPT ![w] = @ + 1] \in [Widgets -> 0..(viewSteps + 1)]
      BY <3>1, <3>2
    <3> QED
      BY <3>2, <3>3
  <2> QED
    BY <1>1, <2>1, <2>2, GestureKeepsView
<1> QED
  BY <1>2, <1>3

LEMMA ReplySteps ==
  ASSUME ViewInv,
         ChartReplied \/ ChartRepliedLate \/ AskForValues \/ ValuesReplied \/ ValuesRepliedLate
  PROVE  ViewInv'
<1>1. UNCHANGED <<page, filters, refresh, viewSteps>>
  BY DEF ChartReplied, ChartRepliedLate, AskForValues, ValuesReplied, ValuesRepliedLate
<1>2. /\ \A w \in Widgets : Asked(w, filters, refresh)' = Asked(w, filters, refresh)
      /\ \A c \in Controls : ControlContext(c, filters)' = ControlContext(c, filters)
      /\ \A f : FormContext(f, filters)' = FormContext(f, filters)
  BY <1>1 DEF Asked, ControlContext, FormContext
<1>3. CASE ChartReplied \/ ChartRepliedLate
  <2>1. PICK w \in Widgets :
          \E m \in {Take(charts[w]), Fail(charts[w]), Drop(charts[w])} :
            charts' = [charts EXCEPT ![w] = m]
    BY <1>3 DEF ChartReplied, ChartRepliedLate
  <2>2. PICK m \in {Take(charts[w]), Fail(charts[w]), Drop(charts[w])} :
          charts' = [charts EXCEPT ![w] = m]
    BY <2>1
  <2>3. Answers(charts[w]) /\ IsLoad(charts[w])
    BY DEF ViewInv, ViewChartsSound, Answers
  <2>4. Answers(m) /\ m.wants = charts[w].wants
    BY <2>2, <2>3, ReplyAnswers
  <2>5. DOMAIN charts = Widgets
    BY DEF ViewInv, ViewChartsSound
  <2>6. /\ charts' = [v \in Widgets |-> charts'[v]]
        /\ charts'[w] = m /\ \A v \in Widgets \ {w} : charts'[v] = charts[v]
    BY <2>2, <2>5
  <2>7. \A v \in Widgets : charts'[v].wants = charts[v].wants /\ Answers(charts'[v])
    BY <2>4, <2>6 DEF ViewInv, ViewChartsSound
  <2>8. ViewChartsSound'
    BY <1>1, <1>2, <2>6, <2>7 DEF ViewInv, ViewChartsSound
  <2>9. UNCHANGED <<form, choices>>
    BY <1>3 DEF ChartReplied, ChartRepliedLate
  <2>10. ViewControlsSound'
    BY <1>1, <1>2, <2>9 DEF ViewInv, ViewControlsSound
  <2> QED
    BY <1>1, <2>8, <2>9, <2>10 DEF ViewInv, ViewCounts
<1>4. ASSUME UNCHANGED charts PROVE ViewChartsSound'
  BY <1>1, <1>2, <1>4 DEF ViewInv, ViewChartsSound
<1>5. DOMAIN choices = Controls \cup {Nothing}
  BY DEF ViewInv, ViewControlsSound
<1>6. CASE AskForValues
  <2>1. /\ form.due /\ form' = [form EXCEPT !.due = FALSE]
        /\ choices' = [choices EXCEPT ![Nothing].live = TRUE] /\ UNCHANGED charts
    BY <1>6 DEF AskForValues
  <2>2. form' \in ViewForm /\ form'.field = form.field /\ ~form'.due
    BY <2>1 DEF ViewInv, ViewForm
  <2>3. /\ choices'[Nothing] = [choices[Nothing] EXCEPT !.live = TRUE]
        /\ \A c \in Controls : choices'[c] = choices[c]
        /\ choices' = [c \in Controls \cup {Nothing} |-> choices'[c]]
    BY <1>5, <2>1, ViewConstants
  <2>4. Answers(choices'[Nothing]) /\ choices'[Nothing].wants = choices[Nothing].wants
    BY <2>3 DEF ViewInv, ViewControlsSound, Answers, IsLoad
  <2>5. ViewControlsSound'
    BY <1>1, <1>2, <2>2, <2>3, <2>4 DEF ViewInv, ViewControlsSound, Answers
  <2> QED
    BY <1>1, <1>4, <2>1, <2>2, <2>5 DEF ViewInv, ViewCounts
<1>7. CASE ValuesReplied \/ ValuesRepliedLate
  <2> DEFINE held(c) == [Fail(choices[c]) EXCEPT !.shown = IF c = Nothing THEN @ ELSE Nothing]
  <2>1. PICK c \in Controls \cup {Nothing} :
          \E m \in {Take(choices[c]), Fail(choices[c]), Drop(choices[c]), held(c)} :
            choices' = [choices EXCEPT ![c] = m]
    BY <1>7 DEF ValuesReplied, ValuesRepliedLate
  <2>2. PICK m \in {Take(choices[c]), Fail(choices[c]), Drop(choices[c]), held(c)} :
          choices' = [choices EXCEPT ![c] = m]
    BY <2>1
  <2>3. UNCHANGED <<form, charts>>
    BY <1>7 DEF ValuesReplied, ValuesRepliedLate
  <2> HIDE DEF held
  <2>4. /\ choices' = [d \in Controls \cup {Nothing} |-> choices'[d]]
        /\ \A d \in (Controls \cup {Nothing}) \ {c} : choices'[d] = choices[d]
        /\ choices'[c] \in {Take(choices[c]), Fail(choices[c]), Drop(choices[c]), held(c)}
    BY <1>5, <2>2
  <2>5. IsLoad(choices[c])
    BY DEF ViewInv, ViewControlsSound, Answers
  <2>6. IsLoad(choices'[c]) /\ choices'[c].wants = choices[c].wants
        /\ (Answers(choices[c]) => Answers(choices'[c]))
    <3>1. CASE choices'[c] \in {Take(choices[c]), Fail(choices[c]), Drop(choices[c])}
      BY <2>5, <3>1, ReplyAnswers
    <3>2. CASE choices'[c] = held(c)
      <4>1. choices'[c] = [wants |-> choices[c].wants,
                           shown |-> IF c = Nothing THEN choices[c].shown ELSE Nothing,
                           live |-> FALSE, failed |-> TRUE, late |-> choices[c].late]
        BY <2>5, <3>2 DEF Fail, IsLoad, held
      <4> QED
        BY <4>1 DEF IsLoad, Answers
    <3> QED
      BY <2>4, <3>1, <3>2
  <2>7. ViewControlsSound'
    <3>1. \A d \in Controls \cup {Nothing} :
            /\ IsLoad(choices'[d]) /\ choices'[d].wants = choices[d].wants
            /\ Answers(choices[d]) => Answers(choices'[d])
      BY <2>4, <2>6 DEF ViewInv, ViewControlsSound, Answers
    <3>2. \A d \in Controls : Answers(choices'[d])
      BY <3>1 DEF ViewInv, ViewControlsSound
    <3>3. IsLoad(choices'[Nothing]) /\ (~form'.due => Answers(choices'[Nothing]))
      BY <2>3, <3>1 DEF ViewInv, ViewControlsSound
    <3>4. page'.state = "there" /\ ~page'.shared =>
            /\ \A d \in Controls : choices'[d].wants = ControlContext(d, filters)'
            /\ choices'[Nothing].wants = FormContext(form.field, filters)'
      <4>1. FormContext(form.field, filters)' = FormContext(form.field, filters)
        BY <1>1, <2>3 DEF FormContext
      <4> QED
        BY <1>1, <1>2, <3>1, <4>1 DEF ViewInv, ViewControlsSound
    <3> QED
      BY <2>4, <3>2, <3>3, <3>4 DEF ViewControlsSound
  <2> QED
    BY <1>1, <1>4, <2>3, <2>7 DEF ViewInv, ViewCounts
<1> QED
  BY <1>3, <1>6, <1>7

LEMMA PublicationSteps ==
  ASSUME ViewInv, PublicationLoaded \/ PublicationFailed
  PROVE  ViewInv'
<1>1. CASE PublicationLoaded
  <2>1. page' \in ViewPage /\ page'.shared = page.shared /\ page'.state = "there"
    BY <1>1 DEF PublicationLoaded, ViewInv, ViewPage
  <2>2. filters \in SUBSET ViewFilter /\ form \in ViewForm /\ refresh \in ViewCounts
    BY DEF ViewInv
  <2>3. ViewChartsSound' /\ ViewControlsSound' /\ form' \in ViewForm
    BY <1>1, <2>1, <2>2, EffectsAsk DEF PublicationLoaded
  <2>4. filters' = filters /\ refresh' = refresh /\ UNCHANGED viewSteps
    BY <1>1 DEF PublicationLoaded, View
  <2> QED
    BY <2>1, <2>2, <2>3, <2>4 DEF ViewInv, ViewCounts
<1>2. CASE PublicationFailed
  <2>1. page' \in ViewPage /\ page'.shared = page.shared /\ page'.state = "failed" /\ page.shared
    BY <1>2 DEF PublicationFailed, ViewInv, ViewPage
  <2>2. UNCHANGED <<filters, form, charts, choices, refresh, viewSteps>>
    BY <1>2 DEF PublicationFailed
  <2>3. ViewChartsSound' /\ ViewControlsSound'
    BY <2>1, <2>2 DEF ViewInv, ViewChartsSound, ViewControlsSound
  <2> QED
    BY <2>1, <2>2, <2>3 DEF ViewInv, ViewCounts
<1> QED
  BY <1>1, <1>2

LEMMA ViewStarts ==
  ASSUME ViewInit
  PROVE  ViewInv
<1>1. page \in ViewPage /\ (page.state # "there" => page.shared)
      /\ (page.state = "there" => ~page.shared)
  <2>1. CASE page = [shared |-> FALSE, state |-> "there"]
    BY <2>1 DEF ViewPage
  <2>2. CASE page = [shared |-> TRUE, state |-> "loading"]
    BY <2>2 DEF ViewPage
  <2> QED
    BY <2>1, <2>2 DEF ViewInit
<1>2. filters \in SUBSET ViewFilter /\ form \in ViewForm /\ refresh \in ViewCounts
      /\ viewSteps \in 0..ViewGestures
  BY ViewConstants DEF ViewInit, ViewForm, ViewCounts, NoRefresh
<1>3. IsLoad(NoLoad) /\ Answers(NoLoad) /\ NoLoad.wants = Nothing
  BY NoLoadAnswers DEF Answers, NoLoad
<1>4. ViewChartsSound
  <2>1. charts = [w \in Widgets |->
          IF page.shared THEN NoLoad ELSE AskFor(NoLoad, Asked(w, filters, refresh))]
    BY DEF ViewInit
  <2>2. \A w \in Widgets : /\ Answers(charts[w])
                           /\ ~page.shared => charts[w].wants = Asked(w, filters, refresh)
    BY <1>3, <2>1, AskForAnswers
  <2>3. charts = [w \in Widgets |-> charts[w]]
    BY <2>1
  <2> QED
    BY <1>1, <2>2, <2>3 DEF ViewChartsSound
<1>5. ViewControlsSound
  <2>1. choices = [c \in Controls \cup {Nothing} |->
          IF page.shared \/ c = Nothing THEN NoLoad
          ELSE AskFor(NoLoad, ControlContext(c, filters))]
    BY DEF ViewInit
  <2>2. \A c \in Controls : /\ Answers(choices[c])
                            /\ ~page.shared => choices[c].wants = ControlContext(c, filters)
    BY <1>3, <2>1, AskForAnswers, ViewConstants
  <2>3. choices[Nothing] = NoLoad /\ choices = [c \in Controls \cup {Nothing} |-> choices[c]]
    BY <2>1
  <2>4. FormContext(form.field, filters) = Nothing
    BY DEF ViewInit, FormContext
  <2> QED
    BY <1>3, <2>2, <2>3, <2>4 DEF ViewControlsSound
<1> QED
  BY <1>1, <1>2, <1>4, <1>5 DEF ViewInv

LEMMA ViewStays ==
  ASSUME ViewInv, ViewNext
  PROVE  ViewInv'
  BY FilterSteps, RefreshSteps, ReplySteps, PublicationSteps DEF ViewNext

-----------------------------------------------------------------------------
(***************************************************************************)
(* The builder of dashboards (BoardInv).                                   *)
(*                                                                         *)
(* The widgets of every draft and of everything saved or published are     *)
(* laid out without overlap, and a request to save carries the revision    *)
(* its author edited.                                                      *)
(***************************************************************************)
(* A set that holds 0 and with every number the next one holds them all.   *)
LEMMA CountUp ==
  ASSUME NEW n \in Nat, NEW T \in SUBSET (0..n), 0 \in T,
         \A m \in 0..n : m + 1 \in 0..n /\ m \in T => m + 1 \in T
  PROVE  T = 0..n
<1> DEFINE Rest == (0..n) \ T
<1>1. SUFFICES ASSUME Rest # {} PROVE FALSE
  OBVIOUS
<1>2. Rest \subseteq Nat
  OBVIOUS
<1> HIDE DEF Rest
<1>3. PICK x \in Rest : \A y \in Rest : ~(<<y, x>> \in OpToRel(<, Nat))
  BY <1>1, <1>2, NatLessThanWellFounded, WFMin
<1>4. \A y \in Rest : ~(y < x)
  BY <1>2, <1>3 DEF OpToRel
<1> QED
  BY <1>4 DEF Rest

-----------------------------------------------------------------------------
(* The layout. Start is what is placed of no widget, Put what is placed    *)
(* after one more.                                                         *)
Unplaced == [x |-> 0, y |-> 0, row |-> 0]
PutAfter(last, w) ==
  IF last.x + w.w > Columns
  THEN [x |-> w.w, y |-> last.y + last.row, row |-> w.h]
  ELSE [x |-> last.x + w.w, y |-> last.y, row |-> Taller(last.row, w.h)]

(* There is a function that places the first widgets, for every number of  *)
(* them.                                                                   *)
LEMMA PlacesExist ==
  ASSUME NEW wl, NEW n \in Nat
  PROVE  \E g : g = [i \in 0..n |-> IF i = 0 THEN Unplaced ELSE PutAfter(g[i - 1], wl[i])]
<1> DEFINE Placing(m, g) ==
             g = [i \in 0..m |-> IF i = 0 THEN Unplaced ELSE PutAfter(g[i - 1], wl[i])]
           T == {m \in 0..n : \E g : Placing(m, g)}
<1>1. 0 \in T
  <2> DEFINE g == [i \in 0..0 |-> Unplaced]
  <2>1. \A i \in 0..0 : i = 0
    OBVIOUS
  <2>2. g = [i \in 0..0 |-> IF i = 0 THEN Unplaced ELSE PutAfter(g[i - 1], wl[i])]
    BY <2>1
  <2>3. \E k : Placing(0, k)
    BY <2>2
  <2> QED
    BY <2>3
<1>2. ASSUME NEW m \in 0..n, m + 1 \in 0..n, m \in T PROVE m + 1 \in T
  <2>1. PICK g : Placing(m, g)
    BY <1>2
  <2> DEFINE h == [i \in 0..(m + 1) |-> IF i = m + 1 THEN PutAfter(g[m], wl[m + 1]) ELSE g[i]]
  <2>2. \A i \in 0..m : g[i] = IF i = 0 THEN Unplaced ELSE PutAfter(g[i - 1], wl[i])
    BY <2>1
  <2>3. \A i \in 0..(m + 1) : h[i] = IF i = 0 THEN Unplaced ELSE PutAfter(h[i - 1], wl[i])
    BY <2>2
  <2>4. Placing(m + 1, h)
    <3>1. h = [i \in 0..(m + 1) |-> h[i]]
      OBVIOUS
    <3> HIDE DEF h
    <3> QED
      BY <2>3, <3>1
  <2> QED
    BY <1>2, <2>4
<1>3. T = 0..n
  <2> HIDE DEF T
  <2>1. T \in SUBSET (0..n)
    BY DEF T
  <2> QED
    BY <1>1, <1>2, <2>1, CountUp
<1> QED
  BY <1>3

LEMMA PlacesOf ==
  ASSUME NEW wl, Len(wl) \in Nat
  PROVE  \E right :
           /\ right[0] = Unplaced
           /\ \A i \in 1..Len(wl) : right[i] = PutAfter(right[i - 1], wl[i])
           /\ PlaceWidgets(wl) = [i \in 1..Len(wl) |->
                [wl[i] EXCEPT !.x = right[i].x - wl[i].w, !.y = right[i].y]]
<1> DEFINE right[i \in 0..Len(wl)] ==
             IF i = 0 THEN [x |-> 0, y |-> 0, row |-> 0]
             ELSE LET last == right[i - 1]
                  IN  IF last.x + wl[i].w > Columns
                      THEN [x |-> wl[i].w, y |-> last.y + last.row, row |-> wl[i].h]
                      ELSE [x |-> last.x + wl[i].w, y |-> last.y, row |-> Taller(last.row, wl[i].h)]
<1>1. PlaceWidgets(wl) = [i \in 1..Len(wl) |->
        [wl[i] EXCEPT !.x = right[i].x - wl[i].w, !.y = right[i].y]]
  BY DEF PlaceWidgets
<1>2. \E g : g = [i \in 0..Len(wl) |-> IF i = 0 THEN Unplaced ELSE PutAfter(g[i - 1], wl[i])]
  BY PlacesExist
<1>3. right = CHOOSE g : g = [i \in 0..Len(wl) |-> IF i = 0 THEN Unplaced ELSE PutAfter(g[i - 1], wl[i])]
  BY DEF right, Unplaced, PutAfter
<1> HIDE DEF right
<1>4. right = [i \in 0..Len(wl) |-> IF i = 0 THEN Unplaced ELSE PutAfter(right[i - 1], wl[i])]
  BY <1>2, <1>3, Zenon
<1>5. /\ right[0] = Unplaced
      /\ \A i \in 1..Len(wl) : right[i] = PutAfter(right[i - 1], wl[i])
  BY <1>4
<1> QED
  BY <1>1, <1>5

WidgetPlace == [x: 0..Columns, y: Nat, row: Nat]
(* The next widget comes right of those of its row and below all others.   *)
Behind(right, wl, m) ==
  /\ right[m] \in WidgetPlace
  /\ \A i \in 1..m :
       \/ right[i].y = right[m].y /\ right[i].x <= right[m].x /\ wl[i].h <= right[m].row
       \/ right[i].y + wl[i].h <= right[m].y

LEMMA Sizes ==
  /\ \A r \in WidgetPlace : r.x \in Nat /\ r.x <= 12 /\ r.y \in Nat /\ r.row \in Nat
  /\ \A w \in Widget : w.w \in Nat /\ 1 <= w.w /\ w.w <= 12 /\ w.h \in Nat /\ 1 <= w.h
<1>1. \A r \in WidgetPlace : r.x \in 0..12 /\ r.y \in Nat /\ r.row \in Nat
  BY DEF WidgetPlace, Columns
<1>2. \A w \in Widget : w.w \in 1..12 /\ w.h \in 1..12
  BY DEF Widget, Columns
<1> QED
  BY <1>1, <1>2

(* One more widget goes right of the last one or begins a row below.       *)
LEMMA PutPlaces ==
  ASSUME NEW last \in WidgetPlace, NEW w \in Widget
  PROVE  /\ PutAfter(last, w) \in WidgetPlace /\ PutAfter(last, w).x - w.w \in 0..Columns
         /\ PutAfter(last, w).row >= w.h
         /\ \/ /\ PutAfter(last, w).y = last.y /\ PutAfter(last, w).x = last.x + w.w
               /\ PutAfter(last, w).row >= last.row
            \/ PutAfter(last, w).y = last.y + last.row
<1>1. /\ last.x \in Nat /\ last.x <= 12 /\ last.y \in Nat /\ last.row \in Nat
      /\ w.w \in Nat /\ 1 <= w.w /\ w.w <= 12 /\ w.h \in Nat /\ 1 <= w.h
  BY Sizes
<1>2. CASE last.x + w.w > Columns
  <2> DEFINE r == [x |-> w.w, y |-> last.y + last.row, row |-> w.h]
  <2>1. PutAfter(last, w) = r
    BY <1>2 DEF PutAfter
  <2>2. r.x = w.w /\ r.y = last.y + last.row /\ r.row = w.h
    OBVIOUS
  <2>3. w.w \in 0..Columns /\ last.y + last.row \in Nat
    BY <1>1 DEF Columns
  <2>4. r \in WidgetPlace
    BY <1>1, <2>3 DEF WidgetPlace
  <2>5. r.x - w.w \in 0..Columns /\ r.row >= w.h
    BY <1>1, <2>2 DEF Columns
  <2> HIDE DEF r
  <2> QED
    BY <2>1, <2>2, <2>4, <2>5
<1>3. CASE ~(last.x + w.w > Columns)
  <2> DEFINE high == Taller(last.row, w.h)
             r == [x |-> last.x + w.w, y |-> last.y, row |-> high]
  <2>1. PutAfter(last, w) = r
    BY <1>3 DEF PutAfter
  <2>2. high \in Nat /\ high >= last.row /\ high >= w.h
    BY <1>1 DEF Taller
  <2> HIDE DEF high
  <2>3. last.x + w.w \in 0..Columns
    BY <1>1, <1>3 DEF Columns
  <2>4. r \in WidgetPlace /\ r.x = last.x + w.w /\ r.y = last.y /\ r.row = high
    BY <1>1, <2>2, <2>3 DEF WidgetPlace
  <2>5. (last.x + w.w) - w.w \in 0..Columns
    BY <1>1, <1>3 DEF Columns
  <2> HIDE DEF r
  <2> QED
    BY <2>1, <2>2, <2>4, <2>5
<1> QED
  BY <1>2, <1>3

LEMMA PutBehind ==
  ASSUME NEW wl \in Seq(Widget), NEW right, NEW m \in Nat, m + 1 \in 1..Len(wl),
         \A i \in 0..m : right[i] \in WidgetPlace,
         right[m + 1] = PutAfter(right[m], wl[m + 1]), Behind(right, wl, m)
  PROVE  /\ Behind(right, wl, m + 1)
         /\ right[m + 1].x - wl[m + 1].w \in 0..Columns
         /\ \A i \in 1..m :
              \/ right[i].x <= right[m + 1].x - wl[m + 1].w
              \/ right[i].y + wl[i].h <= right[m + 1].y
<1>1. right[m] \in WidgetPlace /\ wl[m + 1] \in Widget
  OBVIOUS
<1> DEFINE last == right[m]
           next == right[m + 1]
           w == wl[m + 1]
<1>2. /\ next \in WidgetPlace /\ next.x - w.w \in 0..Columns /\ next.row >= w.h
      /\ \/ /\ next.y = last.y /\ next.x = last.x + w.w /\ next.row >= last.row
         \/ next.y = last.y + last.row
  BY <1>1, PutPlaces
<1>3. /\ last.x \in Nat /\ last.y \in Nat /\ last.row \in Nat
      /\ next.x \in Nat /\ next.y \in Nat /\ next.row \in Nat /\ w.w \in Nat
  BY <1>1, <1>2, Sizes
<1>4. ASSUME NEW i \in 1..m
      PROVE  /\ \/ /\ right[i].y = next.y /\ right[i].x <= next.x /\ wl[i].h <= next.row
                \/ right[i].y + wl[i].h <= next.y
             /\ \/ right[i].x <= next.x - w.w
                \/ right[i].y + wl[i].h <= next.y
  <2>1. i \in 1..Len(wl) /\ i \in 0..m
    OBVIOUS
  <2>2. wl[i] \in Widget /\ right[i] \in WidgetPlace
    BY <2>1
  <2>3. /\ wl[i].h \in Nat /\ right[i].x \in Nat /\ right[i].y \in Nat
    BY <2>2, Sizes
  <2>4. \/ right[i].y = last.y /\ right[i].x <= last.x /\ wl[i].h <= last.row
        \/ right[i].y + wl[i].h <= last.y
    BY DEF Behind
  <2> DEFINE px == right[i].x
             py == right[i].y
             ph == wl[i].h
             lx == last.x
             ly == last.y
             lr == last.row
             nx == next.x
             ny == next.y
             nr == next.row
             ww == w.w
  <2>5. px \in Nat /\ py \in Nat /\ ph \in Nat /\ lx \in Nat /\ ly \in Nat /\ lr \in Nat
        /\ nx \in Nat /\ ny \in Nat /\ nr \in Nat /\ ww \in Nat
    BY <1>3, <2>3
  <2>6. (py = ly /\ px <= lx /\ ph <= lr) \/ py + ph <= ly
    BY <2>4
  <2>7. (ny = ly /\ nx = lx + ww /\ nr >= lr) \/ ny = ly + lr
    BY <1>2
  <2>8. /\ (py = ny /\ px <= nx /\ ph <= nr) \/ py + ph <= ny
        /\ px <= nx - ww \/ py + ph <= ny
    <3> HIDE DEF px, py, ph, lx, ly, lr, nx, ny, nr, ww
    <3> QED
      BY <2>5, <2>6, <2>7
  <2> QED
    BY <2>8
<1>5. Behind(right, wl, m + 1)
  <2>1. ASSUME NEW i \in 1..(m + 1)
        PROVE  \/ /\ right[i].y = next.y /\ right[i].x <= next.x /\ wl[i].h <= next.row
               \/ right[i].y + wl[i].h <= next.y
    <3>1. CASE i = m + 1
      BY <1>2, <1>3, <3>1
    <3>2. CASE i # m + 1
      <4>1. i \in 1..m
        BY <3>2
      <4> QED
        BY <1>4, <4>1
    <3> QED
      BY <3>1, <3>2
  <2> QED
    BY <1>2, <2>1 DEF Behind
<1> QED
  BY <1>2, <1>4, <1>5

(* placeWidgets lays any widgets out.                                      *)
LEMMA PlacedLaidOut ==
  ASSUME NEW wl \in Seq(Widget)
  PROVE  PlaceWidgets(wl) \in Seq(Widget) /\ LaidOut(PlaceWidgets(wl))
<1>1. Len(wl) \in Nat
  OBVIOUS
<1>2. PICK right :
        /\ right[0] = Unplaced
        /\ \A i \in 1..Len(wl) : right[i] = PutAfter(right[i - 1], wl[i])
        /\ PlaceWidgets(wl) = [i \in 1..Len(wl) |->
             [wl[i] EXCEPT !.x = right[i].x - wl[i].w, !.y = right[i].y]]
  BY <1>1, PlacesOf
<1> DEFINE Good(m) == \A i \in 0..m : right[i] \in WidgetPlace /\ Behind(right, wl, i)
           T == {m \in 0..Len(wl) : Good(m)}
<1>3. 0 \in T
  <2>1. Unplaced \in WidgetPlace
    BY DEF Unplaced, WidgetPlace, Columns
  <2>2. Behind(right, wl, 0)
    <3>1. 1..0 = {}
      OBVIOUS
    <3> QED
      BY <1>2, <2>1, <3>1 DEF Behind
  <2>3. \A i \in 0..0 : i = 0
    OBVIOUS
  <2>4. Good(0)
    BY <1>2, <2>1, <2>2, <2>3
  <2> HIDE DEF Good
  <2> QED
    BY <1>1, <2>4
<1>4. ASSUME NEW m \in 0..Len(wl), m + 1 \in 0..Len(wl), m \in T PROVE m + 1 \in T
  <2>1. Good(m) /\ m \in Nat /\ m + 1 \in 1..Len(wl)
    BY <1>4
  <2>2. right[m + 1] = PutAfter(right[m], wl[m + 1])
    <3>1. (m + 1) - 1 = m
      BY <2>1
    <3> QED
      BY <1>2, <2>1, <3>1
  <2>3. Behind(right, wl, m) /\ \A i \in 0..m : right[i] \in WidgetPlace
    BY <2>1
  <2>4. Behind(right, wl, m + 1)
    BY <2>1, <2>2, <2>3, PutBehind
  <2>5. right[m + 1] \in WidgetPlace
    BY <2>4 DEF Behind
  <2>6. \A i \in 0..(m + 1) : i = m + 1 \/ i \in 0..m
    BY <2>1
  <2>7. Good(m + 1)
    BY <2>1, <2>4, <2>5, <2>6
  <2> QED
    BY <1>4, <2>7
<1>5. T = 0..Len(wl)
  <2> HIDE DEF T
  <2>1. T \in SUBSET (0..Len(wl))
    BY DEF T
  <2> QED
    BY <1>1, <1>3, <1>4, <2>1, CountUp
<1>6. Good(Len(wl))
  BY <1>1, <1>5
<1>7. ASSUME NEW j \in 1..Len(wl)
      PROVE  /\ right[j] \in WidgetPlace /\ right[j].x - wl[j].w \in 0..Columns
             /\ \A i \in 1..(j - 1) :
                  \/ right[i].x <= right[j].x - wl[j].w
                  \/ right[i].y + wl[i].h <= right[j].y
  <2>1. j - 1 \in Nat /\ (j - 1) + 1 = j /\ j \in 0..Len(wl) /\ j - 1 \in 0..Len(wl)
    OBVIOUS
  <2>2. right[(j - 1) + 1] = PutAfter(right[j - 1], wl[(j - 1) + 1])
    BY <1>2, <2>1
  <2>3. Behind(right, wl, j - 1) /\ \A i \in 0..(j - 1) : right[i] \in WidgetPlace
    BY <1>6, <2>1
  <2>4. right[j] \in WidgetPlace
    BY <1>6, <2>1
  <2> HIDE DEF Good
  <2> QED
    BY <2>1, <2>2, <2>3, <2>4, PutBehind
<1> HIDE DEF Good, T
<1> DEFINE ps == PlaceWidgets(wl)
<1>8. /\ DOMAIN ps = 1..Len(wl) /\ ps = [i \in 1..Len(wl) |-> ps[i]]
      /\ \A i \in 1..Len(wl) :
           ps[i] = [wl[i] EXCEPT !.x = right[i].x - wl[i].w, !.y = right[i].y]
  <2> DEFINE At(i) == [wl[i] EXCEPT !.x = right[i].x - wl[i].w, !.y = right[i].y]
  <2>1. ps = [i \in 1..Len(wl) |-> At(i)]
    BY <1>2
  <2> HIDE DEF ps
  <2>2. /\ DOMAIN ps = 1..Len(wl) /\ ps = [i \in 1..Len(wl) |-> ps[i]]
        /\ \A i \in 1..Len(wl) : ps[i] = At(i)
    <3> HIDE DEF At
    <3> QED
      BY <2>1
  <2> QED
    BY <2>2
<1>9. ASSUME NEW i \in 1..Len(wl)
      PROVE  /\ ps[i] \in Widget /\ ps[i].x = right[i].x - wl[i].w
             /\ ps[i].y = right[i].y /\ ps[i].w = wl[i].w /\ ps[i].h = wl[i].h
  <2>1. wl[i] \in Widget /\ right[i].x - wl[i].w \in 0..Columns /\ right[i].y \in Nat
    BY <1>7 DEF WidgetPlace
  <2>2. ps[i] = [wl[i] EXCEPT !.x = right[i].x - wl[i].w, !.y = right[i].y]
    BY <1>8
  <2> HIDE DEF ps
  <2> DEFINE w == wl[i]
             x == right[i].x - wl[i].w
             y == right[i].y
  <2>3. w \in Widget /\ x \in 0..Columns /\ y \in Nat /\ ps[i] = [w EXCEPT !.x = x, !.y = y]
    BY <2>1, <2>2
  <2> HIDE DEF w, x, y
  <2>4. ps[i] \in Widget /\ ps[i].x = x /\ ps[i].y = y /\ ps[i].w = w.w /\ ps[i].h = w.h
    BY <2>3 DEF Widget
  <2> QED
    BY <2>4 DEF w, x, y
<1> HIDE DEF ps
<1>10. ps \in Seq(Widget) /\ Len(ps) = Len(wl)
  <2>1. ps = [i \in 1..Len(wl) |-> ps[i]]
    BY <1>8
  <2>2. \A i \in 1..Len(wl) : ps[i] \in Widget
    BY <1>9
  <2>3. ps \in Seq(Widget)
    BY <1>1, <2>1, <2>2
  <2> QED
    <3>1. Len(ps) \in Nat /\ 1..Len(ps) = 1..Len(wl)
      BY <1>8, <2>3, LenProperties
    <3> QED
      BY <1>1, <2>3, <3>1
<1>11. ASSUME NEW i \in 1..Len(ps)
       PROVE  /\ ps[i].x + ps[i].w <= Columns
              /\ \A j \in 1..Len(ps) \ {i} :
                   \/ ps[i].x + ps[i].w <= ps[j].x \/ ps[j].x + ps[j].w <= ps[i].x
                   \/ ps[i].y + ps[i].h <= ps[j].y \/ ps[j].y + ps[j].h <= ps[i].y
  <2>1. \A k \in 1..Len(wl) :
          /\ wl[k].w \in Nat /\ wl[k].h \in Nat /\ right[k].x \in Nat /\ right[k].y \in Nat
          /\ right[k].x <= Columns
    <3>1. \A k \in 1..Len(wl) : wl[k] \in Widget /\ right[k] \in WidgetPlace
      BY <1>7
    <3> QED
      BY <3>1, Sizes DEF Columns
  <2>2. \A k \in 1..Len(wl) : ps[k].x + ps[k].w = right[k].x
    BY <1>9, <2>1
  <2>3. \A a, b \in 1..Len(wl) : a < b =>
          ps[a].x + ps[a].w <= ps[b].x \/ ps[a].y + ps[a].h <= ps[b].y
    BY <1>7, <1>9, <2>1, <2>2
  <2>4. i \in 1..Len(wl) /\ Len(ps) = Len(wl)
    BY <1>10
  <2>5. ASSUME NEW j \in 1..Len(ps) \ {i}
        PROVE  \/ ps[i].x + ps[i].w <= ps[j].x \/ ps[j].x + ps[j].w <= ps[i].x
               \/ ps[i].y + ps[i].h <= ps[j].y \/ ps[j].y + ps[j].h <= ps[i].y
    <3>1. j \in 1..Len(wl) /\ (i < j \/ j < i)
      BY <2>4
    <3> QED
      BY <2>3, <2>4, <3>1
  <2> QED
    BY <2>1, <2>2, <2>4, <2>5
<1> QED
  BY <1>10, <1>11 DEF LaidOut, ps

-----------------------------------------------------------------------------
(* The draft, what is saved, what is published and shared, and the         *)
(* requests. A revision is one above the one that it was edited from, and  *)
(* a request to save carries the revision that was edited.                 *)
BoardDraft == [id: Boards, named: BOOLEAN, revision: Nat, body: Body]
SavedBoard == {v \in [revision: Nat, from: Nat, body: Body] : v.from + 1 = v.revision}
BoardCatalog == [Boards -> SavedBoard \cup {Nothing}]
PublishedBoard == [id: Boards, revision: Nat, body: Body]
BoardShare == [publication: Nat, revoked: BOOLEAN, filters: SUBSET Pinned]
SaveArgs ==
  {a \in [id: Boards, revision: Nat, from: Nat, body: Body] : a.revision = a.from}
BoardScreen ==
  [draft: BoardDraft \cup {Nothing}, known: BoardCatalog, active: SUBSET (Pinned \cup Picked),
   publication: Nat \cup {Nothing}, publications: SUBSET Nat, shares: SUBSET BoardShare,
   busy: BOOLEAN, confirm: BOOLEAN, lock: BOOLEAN, keep: BOOLEAN, first: BOOLEAN]

ArgSound(op) ==
  /\ op.kind = "save" => op.arg \in SaveArgs
  /\ op.kind = "delete" => op.arg \in [id: Boards, revision: Nat]
  /\ op.kind = "publish" => op.arg \in [id: Boards, revision: Nat \ {0}]
  /\ op.kind \in {"publication", "shares"} => op.arg \in Nat
  /\ op.kind = "share" => op.arg \in [publication: Nat, filters: SUBSET Pinned]
  /\ op.kind = "revoke" => op.arg \in BoardShare
AnswerSound(op) ==
  /\ op.kind = "list" => op.answer \in BoardCatalog
  /\ op.kind = "save" => op.answer \in SavedBoard
  /\ op.kind = "publish" => op.answer \in Nat
  /\ op.kind = "publications" => op.answer \subseteq Nat
  /\ op.kind \in {"publication", "shares"} => op.answer \subseteq BoardShare
  /\ op.kind = "share" => op.answer \in BoardShare
OpSound(op) ==
  /\ op = [kind |-> op.kind, arg |-> op.arg, stage |-> op.stage, answer |-> op.answer]
  /\ ArgSound(op)
  /\ op.stage = "served" => AnswerSound(op)

(* Filters are in force, and a deletion waits for its confirmation, only    *)
(* where a dashboard is drafted.                                           *)
BoardSound ==
  board \in BoardScreen /\ (board.confirm \/ board.active # {} => board.draft \in BoardDraft)
BackendSound ==
  /\ backend \in [saved: BoardCatalog, pubs: Seq(PublishedBoard), shares: SUBSET BoardShare]
  /\ Len(backend.pubs) <= Publications
OpsSound == \A op \in ops : OpSound(op)
StepsSound == boardSteps \in 0..BoardGestures
BoardInv == BoardSound /\ BackendSound /\ OpsSound /\ StepsSound

LEMMA BoardInvSuffices ==
  ASSUME BoardInv
  PROVE  BuilderTypeOK /\ LayoutFits /\ SavesSeen
<1>1. board \in BoardScreen /\ backend \in [saved: BoardCatalog, pubs: Seq(PublishedBoard), shares: SUBSET BoardShare]
  BY DEF BoardInv, BoardSound, BackendSound
<1>2. /\ board.draft \in BoardDraft \cup {Nothing} /\ board.active \in SUBSET (Pinned \cup Picked)
      /\ {board.busy, board.confirm, board.lock, board.keep, board.first} \subseteq BOOLEAN
  BY <1>1 DEF BoardScreen
<1>3. ASSUME board.draft # Nothing
      PROVE  /\ board.draft.id \in Boards /\ board.draft.named \in BOOLEAN
             /\ board.draft.body \in Body
  BY <1>2, <1>3 DEF BoardDraft
<1>4. backend.saved \in BoardCatalog
  BY <1>1
<1>5. BuilderTypeOK
  <2>1. DOMAIN backend.saved = Boards
    BY <1>4 DEF BoardCatalog
  <2>2. board.draft # Nothing =>
          /\ board.draft.body.widgets \in Seq(Widget)
          /\ board.draft.body.defaults \subseteq Pinned \cup Picked
    BY <1>3 DEF Body
  <2> QED
    BY <1>2, <1>3, <2>1, <2>2 DEF BuilderTypeOK, BoardInv, BackendSound, StepsSound
<1>6. LayoutFits
  BY <1>3 DEF LayoutFits, Body
<1>7. SavesSeen
  <2>1. \A b \in Boards : backend.saved[b] # Nothing => backend.saved[b] \in SavedBoard
    BY <1>4 DEF BoardCatalog
  <2> QED
    BY <2>1 DEF SavesSeen, SavedBoard
<1> QED
  BY <1>5, <1>6, <1>7

LEMMA EmptyFits == Empty \in Body
<1>1. <<>> \in Seq(Widget) /\ Len(<<>>) = 0
  BY EmptySeq
<1>2. LaidOut(<<>>)
  BY <1>1 DEF LaidOut
<1> QED
  BY <1>1, <1>2 DEF Empty, Body

LEMMA BoardStarts ==
  ASSUME BuilderInit
  PROVE  BoardInv
<1>1. [b \in Boards |-> Nothing] \in BoardCatalog
  BY DEF BoardCatalog
<1>2. [revision |-> 1, from |-> 0, body |-> FirstBody] \in SavedBoard
  BY FirstSaves DEF SavedBoard
<1>3. [b \in Boards |-> IF b \in FirstBoards
         THEN [revision |-> 1, from |-> 0, body |-> FirstBody] ELSE Nothing] \in BoardCatalog
  <2> DEFINE v == [revision |-> 1, from |-> 0, body |-> FirstBody]
  <2> HIDE DEF v
  <2>1. v \in SavedBoard
    BY <1>2 DEF v
  <2>2. [b \in Boards |-> IF b \in FirstBoards THEN v ELSE Nothing] \in BoardCatalog
    BY <2>1 DEF BoardCatalog
  <2> QED
    BY <2>2 DEF v
<1>4. BoardSound
  BY <1>1 DEF BuilderInit, BoardSound, BoardScreen
<1>5. BackendSound
  <2>1. backend.pubs = <<>> /\ <<>> \in Seq(PublishedBoard) /\ Len(<<>>) = 0
    BY EmptySeq DEF BuilderInit
  <2>2. backend = [saved |-> [b \in Boards |-> IF b \in FirstBoards
                     THEN [revision |-> 1, from |-> 0, body |-> FirstBody] ELSE Nothing],
                   pubs |-> <<>>, shares |-> {}]
    BY DEF BuilderInit
  <2>3. backend \in [saved: BoardCatalog, pubs: Seq(PublishedBoard), shares: SUBSET BoardShare]
    BY <1>3, <2>1, <2>2
  <2>4. Len(backend.pubs) <= Publications
    BY <2>1, BuilderConstants
  <2> QED
    BY <2>3, <2>4 DEF BackendSound
<1>6. OpsSound
  BY DEF BuilderInit, OpsSound, OpSound, ArgSound
<1>7. StepsSound
  BY BuilderConstants DEF BuilderInit, StepsSound
<1> QED
  BY <1>4, <1>5, <1>6, <1>7 DEF BoardInv

-----------------------------------------------------------------------------
(* The user's steps leave the server alone.                                *)
LEMMA BoardGestureStays ==
  ASSUME BoardInv, BoardGesture
  PROVE  StepsSound'
  BY BuilderConstants DEF BoardInv, StepsSound, BoardGesture

LEMMA BoardLocalStays ==
  ASSUME BoardInv, Local, board' \in BoardScreen,
         board'.confirm \/ board'.active # {} => board'.draft \in BoardDraft
  PROVE  BoardInv'
<1>1. StepsSound'
  BY BoardGestureStays DEF Local
<1>2. BackendSound' /\ OpsSound'
  BY DEF Local, BoardInv, BackendSound, OpsSound
<1> QED
  BY <1>1, <1>2 DEF BoardInv, BoardSound

LEMMA ScreenFields ==
  ASSUME BoardInv
  PROVE  /\ board \in BoardScreen
         /\ board.draft \in BoardDraft \cup {Nothing} /\ board.known \in BoardCatalog
         /\ board.active \in SUBSET (Pinned \cup Picked)
         /\ board.publication \in Nat \cup {Nothing} /\ board.publications \in SUBSET Nat
         /\ board.shares \in SUBSET BoardShare
         /\ board.busy \in BOOLEAN /\ board.confirm \in BOOLEAN /\ board.lock \in BOOLEAN
         /\ board.keep \in BOOLEAN /\ board.first \in BOOLEAN
         /\ board.confirm \/ board.active # {} => board.draft \in BoardDraft
<1>1. board \in BoardScreen /\ (board.confirm \/ board.active # {} => board.draft \in BoardDraft)
  BY DEF BoardInv, BoardSound
<1> QED
  BY <1>1 DEF BoardScreen

LEMMA OpenFits ==
  ASSUME BoardInv, NEW value \in BoardDraft \cup {Nothing}
  PROVE  /\ Open(value) \in BoardScreen /\ ~Open(value).confirm /\ Open(value).draft = value
         /\ Open(value).active # {} => value \in BoardDraft
<1>1. value # Nothing => value.body.defaults \in SUBSET (Pinned \cup Picked)
  BY DEF BoardDraft, Body
<1> DEFINE active == IF value = Nothing THEN {} ELSE value.body.defaults
<1>2. active \in SUBSET (Pinned \cup Picked) /\ (active # {} => value \in BoardDraft)
  BY <1>1
<1>3. Open(value) =
        [board EXCEPT !.draft = value, !.active = active, !.publication = Nothing,
                      !.publications = {}, !.shares = {}, !.confirm = FALSE]
  BY DEF Open
<1> HIDE DEF active
<1> QED
  BY <1>2, <1>3, ScreenFields DEF BoardScreen

LEMMA FromCatalogFits ==
  ASSUME BoardInv, NEW b \in Boards \cup {Nothing}
  PROVE  FromCatalog(b) \in BoardDraft \cup {Nothing}
<1>1. CASE b = Nothing \/ board.known[b] = Nothing
  BY <1>1 DEF FromCatalog
<1>2. CASE ~(b = Nothing \/ board.known[b] = Nothing)
  <2>1. board.known[b] \in SavedBoard /\ b \in Boards
    BY <1>2, ScreenFields DEF BoardCatalog
  <2> DEFINE v == board.known[b]
  <2>2. FromCatalog(b) = [id |-> b, named |-> TRUE, revision |-> v.revision, body |-> v.body]
    BY <1>2 DEF FromCatalog
  <2>3. v.revision \in Nat /\ v.body \in Body
    BY <2>1 DEF SavedBoard
  <2> HIDE DEF v
  <2> QED
    BY <2>1, <2>2, <2>3 DEF BoardDraft
<1> QED
  BY <1>1, <1>2

(* An edit of the draft's content.                                         *)
LEMMA BoardPatchStays ==
  ASSUME BoardInv, board.draft # Nothing, NEW body \in Body, Patch(body), Local
  PROVE  BoardInv'
<1> DEFINE d == [board.draft EXCEPT !.body = body]
<1>1. d \in BoardDraft
  BY ScreenFields DEF BoardDraft
<1>2. board' = [board EXCEPT !.draft = d]
  BY DEF Patch
<1> HIDE DEF d
<1>3. board' \in BoardScreen /\ board'.draft = d
  BY <1>1, <1>2, ScreenFields DEF BoardScreen
<1> QED
  BY <1>1, <1>3, BoardLocalStays

LEMMA DraftBody ==
  ASSUME BoardInv, board.draft # Nothing
  PROVE  /\ board.draft \in BoardDraft /\ board.draft.id \in Boards /\ board.draft.revision \in Nat
         /\ board.draft.body \in Body /\ board.draft.body.widgets \in Seq(Widget)
         /\ LaidOut(board.draft.body.widgets)
         /\ board.draft.body.control \in {Nothing} \cup SUBSET WidgetIds
         /\ board.draft.body.defaults \in SUBSET Pinned
<1>1. board.draft \in BoardDraft /\ board.draft.body \in Body /\ board.draft.id \in Boards
      /\ board.draft.revision \in Nat
  BY ScreenFields DEF BoardDraft
<1> QED
  BY <1>1 DEF Body

(* Every change of the widgets places them anew.                           *)
LEMMA PlacedStays ==
  ASSUME BoardInv, board.draft # Nothing, NEW wl \in Seq(Widget), Placed(wl), Local
  PROVE  BoardInv'
<1> DEFINE b == [board.draft.body EXCEPT !.widgets = PlaceWidgets(wl)]
<1>1. PlaceWidgets(wl) \in {w \in Seq(Widget) : LaidOut(w)}
  BY PlacedLaidOut
<1>2. b \in Body
  BY <1>1, DraftBody DEF Body
<1>3. Patch(b)
  BY DEF Placed
<1> HIDE DEF b
<1> QED
  BY <1>2, <1>3, BoardPatchStays

LEMMA WithoutIs ==
  ASSUME NEW wl \in Seq(Widget), NEW i \in 1..Len(wl)
  PROVE  Without(wl, i) \in Seq(Widget)
<1>1. Len(wl) \in Nat /\ \A j \in 1..Len(wl) : wl[j] \in Widget
  BY LenProperties, ElementOfSeq
<1>2. SubSeq(wl, 1, i - 1) \in Seq(Widget)
  <2>1. i - 1 \in Int /\ \A j \in 1..(i - 1) : wl[j] \in Widget
    BY <1>1
  <2> QED
    BY <2>1, SubSeqProperties
<1>3. SubSeq(wl, i + 1, Len(wl)) \in Seq(Widget)
  <2>1. i + 1 \in Int /\ Len(wl) \in Int /\ \A j \in (i + 1)..Len(wl) : wl[j] \in Widget
    BY <1>1
  <2> QED
    BY <2>1, SubSeqProperties
<1> QED
  BY <1>2, <1>3, ConcatProperties DEF Without

LEMMA ChoosingStays ==
  ASSUME BoardInv, ChooseBoard \/ NewBoard \/ ReloadBoard
  PROVE  BoardInv'
<1>1. ASSUME NEW value \in BoardDraft \cup {Nothing}, board' = Open(value), Local
      PROVE  BoardInv'
  BY <1>1, OpenFits, BoardLocalStays
<1>2. CASE ChooseBoard
  BY <1>1, <1>2, FromCatalogFits DEF ChooseBoard
<1>3. CASE NewBoard
  <2>1. PICK b \in Boards :
          board' = Open([id |-> b, named |-> FALSE, revision |-> 0, body |-> Empty])
    BY <1>3 DEF NewBoard
  <2>2. [id |-> b, named |-> FALSE, revision |-> 0, body |-> Empty] \in BoardDraft
    BY EmptyFits DEF BoardDraft
  <2> QED
    BY <1>1, <1>3, <2>1, <2>2 DEF NewBoard
<1>4. CASE ReloadBoard
  BY <1>1, <1>4, FromCatalogFits, DraftBody DEF ReloadBoard
<1> QED
  BY <1>2, <1>3, <1>4

LEMMA LayoutStays ==
  ASSUME BoardInv,
         AddWidget \/ MoveWidget \/ RemoveWidget \/ ResizeWidget \/ TargetWidget
  PROVE  BoardInv'
<1> DEFINE wl == board.draft.body.widgets
<1>1. board.draft # Nothing /\ Local
  BY DEF AddWidget, MoveWidget, RemoveWidget, ResizeWidget, TargetWidget
<1>2. wl \in Seq(Widget) /\ Len(wl) \in Nat /\ \A i \in 1..Len(wl) : wl[i] \in Widget
  BY <1>1, DraftBody, LenProperties, ElementOfSeq
<1>3. ASSUME NEW vs \in Seq(Widget), Placed(vs) PROVE BoardInv'
  BY <1>1, <1>3, PlacedStays
<1>4. CASE AddWidget
  <2>1. PICK id \in WidgetIds, c \in Offered :
          Placed(Append(wl,
            [id |-> id, chart |-> c, targets |-> {}, x |-> 0, y |-> 0,
             w |-> IF c = Nothing THEN Columns ELSE 6, h |-> IF c = Nothing THEN 1 ELSE 4]))
    BY <1>4 DEF AddWidget
  <2> DEFINE wide == IF c = Nothing THEN Columns ELSE 6
             high == IF c = Nothing THEN 1 ELSE 4
             new == [id |-> id, chart |-> c, targets |-> {}, x |-> 0, y |-> 0,
                     w |-> wide, h |-> high]
  <2>2. wide \in 1..Columns /\ high \in 1..Columns /\ 0 \in 0..Columns /\ 0 \in Nat
    BY DEF Columns
  <2>3. c \in BoardCharts \cup {Nothing}
    BY DEF Offered
  <2>4. Placed(Append(wl, new))
    BY <2>1
  <2> HIDE DEF wide, high, wl
  <2>5. new \in Widget
    BY <2>2, <2>3 DEF Widget
  <2> HIDE DEF new
  <2>6. Append(wl, new) \in Seq(Widget)
    BY <1>2, <2>5, AppendProperties
  <2> QED
    BY <1>3, <2>4, <2>6
<1>5. CASE MoveWidget
  <2>1. PICK from, to \in 1..Len(wl) :
          LET rest == Without(wl, from)
          IN  Placed(SubSeq(rest, 1, to - 1) \o <<wl[from]>> \o SubSeq(rest, to, Len(rest)))
    BY <1>5 DEF MoveWidget
  <2> DEFINE rest == Without(wl, from)
             before == SubSeq(rest, 1, to - 1)
             after == SubSeq(rest, to, Len(rest))
  <2>2. rest \in Seq(Widget) /\ Len(rest) \in Nat
    BY <1>2, WithoutIs, LenProperties
  <2>3. to - 1 \in Nat /\ to - 1 <= Len(rest)
    <3>1. Len(SubSeq(wl, 1, from - 1)) = from - 1
      <4> HIDE DEF wl
      <4>1. from - 1 \in Int /\ \A j \in 1..(from - 1) : wl[j] \in Widget
        BY <1>2
      <4>2. Len(SubSeq(wl, 1, from - 1)) = IF 1 <= from - 1 THEN from - 1 - 1 + 1 ELSE 0
        BY <4>1, SubSeqProperties
      <4> QED
        BY <1>2, <4>2
    <3>2. Len(SubSeq(wl, from + 1, Len(wl))) = Len(wl) - from
      <4> HIDE DEF wl
      <4>1. from + 1 \in Int /\ Len(wl) \in Int /\ \A j \in (from + 1)..Len(wl) : wl[j] \in Widget
        BY <1>2
      <4>2. Len(SubSeq(wl, from + 1, Len(wl)))
              = IF from + 1 <= Len(wl) THEN Len(wl) - (from + 1) + 1 ELSE 0
        BY <4>1, SubSeqProperties
      <4> QED
        BY <1>2, <4>2
    <3>3. SubSeq(wl, 1, from - 1) \in Seq(Widget) /\ SubSeq(wl, from + 1, Len(wl)) \in Seq(Widget)
      <4> HIDE DEF wl
      <4>1. from - 1 \in Int /\ \A j \in 1..(from - 1) : wl[j] \in Widget
        BY <1>2
      <4>2. from + 1 \in Int /\ Len(wl) \in Int /\ \A j \in (from + 1)..Len(wl) : wl[j] \in Widget
        BY <1>2
      <4>3. SubSeq(wl, 1, from - 1) \in Seq(Widget)
        BY <4>1, SubSeqProperties
      <4>4. SubSeq(wl, from + 1, Len(wl)) \in Seq(Widget)
        BY <4>2, SubSeqProperties
      <4> QED
        BY <4>3, <4>4
    <3>4. Len(rest) = (from - 1) + (Len(wl) - from)
      <4> HIDE DEF wl
      <4>1. rest = SubSeq(wl, 1, from - 1) \o SubSeq(wl, from + 1, Len(wl))
        BY DEF Without
      <4> HIDE DEF rest
      <4> DEFINE u == SubSeq(wl, 1, from - 1)
                 v == SubSeq(wl, from + 1, Len(wl))
      <4>2. u \in Seq(Widget) /\ v \in Seq(Widget) /\ rest = u \o v
        BY <3>3, <4>1
      <4>3. Len(u) = from - 1 /\ Len(v) = Len(wl) - from
        BY <3>1, <3>2
      <4> HIDE DEF u, v
      <4>4. Len(u \o v) = Len(u) + Len(v)
        BY <4>2, ConcatProperties
      <4> QED
        BY <4>2, <4>3, <4>4
    <3> HIDE DEF rest, wl
    <3> QED
      BY <1>2, <3>4
  <2>4. \A j \in 1..Len(rest) : rest[j] \in Widget
    BY <2>2, ElementOfSeq
  <2>5. before \in Seq(Widget)
    <3> HIDE DEF rest
    <3>1. to - 1 \in Int /\ \A j \in 1..(to - 1) : rest[j] \in Widget
      BY <2>2, <2>3, <2>4
    <3> QED
      BY <3>1, SubSeqProperties
  <2>6. after \in Seq(Widget)
    <3> HIDE DEF rest
    <3>1. to \in Int /\ Len(rest) \in Int /\ \A j \in to..Len(rest) : rest[j] \in Widget
      BY <2>2, <2>4
    <3> QED
      BY <3>1, SubSeqProperties
  <2>7. <<wl[from]>> \in Seq(Widget)
    BY <1>2
  <2>8. before \o <<wl[from]>> \o after \in Seq(Widget)
    <3> HIDE DEF before, after, wl
    <3>1. before \o <<wl[from]>> \in Seq(Widget)
      BY <2>5, <2>7, ConcatProperties
    <3> QED
      BY <2>6, <3>1, ConcatProperties
  <2>9. Placed(before \o <<wl[from]>> \o after)
    BY <2>1
  <2> HIDE DEF before, after, wl
  <2> QED
    BY <1>3, <2>8, <2>9
<1>6. CASE RemoveWidget
  <2>1. PICK i \in 1..Len(wl) : Placed(Without(wl, i))
    BY <1>6 DEF RemoveWidget
  <2> QED
    BY <1>2, <1>3, <2>1, WithoutIs
<1>7. CASE ResizeWidget
  <2>1. PICK i \in 1..Len(wl) :
          Placed([wl EXCEPT ![i].w = IF @ = 6 THEN 5 ELSE @, ![i].h = IF @ = 4 THEN 6 ELSE @])
    BY <1>7 DEF ResizeWidget
  <2> DEFINE wide == IF wl[i].w = 6 THEN 5 ELSE wl[i].w
             high == IF wl[i].h = 4 THEN 6 ELSE wl[i].h
             new == [wl[i] EXCEPT !.w = wide, !.h = high]
  <2>2. wl[i] \in Widget /\ DOMAIN wl = 1..Len(wl)
    BY <1>2, LenProperties
  <2>3. wide \in 1..Columns /\ high \in 1..Columns
    <3>1. wl[i].w \in 1..12 /\ wl[i].h \in 1..12
      BY <2>2 DEF Widget, Columns
    <3> HIDE DEF wl
    <3> QED
      BY <3>1 DEF Columns
  <2>4. new \in Widget
    <3> HIDE DEF wide, high
    <3> QED
      BY <2>2, <2>3 DEF Widget
  <2>5. [wl EXCEPT ![i].w = IF @ = 6 THEN 5 ELSE @, ![i].h = IF @ = 4 THEN 6 ELSE @]
          = [wl EXCEPT ![i] = new]
    <3> HIDE DEF wl
    <3> QED
      BY <2>2 DEF new, wide, high, Widget
  <2>6. Placed([wl EXCEPT ![i] = new])
    BY <2>1, <2>5
  <2> HIDE DEF new, wl
  <2>7. [wl EXCEPT ![i] = new] \in Seq(Widget)
    BY <1>2, <2>4, ExceptSeq
  <2> QED
    BY <1>3, <2>6, <2>7
<1>8. CASE TargetWidget
  <2>1. PICK i, j \in 1..Len(wl) : Placed([wl EXCEPT ![i].targets = @ \cup {wl[j].id}])
    BY <1>8 DEF TargetWidget
  <2> DEFINE new == [wl[i] EXCEPT !.targets = @ \cup {wl[j].id}]
  <2>2. wl[i] \in Widget /\ wl[j] \in Widget
    BY <1>2
  <2>3. new \in Widget
    BY <2>2 DEF Widget
  <2>4. [wl EXCEPT ![i].targets = @ \cup {wl[j].id}] = [wl EXCEPT ![i] = new]
    OBVIOUS
  <2>5. Placed([wl EXCEPT ![i] = new])
    BY <2>1, <2>4
  <2> HIDE DEF new, wl
  <2>6. [wl EXCEPT ![i] = new] \in Seq(Widget)
    BY <1>2, <2>3, ExceptSeq
  <2> QED
    BY <1>3, <2>5, <2>6
<1> QED
  BY <1>4, <1>5, <1>6, <1>7, <1>8

LEMMA BoardEditsStay ==
  ASSUME BoardInv,
         NameBoard \/ AddControl \/ TargetControl \/ RemoveControl \/ PickInBoard
         \/ ToggleKeep \/ ToggleLock \/ AskDelete
  PROVE  BoardInv'
<1>1. CASE NameBoard
  <2>1. board' = [board EXCEPT !.draft = [board.draft EXCEPT !.named = ~@]]
    BY <1>1 DEF NameBoard
  <2>2. [board.draft EXCEPT !.named = ~@] \in BoardDraft
    BY <1>1, DraftBody DEF NameBoard, BoardDraft
  <2>3. board' \in BoardScreen /\ board'.draft \in BoardDraft
    BY <2>1, <2>2, ScreenFields DEF BoardScreen
  <2> QED
    BY <1>1, <2>3, BoardLocalStays DEF NameBoard
<1>2. ASSUME board.draft # Nothing, Local, NEW control \in {Nothing} \cup SUBSET WidgetIds,
             Patch([board.draft.body EXCEPT !.control = control])
      PROVE  BoardInv'
  <2>1. [board.draft.body EXCEPT !.control = control] \in Body
    BY <1>2, DraftBody DEF Body
  <2> QED
    BY <1>2, <2>1, BoardPatchStays
<1>3. CASE AddControl
  BY <1>2, <1>3 DEF AddControl
<1>4. CASE TargetControl
  <2> DEFINE b == board.draft.body
  <2>1. PICK i \in 1..Len(b.widgets) :
          Patch([b EXCEPT !.control = @ \cup {b.widgets[i].id}])
    BY <1>4 DEF TargetControl
  <2>2. b.widgets[i] \in Widget
    BY <1>4, DraftBody, ElementOfSeq DEF TargetControl
  <2>3. b.control \cup {b.widgets[i].id} \in SUBSET WidgetIds
    BY <1>4, <2>2, DraftBody DEF TargetControl, Widget
  <2> QED
    BY <1>2, <1>4, <2>1, <2>3 DEF TargetControl
<1>5. CASE RemoveControl
  BY <1>2, <1>5 DEF RemoveControl
<1>6. CASE PickInBoard
  <2>1. CASE \E f \in FilterFields, w \in Ids(board.draft.body) \cup {Nothing} :
               board' = [board EXCEPT !.active = @ \cup {[field |-> f, source |-> w]}]
    <3>1. PICK f \in FilterFields, w \in Ids(board.draft.body) \cup {Nothing} :
            board' = [board EXCEPT !.active = @ \cup {[field |-> f, source |-> w]}]
      BY <2>1
    <3>2. Ids(board.draft.body) \subseteq WidgetIds
      <4>1. board.draft.body.widgets \in Seq(Widget)
        BY <1>6, DraftBody DEF PickInBoard
      <4>2. \A i \in 1..Len(board.draft.body.widgets) : board.draft.body.widgets[i] \in Widget
        BY <4>1, ElementOfSeq
      <4> QED
        BY <4>2 DEF Ids, Widget
    <3>3. board.active \cup {[field |-> f, source |-> w]} \in SUBSET (Pinned \cup Picked)
      BY <3>2, ScreenFields DEF Picked
    <3>4. board' \in BoardScreen /\ board'.draft = board.draft /\ board'.confirm = board.confirm
      BY <3>1, <3>3, ScreenFields DEF BoardScreen
    <3> QED
      BY <1>6, <3>4, DraftBody, BoardLocalStays DEF PickInBoard
  <2>2. CASE board' = [board EXCEPT !.active = {}]
    <3>1. board' \in BoardScreen /\ board'.draft = board.draft /\ board'.confirm = board.confirm
      BY <2>2, ScreenFields DEF BoardScreen
    <3> QED
      BY <1>6, <3>1, DraftBody, BoardLocalStays DEF PickInBoard
  <2> QED
    BY <1>6, <2>1, <2>2 DEF PickInBoard
<1>7. CASE ToggleKeep
  <2>1. board' = [board EXCEPT !.keep = ~@]
    BY <1>7 DEF ToggleKeep
  <2>2. /\ board' \in BoardScreen /\ board'.draft = board.draft /\ board'.confirm = board.confirm
        /\ board'.active = board.active
    BY <2>1, ScreenFields DEF BoardScreen
  <2> QED
    BY <1>7, <2>2, ScreenFields, BoardLocalStays DEF ToggleKeep
<1>8. CASE ToggleLock
  <2>1. board' = [board EXCEPT !.lock = ~@]
    BY <1>8 DEF ToggleLock
  <2>2. /\ board' \in BoardScreen /\ board'.draft = board.draft /\ board'.confirm = board.confirm
        /\ board'.active = board.active
    BY <2>1, ScreenFields DEF BoardScreen
  <2> QED
    BY <1>8, <2>2, ScreenFields, BoardLocalStays DEF ToggleLock
<1>9. CASE AskDelete
  <2>1. board' = [board EXCEPT !.confirm = ~@]
    BY <1>9 DEF AskDelete
  <2>2. board' \in BoardScreen /\ board'.draft = board.draft
    BY <2>1, ScreenFields DEF BoardScreen
  <2> QED
    BY <1>9, <2>2, DraftBody, BoardLocalStays DEF AskDelete
<1> QED
  BY <1>1, <1>3, <1>4, <1>5, <1>6, <1>7, <1>8, <1>9

-----------------------------------------------------------------------------
(* What is sent.                                                           *)
BoardBusy == [board EXCEPT !.busy = TRUE]
LEMMA BoardSendStays ==
  ASSUME BoardInv, BoardGesture, board' = board \/ board' = BoardBusy,
         NEW kind, NEW arg, Send(kind, arg),
         ArgSound([kind |-> kind, arg |-> arg, stage |-> "sent", answer |-> Nothing])
  PROVE  BoardInv'
<1>1. BackendSound' /\ StepsSound'
  BY BoardGestureStays DEF Send, BoardInv, BackendSound
<1>2. BoardSound'
  <2>1. /\ board' \in BoardScreen /\ board'.draft = board.draft /\ board'.confirm = board.confirm
        /\ board'.active = board.active
    BY ScreenFields DEF BoardScreen, BoardBusy
  <2> QED
    BY <2>1, ScreenFields DEF BoardSound
<1>3. OpsSound'
  <2> DEFINE op == [kind |-> kind, arg |-> arg, stage |-> "sent", answer |-> Nothing]
  <2>1. OpSound(op)
    BY DEF OpSound
  <2> HIDE DEF op
  <2>2. ops' = ops \cup {op}
    BY DEF Send, op
  <2> QED
    BY <2>1, <2>2 DEF BoardInv, OpsSound
<1> QED
  BY <1>1, <1>2, <1>3 DEF BoardInv

LEMMA ScopedFit ==
  ASSUME BoardInv
  PROVE  ScopedFilters \in SUBSET Pinned
<1>0. SUFFICES ASSUME board.active # {} PROVE ScopedFilters \in SUBSET Pinned
  BY DEF ScopedFilters
<1> DEFINE wl == board.draft.body.widgets
<1>1. wl \in Seq(Widget)
  <2>1. board.draft \in BoardDraft
    BY <1>0, ScreenFields
  <2> QED
    BY <2>1 DEF BoardDraft, Body
<1>2. \A i \in 1..Len(wl) : wl[i] \in Widget
  BY <1>1, ElementOfSeq
<1>3. \A f \in board.active : PinnedTo(f) \subseteq WidgetIds
  BY <1>2 DEF PinnedTo, Widget
<1>4. \A f \in board.active : f.field \in FilterFields
  BY ScreenFields DEF Pinned, Picked
<1> QED
  BY <1>3, <1>4 DEF ScopedFilters, Pinned

LEMMA BoardSendsStay ==
  ASSUME BoardInv,
         ReloadLists \/ SaveBoard \/ ConfirmDelete \/ PublishBoard \/ LoadPublications
         \/ ChoosePublication \/ CreateLink \/ RefreshShares \/ RevokeLink
  PROVE  BoardInv'
<1>1. CASE ReloadLists
  BY <1>1, BoardSendStays DEF ReloadLists, ArgSound, BoardBusy
<1>2. CASE SaveBoard
  <2> DEFINE body == [board.draft.body EXCEPT !.defaults = IF board.keep THEN ScopedFilters ELSE @]
             arg == [id |-> board.draft.id, revision |-> SaveRevision,
                     from |-> board.draft.revision, body |-> body]
  <2>1. board.draft # Nothing
    BY <1>2 DEF SaveBoard, MaySaveBoard
  <2>2. body \in Body
    <3> DEFINE ds == IF board.keep THEN ScopedFilters ELSE board.draft.body.defaults
    <3>1. ds \in SUBSET Pinned
      BY <2>1, ScopedFit, DraftBody
    <3>2. body = [board.draft.body EXCEPT !.defaults = ds]
      OBVIOUS
    <3> HIDE DEF ds, body
    <3> QED
      BY <2>1, <3>1, <3>2, DraftBody DEF Body
  <2>3. Send("save", arg)
    BY <1>2 DEF SaveBoard
  <2> HIDE DEF body
  <2>4. arg \in SaveArgs
    BY <2>1, <2>2, DraftBody DEF SaveArgs, SaveRevision
  <2> HIDE DEF arg
  <2> QED
    BY <1>2, <2>3, <2>4, BoardSendStays DEF SaveBoard, ArgSound, BoardBusy
<1>3. CASE ConfirmDelete
  <2>1. board.draft.id \in Boards /\ board.draft.revision \in Nat
    BY <1>3, ScreenFields DEF ConfirmDelete, BoardDraft
  <2> DEFINE arg == [id |-> board.draft.id, revision |-> board.draft.revision]
  <2>2. arg \in [id: Boards, revision: Nat] /\ Send("delete", arg)
    BY <1>3, <2>1 DEF ConfirmDelete
  <2> HIDE DEF arg
  <2> QED
    BY <1>3, <2>2, BoardSendStays DEF ConfirmDelete, ArgSound, BoardBusy
<1>4. CASE PublishBoard
  <2>1. board.draft.id \in Boards /\ board.draft.revision \in Nat \ {0}
    BY <1>4, DraftBody DEF PublishBoard
  <2> DEFINE arg == [id |-> board.draft.id, revision |-> board.draft.revision]
  <2>2. arg \in [id: Boards, revision: Nat \ {0}] /\ Send("publish", arg)
    BY <1>4, <2>1 DEF PublishBoard
  <2> HIDE DEF arg
  <2> QED
    BY <1>4, <2>2, BoardSendStays DEF PublishBoard, ArgSound, BoardBusy
<1>5. CASE LoadPublications
  BY <1>5, BoardSendStays DEF LoadPublications, ArgSound
<1>6. CASE ChoosePublication
  <2>1. PICK p \in board.publications : Send("publication", p)
    BY <1>6 DEF ChoosePublication
  <2>2. p \in Nat
    BY ScreenFields
  <2> QED
    BY <1>6, <2>1, <2>2, BoardSendStays DEF ChoosePublication, ArgSound
<1>7. CASE CreateLink
  <2> DEFINE fs == IF board.lock THEN ScopedFilters ELSE {}
             arg == [publication |-> board.publication, filters |-> fs]
  <2>1. fs \in SUBSET Pinned
    BY ScopedFit
  <2>2. Send("share", arg)
    BY <1>7 DEF CreateLink
  <2> HIDE DEF fs
  <2>3. arg \in [publication: Nat, filters: SUBSET Pinned]
    BY <1>7, <2>1, ScreenFields DEF CreateLink
  <2> HIDE DEF arg
  <2> QED
    BY <1>7, <2>2, <2>3, BoardSendStays DEF CreateLink, ArgSound, BoardBusy
<1>8. CASE RefreshShares
  <2>1. board.publication \in Nat
    BY <1>8, ScreenFields DEF RefreshShares
  <2> QED
    BY <1>8, <2>1, BoardSendStays DEF RefreshShares, ArgSound
<1>9. CASE RevokeLink
  <2>1. PICK s \in board.shares : Send("revoke", s)
    BY <1>9 DEF RevokeLink
  <2>2. s \in BoardShare
    BY ScreenFields
  <2> QED
    BY <1>9, <2>1, <2>2, BoardSendStays DEF RevokeLink, ArgSound
<1> QED
  BY <1>1, <1>2, <1>3, <1>4, <1>5, <1>6, <1>7, <1>8, <1>9

-----------------------------------------------------------------------------
(* The server's steps leave the screen alone.                              *)
BoardBackends == [saved: BoardCatalog, pubs: Seq(PublishedBoard), shares: SUBSET BoardShare]
LEMMA BackendFields ==
  ASSUME BoardInv
  PROVE  /\ backend \in BoardBackends /\ backend.saved \in BoardCatalog
         /\ backend.pubs \in Seq(PublishedBoard) /\ backend.shares \in SUBSET BoardShare
         /\ Len(backend.pubs) \in Nat /\ Len(backend.pubs) <= Publications
         /\ \A b \in Boards : RevisionOf(b) \in Nat
         /\ \A b \in Boards : backend.saved[b] # Nothing => backend.saved[b] \in SavedBoard
<1>1. backend \in BoardBackends /\ Len(backend.pubs) <= Publications
  BY DEF BoardInv, BackendSound, BoardBackends
<1>2. backend.saved \in BoardCatalog /\ backend.pubs \in Seq(PublishedBoard)
      /\ backend.shares \in SUBSET BoardShare
  BY <1>1 DEF BoardBackends
<1>3. \A b \in Boards : backend.saved[b] # Nothing => backend.saved[b] \in SavedBoard
  BY <1>2 DEF BoardCatalog
<1>4. \A b \in Boards : RevisionOf(b) \in Nat
  BY <1>3 DEF RevisionOf, SavedBoard
<1> QED
  BY <1>1, <1>2, <1>3, <1>4

LEMMA OpOf ==
  ASSUME BoardInv, NEW op \in ops
  PROVE  OpSound(op) /\ ArgSound(op)
         /\ op = [kind |-> op.kind, arg |-> op.arg, stage |-> op.stage, answer |-> op.answer]
  BY DEF BoardInv, OpsSound, OpSound

LEMMA BoardServeStays ==
  ASSUME BoardInv, NEW op \in ops, NEW state, NEW answer, Serve(op, state, answer),
         state \in BoardBackends, Len(state.pubs) <= Publications,
         AnswerSound([kind |-> op.kind, arg |-> op.arg, stage |-> "served", answer |-> answer])
  PROVE  BoardInv'
<1>1. BackendSound'
  BY DEF Serve, BackendSound, BoardBackends
<1>2. BoardSound' /\ StepsSound'
  BY DEF Serve, BoardInv, BoardSound, StepsSound
<1>3. OpsSound'
  <2> DEFINE new == [op EXCEPT !.stage = "served", !.answer = answer]
             kind == op.kind
             arg == op.arg
             stage == op.stage
             old == op.answer
  <2>1. new = [kind |-> op.kind, arg |-> op.arg, stage |-> "served", answer |-> answer]
    <3>1. op = [kind |-> kind, arg |-> arg, stage |-> stage, answer |-> old]
      BY OpOf
    <3> HIDE DEF kind, arg, stage, old
    <3> DEFINE r == [kind |-> kind, arg |-> arg, stage |-> stage, answer |-> old]
    <3>2. [r EXCEPT !.stage = "served", !.answer = answer]
            = [kind |-> kind, arg |-> arg, stage |-> "served", answer |-> answer]
      <4> DEFINE q == [r EXCEPT !.stage = "served"]
      <4>1. q = [kind |-> kind, arg |-> arg, stage |-> "served", answer |-> old]
        OBVIOUS
      <4>2. [r EXCEPT !.stage = "served", !.answer = answer] = [q EXCEPT !.answer = answer]
        OBVIOUS
      <4> HIDE DEF q
      <4>3. [q EXCEPT !.answer = answer]
              = [kind |-> kind, arg |-> arg, stage |-> "served", answer |-> answer]
        BY <4>1
      <4> QED
        BY <4>2, <4>3
    <3>3. op = r
      BY <3>1
    <3> HIDE DEF r
    <3>4. new = [kind |-> kind, arg |-> arg, stage |-> "served", answer |-> answer]
      BY <3>2, <3>3
    <3> HIDE DEF new
    <3> QED
      BY <3>4 DEF kind, arg
  <2>2. ops' \subseteq ops \cup {new}
    BY DEF Serve
  <2>3. AnswerSound(new)
    BY <2>1
  <2> HIDE DEF new, kind, arg, stage, old
  <2>4. ArgSound(new)
    BY <2>1, OpOf DEF ArgSound
  <2>5. OpSound(new)
    BY <2>1, <2>3, <2>4 DEF OpSound
  <2> QED
    BY <2>2, <2>5 DEF BoardInv, OpsSound
<1> QED
  BY <1>1, <1>2, <1>3 DEF BoardInv

LEMMA RefuseStays ==
  ASSUME BoardInv, NEW op \in ops, Refuse(op)
  PROVE  BoardInv'
<1>1. BackendSound' /\ BoardSound' /\ StepsSound'
  BY DEF Refuse, BoardInv, BackendSound, BoardSound, StepsSound
<1>2. OpsSound'
  <2> DEFINE new == [op EXCEPT !.stage = "failed"]
  <2>1. new = [kind |-> op.kind, arg |-> op.arg, stage |-> "failed", answer |-> op.answer]
    BY OpOf
  <2>2. ops' \subseteq ops \cup {new}
    BY DEF Refuse
  <2> HIDE DEF new
  <2>3. OpSound(new)
    BY <2>1, OpOf DEF ArgSound, OpSound
  <2> QED
    BY <2>2, <2>3 DEF BoardInv, OpsSound
<1> QED
  BY <1>1, <1>2 DEF BoardInv

LEMMA SavingStays ==
  ASSUME BoardInv, ServeSave
  PROVE  BoardInv'
<1>1. PICK op \in Sent("save") :
        IF op.arg.revision = RevisionOf(op.arg.id) /\ Valid(op.arg.body)
        THEN LET value == [revision |-> op.arg.revision + 1, from |-> op.arg.from,
                           body |-> op.arg.body]
             IN  Serve(op, [backend EXCEPT !.saved[op.arg.id] = value], value)
        ELSE Refuse(op)
  BY DEF ServeSave
<1>2. op \in ops /\ op.kind = "save" /\ op.arg \in SaveArgs
  BY OpOf DEF Sent, ArgSound
<1>3. CASE Refuse(op)
  BY <1>2, <1>3, RefuseStays
<1>4. CASE ~Refuse(op)
  <2> DEFINE value == [revision |-> op.arg.revision + 1, from |-> op.arg.from, body |-> op.arg.body]
             saved == [backend.saved EXCEPT ![op.arg.id] = value]
             state == [backend EXCEPT !.saved = saved]
  <2>1. Serve(op, [backend EXCEPT !.saved[op.arg.id] = value], value)
    BY <1>1, <1>4
  <2>2. [backend EXCEPT !.saved[op.arg.id] = value] = state
    OBVIOUS
  <2>3. value \in SavedBoard /\ op.arg.id \in Boards
    BY <1>2 DEF SaveArgs, SavedBoard
  <2> HIDE DEF value
  <2>4. saved \in BoardCatalog
    BY <2>3, BackendFields DEF BoardCatalog
  <2> HIDE DEF saved
  <2>5. state \in BoardBackends /\ state.pubs = backend.pubs
    BY <2>4, BackendFields DEF BoardBackends
  <2> HIDE DEF state
  <2>6. AnswerSound([kind |-> op.kind, arg |-> op.arg, stage |-> "served",
                     answer |-> value])
    BY <1>2, <2>3 DEF AnswerSound
  <2> QED
    BY <1>2, <2>1, <2>2, <2>5, <2>6, BackendFields, BoardServeStays
<1> QED
  BY <1>3, <1>4

LEMMA DeletingStays ==
  ASSUME BoardInv, ServeDelete
  PROVE  BoardInv'
<1>1. PICK op \in Sent("delete") :
        IF op.arg.revision = RevisionOf(op.arg.id)
        THEN Serve(op, [backend EXCEPT !.saved[op.arg.id] = Nothing], Nothing)
        ELSE Refuse(op)
  BY DEF ServeDelete
<1>2. op \in ops /\ op.kind = "delete" /\ op.arg.id \in Boards
  BY OpOf DEF Sent, ArgSound
<1>3. CASE Refuse(op)
  BY <1>2, <1>3, RefuseStays
<1>4. CASE ~Refuse(op)
  <2> DEFINE saved == [backend.saved EXCEPT ![op.arg.id] = Nothing]
             state == [backend EXCEPT !.saved = saved]
  <2>1. Serve(op, state, Nothing)
    BY <1>1, <1>4
  <2>2. saved \in BoardCatalog
    BY <1>2, BackendFields DEF BoardCatalog
  <2> HIDE DEF saved
  <2>3. state \in BoardBackends /\ state.pubs = backend.pubs
    BY <2>2, BackendFields DEF BoardBackends
  <2> HIDE DEF state
  <2>4. AnswerSound([kind |-> op.kind, arg |-> op.arg, stage |-> "served",
                     answer |-> Nothing])
    BY <1>2 DEF AnswerSound
  <2> QED
    BY <1>2, <2>1, <2>3, <2>4, BackendFields, BoardServeStays
<1> QED
  BY <1>3, <1>4

LEMMA PublishingStays ==
  ASSUME BoardInv, ServePublish
  PROVE  BoardInv'
<1>1. PICK op \in Sent("publish") :
        IF op.arg.revision = RevisionOf(op.arg.id) /\ Len(backend.pubs) < Publications
        THEN Serve(op, [backend EXCEPT !.pubs = Append(@,
               [id |-> op.arg.id, revision |-> op.arg.revision,
                body |-> backend.saved[op.arg.id].body])], Len(backend.pubs) + 1)
        ELSE Refuse(op)
  BY DEF ServePublish
<1>2. /\ op \in ops /\ op.kind = "publish"
      /\ op.arg.id \in Boards /\ op.arg.revision \in Nat \ {0}
  BY OpOf DEF Sent, ArgSound
<1>3. CASE ~(op.arg.revision = RevisionOf(op.arg.id) /\ Len(backend.pubs) < Publications)
  BY <1>1, <1>2, <1>3, RefuseStays
<1>4. CASE op.arg.revision = RevisionOf(op.arg.id) /\ Len(backend.pubs) < Publications
  <2> DEFINE p == [id |-> op.arg.id, revision |-> op.arg.revision,
                   body |-> backend.saved[op.arg.id].body]
             pubs == Append(backend.pubs, p)
             state == [backend EXCEPT !.pubs = pubs]
  <2>1. Serve(op, state, Len(backend.pubs) + 1)
    BY <1>1, <1>4
  <2>2. backend.saved[op.arg.id] \in SavedBoard
    BY <1>2, <1>4, BackendFields DEF RevisionOf
  <2>3. p \in PublishedBoard
    BY <1>2, <2>2 DEF SavedBoard, PublishedBoard
  <2> HIDE DEF p
  <2>4. pubs \in Seq(PublishedBoard) /\ Len(pubs) = Len(backend.pubs) + 1
    BY <2>3, BackendFields, AppendProperties
  <2> HIDE DEF pubs
  <2>5. state \in BoardBackends /\ state.pubs = pubs
    BY <2>4, BackendFields DEF BoardBackends
  <2>6. Len(pubs) <= Publications
    BY <1>4, <2>4, BackendFields, BuilderConstants
  <2> HIDE DEF state
  <2>7. AnswerSound([kind |-> op.kind, arg |-> op.arg, stage |-> "served",
                     answer |-> Len(backend.pubs) + 1])
    BY <1>2, BackendFields DEF AnswerSound
  <2> QED
    BY <1>2, <2>1, <2>5, <2>6, <2>7, BoardServeStays
<1> QED
  BY <1>3, <1>4

LEMMA SharingStays ==
  ASSUME BoardInv, ServeShare \/ ServeRevoke
  PROVE  BoardInv'
<1>1. ASSUME NEW op \in ops, NEW shares \in SUBSET BoardShare, NEW answer \in BoardShare,
             op.kind \in {"share", "revoke"},
             Serve(op, [backend EXCEPT !.shares = shares], answer)
      PROVE  BoardInv'
  <2> DEFINE state == [backend EXCEPT !.shares = shares]
  <2>1. state \in BoardBackends /\ state.pubs = backend.pubs
    BY BackendFields DEF BoardBackends
  <2>2. Serve(op, state, answer)
    BY <1>1
  <2> HIDE DEF state
  <2>3. AnswerSound([kind |-> op.kind, arg |-> op.arg, stage |-> "served",
                     answer |-> answer])
    BY <1>1 DEF AnswerSound
  <2> QED
    BY <2>1, <2>2, <2>3, BackendFields, BoardServeStays
<1>2. CASE ServeShare
  <2>1. PICK op \in Sent("share") :
          LET s == [publication |-> op.arg.publication, revoked |-> FALSE,
                    filters |-> op.arg.filters]
          IN  IF \A f \in op.arg.filters : f.targets \subseteq Ids(backend.pubs[s.publication].body)
              THEN Serve(op, [backend EXCEPT !.shares = @ \cup {s}], s)
              ELSE Refuse(op)
    BY <1>2 DEF ServeShare
  <2>2. op \in ops /\ op.kind = "share" /\ op.arg \in [publication: Nat, filters: SUBSET Pinned]
    BY OpOf DEF Sent, ArgSound
  <2> DEFINE s == [publication |-> op.arg.publication, revoked |-> FALSE,
                   filters |-> op.arg.filters]
  <2>3. Refuse(op) \/ Serve(op, [backend EXCEPT !.shares = @ \cup {s}], s)
    BY <2>1
  <2>4. s \in BoardShare
    BY <2>2 DEF BoardShare
  <2> HIDE DEF s
  <2>5. backend.shares \cup {s} \in SUBSET BoardShare
    BY <2>4, BackendFields
  <2> QED
    BY <1>1, <2>2, <2>3, <2>4, <2>5, RefuseStays
<1>3. CASE ServeRevoke
  <2>1. PICK op \in Sent("revoke") :
          IF op.arg \in backend.shares
          THEN Serve(op, [backend EXCEPT
                 !.shares = (@ \ {op.arg}) \cup {[op.arg EXCEPT !.revoked = TRUE]}], op.arg)
          ELSE Refuse(op)
    BY <1>3 DEF ServeRevoke
  <2>2. op \in ops /\ op.kind = "revoke" /\ op.arg \in BoardShare
    BY OpOf DEF Sent, ArgSound
  <2>3. [op.arg EXCEPT !.revoked = TRUE] \in BoardShare
    BY <2>2 DEF BoardShare
  <2>4. (backend.shares \ {op.arg}) \cup {[op.arg EXCEPT !.revoked = TRUE]} \in SUBSET BoardShare
    BY <2>3, BackendFields
  <2> QED
    BY <1>1, <2>1, <2>2, <2>4, RefuseStays
<1> QED
  BY <1>2, <1>3

LEMMA ReadingStays ==
  ASSUME BoardInv, ServeRead
  PROVE  BoardInv'
<1>1. ASSUME NEW op \in ops, NEW answer, Serve(op, backend, answer),
             AnswerSound([kind |-> op.kind, arg |-> op.arg, stage |-> "served", answer |-> answer])
      PROVE  BoardInv'
  BY <1>1, BackendFields, BoardServeStays
<1>2. CASE \E op \in Sent("list") : Serve(op, backend, backend.saved)
  BY <1>1, <1>2, BackendFields DEF Sent, AnswerSound
<1>3. CASE \E op \in Sent("publications") :
             Serve(op, backend, {p \in 1..Len(backend.pubs) : backend.pubs[p].id = op.arg})
  <2>1. PICK op \in Sent("publications") :
          Serve(op, backend, {p \in 1..Len(backend.pubs) : backend.pubs[p].id = op.arg})
    BY <1>3
  <2>2. {p \in 1..Len(backend.pubs) : backend.pubs[p].id = op.arg} \subseteq Nat
    BY BackendFields
  <2> QED
    BY <1>1, <2>1, <2>2 DEF Sent, AnswerSound
<1>4. CASE \E op \in Sent("publication") \cup Sent("shares") :
             Serve(op, backend, SharesOf(op.arg))
  <2>1. PICK op \in Sent("publication") \cup Sent("shares") :
          Serve(op, backend, SharesOf(op.arg))
    BY <1>4
  <2>2. SharesOf(op.arg) \subseteq BoardShare
    BY BackendFields DEF SharesOf
  <2> QED
    BY <1>1, <2>1, <2>2 DEF Sent, AnswerSound
<1> QED
  BY <1>2, <1>3, <1>4 DEF ServeRead

LEMMA OtherEditorStays ==
  ASSUME BoardInv, OtherEditor
  PROVE  BoardInv'
<1>1. PICK b \in Boards :
        /\ backend.saved[b] # Nothing
        /\ backend' = [backend EXCEPT !.saved[b] =
             [revision |-> RevisionOf(b) + 1, from |-> RevisionOf(b),
              body |-> [backend.saved[b].body EXCEPT !.control = {}]]]
  BY DEF OtherEditor
<1> DEFINE body == [backend.saved[b].body EXCEPT !.control = {}]
           value == [revision |-> RevisionOf(b) + 1, from |-> RevisionOf(b), body |-> body]
           saved == [backend.saved EXCEPT ![b] = value]
<1>2. backend.saved[b].body \in Body
  BY <1>1, BackendFields DEF SavedBoard
<1>3. body \in Body
  BY <1>2 DEF Body
<1>4. backend' = [backend EXCEPT !.saved = saved]
  BY <1>1
<1> HIDE DEF body
<1>5. value \in SavedBoard
  BY <1>3, BackendFields DEF SavedBoard
<1> HIDE DEF value
<1>6. saved \in BoardCatalog
  BY <1>5, BackendFields DEF BoardCatalog
<1> HIDE DEF saved
<1>7. backend' \in BoardBackends /\ backend'.pubs = backend.pubs
  BY <1>4, <1>6, BackendFields DEF BoardBackends
<1>8. BackendSound'
  BY <1>7, BackendFields DEF BackendSound, BoardBackends
<1>9. BoardSound' /\ OpsSound' /\ StepsSound'
  BY BoardGestureStays DEF OtherEditor, BoardInv, BoardSound, OpsSound
<1> QED
  BY <1>8, <1>9 DEF BoardInv

-----------------------------------------------------------------------------
(* Answers.                                                                *)
LEMMA TookStays ==
  ASSUME BoardInv, NEW op, NEW screen \in BoardScreen, Took(op, screen),
         screen.confirm \/ screen.active # {} => screen.draft \in BoardDraft
  PROVE  BoardInv'
<1>1. BoardSound'
  BY DEF Took, BoardSound
<1>2. BackendSound' /\ OpsSound' /\ StepsSound'
  BY DEF Took, BoardInv, BackendSound, OpsSound, StepsSound
<1> QED
  BY <1>1, <1>2 DEF BoardInv

LEMMA AnswerOf ==
  ASSUME BoardInv, NEW kind, NEW op \in Answer(kind)
  PROVE  op \in ops /\ op.kind = kind /\ ArgSound(op) /\ AnswerSound(op)
  BY OpOf DEF Answer, OpSound

(* What an answer changes of the lists, the draft stands.                  *)
LEMMA ListsStay ==
  ASSUME BoardInv, NEW op, NEW screen \in BoardScreen, Took(op, screen),
         screen.draft = board.draft, screen.confirm = board.confirm,
         screen.active = board.active
  PROVE  BoardInv'
  BY ScreenFields, TookStays

LEMMA ListStays ==
  ASSUME BoardInv, ListAnswered
  PROVE  BoardInv'
<1>1. PICK op \in Answer("list") :
        LET lists == [board EXCEPT !.known = op.answer, !.busy = FALSE, !.first = TRUE]
            listed == {b \in Boards : op.answer[b] # Nothing}
        IN  IF board.first \/ listed = {} THEN Took(op, lists)
            ELSE LET b == CHOOSE c \in listed : TRUE
                 IN  Took(op, [lists EXCEPT !.active = op.answer[b].body.defaults,
                                 !.draft = [id |-> b, named |-> TRUE, revision |-> op.answer[b].revision,
                                            body |-> op.answer[b].body]])
  BY DEF ListAnswered
<1> DEFINE screen == [board EXCEPT !.known = op.answer, !.busy = FALSE, !.first = TRUE]
           listed == {b \in Boards : op.answer[b] # Nothing}
<1>2. op.answer \in BoardCatalog
  BY AnswerOf DEF AnswerSound
<1>3. screen \in BoardScreen /\ screen.draft = board.draft /\ screen.confirm = board.confirm
      /\ screen.active = board.active
  BY <1>2, ScreenFields DEF BoardScreen
<1>4. CASE board.first \/ listed = {}
  <2>1. Took(op, screen)
    BY <1>1, <1>4
  <2> HIDE DEF screen
  <2> QED
    BY <1>3, <2>1, ListsStay
<1>5. CASE ~(board.first \/ listed = {})
  <2> DEFINE b == CHOOSE c \in listed : TRUE
             v == op.answer[b]
             draft == [id |-> b, named |-> TRUE, revision |-> v.revision, body |-> v.body]
             new == [screen EXCEPT !.active = v.body.defaults, !.draft = draft]
  <2>1. Took(op, new)
    BY <1>1, <1>5
  <2>2. b \in Boards /\ v \in SavedBoard
    <3>1. b \in listed
      BY <1>5
    <3> QED
      BY <1>2, <3>1 DEF BoardCatalog
  <2> HIDE DEF b, screen
  <2>3. v.revision \in Nat /\ v.body \in Body
    BY <2>2 DEF SavedBoard
  <2> HIDE DEF v
  <2>4. draft \in BoardDraft
    BY <2>2, <2>3 DEF BoardDraft
  <2>5. v.body.defaults \in SUBSET (Pinned \cup Picked)
    BY <2>3 DEF Body
  <2> HIDE DEF draft
  <2>6. new \in BoardScreen /\ new.draft = draft
    BY <1>3, <2>4, <2>5 DEF BoardScreen
  <2> HIDE DEF new
  <2> QED
    BY <2>1, <2>4, <2>6, TookStays
<1> QED
  BY <1>4, <1>5

LEMMA BoardSavedStays ==
  ASSUME BoardInv, SaveAnswered
  PROVE  BoardInv'
<1>1. PICK op \in Answer("save") :
        Took(op, [board EXCEPT !.busy = FALSE, !.known[op.arg.id] = op.answer,
                    !.draft = [id |-> op.arg.id, named |-> TRUE, revision |-> op.answer.revision,
                               body |-> op.answer.body]])
  BY DEF SaveAnswered
<1> DEFINE draft == [id |-> op.arg.id, named |-> TRUE, revision |-> op.answer.revision,
                     body |-> op.answer.body]
           lists == [board.known EXCEPT ![op.arg.id] = op.answer]
           new == [board EXCEPT !.busy = FALSE, !.known = lists, !.draft = draft]
<1>2. op.answer \in SavedBoard /\ op.arg.id \in Boards
  BY AnswerOf DEF AnswerSound, ArgSound, SaveArgs
<1>3. draft \in BoardDraft
  BY <1>2 DEF SavedBoard, BoardDraft
<1>4. lists \in BoardCatalog
  BY <1>2, ScreenFields DEF BoardCatalog
<1>5. Took(op, new)
  BY <1>1
<1> HIDE DEF draft, lists
<1>6. new \in BoardScreen /\ new.draft = draft
  BY <1>3, <1>4, ScreenFields DEF BoardScreen
<1> HIDE DEF new
<1> QED
  BY <1>3, <1>5, <1>6, TookStays

LEMMA BoardDeletedStays ==
  ASSUME BoardInv, DeleteAnswered
  PROVE  BoardInv'
<1>1. PICK op \in Answer("delete") :
        Took(op, [Open(Nothing) EXCEPT !.busy = FALSE, !.known[op.arg.id] = Nothing])
  BY DEF DeleteAnswered
<1> DEFINE lists == [Open(Nothing).known EXCEPT ![op.arg.id] = Nothing]
           new == [Open(Nothing) EXCEPT !.busy = FALSE, !.known = lists]
<1>2. Open(Nothing) \in BoardScreen /\ ~Open(Nothing).confirm /\ Open(Nothing).draft = Nothing
      /\ Open(Nothing).active = {}
  <2>1. Open(Nothing) \in BoardScreen /\ ~Open(Nothing).confirm /\ Open(Nothing).draft = Nothing
    BY OpenFits
  <2>2. Open(Nothing).active = {}
    BY ScreenFields DEF Open, BoardScreen
  <2> QED
    BY <2>1, <2>2
<1>3. Took(op, new)
  BY <1>1
<1>4. Open(Nothing).known \in BoardCatalog
  BY <1>2 DEF BoardScreen
<1>5. lists \in BoardCatalog
  BY <1>4 DEF BoardCatalog
<1> HIDE DEF lists
<1>6. new \in BoardScreen /\ ~new.confirm /\ new.active = {}
  BY <1>2, <1>5 DEF BoardScreen
<1> HIDE DEF new
<1> QED
  BY <1>3, <1>6, TookStays

LEMMA BoardAnswersStay ==
  ASSUME BoardInv,
         PublishAnswered \/ PublicationsAnswered \/ PublicationAnswered \/ ShareAnswered
         \/ SharesAnswered \/ RevokeAnswered \/ OpFailed
  PROVE  BoardInv'
<1>0. /\ board \in BoardScreen /\ board.publication \in Nat \cup {Nothing}
      /\ board.publications \in SUBSET Nat /\ board.shares \in SUBSET BoardShare
      /\ board.busy \in BOOLEAN
  BY ScreenFields
<1>2. CASE PublishAnswered
  <2>1. PICK op \in Answer("publish") : Took(op, [board EXCEPT !.busy = FALSE, !.publication = op.answer,
                 !.publications = @ \cup {op.answer}, !.shares = {}])
    BY <1>2 DEF PublishAnswered
  <2> DEFINE new == [board EXCEPT !.busy = FALSE, !.publication = op.answer,
                 !.publications = @ \cup {op.answer}, !.shares = {}]
  <2>2. op.answer \in Nat
    BY AnswerOf DEF AnswerSound
  <2>3. /\ new \in BoardScreen /\ new.draft = board.draft /\ new.confirm = board.confirm
        /\ new.active = board.active
    BY <1>0, <2>2 DEF BoardScreen
  <2>4. Took(op, new)
    BY <2>1
  <2> HIDE DEF new
  <2> QED
    BY <2>3, <2>4, ListsStay
<1>3. CASE PublicationsAnswered
  <2>1. PICK op \in Answer("publications") : Took(op, [board EXCEPT !.publications = op.answer])
    BY <1>3 DEF PublicationsAnswered
  <2> DEFINE new == [board EXCEPT !.publications = op.answer]
  <2>2. op.answer \in SUBSET Nat
    BY AnswerOf DEF AnswerSound
  <2>3. /\ new \in BoardScreen /\ new.draft = board.draft /\ new.confirm = board.confirm
        /\ new.active = board.active
    BY <1>0, <2>2 DEF BoardScreen
  <2>4. Took(op, new)
    BY <2>1
  <2> HIDE DEF new
  <2> QED
    BY <2>3, <2>4, ListsStay
<1>4. CASE PublicationAnswered
  <2>1. PICK op \in Answer("publication") : Took(op, [board EXCEPT !.publication = op.arg, !.shares = op.answer])
    BY <1>4 DEF PublicationAnswered
  <2> DEFINE new == [board EXCEPT !.publication = op.arg, !.shares = op.answer]
  <2>2. op.answer \in SUBSET BoardShare /\ op.arg \in Nat
    BY AnswerOf DEF AnswerSound, ArgSound
  <2>3. /\ new \in BoardScreen /\ new.draft = board.draft /\ new.confirm = board.confirm
        /\ new.active = board.active
    BY <1>0, <2>2 DEF BoardScreen
  <2>4. Took(op, new)
    BY <2>1
  <2> HIDE DEF new
  <2> QED
    BY <2>3, <2>4, ListsStay
<1>5. CASE ShareAnswered
  <2>1. PICK op \in Answer("share") : Took(op, [board EXCEPT !.busy = FALSE, !.shares = @ \cup {op.answer}])
    BY <1>5 DEF ShareAnswered
  <2> DEFINE new == [board EXCEPT !.busy = FALSE, !.shares = @ \cup {op.answer}]
  <2>2. op.answer \in BoardShare
    BY AnswerOf DEF AnswerSound
  <2>3. /\ new \in BoardScreen /\ new.draft = board.draft /\ new.confirm = board.confirm
        /\ new.active = board.active
    BY <1>0, <2>2 DEF BoardScreen
  <2>4. Took(op, new)
    BY <2>1
  <2> HIDE DEF new
  <2> QED
    BY <2>3, <2>4, ListsStay
<1>6. CASE SharesAnswered
  <2>1. PICK op \in Answer("shares") : Took(op, [board EXCEPT !.shares = op.answer])
    BY <1>6 DEF SharesAnswered
  <2> DEFINE new == [board EXCEPT !.shares = op.answer]
  <2>2. op.answer \in SUBSET BoardShare
    BY AnswerOf DEF AnswerSound
  <2>3. /\ new \in BoardScreen /\ new.draft = board.draft /\ new.confirm = board.confirm
        /\ new.active = board.active
    BY <1>0, <2>2 DEF BoardScreen
  <2>4. Took(op, new)
    BY <2>1
  <2> HIDE DEF new
  <2> QED
    BY <2>3, <2>4, ListsStay
<1>7. CASE RevokeAnswered
  <2>1. PICK op \in Answer("revoke") :
          Took(op, [board EXCEPT !.shares = {IF s = op.arg THEN [s EXCEPT !.revoked = TRUE] ELSE s :
                                             s \in board.shares}])
    BY <1>7 DEF RevokeAnswered
  <2> DEFINE shares == {IF s = op.arg THEN [s EXCEPT !.revoked = TRUE] ELSE s : s \in board.shares}
             new == [board EXCEPT !.shares = shares]
  <2>2. shares \in SUBSET BoardShare
    BY <1>0 DEF BoardShare
  <2>3. Took(op, new)
    BY <2>1
  <2> HIDE DEF shares
  <2>4. /\ new \in BoardScreen /\ new.draft = board.draft /\ new.confirm = board.confirm
        /\ new.active = board.active
    BY <1>0, <2>2 DEF BoardScreen
  <2> HIDE DEF new
  <2> QED
    BY <2>3, <2>4, ListsStay
<1>8. CASE OpFailed
  <2>1. PICK op \in ops :
          Took(op, IF op.kind \in {"list", "save", "delete", "publish", "share"}
                   THEN [board EXCEPT !.busy = FALSE] ELSE board)
    BY <1>8 DEF OpFailed
  <2>2. /\ [board EXCEPT !.busy = FALSE] \in BoardScreen
        /\ [board EXCEPT !.busy = FALSE].draft = board.draft
        /\ [board EXCEPT !.busy = FALSE].confirm = board.confirm
        /\ [board EXCEPT !.busy = FALSE].active = board.active
    BY <1>0 DEF BoardScreen
  <2> QED
    BY <1>0, <2>1, <2>2, ListsStay
<1> QED
  BY <1>2, <1>3, <1>4, <1>5, <1>6, <1>7, <1>8

(* Every step keeps the invariant of the builder.                          *)
LEMMA BoardStays ==
  ASSUME BoardInv, BuilderNext
  PROVE  BoardInv'
  BY ChoosingStays, LayoutStays, BoardEditsStay, BoardSendsStay, SavingStays, DeletingStays,
     PublishingStays, SharingStays, ReadingStays, OtherEditorStays, ListStays, BoardSavedStays,
     BoardDeletedStays, BoardAnswersStay
  DEF BuilderNext

-----------------------------------------------------------------------------
(***************************************************************************)
(* The editor of charts (ChartInv).                                        *)
(*                                                                         *)
(* A preview that is the newest answers the draft on the screen, and the   *)
(* time of a chart is one of its dimensions.                               *)
(***************************************************************************)
(* The charts that are drafted, saved, read and listed, and what previews  *)
(* ask.                                                                    *)
SoundDrafts == {c \in Drafts : SoundChart(c)}
ChartShelf == [ChartIds -> SoundDrafts \cup {Nothing}]
Questions == {Asking(c, listed) : c \in Drafts, listed \in ChartShelf}

(* The question is the one that the draft asks now, of layers it has.      *)
AsksOfDraft(asks) ==
  /\ asks.query = Asking(Draft, editor.charts).query
  /\ asks.query = Nothing => asks.layers \subseteq Draft.layers

EditorSound ==
  editor \in [charts: ChartShelf, draft: SoundDrafts, result: Questions \cup {Nothing},
              failed: BOOLEAN, loading: BOOLEAN, saving: BOOLEAN, first: BOOLEAN,
              chosen: BOOLEAN, version: Nat, replaced: BOOLEAN]
KeptSound ==
  /\ kept \in ChartShelf
  /\ fetch \in {Nothing} \cup [read: BOOLEAN, charts: ChartShelf \cup {Nothing}]
  /\ fetch # Nothing /\ fetch.read => fetch.charts \in ChartShelf
  /\ keeping \in {Nothing} \cup [kind: {"save", "delete"}, chart: SoundDrafts,
                                 stage: {"sent", "done", "refused"}]
  /\ editSteps \in 0..EditGestures
(* A preview that is the newest is not cancelled, and its answer is for    *)
(* the draft as it is unless that was replaced beside it.                  *)
TrialsSound ==
  /\ trial \subseteq [version: Nat, aborted: BOOLEAN, asks: Questions]
  /\ \A t \in trial :
       /\ t.version <= editor.version
       /\ t.version = editor.version => ~t.aborted /\ (~editor.replaced => AsksOfDraft(t.asks))
ResultSound ==
  editor.result # Nothing /\ ~editor.replaced /\ ~editor.loading /\ ~editor.failed =>
    AsksOfDraft(editor.result)
ChartInv == EditorSound /\ KeptSound /\ TrialsSound /\ ResultSound

LEMMA EditorFields ==
  ASSUME EditorSound
  PROVE  /\ editor.charts \in ChartShelf /\ Draft \in Drafts /\ SoundChart(Draft)
         /\ editor.result \in Questions \cup {Nothing}
         /\ editor.failed \in BOOLEAN /\ editor.loading \in BOOLEAN /\ editor.saving \in BOOLEAN
         /\ editor.first \in BOOLEAN /\ editor.chosen \in BOOLEAN /\ editor.version \in Nat
         /\ editor.replaced \in BOOLEAN
<1>1. Draft \in SoundDrafts
  BY DEF EditorSound, Draft
<1> QED
  BY <1>1 DEF EditorSound, SoundDrafts

LEMMA DraftFields ==
  ASSUME NEW c \in Drafts
  PROVE  /\ c.id \in ChartIds /\ c.revision \in Nat /\ c.named \in BOOLEAN
         /\ c.dataset \in ChartDatasets /\ c.type \in Types
         /\ c.metrics \in Nat /\ c.time \in ColumnsOrNone /\ c.sort \in ColumnsOrNone
         /\ c.coords \in [1..4 -> ColumnsOrNone] /\ c.layers \in SUBSET ChartIds
  BY DEF Drafts

LEMMA ChartInvSuffices ==
  ASSUME ChartInv
  PROVE  EditorTypeOK /\ TrialFits /\ TimeGroupsADimension
<1>1. EditorSound /\ KeptSound
  BY DEF ChartInv
<1>2. EditorTypeOK
  <2>1. DOMAIN kept = ChartIds
    BY <1>1 DEF KeptSound, ChartShelf
  <2>2. DOMAIN editor.charts = ChartIds
    BY <1>1, EditorFields DEF ChartShelf
  <2>3. Draft.dims \in Seq(ChartColumns(Draft.dataset))
    BY <1>1, EditorFields DEF SoundChart
  <2> QED
    BY <1>1, <2>1, <2>2, <2>3, EditorFields, DraftFields DEF EditorTypeOK, KeptSound, Draft
<1>3. TrialFits
  BY DEF ChartInv, ResultSound, AsksOfDraft, TrialFits
<1>4. TimeGroupsADimension
  BY <1>1, EditorFields DEF SoundChart, TimeGroupsADimension
<1> QED
  BY <1>2, <1>3, <1>4

-----------------------------------------------------------------------------
(* Charts that are made anew are sound.                                    *)
LEMMA NewSound ==
  ASSUME NEW id \in ChartIds, NEW d \in ChartDatasets
  PROVE  New(id, d) \in Drafts /\ SoundChart(New(id, d)) /\ New(id, d).dataset = d
<1> DEFINE f == ColumnsOf[d][1]
           none == [p \in 1..4 |-> Nothing]
           dims == <<f>>
<1>1. f \in ChartColumns(d)
  BY ChartConstants DEF ChartColumns
<1>2. Nothing \in ColumnsOrNone /\ none \in [1..4 -> ColumnsOrNone]
  <2>1. Nothing \in ColumnsOrNone
    BY DEF ColumnsOrNone
  <2> QED
    BY <2>1
<1>3. dims \in Seq(ChartColumns(d)) /\ dims \in UNION {Seq(ChartColumns(e)) : e \in ChartDatasets}
  BY <1>1
<1>4. New(id, d) =
        [id |-> id, revision |-> 0, named |-> TRUE, dataset |-> d, type |-> "bar",
         dims |-> dims, metrics |-> 1, time |-> Nothing, grain |-> Nothing,
         sort |-> Nothing, filters |-> 0, having |-> 0, coords |-> none,
         layers |-> {}, look |-> FALSE]
  BY DEF New
<1> HIDE DEF none, dims
<1>5. New(id, d) \in Drafts
  BY <1>2, <1>3, <1>4 DEF Drafts, Types
<1>6. /\ New(id, d).dims = dims /\ New(id, d).dataset = d
      /\ New(id, d).time = Nothing /\ New(id, d).grain = Nothing
  BY <1>4
<1> QED
  BY <1>3, <1>5, <1>6 DEF SoundChart

LEMMA FirstDatasetIs == FirstDataset \in ChartDatasets
  BY ChartConstants DEF FirstDataset

(* Layers are no part of what makes a chart sound.                         *)
LEMMA LayersSound ==
  ASSUME NEW c \in Drafts, SoundChart(c), NEW strata \in SUBSET ChartIds
  PROVE  [c EXCEPT !.layers = strata] \in Drafts /\ SoundChart([c EXCEPT !.layers = strata])
<1> DEFINE e == [c EXCEPT !.layers = strata]
<1>1. /\ e \in Drafts /\ e.dims = c.dims /\ e.dataset = c.dataset /\ e.time = c.time
      /\ e.grain = c.grain
  BY DEF Drafts
<1> HIDE DEF e
<1>2. SoundChart(e)
  BY <1>1 DEF SoundChart, Among
<1> QED
  BY <1>1, <1>2 DEF e

LEMMA ChartStarts ==
  ASSUME EditorInit
  PROVE  ChartInv
<1>1. kept \in ChartShelf
  <2>1. \A c \in DOMAIN FirstSaved : FirstSaved[c] \in SoundDrafts
    BY ChartsSaved DEF SoundDrafts
  <2> QED
    BY <2>1 DEF EditorInit, ChartShelf
<1> DEFINE id == CHOOSE c \in ChartIds : kept[c] = Nothing
           empty == [c \in ChartIds |-> Nothing]
<1>2. id \in ChartIds
  <2>1. \E c \in ChartIds : kept[c] = Nothing
    BY ChartsSaved DEF EditorInit
  <2> QED
    BY <2>1
<1>3. empty \in ChartShelf
  BY DEF ChartShelf
<1>4. editor = [charts |-> empty, draft |-> New(id, FirstDataset),
                result |-> Nothing, failed |-> FALSE, loading |-> FALSE, saving |-> FALSE,
                first |-> FALSE, chosen |-> FALSE, version |-> 0, replaced |-> FALSE]
  BY DEF EditorInit
<1> HIDE DEF id, empty
<1>5. New(id, FirstDataset) \in SoundDrafts
  BY <1>2, NewSound, FirstDatasetIs DEF SoundDrafts
<1>6. EditorSound /\ editor.result = Nothing
  BY <1>3, <1>4, <1>5 DEF EditorSound
<1>7. KeptSound
  <2>1. fetch = [read |-> FALSE, charts |-> Nothing] /\ keeping = Nothing /\ editSteps = 0
    BY DEF EditorInit
  <2>2. fetch \in [read: BOOLEAN, charts: ChartShelf \cup {Nothing}] /\ ~fetch.read
    BY <2>1
  <2> QED
    BY <1>1, <2>1, <2>2, ChartConstants DEF KeptSound
<1>8. TrialsSound
  BY DEF EditorInit, TrialsSound
<1> QED
  BY <1>6, <1>7, <1>8 DEF ChartInv, ResultSound

-----------------------------------------------------------------------------
(* An edit cancels every preview and moves the version on.                 *)
LEMMA CancelSound ==
  ASSUME ChartInv, trial' \subseteq Cancel, editor'.version = editor.version + 1
  PROVE  TrialsSound'
<1>1. editor.version \in Nat
  BY EditorFields DEF ChartInv
<1>2. ASSUME NEW t \in trial'
      PROVE  t \in [version: Nat, aborted: BOOLEAN, asks: Questions] /\ t.version <= editor.version
  <2>1. PICK s \in trial : t = [s EXCEPT !.aborted = TRUE]
    BY DEF Cancel
  <2>2. s \in [version: Nat, aborted: BOOLEAN, asks: Questions] /\ s.version <= editor.version
    BY DEF ChartInv, TrialsSound
  <2> QED
    BY <2>1, <2>2
<1> QED
  BY <1>1, <1>2 DEF TrialsSound

LEMMA UpdatedFields ==
  ASSUME EditorSound, NEW draft \in SoundDrafts
  PROVE  /\ Updated(draft) \in
              [charts: ChartShelf, draft: SoundDrafts, result: Questions \cup {Nothing},
               failed: BOOLEAN, loading: BOOLEAN, saving: BOOLEAN, first: BOOLEAN,
               chosen: BOOLEAN, version: Nat, replaced: BOOLEAN]
         /\ Updated(draft).result = Nothing /\ Updated(draft).version = editor.version + 1
         /\ Updated(draft).charts = editor.charts
<1>1. editor.version + 1 \in Nat
  BY EditorFields
<1> QED
  BY <1>1 DEF EditorSound, Updated

LEMMA ChartEditStays ==
  ASSUME ChartInv, NEW draft \in Drafts, SoundChart(draft), Edit(draft)
  PROVE  ChartInv'
<1>1. draft \in SoundDrafts /\ editor' = Updated(draft) /\ trial' = Cancel
  BY DEF SoundDrafts, Edit
<1>2. EditorSound' /\ editor'.result = Nothing /\ editor'.version = editor.version + 1
  BY <1>1, UpdatedFields DEF ChartInv, EditorSound
<1>3. KeptSound'
  BY ChartConstants DEF ChartInv, KeptSound, Edit, EditGesture
<1>4. TrialsSound'
  BY <1>1, <1>2, CancelSound
<1> QED
  BY <1>2, <1>3, <1>4 DEF ChartInv, ResultSound

(* The form.                                                               *)
LEMMA DraftNow ==
  ASSUME ChartInv
  PROVE  /\ Draft \in Drafts /\ SoundChart(Draft) /\ Draft.id \in ChartIds
         /\ Draft.dataset \in ChartDatasets /\ Draft.layers \in SUBSET ChartIds
         /\ editor.charts \in ChartShelf /\ kept \in ChartShelf
         /\ Draft.dims \in Seq(ChartColumns(Draft.dataset))
         /\ \A c \in ChartIds : editor.charts[c] # Nothing =>
              editor.charts[c] \in Drafts /\ SoundChart(editor.charts[c])
<1>1. Draft \in Drafts /\ SoundChart(Draft) /\ editor.charts \in ChartShelf /\ kept \in ChartShelf
  BY EditorFields DEF ChartInv, KeptSound
<1>2. \A c \in ChartIds : editor.charts[c] # Nothing =>
        editor.charts[c] \in Drafts /\ SoundChart(editor.charts[c])
  BY <1>1 DEF ChartShelf, SoundDrafts
<1> QED
  BY <1>1, <1>2, DraftFields DEF SoundChart

LEMMA CatalogEditsStay ==
  ASSUME ChartInv, ChooseSaved \/ NewChart \/ ReloadChart
  PROVE  ChartInv'
<1>1. ASSUME NEW c \in ChartIds, editor.charts[c] # Nothing, Edit(Over(editor.charts[c]))
      PROVE  ChartInv'
  <2> DEFINE saved == editor.charts[c]
             strata == IF saved.layers = {} THEN Draft.layers ELSE saved.layers
  <2>1. saved \in Drafts /\ SoundChart(saved)
    BY <1>1, DraftNow
  <2>2. strata \in SUBSET ChartIds
    BY <2>1, DraftNow, DraftFields
  <2>3. Over(saved) = [saved EXCEPT !.layers = strata]
    BY DEF Over, Draft
  <2> HIDE DEF strata
  <2>4. [saved EXCEPT !.layers = strata] \in Drafts /\ SoundChart([saved EXCEPT !.layers = strata])
    <3> HIDE DEF saved
    <3> QED
      BY <2>1, <2>2, LayersSound
  <2>5. Edit([saved EXCEPT !.layers = strata])
    BY <1>1, <2>3
  <2> HIDE DEF saved
  <2> QED
    BY <2>4, <2>5, ChartEditStays
<1>2. CASE ChooseSaved
  BY <1>1, <1>2 DEF ChooseSaved
<1>3. CASE NewChart
  <2>1. Fresh \in ChartIds
    BY <1>3 DEF NewChart, Fresh, Free
  <2> DEFINE c == New(Fresh, FirstDataset)
  <2>2. c \in Drafts /\ SoundChart(c)
    BY <2>1, NewSound, FirstDatasetIs
  <2>3. Edit([c EXCEPT !.layers = Draft.layers])
    BY <1>3 DEF NewChart, Draft
  <2> HIDE DEF c
  <2> QED
    BY <2>2, <2>3, LayersSound, ChartEditStays, DraftNow
<1>4. CASE ReloadChart
  BY <1>1, <1>4, DraftNow DEF ReloadChart, Draft
<1> QED
  BY <1>2, <1>3, <1>4

(* What makes a chart sound is its dataset, its dimensions and its time.   *)
LEMMA SameSound ==
  ASSUME NEW c, SoundChart(c), NEW e,
         e.dims = c.dims, e.dataset = c.dataset, e.time = c.time, e.grain = c.grain
  PROVE  SoundChart(e)
  BY DEF SoundChart, Among

LEMMA FieldsStay ==
  ASSUME ChartInv,
         NameChart \/ SetType \/ SetLayers \/ SetMetrics \/ SetSort \/ SetFilterRows
         \/ SetAggregateRows \/ SetCoordinate \/ SetLook
  PROVE  ChartInv'
<1>1. ASSUME NEW e \in Drafts, Edit(e), e.dims = Draft.dims, e.dataset = Draft.dataset,
             e.time = Draft.time, e.grain = Draft.grain
      PROVE  ChartInv'
  BY <1>1, DraftNow, SameSound, ChartEditStays
<1> DEFINE d == Draft
<1>2. d \in Drafts
  BY DraftNow
<1> HIDE DEF d
<1>3. CASE NameChart
  <2> DEFINE e == [d EXCEPT !.named = ~@]
  <2>1. e \in Drafts /\ e.dims = d.dims /\ e.dataset = d.dataset /\ e.time = d.time
        /\ e.grain = d.grain
    BY <1>2 DEF Drafts
  <2>2. Edit(e)
    BY <1>3 DEF NameChart, d
  <2> HIDE DEF e
  <2> QED
    BY <1>1, <2>1, <2>2 DEF d
<1>4. CASE SetType
  <2>1. PICK t \in Types : Edit([d EXCEPT !.type = t])
    BY <1>4 DEF SetType, d
  <2> DEFINE e == [d EXCEPT !.type = t]
  <2>2. e \in Drafts /\ e.dims = d.dims /\ e.dataset = d.dataset /\ e.time = d.time
        /\ e.grain = d.grain
    BY <1>2 DEF Drafts
  <2>3. Edit(e)
    BY <2>1
  <2> HIDE DEF e
  <2> QED
    BY <1>1, <2>2, <2>3 DEF d
<1>5. CASE SetLayers
  <2>1. PICK c \in ChartIds :
          Edit([d EXCEPT !.layers = IF c \in @ THEN @ \ {c} ELSE @ \cup {c}])
    BY <1>5 DEF SetLayers, d
  <2> DEFINE strata == IF c \in d.layers THEN d.layers \ {c} ELSE d.layers \cup {c}
             e == [d EXCEPT !.layers = strata]
  <2>2. strata \in SUBSET ChartIds
    BY <1>2, DraftFields
  <2>3. Edit(e)
    BY <2>1
  <2> HIDE DEF strata
  <2>4. e \in Drafts /\ e.dims = d.dims /\ e.dataset = d.dataset /\ e.time = d.time
        /\ e.grain = d.grain
    BY <1>2, <2>2 DEF Drafts
  <2> HIDE DEF e
  <2> QED
    BY <1>1, <2>3, <2>4 DEF d
<1>6. CASE SetMetrics
  <2>1. PICK n \in 0..MetricsOf[d.dataset] : Edit([d EXCEPT !.metrics = n])
    BY <1>6 DEF SetMetrics, d
  <2> DEFINE e == [d EXCEPT !.metrics = n]
  <2>2. n \in Nat
    BY <1>2, DraftFields, ChartConstants
  <2>3. e \in Drafts /\ e.dims = d.dims /\ e.dataset = d.dataset /\ e.time = d.time
        /\ e.grain = d.grain
    BY <1>2, <2>2 DEF Drafts
  <2>4. Edit(e)
    BY <2>1
  <2> HIDE DEF e
  <2> QED
    BY <1>1, <2>3, <2>4 DEF d
<1>7. CASE SetSort
  <2>1. PICK by \in {d.dims[i] : i \in DOMAIN d.dims} \cup {Nothing} : Edit([d EXCEPT !.sort = by])
    BY <1>7 DEF SetSort, d
  <2>2. by \in ColumnsOrNone
    <3>1. d.dims \in Seq(ChartColumns(d.dataset)) /\ d.dataset \in ChartDatasets
      BY DraftNow DEF d
    <3>2. \A i \in DOMAIN d.dims : d.dims[i] \in ChartColumns(d.dataset)
      BY <3>1, LenProperties, ElementOfSeq
    <3> QED
      BY <3>1, <3>2 DEF ColumnsOrNone
  <2> DEFINE e == [d EXCEPT !.sort = by]
  <2>3. e \in Drafts /\ e.dims = d.dims /\ e.dataset = d.dataset /\ e.time = d.time
        /\ e.grain = d.grain
    BY <1>2, <2>2 DEF Drafts
  <2>4. Edit(e)
    BY <2>1
  <2> HIDE DEF e
  <2> QED
    BY <1>1, <2>3, <2>4 DEF d
<1>8. CASE SetFilterRows
  <2>1. PICK n \in 0..1 : Edit([d EXCEPT !.filters = n])
    BY <1>8 DEF SetFilterRows, d
  <2> DEFINE e == [d EXCEPT !.filters = n]
  <2>2. e \in Drafts /\ e.dims = d.dims /\ e.dataset = d.dataset /\ e.time = d.time
        /\ e.grain = d.grain
    BY <1>2 DEF Drafts
  <2>3. Edit(e)
    BY <2>1
  <2> HIDE DEF e
  <2> QED
    BY <1>1, <2>2, <2>3 DEF d
<1>9. CASE SetAggregateRows
  <2>1. PICK n \in 0..1 : Edit([d EXCEPT !.having = n])
    BY <1>9 DEF SetAggregateRows, d
  <2> DEFINE e == [d EXCEPT !.having = n]
  <2>2. e \in Drafts /\ e.dims = d.dims /\ e.dataset = d.dataset /\ e.time = d.time
        /\ e.grain = d.grain
    BY <1>2 DEF Drafts
  <2>3. Edit(e)
    BY <2>1
  <2> HIDE DEF e
  <2> QED
    BY <1>1, <2>2, <2>3 DEF d
<1>10. CASE SetCoordinate
  <2>1. PICK p \in Places(d.type), f \in ChartColumns(d.dataset) \cup {Nothing} :
          Edit([d EXCEPT !.coords[p] = f])
    BY <1>10 DEF SetCoordinate, d
  <2> DEFINE coords == [d.coords EXCEPT ![p] = f]
             e == [d EXCEPT !.coords = coords]
  <2>2. coords \in [1..4 -> ColumnsOrNone]
    <3>1. d.coords \in [1..4 -> ColumnsOrNone] /\ f \in ColumnsOrNone
      BY <1>2, DraftFields DEF ColumnsOrNone
    <3> QED
      BY <3>1
  <2>3. Edit(e)
    BY <2>1
  <2> HIDE DEF coords
  <2>4. e \in Drafts /\ e.dims = d.dims /\ e.dataset = d.dataset /\ e.time = d.time
        /\ e.grain = d.grain
    BY <1>2, <2>2 DEF Drafts
  <2> HIDE DEF e
  <2> QED
    BY <1>1, <2>3, <2>4 DEF d
<1>11. CASE SetLook
  <2> DEFINE e == [d EXCEPT !.look = ~@]
  <2>1. e \in Drafts /\ e.dims = d.dims /\ e.dataset = d.dataset /\ e.time = d.time
        /\ e.grain = d.grain
    BY <1>2 DEF Drafts
  <2>2. Edit(e)
    BY <1>11 DEF SetLook, d
  <2> HIDE DEF e
  <2> QED
    BY <1>1, <2>1, <2>2 DEF d
<1> QED
  BY <1>3, <1>4, <1>5, <1>6, <1>7, <1>8, <1>9, <1>10, <1>11

LEMMA SetDatasetStays ==
  ASSUME ChartInv, SetDataset
  PROVE  ChartInv'
<1>1. PICK ds \in ChartDatasets :
        Edit([New(Draft.id, ds) EXCEPT !.revision = Draft.revision, !.named = Draft.named,
                !.type = Draft.type, !.layers = Draft.layers])
  BY DEF SetDataset
<1> DEFINE c == New(Draft.id, ds)
           e == [c EXCEPT !.revision = Draft.revision, !.named = Draft.named,
                          !.type = Draft.type, !.layers = Draft.layers]
<1>2. c \in Drafts /\ SoundChart(c)
  BY DraftNow, NewSound
<1>3. Edit(e)
  BY <1>1
<1> HIDE DEF c
<1>4. /\ Draft.revision \in Nat /\ Draft.named \in BOOLEAN /\ Draft.type \in Types
      /\ Draft.layers \in SUBSET ChartIds
  BY DraftNow, DraftFields
<1>5. e \in Drafts /\ e.dims = c.dims /\ e.dataset = c.dataset /\ e.time = c.time
      /\ e.grain = c.grain
  BY <1>2, <1>4 DEF Drafts
<1> HIDE DEF e
<1> QED
  BY <1>2, <1>3, <1>5, SameSound, ChartEditStays

LEMMA WithDimsSound ==
  ASSUME ChartInv, NEW dims \in Seq(ChartColumns(Draft.dataset))
  PROVE  WithDims(dims) \in Drafts /\ SoundChart(WithDims(dims))
<1> DEFINE stays == \E i \in DOMAIN dims : dims[i] = Draft.time
           time == IF stays THEN Draft.time ELSE Nothing
           grain == IF stays THEN Draft.grain ELSE Nothing
           d == Draft
           e == [d EXCEPT !.dims = dims, !.time = time, !.grain = grain]
<1>1. WithDims(dims) = e
  BY DEF WithDims
<1>2. d \in Drafts /\ d.dataset \in ChartDatasets
  BY DraftNow
<1>3. time \in ColumnsOrNone /\ grain \in {"day", "month", Nothing}
  BY <1>2 DEF Drafts, ColumnsOrNone
<1>4. dims \in UNION {Seq(ChartColumns(x)) : x \in ChartDatasets}
  BY <1>2
<1>5. /\ time # Nothing => \E i \in DOMAIN dims : dims[i] = time
      /\ grain # Nothing => time # Nothing
  BY DraftNow DEF SoundChart
<1>6. dims \in Seq(ChartColumns(d.dataset))
  OBVIOUS
<1> HIDE DEF time, grain, d
<1>7. e \in Drafts /\ e.dims = dims /\ e.dataset = d.dataset /\ e.time = time /\ e.grain = grain
  BY <1>2, <1>3, <1>4 DEF Drafts
<1> HIDE DEF e
<1>8. SoundChart(e)
  BY <1>5, <1>6, <1>7 DEF SoundChart, Among
<1> QED
  BY <1>1, <1>7, <1>8

LEMMA SetDimsStays ==
  ASSUME ChartInv, SetDims
  PROVE  ChartInv'
<1> DEFINE dims == Draft.dims
           S == ChartColumns(Draft.dataset)
<1>1. dims \in Seq(S) /\ Len(dims) \in Nat /\ DOMAIN dims = 1..Len(dims)
      /\ \A i \in 1..Len(dims) : dims[i] \in S
  BY DraftNow, LenProperties, ElementOfSeq
<1>2. ASSUME NEW ds \in Seq(S), Edit(WithDims(ds)) PROVE ChartInv'
  BY <1>2, WithDimsSound, ChartEditStays
<1>3. CASE \E f \in S : Edit(WithDims(Append(dims, f)))
  <2>1. PICK f \in S : Edit(WithDims(Append(dims, f)))
    BY <1>3
  <2> HIDE DEF dims, S
  <2>2. Append(dims, f) \in Seq(S)
    BY <1>1, AppendProperties
  <2> QED
    BY <1>2, <2>1, <2>2
<1>4. CASE \E i \in DOMAIN dims :
             Edit(WithDims(SubSeq(dims, 1, i - 1) \o SubSeq(dims, i + 1, Len(dims))))
  <2>1. PICK i \in DOMAIN dims :
          Edit(WithDims(SubSeq(dims, 1, i - 1) \o SubSeq(dims, i + 1, Len(dims))))
    BY <1>4
  <2> HIDE DEF dims, S
  <2>2. i \in 1..Len(dims)
    BY <1>1
  <2>3. SubSeq(dims, 1, i - 1) \in Seq(S)
    <3>1. i - 1 \in Int /\ \A j \in 1..(i - 1) : dims[j] \in S
      BY <1>1, <2>2
    <3> QED
      BY <3>1, SubSeqProperties
  <2>4. SubSeq(dims, i + 1, Len(dims)) \in Seq(S)
    <3>1. i + 1 \in Int /\ Len(dims) \in Int /\ \A j \in (i + 1)..Len(dims) : dims[j] \in S
      BY <1>1, <2>2
    <3> QED
      BY <3>1, SubSeqProperties
  <2>5. SubSeq(dims, 1, i - 1) \o SubSeq(dims, i + 1, Len(dims)) \in Seq(S)
    BY <2>3, <2>4, ConcatProperties
  <2> QED
    BY <1>2, <2>1, <2>5
<1> QED
  BY <1>3, <1>4 DEF SetDims

LEMMA TimeStays ==
  ASSUME ChartInv, SetTime \/ SetGrain
  PROVE  ChartInv'
<1> DEFINE d == Draft
<1>1. d \in Drafts /\ d.dataset \in ChartDatasets /\ d.dims \in Seq(ChartColumns(d.dataset))
      /\ SoundChart(d)
  BY DraftNow
<1>2. \A i \in DOMAIN d.dims : d.dims[i] \in ColumnsOrNone /\ d.dims[i] # Nothing
  <2>1. \A i \in DOMAIN d.dims : d.dims[i] \in ChartColumns(d.dataset)
    BY <1>1, LenProperties, ElementOfSeq
  <2> QED
    BY <1>1, <2>1, ChartConstants DEF ColumnsOrNone, ChartColumns
<1> HIDE DEF d
<1>3. ASSUME NEW time \in ColumnsOrNone, NEW grain \in {"day", "month", Nothing},
             Edit([d EXCEPT !.time = time, !.grain = grain]),
             time # Nothing => Among(d, time), grain # Nothing => time # Nothing
      PROVE  ChartInv'
  <2> DEFINE e == [d EXCEPT !.time = time, !.grain = grain]
  <2>1. e \in Drafts /\ e.dims = d.dims /\ e.dataset = d.dataset /\ e.time = time
        /\ e.grain = grain
    BY <1>1 DEF Drafts
  <2>2. Edit(e)
    BY <1>3
  <2> HIDE DEF e
  <2>3. SoundChart(e)
    BY <1>1, <1>3, <2>1 DEF SoundChart, Among
  <2> QED
    BY <2>1, <2>2, <2>3, ChartEditStays
<1>4. CASE \E i \in DOMAIN d.dims :
             Edit([d EXCEPT !.time = d.dims[i], !.grain = IF @ = Nothing THEN "day" ELSE @])
  <2>1. PICK i \in DOMAIN d.dims :
          Edit([d EXCEPT !.time = d.dims[i], !.grain = IF @ = Nothing THEN "day" ELSE @])
    BY <1>4
  <2> DEFINE grain == IF d.grain = Nothing THEN "day" ELSE d.grain
             time == d.dims[i]
  <2>2. grain \in {"day", "month", Nothing} /\ Edit([d EXCEPT !.time = time, !.grain = grain])
    BY <1>1, <2>1 DEF Drafts
  <2>3. time \in ColumnsOrNone /\ time # Nothing /\ Among(d, time)
    BY <1>2 DEF Among
  <2> HIDE DEF grain, time
  <2> QED
    BY <1>3, <2>2, <2>3
<1>5. CASE Edit([d EXCEPT !.time = Nothing, !.grain = Nothing])
  BY <1>3, <1>5 DEF ColumnsOrNone
<1>6. CASE SetGrain
  <2>1. PICK g \in {"day", "month", Nothing} : d.time # Nothing /\ Edit([d EXCEPT !.grain = g])
    BY <1>6 DEF SetGrain, d
  <2> DEFINE e == [d EXCEPT !.grain = g]
  <2>2. e \in Drafts /\ e.dims = d.dims /\ e.dataset = d.dataset /\ e.time = d.time
        /\ e.grain = g
    BY <1>1 DEF Drafts
  <2>3. Edit(e)
    BY <2>1
  <2> HIDE DEF e
  <2>4. SoundChart(e)
    BY <1>1, <2>1, <2>2 DEF SoundChart, Among
  <2> QED
    BY <2>2, <2>3, <2>4, ChartEditStays
<1> QED
  BY <1>4, <1>5, <1>6 DEF SetTime, d

-----------------------------------------------------------------------------
(* Previews.                                                               *)
LEMMA SameKept ==
  ASSUME ChartInv, UNCHANGED <<kept, fetch, keeping>>, editSteps' \in 0..EditGestures
  PROVE  KeptSound'
  BY DEF ChartInv, KeptSound

LEMMA GestureCounts ==
  ASSUME ChartInv, EditGesture \/ EditorIdle
  PROVE  editSteps' \in 0..EditGestures
  BY ChartConstants DEF ChartInv, KeptSound, EditGesture, EditorIdle

LEMMA TryStays ==
  ASSUME ChartInv, TryChart
  PROVE  ChartInv'
<1> DEFINE new == [version |-> editor.version + 1, aborted |-> FALSE,
                   asks |-> Asking(Draft, editor.charts)]
<1>1. /\ editor' = [editor EXCEPT !.version = @ + 1, !.loading = TRUE, !.failed = FALSE,
                                  !.chosen = FALSE, !.replaced = FALSE]
      /\ trial' = Cancel \cup {new}
  BY DEF TryChart
<1>2. EditorSound
  BY DEF ChartInv
<1>3. editor.version \in Nat /\ editor.version + 1 \in Nat
  BY <1>2, EditorFields
<1>4. EditorSound' /\ editor'.version = editor.version + 1 /\ editor'.loading
      /\ editor'.draft = editor.draft /\ editor'.charts = editor.charts
  BY <1>1, <1>2, <1>3 DEF EditorSound
<1>5. KeptSound'
  BY SameKept, GestureCounts DEF TryChart
<1>6. TrialsSound'
  <2>1. new \in [version: Nat, aborted: BOOLEAN, asks: Questions]
    BY <1>3, DraftNow DEF Questions
  <2>2. \A asks : asks = new.asks => AsksOfDraft(asks)'
    <3>1. \A asks : asks = Asking(Draft, editor.charts) => AsksOfDraft(asks)
      BY DEF AsksOfDraft, Asking
    <3>2. Draft' = Draft /\ new.asks = Asking(Draft, editor.charts)
      BY <1>4 DEF Draft
    <3> HIDE DEF new
    <3> QED
      BY <1>4, <3>1, <3>2 DEF AsksOfDraft
  <2>3. new.version = editor'.version /\ ~new.aborted
    BY <1>4
  <2> HIDE DEF new
  <2>4. ASSUME NEW t \in Cancel
        PROVE  t \in [version: Nat, aborted: BOOLEAN, asks: Questions] /\ t.version < editor'.version
    <3>1. PICK s \in trial : t = [s EXCEPT !.aborted = TRUE]
      BY DEF Cancel
    <3>2. s \in [version: Nat, aborted: BOOLEAN, asks: Questions] /\ s.version <= editor.version
      BY DEF ChartInv, TrialsSound
    <3>3. t \in [version: Nat, aborted: BOOLEAN, asks: Questions] /\ t.version = s.version
      BY <3>1, <3>2
    <3>4. s.version \in Nat
      BY <3>2
    <3> QED
      BY <1>3, <1>4, <3>2, <3>3, <3>4
  <2>5. trial' = Cancel \cup {new}
    BY <1>1
  <2>6. \A t \in trial' : t \in [version: Nat, aborted: BOOLEAN, asks: Questions]
    BY <2>1, <2>4, <2>5
  <2>7. \A t \in trial' : /\ t.version <= editor'.version
                          /\ t.version = editor'.version => t = new
    <3>1. new.version <= editor'.version /\ editor'.version \in Nat
      BY <1>3, <1>4, <2>1, <2>3
    <3> QED
      BY <2>4, <2>5, <3>1
  <2>8. ASSUME NEW t \in trial', t.version = editor'.version
        PROVE  ~t.aborted /\ AsksOfDraft(t.asks)'
    BY <2>2, <2>3, <2>7, <2>8
  <2> QED
    BY <2>6, <2>7, <2>8 DEF TrialsSound
<1> QED
  BY <1>4, <1>5, <1>6 DEF ChartInv, ResultSound

LEMMA TryAnsweredStays ==
  ASSUME ChartInv, TryAnswered
  PROVE  ChartInv'
<1>1. PICK t \in trial :
        /\ trial' = trial \ {t}
        /\ IF t.version # editor.version THEN UNCHANGED editor
           ELSE \/ editor' = [editor EXCEPT !.loading = FALSE, !.result = t.asks]
                \/ editor' = [editor EXCEPT !.loading = FALSE, !.failed = @ \/ ~t.aborted]
  BY DEF TryAnswered
<1>2. KeptSound'
  BY SameKept, GestureCounts DEF TryAnswered
<1>3. EditorSound /\ TrialsSound /\ ResultSound
  BY DEF ChartInv
<1>4. t \in [version: Nat, aborted: BOOLEAN, asks: Questions] /\ t.asks \in Questions
  BY <1>3 DEF TrialsSound
<1>5. ASSUME EditorSound', editor'.draft = editor.draft, editor'.charts = editor.charts,
             editor'.version = editor.version, editor'.replaced = editor.replaced
      PROVE  TrialsSound' /\ \A asks : AsksOfDraft(asks)' = AsksOfDraft(asks)
  <2>1. Draft' = Draft
    BY <1>5 DEF Draft
  <2>2. \A asks : AsksOfDraft(asks)' = AsksOfDraft(asks)
    BY <1>5, <2>1 DEF AsksOfDraft
  <2> QED
    BY <1>1, <1>3, <1>5, <2>1, <2>2 DEF TrialsSound, AsksOfDraft
<1>6. CASE t.version # editor.version
  <2>1. UNCHANGED editor
    BY <1>1, <1>6
  <2> QED
    BY <1>2, <1>3, <1>5, <2>1 DEF ChartInv, EditorSound, ResultSound, AsksOfDraft, Draft
<1>7. CASE t.version = editor.version /\ editor' = [editor EXCEPT !.loading = FALSE, !.result = t.asks]
  <2>1. /\ EditorSound' /\ editor'.draft = editor.draft /\ editor'.charts = editor.charts
        /\ editor'.version = editor.version /\ editor'.replaced = editor.replaced
        /\ editor'.result = t.asks
    BY <1>3, <1>4, <1>7 DEF EditorSound
  <2>2. ~editor.replaced => AsksOfDraft(t.asks)
    BY <1>3, <1>7 DEF TrialsSound
  <2>3. Draft' = Draft
    BY <2>1 DEF Draft
  <2>4. ResultSound'
    BY <2>1, <2>2, <2>3 DEF ResultSound, AsksOfDraft
  <2> QED
    BY <1>2, <1>5, <2>1, <2>4 DEF ChartInv
<1>8. CASE /\ t.version = editor.version
           /\ editor' = [editor EXCEPT !.loading = FALSE, !.failed = @ \/ ~t.aborted]
  <2>1. ~t.aborted
    BY <1>3, <1>8 DEF TrialsSound
  <2>2. editor' = [editor EXCEPT !.loading = FALSE, !.failed = TRUE]
    BY <1>8, <2>1
  <2>3. /\ EditorSound' /\ editor'.draft = editor.draft /\ editor'.charts = editor.charts
        /\ editor'.version = editor.version /\ editor'.replaced = editor.replaced
        /\ editor'.failed
    BY <1>3, <2>2 DEF EditorSound
  <2> QED
    BY <1>2, <1>5, <2>3 DEF ChartInv, ResultSound
<1> QED
  BY <1>1, <1>6, <1>7, <1>8

(* Steps that leave the draft, the version and the previews alone.         *)
LEMMA BesideStays ==
  ASSUME ChartInv, EditorSound', KeptSound', trial' = trial,
         editor'.draft = editor.draft, editor'.version = editor.version,
         editor'.replaced = editor.replaced, editor'.result = editor.result,
         editor'.loading = editor.loading, editor'.failed = editor.failed
  PROVE  ChartInv'
<1>1. Draft' = Draft
  BY DEF Draft
<1>2. \A asks : AsksOfDraft(asks) => AsksOfDraft(asks)'
  BY <1>1 DEF AsksOfDraft, Asking
<1>3. TrialsSound'
  <2>1. TrialsSound
    BY DEF ChartInv
  <2> QED
    BY <1>2, <2>1 DEF TrialsSound
<1>4. ResultSound'
  BY <1>2 DEF ChartInv, ResultSound
<1> QED
  BY <1>3, <1>4 DEF ChartInv

(* Steps that replace the draft beside its preview: it asks the same, or   *)
(* the preview is marked.                                                  *)
LEMMA ReplacedStays ==
  ASSUME ChartInv, EditorSound', KeptSound', trial' = trial,
         editor'.version = editor.version, editor'.result = editor.result,
         editor'.loading = editor.loading, editor'.failed = editor.failed,
         ~editor'.replaced =>
           ~editor.replaced /\ (\A asks : AsksOfDraft(asks) => AsksOfDraft(asks)')
  PROVE  ChartInv'
<1>1. TrialsSound'
  <2>1. TrialsSound
    BY DEF ChartInv
  <2> QED
    BY <2>1 DEF TrialsSound
<1>2. ResultSound'
  BY DEF ChartInv, ResultSound
<1> QED
  BY <1>1, <1>2 DEF ChartInv

-----------------------------------------------------------------------------
(* The catalog, saves and removals.                                        *)
LEMMA QuietStays ==
  ASSUME ChartInv,
         RefreshCatalog \/ CatalogRead \/ CatalogFailed \/ Served
  PROVE  ChartInv'
<1>1. editor' = editor /\ trial' = trial /\ editSteps' \in 0..EditGestures
  BY GestureCounts DEF RefreshCatalog, CatalogRead, CatalogFailed, Served
<1>2. ASSUME KeptSound' PROVE ChartInv'
  BY <1>1, <1>2, BesideStays DEF ChartInv, EditorSound
<1>3. KeptSound
  BY DEF ChartInv
<1>4. CASE RefreshCatalog
  <2> DEFINE new == [read |-> FALSE, charts |-> Nothing]
  <2>1. new \in [read: BOOLEAN, charts: ChartShelf \cup {Nothing}] /\ ~new.read
    OBVIOUS
  <2>2. fetch' = new /\ UNCHANGED <<kept, keeping>>
    BY <1>4 DEF RefreshCatalog
  <2> HIDE DEF new
  <2> QED
    BY <1>1, <1>2, <1>3, <2>1, <2>2 DEF KeptSound
<1>5. CASE CatalogRead
  <2> DEFINE new == [read |-> TRUE, charts |-> kept]
  <2>1. new \in [read: BOOLEAN, charts: ChartShelf \cup {Nothing}] /\ new.charts \in ChartShelf
    BY <1>3 DEF KeptSound
  <2>2. fetch' = new /\ UNCHANGED <<kept, keeping>>
    BY <1>5 DEF CatalogRead
  <2> HIDE DEF new
  <2> QED
    BY <1>1, <1>2, <1>3, <2>1, <2>2 DEF KeptSound
<1>6. CASE CatalogFailed
  <2>1. fetch' = Nothing /\ UNCHANGED <<kept, keeping>>
    BY <1>6 DEF CatalogFailed
  <2> QED
    BY <1>1, <1>2, <1>3, <2>1 DEF KeptSound
<1>7. CASE Served
  <2> DEFINE saved == [keeping.chart EXCEPT !.revision = @ + 1]
  <2>1. keeping \in [kind: {"save", "delete"}, chart: SoundDrafts, stage: {"sent", "done", "refused"}]
        /\ kept \in ChartShelf /\ fetch' = fetch
    BY <1>3, <1>7 DEF KeptSound, Served
  <2>2. keeping.chart \in Drafts /\ SoundChart(keeping.chart)
    BY <2>1 DEF SoundDrafts
  <2>3. saved \in SoundDrafts /\ keeping.chart.id \in ChartIds
    <3> DEFINE c == keeping.chart
    <3>1. c \in Drafts /\ SoundChart(c) /\ c.revision + 1 \in Nat /\ c.id \in ChartIds
      BY <2>2, DraftFields
    <3> HIDE DEF c
    <3>2. LET e == [c EXCEPT !.revision = @ + 1]
          IN  e \in Drafts /\ e.dims = c.dims /\ e.dataset = c.dataset
              /\ e.time = c.time /\ e.grain = c.grain
      BY <3>1 DEF Drafts
    <3> DEFINE e == [c EXCEPT !.revision = @ + 1]
    <3>3. /\ e \in Drafts /\ e.dims = c.dims /\ e.dataset = c.dataset
          /\ e.time = c.time /\ e.grain = c.grain
      BY <3>2
    <3> HIDE DEF e
    <3>4. e \in SoundDrafts
      BY <3>1, <3>3, SameSound DEF SoundDrafts
    <3> QED
      BY <3>1, <3>4 DEF e, c
  <2>4. CASE Accepts(keeping)
    <3> DEFINE value == IF keeping.kind = "save" THEN saved ELSE Nothing
    <3>1. /\ kept' = [kept EXCEPT ![keeping.chart.id] = value]
          /\ keeping' = [keeping EXCEPT !.stage = "done", !.chart = saved]
      BY <1>7, <2>4 DEF Served
    <3>2. value \in SoundDrafts \cup {Nothing}
      BY <2>3
    <3> HIDE DEF saved, value
    <3>3. kept' \in ChartShelf
      BY <2>1, <2>3, <3>1, <3>2 DEF ChartShelf
    <3>4. keeping' \in [kind: {"save", "delete"}, chart: SoundDrafts,
                        stage: {"sent", "done", "refused"}]
      BY <2>1, <2>3, <3>1
    <3> QED
      BY <1>1, <1>2, <1>3, <2>1, <3>3, <3>4 DEF KeptSound
  <2>5. CASE ~Accepts(keeping)
    <3>1. kept' = kept /\ keeping' = [keeping EXCEPT !.stage = "refused"]
      BY <1>7, <2>5 DEF Served
    <3>2. keeping' \in [kind: {"save", "delete"}, chart: SoundDrafts,
                        stage: {"sent", "done", "refused"}]
      BY <2>1, <3>1
    <3> QED
      BY <1>1, <1>2, <1>3, <2>1, <3>1, <3>2 DEF KeptSound
  <2> QED
    BY <2>4, <2>5
<1> QED
  BY <1>4, <1>5, <1>6, <1>7

LEMMA ButtonsStay ==
  ASSUME ChartInv, ChooseMarks \/ SaveChart \/ DeleteChart \/ KeepRefused
  PROVE  ChartInv'
<1>1. EditorSound /\ KeptSound
  BY DEF ChartInv
<1>2. editSteps' \in 0..EditGestures /\ trial' = trial /\ fetch' = fetch /\ kept' = kept
  BY GestureCounts DEF ChooseMarks, SaveChart, DeleteChart, KeepRefused, NoAnswer
<1>3. /\ EditorSound' /\ editor'.draft = editor.draft /\ editor'.version = editor.version
      /\ editor'.replaced = editor.replaced /\ editor'.result = editor.result
      /\ editor'.loading = editor.loading /\ editor'.failed = editor.failed
  <2>1. \E busied, chosen \in BOOLEAN :
          editor' = [editor EXCEPT !.saving = busied, !.chosen = chosen]
    <3>1. CASE ChooseMarks
      <4>1. editor' = [editor EXCEPT !.saving = editor.saving, !.chosen = ~@]
        BY <1>1, <3>1 DEF ChooseMarks, EditorSound
      <4>2. editor.saving \in BOOLEAN /\ editor.chosen \in BOOLEAN
        BY <1>1, EditorFields
      <4> DEFINE b == ~editor.chosen
      <4>3. editor' = [editor EXCEPT !.saving = editor.saving, !.chosen = b] /\ b \in BOOLEAN
        BY <4>1
      <4> HIDE DEF b
      <4> QED
        BY <4>2, <4>3
    <3>2. ASSUME NEW b \in BOOLEAN, editor' = [editor EXCEPT !.saving = b]
          PROVE  editor' = [editor EXCEPT !.saving = b, !.chosen = editor.chosen]
      BY <1>1, <3>2 DEF EditorSound
    <3>3. editor.chosen \in BOOLEAN
      BY <1>1, EditorFields
    <3> QED
      BY <3>1, <3>2, <3>3 DEF SaveChart, DeleteChart, KeepRefused
  <2>2. PICK busied, chosen \in BOOLEAN :
          editor' = [editor EXCEPT !.saving = busied, !.chosen = chosen]
    BY <2>1
  <2> QED
    BY <1>1, <2>2 DEF EditorSound
<1>4. KeptSound'
  <2>1. CASE ChooseMarks
    BY <1>1, <1>2, <2>1, SameKept DEF ChooseMarks, NoAnswer
  <2>2. CASE KeepRefused
    BY <1>1, <1>2, <2>2 DEF KeepRefused, KeptSound
  <2>3. ASSUME NEW kind \in {"save", "delete"},
               keeping' = [kind |-> kind, chart |-> Draft, stage |-> "sent"]
        PROVE  KeptSound'
    <3>1. Draft \in SoundDrafts
      BY DraftNow DEF SoundDrafts
    <3>2. keeping' \in [kind: {"save", "delete"}, chart: SoundDrafts,
                        stage: {"sent", "done", "refused"}]
      BY <2>3, <3>1
    <3> QED
      BY <1>1, <1>2, <3>2 DEF KeptSound
  <2> QED
    BY <2>1, <2>2, <2>3 DEF SaveChart, DeleteChart
<1> QED
  BY <1>2, <1>3, <1>4, BesideStays

LEMMA CatalogShownStays ==
  ASSUME ChartInv, CatalogShown
  PROVE  ChartInv'
<1> DEFINE listed == {c \in ChartIds : fetch.charts[c] # Nothing}
           c == CHOOSE x \in listed : TRUE
           opens == ~editor.first /\ listed # {}
           draft == IF editor.first \/ listed = {} THEN Draft ELSE fetch.charts[c]
           replaced == editor.replaced \/ opens
<1>1. EditorSound /\ KeptSound /\ fetch.charts \in ChartShelf
  BY DEF ChartInv, KeptSound, CatalogShown
<1>2. editor' = [editor EXCEPT !.charts = fetch.charts, !.first = TRUE, !.draft = draft,
                               !.replaced = replaced]
  BY DEF CatalogShown, Draft
<1>3. trial' = trial /\ fetch' = Nothing /\ kept' = kept /\ keeping' = keeping
      /\ editSteps' \in 0..EditGestures
  BY GestureCounts DEF CatalogShown
<1>4. draft \in SoundDrafts
  <2>1. Draft \in SoundDrafts
    BY DraftNow DEF SoundDrafts
  <2>2. listed # {} => c \in listed
    OBVIOUS
  <2>3. listed # {} => fetch.charts[c] \in SoundDrafts
    BY <1>1, <2>2 DEF ChartShelf
  <2> QED
    BY <2>1, <2>3
<1>5. replaced \in BOOLEAN /\ (~replaced => ~editor.replaced /\ draft = Draft)
  BY <1>1, EditorFields
<1> HIDE DEF draft, replaced
<1>6. /\ EditorSound' /\ editor'.version = editor.version /\ editor'.result = editor.result
      /\ editor'.loading = editor.loading /\ editor'.failed = editor.failed
      /\ editor'.replaced = replaced /\ editor'.draft = draft
  BY <1>1, <1>2, <1>4, <1>5 DEF EditorSound
<1>7. KeptSound'
  BY <1>1, <1>3 DEF KeptSound
<1>8. ~replaced => \A asks : AsksOfDraft(asks) => AsksOfDraft(asks)'
  BY <1>5, <1>6 DEF AsksOfDraft, Asking, Draft
<1> QED
  BY <1>3, <1>5, <1>6, <1>7, <1>8, ReplacedStays

LEMMA SaveShownStays ==
  ASSUME ChartInv, SaveShown
  PROVE  ChartInv'
<1> DEFINE saved == keeping.chart
           listed == [editor.charts EXCEPT ![saved.id] = saved]
           replaced == editor.replaced \/ ~SameQuestion(saved, Draft)
<1>1. EditorSound /\ KeptSound /\ saved \in SoundDrafts
  BY DEF ChartInv, KeptSound, SaveShown
<1>2. editor' = [editor EXCEPT !.saving = FALSE, !.draft = saved, !.charts = listed,
                               !.replaced = replaced]
  BY DEF SaveShown
<1>3. trial' = trial /\ keeping' = Nothing /\ kept' = kept /\ fetch' = fetch
      /\ editSteps' \in 0..EditGestures
  BY GestureCounts DEF SaveShown
<1>4. saved.id \in ChartIds
  BY <1>1, DraftFields DEF SoundDrafts
<1> HIDE DEF saved
<1>5. listed \in ChartShelf
  BY <1>1, <1>4, EditorFields DEF ChartShelf
<1>6. replaced \in BOOLEAN /\ (~replaced => ~editor.replaced /\ SameQuestion(saved, Draft))
  BY <1>1, EditorFields
<1> HIDE DEF listed, replaced
<1>7. /\ EditorSound' /\ editor'.version = editor.version /\ editor'.result = editor.result
      /\ editor'.loading = editor.loading /\ editor'.failed = editor.failed
      /\ editor'.replaced = replaced /\ editor'.draft = saved
  BY <1>1, <1>2, <1>5, <1>6 DEF EditorSound
<1>8. KeptSound'
  BY <1>1, <1>3 DEF KeptSound
<1>9. ASSUME ~replaced, NEW asks, AsksOfDraft(asks) PROVE AsksOfDraft(asks)'
  <2>1. SameQuestion(saved, Draft) /\ Draft' = saved
    BY <1>6, <1>7, <1>9 DEF Draft
  <2>2. Asking(saved, editor'.charts).query = Asking(saved, editor.charts).query
    BY DEF Asking
  <2> QED
    BY <1>9, <2>1, <2>2 DEF SameQuestion, AsksOfDraft
<1> QED
  BY <1>3, <1>6, <1>7, <1>8, <1>9, ReplacedStays

LEMMA DeleteShownStays ==
  ASSUME ChartInv, DeleteShown
  PROVE  ChartInv'
<1> DEFINE new == New(Fresh, FirstDataset)
           draft == [new EXCEPT !.layers = Draft.layers]
           listed == [Updated(draft).charts EXCEPT ![keeping.chart.id] = Nothing]
<1>1. EditorSound /\ KeptSound
  BY DEF ChartInv
<1>2. /\ editor' = [Updated(draft) EXCEPT !.saving = FALSE, !.charts = listed]
      /\ trial' = Cancel /\ keeping' = Nothing /\ kept' = kept /\ fetch' = fetch
      /\ editSteps' \in 0..EditGestures
  BY GestureCounts DEF DeleteShown
<1>3. Fresh \in ChartIds
  BY DEF DeleteShown, Fresh, Free
<1>4. new \in Drafts /\ SoundChart(new)
  BY <1>3, NewSound, FirstDatasetIs
<1> HIDE DEF new
<1>5. draft \in SoundDrafts
  BY <1>4, DraftNow, LayersSound DEF SoundDrafts
<1> HIDE DEF draft
<1>6. listed \in ChartShelf
  BY <1>1, <1>5, UpdatedFields, EditorFields DEF ChartShelf
<1> HIDE DEF listed
<1>7. EditorSound' /\ editor'.result = Nothing /\ editor'.version = editor.version + 1
  BY <1>1, <1>2, <1>5, <1>6, UpdatedFields DEF EditorSound
<1>8. KeptSound'
  BY <1>1, <1>2 DEF KeptSound
<1>9. TrialsSound'
  BY <1>2, <1>7, CancelSound
<1> QED
  BY <1>7, <1>8, <1>9 DEF ChartInv, ResultSound

(* Every step keeps the invariant of the editor of charts.                 *)
LEMMA ChartStays ==
  ASSUME ChartInv, EditorNext
  PROVE  ChartInv'
  BY CatalogEditsStay, FieldsStay, SetDatasetStays, SetDimsStays, TimeStays, TryStays,
     TryAnsweredStays, QuietStays, ButtonsStay, CatalogShownStays, SaveShownStays,
     DeleteShownStays
  DEF EditorNext

-----------------------------------------------------------------------------
(***************************************************************************)
(* The workspace of datasets (DeskInv).                                    *)
(*                                                                         *)
(* The result beside a definition is of that definition, and what is kept  *)
(* has one source.                                                         *)
(***************************************************************************)
(* What is kept and listed, what is edited, what panels carry and what is  *)
(* sent.                                                                   *)
SoundSets == {d \in Definitions : OneSource(d)}
Shelves == [SetIds -> SoundSets \cup {Nothing}]
SheetModes == {"table", "sql", "visual"}
DeskTabs == {"datasets", "charts", "dashboards", "transfer", "import"}
Desks ==
  [tab: DeskTabs, datasets: Shelves, selected: SoundSets \cup {Nothing}, known: BOOLEAN, busy: BOOLEAN]
Sheets ==
  [value: Definitions, of: SoundSets, mode: SheetModes, result: Definitions \cup {Nothing},
   asked: Definitions \cup {Nothing}, failed: BOOLEAN, joins: Seq(BOOLEAN), confirm: BOOLEAN,
   moved: BOOLEAN, overtaken: BOOLEAN]
Mappings ==
  {<<>>} \cup UNION {[BundleSources[f] -> Connections \cup {Nothing}] : f \in Bundles}
Carries ==
  [dashboard: BOOLEAN, file: Bundles \cup {Nothing}, reading: SUBSET Bundles,
   bundle: Bundles \cup {Nothing}, mapping: Mappings, replace: BOOLEAN, busy: BOOLEAN,
   source: Connections \cup {Nothing}]
Requests ==
  [kind: {"list", "save", "delete", "export", "import", "replace"},
   stage: {"sent", "done", "refused"}, set: Definitions \cup {Nothing},
   answer: Shelves \cup SoundSets \cup {Nothing}]

(* The editor shows the selected dataset in its tab. A preview asks for    *)
(* the definition as it stands, or the definition was moved on; a result   *)
(* is of the definition as it stands, or was overtaken.                    *)
SheetFits(s) ==
  /\ s.value.id = s.of.id
  /\ s.asked # Nothing /\ ~s.moved => s.asked = Materialize(s)
  /\ s.result # Nothing /\ ~s.overtaken => s.result = Materialize(s)
SheetSound ==
  sheet # Nothing =>
    /\ sheet \in Sheets /\ SheetFits(sheet)
    /\ desk.selected \in SoundSets /\ desk.selected.id = sheet.of.id /\ desk.tab = "datasets"
(* A mapping is of the sources of its bundle.                              *)
CarryFits(c) ==
  c \in Carries /\ (c.bundle # Nothing => DOMAIN c.mapping = BundleSources[c.bundle])
RequestFits(op) ==
  /\ op \in Requests
  /\ op.kind \in {"save", "delete"} => op.set \in SoundSets
  /\ op.kind = "list" /\ op.stage = "done" => op.answer \in Shelves
  /\ op.kind = "save" /\ op.stage = "done" => op.answer \in SoundSets
SendsSound ==
  /\ shelf \in Shelves
  /\ \A op \in sends : RequestFits(op)
  /\ deskSteps \in 0..DeskGestures
DeskInv == desk \in Desks /\ SheetSound /\ CarryFits(carry) /\ SendsSound

LEMMA DeskInvSuffices ==
  ASSUME DeskInv
  PROVE  DatasetTypeOK /\ PreviewFits /\ DefinitionsFit
<1>1. /\ desk \in Desks /\ SheetSound /\ carry \in Carries /\ shelf \in Shelves
      /\ deskSteps \in 0..DeskGestures
  BY DEF DeskInv, CarryFits, SendsSound
<1>2. DatasetTypeOK
  <2>1. desk.tab \in DeskTabs /\ desk.busy \in BOOLEAN
    BY <1>1 DEF Desks
  <2>2. sheet # Nothing =>
          /\ sheet.value.id = desk.selected.id /\ sheet.mode \in SheetModes /\ desk.tab = "datasets"
    BY <1>1 DEF SheetSound, SheetFits, Sheets
  <2>3. carry.file \in Bundles \cup {Nothing} /\ carry.reading \subseteq Bundles
    BY <1>1 DEF Carries
  <2>4. DOMAIN shelf = SetIds
    BY <1>1 DEF Shelves
  <2> QED
    BY <1>1, <2>1, <2>2, <2>3, <2>4 DEF DatasetTypeOK, DeskTabs, SheetModes
<1>3. PreviewFits
  BY <1>1 DEF SheetSound, SheetFits, PreviewFits
<1>4. DefinitionsFit
  <2>1. \A d \in SetIds : shelf[d] # Nothing => OneSource(shelf[d])
    BY <1>1 DEF Shelves, SoundSets
  <2> QED
    BY <2>1 DEF DeskInv, CarryFits, DefinitionsFit
<1> QED
  BY <1>2, <1>3, <1>4

-----------------------------------------------------------------------------
(* Definitions.                                                            *)
LEMMA EmptySound ==
  ASSUME NEW id \in SetIds, NEW connection \in Connections \cup {Nothing}
  PROVE  /\ EmptyDataset(id, connection) \in SoundSets
         /\ EmptyDataset(id, connection).id = id /\ EmptyDataset(id, connection).sql = Nothing
<1>1. /\ <<>> \in Seq(ResultColumns \cup {Nothing})
      /\ <<>> \in Seq([to: SetIds \cup {Nothing}, keyed: BOOLEAN])
  OBVIOUS
<1>2. EmptyDataset(id, connection) \in Definitions
  BY <1>1 DEF EmptyDataset, Definitions
<1> QED
  BY <1>2 DEF EmptyDataset, SoundSets, OneSource

LEMMA MaterializedSound ==
  ASSUME NEW s \in Sheets
  PROVE  Materialize(s) \in SoundSets /\ Materialize(s).id = s.value.id
<1> DEFINE v == s.value
<1>1. v \in Definitions
  BY DEF Sheets
<1> HIDE DEF v
<1>2. /\ [v EXCEPT !.sql = Nothing] \in Definitions /\ [v EXCEPT !.table = FALSE] \in Definitions
      /\ [v EXCEPT !.sql = Nothing].sql = Nothing /\ [v EXCEPT !.table = FALSE].table = FALSE
      /\ [v EXCEPT !.sql = Nothing].id = v.id /\ [v EXCEPT !.table = FALSE].id = v.id
  BY <1>1 DEF Definitions
<1>3. [v EXCEPT !.sql = Nothing] \in SoundSets /\ [v EXCEPT !.table = FALSE] \in SoundSets
  BY <1>2 DEF SoundSets, OneSource
<1>4. Materialize(s) = IF s.mode = "table" THEN [v EXCEPT !.sql = Nothing]
                       ELSE [v EXCEPT !.table = FALSE]
  BY DEF Materialize, v
<1> QED
  BY <1>2, <1>3, <1>4 DEF v

LEMMA MountedFits ==
  ASSUME NEW d \in SoundSets
  PROVE  Mounted(d) \in Sheets /\ SheetFits(Mounted(d)) /\ Mounted(d).of = d
<1> DEFINE mode == IF d.sql = Nothing THEN "table" ELSE "sql"
<1>1. mode \in SheetModes /\ d \in Definitions /\ <<>> \in Seq(BOOLEAN)
  BY DEF SheetModes, SoundSets
<1>2. Mounted(d) =
        [value |-> d, of |-> d, mode |-> mode, result |-> Nothing, asked |-> Nothing,
         failed |-> FALSE, joins |-> <<>>, confirm |-> FALSE, moved |-> FALSE,
         overtaken |-> FALSE]
  BY DEF Mounted
<1> HIDE DEF mode
<1>3. Mounted(d) \in Sheets
  BY <1>1, <1>2 DEF Sheets
<1> QED
  BY <1>2, <1>3 DEF SheetFits

LEMMA SoundIsSomething == \A d \in SoundSets : d # Nothing
  BY DatasetsSaved DEF SoundSets

LEMMA FirstConnectionIs == FirstConnection \in Connections
  BY DatasetConstants DEF FirstConnection

LEMMA NoCarryFits == CarryFits(NoCarry)
<1>1. <<>> \in Mappings
  BY DEF Mappings
<1> QED
  BY <1>1 DEF NoCarry, CarryFits, Carries

LEMMA DeskStarts ==
  ASSUME DatasetInit
  PROVE  DeskInv
<1>1. shelf \in Shelves
  <2>1. \A d \in DOMAIN FirstKept : FirstKept[d] \in SoundSets
    BY DatasetsSaved DEF SoundSets
  <2> QED
    BY <2>1 DEF DatasetInit, Shelves
<1>2. desk \in Desks
  <2> DEFINE empty == [d \in SetIds |-> Nothing]
  <2>1. empty \in Shelves
    BY DEF Shelves
  <2>2. desk = [tab |-> "datasets", datasets |-> empty, selected |-> Nothing, known |-> FALSE,
                busy |-> TRUE]
    BY DEF DatasetInit
  <2> HIDE DEF empty
  <2> QED
    BY <2>1, <2>2 DEF Desks, DeskTabs
<1>3. SheetSound /\ CarryFits(carry)
  BY NoCarryFits DEF DatasetInit, SheetSound
<1>4. \A op \in sends : RequestFits(op)
  BY DEF DatasetInit, RequestFits, Requests
<1>5. deskSteps \in 0..DeskGestures
  BY DatasetConstants DEF DatasetInit
<1> QED
  BY <1>1, <1>2, <1>3, <1>4, <1>5 DEF DeskInv, SendsSound

-----------------------------------------------------------------------------
LEMMA DeskFields ==
  ASSUME DeskInv
  PROVE  /\ desk \in Desks /\ desk.tab \in DeskTabs /\ desk.datasets \in Shelves
         /\ desk.selected \in SoundSets \cup {Nothing} /\ desk.known \in BOOLEAN
         /\ desk.busy \in BOOLEAN
         /\ \A d \in SetIds : desk.datasets[d] # Nothing => desk.datasets[d] \in SoundSets
<1>1. desk \in Desks
  BY DEF DeskInv
<1>2. desk.datasets \in Shelves
  BY <1>1 DEF Desks
<1> QED
  BY <1>1, <1>2 DEF Desks, Shelves

LEMMA DeskCounts ==
  ASSUME DeskInv, DeskGesture \/ DeskIdle
  PROVE  deskSteps' \in 0..DeskGestures
  BY DatasetConstants DEF DeskInv, SendsSound, DeskGesture, DeskIdle

LEMMA DeskSendsStay ==
  ASSUME DeskInv, DeskGesture \/ DeskIdle, UNCHANGED <<shelf, sends>>
  PROVE  SendsSound'
  BY DeskCounts DEF DeskInv, SendsSound

(* The workspace.                                                          *)
LEMMA ShowStays ==
  ASSUME DeskInv, NEW d \in SoundSets, NEW again \in BOOLEAN, Show(d, again)
  PROVE  desk' \in Desks /\ SheetSound'
<1>1. desk' \in Desks /\ desk'.selected = d /\ desk'.tab = desk.tab
  BY DeskFields DEF Show, Desks
<1>2. CASE sheet' = Nothing
  BY <1>1, <1>2 DEF SheetSound
<1>3. CASE sheet' = Mounted(d) /\ desk.tab = "datasets"
  BY <1>1, <1>3, MountedFits DEF SheetSound
<1>4. CASE sheet' = sheet /\ sheet # Nothing /\ sheet.of.id = d.id /\ desk.tab = "datasets"
  BY <1>1, <1>4 DEF SheetSound, DeskInv
<1> QED
  BY <1>2, <1>3, <1>4 DEF Show

LEMMA WorkspaceStays ==
  ASSUME DeskInv,
         SwitchTab \/ OpenDataset \/ NewDataset \/ RefreshDatasets \/ ReloadSelected
  PROVE  DeskInv'
<1>1. CASE SwitchTab
  <2>1. PICK tab \in DeskTabs :
          /\ desk' = [desk EXCEPT !.tab = tab]
          /\ sheet' = IF tab = "datasets" /\ desk.selected # Nothing THEN Mounted(desk.selected)
                      ELSE Nothing
    BY <1>1 DEF SwitchTab, DeskTabs
  <2>2. desk' \in Desks /\ desk'.selected = desk.selected /\ desk'.tab = tab
    BY <2>1, DeskFields DEF Desks
  <2>3. SheetSound'
    BY <2>1, <2>2, MountedFits, DeskFields DEF SheetSound
  <2> QED
    BY <1>1, <2>2, <2>3, NoCarryFits, DeskSendsStay DEF SwitchTab, DeskInv, CarryFits
<1>2. ASSUME NEW d \in SoundSets, NEW again \in BOOLEAN, Show(d, again), DeskGesture,
             UNCHANGED <<carry, shelf, sends>>
      PROVE  DeskInv'
  BY <1>2, ShowStays, DeskSendsStay DEF DeskInv, CarryFits
<1>3. CASE OpenDataset
  BY <1>2, <1>3, DeskFields DEF OpenDataset
<1>4. CASE NewDataset
  <2> DEFINE free == {d \in SetIds : shelf[d] = Nothing /\ d # ImportedSet
                                   /\ (desk.selected = Nothing \/ desk.selected.id # d)}
             id == CHOOSE d \in free : TRUE
             connection == IF desk.known THEN FirstConnection ELSE Nothing
  <2>1. free # {} /\ Show(EmptyDataset(id, connection), FALSE)
    BY <1>4 DEF NewDataset
  <2>2. id \in SetIds /\ connection \in Connections \cup {Nothing}
    BY <2>1, FirstConnectionIs
  <2> HIDE DEF id, connection
  <2>3. EmptyDataset(id, connection) \in SoundSets
    BY <2>2, EmptySound
  <2> QED
    BY <1>2, <1>4, <2>1, <2>3 DEF NewDataset
<1>5. CASE RefreshDatasets
  <2> DEFINE op == [kind |-> "list", stage |-> "sent", set |-> Nothing, answer |-> Nothing]
  <2>1. sends' = sends \cup {op} /\ desk' = [desk EXCEPT !.busy = TRUE]
        /\ UNCHANGED <<sheet, carry, shelf>> /\ DeskGesture
    BY <1>5 DEF RefreshDatasets, Ask
  <2>2. RequestFits(op)
    BY DEF RequestFits, Requests
  <2> HIDE DEF op
  <2>3. SendsSound'
    BY <2>1, <2>2, DeskCounts DEF DeskInv, SendsSound
  <2>4. desk' \in Desks /\ desk'.selected = desk.selected /\ desk'.tab = desk.tab
    BY <2>1, DeskFields DEF Desks
  <2> QED
    BY <2>1, <2>3, <2>4 DEF DeskInv, SheetSound, CarryFits
<1>6. CASE ReloadSelected
  <2>1. desk.selected.id \in SetIds
    BY <1>6, DeskFields DEF ReloadSelected, SoundSets, Definitions
  <2> QED
    BY <1>2, <1>6, <2>1, DeskFields DEF ReloadSelected
<1> QED
  BY <1>1, <1>3, <1>4, <1>5, <1>6

-----------------------------------------------------------------------------
(* The editor of a dataset.                                                *)
LEMMA SheetNow ==
  ASSUME DeskInv, sheet # Nothing
  PROVE  /\ sheet \in Sheets /\ SheetFits(sheet) /\ sheet.value \in Definitions
         /\ sheet.of \in SoundSets /\ sheet.mode \in SheetModes /\ sheet.joins \in Seq(BOOLEAN)
         /\ sheet.result \in Definitions \cup {Nothing}
         /\ sheet.asked \in Definitions \cup {Nothing} /\ sheet.failed \in BOOLEAN
         /\ sheet.confirm \in BOOLEAN /\ sheet.moved \in BOOLEAN /\ sheet.overtaken \in BOOLEAN
         /\ sheet.value.id = sheet.of.id
<1>1. sheet \in Sheets /\ SheetFits(sheet)
  BY DEF DeskInv, SheetSound
<1> QED
  BY <1>1 DEF Sheets, SheetFits

LEMMA SheetStays ==
  ASSUME DeskInv, sheet # Nothing, sheet' \in Sheets, SheetFits(sheet'), sheet'.of = sheet.of,
         DeskGesture \/ DeskIdle, UNCHANGED <<desk, carry, shelf, sends>>
  PROVE  DeskInv'
<1>1. SheetSound'
  BY DEF DeskInv, SheetSound
<1> QED
  BY <1>1, DeskSendsStay DEF DeskInv, CarryFits

LEMMA PatchedFits ==
  ASSUME DeskInv, sheet # Nothing, NEW d \in Definitions, d.id = sheet.value.id
  PROVE  /\ Patched(d) \in Sheets /\ Patched(d).value = d /\ Patched(d).result = Nothing
         /\ Patched(d).moved /\ Patched(d).of = sheet.of /\ SheetFits(Patched(d))
<1>1. /\ Patched(d) \in Sheets /\ Patched(d).value = d /\ Patched(d).result = Nothing
      /\ Patched(d).moved /\ Patched(d).of = sheet.of
  BY SheetNow DEF Patched, Sheets
<1> QED
  BY <1>1, SheetNow DEF SheetFits

LEMMA SheetPatchStays ==
  ASSUME DeskInv, sheet # Nothing, NEW d \in Definitions, d.id = sheet.value.id, PatchDraft(d)
  PROVE  DeskInv'
  BY PatchedFits, SheetStays DEF PatchDraft

LEMMA FieldEditsStay ==
  ASSUME DeskInv,
         SetName \/ SetConnection \/ SetDefaultTime \/ SetTable \/ SetSql \/ SetMetricRows
  PROVE  DeskInv'
<1> DEFINE v == sheet.value
<1>1. sheet # Nothing
  BY DEF SetName, SetConnection, SetDefaultTime, SetTable, SetSql, SetMetricRows
<1>2. v \in Definitions
  BY <1>1, SheetNow
<1>3. CASE SetName
  <2>1. PatchDraft([v EXCEPT !.named = ~@])
    BY <1>3 DEF SetName
  <2> HIDE DEF v
  <2>2. [v EXCEPT !.named = ~@] \in Definitions /\ [v EXCEPT !.named = ~@].id = v.id
    BY <1>2 DEF Definitions
  <2> QED
    BY <1>1, <2>1, <2>2, SheetPatchStays DEF v
<1>4. CASE SetConnection
  <2>1. PICK c \in Connections : PatchDraft([v EXCEPT !.from = c])
    BY <1>4 DEF SetConnection
  <2> HIDE DEF v
  <2>2. [v EXCEPT !.from = c] \in Definitions /\ [v EXCEPT !.from = c].id = v.id
    BY <1>2 DEF Definitions
  <2> QED
    BY <1>1, <2>1, <2>2, SheetPatchStays DEF v
<1>5. CASE SetDefaultTime
  <2>1. PICK f \in {v.fields[i] : i \in DOMAIN v.fields} \cup {Nothing} :
          PatchDraft([v EXCEPT !.dated = f])
    BY <1>5 DEF SetDefaultTime
  <2> HIDE DEF v
  <2>2. v.fields \in Seq(ResultColumns \cup {Nothing})
    BY <1>2 DEF Definitions
  <2>3. f \in ResultColumns \cup {Nothing}
    BY <2>2, LenProperties, ElementOfSeq
  <2>4. [v EXCEPT !.dated = f] \in Definitions /\ [v EXCEPT !.dated = f].id = v.id
    BY <1>2, <2>3 DEF Definitions
  <2> QED
    BY <1>1, <2>1, <2>4, SheetPatchStays DEF v
<1>6. CASE SetTable
  <2>1. PatchDraft([v EXCEPT !.table = ~@])
    BY <1>6 DEF SetTable
  <2> HIDE DEF v
  <2>2. [v EXCEPT !.table = ~@] \in Definitions /\ [v EXCEPT !.table = ~@].id = v.id
    BY <1>2 DEF Definitions
  <2> QED
    BY <1>1, <2>1, <2>2, SheetPatchStays DEF v
<1>7. CASE SetSql
  <2>1. PICK q \in {"typed", Nothing} : PatchDraft([v EXCEPT !.sql = q])
    BY <1>7 DEF SetSql
  <2> HIDE DEF v
  <2>2. [v EXCEPT !.sql = q] \in Definitions /\ [v EXCEPT !.sql = q].id = v.id
    BY <1>2 DEF Definitions
  <2> QED
    BY <1>1, <2>1, <2>2, SheetPatchStays DEF v
<1>8. CASE SetMetricRows
  <2>1. PICK n \in 0..2 : PatchDraft([v EXCEPT !.metrics = n])
    BY <1>8 DEF SetMetricRows
  <2> HIDE DEF v
  <2>2. [v EXCEPT !.metrics = n] \in Definitions /\ [v EXCEPT !.metrics = n].id = v.id
    BY <1>2 DEF Definitions
  <2> QED
    BY <1>1, <2>1, <2>2, SheetPatchStays DEF v
<1> QED
  BY <1>3, <1>4, <1>5, <1>6, <1>7, <1>8

(* Rows are added, changed and removed.                                    *)
LEMMA RowRemoved ==
  ASSUME NEW S, NEW rows \in Seq(S), NEW i \in DOMAIN rows
  PROVE  SubSeq(rows, 1, i - 1) \o SubSeq(rows, i + 1, Len(rows)) \in Seq(S)
<1>1. /\ Len(rows) \in Nat /\ i \in 1..Len(rows)
      /\ \A j \in 1..Len(rows) : rows[j] \in S
  BY LenProperties, ElementOfSeq
<1>2. SubSeq(rows, 1, i - 1) \in Seq(S)
  <2>1. i - 1 \in Int /\ \A j \in 1..(i - 1) : rows[j] \in S
    BY <1>1
  <2> QED
    BY <2>1, SubSeqProperties
<1>3. SubSeq(rows, i + 1, Len(rows)) \in Seq(S)
  <2>1. i + 1 \in Int /\ Len(rows) \in Int /\ \A j \in (i + 1)..Len(rows) : rows[j] \in S
    BY <1>1
  <2> QED
    BY <2>1, SubSeqProperties
<1> QED
  BY <1>2, <1>3, ConcatProperties

LEMMA RowsStay ==
  ASSUME DeskInv, AddField \/ NameField \/ RemoveField \/ AdoptColumns
  PROVE  DeskInv'
<1> DEFINE v == sheet.value
           rows == v.fields
           S == ResultColumns \cup {Nothing}
<1>1. sheet # Nothing
  BY DEF AddField, NameField, RemoveField, AdoptColumns
<1>2. v \in Definitions
  BY <1>1, SheetNow
<1>3. rows \in Seq(S) /\ DOMAIN rows = 1..Len(rows)
  <2>1. rows \in Seq(S)
    BY <1>2 DEF Definitions
  <2> HIDE DEF rows, S
  <2> QED
    BY <2>1, LenProperties
<1>4. ASSUME NEW fields \in Seq(S), PatchDraft([v EXCEPT !.fields = fields])
      PROVE  DeskInv'
  <2> DEFINE d == [v EXCEPT !.fields = fields]
  <2>0. PatchDraft(d)
    BY <1>4
  <2>1. d \in Definitions /\ d.id = v.id
    <3> HIDE DEF v
    <3> QED
      BY <1>2 DEF Definitions
  <2> HIDE DEF d
  <2> QED
    BY <1>1, <2>0, <2>1, SheetPatchStays
<1>5. CASE AddField
  <2>1. PatchDraft([v EXCEPT !.fields = Append(rows, Nothing)])
    BY <1>5 DEF AddField
  <2>2. Append(rows, Nothing) \in Seq(S)
    <3>1. Nothing \in S
      OBVIOUS
    <3> HIDE DEF rows, S
    <3> QED
      BY <1>3, <3>1, AppendProperties
  <2> QED
    BY <1>4, <2>1, <2>2
<1>6. CASE NameField
  <2>1. PICK i \in DOMAIN rows, f \in ResultColumns : PatchDraft([v EXCEPT !.fields[i] = f])
    BY <1>6 DEF NameField
  <2>2. [v EXCEPT !.fields[i] = f] = [v EXCEPT !.fields = [rows EXCEPT ![i] = f]]
    OBVIOUS
  <2>3. [rows EXCEPT ![i] = f] \in Seq(S)
    <3>1. f \in S
      OBVIOUS
    <3> HIDE DEF rows, S
    <3> QED
      BY <1>3, <3>1, ExceptSeq
  <2>4. PatchDraft([v EXCEPT !.fields = [rows EXCEPT ![i] = f]])
    BY <2>1, <2>2
  <2> QED
    BY <1>4, <2>3, <2>4
<1>7. CASE RemoveField
  <2>1. PICK i \in DOMAIN rows :
          PatchDraft([v EXCEPT !.fields =
            SubSeq(rows, 1, i - 1) \o SubSeq(rows, i + 1, Len(rows))])
    BY <1>7 DEF RemoveField
  <2>2. SubSeq(rows, 1, i - 1) \o SubSeq(rows, i + 1, Len(rows)) \in Seq(S)
    <3> HIDE DEF rows, S
    <3> QED
      BY <1>3, RowRemoved
  <2> QED
    BY <1>4, <2>1, <2>2
<1>8. CASE AdoptColumns
  <2> DEFINE fresh == ResultColumns \ {rows[i] : i \in DOMAIN rows}
  <2>1. PICK columns \in [1..Cardinality(fresh) -> fresh] :
          PatchDraft([v EXCEPT !.fields = rows \o columns])
    BY <1>8 DEF AdoptColumns
  <2>2. Cardinality(fresh) \in Nat
    <3>1. fresh \subseteq ResultColumns
      OBVIOUS
    <3> HIDE DEF fresh
    <3> QED
      BY <3>1, DatasetConstants, FS_Subset, FS_CardinalityType
  <2>3. fresh \subseteq S
    OBVIOUS
  <2> HIDE DEF rows, S, fresh
  <2>4. columns \in Seq(S)
    BY <2>1, <2>2, <2>3
  <2>5. rows \o columns \in Seq(S)
    BY <1>3, <2>4, ConcatProperties
  <2> QED
    BY <1>4, <2>1, <2>5 DEF rows, S
<1> QED
  BY <1>5, <1>6, <1>7, <1>8

LEMMA RelationsStay ==
  ASSUME DeskInv, AddRelation \/ AimRelation \/ KeyRelation \/ RemoveRelation
  PROVE  DeskInv'
<1> DEFINE v == sheet.value
           rows == v.relations
           S == [to: SetIds \cup {Nothing}, keyed: BOOLEAN]
<1>1. sheet # Nothing
  BY DEF AddRelation, AimRelation, KeyRelation, RemoveRelation
<1>2. v \in Definitions
  BY <1>1, SheetNow
<1>3. rows \in Seq(S) /\ DOMAIN rows = 1..Len(rows)
  <2>1. rows \in Seq(S)
    BY <1>2 DEF Definitions
  <2> HIDE DEF rows, S
  <2> QED
    BY <2>1, LenProperties
<1>4. ASSUME NEW relations \in Seq(S), PatchDraft([v EXCEPT !.relations = relations])
      PROVE  DeskInv'
  <2> DEFINE d == [v EXCEPT !.relations = relations]
  <2>0. PatchDraft(d)
    BY <1>4
  <2>1. d \in Definitions /\ d.id = v.id
    <3> HIDE DEF v
    <3> QED
      BY <1>2 DEF Definitions
  <2> HIDE DEF d
  <2> QED
    BY <1>1, <2>0, <2>1, SheetPatchStays
<1>5. ASSUME NEW i \in DOMAIN rows, NEW r \in S
      PROVE  [rows EXCEPT ![i] = r] \in Seq(S)
  <2> HIDE DEF rows, S
  <2> QED
    BY <1>3, <1>5, ExceptSeq
<1>6. CASE AddRelation
  <2> DEFINE r == [to |-> Nothing, keyed |-> FALSE]
  <2>1. PatchDraft([v EXCEPT !.relations = Append(rows, r)])
    BY <1>6 DEF AddRelation
  <2>2. r \in S
    OBVIOUS
  <2>3. Append(rows, r) \in Seq(S)
    <3> HIDE DEF rows, S, r
    <3> QED
      BY <1>3, <2>2, AppendProperties
  <2> QED
    BY <1>4, <2>1, <2>3
<1>7. CASE AimRelation
  <2>1. PICK i \in DOMAIN rows, d \in SetIds :
          PatchDraft([v EXCEPT !.relations[i] = [to |-> d, keyed |-> FALSE]])
    BY <1>7 DEF AimRelation
  <2> DEFINE r == [to |-> d, keyed |-> FALSE]
  <2>2. r \in S
    OBVIOUS
  <2>3. [v EXCEPT !.relations[i] = r] = [v EXCEPT !.relations = [rows EXCEPT ![i] = r]]
    OBVIOUS
  <2>4. PatchDraft([v EXCEPT !.relations = [rows EXCEPT ![i] = r]])
    BY <2>1, <2>3
  <2> QED
    BY <1>4, <1>5, <2>2, <2>4
<1>8. CASE KeyRelation
  <2>1. PICK i \in DOMAIN rows : PatchDraft([v EXCEPT !.relations[i].keyed = ~@])
    BY <1>8 DEF KeyRelation
  <2> DEFINE r == [rows[i] EXCEPT !.keyed = ~@]
  <2>2. r \in S
    <3>1. rows[i] \in S
      <4> HIDE DEF rows, S
      <4> QED
        BY <1>3, ElementOfSeq
    <3> QED
      BY <3>1
  <2>3. [v EXCEPT !.relations[i].keyed = ~@] = [v EXCEPT !.relations = [rows EXCEPT ![i] = r]]
    OBVIOUS
  <2>4. PatchDraft([v EXCEPT !.relations = [rows EXCEPT ![i] = r]])
    BY <2>1, <2>3
  <2> QED
    BY <1>4, <1>5, <2>2, <2>4
<1>9. CASE RemoveRelation
  <2>1. PICK i \in DOMAIN rows :
          PatchDraft([v EXCEPT !.relations =
            SubSeq(rows, 1, i - 1) \o SubSeq(rows, i + 1, Len(rows))])
    BY <1>9 DEF RemoveRelation
  <2>2. SubSeq(rows, 1, i - 1) \o SubSeq(rows, i + 1, Len(rows)) \in Seq(S)
    <3> HIDE DEF rows, S
    <3> QED
      BY <1>3, RowRemoved
  <2> QED
    BY <1>4, <2>1, <2>2
<1> QED
  BY <1>6, <1>7, <1>8, <1>9

LEMMA SameMaterial ==
  ASSUME NEW s, NEW t, s.value = t.value, s.mode = t.mode
  PROVE  Materialize(s) = Materialize(t)
  BY DEF Materialize

LEMMA JoinsStay ==
  ASSUME DeskInv, AddJoin \/ EditJoin \/ RemoveJoin
  PROVE  DeskInv'
<1> DEFINE rows == sheet.joins
<1>1. sheet # Nothing
  BY DEF AddJoin, EditJoin, RemoveJoin
<1>2. rows \in Seq(BOOLEAN) /\ DOMAIN rows = 1..Len(rows)
  <2>1. rows \in Seq(BOOLEAN)
    BY <1>1, SheetNow
  <2> HIDE DEF rows
  <2> QED
    BY <2>1, LenProperties
<1>3. ASSUME NEW joins \in Seq(BOOLEAN), Redraw([sheet EXCEPT !.joins = joins])
      PROVE  DeskInv'
  <2> DEFINE new == [sheet EXCEPT !.joins = joins]
  <2>1. /\ new \in Sheets /\ new.value = sheet.value /\ new.mode = sheet.mode
        /\ new.of = sheet.of /\ new.asked = sheet.asked /\ new.moved = sheet.moved
        /\ new.result = sheet.result /\ new.overtaken = sheet.overtaken
    BY <1>1, SheetNow DEF Sheets
  <2>2. Redraw(new)
    BY <1>3
  <2> HIDE DEF new
  <2>3. SheetFits(new)
    BY <1>1, <2>1, SheetNow, SameMaterial DEF SheetFits
  <2> QED
    BY <1>1, <2>1, <2>2, <2>3, SheetStays DEF Redraw
<1>4. CASE AddJoin
  <2>1. Redraw([sheet EXCEPT !.joins = Append(rows, FALSE)])
    BY <1>4 DEF AddJoin
  <2>2. Append(rows, FALSE) \in Seq(BOOLEAN)
    <3> HIDE DEF rows
    <3> QED
      BY <1>2, AppendProperties
  <2> QED
    BY <1>3, <2>1, <2>2
<1>5. CASE EditJoin
  <2>1. PICK i \in DOMAIN rows : Redraw([sheet EXCEPT !.joins[i] = ~@])
    BY <1>5 DEF EditJoin
  <2> DEFINE joins == [rows EXCEPT ![i] = ~rows[i]]
  <2>2. [sheet EXCEPT !.joins[i] = ~@] = [sheet EXCEPT !.joins = joins]
    OBVIOUS
  <2>3. joins \in Seq(BOOLEAN)
    <3>1. (~rows[i]) \in BOOLEAN
      OBVIOUS
    <3> HIDE DEF rows
    <3> QED
      BY <1>2, <3>1, ExceptSeq
  <2>4. Redraw([sheet EXCEPT !.joins = joins])
    BY <2>1, <2>2
  <2> QED
    BY <1>3, <2>3, <2>4
<1>6. CASE RemoveJoin
  <2>1. PICK i \in DOMAIN rows :
          Redraw([sheet EXCEPT !.joins =
            SubSeq(rows, 1, i - 1) \o SubSeq(rows, i + 1, Len(rows))])
    BY <1>6 DEF RemoveJoin
  <2>2. SubSeq(rows, 1, i - 1) \o SubSeq(rows, i + 1, Len(rows)) \in Seq(BOOLEAN)
    <3> HIDE DEF rows
    <3> QED
      BY <1>2, RowRemoved
  <2> QED
    BY <1>3, <2>1, <2>2
<1> QED
  BY <1>4, <1>5, <1>6

LEMMA ModesStay ==
  ASSUME DeskInv, SetMode \/ GenerateSql \/ AskDeletion
  PROVE  DeskInv'
<1>1. sheet # Nothing
  BY DEF SetMode, GenerateSql, AskDeletion
<1>2. CASE SetMode
  <2>1. PICK m \in SheetModes :
          Redraw([sheet EXCEPT !.mode = m, !.moved = TRUE, !.overtaken = sheet.result # Nothing])
    BY <1>2 DEF SetMode, SheetModes
  <2> DEFINE left == sheet.result # Nothing
             new == [sheet EXCEPT !.mode = m, !.moved = TRUE, !.overtaken = left]
  <2>2. left \in BOOLEAN /\ Redraw(new)
    BY <2>1
  <2>3. left <=> sheet.result # Nothing
    OBVIOUS
  <2> HIDE DEF left
  <2>4. /\ new \in Sheets /\ new.value = sheet.value /\ new.of = sheet.of /\ new.moved = TRUE
        /\ new.result = sheet.result /\ new.overtaken = left
    BY <1>1, <2>2, SheetNow DEF Sheets
  <2> HIDE DEF new
  <2>5. SheetFits(new)
    BY <1>1, <2>3, <2>4, SheetNow DEF SheetFits
  <2> QED
    BY <1>1, <2>2, <2>4, <2>5, SheetStays DEF Redraw
<1>3. CASE GenerateSql
  <2> DEFINE v == sheet.value
             d == [v EXCEPT !.sql = "generated"]
             one == [Patched(d) EXCEPT !.mode = "sql", !.failed = FALSE]
             other == [sheet EXCEPT !.failed = TRUE]
  <2>1. (sheet' = one \/ sheet' = other) /\ DeskGesture /\ UNCHANGED <<desk, carry, shelf, sends>>
    BY <1>3 DEF GenerateSql
  <2>2. d \in Definitions /\ d.id = v.id
    <3>1. v \in Definitions
      BY <1>1, SheetNow
    <3> HIDE DEF v
    <3> QED
      BY <3>1 DEF Definitions
  <2> HIDE DEF d
  <2>3. one \in Sheets /\ SheetFits(one) /\ one.of = sheet.of
    <3> DEFINE p == Patched(d)
    <3>1. p \in Sheets /\ p.value = d /\ p.result = Nothing /\ p.moved /\ p.of = sheet.of
      BY <1>1, <2>2, PatchedFits
    <3> HIDE DEF p
    <3>2. "sql" \in SheetModes
      BY DEF SheetModes
    <3> DEFINE q == [p EXCEPT !.mode = "sql", !.failed = FALSE]
    <3>3. /\ q \in Sheets /\ q.value = d /\ q.result = Nothing /\ q.moved /\ q.of = sheet.of
      BY <3>1, <3>2 DEF Sheets
    <3>4. one = q
      BY DEF p
    <3> HIDE DEF q, one
    <3>5. SheetFits(q)
      BY <1>1, <2>2, <3>3, SheetNow DEF SheetFits
    <3> QED
      BY <3>3, <3>4, <3>5
  <2>4. other \in Sheets /\ SheetFits(other) /\ other.of = sheet.of
    <3>1. /\ other \in Sheets /\ other.value = sheet.value /\ other.mode = sheet.mode
          /\ other.of = sheet.of /\ other.asked = sheet.asked /\ other.moved = sheet.moved
          /\ other.result = sheet.result /\ other.overtaken = sheet.overtaken
      BY <1>1, SheetNow DEF Sheets
    <3> HIDE DEF other
    <3> QED
      BY <1>1, <3>1, SheetNow, SameMaterial DEF SheetFits
  <2> HIDE DEF one, other
  <2> QED
    BY <1>1, <2>1, <2>3, <2>4, SheetStays
<1>4. CASE AskDeletion
  <2> DEFINE new == [sheet EXCEPT !.confirm = ~@]
  <2>1. Redraw(new)
    BY <1>4 DEF AskDeletion
  <2>2. /\ new \in Sheets /\ new.value = sheet.value /\ new.mode = sheet.mode
        /\ new.of = sheet.of /\ new.asked = sheet.asked /\ new.moved = sheet.moved
        /\ new.result = sheet.result /\ new.overtaken = sheet.overtaken
    BY <1>1, SheetNow DEF Sheets
  <2> HIDE DEF new
  <2>3. SheetFits(new)
    BY <1>1, <2>2, SheetNow, SameMaterial DEF SheetFits
  <2> QED
    BY <1>1, <2>1, <2>2, <2>3, SheetStays DEF Redraw
<1> QED
  BY <1>2, <1>3, <1>4

(* A preview asks for the definition as it stands; its answer is of what   *)
(* was asked.                                                              *)
LEMMA PreviewsStay ==
  ASSUME DeskInv, PreviewDataset \/ PreviewAnswered
  PROVE  DeskInv'
<1>1. sheet # Nothing
  BY DEF PreviewDataset, PreviewAnswered
<1>2. CASE PreviewDataset
  <2> DEFINE m == Materialize(sheet)
             new == [sheet EXCEPT !.asked = m, !.failed = FALSE, !.moved = FALSE]
  <2>1. Redraw(new)
    BY <1>2 DEF PreviewDataset
  <2>2. m \in Definitions
    BY <1>1, SheetNow, MaterializedSound DEF SoundSets
  <2>3. m = Materialize(sheet)
    OBVIOUS
  <2> HIDE DEF m
  <2>4. /\ new \in Sheets /\ new.value = sheet.value /\ new.mode = sheet.mode
        /\ new.of = sheet.of /\ new.asked = m
        /\ new.result = sheet.result /\ new.overtaken = sheet.overtaken
    BY <1>1, <2>2, SheetNow DEF Sheets
  <2> HIDE DEF new
  <2>5. SheetFits(new)
    BY <1>1, <2>3, <2>4, SheetNow, SameMaterial DEF SheetFits
  <2> QED
    BY <1>1, <2>1, <2>4, <2>5, SheetStays DEF Redraw
<1>3. CASE PreviewAnswered
  <2> DEFINE shown == [sheet EXCEPT !.result = sheet.asked, !.asked = Nothing,
                                    !.overtaken = sheet.moved]
             missed == [sheet EXCEPT !.failed = TRUE, !.asked = Nothing]
  <2>1. /\ sheet' = shown \/ sheet' = missed
        /\ sheet.asked # Nothing /\ DeskIdle /\ UNCHANGED <<desk, carry, shelf, sends>>
    BY <1>3 DEF PreviewAnswered
  <2>2. shown \in Sheets /\ SheetFits(shown) /\ shown.of = sheet.of
    <3>1. /\ shown \in Sheets /\ shown.value = sheet.value /\ shown.mode = sheet.mode
          /\ shown.of = sheet.of /\ shown.asked = Nothing
          /\ shown.result = sheet.asked /\ shown.overtaken = sheet.moved
      BY <1>1, SheetNow DEF Sheets
    <3> HIDE DEF shown
    <3> QED
      BY <1>1, <2>1, <3>1, SheetNow, SameMaterial DEF SheetFits
  <2>3. missed \in Sheets /\ SheetFits(missed) /\ missed.of = sheet.of
    <3>1. /\ missed \in Sheets /\ missed.value = sheet.value /\ missed.mode = sheet.mode
          /\ missed.of = sheet.of /\ missed.asked = Nothing
          /\ missed.result = sheet.result /\ missed.overtaken = sheet.overtaken
      BY <1>1, SheetNow DEF Sheets
    <3> HIDE DEF missed
    <3> QED
      BY <1>1, <3>1, SheetNow, SameMaterial DEF SheetFits
  <2> HIDE DEF shown, missed
  <2> QED
    BY <1>1, <2>1, <2>2, <2>3, SheetStays
<1> QED
  BY <1>2, <1>3

-----------------------------------------------------------------------------
(* Requests are sent.                                                      *)
LEMMA AskStays ==
  ASSUME DeskInv, NEW op, RequestFits(op), Ask(op), DeskGesture, UNCHANGED shelf
  PROVE  SendsSound'
  BY DeskCounts DEF Ask, DeskInv, SendsSound

LEMMA BusyStays ==
  ASSUME DeskInv, NEW b \in BOOLEAN, desk' = [desk EXCEPT !.busy = b], UNCHANGED sheet
  PROVE  desk' \in Desks /\ SheetSound'
<1>1. desk' \in Desks /\ desk'.selected = desk.selected /\ desk'.tab = desk.tab
  BY DeskFields DEF Desks
<1> QED
  BY <1>1 DEF DeskInv, SheetSound

LEMMA SetsAreSent ==
  ASSUME DeskInv, SaveDataset \/ DeleteDataset
  PROVE  DeskInv'
<1>1. sheet # Nothing
  BY DEF SaveDataset, DeleteDataset
<1>2. ASSUME NEW kind \in {"save", "delete"}, NEW d \in SoundSets,
             Ask([kind |-> kind, stage |-> "sent", set |-> d, answer |-> Nothing]),
             desk' = [desk EXCEPT !.busy = TRUE], DeskGesture, UNCHANGED <<sheet, carry, shelf>>
      PROVE  DeskInv'
  <2> DEFINE op == [kind |-> kind, stage |-> "sent", set |-> d, answer |-> Nothing]
  <2>1. RequestFits(op)
    BY DEF RequestFits, Requests, SoundSets
  <2>2. Ask(op)
    BY <1>2
  <2> HIDE DEF op
  <2> QED
    BY <1>2, <2>1, <2>2, AskStays, BusyStays DEF DeskInv, CarryFits
<1>3. CASE SaveDataset
  <2> DEFINE m == Materialize(sheet)
  <2>1. m \in SoundSets
    BY <1>1, SheetNow, MaterializedSound
  <2>2. Ask([kind |-> "save", stage |-> "sent", set |-> m, answer |-> Nothing])
    BY <1>3 DEF SaveDataset
  <2> HIDE DEF m
  <2> QED
    BY <1>2, <1>3, <2>1, <2>2 DEF SaveDataset
<1>4. CASE DeleteDataset
  <2> DEFINE d == sheet.of
  <2>1. d \in SoundSets
    BY <1>1, SheetNow
  <2>2. Ask([kind |-> "delete", stage |-> "sent", set |-> d, answer |-> Nothing])
    BY <1>4 DEF DeleteDataset
  <2> HIDE DEF d
  <2> QED
    BY <1>2, <1>4, <2>1, <2>2 DEF DeleteDataset
<1> QED
  BY <1>3, <1>4

(* The panels of bundles.                                                  *)
LEMMA CarryNow ==
  ASSUME DeskInv
  PROVE  /\ carry \in Carries /\ CarryFits(carry) /\ carry.dashboard \in BOOLEAN
         /\ carry.file \in Bundles \cup {Nothing} /\ carry.reading \subseteq Bundles
         /\ carry.bundle \in Bundles \cup {Nothing} /\ carry.mapping \in Mappings
         /\ carry.replace \in BOOLEAN /\ carry.busy \in BOOLEAN
         /\ carry.source \in Connections \cup {Nothing}
<1>1. carry \in Carries /\ CarryFits(carry)
  BY DEF DeskInv, CarryFits
<1> QED
  BY <1>1 DEF Carries

LEMMA CarryStays ==
  ASSUME DeskInv, CarryFits(carry'), DeskGesture \/ DeskIdle,
         UNCHANGED <<desk, sheet, shelf, sends>>
  PROVE  DeskInv'
<1>1. SheetSound'
  BY DEF DeskInv, SheetSound
<1> QED
  BY <1>1, DeskSendsStay DEF DeskInv

LEMMA PanelsStay ==
  ASSUME DeskInv, ChooseExported \/ SetReplace \/ ChooseSource
  PROVE  DeskInv'
<1> DEFINE Like(c) == c \in Carries /\ c.bundle = carry.bundle /\ c.mapping = carry.mapping
<1>1. ASSUME NEW c, Like(c), carry' = c, DeskGesture, UNCHANGED <<desk, sheet, shelf, sends>>
      PROVE  DeskInv'
  BY <1>1, CarryNow, CarryStays DEF CarryFits
<1>2. CASE ChooseExported
  <2>1. Like([carry EXCEPT !.dashboard = TRUE])
    BY CarryNow DEF Carries
  <2> QED
    BY <1>1, <1>2, <2>1 DEF ChooseExported
<1>3. CASE SetReplace
  <2>1. Like([carry EXCEPT !.replace = ~@])
    BY CarryNow DEF Carries
  <2> QED
    BY <1>1, <1>3, <2>1 DEF SetReplace
<1>4. CASE ChooseSource
  <2>1. PICK c \in Connections : carry' = [carry EXCEPT !.source = c]
    BY <1>4 DEF ChooseSource
  <2>2. Like([carry EXCEPT !.source = c])
    BY CarryNow DEF Carries
  <2> QED
    BY <1>1, <1>4, <2>1, <2>2 DEF ChooseSource
<1> QED
  BY <1>2, <1>3, <1>4

LEMMA CarriedAway ==
  ASSUME DeskInv, ExportDashboard \/ ImportDashboard \/ ImportReference
  PROVE  DeskInv'
<1>1. ASSUME NEW kind \in {"export", "import", "replace"},
             Ask([kind |-> kind, stage |-> "sent", set |-> Nothing, answer |-> Nothing]),
             carry' = [carry EXCEPT !.busy = TRUE], DeskGesture, UNCHANGED <<desk, sheet, shelf>>
      PROVE  DeskInv'
  <2> DEFINE op == [kind |-> kind, stage |-> "sent", set |-> Nothing, answer |-> Nothing]
  <2>1. RequestFits(op) /\ Ask(op)
    BY <1>1 DEF RequestFits, Requests
  <2>2. carry' \in Carries /\ carry'.bundle = carry.bundle /\ carry'.mapping = carry.mapping
    BY <1>1, CarryNow DEF Carries
  <2> HIDE DEF op
  <2>3. CarryFits(carry')
    BY <2>2, CarryNow DEF CarryFits
  <2>4. SheetSound'
    BY <1>1 DEF DeskInv, SheetSound
  <2> QED
    BY <1>1, <2>1, <2>3, <2>4, AskStays DEF DeskInv
<1>2. CASE ExportDashboard
  BY <1>1, <1>2 DEF ExportDashboard
<1>3. CASE ImportDashboard
  <2> DEFINE kind == IF carry.replace THEN "replace" ELSE "import"
  <2>1. Ask([kind |-> kind, stage |-> "sent", set |-> Nothing, answer |-> Nothing])
    BY <1>3 DEF ImportDashboard
  <2>2. kind \in {"export", "import", "replace"}
    OBVIOUS
  <2> HIDE DEF kind
  <2> QED
    BY <1>1, <1>3, <2>1, <2>2 DEF ImportDashboard
<1>4. CASE ImportReference
  BY <1>1, <1>4 DEF ImportReference
<1> QED
  BY <1>2, <1>3, <1>4

LEMMA FilesStay ==
  ASSUME DeskInv, ChooseFile \/ FileRead
  PROVE  DeskInv'
<1>1. CASE ChooseFile
  <2>1. PICK f \in Bundles \cup {Nothing} :
          carry' = [carry EXCEPT !.file = f, !.bundle = Nothing, !.mapping = <<>>,
                      !.reading = IF f = Nothing THEN @ ELSE @ \cup {f}]
    BY <1>1 DEF ChooseFile
  <2> DEFINE reading == IF f = Nothing THEN carry.reading ELSE carry.reading \cup {f}
  <2>2. carry' = [carry EXCEPT !.file = f, !.bundle = Nothing, !.mapping = <<>>,
                    !.reading = reading]
    BY <2>1
  <2>3. reading \in SUBSET Bundles
    BY CarryNow
  <2>4. <<>> \in Mappings
    BY DEF Mappings
  <2> HIDE DEF reading
  <2>5. carry' \in Carries /\ carry'.bundle = Nothing
    BY <2>2, <2>3, <2>4, CarryNow DEF Carries
  <2> QED
    BY <1>1, <2>5, CarryStays DEF ChooseFile, CarryFits
<1>2. CASE FileRead
  <2>1. PICK f \in carry.reading :
          carry' = OpenBundle(f) \/ carry' = [carry EXCEPT !.reading = @ \ {f}]
    BY <1>2 DEF FileRead
  <2> DEFINE rest == carry.reading \ {f}
  <2>2. f \in Bundles /\ rest \in SUBSET Bundles
    BY CarryNow
  <2>3. CASE carry' = OpenBundle(f)
    <3> DEFINE mapping == [s \in BundleSources[f] |->
          IF desk.known /\ s \in Connections THEN s
          ELSE IF desk.known /\ Cardinality(Connections) = 1 THEN FirstConnection ELSE Nothing]
    <3>1. carry' = [carry EXCEPT !.reading = rest, !.bundle = f, !.mapping = mapping]
      BY <2>3 DEF OpenBundle
    <3>2. mapping \in [BundleSources[f] -> Connections \cup {Nothing}]
      BY FirstConnectionIs
    <3>3. mapping \in Mappings /\ DOMAIN mapping = BundleSources[f]
      BY <2>2, <3>2 DEF Mappings
    <3> HIDE DEF mapping, rest
    <3>4. carry' \in Carries /\ carry'.bundle = f /\ carry'.mapping = mapping
      BY <2>2, <3>1, <3>3, CarryNow DEF Carries
    <3> QED
      BY <1>2, <3>3, <3>4, CarryStays DEF FileRead, CarryFits
  <2>4. CASE carry' = [carry EXCEPT !.reading = rest]
    <3> HIDE DEF rest
    <3>1. carry' \in Carries /\ carry'.bundle = carry.bundle /\ carry'.mapping = carry.mapping
      BY <2>2, <2>4, CarryNow DEF Carries
    <3> QED
      BY <1>2, <3>1, CarryNow, CarryStays DEF FileRead, CarryFits
  <2> QED
    BY <2>1, <2>3, <2>4
<1> QED
  BY <1>1, <1>2

LEMMA MappingStays ==
  ASSUME DeskInv, MapSource
  PROVE  DeskInv'
<1> DEFINE b == carry.bundle
           m == carry.mapping
<1>1. PICK s \in BundleSources[b], c \in Connections :
        carry' = [carry EXCEPT !.mapping = [t \in DOMAIN m \cup {s} |-> IF t = s THEN c ELSE m[t]]]
  BY DEF MapSource
<1> DEFINE new == [t \in DOMAIN m \cup {s} |-> IF t = s THEN c ELSE m[t]]
<1>2. carry' = [carry EXCEPT !.mapping = new]
  BY <1>1
<1>3. b \in Bundles /\ m \in Mappings /\ DOMAIN m = BundleSources[b]
  BY CarryNow DEF MapSource, CarryFits
<1> HIDE DEF b, m
<1>4. \A t \in DOMAIN m : m[t] \in Connections \cup {Nothing}
  BY <1>3 DEF Mappings
<1>5. new \in [BundleSources[b] -> Connections \cup {Nothing}]
  BY <1>3, <1>4
<1>6. new \in Mappings /\ DOMAIN new = BundleSources[b]
  BY <1>3, <1>5 DEF Mappings
<1> HIDE DEF new
<1>7. carry' \in Carries /\ carry'.bundle = b /\ carry'.mapping = new
  BY <1>2, <1>6, CarryNow DEF Carries, b
<1> QED
  BY <1>6, <1>7, CarryStays DEF MapSource, CarryFits

-----------------------------------------------------------------------------
(* The server.                                                             *)
LEMMA ShelfHolds ==
  ASSUME DeskInv
  PROVE  /\ shelf \in Shelves /\ \A id \in SetIds : shelf[id] \in SoundSets \cup {Nothing}
         /\ \A id \in SetIds : RevisionOn(id) \in Nat
         /\ \A d \in SoundSets : d \in Definitions /\ d.id \in SetIds
<1>1. shelf \in Shelves
  BY DEF DeskInv, SendsSound
<1>2. \A id \in SetIds : shelf[id] \in SoundSets \cup {Nothing}
  BY <1>1 DEF Shelves
<1>3. \A d \in SoundSets : d \in Definitions /\ d.id \in SetIds /\ d.revision \in Nat
  BY DEF SoundSets, Definitions
<1> QED
  BY <1>1, <1>2, <1>3 DEF RevisionOn

LEMMA ShelfWritten ==
  ASSUME DeskInv, NEW id \in SetIds, NEW d \in SoundSets \cup {Nothing}
  PROVE  [shelf EXCEPT ![id] = d] \in Shelves /\ [shelf EXCEPT ![id] = d][id] = d
  BY ShelfHolds DEF Shelves

LEMMA WroteSound ==
  ASSUME DeskInv, NEW op, RequestFits(op)
  PROVE  Wrote(op) \in Shelves /\ (op.kind = "save" => Wrote(op)[op.set.id] \in SoundSets)
<1>1. CASE op.kind = "save"
  <2> DEFINE d == op.set
             new == [d EXCEPT !.revision = @ + 1]
  <2>1. d \in SoundSets
    BY <1>1 DEF RequestFits
  <2>2. Wrote(op) = [shelf EXCEPT ![d.id] = new]
    BY <1>1 DEF Wrote
  <2> HIDE DEF d
  <2>a. d \in Definitions /\ OneSource(d)
    BY <2>1 DEF SoundSets
  <2>b. new \in Definitions /\ new.table = d.table /\ new.sql = d.sql /\ d.id \in SetIds
    BY <2>a DEF Definitions
  <2> HIDE DEF new
  <2>3. new \in SoundSets /\ d.id \in SetIds
    BY <2>a, <2>b DEF SoundSets, OneSource
  <2>4. [shelf EXCEPT ![d.id] = new] \in Shelves /\ [shelf EXCEPT ![d.id] = new][d.id] = new
    BY <2>3, ShelfWritten
  <2> QED
    BY <2>2, <2>3, <2>4 DEF d
<1>2. CASE op.kind = "delete"
  <2>1. op.set.id \in SetIds
    BY <1>2, ShelfHolds DEF RequestFits
  <2>2. Wrote(op) = [shelf EXCEPT ![op.set.id] = Nothing]
    BY <1>2 DEF Wrote
  <2> QED
    BY <1>2, <2>1, <2>2, ShelfWritten
<1>3. CASE op.kind \in {"import", "replace"}
  <2> DEFINE e == EmptyDataset(ImportedSet, FirstConnection)
             n == RevisionOn(ImportedSet) + 1
             new == [e EXCEPT !.named = TRUE, !.table = TRUE, !.revision = n]
  <2>1. Wrote(op) = [shelf EXCEPT ![ImportedSet] = new]
    BY <1>3 DEF Wrote
  <2>2. e \in SoundSets /\ e.sql = Nothing
    BY DatasetConstants, FirstConnectionIs, EmptySound
  <2>3. n \in Nat
    BY DatasetConstants, ShelfHolds
  <2> HIDE DEF e, n
  <2>4. new \in SoundSets
    BY <2>2, <2>3 DEF SoundSets, Definitions, OneSource
  <2> HIDE DEF new
  <2> QED
    BY <1>3, <2>1, <2>4, DatasetConstants, ShelfWritten
<1>4. CASE op.kind \notin {"save", "delete", "import", "replace"}
  BY <1>4, ShelfHolds DEF Wrote
<1> QED
  BY <1>1, <1>2, <1>3, <1>4

LEMMA DeskServeStays ==
  ASSUME DeskInv, ServeDesk
  PROVE  DeskInv'
<1>1. PICK op \in sends :
        /\ op.stage = "sent"
        /\ shelf' = IF Granted(op) THEN Wrote(op) ELSE shelf
        /\ sends' = (sends \ {op}) \cup
             {[op EXCEPT !.stage = IF Granted(op) THEN "done" ELSE "refused",
                         !.answer = IF op.kind = "list" THEN shelf
                                    ELSE IF op.kind = "save" /\ Granted(op) THEN Wrote(op)[op.set.id]
                                    ELSE Nothing]}
  BY DEF ServeDesk
<1> DEFINE stage == IF Granted(op) THEN "done" ELSE "refused"
           answer == IF op.kind = "list" THEN shelf
                     ELSE IF op.kind = "save" /\ Granted(op) THEN Wrote(op)[op.set.id]
                     ELSE Nothing
           new == [op EXCEPT !.stage = stage, !.answer = answer]
<1>2. RequestFits(op)
  BY DEF DeskInv, SendsSound
<1>3. sends' = (sends \ {op}) \cup {new}
  BY <1>1
<1>4. shelf' \in Shelves
  BY <1>1, <1>2, WroteSound, ShelfHolds
<1>5. /\ stage \in {"done", "refused"}
      /\ answer \in Shelves \cup SoundSets \cup {Nothing}
      /\ op.kind = "list" => answer \in Shelves
      /\ op.kind = "save" /\ stage = "done" => answer \in SoundSets
  BY <1>2, WroteSound, ShelfHolds
<1> HIDE DEF stage, answer
<1>6. /\ new \in Requests /\ new.kind = op.kind /\ new.set = op.set /\ new.stage = stage
      /\ new.answer = answer
  BY <1>2, <1>5 DEF RequestFits, Requests
<1> HIDE DEF new
<1>7. RequestFits(new)
  BY <1>2, <1>5, <1>6 DEF RequestFits
<1>8. SendsSound'
  BY <1>3, <1>4, <1>7, DeskCounts DEF ServeDesk, DeskInv, SendsSound
<1>9. SheetSound'
  BY DEF ServeDesk, DeskInv, SheetSound
<1> QED
  BY <1>8, <1>9 DEF ServeDesk, DeskInv, CarryFits

LEMMA DeskLostStays ==
  ASSUME DeskInv, SendLost
  PROVE  DeskInv'
<1>1. PICK op \in sends :
        op.stage = "sent" /\ sends' = (sends \ {op}) \cup {[op EXCEPT !.stage = "refused"]}
  BY DEF SendLost
<1> DEFINE new == [op EXCEPT !.stage = "refused"]
<1>2. RequestFits(op)
  BY DEF DeskInv, SendsSound
<1>3. /\ new \in Requests /\ new.kind = op.kind /\ new.set = op.set /\ new.stage = "refused"
      /\ new.answer = op.answer
  BY <1>2 DEF RequestFits, Requests
<1>4. sends' = (sends \ {op}) \cup {new}
  BY <1>1
<1> HIDE DEF new
<1>5. RequestFits(new)
  BY <1>2, <1>3 DEF RequestFits
<1>6. SendsSound'
  BY <1>4, <1>5, DeskCounts DEF SendLost, DeskInv, SendsSound
<1>7. SheetSound'
  BY DEF SendLost, DeskInv, SheetSound
<1> QED
  BY <1>6, <1>7 DEF SendLost, DeskInv, CarryFits

(* Answers arrive.                                                         *)
LEMMA ListShownStays ==
  ASSUME DeskInv, NEW op, RequestFits(op), ListShown(op)
  PROVE  desk' \in Desks /\ SheetSound' /\ CarryFits(carry')
<1> DEFINE listed == {d \in SetIds : op.answer[d] # Nothing}
           first == IF listed = {} THEN Nothing ELSE op.answer[CHOOSE d \in listed : TRUE]
           open == IF desk.selected = Nothing THEN first ELSE desk.selected
           answer == op.answer
<1>1. /\ desk' = [desk EXCEPT !.datasets = answer, !.known = TRUE, !.busy = FALSE,
                              !.selected = open]
      /\ sheet' = IF desk.tab = "datasets" /\ sheet = Nothing /\ open # Nothing
                  THEN Mounted(open) ELSE sheet
      /\ carry' = carry
  BY DEF ListShown
<1>2. answer \in Shelves
  BY DEF ListShown, RequestFits
<1>3. first \in SoundSets \cup {Nothing}
  <2>1. CASE listed = {}
    BY <2>1
  <2>2. CASE listed # {}
    <3>1. (CHOOSE d \in listed : TRUE) \in listed
      BY <2>2
    <3>2. (CHOOSE d \in listed : TRUE) \in SetIds
      BY <3>1
    <3>3. \A d \in SetIds : answer[d] \in SoundSets \cup {Nothing}
      BY <1>2 DEF Shelves
    <3>4. first = answer[CHOOSE d \in listed : TRUE]
      BY <2>2
    <3> QED
      BY <3>2, <3>3, <3>4
  <2> QED
    BY <2>1, <2>2
<1>4. /\ open \in SoundSets \cup {Nothing}
      /\ desk.selected # Nothing => open = desk.selected
  BY <1>3, DeskFields
<1> HIDE DEF open, answer
<1>5. desk' \in Desks /\ desk'.selected = open /\ desk'.tab = desk.tab
  BY <1>1, <1>2, <1>4, DeskFields DEF Desks
<1>6. CASE sheet # Nothing
  BY <1>1, <1>4, <1>5, <1>6, SoundIsSomething DEF DeskInv, SheetSound
<1>7. ASSUME sheet = Nothing
      PROVE  SheetSound'
  <2>1. CASE sheet' = Nothing
    BY <2>1 DEF SheetSound
  <2>2. CASE sheet' # Nothing
    <3>1. open \in SoundSets /\ sheet' = Mounted(open) /\ desk.tab = "datasets"
      BY <1>1, <1>4, <1>7, <2>2
    <3> QED
      BY <1>5, <3>1, MountedFits DEF SheetSound
  <2> QED
    BY <2>1, <2>2
<1> QED
  BY <1>1, <1>5, <1>6, <1>7 DEF DeskInv

LEMMA SaveDoneStays ==
  ASSUME DeskInv, NEW op, RequestFits(op), SaveDone(op)
  PROVE  desk' \in Desks /\ SheetSound' /\ CarryFits(carry')
<1> DEFINE a == op.answer
           datasets == [desk.datasets EXCEPT ![a.id] = a]
<1>1. /\ desk' = [desk EXCEPT !.busy = FALSE, !.selected = a, !.datasets[a.id] = a]
      /\ sheet' = IF desk.tab = "datasets" THEN Mounted(a) ELSE Nothing
      /\ carry' = carry
  BY DEF SaveDone
<1>2. desk' = [desk EXCEPT !.busy = FALSE, !.selected = a, !.datasets = datasets]
  BY <1>1
<1>3. a \in SoundSets
  BY DEF SaveDone, RequestFits
<1> HIDE DEF a
<1>4. datasets \in Shelves
  BY <1>3, DeskFields DEF Shelves
<1> HIDE DEF datasets
<1>5. desk' \in Desks /\ desk'.selected = a /\ desk'.tab = desk.tab
  BY <1>2, <1>3, <1>4, DeskFields DEF Desks
<1>6. SheetSound'
  BY <1>1, <1>3, <1>5, MountedFits DEF SheetSound
<1> QED
  BY <1>1, <1>5, <1>6 DEF DeskInv

LEMMA DeleteDoneStays ==
  ASSUME DeskInv, NEW op, RequestFits(op), DeleteDone(op)
  PROVE  desk' \in Desks /\ SheetSound' /\ CarryFits(carry')
<1> DEFINE id == op.set.id
           datasets == [desk.datasets EXCEPT ![id] = Nothing]
<1>1. /\ desk' = [desk EXCEPT !.busy = FALSE, !.selected = Nothing, !.datasets[id] = Nothing]
      /\ sheet' = Nothing /\ carry' = carry
  BY DEF DeleteDone
<1>2. desk' = [desk EXCEPT !.busy = FALSE, !.selected = Nothing, !.datasets = datasets]
  BY <1>1
<1>3. datasets \in Shelves
  BY DeskFields DEF Shelves
<1> HIDE DEF datasets
<1>4. desk' \in Desks
  BY <1>2, <1>3, DeskFields DEF Desks
<1> QED
  BY <1>1, <1>4 DEF DeskInv, SheetSound

LEMMA CarryFreed ==
  ASSUME DeskInv, carry' = [carry EXCEPT !.busy = FALSE]
  PROVE  CarryFits(carry')
<1>1. carry' \in Carries /\ carry'.bundle = carry.bundle /\ carry'.mapping = carry.mapping
  BY CarryNow DEF Carries
<1> QED
  BY <1>1, CarryNow DEF CarryFits

LEMMA EndedStays ==
  ASSUME DeskInv, NEW op, BundleDone(op) \/ Refused(op)
  PROVE  desk' \in Desks /\ SheetSound' /\ CarryFits(carry')
<1>1. /\ desk' = desk \/ \E b \in BOOLEAN : desk' = [desk EXCEPT !.busy = b]
      /\ carry' = carry \/ carry' = [carry EXCEPT !.busy = FALSE]
      /\ sheet' = sheet
  BY DEF BundleDone, Refused
<1>2. CarryFits(carry')
  BY <1>1, CarryFreed, CarryNow
<1>3. desk' \in Desks /\ SheetSound'
  BY <1>1, BusyStays, DeskFields DEF DeskInv, SheetSound
<1> QED
  BY <1>2, <1>3

LEMMA DeskAnsweredStays ==
  ASSUME DeskInv, Answered
  PROVE  DeskInv'
<1> DEFINE list == [kind |-> "list", stage |-> "sent", set |-> Nothing, answer |-> Nothing]
<1>1. PICK op \in sends :
        /\ ListShown(op) \/ SaveDone(op) \/ DeleteDone(op) \/ BundleDone(op) \/ Refused(op)
        /\ sends' = (sends \ {op}) \cup
             IF op.stage = "done" /\ op.kind \in {"import", "replace"} THEN {list} ELSE {}
  BY DEF Answered
<1>2. RequestFits(op)
  BY DEF DeskInv, SendsSound
<1>3. desk' \in Desks /\ SheetSound' /\ CarryFits(carry')
  BY <1>1, <1>2, ListShownStays, SaveDoneStays, DeleteDoneStays, EndedStays
<1>4. RequestFits(list)
  BY DEF RequestFits, Requests
<1> HIDE DEF list
<1>5. \A o \in sends' : o \in sends \/ o = list
  BY <1>1
<1>6. SendsSound'
  BY <1>4, <1>5, DeskCounts DEF Answered, DeskInv, SendsSound
<1> QED
  BY <1>3, <1>6 DEF DeskInv

LEMMA DeskStays ==
  ASSUME DeskInv, DatasetNext
  PROVE  DeskInv'
  BY WorkspaceStays, FieldEditsStay, RowsStay, RelationsStay, JoinsStay, ModesStay, PreviewsStay,
     SetsAreSent, PanelsStay, CarriedAway, FilesStay, MappingStays, DeskServeStays, DeskAnsweredStays,
     DeskLostStays
  DEF DatasetNext

-----------------------------------------------------------------------------
(* The screens together: the one that is mounted keeps its invariant.      *)
AnyPlace == {"dock", "viewer", "builder", "charts", "datasets"}
ScreensInv ==
  /\ place \in AnyPlace
  /\ place = "dock" => DockInv
  /\ place = "viewer" => ViewInv
  /\ place = "builder" => BoardInv
  /\ place = "charts" => ChartInv
  /\ place = "datasets" => DeskInv

(* A screen whose variables stay keeps its invariant.                      *)
LEMMA DockRests ==
  ASSUME DockInv, UNCHANGED dockVars
  PROVE  DockInv'
<1>1. \A k : Wanted(k)' = Wanted(k)
  BY WantedStays DEF dockVars
<1>2. DockShowsSound'
  BY <1>1 DEF dockVars, DockInv, DockShowsSound
<1>3. DockScopeSound' /\ DockDrawnSound' /\ DockChoicesSound' /\ DockRequestsSound'
  BY DEF dockVars, DockInv, DockScopeSound, DockDrawnSound, DockChoicesSound, DockRequestsSound,
         Compatible
<1> QED
  BY <1>2, <1>3 DEF DockInv

LEMMA ViewerRests ==
  ASSUME ViewInv, UNCHANGED viewVars
  PROVE  ViewInv'
  BY DEF viewVars, ViewInv, ViewChartsSound, ViewControlsSound, ViewCounts

LEMMA BuilderRests ==
  ASSUME BoardInv, UNCHANGED builderVars
  PROVE  BoardInv'
  BY DEF builderVars, BoardInv, BoardSound, BackendSound, OpsSound, OpSound, AnswerSound,
         ArgSound, StepsSound

LEMMA ChartsRest ==
  ASSUME ChartInv, UNCHANGED chartVars
  PROVE  ChartInv'
  BY DEF chartVars, ChartInv, EditorSound, KeptSound, ResultSound, TrialsSound, AsksOfDraft, Draft

LEMMA DatasetsRest ==
  ASSUME DeskInv, UNCHANGED deskVars
  PROVE  DeskInv'
  BY DEF deskVars, DeskInv, SheetSound, SendsSound

LEMMA ScreensRest ==
  ASSUME ScreensInv, UNCHANGED <<dockVars, viewVars, builderVars, chartVars, deskVars, place>>
  PROVE  ScreensInv'
  BY DockRests, ViewerRests, BuilderRests, ChartsRest, DatasetsRest DEF ScreensInv

(* One of the screens is mounted at first, in its own initial state.       *)
LEMMA ScreensStart ==
  ASSUME ScreensInit
  PROVE  ScreensInv
  BY DockStarts, ViewStarts, BoardStarts, ChartStarts, DeskStarts DEF ScreensInit, ScreensInv, AnyPlace

(* A step is one of the screen that is mounted.                            *)
LEMMA ScreensStep ==
  ASSUME ScreensInv, ScreensNext
  PROVE  ScreensInv'
  BY DockStays, ViewStays, BoardStays, ChartStays, DeskStays DEF ScreensNext, ScreensInv, AnyPlace

(* Whichever screen is mounted, its inductive invariant holds throughout.  *)
THEOREM ScreensHold == ScreensSpec => []ScreensInv
<1>1. ScreensInv /\ [ScreensNext]_<<dockVars, viewVars, builderVars, chartVars, deskVars, place>>
        => ScreensInv'
  BY ScreensStep, ScreensRest
<1> QED
  BY <1>1, ScreensStart, PTL DEF ScreensSpec

(* Every variable of every screen stays in its type.                       *)
THEOREM ScreensAreTyped == ScreensSpec => []ScreensTypeOK
<1>1. ScreensInv => ScreensTypeOK
  BY DockInvSuffices, ViewInvSuffices, BoardInvSuffices, ChartInvSuffices, DeskInvSuffices
  DEF ScreensInv, ScreensTypeOK
<1> QED
  BY <1>1, ScreensHold, PTL

(* No screen takes the answer to an earlier question for the answer to     *)
(* what it asks now, in whatever order answers arrive (useChartQuery.ts,   *)
(* PublishedDashboard.tsx, the previews of ChartEditor.tsx and             *)
(* DatasetEditor.tsx).                                                     *)
THEOREM AnswersAlwaysFit == ScreensSpec => []AnswersFit
<1>1. ScreensInv => AnswersFit
  BY DockInvSuffices, ViewInvSuffices, ChartInvSuffices, DeskInvSuffices
  DEF ScreensInv, AnswersFit
<1> QED
  BY <1>1, ScreensHold, PTL

(* What is drafted stays coherent over any edits, answers and saves: the   *)
(* shared scope is of the source, widgets never overlap, a save replaces   *)
(* only the revision its author has seen, the time of a chart is one of    *)
(* its dimensions and a definition has one source.                         *)
THEOREM DraftsAlwaysFit == ScreensSpec => []DraftsFit
<1>1. ScreensInv => DraftsFit
  BY DockInvSuffices, BoardInvSuffices, ChartInvSuffices, DeskInvSuffices
  DEF ScreensInv, DraftsFit
<1> QED
  BY <1>1, ScreensHold, PTL

=============================================================================
