----------------------------- MODULE LayerEditor -----------------------------
(***************************************************************************)
(* The settings of a map layer (connections/MapLayerEditor.tsx).           *)
(*                                                                         *)
(* A text, a colour or a slider is a draft until the user leaves it: a     *)
(* text and a colour are then written to the store when they differ from   *)
(* the layer, a slider always. Whenever the store has a new object for the *)
(* layer, an effect sets every draft to it. Lists and check boxes write at *)
(* once.                                                                   *)
(***************************************************************************)
EXTENDS ConnectionStore

CONSTANTS
  Names,          \* layer names
  EditorGestures  \* gestures in a behaviour, a bound

ASSUME EditorConstants == EditorGestures \in Nat

VARIABLES
  expanded,    \* the layer under edit, or None
  drafts,      \* its drafts
  hand,        \* the field the user is in, or None
  editorSteps

editorVars == <<expanded, drafts, hand, editorSteps>>

Colors == 0..1  \* colours of the palette the user may choose
Ends(field) ==
  CASE field \in {"fillOpacity", "strokeOpacity", "opacity"} -> {0, 100}
    [] field = "strokeWidth" -> {0, 12}
    [] field = "pointRadius" -> {1, 30}
    [] field = "width" -> {1, 12}
    [] field = "thickness" -> {1, 10}
    [] field = "topFlows" -> {50, 2000}

Edited == Get(store.mapLayers, expanded)
EditedSource == Get(store.mapSources, Edited.source)
DraftFields(kind) ==
  {"name"} \cup
  CASE kind = "geojson" ->
         {"fillColor", "fillOpacity", "strokeColor", "strokeOpacity", "strokeWidth", "pointRadius"}
    [] kind = "arc" -> {"color", "opacity", "width"}
    [] kind = "flowmap" -> {"thickness", "topFlows"}
ASSUME NoneIsNoField == \A kind \in {"geojson", "arc", "flowmap"} : None \notin DraftFields(kind)
ValueOf(y, field) == IF field = "name" THEN y.name ELSE y.style[field]

\* What the effect sets the drafts to.
Synced(y) == [f \in DraftFields(y.kind) |-> ValueOf(y, f)]

EditorInit == expanded = None /\ drafts = << >> /\ hand = None /\ editorSteps = 0

At(kind) == expanded # None /\ Edited.kind = kind
\* showsFillSettings, showsPointSettings.
ShowsFill == EditedSource.type # "line"
ShowsPoint == EditedSource.type = "point"

Gesture == editorSteps < EditorGestures /\ editorSteps' = editorSteps + 1
\* The user leaves the field before doing anything else.
Free == Gesture /\ hand = None

\* A write to the layer: a new object, which the effect takes up.
Write(s) ==
  /\ store' = s /\ drafts' = Synced(Get(s.mapLayers, expanded)) /\ hand' = None
  /\ UNCHANGED expanded
\* A write to its source leaves the layer's object.
WriteSource(s) == store' = s /\ UNCHANGED <<expanded, drafts, hand>>

UpdateLayer(kind, field, value) ==
  CASE kind = "geojson" -> UpdateGeoJsonLayer(store, expanded, field, value)
    [] kind = "arc" -> UpdateArcLayer(store, expanded, field, value)
    [] kind = "flowmap" -> UpdateFlowmapLayer(store, expanded, field, value)

-----------------------------------------------------------------------------
\* The list of layers: settings opened and closed, and the layer's other
\* buttons, which the user may press while the settings are open.

ToggleSettings(id) ==
  /\ Free
  /\ expanded' = IF expanded = id THEN None ELSE id
  /\ drafts' = IF expanded' = None THEN << >> ELSE Synced(Get(store.mapLayers, id))
  /\ UNCHANGED <<store, hand>>

ToggleVisible == Free /\ expanded # None /\ Write(ToggleMapLayerVisibility(store, expanded))

RemoveEdited ==
  /\ Free /\ expanded # None
  /\ store' = RemoveMapLayer(store, expanded)
  /\ expanded' = None /\ drafts' = << >> /\ UNCHANGED hand

\* The inspector shows the record of the arc again: a new object, visible.
ShownAgain ==
  /\ Free /\ At("arc")
  /\ Write(OfLayer(store, expanded, {"arc"}, LAMBDA y : [y EXCEPT !.visible = TRUE]))

\* A late answer finds the record's arc empty and removes the layer, whatever
\* the user is typing.
PreviewEmptied ==
  /\ At("arc") /\ Edited.purpose = "record-preview" /\ UNCHANGED editorSteps
  /\ store' = RemoveMapLayer(store, expanded)
  /\ expanded' = None /\ drafts' = << >> /\ hand' = None

-----------------------------------------------------------------------------
\* The setup tab.

Type(field, values) ==
  /\ Gesture /\ hand \in {None, field}
  /\ \E v \in values : drafts' = [drafts EXCEPT ![field] = v]
  /\ hand' = field /\ UNCHANGED <<store, expanded>>
\* Leaving a text or a colour writes it when it differs.
Leave(kind, field) ==
  /\ At(kind) /\ hand = field /\ UNCHANGED editorSteps
  /\ IF drafts[field] = ValueOf(Edited, field)
     THEN hand' = None /\ UNCHANGED <<store, expanded, drafts>>
     ELSE Write(UpdateLayer(kind, field, drafts[field]))
\* Letting go of a slider writes it.
Release(kind, field) ==
  /\ At(kind) /\ hand = field /\ UNCHANGED editorSteps
  /\ Write(UpdateLayer(kind, field, drafts[field]))
Choose(kind, field, values) ==
  /\ Free /\ At(kind)
  /\ \E v \in values : Write(UpdateLayer(kind, field, v))
Flip(field) ==
  Free /\ At("flowmap") /\ Write(UpdateFlowmapLayer(store, expanded, field, ~Edited.style[field]))

TypeName == expanded # None /\ Type("name", Names)

CommitLayerName == \E kind \in {"geojson", "arc", "flowmap"} : Leave(kind, "name")

SelectGeometryColumn ==
  /\ Free /\ At("geojson")
  /\ LET x == EditedSource
     IN \E c \in DOMAIN GeometryOf[x.table] :
          WriteSource(UpdateGeoJsonColumn(store, x.id, c, GeometryOf[x.table][c]))

\* FlowmapSetupFields. A choice can be taken back, and the column is then
\* empty.
SetFlow(field, value) ==
  /\ Free /\ expanded # None /\ Edited.kind # "geojson"
  /\ WriteSource(UpdateFlowmapSource(store, EditedSource.id,
                                   [EditedSource.flow EXCEPT ![field] = value]))
Numeric == NumericOf[EditedSource.table] \cup {None}
Geometries == DOMAIN GeometryOf[EditedSource.table] \cup {None}
ChooseModes ==
  \E mode \in {"coordinates", "geometry"} :
    \/ SetFlow("startMode", mode)
    \/ SetFlow("endMode", mode)
ChooseStart ==
  /\ expanded # None /\ Edited.kind # "geojson"
  /\ IF EditedSource.flow.startMode = "geometry"
     THEN \E c \in Geometries : SetFlow("startGeometry", c)
     ELSE \E c \in Numeric : \/ SetFlow("startLon", c)
                             \/ SetFlow("startLat", c)
ChooseEnd ==
  /\ expanded # None /\ Edited.kind # "geojson"
  /\ IF EditedSource.flow.endMode = "geometry"
     THEN \E c \in Geometries : SetFlow("endGeometry", c)
     ELSE \E c \in Numeric : \/ SetFlow("endLon", c)
                             \/ SetFlow("endLat", c)
ChooseDensity ==
  /\ expanded # None /\ Edited.kind # "geojson"
  /\ \/ \E c \in Numeric : SetFlow("magnitude", c)
     \/ /\ EditedSource.flow.magnitude = None
        /\ \E n \in 1..2 : SetFlow("density", n)

-----------------------------------------------------------------------------
\* The style and tooltip tabs.

TypeFillColor == At("geojson") /\ ShowsFill /\ Type("fillColor", Colors)
LeaveFillColor == Leave("geojson", "fillColor")
DragFillOpacity == At("geojson") /\ ShowsFill /\ Type("fillOpacity", Ends("fillOpacity"))
ReleaseFillOpacity == Release("geojson", "fillOpacity")
TypeStrokeColor == At("geojson") /\ Type("strokeColor", Colors)
LeaveStrokeColor == Leave("geojson", "strokeColor")
DragStrokeOpacity == At("geojson") /\ Type("strokeOpacity", Ends("strokeOpacity"))
ReleaseStrokeOpacity == Release("geojson", "strokeOpacity")
DragStrokeWidth == At("geojson") /\ Type("strokeWidth", Ends("strokeWidth"))
ReleaseStrokeWidth == Release("geojson", "strokeWidth")
DragPointRadius == At("geojson") /\ ShowsPoint /\ Type("pointRadius", Ends("pointRadius"))
ReleasePointRadius == Release("geojson", "pointRadius")
ChooseGeoJsonIcon == Choose("geojson", "icon", {"circle", "square", "diamond", "line"})

TypeArcColor == At("arc") /\ Type("color", Colors)
LeaveArcColor == Leave("arc", "color")
ChooseArcIcon == Choose("arc", "icon", {"flow", "line"})
DragArcOpacity == At("arc") /\ Type("opacity", Ends("opacity"))
ReleaseArcOpacity == Release("arc", "opacity")
DragArcWidth == At("arc") /\ Type("width", Ends("width"))
ReleaseArcWidth == Release("arc", "width")

ChooseRenderMode == Choose("flowmap", "rendering", {"curved", "straight", "animated-straight"})
DragThickness == At("flowmap") /\ Type("thickness", Ends("thickness"))
ReleaseThickness == Release("flowmap", "thickness")
ChooseScheme == Choose("flowmap", "scheme", {"Teal", "Blue"})
ChooseFlowIcon == Choose("flowmap", "icon", {"flow", "line", "diamond"})
FlipLocations == Flip("locations")
FlipTotals == Flip("totals")
FlipLabels == Flip("labels")
FlipClustering == Flip("clustering")
FlipDark == Flip("dark")
DragTopFlows == At("flowmap") /\ Type("topFlows", Ends("topFlows"))
ReleaseTopFlows == Release("flowmap", "topFlows")

FlipTooltip ==
  Free /\ expanded # None /\ Write(UpdateLayer(Edited.kind, "tooltip", ~Edited.tooltip))

EditGeoJson ==
  \/ SelectGeometryColumn \/ TypeFillColor \/ LeaveFillColor \/ DragFillOpacity
  \/ ReleaseFillOpacity \/ TypeStrokeColor \/ LeaveStrokeColor \/ DragStrokeOpacity
  \/ ReleaseStrokeOpacity \/ DragStrokeWidth \/ ReleaseStrokeWidth \/ DragPointRadius
  \/ ReleasePointRadius \/ ChooseGeoJsonIcon
EditArc ==
  \/ TypeArcColor \/ LeaveArcColor \/ ChooseArcIcon \/ DragArcOpacity \/ ReleaseArcOpacity
  \/ DragArcWidth \/ ReleaseArcWidth
EditFlowmap ==
  \/ ChooseRenderMode \/ DragThickness \/ ReleaseThickness \/ ChooseScheme \/ ChooseFlowIcon
  \/ FlipLocations \/ FlipTotals \/ FlipLabels \/ FlipClustering \/ FlipDark
  \/ DragTopFlows \/ ReleaseTopFlows
EditorNext ==
  \/ \E y \in Range(store.mapLayers) : ToggleSettings(y.id)
  \/ ToggleVisible \/ RemoveEdited \/ ShownAgain \/ PreviewEmptied
  \/ TypeName \/ CommitLayerName \/ FlipTooltip
  \/ ChooseModes \/ ChooseStart \/ ChooseEnd \/ ChooseDensity
  \/ EditGeoJson \/ EditArc \/ EditFlowmap

-----------------------------------------------------------------------------
EditorTypeOK ==
  /\ expanded \in Ids(store.mapLayers) \cup {None}
  /\ IF expanded = None THEN drafts = << >> ELSE DOMAIN drafts = DraftFields(Edited.kind)
  /\ hand \in {None} \cup DOMAIN drafts
  /\ editorSteps \in 0..EditorGestures

\* The settings show the layer as it is stored, but for the one field the user
\* is in.
DraftsShown ==
  expanded # None =>
    \A f \in DOMAIN drafts : f = hand \/ drafts[f] = ValueOf(Edited, f)

=============================================================================
