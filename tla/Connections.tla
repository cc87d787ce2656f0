------------------------------ MODULE Connections ------------------------------
(***************************************************************************)
(* Connections, layers and their panels. A behaviour stays in one of five  *)
(* places: the store called in any order, the settings of a layer, the     *)
(* catalogue, the map, and the forms. All of them share the store.         *)
(***************************************************************************)
EXTENDS PanelForms, LayerEditor

CONSTANT PlacesOf  \* where a page begins with each state an earlier one left

VARIABLE place

NoEditor == expanded = None /\ drafts = None /\ hand = None /\ editorSteps = None
NoPanel == panel = None /\ flights = None /\ shown = None /\ panelSteps = None
NoForms == entry = None /\ form = None /\ dialog = None /\ busy = None

ConnectionsInit ==
  /\ \E stored \in FirstStored : StoreInit(stored) /\ place \in PlacesOf[stored]
  /\ \/ place = "store" /\ NoEditor /\ NoPanel /\ NoForms
     \/ place = "editor" /\ EditorInit /\ NoPanel /\ NoForms
     \/ place \in {"catalog", "map"} /\ NoEditor /\ PanelInit /\ NoForms
     \/ place = "forms" /\ NoEditor /\ PanelInit /\ FormInit

ConnectionsNext ==
  /\ UNCHANGED place
  /\ \/ place = "store" /\ StoreNext /\ UNCHANGED <<editorVars, panelVars, formVars>>
     \/ place = "editor" /\ EditorNext /\ UNCHANGED <<storeSteps, panelVars, formVars>>
     \/ place = "catalog" /\ CatalogNext /\ UNCHANGED <<storeSteps, editorVars, formVars>>
     \/ place = "map" /\ MapNext /\ UNCHANGED <<storeSteps, editorVars, formVars>>
     \/ place = "forms" /\ FormsNext /\ UNCHANGED <<storeSteps, editorVars>>

ConnectionsSpec ==
  ConnectionsInit /\ [][ConnectionsNext]_<<storeVars, editorVars, panelVars, formVars, place>>

\* The store, the settings, the page and the forms stay in their types: every
\* identity is given once, a layer has the style of its kind, a draft is of a
\* layer that is there, and one form is open at a time.
ConsoleTypeOK ==
  /\ StoreTypeOK
  /\ place = "editor" => EditorTypeOK
  /\ place \in {"catalog", "map", "forms"} => PanelTypeOK
  /\ place = "forms" => FormsTypeOK

\* Whatever is called in whatever order, reloads and migrations included, a
\* layer draws a source of its connection, a source is drawn, it follows its
\* column and its view, and a connection is selected while there is one.
LayersStand == ReferencesStand(store) /\ SelectionStands(store)

\* What the page has chosen is still there and is what it shows: the catalogue
\* and the metadata are the selected connection's, the active layer and the map
\* object are of its layers, the dock analyses the active layer as it is, a
\* preview is checked as it is, settings show the layer, and a form or a dialog
\* holds what belongs to its connection and its kind. Answers that came late
\* to the catalogue, a form or a dialog are excepted, which nothing guards.
ChoicesStand ==
  /\ place \in {"catalog", "map", "forms"} =>
       /\ MetadataIsOwn /\ CatalogIsOwn
       /\ ChoiceIsThere /\ AnalysedAsIs
       /\ ChecksAreCurrent
  /\ place = "forms" => FormFits /\ DialogFits /\ TestsRun
  /\ place = "editor" => DraftsShown

=============================================================================
