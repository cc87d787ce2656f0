--------------------------- MODULE AnalyticsScreens ---------------------------
(***************************************************************************)
(* The analytics screens, one at a time: the dock of the workspace, the    *)
(* viewer of a published dashboard, the builder of dashboards, the editor  *)
(* of charts and the workspace of datasets. Only one of them is mounted,   *)
(* so a behaviour stays in the one it begins in.                           *)
(***************************************************************************)
EXTENDS AnalyticsDock, DashboardViewer, DashboardBuilder, ChartEditor, DatasetEditor

VARIABLE place

\* A screen that is not mounted has no state.
NoDock ==
  /\ ws = Nothing /\ overlays = Nothing /\ layers = Nothing /\ dock = Nothing
  /\ known = Nothing /\ stored = Nothing /\ catalog = Nothing /\ creating = Nothing
  /\ saving = Nothing /\ shows = Nothing /\ dockSteps = Nothing
NoViewer ==
  /\ page = Nothing /\ filters = Nothing /\ form = Nothing /\ charts = Nothing
  /\ choices = Nothing /\ refresh = Nothing /\ viewSteps = Nothing
NoBuilder == board = Nothing /\ backend = Nothing /\ ops = Nothing /\ boardSteps = Nothing
NoCharts ==
  /\ editor = Nothing /\ kept = Nothing /\ fetch = Nothing /\ trial = Nothing
  /\ keeping = Nothing /\ editSteps = Nothing
NoDatasets ==
  /\ desk = Nothing /\ sheet = Nothing /\ carry = Nothing /\ shelf = Nothing
  /\ sends = Nothing /\ deskSteps = Nothing

ScreensInit ==
  \/ place = "dock" /\ DockInit /\ NoViewer /\ NoBuilder /\ NoCharts /\ NoDatasets
  \/ place = "viewer" /\ NoDock /\ ViewInit /\ NoBuilder /\ NoCharts /\ NoDatasets
  \/ place = "builder" /\ NoDock /\ NoViewer /\ BuilderInit /\ NoCharts /\ NoDatasets
  \/ place = "charts" /\ NoDock /\ NoViewer /\ NoBuilder /\ EditorInit /\ NoDatasets
  \/ place = "datasets" /\ NoDock /\ NoViewer /\ NoBuilder /\ NoCharts /\ DatasetInit

ScreensNext ==
  /\ UNCHANGED place
  /\ \/ /\ place = "dock" /\ DockNext
        /\ UNCHANGED <<viewVars, builderVars, chartVars, deskVars>>
     \/ /\ place = "viewer" /\ ViewNext
        /\ UNCHANGED <<dockVars, builderVars, chartVars, deskVars>>
     \/ /\ place = "builder" /\ BuilderNext
        /\ UNCHANGED <<dockVars, viewVars, chartVars, deskVars>>
     \/ /\ place = "charts" /\ EditorNext
        /\ UNCHANGED <<dockVars, viewVars, builderVars, deskVars>>
     \/ /\ place = "datasets" /\ DatasetNext
        /\ UNCHANGED <<dockVars, viewVars, builderVars, chartVars>>

ScreensSpec == ScreensInit /\ [][ScreensNext]_<<dockVars, viewVars, builderVars, chartVars, deskVars, place>>

\* Every variable of every screen stays in its type.
ScreensTypeOK ==
  /\ place = "dock" => DockTypeOK
  /\ place = "viewer" => ViewTypeOK
  /\ place = "builder" => BuilderTypeOK
  /\ place = "charts" => EditorTypeOK
  /\ place = "datasets" => DatasetTypeOK

\* What a screen shows answers what it asks now: an answer that comes after the
\* question has changed is never taken for the newer one (useChartQuery, the
\* queries of a published dashboard, the previews of a chart and of a dataset).
AnswersFit ==
  /\ place = "dock" => DockAnswersFit
  /\ place = "viewer" => ViewerAnswersFit
  /\ place = "charts" => TrialFits
  /\ place = "datasets" => PreviewFits

\* What is drafted stays coherent over any sequence of edits, answers and saves
\* under way: shared filters and selections are those of the source, widgets do
\* not overlap, a save replaces only the revision its editor has seen, a time
\* field is one of the dimensions, and a definition has one source.
DraftsFit ==
  /\ place = "dock" => SharedScopeFits
  /\ place = "builder" => LayoutFits /\ SavesSeen
  /\ place = "charts" => TimeGroupsADimension
  /\ place = "datasets" => DefinitionsFit

=============================================================================
