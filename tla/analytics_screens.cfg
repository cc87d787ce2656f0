SPECIFICATION ScreensSpec
CONSTANTS
  Nothing = Nothing
  s1 = s1  s2 = s2  d1 = d1  d2 = d2  d3 = d3  fa = fa  fb = fb  fc = fc  key = key  sem = sem
  w1 = w1  w2 = w2  c1 = c1  c2 = c2  c3 = c3  c4 = c4  i1 = i1  i2 = i2  i3 = i3
  b1 = b1  b2 = b2  p1 = p1  p2 = p2  x1 = x1
  Sources = {s1, s2}
  Datasets = {d1, d2, d3}
  SourceOf <- MCSourceOf
  FieldsOf <- MCFieldsOf
  Keys = {key}
  Geometry = {s1}
  FirstCharts <- MCFirstCharts
  FirstDatasets = {d1, d3}
  Dashboards = {b1}
  MapCharts <- MCMapCharts
  Children <- MCMapCharts
  OverlayIds = {w1}
  LayerIds = {w2}
  Preview = Preview
  DockGestures = 4
  Widgets = {w1, w2}
  Controls = {c1}
  QueriesOf <- MCQueriesOf
  TargetsOf <- MCTargetsOf
  ControlOf <- MCControlOf
  ControlTargets <- MCControlTargets
  ViewFields = {fa, fb}
  DatasetOfField <- MCDatasetOfField
  SemanticOf <- MCSemanticOf
  Relations <- MCRelations
  AutoRefresh = TRUE
  ViewGestures = 3
  Boards = {b1, b2}
  FirstBoards = {b1}
  FirstBody <- MCFirstBody
  WidgetIds = {i1, i2, i3}
  BoardCharts = {c1, c2}
  ChartQueries <- MCChartQueries
  FilterFields = {fa}
  Understood <- MCUnderstood
  BoardGestures = 4
  Publications = 1
  ChartIds = {c1, c2, c3, c4}
  FirstSaved <- MCFirstSaved
  ChartDatasets = {d1, d2}
  ColumnsOf <- MCColumnsOf
  MetricsOf <- MCMetricsOf
  EditGestures = 3
  SetIds = {d1, d2, d3}
  FirstKept <- MCFirstKept
  Connections = {p1, p2}
  ResultColumns = {fa}
  Bundles = {b1, b2}
  BundleSources <- MCBundleSources
  ImportedSet = d3
  DeskGestures = 4
  DeskSends = 2
INVARIANTS
  ScreensTypeOK
  AnswersFit
  DraftsFit
CHECK_DEADLOCK FALSE
