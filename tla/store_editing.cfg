SPECIFICATION Spec
CONSTANTS
  None = None
  f1 = f1
  d1 = d1
  d2 = d2
  c1 = c1
  c2 = c2
  b1 = b1
  m1 = m1
  w1 = w1
  w2 = w2
  Fields = {f1}
  Meanings = {m1}
  Widgets = {w1, w2}
  Datasets = {d1}
  Charts = {c1}
  Dashboards = {}
  Publications = {}
  Shares = {}
  Editors = {e1, e2}
  Viewers = {}
  DatasetForms <- EditingDatasets
  ChartForms <- EditingCharts
  DashboardForms <- NoForms
  LockedForms <- NoForms
  InitialFiles <- EditingFiles
  ReferenceBundle <- EditingReference
  MaxWrites = 4
  MaxCrashes = 1
INVARIANTS
  ServedIsSaved
  OneWinner
PROPERTIES
  ImplementsDurable
