SPECIFICATION Spec
CONSTANTS
  None = None
  f1 = f1
  d1 = d1
  d2 = d2
  c1 = c1
  c2 = c2
  b1 = b1
  m1 = m1
  w1 = w1
  w2 = w2
  Fields = {f1}
  Meanings = {m1}
  Widgets = {w1, w2}
  Datasets = {d1, d2}
  Charts = {c1, c2}
  Dashboards = {b1}
  Publications = {p1}
  Shares = {h1}
  Editors = {e1}
  Viewers = {}
  DatasetForms <- IntegrityDatasets
  ChartForms <- IntegrityCharts
  DashboardForms <- IntegrityDashboards
  LockedForms <- IntegrityLocks
  InitialFiles <- IntegrityFiles
  ReferenceBundle <- IntegrityReference
  MaxWrites = 3
  MaxCrashes = 1
INVARIANTS
  TypeOK
  FileOpens
  PublicationsClosed
  ExportsImportable
