SPECIFICATION Spec
CONSTANTS
  None = None
  f1 = f1
  d1 = d1
  d2 = d2
  c1 = c1
  c2 = c2
  b1 = b1
  m1 = m1
  w1 = w1
  w2 = w2
  Fields = {f1}
  Meanings = {m1}
  Widgets = {w1, w2}
  Datasets = {d1}
  Charts = {c1}
  Dashboards = {b1}
  Publications = {p1, p2}
  Shares = {h1}
  Editors = {e1}
  Viewers = {v1}
  DatasetForms <- SharingDatasets
  ChartForms <- SharingCharts
  DashboardForms <- SharingDashboards
  LockedForms <- SharingLocks
  InitialFiles <- SharingFiles
  ReferenceBundle <- NoReference
  MaxWrites = 4
  MaxCrashes = 1
PROPERTIES
  PublicationsPinned
  RevokedNotServed
