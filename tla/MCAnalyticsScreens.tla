-------------------------- MODULE MCAnalyticsScreens --------------------------
(***************************************************************************)
(* An instance of AnalyticsScreens.                                        *)
(***************************************************************************)
EXTENDS AnalyticsScreens, TLC

CONSTANTS s1, s2, d1, d2, d3, fa, fb, fc, key, sem, w1, w2, c1, c2, c3, c4, i1, i2, i3,
          b1, b2, p1, p2, x1

\* The dock: three datasets on two tables, a map and a composite map.
MCSourceOf == (d1 :> s1 @@ d2 :> s2 @@ d3 :> s1)
MCFieldsOf == (d1 :> {fa, key} @@ d2 :> {fa} @@ d3 :> {fa})
MCGeo == [dataset |-> d1, kind |-> "geo"]
MCFirstCharts == {MCGeo, [dataset |-> d1, kind |-> "composite"]}
MCMapCharts == {MCGeo}

\* The viewer: a widget on one dataset, a composite on two, a control.
MCQueriesOf == (w1 :> {d1} @@ w2 :> {d1, d2})
MCTargetsOf == (w1 :> {w2} @@ w2 :> {})
MCControlOf == (c1 :> fb)
MCControlTargets == (c1 :> {})
MCDatasetOfField == (fa :> d1 @@ fb :> d2)
MCSemanticOf == (fa :> sem @@ fb :> sem)
MCRelations == {<<d1, d2>>}

\* The builder: a dashboard with two widgets, one of them a composite.
MCChartQueries == (c1 :> {d1} @@ c2 :> {d1, d2})
MCUnderstood == {<<fa, d1>>}
MCWidget(id, c, x) == [id |-> id, chart |-> c, targets |-> {}, x |-> x, y |-> 0, w |-> 6, h |-> 4]
MCFirstBody ==
  [widgets |-> <<MCWidget(i1, c1, 0), MCWidget(i2, c2, 6)>>, control |-> {i1}, defaults |-> {}]

\* The editor of charts: a map and a composite map made of it.
MCColumnsOf == (d1 :> <<fa, fb>> @@ d2 :> <<fc>>)
MCMetricsOf == (d1 :> 2 @@ d2 :> 1)
MCFirstSaved ==
  (c1 :> [New(c1, d1) EXCEPT !.revision = 1, !.type = "geoHeatmap", !.dims = <<fa, fb>>] @@
   c2 :> [New(c2, d1) EXCEPT !.revision = 1, !.type = "compositeMap", !.layers = {c1}])

\* The editor of datasets: a dataset on a table, a bundle of a foreign connection.
MCFirstKept ==
  (d1 :> [EmptyDataset(d1, p1) EXCEPT !.revision = 1, !.named = TRUE, !.table = TRUE])
MCBundleSources == (b1 :> {p1} @@ b2 :> {p1, x1})

=============================================================================
