-------------------------- MODULE MCAnalyticsStore --------------------------
(***************************************************************************)
(* Instances of AnalyticsStore for TLC.                                    *)
(***************************************************************************)
EXTENDS AnalyticsStore, TLC

CONSTANTS d1, d2, c1, c2, b1, f1, m1, w1, w2

Ref(d) == [dataset |-> d, field |-> f1]

Plain == [fields |-> {f1}, means |-> [f \in Fields |-> m1], relationships |-> {}]
Bare == [fields |-> {}, means |-> [f \in Fields |-> None], relationships |-> {}]
JoinedTo(d) ==
  [fields |-> {f1}, means |-> [f \in Fields |-> None], relationships |->
     {[source |-> f1, dataset |-> d, field |-> f1, allowFiltering |-> TRUE]}]

ChartOn(d, uses) ==
  [dataset |-> d, compositeMap |-> FALSE, uses |-> uses, layers |-> {}]
MapOf(d, layers) ==
  [dataset |-> d, compositeMap |-> TRUE, uses |-> {}, layers |-> layers]

Show(w, c) == [id |-> w, chart |-> c, targets |-> {}]
Text(w) == [id |-> w, chart |-> None, targets |-> {}]
FilterOn(d, targets) == [dataset |-> d, field |-> f1, targets |-> targets]
Board(widgets, native, filters) ==
  [widgets |-> widgets, nativeFilters |-> native, filters |-> filters]

Stored(def) == [revision |-> 1, def |-> def]

(* A file with the given objects and nothing published.                    *)
File(ds, cs, bs) ==
  [datasets |-> [d \in Datasets |-> IF d \in DOMAIN ds THEN Stored(ds[d]) ELSE None],
   charts |-> [c \in Charts |-> IF c \in DOMAIN cs THEN Stored(cs[c]) ELSE None],
   dashboards |-> [b \in Dashboards |-> IF b \in DOMAIN bs THEN Stored(bs[b]) ELSE None],
   publications |-> [p \in Publications |-> None],
   shares |-> [h \in Shares |-> None]]

----------------------------------------------------------------------------
(* References between objects.                                             *)

IntegrityDatasets == {Plain, Bare, JoinedTo(d2)}
IntegrityCharts ==
  {ChartOn(d1, {Ref(d1)}), ChartOn(d2, {Ref(d2)}), MapOf(d2, {c1}), MapOf(d2, {c2})}

(* A filter for everything, one for a text, one for the chart; the last    *)
(* board has no chart.                                                     *)
IntegrityDashboards ==
  {Board({Show(w1, c2)}, {}, {FilterOn(d2, {})}),
   Board({Show(w1, c1), Text(w2)}, {}, {FilterOn(d1, {w2})}),
   Board({Show(w1, c1)}, {}, {FilterOn(d2, {w1})}),
   Board({}, {FilterOn(d1, {})}, {})}
IntegrityFiles ==
  {File(d1 :> JoinedTo(d2) @@ d2 :> Plain,
        c1 :> ChartOn(d1, {Ref(d2)}) @@ c2 :> MapOf(d2, {c1}),
        b1 :> Board({Show(w1, c2)}, {FilterOn(d1, {})}, {FilterOn(d2, {})}))}
IntegrityLocks == {{}, {FilterOn(d1, {})}, {FilterOn(None, {w1})}}

IntegrityReference ==
  File(d2 :> Plain, c2 :> ChartOn(d2, {Ref(d2)}),
       b1 :> Board({Show(w1, c2)}, {FilterOn(d2, {})}, {}))

----------------------------------------------------------------------------
(* Editors of the same object.                                             *)

EditingDatasets == {Plain, Bare}
EditingCharts == {ChartOn(d1, {Ref(d1)})}
EditingFiles ==
  {File(d1 :> Plain, <<>>, <<>>)}
EditingReference == File(d1 :> Bare, <<>>, <<>>)

----------------------------------------------------------------------------
(* Publications and shares.                                                *)

SharingDatasets == {Plain, Bare}
SharingCharts == {ChartOn(d1, {})}
SharingDashboards == {Board({Show(w1, c1)}, {}, {})}
SharingFiles ==
  {File(d1 :> Plain, c1 :> ChartOn(d1, {}), b1 :> Board({Show(w1, c1)}, {}, {}))}
SharingLocks == {{}}

NoForms == {}
NoReference == File(<<>>, <<>>, <<>>)
============================================================================
