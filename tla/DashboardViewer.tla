--------------------------- MODULE DashboardViewer ---------------------------
(***************************************************************************)
(* A dashboard as its readers use it (analytics/DashboardViewer.tsx and    *)
(* dashboard-filters.ts): filters set by a toolbar, by the controls of the *)
(* dashboard and by selections in charts, the requests of the charts, and  *)
(* the choices that are offered for a filter. It is shown in a preview, or *)
(* on the page of a publication, whose definition is loaded first.         *)
(***************************************************************************)
EXTENDS Screens, FiniteSets

CONSTANTS
  Widgets,       \* the widgets of the dashboard with a chart
  Controls,      \* its filter controls
  QueriesOf,     \* datasets that the charts of a widget query, several in a composite map
  TargetsOf,     \* widgets that a selection in a widget is meant for
  ControlOf,     \* the field of a control
  ControlTargets,\* the widgets it is meant for
  ViewFields,    \* fields of all datasets
  DatasetOfField,
  SemanticOf,    \* semantic identity of a field or Nothing
  Relations,     \* pairs <<d, e>>: d may be filtered by fields of e
  AutoRefresh,   \* refreshIntervalSeconds is 30 or more
  ViewGestures   \* gestures and ticks in a behaviour, a bound

ASSUME ViewConstants ==
  /\ DatasetOfField \in [ViewFields -> UNION {QueriesOf[w] : w \in Widgets}]
  /\ Nothing \notin Widgets \cup Controls \cup ViewFields
  /\ TargetsOf \in [Widgets -> SUBSET Widgets]
  /\ ControlOf \in [Controls -> ViewFields] /\ ControlTargets \in [Controls -> SUBSET Widgets]
  /\ AutoRefresh \in BOOLEAN /\ ViewGestures \in Nat

VARIABLES
  page,     \* how the dashboard is shown, and whether it is there
  filters,  \* the filters in force
  form,     \* the filter that is being put together
  charts,   \* the requests of the charts
  choices,  \* those for the values of each control, and of the form (Nothing)
  refresh,  \* counts of refresh, and of retry in each chart
  viewSteps

viewVars == <<page, filters, form, charts, choices, refresh, viewSteps>>

-----------------------------------------------------------------------------
\* A filter: its field, who set it (Nothing: the toolbar) and the widgets it is
\* meant for, none for every widget that understands it.
ViewFilter == [field: ViewFields, source: Widgets \cup Controls \cup {Nothing},
               targets: SUBSET Widgets]

\* The fields of dataset d that mean the same.
Same(f, d) ==
  {g \in ViewFields : DatasetOfField[g] = d /\ SemanticOf[f] # Nothing
                      /\ SemanticOf[g] = SemanticOf[f]}
\* mapFilter: the field by which a filter restricts dataset d, or none.
MapField(f, d) ==
  IF DatasetOfField[f] = d THEN {f}
  ELSE IF Same(f, d) # {} THEN {CHOOSE g \in Same(f, d) : TRUE}
  ELSE {g \in {f} : <<d, DatasetOfField[f]>> \in Relations}
Restricts(fs, d) == UNION {MapField(x.field, d) : x \in fs}

\* filtersForWidget: what restricts dataset d in a widget.
FiltersFor(fs, w, d) ==
  Restricts({x \in fs : x.source # w /\ (x.targets = {} \/ w \in x.targets)}, d)

\* requestKey, with the counters that ask again.
Asked(w, fs, r) ==
  [by |-> [d \in QueriesOf[w] |-> FiltersFor(fs, w, d)], count |-> r.all + r.chart[w]]

\* The values offered for a field depend on the other filters.
FormContext(f, fs) ==
  IF f = Nothing THEN Nothing
  ELSE [field |-> f, by |-> Restricts({x \in fs : x.field # f}, DatasetOfField[f])]
ControlContext(c, fs) ==
  [field |-> ControlOf[c],
   by |-> Restricts({x \in fs : x.source # c}, DatasetOfField[ControlOf[c]])]

ViewTypeOK ==
  /\ page \in [shared: BOOLEAN, state: {"loading", "there", "failed"}]
  /\ filters \subseteq ViewFilter
  /\ form \in [field: ViewFields \cup {Nothing}, value: BOOLEAN, scope: SUBSET Widgets,
               due: BOOLEAN]
  /\ DOMAIN charts = Widgets
  /\ \A w \in Widgets : charts[w] \in Load({charts[w].wants, charts[w].shown, charts[w].late})
  /\ DOMAIN choices = Controls \cup {Nothing}
  /\ refresh \in [all: 0..ViewGestures, chart: [Widgets -> 0..ViewGestures]]
  /\ viewSteps \in 0..ViewGestures

-----------------------------------------------------------------------------
\* The effects: every chart and every control asks again when its question
\* changes, the form after a pause (due). Values on the page of a publication
\* come from the results that are on it, without a request.
View(fs, f, r) ==
  /\ filters' = fs /\ refresh' = r
  /\ charts' = [w \in Widgets |-> AskFor(charts[w], Asked(w, fs, r))]
  /\ LET wanted == IF page.shared THEN Nothing ELSE FormContext(f.field, fs)
         again == wanted # choices[Nothing].wants
         asked == AskFor(choices[Nothing], wanted)
     IN  /\ form' = [f EXCEPT !.due = IF again THEN wanted # Nothing ELSE @]
         /\ choices' = [c \in Controls \cup {Nothing} |->
              IF c # Nothing
              THEN IF page.shared THEN choices[c] ELSE AskFor(choices[c], ControlContext(c, fs))
              ELSE IF again THEN [asked EXCEPT !.live = FALSE] ELSE asked]

Gestured == page.state = "there" /\ viewSteps < ViewGestures /\ viewSteps' = viewSteps + 1
\* The handlers change the filters or the form and leave the rest to effects.
SetFiltersTo(fs) == Gestured /\ UNCHANGED page /\ View(fs, form, refresh)
SetForm(f) == Gestured /\ UNCHANGED page /\ View(filters, f, refresh)

NoRefresh == [all |-> 0, chart |-> [w \in Widgets |-> 0]]
ViewInit ==
  /\ page \in {[shared |-> FALSE, state |-> "there"], [shared |-> TRUE, state |-> "loading"]}
  /\ filters = {} /\ refresh = NoRefresh
  /\ form = [field |-> Nothing, value |-> FALSE, scope |-> {}, due |-> FALSE]
  /\ charts = [w \in Widgets |->
       IF page.shared THEN NoLoad ELSE AskFor(NoLoad, Asked(w, {}, NoRefresh))]
  /\ choices = [c \in Controls \cup {Nothing} |->
       IF page.shared \/ c = Nothing THEN NoLoad ELSE AskFor(NoLoad, ControlContext(c, {}))]
  /\ viewSteps = 0

-----------------------------------------------------------------------------
(* The page of a publication.                                              *)

PublicationLoaded ==
  /\ page.state = "loading"
  /\ page' = [page EXCEPT !.state = "there"]
  /\ View(filters, form, refresh) /\ UNCHANGED viewSteps
PublicationFailed ==
  /\ page.state = "loading"
  /\ page' = [page EXCEPT !.state = "failed"]
  /\ UNCHANGED <<filters, form, charts, choices, refresh, viewSteps>>

-----------------------------------------------------------------------------
(* Filters.                                                                *)

\* select: a pick in a chart replaces what was picked there, and the same
\* pick again removes it.
PickInChart ==
  \E w \in Widgets, f \in ViewFields :
    LET own == {x \in filters : x.source = w}
        next == {[field |-> f, source |-> w, targets |-> TargetsOf[w]]}
    IN  /\ charts[w].shown # Nothing /\ ~charts[w].live /\ ~charts[w].failed
        /\ DatasetOfField[f] \in QueriesOf[w]
        /\ SetFiltersTo((filters \ own) \cup (IF next = own THEN {} ELSE next))

\* The selects and the tags of the toolbar.
ChooseField ==
  \E f \in ViewFields \cup {Nothing} :
    f # form.field /\ SetForm([form EXCEPT !.field = f, !.value = FALSE])
ChooseValues ==
  form.field # Nothing /\ SetForm([form EXCEPT !.value = ~@])
ChooseTargets ==
  \E w \in Widgets :
    SetForm([form EXCEPT !.scope = IF w \in @ THEN @ \ {w} ELSE @ \cup {w}])

\* apply: the toolbar has one filter for a field. Values that are no numbers
\* for a field of numbers are refused.
Applied ==
  {x \in filters : x.source # Nothing \/ x.field # form.field}
    \cup {[field |-> form.field, source |-> Nothing,
           targets |-> form.scope]}
ApplyFilter ==
  /\ form.field # Nothing /\ form.value
  /\ Gestured /\ UNCHANGED page
  /\ View(Applied, [form EXCEPT !.value = FALSE], refresh)

ClearAll == filters # {} /\ SetFiltersTo({})
RemoveFilter == \E x \in filters : SetFiltersTo(filters \ {x})

\* A control keeps one filter, none without a value.
SetControl ==
  \E c \in Controls :
    LET others == {x \in filters : x.source # c}
        own == {[field |-> ControlOf[c], source |-> c, targets |-> ControlTargets[c]]}
    IN  \E next \in {others, others \cup own} : next # filters /\ SetFiltersTo(next)

-----------------------------------------------------------------------------
(* Requests.                                                               *)

\* The button and the timer.
RefreshCharts ==
  Gestured /\ UNCHANGED page /\ View(filters, form, [refresh EXCEPT !.all = @ + 1])
Tick == AutoRefresh /\ RefreshCharts
RetryChart ==
  \E w \in Widgets :
    /\ charts[w].failed
    /\ Gestured /\ UNCHANGED page /\ View(filters, form, [refresh EXCEPT !.chart[w] = @ + 1])

ChartReplied ==
  /\ \E w \in Widgets :
       /\ charts[w].live
       /\ charts' \in {[charts EXCEPT ![w] = Take(@)], [charts EXCEPT ![w] = Fail(@)]}
  /\ UNCHANGED <<page, filters, form, choices, refresh, viewSteps>>

\* Mutant of ChartRepliedLate: the signal is not looked at.
ChartRepliedLateAndTaken ==
  /\ \E w \in Widgets :
       charts[w].late # Nothing
       /\ charts' = [charts EXCEPT ![w] = [Drop(@) EXCEPT !.shown = charts[w].late]]
  /\ UNCHANGED <<page, filters, form, choices, refresh, viewSteps>>
ChartRepliedLate ==
  /\ \E w \in Widgets :
       charts[w].late # Nothing /\ charts' = [charts EXCEPT ![w] = Drop(@)]
  /\ UNCHANGED <<page, filters, form, choices, refresh, viewSteps>>

\* The pause of the form is over.
AskForValues ==
  /\ form.due
  /\ form' = [form EXCEPT !.due = FALSE]
  /\ choices' = [choices EXCEPT ![Nothing].live = TRUE]
  /\ UNCHANGED <<page, filters, charts, refresh, viewSteps>>
\* The form keeps the values it had when a request fails, a control does not.
ValuesReplied ==
  /\ \E c \in Controls \cup {Nothing} :
       /\ choices[c].live
       /\ LET failed == [Fail(choices[c]) EXCEPT !.shown = IF c = Nothing THEN @ ELSE Nothing]
          IN  choices' \in {[choices EXCEPT ![c] = Take(@)], [choices EXCEPT ![c] = failed]}
  /\ UNCHANGED <<page, filters, form, charts, refresh, viewSteps>>
ValuesRepliedLate ==
  /\ \E c \in Controls \cup {Nothing} :
       choices[c].late # Nothing /\ choices' = [choices EXCEPT ![c] = Drop(@)]
  /\ UNCHANGED <<page, filters, form, charts, refresh, viewSteps>>

ViewNext ==
  \/ PublicationLoaded \/ PublicationFailed
  \/ PickInChart \/ ChooseField \/ ChooseValues \/ ChooseTargets \/ ApplyFilter
  \/ ClearAll \/ RemoveFilter \/ SetControl
  \/ RefreshCharts \/ Tick \/ RetryChart \/ ChartReplied \/ ChartRepliedLate
  \/ AskForValues \/ ValuesReplied \/ ValuesRepliedLate

ViewSpec == ViewInit /\ [][ViewNext]_viewVars

-----------------------------------------------------------------------------
\* A chart that is neither loading nor failed shows what the filters in force
\* make of its definition, each of its layers alike, and the values offered for
\* a filter are those that the other filters leave (DashboardViewer.tsx:444).
ViewerAnswersFit ==
  page.state = "there" =>
    /\ \A w \in Widgets : Fits(charts[w], Asked(w, filters, refresh))
    /\ ~page.shared =>
         /\ \A c \in Controls :
              ~choices[c].failed => Fits(choices[c], ControlContext(c, filters))
         /\ ~form.due => Fits(choices[Nothing], FormContext(form.field, filters))

=============================================================================
