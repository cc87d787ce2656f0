------------------------------ MODULE PanelForms ------------------------------
(***************************************************************************)
(* The forms of the sources and layers panels                              *)
(* (connections/ConnectionManager.tsx): a new connection, the test of a    *)
(* connection, the schemas it shows, and a new layer. While one of them is *)
(* open the rest of the page is out of reach, but answers still come.      *)
(***************************************************************************)
EXTENDS SourcesPanel

CONSTANT GuessOf  \* the numeric column a table's names suggest, or None

VARIABLES
  entry,   \* the form of a new connection, or None
  form,    \* the form of a new layer, or None
  dialog,  \* the schemas of a connection, or None
  busy     \* which of their requests the page shows as running, how many forms
           \* and dialogs were opened, and the connections an earlier page
           \* left as being tested

formVars == <<entry, form, dialog, busy>>

FormInit ==
  /\ entry = None /\ form = None /\ dialog = None
  /\ busy = [source |-> FALSE, configs |-> FALSE, saving |-> FALSE, opened |-> 0,
             left |-> {c.id : c \in {x \in Range(store.connections) : x.test = "testing"}}]

NoModal == entry = None /\ form = None /\ dialog = None
OnPage == Do /\ NoModal
InForm == Do /\ form # None
FormKept == UNCHANGED <<entry, form, busy>>
Still == UNCHANGED <<store, panel, flights>>
Opened == busy.opened + 1

-----------------------------------------------------------------------------
\* A new connection.

OpenEntry ==
  OnPage /\ entry' = [filled |-> FALSE, bundled |-> FALSE] /\ Still /\ UNCHANGED <<form, dialog, busy>>
FillEntry(filled, bundled) ==
  /\ Do /\ entry # None /\ entry' = [filled |-> filled, bundled |-> bundled /\ filled]
  /\ Still /\ UNCHANGED <<form, dialog, busy>>
CloseEntry == Do /\ entry # None /\ entry' = None /\ Still /\ UNCHANGED <<form, dialog, busy>>
\* A form that misses a required field does nothing.
SubmitEntry ==
  /\ panelSteps < PanelGestures /\ panelSteps' = panelSteps + 1
  /\ entry # None /\ entry.filled /\ entry' = None
  /\ LET s == AddConnection(store, entry.bundled)
     IN /\ shown' = [c \in DOMAIN shown \cup {s.selected} |->
                       IF c = s.selected THEN Schemas ELSE shown[c]]
        /\ Render(s, panel, flights, FALSE)
  /\ UNCHANGED <<form, dialog, busy>>

\* The button tests again while a test is running.
Test(c) ==
  /\ OnPage
  /\ LET f == [Flight("test", c.id) EXCEPT !.n = 1]
     IN Render(SetConnectionTestPending(store, c.id), panel,
               flights \cup {IF f \in flights THEN [f EXCEPT !.n = 2] ELSE f}, FALSE)
  /\ busy' = [busy EXCEPT !.left = @ \ {c.id}] /\ UNCHANGED <<entry, form, dialog>>
TestAnswered(f) ==
  /\ Answer(f) /\ f.kind = "test" /\ UNCHANGED formVars
  /\ \/ Render(SetConnectionTestSuccess(store, f.conn), panel, flights \ {f}, FALSE)
     \/ Render(SetConnectionTestError(store, f.conn), panel, flights \ {f}, FALSE)

-----------------------------------------------------------------------------
\* The schemas a connection shows.

OpenDialog(c) ==
  /\ OnPage
  /\ dialog' = [conn |-> c.id, configs |-> None, late |-> FALSE, n |-> Opened]
  /\ busy' = [busy EXCEPT !.configs = TRUE, !.opened = Opened]
  /\ flights' = flights \cup {[Flight("configs", c.id) EXCEPT !.n = Opened]}
  /\ UNCHANGED <<store, panel, entry, form>>
\* The list goes to whatever dialog is open.
ConfigsAnswered(f) ==
  /\ Answer(f) /\ f.kind = "configs"
  /\ dialog' = IF dialog = None THEN None
               ELSE [dialog EXCEPT !.configs = [of |-> f.conn, names |-> shown[f.conn]],
                                   !.late = @ \/ f.n # dialog.n]
  /\ busy' = [busy EXCEPT !.configs = FALSE]
  /\ flights' = flights \ {f} /\ UNCHANGED <<store, panel, entry, form>>
ConfigsRefused(f) ==
  /\ Answer(f) /\ f.kind = "configs"
  /\ busy' = [busy EXCEPT !.configs = FALSE]
  /\ flights' = flights \ {f} /\ UNCHANGED <<store, panel, entry, form, dialog>>
ToggleShown(n) ==
  /\ Do /\ dialog # None /\ dialog.configs # None /\ ~busy.configs
  /\ dialog' = [dialog EXCEPT !.configs.names =
                  IF n \in @ THEN @ \ {n} ELSE @ \cup {n}]
  /\ Still /\ FormKept
CloseDialog == Do /\ dialog # None /\ dialog' = None /\ Still /\ FormKept
SaveDialog ==
  /\ Do /\ dialog # None /\ dialog.configs # None /\ ~busy.configs /\ ~busy.saving
  /\ busy' = [busy EXCEPT !.saving = TRUE]
  /\ flights' = flights \cup
       {[Flight("save", dialog.conn) EXCEPT
           !.names = dialog.configs.names, !.table = SourceTable(store),
           !.outer = dialog.conn = store.selected /\ Works(store)]}
  /\ UNCHANGED <<store, panel, entry, form, dialog>>
\* Whatever dialog is open closes, and the catalogue is loaded when the
\* connection was the selected one at the call.
SaveAnswered(f) ==
  /\ f \in flights /\ f.kind = "save" /\ UNCHANGED panelSteps
  /\ shown' = [shown EXCEPT ![f.conn] = f.names]
  /\ dialog' = None /\ busy' = [busy EXCEPT !.saving = FALSE]
  /\ Render(store, [panel EXCEPT !.loadingSchemas = @ \/ f.outer],
            (flights \ {f}) \cup
              (IF f.outer THEN {[Flight("schemas", f.conn) EXCEPT !.table = f.table]} ELSE {}),
            FALSE)
  /\ UNCHANGED <<entry, form>>
SaveRefused(f) ==
  /\ Answer(f) /\ f.kind = "save" /\ busy' = [busy EXCEPT !.saving = FALSE]
  /\ flights' = flights \ {f} /\ UNCHANGED <<store, panel, entry, form, dialog>>

-----------------------------------------------------------------------------
\* A new layer.

Fits(kind, t, c) == GeometryOf[t][c] = (IF kind = "polygon" THEN "polygon" ELSE "point")
FittingColumns(kind, t) == {c \in DOMAIN GeometryOf[t] : Fits(kind, t, c)}
Some(set) == IF set = {} THEN None ELSE CHOOSE c \in set : TRUE
\* createFlowLayerDefaults.
FlowDefaults(t) ==
  LET n == IF t = None THEN None ELSE GuessOf[t]
      g == IF t = None THEN None ELSE Some(DOMAIN GeometryOf[t])
  IN CoordinateFlow(n, n, g)
EmptyForm(kind, n) ==
  [kind |-> kind, conn |-> store.selected, table |-> None, of |-> None, column |-> None,
   named |-> TRUE, flow |-> FlowDefaults(None), flowNamed |-> TRUE, error |-> FALSE,
   late |-> FALSE, n |-> n]

\* A table gives the form its name, a column that fits and the columns of a
\* flow. An error goes with the table it was shown for.
ApplyLayerSource(fm, t, of, kind) ==
  [fm EXCEPT !.table = t, !.of = of, !.named = TRUE, !.flow = FlowDefaults(t),
             !.flowNamed = TRUE, !.error = @ /\ t = None /\ fm.table = None,
             !.column = IF t = None THEN None ELSE Some(FittingColumns(kind, t))]

\* The form starts from the selected table, and has the tables loaded when
\* there are none.
OpenForm(kind) ==
  /\ OnPage /\ Works(store)
  /\ LET t == SourceTable(store)
         of == IF t = None THEN None ELSE panel.metadata[t]
     IN form' = ApplyLayerSource(EmptyForm(kind, Opened), IF of = None THEN None ELSE t, of, kind)
  /\ busy' = [busy EXCEPT !.opened = Opened]
  /\ IF \A n \in Schemas : panel.tables[n] = None
     THEN LoadCatalog(store, panel, flights, TRUE) ELSE Render(store, panel, flights, FALSE)
  /\ UNCHANGED <<entry, dialog>>
CloseForm == InForm /\ form' = None /\ Still /\ UNCHANGED <<entry, dialog, busy>>

LeaveTable ==
  /\ InForm /\ form.table # None /\ form' = ApplyLayerSource(form, None, None, form.kind)
  /\ Still /\ UNCHANGED <<entry, dialog, busy>>
\* Metadata the page has is used at once, other is asked for.
ChooseFormTable(t) ==
  /\ InForm /\ panel.tables[SchemaOf[t]] # None /\ form.table # t
  /\ IF panel.metadata[t] # None
     THEN /\ form' = ApplyLayerSource(form, t, panel.metadata[t], form.kind)
          /\ Still /\ UNCHANGED busy
     ELSE /\ form' = [form EXCEPT !.error = FALSE]
          /\ busy' = [busy EXCEPT !.source = TRUE]
          /\ flights' = flights \cup {[Flight("form", store.selected) EXCEPT
                                         !.table = t, !.pattern = form.kind, !.n = form.n]}
          /\ UNCHANGED <<store, panel>>
  /\ UNCHANGED <<entry, dialog>>
\* The answer goes to whatever form is open, with the kind of its own. A
\* refusal is shown only when there was no table before.
FormTableAnswered(f) ==
  /\ Answer(f) /\ f.kind = "form"
  /\ form' = IF form = None THEN None
             ELSE [ApplyLayerSource(form, f.table, f.conn, f.pattern) EXCEPT
                     !.late = @ \/ f.n # form.n]
  /\ busy' = [busy EXCEPT !.source = FALSE]
  /\ flights' = flights \ {f} /\ UNCHANGED <<store, panel, entry, dialog>>
FormTableRefused(f) ==
  /\ Answer(f) /\ f.kind = "form"
  /\ form' = IF form = None THEN None
             ELSE [ApplyLayerSource(form, None, None, f.pattern) EXCEPT !.error = form.table = None]
  /\ busy' = [busy EXCEPT !.source = FALSE]
  /\ flights' = flights \ {f} /\ UNCHANGED <<store, panel, entry, dialog>>

GeometryKind == form.kind \in {"point", "polygon"}
Edit(fm) == form' = fm /\ Still /\ UNCHANGED <<entry, dialog, busy>>
NameGeometry == InForm /\ GeometryKind /\ Edit([form EXCEPT !.named = ~@])
ChooseColumn ==
  /\ InForm /\ GeometryKind /\ form.table # None
  /\ \E c \in FittingColumns(form.kind, form.table) \cup {None} : Edit([form EXCEPT !.column = c])

EditFlow(flow) == Edit([form EXCEPT !.flow = flow])
Flowing == InForm /\ ~GeometryKind
FormNumeric == IF form.table = None THEN {None} ELSE NumericOf[form.table] \cup {None}
FormGeometries == IF form.table = None THEN {None} ELSE DOMAIN GeometryOf[form.table] \cup {None}
NameFlow == Flowing /\ Edit([form EXCEPT !.flowNamed = ~@])
FormModes ==
  /\ Flowing
  /\ \E mode \in {"coordinates", "geometry"} :
       EditFlow([form.flow EXCEPT !.startMode = mode]) \/ EditFlow([form.flow EXCEPT !.endMode = mode])
FormStart ==
  /\ Flowing
  /\ IF form.flow.startMode = "geometry"
     THEN \E c \in FormGeometries : EditFlow([form.flow EXCEPT !.startGeometry = c])
     ELSE \E c \in FormNumeric :
            EditFlow([form.flow EXCEPT !.startLon = c]) \/ EditFlow([form.flow EXCEPT !.startLat = c])
FormEnd ==
  /\ Flowing
  /\ IF form.flow.endMode = "geometry"
     THEN \E c \in FormGeometries : EditFlow([form.flow EXCEPT !.endGeometry = c])
     ELSE \E c \in FormNumeric :
            EditFlow([form.flow EXCEPT !.endLon = c]) \/ EditFlow([form.flow EXCEPT !.endLat = c])
FormDensity ==
  /\ Flowing
  /\ \/ \E c \in FormNumeric : EditFlow([form.flow EXCEPT !.magnitude = c])
     \/ form.flow.magnitude = None /\ \E n \in 1..2 : EditFlow([form.flow EXCEPT !.density = n])

CanCreateGeometry == form.table # None /\ form.named /\ form.column # None
CreateGeometry ==
  /\ InForm /\ GeometryKind /\ ~busy.source /\ CanCreateGeometry
  /\ Render(IF form.column \in DOMAIN GeometryOf[form.table]
            THEN AddGeoJsonLayer(store, GeometryPayload(store.selected, form.table, form.column,
                                                        "configured"))
            ELSE store, panel, flights, FALSE)
  /\ form' = None /\ UNCHANGED <<entry, dialog, busy>>
\* canSubmitFlowLayer.
CanCreateFlow ==
  LET w == form.flow
  IN /\ form.table # None /\ form.flowNamed
     /\ IF w.startMode = "geometry" THEN w.startGeometry # None
        ELSE w.startLon # None /\ w.startLat # None
     /\ IF w.endMode = "geometry" THEN w.endGeometry # None
        ELSE w.endLon # None /\ w.endLat # None
\* validateFlowLayerForm: what CanCreateFlow asks, and coordinates that are
\* numeric columns of the table.
ValidFlow ==
  LET w == form.flow
      starts == IF w.startMode = "geometry" THEN {} ELSE {w.startLon, w.startLat}
      ends == IF w.endMode = "geometry" THEN {} ELSE {w.endLon, w.endLat}
  IN starts \cup ends \subseteq NumericOf[form.table]
CreateFlow ==
  /\ InForm /\ ~GeometryKind /\ ~busy.source /\ CanCreateFlow
  /\ LET p == FlowPayload(store.selected, form.table, form.flow, None)
     IN IF ~ValidFlow THEN Edit([form EXCEPT !.error = TRUE])
        ELSE /\ Render(IF form.kind = "arc" THEN AddArcLayer(store, p)
                       ELSE AddFlowmapLayer(store, p), panel, flights, FALSE)
             /\ form' = None /\ UNCHANGED <<entry, dialog, busy>>

FormsNext ==
  \/ OpenEntry \/ CloseEntry \/ SubmitEntry
  \/ \E filled, bundled \in BOOLEAN : FillEntry(filled, bundled)
  \/ \E c \in Range(store.connections) : Test(c) \/ OpenDialog(c)
  \/ \E n \in Schemas : ToggleShown(n)
  \/ CloseDialog \/ SaveDialog
  \/ \E kind \in {"point", "polygon", "flowmap", "arc"} : OpenForm(kind)
  \/ CloseForm \/ LeaveTable \/ \E t \in MapTables : ChooseFormTable(t)
  \/ NameGeometry \/ ChooseColumn \/ NameFlow \/ FormModes \/ FormStart \/ FormEnd \/ FormDensity
  \/ CreateGeometry \/ CreateFlow
  \/ \E f \in flights :
       \/ TestAnswered(f) \/ ConfigsAnswered(f) \/ ConfigsRefused(f)
       \/ SaveAnswered(f) \/ SaveRefused(f) \/ FormTableAnswered(f) \/ FormTableRefused(f)
       \/ UNCHANGED formVars
          /\ (SchemasAnswered(f) \/ AllTablesAnswered(f) \/ TablesAnswered(f) \/ CatalogRefused(f))
  \/ /\ UNCHANGED formVars
     /\ \/ ServersListed \/ MetadataAnswered
        \/ /\ NoModal
           /\ \E c \in Range(store.connections) : store.selected # c.id /\ ChooseConnection(c)

-----------------------------------------------------------------------------
FormsTypeOK ==
  /\ KeysFit(store)
  /\ entry = None \/ entry.filled \in BOOLEAN
  /\ form = None \/ DOMAIN form = DOMAIN EmptyForm("point", 0)
  /\ dialog = None \/ DOMAIN dialog = {"conn", "configs", "late", "n"}
  /\ busy.opened \in 0..PanelGestures
  /\ (entry # None => form = None /\ dialog = None) /\ (form # None => dialog = None)

\* A form that no late answer reached offers a table of its connection, for as
\* long as the list of the server leaves that one selected, with a column of
\* its kind.
FormFits ==
  form # None /\ form.table # None /\ ~form.late =>
    /\ form.conn = store.selected => form.of = form.conn
    /\ GeometryKind /\ form.column # None => Fits(form.kind, form.table, form.column)
\* A dialog that no late answer reached lists the schemas of its connection.
DialogFits ==
  dialog # None /\ dialog.configs # None /\ ~dialog.late => dialog.configs.of = dialog.conn
\* A connection is shown as being tested only while a test of it is running, or
\* when the page was loaded amid one: the store keeps that it was being tested,
\* and nothing takes it back before the next test.
TestsRun ==
  \A c \in Range(store.connections) :
    c.test = "testing" =>
      c.id \in busy.left \/ \E f \in flights : f.kind = "test" /\ f.conn = c.id

=============================================================================
