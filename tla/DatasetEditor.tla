---------------------------- MODULE DatasetEditor ----------------------------
(***************************************************************************)
(* The analytics workspace (analytics/AnalyticsWorkspace.tsx) and its      *)
(* panels for datasets and bundles: DatasetEditor.tsx, TransferPanel.tsx   *)
(* and ImportPanel.tsx.                                                    *)
(*                                                                         *)
(* The editor of a dataset is mounted afresh whenever another dataset or   *)
(* another revision is selected. A panel that is left is unmounted and its *)
(* draft is gone.                                                          *)
(***************************************************************************)
EXTENDS Screens, FiniteSets, Sequences

CONSTANTS
  SetIds,         \* identities of datasets
  FirstKept,      \* the datasets that are saved at first, by identity
  Connections,    \* database connections
  ResultColumns,  \* the columns a preview finds
  Bundles,        \* files with an exported dashboard
  BundleSources,  \* the connections each of them names
  ImportedSet,    \* a dataset an import writes
  DeskGestures,   \* gestures in a behaviour, a bound
  DeskSends       \* requests under way, a bound

ASSUME DatasetConstants ==
  /\ Nothing \notin SetIds \cup Connections \cup ResultColumns \cup Bundles
  /\ Connections # {} /\ ImportedSet \in SetIds /\ IsFiniteSet(ResultColumns)
  /\ DeskGestures \in Nat /\ DeskSends \in Nat

VARIABLES
  desk,     \* the workspace: tab, catalog, selection
  sheet,    \* the editor of the selected dataset, or Nothing
  carry,    \* the panels of bundles
  shelf,    \* the datasets on the server
  sends,    \* requests under way
  deskSteps

deskVars == <<desk, sheet, carry, shelf, sends, deskSteps>>

-----------------------------------------------------------------------------
FirstConnection == CHOOSE c \in Connections : TRUE

Definitions ==
  [id: SetIds, revision: Nat, named: BOOLEAN, from: Connections \cup {Nothing}, table: BOOLEAN,
   sql: {"typed", "generated", Nothing}, fields: Seq(ResultColumns \cup {Nothing}),
   metrics: Nat, dated: ResultColumns \cup {Nothing},
   relations: Seq([to: SetIds \cup {Nothing}, keyed: BOOLEAN])]
\* A table or the text of a query.
OneSource(d) == ~(d.table /\ d.sql # Nothing)

\* What is saved at first was made by this editor.
ASSUME DatasetsSaved ==
  /\ \A d \in DOMAIN FirstKept : FirstKept[d] \in Definitions /\ OneSource(FirstKept[d])
  /\ Nothing \notin Definitions

\* emptyDataset
EmptyDataset(id, connection) ==
  [id |-> id, revision |-> 0, named |-> FALSE, from |-> connection, table |-> FALSE,
   sql |-> Nothing, fields |-> <<>>, metrics |-> 1, dated |-> Nothing, relations |-> <<>>]

\* Mutant of Materialize: the table stays beside the text of a query.
MaterializeBoth(s) == IF s.mode = "table" THEN [s.value EXCEPT !.sql = Nothing] ELSE s.value
\* A table has no text of a query, and a query has no table.
Materialize(s) ==
  IF s.mode = "table" THEN [s.value EXCEPT !.sql = Nothing] ELSE [s.value EXCEPT !.table = FALSE]

\* A new editor opens at what it was given.
Mounted(d) ==
  [value |-> d, of |-> d, mode |-> IF d.sql = Nothing THEN "table" ELSE "sql",
   result |-> Nothing, asked |-> Nothing, failed |-> FALSE, joins |-> <<>>,
   confirm |-> FALSE, moved |-> FALSE, overtaken |-> FALSE]

\* Selecting what is open already leaves the editor as it is.
Show(d, again) ==
  /\ desk' = [desk EXCEPT !.selected = d]
  /\ sheet' = IF d = Nothing \/ desk.tab # "datasets" THEN Nothing
              ELSE IF ~again /\ sheet # Nothing /\ sheet.of.id = d.id
                        /\ sheet.of.revision = d.revision
                   THEN sheet
              ELSE Mounted(d)

NoCarry ==
  [dashboard |-> FALSE, file |-> Nothing, reading |-> {}, bundle |-> Nothing,
   mapping |-> <<>>, replace |-> FALSE, busy |-> FALSE, source |-> Nothing]

DeskGesture == deskSteps < DeskGestures /\ deskSteps' = deskSteps + 1
DeskIdle == UNCHANGED deskSteps
Ask(op) == Cardinality(sends) < DeskSends /\ sends' = sends \cup {op}

DatasetTypeOK ==
  /\ desk.tab \in {"datasets", "charts", "dashboards", "transfer", "import"}
  /\ desk.busy \in BOOLEAN
  /\ sheet # Nothing =>
       /\ sheet.value.id = desk.selected.id /\ sheet.mode \in {"table", "sql", "visual"}
       /\ desk.tab = "datasets"
  /\ carry.file \in Bundles \cup {Nothing} /\ carry.reading \subseteq Bundles
  /\ DOMAIN shelf = SetIds /\ deskSteps \in 0..DeskGestures

DatasetInit ==
  /\ shelf = [d \in SetIds |-> IF d \in DOMAIN FirstKept THEN FirstKept[d] ELSE Nothing]
  /\ desk = [tab |-> "datasets", datasets |-> [d \in SetIds |-> Nothing], selected |-> Nothing,
             known |-> FALSE, busy |-> TRUE]
  /\ sheet = Nothing /\ carry = NoCarry /\ deskSteps = 0
  /\ sends = {[kind |-> "list", stage |-> "sent", set |-> Nothing, answer |-> Nothing]}

-----------------------------------------------------------------------------
(* The workspace.                                                          *)

\* A panel that is left is unmounted: what was typed there is gone, and a
\* preview under way is aborted. Requests go on.
SwitchTab ==
  /\ DeskGesture
  /\ \E tab \in {"datasets", "charts", "dashboards", "transfer", "import"} \ {desk.tab} :
       /\ desk' = [desk EXCEPT !.tab = tab]
       /\ sheet' = IF tab = "datasets" /\ desk.selected # Nothing THEN Mounted(desk.selected)
                   ELSE Nothing
  /\ carry' = NoCarry
  /\ UNCHANGED <<shelf, sends>>
OpenDataset ==
  /\ desk.tab = "datasets" /\ DeskGesture
  /\ \E d \in SetIds : desk.datasets[d] # Nothing /\ Show(desk.datasets[d], FALSE)
  /\ UNCHANGED <<carry, shelf, sends>>
NewDataset ==
  /\ desk.tab = "datasets" /\ DeskGesture
  /\ LET free == {d \in SetIds : shelf[d] = Nothing /\ d # ImportedSet
                               /\ (desk.selected = Nothing \/ desk.selected.id # d)}
     IN  /\ free # {}
         /\ Show(EmptyDataset(CHOOSE d \in free : TRUE,
                   IF desk.known THEN FirstConnection ELSE Nothing), FALSE)
  /\ UNCHANGED <<carry, shelf, sends>>
RefreshDatasets ==
  /\ desk.tab = "datasets" /\ ~desk.busy /\ DeskGesture
  /\ Ask([kind |-> "list", stage |-> "sent", set |-> Nothing, answer |-> Nothing])
  /\ desk' = [desk EXCEPT !.busy = TRUE]
  /\ UNCHANGED <<sheet, carry, shelf>>
ReloadSelected ==
  /\ desk.tab = "datasets" /\ desk.selected # Nothing /\ DeskGesture
  /\ desk.selected.revision > 0 /\ desk.datasets[desk.selected.id] # Nothing
  /\ Show(desk.datasets[desk.selected.id], TRUE)
  /\ UNCHANGED <<carry, shelf, sends>>

-----------------------------------------------------------------------------
(* The editor.                                                             *)

\* Mutant of Patched: the result of the definition before stays.
PatchedKeepingResult(d) == [sheet EXCEPT !.value = d, !.moved = TRUE]
\* patch: the result is dropped, a preview under way goes on.
Patched(d) ==
  [sheet EXCEPT !.value = d, !.result = Nothing, !.moved = TRUE, !.overtaken = FALSE]
PatchDraft(d) ==
  /\ DeskGesture
  /\ sheet' = Patched(d)
  /\ UNCHANGED <<desk, carry, shelf, sends>>
Redraw(s) == DeskGesture /\ sheet' = s /\ UNCHANGED <<desk, carry, shelf, sends>>

SetName == sheet # Nothing /\ PatchDraft([sheet.value EXCEPT !.named = ~@])
SetConnection ==
  /\ sheet # Nothing /\ desk.known
  /\ \E c \in Connections \ {sheet.value.from} : PatchDraft([sheet.value EXCEPT !.from = c])
SetDefaultTime ==
  /\ sheet # Nothing
  /\ \E f \in {sheet.value.fields[i] : i \in DOMAIN sheet.value.fields} \cup {Nothing} :
       f # sheet.value.dated /\ PatchDraft([sheet.value EXCEPT !.dated = f])
\* The mode is no part of the draft: it leaves the result where it is.
SetMode ==
  /\ sheet # Nothing
  /\ \E m \in {"table", "sql", "visual"} \ {sheet.mode} :
       Redraw([sheet EXCEPT !.mode = m, !.moved = TRUE, !.overtaken = sheet.result # Nothing])
SetTable ==
  /\ sheet # Nothing /\ sheet.mode \in {"table", "visual"}
  /\ PatchDraft([sheet.value EXCEPT !.table = ~@])
SetSql ==
  /\ sheet # Nothing /\ sheet.mode = "sql"
  /\ \E q \in {"typed", Nothing} : q # sheet.value.sql /\ PatchDraft([sheet.value EXCEPT !.sql = q])
\* Joins of the visual mode, complete or not.
AddJoin ==
  /\ sheet # Nothing /\ sheet.mode = "visual"
  /\ Redraw([sheet EXCEPT !.joins = Append(@, FALSE)])
EditJoin ==
  /\ sheet # Nothing /\ sheet.mode = "visual"
  /\ \E i \in DOMAIN sheet.joins : Redraw([sheet EXCEPT !.joins[i] = ~@])
RemoveJoin ==
  /\ sheet # Nothing /\ sheet.mode = "visual"
  /\ \E i \in DOMAIN sheet.joins :
       Redraw([sheet EXCEPT !.joins = SubSeq(@, 1, i - 1) \o SubSeq(@, i + 1, Len(@))])
GenerateSql ==
  /\ sheet # Nothing /\ sheet.mode = "visual" /\ DeskGesture
  /\ sheet' = IF sheet.value.table /\ \A i \in DOMAIN sheet.joins : sheet.joins[i]
              THEN [Patched([sheet.value EXCEPT !.sql = "generated"])
                      EXCEPT !.mode = "sql", !.failed = FALSE]
              ELSE [sheet EXCEPT !.failed = TRUE]
  /\ UNCHANGED <<desk, carry, shelf, sends>>

AddField == sheet # Nothing /\ PatchDraft([sheet.value EXCEPT !.fields = Append(@, Nothing)])
NameField ==
  /\ sheet # Nothing
  /\ \E i \in DOMAIN sheet.value.fields, f \in ResultColumns :
       f # sheet.value.fields[i] /\ PatchDraft([sheet.value EXCEPT !.fields[i] = f])
RemoveField ==
  /\ sheet # Nothing
  /\ \E i \in DOMAIN sheet.value.fields :
       PatchDraft([sheet.value EXCEPT !.fields = SubSeq(@, 1, i - 1) \o SubSeq(@, i + 1, Len(@))])
SetMetricRows ==
  /\ sheet # Nothing
  /\ \E n \in 0..2 : n # sheet.value.metrics /\ PatchDraft([sheet.value EXCEPT !.metrics = n])
AddRelation ==
  /\ sheet # Nothing
  /\ PatchDraft([sheet.value EXCEPT !.relations = Append(@, [to |-> Nothing, keyed |-> FALSE])])
\* Targets are other datasets of the connection. Another target drops its key.
AimRelation ==
  /\ sheet # Nothing
  /\ \E i \in DOMAIN sheet.value.relations, d \in SetIds \ {sheet.value.id} :
       /\ desk.datasets[d] # Nothing /\ desk.datasets[d].from = sheet.value.from
       /\ PatchDraft([sheet.value EXCEPT !.relations[i] = [to |-> d, keyed |-> FALSE]])
KeyRelation ==
  /\ sheet # Nothing
  /\ \E i \in DOMAIN sheet.value.relations :
       /\ sheet.value.relations[i].to # Nothing
       /\ PatchDraft([sheet.value EXCEPT !.relations[i].keyed = ~@])
RemoveRelation ==
  /\ sheet # Nothing
  /\ \E i \in DOMAIN sheet.value.relations :
       PatchDraft([sheet.value EXCEPT !.relations = SubSeq(@, 1, i - 1) \o SubSeq(@, i + 1, Len(@))])

\* The button is busy while a preview runs.
PreviewDataset ==
  /\ sheet # Nothing /\ sheet.asked = Nothing
  /\ sheet.mode # "visual" /\ sheet.value.from # Nothing
  /\ Redraw([sheet EXCEPT !.asked = Materialize(sheet), !.failed = FALSE, !.moved = FALSE])
PreviewAnswered ==
  /\ sheet # Nothing /\ sheet.asked # Nothing /\ DeskIdle
  /\ \/ sheet' = [sheet EXCEPT !.result = sheet.asked, !.asked = Nothing, !.overtaken = sheet.moved]
     \/ sheet' = [sheet EXCEPT !.failed = TRUE, !.asked = Nothing]
  /\ UNCHANGED <<desk, carry, shelf, sends>>
\* Columns of the result that are no fields yet.
AdoptColumns ==
  /\ sheet # Nothing /\ sheet.result # Nothing
  /\ LET fresh == ResultColumns \ {sheet.value.fields[i] : i \in DOMAIN sheet.value.fields}
     IN  \E columns \in {s \in [1..Cardinality(fresh) -> fresh] : {s[i] : i \in DOMAIN s} = fresh} :
           PatchDraft([sheet.value EXCEPT !.fields = @ \o columns])

\* Busy means any request of the workspace: the first that ends frees the
\* buttons while another one still runs.
SaveDataset ==
  /\ sheet # Nothing /\ ~desk.busy /\ DeskGesture
  /\ sheet.mode # "visual" /\ sheet.value.named /\ sheet.value.from # Nothing
  /\ Ask([kind |-> "save", stage |-> "sent", set |-> Materialize(sheet), answer |-> Nothing])
  /\ desk' = [desk EXCEPT !.busy = TRUE]
  /\ UNCHANGED <<sheet, carry, shelf>>
AskDeletion ==
  /\ sheet # Nothing /\ sheet.of.revision > 0
  /\ Redraw([sheet EXCEPT !.confirm = ~@])
\* The revision sent is that of the dataset as it was opened.
DeleteDataset ==
  /\ sheet # Nothing /\ sheet.confirm /\ ~desk.busy /\ DeskGesture
  /\ Ask([kind |-> "delete", stage |-> "sent", set |-> sheet.of, answer |-> Nothing])
  /\ desk' = [desk EXCEPT !.busy = TRUE]
  /\ UNCHANGED <<sheet, carry, shelf>>

-----------------------------------------------------------------------------
(* Bundles.                                                                *)

ChooseExported ==
  /\ desk.tab = "transfer" /\ DeskGesture
  /\ carry' = [carry EXCEPT !.dashboard = TRUE] /\ UNCHANGED <<desk, sheet, shelf, sends>>
ExportDashboard ==
  /\ desk.tab = "transfer" /\ carry.dashboard /\ ~carry.busy /\ DeskGesture
  /\ Ask([kind |-> "export", stage |-> "sent", set |-> Nothing, answer |-> Nothing])
  /\ carry' = [carry EXCEPT !.busy = TRUE] /\ UNCHANGED <<desk, sheet, shelf>>
\* chooseFile: what was read of the file before goes, its reading does not.
ChooseFile ==
  /\ desk.tab = "transfer" /\ DeskGesture
  /\ \E f \in Bundles \cup {Nothing} :
       carry' = [carry EXCEPT !.file = f, !.bundle = Nothing, !.mapping = <<>>,
                   !.reading = IF f = Nothing THEN @ ELSE @ \cup {f}]
  /\ UNCHANGED <<desk, sheet, shelf, sends>>
\* Mutant of OpenBundle: the mapping of the bundle before stays.
OpenBundleOnly(f) == [carry EXCEPT !.reading = @ \ {f}, !.bundle = f]
\* A source that is a connection here is mapped to itself, any other to the
\* only connection there is.
OpenBundle(f) ==
  [carry EXCEPT !.reading = @ \ {f}, !.bundle = f,
     !.mapping = [s \in BundleSources[f] |->
       IF desk.known /\ s \in Connections THEN s
       ELSE IF desk.known /\ Cardinality(Connections) = 1 THEN FirstConnection ELSE Nothing]]
\* Files read are shown in the order they come, not in the order chosen. A
\* file that is no bundle is an error.
FileRead ==
  /\ carry.reading # {} /\ DeskIdle
  /\ \E f \in carry.reading :
       \/ carry' = OpenBundle(f)
       \/ carry' = [carry EXCEPT !.reading = @ \ {f}]
  /\ UNCHANGED <<desk, sheet, shelf, sends>>
MapSource ==
  /\ carry.bundle # Nothing /\ desk.known /\ DeskGesture
  /\ \E s \in BundleSources[carry.bundle], c \in Connections :
       carry' = [carry EXCEPT !.mapping = [t \in DOMAIN @ \cup {s} |-> IF t = s THEN c ELSE @[t]]]
  /\ UNCHANGED <<desk, sheet, shelf, sends>>
SetReplace ==
  /\ carry.bundle # Nothing /\ DeskGesture
  /\ carry' = [carry EXCEPT !.replace = ~@] /\ UNCHANGED <<desk, sheet, shelf, sends>>
ImportDashboard ==
  /\ carry.bundle # Nothing /\ ~carry.busy /\ DeskGesture
  /\ \A s \in BundleSources[carry.bundle] : s \in DOMAIN carry.mapping /\ carry.mapping[s] # Nothing
  /\ Ask([kind |-> IF carry.replace THEN "replace" ELSE "import", stage |-> "sent",
          set |-> Nothing, answer |-> Nothing])
  /\ carry' = [carry EXCEPT !.busy = TRUE] /\ UNCHANGED <<desk, sheet, shelf>>
ChooseSource ==
  /\ desk.tab = "import" /\ desk.known /\ DeskGesture
  /\ \E c \in Connections \ {carry.source} : carry' = [carry EXCEPT !.source = c]
  /\ UNCHANGED <<desk, sheet, shelf, sends>>
ImportReference ==
  /\ desk.tab = "import" /\ ~carry.busy /\ (desk.known \/ carry.source # Nothing) /\ DeskGesture
  /\ Ask([kind |-> "replace", stage |-> "sent", set |-> Nothing, answer |-> Nothing])
  /\ carry' = [carry EXCEPT !.busy = TRUE] /\ UNCHANGED <<desk, sheet, shelf>>

-----------------------------------------------------------------------------
(* Requests.                                                               *)

\* The server, external: a revision must fit what is kept, an import writes a
\* dataset, and refuses to write over one unless it is told to.
RevisionOn(id) == IF shelf[id] = Nothing THEN 0 ELSE shelf[id].revision
Wrote(op) ==
  CASE op.kind = "save" -> [shelf EXCEPT ![op.set.id] = [op.set EXCEPT !.revision = @ + 1]]
    [] op.kind = "delete" -> [shelf EXCEPT ![op.set.id] = Nothing]
    [] op.kind \in {"import", "replace"} ->
         [shelf EXCEPT ![ImportedSet] =
           [EmptyDataset(ImportedSet, FirstConnection) EXCEPT !.named = TRUE, !.table = TRUE,
                                               !.revision = RevisionOn(ImportedSet) + 1]]
    [] OTHER -> shelf
Granted(op) ==
  /\ op.kind \in {"save", "delete"} => op.set.revision = RevisionOn(op.set.id)
  /\ op.kind = "import" => shelf[ImportedSet] = Nothing
ServeDesk ==
  /\ DeskIdle
  /\ \E op \in sends :
       /\ op.stage = "sent"
       /\ shelf' = IF Granted(op) THEN Wrote(op) ELSE shelf
       /\ sends' = (sends \ {op}) \cup
            {[op EXCEPT !.stage = IF Granted(op) THEN "done" ELSE "refused",
                        !.answer = IF op.kind = "list" THEN shelf
                                   ELSE IF op.kind = "save" /\ Granted(op) THEN Wrote(op)[op.set.id]
                                   ELSE Nothing]}
  /\ UNCHANGED <<desk, sheet, carry>>

\* reload: the first load selects the first dataset.
ListShown(op) ==
  /\ op.kind = "list" /\ op.stage = "done"
  /\ LET listed == {d \in SetIds : op.answer[d] # Nothing}
         first == IF listed = {} THEN Nothing ELSE op.answer[CHOOSE d \in listed : TRUE]
         open == IF desk.selected = Nothing THEN first ELSE desk.selected
     IN  /\ desk' = [desk EXCEPT !.datasets = op.answer, !.known = TRUE, !.busy = FALSE,
                                 !.selected = open]
         /\ sheet' = IF desk.tab = "datasets" /\ sheet = Nothing /\ open # Nothing
                     THEN Mounted(open) ELSE sheet
  /\ UNCHANGED carry
\* What was saved is selected, whatever was chosen meanwhile.
SaveDone(op) ==
  /\ op.kind = "save" /\ op.stage = "done"
  /\ desk' = [desk EXCEPT !.busy = FALSE, !.selected = op.answer,
                          !.datasets[op.answer.id] = op.answer]
  /\ sheet' = IF desk.tab = "datasets" THEN Mounted(op.answer) ELSE Nothing
  /\ UNCHANGED carry
DeleteDone(op) ==
  /\ op.kind = "delete" /\ op.stage = "done"
  /\ desk' = [desk EXCEPT !.busy = FALSE, !.selected = Nothing, !.datasets[op.set.id] = Nothing]
  /\ sheet' = Nothing /\ UNCHANGED carry
\* An import is followed by a load of the catalog.
BundleDone(op) ==
  /\ op.kind \in {"import", "replace", "export"} /\ op.stage = "done"
  /\ desk' = IF op.kind = "export" THEN desk ELSE [desk EXCEPT !.busy = TRUE]
  /\ carry' = [carry EXCEPT !.busy = FALSE] /\ UNCHANGED sheet
Refused(op) ==
  /\ op.stage = "refused"
  /\ IF op.kind \in {"save", "delete", "list"}
     THEN desk' = [desk EXCEPT !.busy = FALSE] /\ UNCHANGED carry
     ELSE carry' = [carry EXCEPT !.busy = FALSE] /\ UNCHANGED desk
  /\ UNCHANGED sheet
Answered ==
  /\ DeskIdle
  /\ \E op \in sends :
       /\ ListShown(op) \/ SaveDone(op) \/ DeleteDone(op) \/ BundleDone(op) \/ Refused(op)
       /\ sends' = (sends \ {op}) \cup
            IF op.stage = "done" /\ op.kind \in {"import", "replace"}
            THEN {[kind |-> "list", stage |-> "sent", set |-> Nothing, answer |-> Nothing]} ELSE {}
  /\ UNCHANGED shelf
\* The connection is lost before the server has seen the request.
SendLost ==
  /\ DeskGesture
  /\ \E op \in sends :
       op.stage = "sent" /\ sends' = (sends \ {op}) \cup {[op EXCEPT !.stage = "refused"]}
  /\ UNCHANGED <<desk, sheet, carry, shelf>>

DatasetNext ==
  \/ SwitchTab \/ OpenDataset \/ NewDataset \/ RefreshDatasets \/ ReloadSelected
  \/ SetName \/ SetConnection \/ SetDefaultTime \/ SetMode \/ SetTable \/ SetSql
  \/ AddJoin \/ EditJoin \/ RemoveJoin \/ GenerateSql \/ AddField \/ NameField \/ RemoveField
  \/ SetMetricRows \/ AddRelation \/ AimRelation \/ KeyRelation \/ RemoveRelation
  \/ PreviewDataset \/ PreviewAnswered \/ AdoptColumns \/ SaveDataset \/ AskDeletion
  \/ DeleteDataset \/ ChooseExported \/ ExportDashboard \/ ChooseFile \/ FileRead \/ MapSource
  \/ SetReplace \/ ImportDashboard \/ ChooseSource \/ ImportReference
  \/ ServeDesk \/ Answered \/ SendLost

DatasetSpec == DatasetInit /\ [][DatasetNext]_deskVars

-----------------------------------------------------------------------------
\* The result shown is that of the definition as it stands. An edit does not
\* stop a preview under way, and the mode is changed without dropping a result
\* (DatasetEditor.tsx:107 and :194): those two are excepted.
PreviewFits ==
  sheet # Nothing /\ sheet.result # Nothing /\ ~sheet.overtaken => sheet.result = Materialize(sheet)

\* What is kept reads either a table or the text of a query, however the editor
\* went between its modes, and a bundle is imported under a mapping of its own
\* sources.
DefinitionsFit ==
  /\ \A d \in SetIds : shelf[d] # Nothing => OneSource(shelf[d])
  /\ carry.bundle # Nothing => DOMAIN carry.mapping = BundleSources[carry.bundle]

=============================================================================
