-------------------------- MODULE DashboardBuilder --------------------------
(***************************************************************************)
(* The editor of dashboards (analytics/DashboardBuilder.tsx, with          *)
(* placeWidgets of dashboard-filters.ts and the requests of api.ts): a     *)
(* draft of one dashboard, its layout, filter controls and default         *)
(* filters, its publications and their public links.                       *)
(*                                                                         *)
(* Requests run side by side: the flag busy disables some buttons and is   *)
(* reset by whichever request ends first, and an answer is taken whatever  *)
(* was chosen meanwhile. The server, and another editor, are modelled as   *)
(* far as the answers depend on them.                                      *)
(***************************************************************************)
EXTENDS Screens, FiniteSets, Sequences

CONSTANTS
  Boards,        \* identities of dashboards
  FirstBoards,   \* those that are saved at first,
  FirstBody,     \* with this content
  WidgetIds,     \* identities of widgets
  BoardCharts,   \* saved charts
  ChartQueries,  \* the datasets that a chart queries, several for a composite map
  FilterFields,  \* the fields that are picked in the preview
  Understood,    \* pairs <<f, d>>: a filter on f goes over to dataset d
  BoardGestures, \* gestures of the user and of another editor, a bound
  Publications   \* publications in a behaviour, a bound

ASSUME BuilderConstants ==
  /\ FirstBoards \subseteq Boards /\ Nothing \notin Boards \cup WidgetIds \cup BoardCharts
  /\ BoardGestures \in Nat /\ Publications \in Nat

VARIABLES
  board,   \* the screen
  backend, \* dashboards, publications and shares on the server
  ops,     \* requests under way
  boardSteps

builderVars == <<board, backend, ops, boardSteps>>

-----------------------------------------------------------------------------
(* The layout.                                                             *)

Columns == 12
Widget == [id: WidgetIds, chart: BoardCharts \cup {Nothing}, targets: SUBSET WidgetIds,
           x: 0..Columns, y: Nat, w: 1..Columns, h: 1..Columns]
Taller(a, b) == IF a > b THEN a ELSE b

\* Mutant of PlaceWidgets: a row is as high as its last widget.
PlaceWidgetsLow(ws) ==
  LET right[i \in 0..Len(ws)] ==
        IF i = 0 THEN [x |-> 0, y |-> 0, row |-> 0]
        ELSE LET last == right[i - 1]
             IN  IF last.x + ws[i].w > Columns
                 THEN [x |-> ws[i].w, y |-> last.y + last.row, row |-> ws[i].h]
                 ELSE [x |-> last.x + ws[i].w, y |-> last.y, row |-> ws[i].h]
  IN  [i \in 1..Len(ws) |-> [ws[i] EXCEPT !.x = right[i].x - ws[i].w, !.y = right[i].y]]

\* placeWidgets: rows from left to right, a new one below the highest widget.
PlaceWidgets(ws) ==
  LET right[i \in 0..Len(ws)] ==
        IF i = 0 THEN [x |-> 0, y |-> 0, row |-> 0]
        ELSE LET last == right[i - 1]
             IN  IF last.x + ws[i].w > Columns
                 THEN [x |-> ws[i].w, y |-> last.y + last.row, row |-> ws[i].h]
                 ELSE [x |-> last.x + ws[i].w, y |-> last.y, row |-> Taller(last.row, ws[i].h)]
  IN  [i \in 1..Len(ws) |-> [ws[i] EXCEPT !.x = right[i].x - ws[i].w, !.y = right[i].y]]

-----------------------------------------------------------------------------
(* The screen and the server.                                              *)

Ids(body) == {body.widgets[i].id : i \in 1..Len(body.widgets)}
\* A filter that is saved is pinned to widgets.
Pinned == [field: FilterFields, targets: SUBSET WidgetIds]
Picked == [field: FilterFields, source: WidgetIds \cup {Nothing}]
Empty == [widgets |-> <<>>, control |-> Nothing, defaults |-> {}]

\* Widgets within the columns that do not overlap.
LaidOut(ws) ==
  \A i \in 1..Len(ws) :
    /\ ws[i].x + ws[i].w <= Columns
    /\ \A j \in 1..Len(ws) \ {i} :
         \/ ws[i].x + ws[i].w <= ws[j].x \/ ws[j].x + ws[j].w <= ws[i].x
         \/ ws[i].y + ws[i].h <= ws[j].y \/ ws[j].y + ws[j].h <= ws[i].y
Body == [widgets: {ws \in Seq(Widget) : LaidOut(ws)}, control: {Nothing} \cup SUBSET WidgetIds,
         defaults: SUBSET Pinned]

\* What is saved at first was laid out and scoped by this editor.
ASSUME FirstSaves == FirstBody \in Body

BuilderTypeOK ==
  /\ board.draft # Nothing =>
       /\ board.draft.id \in Boards /\ board.draft.named \in BOOLEAN
       /\ board.draft.body.widgets \in Seq(Widget)
       /\ board.draft.body.defaults \subseteq Pinned \cup Picked
  /\ board.active \subseteq Pinned \cup Picked
  /\ {board.busy, board.confirm, board.lock, board.keep, board.first} \subseteq BOOLEAN
  /\ DOMAIN backend.saved = Boards /\ Len(backend.pubs) <= Publications
  /\ boardSteps \in 0..BoardGestures

BoardGesture == boardSteps < BoardGestures /\ boardSteps' = boardSteps + 1
Local == BoardGesture /\ UNCHANGED <<backend, ops>>

Send(kind, arg) ==
  /\ ops' = ops \cup {[kind |-> kind, arg |-> arg, stage |-> "sent", answer |-> Nothing]}
  /\ UNCHANGED backend

\* Default filters of a dashboard are in force when it is chosen.
Open(value) ==
  [board EXCEPT !.draft = value, !.active = IF value = Nothing THEN {} ELSE value.body.defaults,
                !.publication = Nothing, !.publications = {}, !.shares = {}, !.confirm = FALSE]
FromCatalog(b) ==
  IF b = Nothing \/ board.known[b] = Nothing THEN Nothing
  ELSE [id |-> b, named |-> TRUE, revision |-> board.known[b].revision,
        body |-> board.known[b].body]

BuilderInit ==
  /\ board = [draft |-> Nothing, known |-> [b \in Boards |-> Nothing], active |-> {},
              publication |-> Nothing, publications |-> {}, shares |-> {}, busy |-> TRUE,
              confirm |-> FALSE, lock |-> TRUE, keep |-> TRUE, first |-> FALSE]
  /\ backend = [saved |-> [b \in Boards |-> IF b \in FirstBoards
                                THEN [revision |-> 1, from |-> 0, body |-> FirstBody] ELSE Nothing],
                pubs |-> <<>>, shares |-> {}]
  /\ ops = {[kind |-> "list", arg |-> Nothing, stage |-> "sent", answer |-> Nothing]}
  /\ boardSteps = 0

-----------------------------------------------------------------------------
(* Choosing and editing.                                                   *)

ChooseBoard ==
  /\ \E b \in {c \in Boards : board.known[c] # Nothing} : board' = Open(FromCatalog(b))
  /\ Local
NewBoard ==
  /\ \E b \in {c \in Boards : backend.saved[c] = Nothing} :
       /\ \A op \in ops : op.kind = "save" => op.arg.id # b
       /\ board' = Open([id |-> b, named |-> FALSE, revision |-> 0, body |-> Empty])
  /\ Local
\* Reload dashboard: what the catalog has, which may have been dropped from it.
ReloadBoard ==
  /\ board.draft # Nothing /\ board.draft.revision > 0
  /\ board' = Open(FromCatalog(board.draft.id))
  /\ Local
ReloadLists ==
  /\ ~board.busy
  /\ BoardGesture /\ board' = [board EXCEPT !.busy = TRUE] /\ Send("list", Nothing)

\* patch, and widgets, which places them anew.
Patch(body) == board' = [board EXCEPT !.draft.body = body]
Placed(ws) == Patch([board.draft.body EXCEPT !.widgets = PlaceWidgets(ws)])

NameBoard ==
  /\ board.draft # Nothing
  /\ board' = [board EXCEPT !.draft.named = ~@]
  /\ Local
\* The charts to add come with the first load.
Offered == (IF board.first THEN BoardCharts ELSE {}) \cup {Nothing}
\* add: a chart of half the width, a heading or a text of the full one.
AddWidget ==
  /\ board.draft # Nothing
  /\ \E id \in WidgetIds \ Ids(board.draft.body), c \in Offered :
       Placed(Append(board.draft.body.widgets,
         [id |-> id, chart |-> c, targets |-> {}, x |-> 0, y |-> 0,
          w |-> IF c = Nothing THEN Columns ELSE 6, h |-> IF c = Nothing THEN 1 ELSE 4]))
  /\ Local
Without(ws, i) == SubSeq(ws, 1, i - 1) \o SubSeq(ws, i + 1, Len(ws))
\* move, by a drop on another card or by a button.
MoveWidget ==
  /\ board.draft # Nothing
  /\ LET ws == board.draft.body.widgets
     IN  \E from, to \in 1..Len(ws) :
           /\ from # to
           /\ LET rest == Without(ws, from)
              IN  Placed(SubSeq(rest, 1, to - 1) \o <<ws[from]>> \o SubSeq(rest, to, Len(rest)))
  /\ Local
RemoveWidget ==
  /\ board.draft # Nothing
  /\ \E i \in 1..Len(board.draft.body.widgets) : Placed(Without(board.draft.body.widgets, i))
  /\ Local
\* The inputs for width and height.
ResizeWidget ==
  /\ board.draft # Nothing
  /\ LET ws == board.draft.body.widgets
     IN  \E i \in 1..Len(ws) :
           Placed([ws EXCEPT ![i].w = IF @ = 6 THEN 5 ELSE @, ![i].h = IF @ = 4 THEN 6 ELSE @])
  /\ Local
\* Selection targets are other charts of the dashboard.
TargetWidget ==
  /\ board.draft # Nothing
  /\ LET ws == board.draft.body.widgets
     IN  \E i, j \in 1..Len(ws) :
           /\ i # j /\ ws[i].chart # Nothing /\ ws[j].chart # Nothing
           /\ Placed([ws EXCEPT ![i].targets = @ \cup {ws[j].id}])
  /\ Local
\* A filter control, and the widgets it is meant for.
AddControl ==
  /\ board.draft # Nothing
  /\ Patch([board.draft.body EXCEPT !.control = {}])
  /\ Local
TargetControl ==
  /\ board.draft # Nothing /\ board.draft.body.control # Nothing
  /\ \E i \in 1..Len(board.draft.body.widgets) :
       /\ board.draft.body.widgets[i].chart # Nothing
       /\ Patch([board.draft.body EXCEPT !.control = @ \cup {board.draft.body.widgets[i].id}])
  /\ Local
RemoveControl ==
  /\ board.draft # Nothing /\ board.draft.body.control # Nothing
  /\ Patch([board.draft.body EXCEPT !.control = Nothing])
  /\ Local
\* A filter is set in the preview, by a chart or by the toolbar, or all are cleared.
PickInBoard ==
  /\ board.draft # Nothing
  /\ \/ \E f \in FilterFields, w \in Ids(board.draft.body) \cup {Nothing} :
          board' = [board EXCEPT !.active = @ \cup {[field |-> f, source |-> w]}]
     \/ board.active # {} /\ board' = [board EXCEPT !.active = {}]
  /\ Local
\* The checkboxes.
ToggleKeep == board' = [board EXCEPT !.keep = ~@] /\ Local
ToggleLock ==
  /\ board.publication # Nothing
  /\ board' = [board EXCEPT !.lock = ~@]
  /\ Local

-----------------------------------------------------------------------------
(* Saving, publishing and sharing.                                         *)

\* scopedFilters: a filter is pinned to the charts that understand it with all
\* their queries, except the one it was picked in.
PinnedTo(f) ==
  {w.id : w \in {board.draft.body.widgets[i] : i \in 1..Len(board.draft.body.widgets)} \cap
    {x \in {board.draft.body.widgets[i] : i \in 1..Len(board.draft.body.widgets)} :
       /\ x.chart # Nothing
       /\ f \in Picked => f.source # x.id
       /\ f \in Pinned => x.id \in f.targets \/ f.targets = {}
       /\ \A d \in ChartQueries[x.chart] : <<f.field, d>> \in Understood}}
ScopedFilters == {[field |-> f.field, targets |-> PinnedTo(f)] : f \in board.active}
\* A filter that no chart understands is an error, and nothing is sent.
MayPin == \A f \in board.active : PinnedTo(f) # {}

\* The button needs a name and a widget.
MaySaveBoard ==
  /\ board.draft # Nothing /\ ~board.busy
  /\ board.draft.named /\ board.draft.body.widgets # <<>>
\* Mutant of SaveRevision: the revision is the one of the catalog.
SaveRevisionOfCatalog ==
  IF board.known[board.draft.id] = Nothing THEN 0 ELSE board.known[board.draft.id].revision
SaveRevision == board.draft.revision
SaveBoard ==
  /\ MaySaveBoard /\ (board.keep => MayPin)
  /\ BoardGesture /\ board' = [board EXCEPT !.busy = TRUE]
  /\ Send("save", [id |-> board.draft.id, revision |-> SaveRevision, from |-> board.draft.revision,
                   body |-> [board.draft.body EXCEPT !.defaults = IF board.keep THEN ScopedFilters
                                                                  ELSE @]])
\* The button of deletion asks for a confirmation.
AskDelete ==
  /\ board.draft # Nothing /\ board.draft.revision > 0
  /\ board' = [board EXCEPT !.confirm = ~@]
  /\ Local
ConfirmDelete ==
  /\ board.confirm
  /\ BoardGesture /\ board' = [board EXCEPT !.busy = TRUE]
  /\ Send("delete", [id |-> board.draft.id, revision |-> board.draft.revision])
PublishBoard ==
  /\ board.draft # Nothing /\ board.draft.revision > 0 /\ ~board.busy
  /\ BoardGesture /\ board' = [board EXCEPT !.busy = TRUE]
  /\ Send("publish", [id |-> board.draft.id, revision |-> board.draft.revision])
LoadPublications ==
  /\ board.draft # Nothing /\ board.draft.revision > 0
  /\ BoardGesture /\ UNCHANGED board /\ Send("publications", board.draft.id)
ChoosePublication ==
  /\ BoardGesture /\ UNCHANGED board
  /\ \E p \in board.publications : Send("publication", p)
CreateLink ==
  /\ board.publication # Nothing /\ ~board.busy /\ (board.lock => MayPin)
  /\ BoardGesture /\ board' = [board EXCEPT !.busy = TRUE]
  /\ Send("share", [publication |-> board.publication,
                    filters |-> IF board.lock THEN ScopedFilters ELSE {}])
RefreshShares ==
  /\ board.publication # Nothing
  /\ BoardGesture /\ UNCHANGED board /\ Send("shares", board.publication)
\* The button of a share that is not revoked.
RevokeLink ==
  /\ board.publication # Nothing
  /\ BoardGesture /\ UNCHANGED board
  /\ \E s \in board.shares : ~s.revoked /\ Send("revoke", s)

-----------------------------------------------------------------------------
(* The server, external to this component.                                 *)

\* The answer is on its way: a request is served once.
Serve(op, state, answer) ==
  /\ backend' = state
  /\ ops' = (ops \ {op}) \cup {[op EXCEPT !.stage = "served", !.answer = answer]}
  /\ UNCHANGED <<board, boardSteps>>
Refuse(op) ==
  /\ ops' = (ops \ {op}) \cup {[op EXCEPT !.stage = "failed"]}
  /\ UNCHANGED <<board, backend, boardSteps>>
Sent(kind) == {op \in ops : op.kind = kind /\ op.stage = "sent"}
RevisionOf(b) == IF backend.saved[b] = Nothing THEN 0 ELSE backend.saved[b].revision
\* Every target of a control, a selection or a default filter is a widget.
Valid(body) ==
  /\ body.control = Nothing \/ body.control \subseteq Ids(body)
  /\ \A i \in 1..Len(body.widgets) : body.widgets[i].targets \subseteq Ids(body)
  /\ \A f \in body.defaults : f \in Pinned => f.targets \subseteq Ids(body)

ServeSave ==
  \E op \in Sent("save") :
    IF op.arg.revision = RevisionOf(op.arg.id) /\ Valid(op.arg.body)
    THEN LET value == [revision |-> op.arg.revision + 1, from |-> op.arg.from,
                       body |-> op.arg.body]
         IN  Serve(op, [backend EXCEPT !.saved[op.arg.id] = value], value)
    ELSE Refuse(op)
ServeDelete ==
  \E op \in Sent("delete") :
    IF op.arg.revision = RevisionOf(op.arg.id)
    THEN Serve(op, [backend EXCEPT !.saved[op.arg.id] = Nothing], Nothing)
    ELSE Refuse(op)
ServePublish ==
  \E op \in Sent("publish") :
    IF op.arg.revision = RevisionOf(op.arg.id) /\ Len(backend.pubs) < Publications
    THEN Serve(op, [backend EXCEPT !.pubs = Append(@, [id |-> op.arg.id, revision |-> op.arg.revision,
                                                       body |-> backend.saved[op.arg.id].body])],
               Len(backend.pubs) + 1)
    ELSE Refuse(op)
SharesOf(p) == {s \in backend.shares : s.publication = p}
ServeShare ==
  \E op \in Sent("share") :
    LET s == [publication |-> op.arg.publication, revoked |-> FALSE, filters |-> op.arg.filters]
    IN  IF \A f \in op.arg.filters : f.targets \subseteq Ids(backend.pubs[s.publication].body)
        THEN Serve(op, [backend EXCEPT !.shares = @ \cup {s}], s)
        ELSE Refuse(op)
ServeRevoke ==
  \E op \in Sent("revoke") :
    IF op.arg \in backend.shares
    THEN Serve(op, [backend EXCEPT !.shares = (@ \ {op.arg}) \cup {[op.arg EXCEPT !.revoked = TRUE]}],
               op.arg)
    ELSE Refuse(op)
ServeRead ==
  \/ \E op \in Sent("list") : Serve(op, backend, backend.saved)
  \/ \E op \in Sent("publications") :
       Serve(op, backend, {p \in 1..Len(backend.pubs) : backend.pubs[p].id = op.arg})
  \/ \E op \in Sent("publication") \cup Sent("shares") : Serve(op, backend, SharesOf(op.arg))

\* Somebody else saves the dashboard, made from the revision it has.
OtherEditor ==
  /\ BoardGesture
  /\ \E b \in Boards :
       /\ backend.saved[b] # Nothing
       /\ backend' = [backend EXCEPT !.saved[b] =
            [revision |-> RevisionOf(b) + 1, from |-> RevisionOf(b),
             body |-> [backend.saved[b].body EXCEPT !.control = {}]]]
  /\ UNCHANGED <<board, ops>>

-----------------------------------------------------------------------------
(* Answers.                                                                *)

Answer(kind) == {op \in ops : op.kind = kind /\ op.stage = "served"}
Took(op, screen) ==
  /\ ops' = ops \ {op}
  /\ board' = screen
  /\ UNCHANGED <<backend, boardSteps>>

\* The first load opens the first dashboard.
ListAnswered ==
  \E op \in Answer("list") :
    LET known == [board EXCEPT !.known = op.answer, !.busy = FALSE, !.first = TRUE]
        listed == {b \in Boards : op.answer[b] # Nothing}
    IN  IF board.first \/ listed = {} THEN Took(op, known)
        ELSE LET b == CHOOSE c \in listed : TRUE
             IN  Took(op, [known EXCEPT !.active = op.answer[b].body.defaults,
                             !.draft = [id |-> b, named |-> TRUE, revision |-> op.answer[b].revision,
                                        body |-> op.answer[b].body]])
\* The draft becomes what was saved, edits made meanwhile are gone.
SaveAnswered ==
  \E op \in Answer("save") :
    Took(op, [board EXCEPT !.busy = FALSE, !.known[op.arg.id] = op.answer,
                !.draft = [id |-> op.arg.id, named |-> TRUE, revision |-> op.answer.revision,
                           body |-> op.answer.body]])
DeleteAnswered ==
  \E op \in Answer("delete") :
    Took(op, [Open(Nothing) EXCEPT !.busy = FALSE, !.known[op.arg.id] = Nothing])
PublishAnswered ==
  \E op \in Answer("publish") :
    Took(op, [board EXCEPT !.busy = FALSE, !.publication = op.answer,
                           !.publications = @ \cup {op.answer}, !.shares = {}])
PublicationsAnswered ==
  \E op \in Answer("publications") : Took(op, [board EXCEPT !.publications = op.answer])
PublicationAnswered ==
  \E op \in Answer("publication") :
    Took(op, [board EXCEPT !.publication = op.arg, !.shares = op.answer])
ShareAnswered ==
  \E op \in Answer("share") :
    Took(op, [board EXCEPT !.busy = FALSE, !.shares = @ \cup {op.answer}])
SharesAnswered ==
  \E op \in Answer("shares") : Took(op, [board EXCEPT !.shares = op.answer])
RevokeAnswered ==
  \E op \in Answer("revoke") :
    Took(op, [board EXCEPT !.shares = {IF s = op.arg THEN [s EXCEPT !.revoked = TRUE] ELSE s :
                                       s \in board.shares}])
\* An error is shown. Requests that set busy reset it.
OpFailed ==
  \E op \in ops :
    /\ op.stage = "failed"
    /\ Took(op, IF op.kind \in {"list", "save", "delete", "publish", "share"}
                THEN [board EXCEPT !.busy = FALSE] ELSE board)

BuilderNext ==
  \/ ChooseBoard \/ NewBoard \/ ReloadBoard \/ ReloadLists \/ NameBoard
  \/ AddWidget \/ MoveWidget \/ RemoveWidget \/ ResizeWidget \/ TargetWidget
  \/ AddControl \/ TargetControl \/ RemoveControl \/ PickInBoard \/ ToggleKeep \/ ToggleLock
  \/ SaveBoard \/ AskDelete \/ ConfirmDelete \/ PublishBoard \/ LoadPublications
  \/ ChoosePublication \/ CreateLink \/ RefreshShares \/ RevokeLink
  \/ ServeSave \/ ServeDelete \/ ServePublish \/ ServeShare \/ ServeRevoke \/ ServeRead
  \/ OtherEditor
  \/ ListAnswered \/ SaveAnswered \/ DeleteAnswered \/ PublishAnswered
  \/ PublicationsAnswered \/ PublicationAnswered \/ ShareAnswered \/ SharesAnswered
  \/ RevokeAnswered \/ OpFailed

BuilderSpec == BuilderInit /\ [][BuilderNext]_builderVars

-----------------------------------------------------------------------------
\* The widgets of a draft lie within the twelve columns and none covers
\* another, however they were added, moved, resized and removed
\* (dashboard-filters.ts:86).
LayoutFits == board.draft # Nothing => LaidOut(board.draft.body.widgets)

\* What is saved was edited from the revision it replaces: nobody else's save
\* is overwritten unseen, whatever was reloaded meanwhile.
SavesSeen ==
  \A b \in Boards : backend.saved[b] # Nothing =>
    backend.saved[b].from + 1 = backend.saved[b].revision

=============================================================================
