--------------------------- MODULE RelatedRecords ---------------------------
(***************************************************************************)
(* The record that is selected in the table panel, the rows of other       *)
(* tables that refer to it, and the panels opened on those, beside the     *)
(* table panel of DataInspector (inspector/RecordPanels.tsx, and the part  *)
(* of DataInspector.tsx that registers panels).                            *)
(***************************************************************************)
EXTENDS DataInspector

CONSTANTS
  Records,  \* rows of another table, each related to one row of this one
  Owner     \* the row each refers to

ASSUME RecordConstants == Owner \in [Records -> Rows]

VARIABLES
  stored,    \* the related table: the value of each record
  selected,  \* selectedGridRowId, of a row with a key
  related,   \* relatedGroups: the rows listed, and whose they are
  listing,   \* the read of the effect whose isActive still holds
  listed,    \* whether isLoadingRelatedRows is off
  panels,    \* inspectedRelatedRecords, with the state of their components
  writes     \* commits of the panels

recordVars == <<stored, selected, related, listing, listed, panels, writes>>
allVars == <<vars, recordVars>>

-----------------------------------------------------------------------------
\* A panel: its row's value, draftValues, draftChanges, its dialog, and
\* whether the table's metadata came.
Panel == [row: Values, value: Values, change: Values \cup {None},
          asking: BOOLEAN, meta: {"loading", "ready", "failed"}]
Write == [kind: {"update", "delete"}, value: Values \cup {None},
          stage: {"sent", "done", "refused"}]
List == [owner: Rows \cup {None}, rows: SUBSET (Records \X Values)]
NoList == [owner |-> None, rows |-> {}]

RecordsTypeOK ==
  /\ TypeOK
  /\ stored \in [Records -> Values \cup {None}]
  /\ selected \in Rows \cup {None}
  /\ related \in List
  /\ listing \in {None} \cup [owner: Rows, stage: {"asked", "read"}, list: List]
  /\ listed \in BOOLEAN
  /\ panels \in [Records -> Panel \cup {None}]
  /\ writes \in [Records -> Write \cup {None}]

RecordsInit ==
  /\ Init
  /\ stored \in [Records -> Values]
  /\ selected = None /\ related = NoList /\ listing = None /\ listed = TRUE
  /\ panels = [r \in Records |-> None]
  /\ writes = [r \in Records |-> None]

\* Mutant of Relist: the answer in flight is still taken when nothing is
\* selected any more.
RelistUncancelled(row) ==
  IF row = None
  THEN related' = NoList /\ UNCHANGED listing /\ listed' = TRUE
  ELSE /\ listing' = [owner |-> row, stage |-> "asked", list |-> NoList]
       /\ listed' = FALSE
       /\ UNCHANGED related

\* The effect that reads the related rows runs when the selected row is
\* another one, when the page or its drafts change under it, and on refresh.
Relist(row) ==
  IF row = None
  THEN related' = NoList /\ listing' = None /\ listed' = TRUE
  ELSE /\ listing' = [owner |-> row, stage |-> "asked", list |-> NoList]
       /\ listed' = FALSE
       /\ UNCHANGED related

\* The row of the page that is selected; a row that is not on the page is
\* nobody's record.
OnPage(row, page) == IF row # None /\ page.rows[row] # None THEN row ELSE None

-----------------------------------------------------------------------------
\* A click on a row; closing the panel deselects it.
SelectRow ==
  /\ Gesture
  /\ \E r \in Shown \cup {None} :
       r # selected /\ selected' = r /\ Relist(r)
  /\ UNCHANGED <<shown, requests, server, save, others, history, stored, panels, writes>>

\* Mutant of ReadRelated: records that are gone are listed.
ReadRelatedAll ==
  /\ listing # None /\ listing.stage = "asked"
  /\ listing' = [listing EXCEPT
       !.stage = "read",
       !.list = [owner |-> listing.owner, rows |-> {<<r, stored[r]>> : r \in Records}]]
  /\ UNCHANGED <<vars, stored, selected, related, listed, panels, writes>>

ReadRelated ==
  /\ listing # None /\ listing.stage = "asked"
  /\ listing' = [listing EXCEPT
       !.stage = "read",
       !.list = [owner |-> listing.owner,
                 rows |-> {<<r, stored[r]>> : r \in {x \in Records :
                             Owner[x] = listing.owner /\ stored[x] # None}}]]
  /\ UNCHANGED <<vars, stored, selected, related, listed, panels, writes>>

RelatedAnswered ==
  /\ listing # None /\ listing.stage = "read"
  /\ related' = listing.list
  /\ listing' = None /\ listed' = TRUE
  /\ UNCHANGED <<vars, stored, selected, panels, writes>>

RelatedFailed ==
  /\ listing # None
  /\ Other
  /\ related' = NoList
  /\ listing' = None /\ listed' = TRUE
  /\ UNCHANGED <<shown, requests, server, save, gestures, history, stored, selected, panels, writes>>

\* RelatedRowsPanel: a loader instead of the rows while they are read.
Clickable == IF listed THEN related.rows ELSE {}

\* A row of the list is opened.  When it is open already it gets the row of
\* the list, and its component keeps its own values.
InspectRelated ==
  /\ Gesture
  /\ \E p \in Clickable :
       panels' = [panels EXCEPT ![p[1]] =
                    IF @ = None
                    THEN [row |-> p[2], value |-> p[2], change |-> None, asking |-> FALSE,
                          meta |-> "loading"]
                    ELSE [@ EXCEPT !.row = p[2]]]
  /\ UNCHANGED <<shown, requests, server, save, others, history, stored, selected, related,
                 listing, listed, writes>>

\* The panel's own read of the table's columns and keys.
MetadataAnswered ==
  /\ \E r \in Records, m \in {"ready", "failed"} :
       /\ panels[r] # None /\ panels[r].meta = "loading"
       /\ panels' = [panels EXCEPT ![r].meta = m]
  /\ UNCHANGED <<vars, stored, selected, related, listing, listed, writes>>

\* The panel's fields and buttons: its dialog covers them while it is open,
\* and they are disabled while it writes.
FieldsOpen(r) == panels[r] # None /\ ~panels[r].asking /\ writes[r] = None

\* handleFieldChange: a value that equals the row's is no change.
ChangeField ==
  /\ Gesture
  /\ \E r \in Records, v \in Values :
       /\ FieldsOpen(r)
       /\ v # panels[r].value
       /\ panels' = [panels EXCEPT ![r].value = v,
                                   ![r].change = IF v = panels[r].row THEN None ELSE v]
  /\ UNCHANGED <<shown, requests, server, save, others, history, stored, selected, related,
                 listing, listed, writes>>

\* The panels whose buttons Discard and Save are enabled.
Changed == {r \in Records : FieldsOpen(r) /\ panels[r].change # None}

DiscardField ==
  /\ Gesture
  /\ \E r \in Changed :
       panels' = [panels EXCEPT ![r].value = panels[r].row, ![r].change = None]
  /\ UNCHANGED <<shown, requests, server, save, others, history, stored, selected, related,
                 listing, listed, writes>>

\* The dialog Delete record, which covers the page while it is open.
AskDelete ==
  /\ Gesture
  /\ \E r \in Records :
       /\ panels[r] # None /\ writes[r] = None
       /\ panels' = [panels EXCEPT ![r].asking = ~panels[r].asking]
  /\ UNCHANGED <<shown, requests, server, save, others, history, stored, selected, related,
                 listing, listed, writes>>

\* handleSave and handleDelete of a panel, each with one operation.
SendRecord ==
  /\ \E r \in Records :
       /\ panels[r] # None /\ writes[r] = None
       /\ \/ /\ r \in Changed
             /\ writes' = [writes EXCEPT ![r] = [kind |-> "update", value |-> panels[r].change,
                                                  stage |-> "sent"]]
          \/ /\ panels[r].asking
             /\ writes' = [writes EXCEPT ![r] = [kind |-> "delete", value |-> None,
                                                  stage |-> "sent"]]
  /\ UNCHANGED <<vars, stored, selected, related, listing, listed, panels>>

\* Another user deletes a record that is listed, or open, here.
DeleteElsewhere ==
  /\ Other
  /\ \E r \in Records : stored[r] # None /\ stored' = [stored EXCEPT ![r] = None]
  /\ UNCHANGED <<shown, requests, server, save, gestures, history, selected, related, listing,
                 listed, panels, writes>>

RecordServed ==
  /\ \E r \in Records :
       /\ writes[r] # None /\ writes[r].stage = "sent"
       /\ IF stored[r] = None
          THEN writes' = [writes EXCEPT ![r].stage = "refused"] /\ UNCHANGED stored
          ELSE /\ stored' = [stored EXCEPT ![r] = writes[r].value]
               /\ writes' = [writes EXCEPT ![r].stage = "done"]
  /\ UNCHANGED <<vars, selected, related, listing, listed, panels>>

\* onSaved: the panel, if it is still there, shows what it saved, and the
\* list of the selected record is read again.
RecordSaved ==
  /\ \E r \in Records :
       /\ writes[r] # None /\ writes[r].stage = "done" /\ writes[r].kind = "update"
       /\ panels' = [panels EXCEPT ![r] =
                       IF @ = None THEN None
                       ELSE [@ EXCEPT !.row = writes[r].value, !.value = writes[r].value,
                                      !.change = None]]
       /\ writes' = [writes EXCEPT ![r] = None]
  /\ Relist(OnPage(selected, grid))
  /\ UNCHANGED <<vars, stored, selected>>

\* onDeleted: the panel closes, and both lists and the table are read again,
\* whatever edits are pending there.
RecordDeleted ==
  /\ \E r \in Records :
       /\ writes[r] # None /\ writes[r].stage = "done" /\ writes[r].kind = "delete"
       /\ panels' = [panels EXCEPT ![r] = None]
       /\ writes' = [writes EXCEPT ![r] = None]
  /\ Render(draft, search, filter, TRUE)
  /\ Relist(OnPage(selected, grid))
  /\ UNCHANGED <<grid, server, save, gestures, others, history, stored, selected>>

RecordFailed ==
  /\ \E r \in Records :
       /\ writes[r] # None /\ writes[r].stage = "refused"
       /\ writes' = [writes EXCEPT ![r] = None]
  /\ UNCHANGED <<vars, stored, selected, related, listing, listed, panels>>

ClosePanel ==
  /\ Gesture
  /\ \E r \in Records :
       /\ panels[r] # None /\ ~panels[r].asking
       /\ panels' = [panels EXCEPT ![r] = None]
  /\ UNCHANGED <<shown, requests, server, save, others, history, stored, selected, related,
                 listing, listed, writes>>

\* A step of the table panel.  A new page, or new drafts on it, make the
\* selected row a new object and its related rows are read again; a panel
\* that is mounted anew has none of this.
TableStep ==
  /\ Next
  /\ IF grid' = NoPage
     THEN selected' = None /\ panels' = [r \in Records |-> None] /\ Relist(None)
     ELSE /\ selected' = selected
          /\ IF selected # None /\ (grid' # grid \/ draft' # draft)
             THEN Relist(OnPage(selected, grid'))
             ELSE UNCHANGED <<related, listing, listed>>
          /\ UNCHANGED panels
  /\ UNCHANGED <<stored, writes>>

RecordStep ==
  \/ SelectRow \/ ReadRelated \/ RelatedAnswered \/ RelatedFailed
  \/ InspectRelated \/ MetadataAnswered \/ ChangeField \/ DiscardField
  \/ AskDelete \/ SendRecord \/ DeleteElsewhere \/ RecordServed \/ RecordSaved \/ RecordDeleted \/ RecordFailed
  \/ ClosePanel

RecordsSpec == RecordsInit /\ [][TableStep \/ RecordStep]_allVars

-----------------------------------------------------------------------------
\* The related rows that can be clicked belong to the selected record of the
\* page shown, whatever reads were under way when it was selected; none are
\* listed when nothing is selected.
RelatedFits ==
  Clickable # {} => related.owner = OnPage(selected, grid)

=============================================================================
