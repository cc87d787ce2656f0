--------------------------- MODULE DataInspector ---------------------------
(***************************************************************************)
(* The table panel of the frontend: a page of a table's rows, the edits    *)
(* that are pending on it, and the requests that read pages and commit     *)
(* edits (features/inspector/DataInspector.tsx).                           *)
(*                                                                         *)
(* A gesture of the user runs its handler and the effects that follow from *)
(* it in one step.  A request is asked for in one step, served by the      *)
(* database in a second and answered in a third, and anything may happen   *)
(* in between.  Rows are numbered by primary key, which is also the order  *)
(* of a page.                                                              *)
(***************************************************************************)
EXTENDS Naturals, FiniteSets

CONSTANTS
  Rows,         \* primary keys, a set of naturals
  Columns,      \* editable columns
  Values,       \* values of a cell
  Drafts,       \* identities of new rows (crypto.randomUUID)
  Terms,        \* searches that can be typed
  Filters,      \* filters of saved views and analytics, JSON texts
  Hits,         \* the rows each search or filter matches
  NoTerm,       \* the empty search
  NoFilter,     \* the filter null
  PageSize,     \* pageSize, 100 in the code
  PageSlots,    \* page requests in flight at once, a bound
  None,         \* nothing there
  Tables,       \* the contents the table may have at first
  MaxGestures,  \* gestures of the user in a behaviour, a bound
  MaxOthers     \* writes of other programs, lost answers and new features, a bound

ASSUME InspectorConstants ==
  /\ Rows \subseteq Nat /\ IsFiniteSet(Rows)
  /\ NoTerm \in Terms /\ NoFilter \in Filters
  /\ Hits \in [Terms \cup Filters -> SUBSET Rows]
  /\ None \notin Values /\ Values # {}
  /\ PageSize \in Nat \ {0} /\ MaxGestures \in Nat /\ MaxOthers \in Nat

VARIABLES
  table,     \* the rows of the database table
  version,   \* how often the table was written
  grid,      \* rowsState: the page shown
  draft,     \* draftUpdates, draftDeletes, draftInserts
  search,    \* searchInput and appliedSearch
  filter,    \* effectiveTableFilter, workspaceFilterError, acceptedTableFilter
  load,      \* the read of the load effect whose isActive still holds
  pages,     \* the reads of handlePageChange
  loading,   \* isLoadingRows
  rowsError, \* whether the last read failed
  save,      \* the commit of handleSaveChanges
  gestures, others,
  acked,     \* history: the version of the last commit that was acknowledged
  inserted,  \* history: how often each new row was inserted
  lost,      \* history: how often the answer was lost of a commit that holds it
  overtaken  \* history: a page asked for before the last load came after it

shown == <<grid, draft, search, filter>>
requests == <<load, pages, loading, rowsError>>
server == <<table, version>>
history == <<acked, inserted, lost, overtaken>>
vars == <<shown, requests, server, save, gestures, others, history>>

-----------------------------------------------------------------------------
Row == [Columns -> Values]
ASSUME StartingTables == Tables \subseteq [Rows -> Row \cup {None}]
Patch == [Columns -> Values \cup {None}]
NoPatch == [c \in Columns |-> None]

\* Pending edits, or the operations of a commit.
Edits == [updates: [Rows -> Patch], deletes: SUBSET Rows, inserts: SUBSET Drafts]
NoEdits == [updates |-> [r \in Rows |-> NoPatch], deletes |-> {}, inserts |-> {}]

Query == [term: Terms, filter: Filters]
\* rowsState, with the query and the version it answers; `set' is its presence.
Page == [rows: [Rows -> Row \cup {None}], offset: Nat, more: BOOLEAN, set: BOOLEAN,
         query: Query, at: Nat]
NoPage == [rows |-> [r \in Rows |-> None], offset |-> 0, more |-> FALSE, set |-> FALSE,
           query |-> [term |-> NoTerm, filter |-> NoFilter], at |-> 0]

\* A read; `old' says that a load was asked for after it.
Read == [query: Query, offset: Nat, stage: {"asked", "read"}, page: Page, old: BOOLEAN]
Ask(offset, term, accepted) ==
  [query |-> [term |-> term, filter |-> accepted], offset |-> offset,
   stage |-> "asked", page |-> NoPage, old |-> FALSE]

\* A commit; `live' says that the panel which sent it is still mounted.
Commit == [ops: Edits, stage: {"sent", "done", "refused"}, live: BOOLEAN, at: Nat]

ASSUME NothingApart == None \notin Read \cup Commit

Shown == {r \in Rows : grid.rows[r] # None}
Updated(e) == {r \in Rows : e.updates[r] # NoPatch}
\* hasDirtyChanges
Dirty(e) == e # NoEdits
\* isSavingChanges
Saving == save # None /\ save.live

TypeOK ==
  /\ table \in [Rows -> Row \cup {None}] /\ version \in Nat
  /\ grid \in Page
  /\ draft \in Edits
  /\ search \in [input: Terms, applied: Terms]
  /\ filter \in [effective: Filters, failing: BOOLEAN, accepted: Filters]
  /\ load \in Read \cup {None}
  /\ pages \in [PageSlots -> Read \cup {None}]
  /\ loading \in BOOLEAN /\ rowsError \in BOOLEAN
  /\ save \in Commit \cup {None}
  /\ gestures \in 0..MaxGestures /\ others \in 0..MaxOthers
  /\ acked \in Nat /\ {inserted, lost} \subseteq [Drafts -> Nat]
  /\ overtaken \in BOOLEAN

\* The component is mounted: the accept effect takes the filter of the view,
\* and the effect on the table's name, which runs after it, takes it away.
Init ==
  /\ table \in Tables
  /\ version = 1
  /\ grid = NoPage /\ draft = NoEdits
  /\ search = [input |-> NoTerm, applied |-> NoTerm]
  /\ filter \in [effective: Filters, failing: {FALSE}, accepted: {NoFilter}]
  /\ load = Ask(0, NoTerm, NoFilter)
  /\ pages = [s \in PageSlots |-> None]
  /\ loading = TRUE /\ rowsError = FALSE
  /\ save = None
  /\ gestures = 0 /\ others = 0
  /\ acked = 0 /\ inserted = [d \in Drafts |-> 0]
  /\ lost = [d \in Drafts |-> 0] /\ overtaken = FALSE

-----------------------------------------------------------------------------
\* window.confirm: asked only when there is something to lose.
Confirmed(answer) == Dirty(draft) => answer

\* Mutant of Accepts: pending edits do not hold the filter back.
AcceptsAlways(d, f) == IF f.failing THEN f ELSE [f EXCEPT !.accepted = f.effective]

\* The accept effect: it runs when what it reads has changed, and takes the
\* filter in force unless edits are pending or the filter cannot be applied.
Accepts(d, f) ==
  IF \/ Dirty(d) # Dirty(draft)
     \/ <<f.effective, f.failing, f.accepted>> #
        <<filter.effective, filter.failing, filter.accepted>>
  THEN IF Dirty(d) \/ f.failing THEN f ELSE [f EXCEPT !.accepted = f.effective]
  ELSE f

\* Mutant of Reload: a refresh by itself reads nothing.
ReloadOnChange(term, f, refresh) ==
  IF term # search.applied \/ f.accepted # filter.accepted
  THEN /\ load' = Ask(0, term, f.accepted)
       /\ loading' = TRUE /\ rowsError' = FALSE
       /\ UNCHANGED pages
  ELSE UNCHANGED requests

\* The load effect: a new search, filter or refresh makes the answer of the
\* load in flight unwanted and asks for the first page, without touching the
\* drafts.  With a filter that cannot be applied it asks for nothing.
Reload(term, f, refresh) ==
  IF refresh \/ term # search.applied \/ f.accepted # filter.accepted
             \/ f.failing # filter.failing
  THEN IF f.failing
       THEN load' = None /\ UNCHANGED <<pages, loading, rowsError>>
       ELSE /\ load' = Ask(0, term, f.accepted)
            /\ pages' = [s \in PageSlots |->
                           IF pages[s] = None THEN None ELSE [pages[s] EXCEPT !.old = TRUE]]
            /\ loading' = TRUE /\ rowsError' = FALSE
  ELSE UNCHANGED requests

\* A handler leaves drafts d, search s and filter f; then the effects run.
Render(d, s, f, refresh) ==
  /\ draft' = d
  /\ search' = s
  /\ filter' = Accepts(d, f)
  /\ Reload(s.applied, filter', refresh)

Gesture == gestures < MaxGestures /\ gestures' = gestures + 1
NoGesture == UNCHANGED gestures
Other == others < MaxOthers /\ others' = others + 1

-----------------------------------------------------------------------------
\* The search box; its deferred value is applied by an effect of its own.
TypeSearch ==
  /\ Gesture
  /\ \E t \in Terms : t # search.input /\ search' = [search EXCEPT !.input = t]
  /\ UNCHANGED <<grid, draft, filter, requests, server, save, others, history>>

ApplySearch ==
  /\ search.input # search.applied
  /\ \E answer \in BOOLEAN :
       IF Confirmed(answer)
       THEN Render(NoEdits, [search EXCEPT !.applied = search.input], filter, FALSE)
       ELSE Render(draft, [search EXCEPT !.input = search.applied], filter, FALSE)
  /\ NoGesture
  /\ UNCHANGED <<grid, server, save, others, history>>

\* A saved view is edited or removed, or the analytics filters change: the
\* filter in force is another one, or one that cannot be applied here.
ChangeFilter ==
  /\ Gesture
  /\ \E e \in Filters, failing \in BOOLEAN :
       /\ <<e, failing>> # <<filter.effective, filter.failing>>
       /\ Render(draft, search, [filter EXCEPT !.effective = e, !.failing = failing], FALSE)
  /\ UNCHANGED <<grid, server, save, others, history>>

\* pendingTableFilterChange
FilterPending == Dirty(draft) /\ filter.accepted # filter.effective

ApplyPendingFilter ==
  /\ FilterPending /\ ~filter.failing
  /\ Gesture
  /\ Render(NoEdits, search, [filter EXCEPT !.accepted = filter.effective], FALSE)
  /\ UNCHANGED <<grid, server, save, others, history>>

RefreshRows ==
  /\ Gesture
  /\ Render(NoEdits, search, filter, TRUE)
  /\ UNCHANGED <<grid, server, save, others, history>>

\* A feature was added on the map, a related record was deleted, or the
\* connection was tested anew: the first page is read again as it is.
RefreshFromOutside ==
  /\ Other
  /\ Render(draft, search, filter, TRUE)
  /\ NoGesture
  /\ UNCHANGED <<grid, server, save, history>>

\* The offsets of the buttons Previous and Next.
Nearby == (IF grid.offset = 0 THEN {}
           ELSE {IF grid.offset < PageSize THEN 0 ELSE grid.offset - PageSize})
          \cup (IF grid.more THEN {grid.offset + PageSize} ELSE {})

\* The buttons are there with a page, and disabled while rows are read.
MayPage == grid.set /\ ~loading

\* handlePageChange: its answer is taken whenever it comes.
ChangePage ==
  /\ MayPage
  /\ Gesture
  /\ \E offset \in Nearby, s \in PageSlots :
       /\ pages[s] = None
       /\ draft' = NoEdits
       /\ filter' = Accepts(NoEdits, filter)
       /\ LET page == [Ask(offset, search.applied, filter.accepted) EXCEPT
                         !.old = filter'.accepted # filter.accepted]
          IN  /\ pages' = [x \in PageSlots |->
                   IF x = s THEN page
                   ELSE IF pages[x] = None \/ ~page.old THEN pages[x]
                   ELSE [pages[x] EXCEPT !.old = TRUE]]
              /\ load' = IF page.old THEN Ask(0, search.applied, filter'.accepted) ELSE load
  /\ loading' = TRUE /\ rowsError' = FALSE
  /\ UNCHANGED <<grid, search, server, save, others, history>>

-----------------------------------------------------------------------------
(* Edits.                                                                  *)

\* The rows whose cells the record editor lets be changed.
CanEdit == IF Saving THEN {} ELSE Shown \ draft.deletes

\* handleExistingCellChange: a value that equals the one shown is no edit.
EditCell ==
  /\ Gesture
  /\ \E r \in CanEdit, c \in Columns, v \in Values :
       LET value == IF grid.rows[r][c] = v THEN None ELSE v
       IN  /\ draft.updates[r][c] # value
           /\ Render([draft EXCEPT !.updates[r][c] = value], search, filter, FALSE)
  /\ UNCHANGED <<grid, server, save, others, history>>

\* The rows with an icon to mark or restore them, and those with one to
\* remove them.
Toggleable == Shown
Removable == draft.inserts

\* handleToggleDeleteExistingRow: the icon of a row is not disabled by a save.
ToggleDelete ==
  /\ Gesture
  /\ \E r \in Toggleable :
       Render([draft EXCEPT !.updates[r] = NoPatch,
                            !.deletes = IF r \in @ THEN @ \ {r} ELSE @ \cup {r}],
              search, filter, FALSE)
  /\ UNCHANGED <<grid, server, save, others, history>>

AddDraftRow ==
  /\ grid.set
  /\ Gesture
  /\ \E d \in Drafts \ draft.inserts :
       /\ inserted[d] = 0 /\ (save # None => d \notin save.ops.inserts)
       /\ Render([draft EXCEPT !.inserts = @ \cup {d}], search, filter, FALSE)
  /\ UNCHANGED <<grid, server, save, others, history>>

RemoveDraftRow ==
  /\ Gesture
  /\ \E d \in Removable :
       Render([draft EXCEPT !.inserts = @ \ {d}], search, filter, FALSE)
  /\ UNCHANGED <<grid, server, save, others, history>>

\* The button Discard is disabled while changes are saved.
MayDiscard == Dirty(draft) /\ ~Saving

DiscardChanges ==
  /\ MayDiscard
  /\ Gesture
  /\ Render(NoEdits, search, filter, FALSE)
  /\ UNCHANGED <<grid, server, save, others, history>>

-----------------------------------------------------------------------------
(* The database.                                                           *)

\* The rows a query matches, and the page of them at an offset.
Matching(q) == {r \in Rows : table[r] # None /\ r \in Hits[q.term] \cap Hits[q.filter]}
Position(r, q) == Cardinality({o \in Matching(q) : o <= r})
PageAt(offset, q) ==
  [rows |-> [r \in Rows |->
               IF r \in Matching(q) /\ Position(r, q) \in offset + 1..offset + PageSize
               THEN table[r] ELSE None],
   offset |-> offset, more |-> Cardinality(Matching(q)) > offset + PageSize,
   set |-> TRUE, query |-> q, at |-> version]

\* A batch is applied in one transaction, and refused when a row it changes
\* is gone or a new row finds no key.
Applies(e) ==
  /\ \A r \in Updated(e) \cup e.deletes : table[r] # None
  /\ Cardinality(e.inserts) <= Cardinality({r \in Rows : table[r] = None})

Merged(row, patch) == [c \in Columns |-> IF patch[c] = None THEN row[c] ELSE patch[c]]

After(e, new) ==
  [r \in Rows |->
     IF r \in new THEN [c \in Columns |-> CHOOSE v \in Values : TRUE]
     ELSE IF r \in e.deletes THEN None
     ELSE IF r \in Updated(e) THEN Merged(table[r], e.updates[r])
     ELSE table[r]]

ReadLoad ==
  /\ load # None /\ load.stage = "asked"
  /\ load' = [load EXCEPT !.stage = "read", !.page = PageAt(load.offset, load.query)]
  /\ UNCHANGED <<shown, pages, loading, rowsError, server, save, gestures, others, history>>

ReadPage ==
  /\ \E s \in PageSlots :
       /\ pages[s] # None /\ pages[s].stage = "asked"
       /\ pages' = [pages EXCEPT ![s].stage = "read",
                                 ![s].page = PageAt(pages[s].offset, pages[s].query)]
  /\ UNCHANGED <<shown, load, loading, rowsError, server, save, gestures, others, history>>

\* The answer of the load whose effect is still the current one.
LoadAnswered ==
  /\ load # None /\ load.stage = "read"
  /\ grid' = load.page
  /\ load' = None /\ loading' = FALSE
  /\ overtaken' = FALSE
  /\ UNCHANGED <<draft, search, filter, pages, rowsError, server, save, gestures, others,
                 acked, inserted, lost>>

LoadFailed ==
  /\ load # None
  /\ Other
  /\ load' = None /\ loading' = FALSE /\ rowsError' = TRUE
  /\ UNCHANGED <<shown, pages, server, save, gestures, history>>

PageAnswered ==
  /\ \E s \in PageSlots :
       /\ pages[s] # None /\ pages[s].stage = "read"
       /\ grid' = pages[s].page
       /\ overtaken' = pages[s].old
       /\ pages' = [pages EXCEPT ![s] = None]
  /\ loading' = FALSE
  /\ UNCHANGED <<draft, search, filter, load, rowsError, server, save, gestures, others,
                 acked, inserted, lost>>

PageFailed ==
  /\ Other
  /\ \E s \in PageSlots :
       /\ pages[s] # None
       /\ pages' = [pages EXCEPT ![s] = None]
  /\ loading' = FALSE /\ rowsError' = TRUE
  /\ UNCHANGED <<shown, load, server, save, gestures, history>>

\* Another program, or another panel, writes a row.
WriteRow ==
  /\ Other
  /\ \E r \in Rows, row \in Row \cup {None} :
       row # table[r] /\ table' = [table EXCEPT ![r] = row]
  /\ version' = version + 1
  /\ UNCHANGED <<shown, requests, save, gestures, history>>

-----------------------------------------------------------------------------
(* Saving.                                                                 *)

\* Every new row, and the edits of the rows on the page shown.
Operations ==
  [updates |-> [r \in Rows |-> IF r \in Shown \ draft.deletes THEN draft.updates[r]
                               ELSE NoPatch],
   deletes |-> draft.deletes \cap Shown,
   inserts |-> draft.inserts]

\* Mutant of MaySave: the button stays enabled.
MaySaveAgain == Dirty(draft)

\* The buttons are disabled while a save is under way.
MaySave == Dirty(draft) /\ ~Saving

\* handleSaveChanges
SaveChanges ==
  /\ grid.set /\ MaySave /\ Operations # NoEdits
  /\ save # None => save.stage # "sent"
  /\ Gesture
  /\ save' = [ops |-> Operations, stage |-> "sent", live |-> TRUE, at |-> 0]
  /\ UNCHANGED <<shown, requests, server, others, history>>

CommitServed ==
  /\ save # None /\ save.stage = "sent"
  /\ \/ /\ Applies(save.ops)
        /\ \E new \in SUBSET {r \in Rows : table[r] = None} :
             /\ Cardinality(new) = Cardinality(save.ops.inserts)
             /\ table' = After(save.ops, new)
        /\ version' = version + 1
        /\ save' = [save EXCEPT !.stage = "done", !.at = version + 1]
        /\ inserted' = [d \in Drafts |->
                          IF d \in save.ops.inserts THEN inserted[d] + 1 ELSE inserted[d]]
     \/ /\ ~Applies(save.ops)
        /\ save' = [save EXCEPT !.stage = "refused"]
        /\ UNCHANGED <<server, inserted>>
  /\ UNCHANGED <<shown, requests, gestures, others, acked, lost, overtaken>>

\* The commit is acknowledged: the drafts are dropped, also those that were
\* made meanwhile, and the first page is read again.
SaveAnswered ==
  /\ save # None /\ save.stage = "done"
  /\ save' = None
  /\ IF save.live
     THEN Render(NoEdits, search, filter, TRUE) /\ acked' = save.at
     ELSE UNCHANGED <<draft, search, filter, requests, acked>>
  /\ UNCHANGED <<grid, server, gestures, others, inserted, lost, overtaken>>

\* The commit was refused, or its answer is lost: the drafts stay.
SaveFailed ==
  /\ save # None
  /\ \/ save.stage = "refused" /\ UNCHANGED <<others, lost>>
     \/ /\ save.stage = "done" /\ Other
        /\ lost' = [d \in Drafts |-> IF d \in save.ops.inserts THEN lost[d] + 1 ELSE lost[d]]
  /\ save' = None
  /\ UNCHANGED <<shown, requests, server, gestures, acked, inserted, overtaken>>

\* Another table is chosen, and this one again: the panel is mounted anew,
\* the drafts are gone, and no answer finds the old panel.
Remount ==
  /\ Gesture
  /\ grid' = NoPage /\ draft' = NoEdits
  /\ search' = [input |-> NoTerm, applied |-> NoTerm]
  /\ filter' = [filter EXCEPT !.accepted = NoFilter]
  /\ load' = IF filter.failing THEN None ELSE Ask(0, NoTerm, NoFilter)
  /\ pages' = [s \in PageSlots |-> None]
  /\ loading' = ~filter.failing /\ rowsError' = FALSE
  /\ save' = IF save = None THEN None ELSE [save EXCEPT !.live = FALSE]
  /\ overtaken' = FALSE
  /\ UNCHANGED <<server, others, acked, inserted, lost>>

Next ==
  \/ TypeSearch \/ ApplySearch \/ ChangeFilter \/ ApplyPendingFilter
  \/ RefreshRows \/ RefreshFromOutside \/ ChangePage
  \/ EditCell \/ ToggleDelete \/ AddDraftRow \/ RemoveDraftRow \/ DiscardChanges
  \/ ReadLoad \/ ReadPage \/ LoadAnswered \/ LoadFailed \/ PageAnswered \/ PageFailed
  \/ WriteRow
  \/ SaveChanges \/ CommitServed \/ SaveAnswered \/ SaveFailed
  \/ Remount

Spec == Init /\ [][Next]_vars

-----------------------------------------------------------------------------
\* The search or the filter in force never changes under pending edits: only
\* a panel with nothing to lose, or whose user agreed to lose it, asks for
\* other rows (confirmDraftReset, the accept effect).
EditsKeepTheirQuery ==
  [][ <<search'.applied, filter'.accepted>> # <<search.applied, filter.accepted>>
        => draft' = NoEdits ]_vars

Quiet == load = None /\ \A s \in PageSlots : pages[s] = None

\* What the panel shows when nothing is under way answers the search and the
\* filter in force, and is no older than the last commit it was told of.  The
\* exceptions are a failed read, a filter that cannot be applied, and a page
\* that came after a load asked for later, which no test of isActive stops.
ReadsOwnWrites ==
  (Quiet /\ grid.set /\ ~rowsError /\ ~filter.failing /\ ~overtaken)
    => /\ grid.query = [term |-> search.applied, filter |-> filter.accepted]
       /\ grid.at >= acked

\* A new row is inserted once, however often it is saved, and once more at most
\* for every answer of a commit with it that was lost: the panel then keeps a
\* row that is already there, and nothing in the code tells the two apart.
InsertOnce == \A d \in Drafts : inserted[d] <= 1 + lost[d]

=============================================================================
