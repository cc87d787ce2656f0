------------------------ MODULE DataInspectorProofs ------------------------
(***************************************************************************)
(* Proofs about the table panel and the related records beside it, for any *)
(* tables, searches, filters and page sizes and any number of gestures and *)
(* of requests in flight: the types, what the panel shows of what it has   *)
(* saved, that a new row is inserted once, that edits keep their query and *)
(* that related rows are those of the selected record.                     *)
(***************************************************************************)
EXTENDS RelatedRecords, TLAPS

Searches == [input: Terms, applied: Terms]
FilterStates == [effective: Filters, failing: BOOLEAN, accepted: Filters]

----------------------------------------------------------------------------
(* Types.                                                                  *)

LEMMA NoEditsTyped == NoEdits \in Edits
  BY DEF NoEdits, Edits, NoPatch, Patch

LEMMA AskTyped ==
  ASSUME NEW offset \in Nat, NEW term \in Terms, NEW accepted \in Filters
  PROVE  Ask(offset, term, accepted) \in Read /\ Ask(offset, term, accepted) # None
<1>1. NoPage \in Page
  BY InspectorConstants DEF NoPage, Page, Query
<1>2. Ask(offset, term, accepted) \in Read
  BY <1>1 DEF Ask, Read, Query
<1> QED
  BY <1>2, NothingApart

LEMMA PageAtTyped ==
  ASSUME TypeOK, NEW offset \in Nat, NEW q \in Query
  PROVE  PageAt(offset, q) \in Page
<1> DEFINE rows == [r \in Rows |->
             IF r \in Matching(q) /\ Position(r, q) \in offset + 1..offset + PageSize
             THEN table[r] ELSE None]
           more == Cardinality(Matching(q)) > offset + PageSize
<1>1. rows \in [Rows -> Row \cup {None}]
  BY DEF TypeOK
<1>2. more \in BOOLEAN
  OBVIOUS
<1>3. PageAt(offset, q) = [rows |-> rows, offset |-> offset, more |-> more, set |-> TRUE,
                           query |-> q, at |-> version]
  BY DEF PageAt
<1> HIDE DEF rows, more
<1> QED
  BY <1>1, <1>2, <1>3 DEF Page, TypeOK

LEMMA AcceptsTyped ==
  ASSUME NEW d, NEW f \in FilterStates
  PROVE  /\ Accepts(d, f) \in FilterStates
         /\ Accepts(d, f).failing = f.failing /\ Accepts(d, f).effective = f.effective
  BY DEF Accepts, FilterStates

(* A handler and the effects that follow it.                               *)
LEMMA RenderTyped ==
  ASSUME TypeOK, NEW d \in Edits, NEW s \in Searches, NEW f \in FilterStates,
         NEW refresh, Render(d, s, f, refresh)
  PROVE  /\ draft' \in Edits /\ search' \in Searches /\ filter' \in FilterStates
         /\ load' \in Read \cup {None} /\ pages' \in [PageSlots -> Read \cup {None}]
         /\ loading' \in BOOLEAN /\ rowsError' \in BOOLEAN
<1>1. draft' \in Edits /\ search' \in Searches /\ search' = s
  BY DEF Render
<1>2. filter' \in FilterStates
  BY AcceptsTyped DEF Render
<1>3. Ask(0, s.applied, filter'.accepted) \in Read
  BY <1>2, AskTyped DEF Searches, FilterStates
<1>4. Reload(s.applied, filter', refresh)
  BY DEF Render
<1>5. CASE UNCHANGED requests
  BY <1>1, <1>2, <1>5 DEF requests, TypeOK
<1>6. CASE load' = None /\ UNCHANGED <<pages, loading, rowsError>>
  BY <1>1, <1>2, <1>6 DEF TypeOK
<1>7. CASE /\ load' = Ask(0, s.applied, filter'.accepted)
           /\ pages' = [x \in PageSlots |->
                IF pages[x] = None THEN None ELSE [pages[x] EXCEPT !.old = TRUE]]
           /\ loading' = TRUE /\ rowsError' = FALSE
  <2>1. pages' \in [PageSlots -> Read \cup {None}]
    BY <1>7 DEF TypeOK, Read
  <2> QED
    BY <1>1, <1>2, <1>3, <1>7, <2>1
<1> QED
  BY <1>4, <1>5, <1>6, <1>7 DEF Reload

(* What a rendering does not touch.                                        *)
Rest == <<server, save, history, grid>>

LEMMA RenderTypeStep ==
  ASSUME TypeOK, NEW d \in Edits, NEW s \in Searches, NEW f \in FilterStates,
         NEW refresh, Render(d, s, f, refresh), UNCHANGED Rest,
         gestures' \in 0..MaxGestures, others' \in 0..MaxOthers
  PROVE  TypeOK'
  BY RenderTyped DEF TypeOK, Rest, server, history, Searches, FilterStates

LEMMA CountsTyped ==
  ASSUME TypeOK
  PROVE  /\ Gesture => gestures' \in 0..MaxGestures
         /\ Other => others' \in 0..MaxOthers
         /\ NoGesture => gestures' \in 0..MaxGestures
  BY InspectorConstants DEF TypeOK, Gesture, Other, NoGesture

(* The drafts that editing makes.                                          *)
LEMMA DraftsTyped ==
  ASSUME TypeOK
  PROVE  /\ \A r \in Rows, c \in Columns, v \in Values \cup {None} :
              [draft EXCEPT !.updates[r][c] = v] \in Edits
         /\ \A r \in Rows, deletes \in SUBSET Rows :
              [draft EXCEPT !.updates[r] = NoPatch, !.deletes = deletes] \in Edits
         /\ \A inserts \in SUBSET Drafts : [draft EXCEPT !.inserts = inserts] \in Edits
<1> USE DEF TypeOK, Edits, Patch
<1>1. ASSUME NEW r \in Rows, NEW c \in Columns, NEW v \in Values \cup {None}
      PROVE  [draft EXCEPT !.updates[r][c] = v] \in Edits
  <2> DEFINE updates == [draft.updates EXCEPT ![r] = [@ EXCEPT ![c] = v]]
  <2>1. draft.updates[r] \in [Columns -> Values \cup {None}]
    OBVIOUS
  <2>2. updates \in [Rows -> [Columns -> Values \cup {None}]]
    BY <2>1
  <2>3. [draft EXCEPT !.updates[r][c] = v] = [draft EXCEPT !.updates = updates]
    OBVIOUS
  <2> HIDE DEF updates
  <2> QED
    BY <2>2, <2>3
<1>2. ASSUME NEW r \in Rows, NEW deletes \in SUBSET Rows
      PROVE  [draft EXCEPT !.updates[r] = NoPatch, !.deletes = deletes] \in Edits
  <2>1. NoPatch \in [Columns -> Values \cup {None}]
    BY DEF NoPatch
  <2> DEFINE updates == [draft.updates EXCEPT ![r] = NoPatch]
  <2>2. updates \in [Rows -> [Columns -> Values \cup {None}]]
    BY <2>1
  <2>3. [draft EXCEPT !.updates[r] = NoPatch, !.deletes = deletes]
          = [draft EXCEPT !.updates = updates, !.deletes = deletes]
    OBVIOUS
  <2> HIDE DEF updates
  <2> QED
    BY <2>2, <2>3
<1>3. ASSUME NEW inserts \in SUBSET Drafts
      PROVE  [draft EXCEPT !.inserts = inserts] \in Edits
  OBVIOUS
<1> QED
  BY <1>1, <1>2, <1>3

LEMMA TypedNow ==
  ASSUME TypeOK
  PROVE  /\ draft \in Edits /\ search \in Searches /\ filter \in FilterStates
         /\ \A t \in Terms : [search EXCEPT !.applied = t] \in Searches
         /\ \A t \in Terms : [search EXCEPT !.input = t] \in Searches
         /\ search.input \in Terms /\ search.applied \in Terms
         /\ filter.effective \in Filters /\ filter.accepted \in Filters
  BY DEF TypeOK, Searches, FilterStates

(* A step that ends in a rendering: the drafts, search and filter it leaves *)
(* belong together, and no new row appears but those of extra.             *)
Renders(extra) ==
  /\ \E d \in Edits, s \in Searches, f \in FilterStates, refresh \in BOOLEAN :
       /\ Render(d, s, f, refresh)
       /\ <<s.applied, f.accepted>> # <<search.applied, filter.accepted>> => d = NoEdits
       /\ d.inserts \subseteq draft.inserts \cup extra
  /\ UNCHANGED Rest

LEMMA SearchRenders == TypeOK /\ ApplySearch => Renders({})
<1> SUFFICES ASSUME TypeOK, ApplySearch PROVE Renders({})
  OBVIOUS
<1>1. CASE Render(NoEdits, [search EXCEPT !.applied = search.input], filter, FALSE)
  BY <1>1, TypedNow, NoEditsTyped DEF Renders, NoEdits, ApplySearch, Rest
<1>2. CASE Render(draft, [search EXCEPT !.input = search.applied], filter, FALSE)
  <2>1. [search EXCEPT !.input = search.applied].applied = search.applied
    BY TypedNow DEF Searches
  <2> QED
    BY <1>2, <2>1, TypedNow DEF Renders, ApplySearch, Rest
<1> QED
  BY <1>1, <1>2 DEF ApplySearch

LEMMA FilterRenders == TypeOK /\ (ChangeFilter \/ ApplyPendingFilter) => Renders({})
<1> SUFFICES ASSUME TypeOK, ChangeFilter \/ ApplyPendingFilter PROVE Renders({})
  OBVIOUS
<1>1. CASE ChangeFilter
  <2>1. PICK e \in Filters, failing \in BOOLEAN :
          Render(draft, search, [filter EXCEPT !.effective = e, !.failing = failing], FALSE)
    BY <1>1 DEF ChangeFilter
  <2> DEFINE f == [filter EXCEPT !.effective = e, !.failing = failing]
  <2>2. f \in FilterStates /\ f.accepted = filter.accepted
    BY TypedNow DEF FilterStates
  <2> HIDE DEF f
  <2>3. Render(draft, search, f, FALSE)
    BY <2>1 DEF f
  <2> QED
    BY <1>1, <2>2, <2>3, TypedNow DEF Renders, ChangeFilter, Rest
<1>2. CASE ApplyPendingFilter
  <2> DEFINE f == [filter EXCEPT !.accepted = filter.effective]
  <2>1. f \in FilterStates
    BY TypedNow DEF FilterStates
  <2>2. Render(NoEdits, search, f, FALSE)
    BY <1>2 DEF ApplyPendingFilter
  <2> HIDE DEF f
  <2> QED
    BY <1>2, <2>1, <2>2, TypedNow, NoEditsTyped
       DEF Renders, NoEdits, ApplyPendingFilter, Rest
<1> QED
  BY <1>1, <1>2

LEMMA RefreshRenders ==
  TypeOK /\ (RefreshRows \/ RefreshFromOutside \/ DiscardChanges) => Renders({})
<1> SUFFICES ASSUME TypeOK, RefreshRows \/ RefreshFromOutside \/ DiscardChanges
             PROVE  Renders({})
  OBVIOUS
<1>1. \/ \E refresh \in BOOLEAN : Render(NoEdits, search, filter, refresh)
      \/ Render(draft, search, filter, TRUE)
  BY DEF RefreshRows, RefreshFromOutside, DiscardChanges
<1>2. UNCHANGED Rest
  BY DEF RefreshRows, RefreshFromOutside, DiscardChanges, Rest
<1> QED
  BY <1>1, <1>2, TypedNow, NoEditsTyped DEF Renders, NoEdits

LEMMA EditRenders == TypeOK /\ (EditCell \/ ToggleDelete \/ RemoveDraftRow) => Renders({})
<1> SUFFICES ASSUME TypeOK, EditCell \/ ToggleDelete \/ RemoveDraftRow
             PROVE  Renders({})
  OBVIOUS
<1>1. PICK d \in Edits : /\ Render(d, search, filter, FALSE)
                        /\ d.inserts \subseteq draft.inserts
  <2>1. CASE EditCell
    <3>1. PICK r \in Rows, c \in Columns, v \in Values \cup {None} :
            Render([draft EXCEPT !.updates[r][c] = v], search, filter, FALSE)
      BY <2>1 DEF EditCell, CanEdit, Shown
    <3>2. /\ [draft EXCEPT !.updates[r][c] = v] \in Edits
          /\ [draft EXCEPT !.updates[r][c] = v].inserts = draft.inserts
      BY DraftsTyped, TypedNow DEF Edits
    <3> QED
      BY <3>1, <3>2
  <2>2. CASE ToggleDelete
    <3>1. PICK r \in Rows :
            Render([draft EXCEPT !.updates[r] = NoPatch,
                                 !.deletes = IF r \in @ THEN @ \ {r} ELSE @ \cup {r}],
                   search, filter, FALSE)
      BY <2>2 DEF ToggleDelete, Toggleable, Shown
    <3> DEFINE deletes == IF r \in draft.deletes THEN draft.deletes \ {r}
                          ELSE draft.deletes \cup {r}
    <3>2. deletes \in SUBSET Rows
      BY TypedNow DEF Edits
    <3>3. Render([draft EXCEPT !.updates[r] = NoPatch, !.deletes = deletes],
                 search, filter, FALSE)
      BY <3>1
    <3> HIDE DEF deletes
    <3>4. /\ [draft EXCEPT !.updates[r] = NoPatch, !.deletes = deletes] \in Edits
          /\ [draft EXCEPT !.updates[r] = NoPatch, !.deletes = deletes].inserts
                = draft.inserts
      BY <3>2, DraftsTyped, TypedNow DEF Edits
    <3> QED
      BY <3>3, <3>4
  <2>3. CASE RemoveDraftRow
    <3>1. PICK x \in draft.inserts :
            Render([draft EXCEPT !.inserts = @ \ {x}], search, filter, FALSE)
      BY <2>3 DEF RemoveDraftRow, Removable
    <3>2. /\ [draft EXCEPT !.inserts = @ \ {x}] \in Edits
          /\ [draft EXCEPT !.inserts = @ \ {x}].inserts \subseteq draft.inserts
      BY TypedNow DEF Edits
    <3> QED
      BY <3>1, <3>2
  <2> QED
    BY <2>1, <2>2, <2>3
<1>2. UNCHANGED Rest
  BY DEF EditCell, ToggleDelete, RemoveDraftRow, Rest
<1> QED
  BY <1>1, <1>2, TypedNow DEF Renders

LEMMA AddRenders ==
  TypeOK /\ AddDraftRow =>
    \E x \in Drafts : /\ inserted[x] = 0 /\ (save # None => x \notin save.ops.inserts)
                     /\ Renders({x})
<1> SUFFICES ASSUME TypeOK, AddDraftRow
             PROVE  \E x \in Drafts :
                      /\ inserted[x] = 0 /\ (save # None => x \notin save.ops.inserts)
                      /\ Renders({x})
  OBVIOUS
<1>1. PICK x \in Drafts :
        /\ inserted[x] = 0 /\ (save # None => x \notin save.ops.inserts)
        /\ Render([draft EXCEPT !.inserts = @ \cup {x}], search, filter, FALSE)
  BY DEF AddDraftRow
<1>2. /\ [draft EXCEPT !.inserts = @ \cup {x}] \in Edits
      /\ [draft EXCEPT !.inserts = @ \cup {x}].inserts = draft.inserts \cup {x}
  BY TypedNow DEF Edits
<1>3. UNCHANGED Rest
  BY DEF AddDraftRow, Rest
<1> QED
  BY <1>1, <1>2, <1>3, TypedNow DEF Renders

(* The gestures and events that end in a rendering.                        *)
Handlers ==
  \/ ApplySearch \/ ChangeFilter \/ ApplyPendingFilter \/ RefreshRows
  \/ RefreshFromOutside \/ DiscardChanges \/ EditCell \/ ToggleDelete \/ RemoveDraftRow

LEMMA HandlersRender == TypeOK /\ Handlers => Renders({})
  BY SearchRenders, FilterRenders, RefreshRenders, EditRenders DEF Handlers

LEMMA RendersTypes ==
  ASSUME TypeOK, NEW extra, Renders(extra), gestures' \in 0..MaxGestures,
         others' \in 0..MaxOthers
  PROVE  TypeOK'
  BY RenderTypeStep DEF Renders

LEMMA GestureTypes ==
  ASSUME TypeOK, TypeSearch \/ Handlers \/ AddDraftRow
  PROVE  TypeOK'
<1>1. gestures' \in 0..MaxGestures /\ others' \in 0..MaxOthers
  BY CountsTyped DEF TypeOK, TypeSearch, Handlers, AddDraftRow, ApplySearch, ChangeFilter,
     ApplyPendingFilter, RefreshRows, RefreshFromOutside, DiscardChanges, EditCell,
     ToggleDelete, RemoveDraftRow
<1>2. CASE TypeSearch
  <2>1. search' \in Searches
    BY <1>2, TypedNow DEF TypeSearch
  <2> QED
    BY <1>1, <1>2, <2>1 DEF TypeSearch, TypeOK, Searches, requests, server, history
<1>3. CASE Handlers \/ AddDraftRow
  <2>1. \E extra : Renders(extra)
    BY <1>3, HandlersRender, AddRenders
  <2> QED
    BY <1>1, <2>1, RendersTypes
<1> QED
  BY <1>2, <1>3

(* A page that is asked for.                                               *)
LEMMA AskedPage ==
  ASSUME TypeOK, NEW offset \in Nearby, NEW old \in BOOLEAN
  PROVE  /\ [Ask(offset, search.applied, filter.accepted) EXCEPT !.old = old] \in Read
         /\ [Ask(offset, search.applied, filter.accepted) EXCEPT !.old = old] # None
<1> DEFINE ask == Ask(offset, search.applied, filter.accepted)
<1>1. offset \in Nat
  BY InspectorConstants DEF Nearby, TypeOK, Page
<1>2. ask \in Read
  BY <1>1, AskTyped, TypedNow
<1> HIDE DEF ask
<1>3. [ask EXCEPT !.old = old] \in Read
  BY <1>2 DEF Read
<1> QED
  BY <1>3, NothingApart DEF ask

LEMMA ChangePageTypes ==
  ASSUME TypeOK, ChangePage
  PROVE  TypeOK'
<1>1. PICK offset \in Nearby, s \in PageSlots :
        /\ draft' = NoEdits
        /\ filter' = Accepts(NoEdits, filter)
        /\ LET page == [Ask(offset, search.applied, filter.accepted) EXCEPT
                          !.old = filter'.accepted # filter.accepted]
           IN  /\ pages' = [x \in PageSlots |->
                    IF x = s THEN page
                    ELSE IF pages[x] = None \/ ~page.old THEN pages[x]
                    ELSE [pages[x] EXCEPT !.old = TRUE]]
               /\ load' = IF page.old THEN Ask(0, search.applied, filter'.accepted) ELSE load
  BY DEF ChangePage
<1> DEFINE page == [Ask(offset, search.applied, filter.accepted) EXCEPT
                     !.old = filter'.accepted # filter.accepted]
<1>3. filter' \in FilterStates
  BY <1>1, TypedNow, AcceptsTyped
<1>4. page \in Read
  BY AskedPage
<1>5. load' \in Read \cup {None}
  BY <1>1, <1>3, AskTyped, TypedNow DEF TypeOK, FilterStates
<1> HIDE DEF page
<1>6. pages' \in [PageSlots -> Read \cup {None}]
  BY <1>1, <1>4 DEF TypeOK, Read, page
<1> QED
  BY <1>1, <1>3, <1>5, <1>6, CountsTyped, NoEditsTyped
     DEF ChangePage, TypeOK, FilterStates, server, history

LEMMA ReadTypes ==
  ASSUME TypeOK, ReadLoad \/ ReadPage
  PROVE  TypeOK'
<1>1. ASSUME NEW read \in Read
      PROVE  [read EXCEPT !.stage = "read", !.page = PageAt(read.offset, read.query)] \in Read
  <2>1. PageAt(read.offset, read.query) \in Page
    BY PageAtTyped DEF Read
  <2> QED
    BY <2>1 DEF Read
<1>2. CASE ReadLoad
  <2>1. load \in Read
    BY <1>2 DEF ReadLoad, TypeOK
  <2>2. load' \in Read
    BY <1>1, <1>2, <2>1 DEF ReadLoad
  <2> QED
    BY <1>2, <2>2 DEF ReadLoad, TypeOK, shown, server, history
<1>3. CASE ReadPage
  <2>1. PICK s \in PageSlots :
          /\ pages[s] # None
          /\ pages' = [pages EXCEPT ![s].stage = "read",
                                    ![s].page = PageAt(pages[s].offset, pages[s].query)]
    BY <1>3 DEF ReadPage
  <2> DEFINE read == [pages[s] EXCEPT !.stage = "read",
                                      !.page = PageAt(pages[s].offset, pages[s].query)]
  <2>2. read \in Read
    BY <1>1, <2>1 DEF TypeOK
  <2>3. pages' = [pages EXCEPT ![s] = read]
    BY <2>1 DEF TypeOK
  <2> HIDE DEF read
  <2>4. pages' \in [PageSlots -> Read \cup {None}]
    BY <2>2, <2>3 DEF TypeOK
  <2> QED
    BY <1>3, <2>4 DEF ReadPage, TypeOK, shown, server, history
<1> QED
  BY <1>2, <1>3

LEMMA AnswerTypes ==
  ASSUME TypeOK, LoadAnswered \/ LoadFailed \/ PageAnswered \/ PageFailed
  PROVE  TypeOK'
<1>1. CASE LoadAnswered
  <2>1. load.page \in Page
    BY <1>1 DEF LoadAnswered, TypeOK, Read
  <2> QED
    BY <1>1, <2>1 DEF LoadAnswered, TypeOK, server
<1>2. CASE LoadFailed
  BY <1>2, CountsTyped DEF LoadFailed, TypeOK, server, shown, history
<1>3. CASE PageAnswered
  <2>1. PICK s \in PageSlots :
          /\ pages[s] # None
          /\ grid' = pages[s].page /\ overtaken' = pages[s].old
          /\ pages' = [pages EXCEPT ![s] = None]
    BY <1>3 DEF PageAnswered
  <2>2. grid' \in Page /\ overtaken' \in BOOLEAN
    BY <2>1 DEF TypeOK, Read
  <2>3. pages' \in [PageSlots -> Read \cup {None}]
    BY <2>1 DEF TypeOK
  <2> QED
    BY <1>3, <2>2, <2>3 DEF PageAnswered, TypeOK, server
<1>4. CASE PageFailed
  <2>1. pages' \in [PageSlots -> Read \cup {None}]
    BY <1>4 DEF PageFailed, TypeOK
  <2> QED
    BY <1>4, <2>1, CountsTyped DEF PageFailed, TypeOK, server, shown, history
<1> QED
  BY <1>1, <1>2, <1>3, <1>4

LEMMA OperationsTyped ==
  ASSUME TypeOK
  PROVE  Operations \in Edits
  BY DEF Operations, Edits, TypeOK, NoPatch, Patch, Shown

LEMMA AfterTyped ==
  ASSUME TypeOK, NEW e \in Edits, Applies(e), NEW new
  PROVE  After(e, new) \in [Rows -> Row \cup {None}]
<1>1. [c \in Columns |-> CHOOSE v \in Values : TRUE] \in Row
  BY InspectorConstants DEF Row
<1>2. ASSUME NEW r \in Updated(e)
      PROVE  Merged(table[r], e.updates[r]) \in Row
  <2>1. r \in Rows /\ table[r] \in Row
    BY DEF Applies, Updated, TypeOK
  <2>2. e.updates[r] \in [Columns -> Values \cup {None}]
    BY <2>1 DEF Edits, Patch
  <2> QED
    BY <2>1, <2>2 DEF Merged, Row
<1> QED
  BY <1>1, <1>2 DEF After, TypeOK

LEMMA SaveTypes ==
  ASSUME TypeOK, WriteRow \/ SaveChanges \/ CommitServed \/ SaveAnswered \/ SaveFailed
  PROVE  TypeOK'
<1>1. CASE WriteRow
  <2>1. table' \in [Rows -> Row \cup {None}] /\ version' \in Nat
    BY <1>1 DEF WriteRow, TypeOK
  <2> QED
    BY <1>1, <2>1, CountsTyped DEF WriteRow, TypeOK, shown, requests, history
<1>2. CASE SaveChanges
  <2>1. save' \in Commit
    BY <1>2, OperationsTyped DEF SaveChanges, Commit
  <2> QED
    BY <1>2, <2>1, CountsTyped DEF SaveChanges, TypeOK, shown, requests, server, history
<1>3. CASE CommitServed
  <2>1. save \in Commit
    BY <1>3 DEF CommitServed, TypeOK
  <2>2. version + 1 \in Nat
    BY DEF TypeOK
  <2>3. CASE Applies(save.ops)
    <3>1. PICK new : table' = After(save.ops, new)
      BY <1>3, <2>3 DEF CommitServed
    <3>2. table' \in [Rows -> Row \cup {None}]
      BY <2>1, <2>3, <3>1, AfterTyped DEF Commit
    <3>3. /\ save' = [save EXCEPT !.stage = "done", !.at = version + 1]
          /\ version' = version + 1
          /\ inserted' = [d \in Drafts |->
               IF d \in save.ops.inserts THEN inserted[d] + 1 ELSE inserted[d]]
      BY <1>3, <2>3 DEF CommitServed
    <3>4. save' \in Commit
      BY <2>1, <2>2, <3>3 DEF Commit
    <3>5. inserted' \in [Drafts -> Nat]
      BY <3>3 DEF TypeOK
    <3> QED
      BY <1>3, <2>2, <3>2, <3>3, <3>4, <3>5 DEF CommitServed, TypeOK, shown, requests
  <2>4. CASE ~Applies(save.ops)
    <3>1. save' = [save EXCEPT !.stage = "refused"] /\ UNCHANGED <<server, inserted>>
      BY <1>3, <2>4 DEF CommitServed
    <3>2. save' \in Commit
      BY <2>1, <3>1 DEF Commit
    <3> QED
      BY <1>3, <3>1, <3>2 DEF CommitServed, TypeOK, shown, requests, server
  <2> QED
    BY <2>3, <2>4
<1>4. CASE SaveAnswered
  <2>1. save \in Commit /\ save.at \in Nat
    BY <1>4 DEF SaveAnswered, TypeOK, Commit
  <2>2. CASE save.live
    <3>1. Render(NoEdits, search, filter, TRUE) /\ acked' = save.at
      BY <1>4, <2>2 DEF SaveAnswered
    <3> QED
      BY <1>4, <2>1, <3>1, RenderTyped, NoEditsTyped, TypedNow
         DEF SaveAnswered, TypeOK, server, Searches, FilterStates
  <2>3. CASE ~save.live
    BY <1>4, <2>3 DEF SaveAnswered, TypeOK, server, requests
  <2> QED
    BY <2>2, <2>3
<1>5. CASE SaveFailed
  BY <1>5, CountsTyped DEF SaveFailed, TypeOK, shown, requests, server
<1> QED
  BY <1>1, <1>2, <1>3, <1>4, <1>5

LEMMA RemountTypes ==
  ASSUME TypeOK, Remount
  PROVE  TypeOK'
<1>1. NoPage \in Page
  BY InspectorConstants DEF NoPage, Page, Query
<1>2. search' \in Searches
  BY InspectorConstants DEF Remount, Searches
<1>3. filter' \in FilterStates
  BY InspectorConstants, TypedNow DEF Remount, FilterStates
<1>4. load' \in Read \cup {None}
  BY InspectorConstants, AskTyped DEF Remount
<1>5. save' \in Commit \cup {None}
  BY DEF Remount, TypeOK, Commit
<1>6. pages' \in [PageSlots -> Read \cup {None}]
  BY DEF Remount
<1>7. loading' \in BOOLEAN
  BY DEF Remount
<1> QED
  BY <1>1, <1>2, <1>3, <1>4, <1>5, <1>6, <1>7, CountsTyped, NoEditsTyped
     DEF Remount, TypeOK, server, Searches, FilterStates

LEMMA NextTypes ==
  ASSUME TypeOK, Next
  PROVE  TypeOK'
  BY GestureTypes, ChangePageTypes, ReadTypes, AnswerTypes, SaveTypes, RemountTypes
     DEF Next, Handlers

----------------------------------------------------------------------------
(* The steps of the panels beside the table.                               *)

(* What they leave of the table panel: everything, or a refresh.           *)
Beside == UNCHANGED <<shown, requests, server, save, history>> \/ Renders({})

LEMMA RecordStepBeside ==
  ASSUME TypeOK, RecordStep
  PROVE  Beside /\ TypeOK'
<1>1. CASE RecordDeleted
  <2>1. /\ Render(draft, search, filter, TRUE) /\ UNCHANGED Rest
        /\ gestures' \in 0..MaxGestures /\ others' \in 0..MaxOthers
    BY <1>1 DEF RecordDeleted, Rest, TypeOK
  <2>2. Renders({})
    BY <2>1, TypedNow DEF Renders
  <2> QED
    BY <2>1, <2>2, RendersTypes DEF Beside
<1>2. CASE ~RecordDeleted
  <2>1. UNCHANGED <<shown, requests, server, save, history>>
    BY <1>2 DEF RecordStep, SelectRow, ReadRelated, RelatedAnswered, RelatedFailed,
       InspectRelated, MetadataAnswered, ChangeField, DiscardField, AskDelete, SendRecord,
       DeleteElsewhere, RecordServed, RecordSaved, RecordFailed, ClosePanel, vars
  <2>2. /\ gestures' = gestures \/ Gesture
        /\ others' = others \/ Other
    BY <1>2 DEF RecordStep, SelectRow, ReadRelated, RelatedAnswered, RelatedFailed,
       InspectRelated, MetadataAnswered, ChangeField, DiscardField, AskDelete, SendRecord,
       DeleteElsewhere, RecordServed, RecordSaved, RecordFailed, ClosePanel, vars
  <2>3. TypeOK'
    BY <2>1, <2>2, CountsTyped DEF TypeOK, shown, requests, server, history
  <2> QED
    BY <2>1, <2>3 DEF Beside
<1> QED
  BY <1>1, <1>2

----------------------------------------------------------------------------
(* What is read answers the search and filter in force.                    *)

Now == [term |-> search.applied, filter |-> filter.accepted]

Fresh(read) ==
  /\ read.query = Now
  /\ read.stage = "read" => read.page.query = Now /\ read.page.at >= acked

(* A page that no load was asked for after.                                *)
Fitting(s) == pages[s] # None /\ ~pages[s].old

Versions ==
  /\ acked <= version
  /\ save # None /\ save.stage = "done" => save.at <= version

(* The page shown is fresh, unless a read failed, a late page came over it *)
(* or a fresh one is under way.                                            *)
Current ==
  ~filter.failing =>
    /\ load # None => Fresh(load)
    /\ \A s \in PageSlots : Fitting(s) => Fresh(pages[s])
    /\ grid.set /\ ~rowsError /\ ~overtaken =>
         \/ load # None
         \/ \E s \in PageSlots : Fitting(s)
         \/ grid.query = Now /\ grid.at >= acked

LEMMA VersionsStep ==
  ASSUME TypeOK, Versions, Next
  PROVE  Versions'
<1>1. acked \in Nat /\ version \in Nat
  BY DEF TypeOK
<1>2. CASE TypeSearch \/ ReadLoad \/ ReadPage \/ LoadAnswered \/ LoadFailed
           \/ PageAnswered \/ PageFailed \/ ChangePage
  BY <1>2 DEF TypeSearch, ReadLoad, ReadPage, LoadAnswered, LoadFailed, PageAnswered,
     PageFailed, ChangePage, Versions, server, history
<1>3. CASE Handlers \/ AddDraftRow
  BY <1>3, HandlersRender, AddRenders DEF Renders, Rest, Versions, server, history
<1>4. CASE WriteRow
  BY <1>1, <1>4 DEF WriteRow, Versions, TypeOK, Commit, history
<1>5. CASE SaveChanges
  BY <1>5 DEF SaveChanges, Versions, server, history
<1>6. CASE CommitServed
  <2>1. save \in Commit
    BY <1>6 DEF CommitServed, TypeOK
  <2>2. acked' = acked
    BY <1>6 DEF CommitServed
  <2>3. CASE Applies(save.ops)
    <3>1. save' = [save EXCEPT !.stage = "done", !.at = version + 1] /\ version' = version + 1
      BY <1>6, <2>3 DEF CommitServed
    <3>2. save'.at = version + 1
      BY <2>1, <3>1 DEF Commit
    <3> QED
      BY <1>1, <2>2, <3>1, <3>2 DEF Versions
  <2>4. CASE ~Applies(save.ops)
    <3>1. save' = [save EXCEPT !.stage = "refused"] /\ version' = version
      BY <1>6, <2>4 DEF CommitServed, server
    <3>2. save'.stage = "refused"
      BY <2>1, <3>1 DEF Commit
    <3> QED
      BY <2>2, <3>1, <3>2 DEF Versions
  <2> QED
    BY <2>3, <2>4
<1>7. CASE SaveAnswered
  BY <1>7 DEF SaveAnswered, Versions, server
<1>8. CASE SaveFailed
  BY <1>8 DEF SaveFailed, Versions, server
<1>9. CASE Remount
  BY <1>9 DEF Remount, Versions, TypeOK, Commit, server
<1> QED
  BY <1>2, <1>3, <1>4, <1>5, <1>6, <1>7, <1>8, <1>9 DEF Next, Handlers

(* After a rendering a fresh load is under way, or nothing has changed.    *)
LEMMA RenderCurrent ==
  ASSUME TypeOK, Current, NEW d \in Edits, NEW s \in Searches, NEW f \in FilterStates,
         NEW refresh \in BOOLEAN, Render(d, s, f, refresh),
         UNCHANGED <<grid, overtaken>>, refresh \/ acked' = acked
  PROVE  Current'
<1> SUFFICES ASSUME ~filter'.failing PROVE Current'
  BY DEF Current
<1>1. search' = s /\ filter' \in FilterStates /\ Reload(s.applied, filter', refresh)
  BY AcceptsTyped DEF Render
<1>2. CASE refresh \/ s.applied # search.applied \/ filter'.accepted # filter.accepted
           \/ filter'.failing # filter.failing
  <2>1. /\ load' = Ask(0, s.applied, filter'.accepted)
        /\ pages' = [x \in PageSlots |->
             IF pages[x] = None THEN None ELSE [pages[x] EXCEPT !.old = TRUE]]
    BY <1>1, <1>2 DEF Reload
  <2>2. load' # None /\ load'.query = Now' /\ load'.stage = "asked"
    BY <1>1, <2>1, AskTyped DEF Ask, Now, Searches, FilterStates
  <2>3. ASSUME NEW x \in PageSlots
        PROVE  ~Fitting(x)'
    BY <2>1 DEF Fitting, TypeOK, Read
  <2> QED
    BY <2>2, <2>3 DEF Current, Fresh
<1>3. CASE ~(refresh \/ s.applied # search.applied \/ filter'.accepted # filter.accepted
             \/ filter'.failing # filter.failing)
  <2>1. UNCHANGED requests /\ acked' = acked
    BY <1>1, <1>3 DEF Reload
  <2>2. Now' = Now /\ ~filter.failing
    BY <1>1, <1>3 DEF Now
  <2> QED
    BY <2>1, <2>2 DEF Current, Fresh, Fitting, requests
<1> QED
  BY <1>2, <1>3

LEMMA RendersCurrent ==
  ASSUME TypeOK, Current, NEW extra, Renders(extra)
  PROVE  Current'
  BY RenderCurrent DEF Renders, Rest, history

LEMMA ChangePageCurrent ==
  ASSUME TypeOK, Current, ChangePage
  PROVE  Current'
<1> SUFFICES ASSUME ~filter'.failing PROVE Current'
  BY DEF Current
<1>1. PICK offset \in Nearby, s \in PageSlots :
        /\ filter' = Accepts(NoEdits, filter)
        /\ LET page == [Ask(offset, search.applied, filter.accepted) EXCEPT
                          !.old = filter'.accepted # filter.accepted]
           IN  /\ pages' = [x \in PageSlots |->
                    IF x = s THEN page
                    ELSE IF pages[x] = None \/ ~page.old THEN pages[x]
                    ELSE [pages[x] EXCEPT !.old = TRUE]]
               /\ load' = IF page.old THEN Ask(0, search.applied, filter'.accepted) ELSE load
  BY DEF ChangePage
<1> DEFINE page == [Ask(offset, search.applied, filter.accepted) EXCEPT
                     !.old = filter'.accepted # filter.accepted]
<1>2. search' = search /\ acked' = acked /\ filter' \in FilterStates /\ ~filter.failing
  BY <1>1, AcceptsTyped, TypedNow DEF ChangePage, history
<1>3. /\ page.query = Now /\ page.stage = "asked"
      /\ page.old = (filter'.accepted # filter.accepted)
  BY DEF Ask, Now
<1>4. page # None
  BY AskedPage
<1>5. CASE filter'.accepted # filter.accepted
  <2>1. load' # None /\ load'.query = Now' /\ load'.stage = "asked"
    BY <1>1, <1>2, <1>3, <1>5, AskTyped, TypedNow DEF Ask, Now, FilterStates
  <2>2. ASSUME NEW x \in PageSlots
        PROVE  ~Fitting(x)'
    BY <1>1, <1>3, <1>5 DEF Fitting, TypeOK, Read
  <2> QED
    BY <2>1, <2>2 DEF Current, Fresh
<1>6. CASE filter'.accepted = filter.accepted
  <2>1. Now' = Now
    BY <1>2, <1>6 DEF Now
  <2>2. load' = load /\ pages' = [x \in PageSlots |-> IF x = s THEN page ELSE pages[x]]
    BY <1>1, <1>3, <1>6
  <2> HIDE DEF page
  <2>3. Fitting(s)'
    BY <1>3, <1>4, <1>6, <2>2 DEF Fitting
  <2>4. \A x \in PageSlots : Fitting(x)' => Fresh(pages[x])'
    BY <1>2, <1>3, <2>1, <2>2 DEF Fitting, Current, Fresh
  <2> QED
    BY <1>2, <2>1, <2>2, <2>3, <2>4 DEF Current, Fresh
<1> QED
  BY <1>5, <1>6

LEMMA ReadCurrent ==
  ASSUME TypeOK, Versions, Current, ReadLoad \/ ReadPage
  PROVE  Current'
<1> SUFFICES ASSUME ~filter'.failing PROVE Current'
  BY DEF Current
<1>1. /\ Now' = Now /\ acked' = acked /\ ~filter.failing /\ acked <= version
      /\ UNCHANGED <<grid, rowsError, overtaken>>
  BY DEF ReadLoad, ReadPage, shown, history, Now, Versions
<1>2. ASSUME NEW read \in Read, NEW done,
             done = [read EXCEPT !.stage = "read", !.page = PageAt(read.offset, read.query)],
             Fresh(read)
      PROVE  /\ done # None /\ done.old = read.old /\ done.query = Now
             /\ done.page.query = Now /\ done.page.at = version
  <2>1. /\ done \in Read /\ done.old = read.old /\ done.query = read.query
        /\ done.page = PageAt(read.offset, read.query)
    <3>1. PageAt(read.offset, read.query) \in Page
      BY PageAtTyped DEF Read
    <3> QED
      BY <1>2, <3>1 DEF Read
  <2>2. PageAt(read.offset, read.query).query = read.query
        /\ PageAt(read.offset, read.query).at = version
    BY DEF PageAt
  <2> QED
    BY <1>2, <2>1, <2>2, NothingApart DEF Fresh
<1>3. CASE ReadLoad
  <2>1. load \in Read /\ Fresh(load)
    BY <1>1, <1>3 DEF ReadLoad, TypeOK, Current
  <2>2. load' = [load EXCEPT !.stage = "read", !.page = PageAt(load.offset, load.query)]
    BY <1>3 DEF ReadLoad
  <2>3. load' # None /\ load'.query = Now /\ load'.page.query = Now /\ load'.page.at = version
    BY <1>2, <2>1, <2>2
  <2>4. Fresh(load)'
    BY <1>1, <2>3 DEF Fresh
  <2>5. \A s \in PageSlots : Fitting(s)' => Fresh(pages[s])'
    BY <1>1, <1>3 DEF ReadLoad, Current, Fitting, Fresh
  <2> QED
    BY <2>3, <2>4, <2>5 DEF Current
<1>4. CASE ReadPage
  <2>1. PICK s \in PageSlots :
          /\ pages[s] # None
          /\ pages' = [pages EXCEPT ![s].stage = "read",
                                    ![s].page = PageAt(pages[s].offset, pages[s].query)]
    BY <1>4 DEF ReadPage
  <2> DEFINE done == [pages[s] EXCEPT !.stage = "read",
                                      !.page = PageAt(pages[s].offset, pages[s].query)]
  <2>2. pages' = [pages EXCEPT ![s] = done] /\ pages[s] \in Read
    BY <2>1 DEF TypeOK
  <2>3. done.old = pages[s].old
    BY <2>2 DEF Read
  <2>4. Fresh(pages[s]) => /\ done # None /\ done.query = Now
                           /\ done.page.query = Now /\ done.page.at = version
    BY <1>2, <2>2
  <2> HIDE DEF done
  <2>5. /\ pages'[s] = done
        /\ \A x \in PageSlots : x # s => pages'[x] = pages[x]
    BY <2>2 DEF TypeOK
  <2>6. ASSUME NEW x \in PageSlots, Fitting(x)'
        PROVE  Fresh(pages[x])'
    <3>1. CASE x = s
      <4>1. Fresh(pages[s])
        BY <1>1, <2>1, <2>3, <2>5, <2>6, <3>1 DEF Fitting, Current
      <4> QED
        BY <1>1, <2>4, <2>5, <3>1, <4>1 DEF Fresh
    <3>2. CASE x # s
      BY <1>1, <2>5, <2>6, <3>2 DEF Fitting, Current, Fresh
    <3> QED
      BY <3>1, <3>2
  <2>7. ASSUME NEW x \in PageSlots, Fitting(x)
        PROVE  Fitting(x)'
    <3>1. CASE x = s
      <4>1. Fresh(pages[s])
        BY <1>1, <2>7, <3>1 DEF Current
      <4> QED
        BY <2>3, <2>4, <2>5, <2>7, <3>1, <4>1 DEF Fitting
    <3>2. CASE x # s
      BY <2>5, <2>7, <3>2 DEF Fitting
    <3> QED
      BY <3>1, <3>2
  <2>8. load' = load
    BY <1>4 DEF ReadPage
  <2> QED
    BY <1>1, <2>6, <2>7, <2>8 DEF Current, Fresh
<1> QED
  BY <1>3, <1>4

LEMMA AnswerCurrent ==
  ASSUME TypeOK, Current, LoadAnswered \/ LoadFailed \/ PageAnswered \/ PageFailed
  PROVE  Current'
<1> SUFFICES ASSUME ~filter'.failing PROVE Current'
  BY DEF Current
<1>1. Now' = Now /\ acked' = acked /\ ~filter.failing
  BY DEF LoadAnswered, LoadFailed, PageAnswered, PageFailed, shown, history, Now
<1>2. CASE LoadAnswered
  <2>1. grid'.query = Now /\ grid'.at >= acked
    BY <1>1, <1>2 DEF LoadAnswered, Current, Fresh
  <2> QED
    BY <1>1, <1>2, <2>1 DEF LoadAnswered, Current, Fitting, Fresh
<1>3. CASE LoadFailed
  BY <1>1, <1>3 DEF LoadFailed, Current, Fitting, Fresh
<1>4. CASE PageAnswered
  <2>1. PICK s \in PageSlots :
          /\ pages[s] # None /\ pages[s].stage = "read"
          /\ grid' = pages[s].page /\ overtaken' = pages[s].old
          /\ pages' = [pages EXCEPT ![s] = None]
    BY <1>4 DEF PageAnswered
  <2>2. \A x \in PageSlots : Fitting(x)' => Fitting(x) /\ pages'[x] = pages[x]
    BY <2>1 DEF Fitting, TypeOK
  <2>3. ~overtaken' => grid'.query = Now /\ grid'.at >= acked
    BY <1>1, <2>1 DEF Current, Fitting, Fresh
  <2> QED
    BY <1>1, <1>4, <2>2, <2>3 DEF PageAnswered, Current, Fresh
<1>5. CASE PageFailed
  <2>1. \A x \in PageSlots : Fitting(x)' => Fitting(x) /\ pages'[x] = pages[x]
    BY <1>5 DEF PageFailed, Fitting, TypeOK
  <2> QED
    BY <1>1, <1>5, <2>1 DEF PageFailed, Current, Fresh
<1> QED
  BY <1>2, <1>3, <1>4, <1>5

LEMMA RemountCurrent ==
  ASSUME TypeOK, Remount
  PROVE  Current'
<1>1. filter'.failing = filter.failing /\ filter'.accepted = NoFilter
  BY TypedNow DEF Remount, FilterStates
<1>2. ~filter.failing => load' = Ask(0, NoTerm, NoFilter)
  BY DEF Remount
<1>3. Ask(0, NoTerm, NoFilter).query = Now' /\ Ask(0, NoTerm, NoFilter).stage = "asked"
  BY <1>1 DEF Remount, Ask, Now
<1>4. \A x \in PageSlots : pages'[x] = None
  BY DEF Remount
<1>5. grid'.set = FALSE
  BY DEF Remount, NoPage
<1> QED
  BY <1>1, <1>2, <1>3, <1>4, <1>5 DEF Current, Fresh, Fitting

LEMMA CurrentStep ==
  ASSUME TypeOK, Versions, Current, Next
  PROVE  Current'
<1>1. CASE TypeSearch
  <2>1. Now' = Now
    BY <1>1, TypedNow DEF TypeSearch, Now, Searches
  <2> QED
    BY <1>1, <2>1 DEF TypeSearch, requests, history, Current, Fresh, Fitting
<1>2. CASE Handlers \/ AddDraftRow
  BY <1>2, HandlersRender, AddRenders, RendersCurrent
<1>3. CASE ChangePage
  BY <1>3, ChangePageCurrent
<1>4. CASE ReadLoad \/ ReadPage
  BY <1>4, ReadCurrent
<1>5. CASE LoadAnswered \/ LoadFailed \/ PageAnswered \/ PageFailed
  BY <1>5, AnswerCurrent
<1>6. CASE WriteRow \/ SaveChanges \/ CommitServed \/ SaveFailed
  <2>1. UNCHANGED <<shown, requests, acked, overtaken>>
    BY <1>6 DEF WriteRow, SaveChanges, CommitServed, SaveFailed, history
  <2> QED
    BY <2>1 DEF shown, requests, Current, Fresh, Fitting, Now
<1>7. CASE SaveAnswered
  <2>1. CASE save.live
    <3>1. Render(NoEdits, search, filter, TRUE) /\ UNCHANGED <<grid, overtaken>>
      BY <1>7, <2>1 DEF SaveAnswered
    <3> QED
      BY <3>1, RenderCurrent, NoEditsTyped, TypedNow
  <2>2. CASE ~save.live
    <3>1. UNCHANGED <<shown, requests, acked, overtaken>>
      BY <1>7, <2>2 DEF SaveAnswered, shown
    <3> QED
      BY <3>1 DEF shown, requests, Current, Fresh, Fitting, Now
  <2> QED
    BY <2>1, <2>2
<1>8. CASE Remount
  BY <1>8, RemountCurrent
<1> QED
  BY <1>1, <1>2, <1>3, <1>4, <1>5, <1>6, <1>7, <1>8 DEF Next, Handlers

----------------------------------------------------------------------------
(* New rows.                                                               *)

(* Answers that were lost make up for the insertions of a new row that is  *)
(* still among the drafts of the panel, unless its commit is about to be   *)
(* acknowledged, and for those of one that is being inserted; and a panel  *)
(* that is mounted does not hold it when another one sent it.              *)
InsertsSound ==
  \A d \in Drafts :
    /\ inserted[d] <= 1 + lost[d]
    /\ d \in draft.inserts /\ inserted[d] > lost[d] =>
         save # None /\ save.live /\ save.stage = "done" /\ d \in save.ops.inserts
    /\ save # None /\ save.stage = "sent" /\ d \in save.ops.inserts =>
         inserted[d] <= lost[d] /\ (d \in draft.inserts => save.live)

LEMMA RendersInserts ==
  ASSUME TypeOK, InsertsSound, NEW extra,
         \A x \in extra : inserted[x] = 0 /\ (save # None => x \notin save.ops.inserts),
         Renders(extra)
  PROVE  InsertsSound'
<1>1. draft'.inserts \subseteq draft.inserts \cup extra
  BY DEF Renders, Render
<1>2. UNCHANGED <<save, inserted, lost>>
  BY DEF Renders, Rest, history
<1> QED
  BY <1>1, <1>2 DEF InsertsSound, TypeOK

LEMMA InsertsStep ==
  ASSUME TypeOK, InsertsSound, Next
  PROVE  InsertsSound'
<1>1. CASE TypeSearch \/ ReadLoad \/ ReadPage \/ LoadAnswered \/ LoadFailed
           \/ PageAnswered \/ PageFailed \/ WriteRow
  BY <1>1 DEF TypeSearch, ReadLoad, ReadPage, LoadAnswered, LoadFailed, PageAnswered,
     PageFailed, WriteRow, InsertsSound, history, shown
<1>2. CASE Handlers
  BY <1>2, HandlersRender, RendersInserts
<1>3. CASE AddDraftRow
  <2>1. PICK x \in Drafts : /\ inserted[x] = 0
                           /\ (save # None => x \notin save.ops.inserts)
                           /\ Renders({x})
    BY <1>3, AddRenders
  <2> QED
    BY <2>1, RendersInserts
<1>4. CASE ChangePage \/ Remount
  <2>1. draft'.inserts = {} /\ UNCHANGED <<inserted, lost>>
    BY <1>4 DEF ChangePage, Remount, NoEdits, history
  <2>2. save' # None => /\ save # None /\ save'.stage = save.stage
                        /\ save'.ops = save.ops
    BY <1>4 DEF ChangePage, Remount, TypeOK, Commit
  <2> QED
    BY <2>1, <2>2 DEF InsertsSound
<1>5. CASE SaveChanges
  <2>1. /\ save' = [ops |-> Operations, stage |-> "sent", live |-> TRUE, at |-> 0]
        /\ ~Saving /\ UNCHANGED <<draft, inserted, lost>>
    BY <1>5 DEF SaveChanges, MaySave, shown, history
  <2>2. Operations.inserts = draft.inserts
    BY DEF Operations
  <2>3. save'.live /\ save'.ops.inserts = draft.inserts
    BY <2>1, <2>2
  <2>4. \A d \in draft.inserts : d \in Drafts => inserted[d] <= lost[d]
    BY <2>1 DEF InsertsSound, Saving, TypeOK
  <2> QED
    BY <2>1, <2>3, <2>4 DEF InsertsSound, TypeOK
<1>6. CASE CommitServed
  <2>1. save \in Commit /\ save # None /\ save.stage = "sent"
        /\ UNCHANGED <<draft, lost>>
    BY <1>6 DEF CommitServed, TypeOK, shown
  <2>2. CASE Applies(save.ops)
    <3>1. /\ save' = [save EXCEPT !.stage = "done", !.at = version + 1]
          /\ inserted' = [d \in Drafts |->
               IF d \in save.ops.inserts THEN inserted[d] + 1 ELSE inserted[d]]
      BY <1>6, <2>2 DEF CommitServed
    <3>2. version + 1 \in Nat
      BY DEF TypeOK
    <3>3. save' \in Commit /\ save'.stage = "done" /\ save'.live = save.live
          /\ save'.ops = save.ops
      BY <2>1, <3>1, <3>2 DEF Commit
    <3>4. save' # None
      BY <3>3, NothingApart
    <3> QED
      BY <2>1, <3>1, <3>3, <3>4 DEF InsertsSound, TypeOK
  <2>3. CASE ~Applies(save.ops)
    <3>1. save' = [save EXCEPT !.stage = "refused"] /\ inserted' = inserted
      BY <1>6, <2>3 DEF CommitServed
    <3>2. save'.stage = "refused"
      BY <2>1, <3>1 DEF Commit
    <3> QED
      BY <2>1, <3>1, <3>2 DEF InsertsSound
  <2> QED
    BY <2>2, <2>3
<1>7. CASE SaveAnswered
  <2>1. save' = None /\ save # None /\ save.stage = "done" /\ UNCHANGED <<inserted, lost>>
    BY <1>7 DEF SaveAnswered
  <2>2. CASE save.live
    <3>1. draft'.inserts = {}
      BY <1>7, <2>2 DEF SaveAnswered, Render, NoEdits
    <3> QED
      BY <2>1, <3>1 DEF InsertsSound
  <2>3. CASE ~save.live
    <3>1. draft' = draft
      BY <1>7, <2>3 DEF SaveAnswered
    <3> QED
      BY <2>1, <2>3, <3>1 DEF InsertsSound
  <2> QED
    BY <2>2, <2>3
<1>8. CASE SaveFailed
  <2>1. save # None /\ save' = None /\ UNCHANGED <<draft, inserted>>
    BY <1>8 DEF SaveFailed, shown
  <2>2. CASE save.stage = "refused" /\ lost' = lost
    BY <2>1, <2>2 DEF InsertsSound
  <2>3. CASE save.stage = "done" /\ lost' =
          [d \in Drafts |-> IF d \in save.ops.inserts THEN lost[d] + 1 ELSE lost[d]]
    BY <2>1, <2>3 DEF InsertsSound, TypeOK
  <2> QED
    BY <1>8, <2>2, <2>3 DEF SaveFailed
<1> QED
  BY <1>1, <1>2, <1>3, <1>4, <1>5, <1>6, <1>7, <1>8 DEF Next, Handlers

----------------------------------------------------------------------------
(* Related records.                                                        *)

(* The rows listed, or about to be, are those of the record selected.      *)
RelatedSound ==
  /\ listing # None =>
       /\ listing.owner = OnPage(selected, grid)
       /\ listing.stage = "read" => listing.list.owner = listing.owner
  /\ listed => related.rows = {} \/ related.owner = OnPage(selected, grid)

(* An update has a value; it is a deletion that has none.                  *)
WritesSound ==
  \A r \in Records : writes[r] # None /\ writes[r].kind = "update" => writes[r].value # None

Listings == [owner: Rows, stage: {"asked", "read"}, list: List]

LEMMA NoListTyped == NoList \in List /\ NoList.rows = {}
  BY DEF NoList, List

LEMMA RelistSound ==
  ASSUME RecordsTypeOK, NEW row \in Rows \cup {None}, Relist(row),
         row = OnPage(selected, grid)'
  PROVE  /\ related' \in List /\ listed' \in BOOLEAN
         /\ listing' \in {None} \cup Listings
         /\ RelatedSound'
<1>1. CASE row = None
  BY <1>1, NoListTyped DEF Relist, RelatedSound
<1>2. CASE row # None
  <2>1. /\ listing' = [owner |-> row, stage |-> "asked", list |-> NoList]
        /\ listed' = FALSE /\ related' = related
    BY <1>2 DEF Relist
  <2>2. listing' \in Listings
    BY <1>2, <2>1, NoListTyped DEF Listings
  <2> QED
    BY <2>1, <2>2 DEF RecordsTypeOK, RelatedSound
<1> QED
  BY <1>1, <1>2

LEMMA TableStepRelated ==
  ASSUME RecordsTypeOK, RelatedSound, TableStep
  PROVE  RecordsTypeOK' /\ RelatedSound'
<1>1. TypeOK'
  BY NextTypes DEF RecordsTypeOK, TableStep
<1>2. stored' = stored /\ writes' = writes
  BY DEF TableStep
<1>3. CASE grid' = NoPage
  <2>1. /\ selected' = None /\ panels' = [r \in Records |-> None] /\ Relist(None)
    BY <1>3 DEF TableStep
  <2>2. OnPage(selected, grid)' = None
    BY <2>1 DEF OnPage
  <2>3. /\ related' \in List /\ listed' \in BOOLEAN
        /\ listing' \in {None} \cup Listings /\ RelatedSound'
    BY <2>1, <2>2, RelistSound
  <2> QED
    BY <1>1, <1>2, <2>1, <2>3 DEF RecordsTypeOK, Listings
<1>4. CASE grid' # NoPage
  <2>1. selected' = selected /\ panels' = panels
    BY <1>4 DEF TableStep
  <2>2. CASE selected # None /\ (grid' # grid \/ draft' # draft)
    <3>1. Relist(OnPage(selected, grid'))
      BY <1>4, <2>2 DEF TableStep
    <3>2. /\ OnPage(selected, grid') = OnPage(selected, grid)'
          /\ OnPage(selected, grid') \in Rows \cup {None}
      BY <2>1 DEF OnPage, RecordsTypeOK
    <3>3. /\ related' \in List /\ listed' \in BOOLEAN
          /\ listing' \in {None} \cup Listings /\ RelatedSound'
      BY <3>1, <3>2, RelistSound
    <3> QED
      BY <1>1, <1>2, <2>1, <3>3 DEF RecordsTypeOK, Listings
  <2>3. CASE ~(selected # None /\ (grid' # grid \/ draft' # draft))
    <3>1. UNCHANGED <<related, listing, listed>>
      BY <1>4, <2>3 DEF TableStep
    <3>2. OnPage(selected, grid)' = OnPage(selected, grid)
      BY <2>1, <2>3 DEF OnPage
    <3> QED
      BY <1>1, <1>2, <2>1, <3>1, <3>2 DEF RecordsTypeOK, RelatedSound
  <2> QED
    BY <2>2, <2>3
<1> QED
  BY <1>3, <1>4

LEMMA ListingStep ==
  ASSUME RecordsTypeOK, RelatedSound, TypeOK', grid' = grid,
         SelectRow \/ ReadRelated \/ RelatedAnswered \/ RelatedFailed
  PROVE  RecordsTypeOK' /\ RelatedSound'
<1>1. UNCHANGED <<stored, panels, writes>>
  BY DEF SelectRow, ReadRelated, RelatedAnswered, RelatedFailed
<1>2. CASE SelectRow
  <2>1. PICK r \in Shown \cup {None} : selected' = r /\ Relist(r)
    BY <1>2 DEF SelectRow
  <2>2. r \in Rows \cup {None} /\ OnPage(selected, grid)' = r
    BY <2>1 DEF OnPage, Shown
  <2>3. /\ related' \in List /\ listed' \in BOOLEAN
        /\ listing' \in {None} \cup Listings /\ RelatedSound'
    BY <2>1, <2>2, RelistSound
  <2> QED
    BY <1>1, <2>1, <2>2, <2>3 DEF RecordsTypeOK, Listings
<1>3. CASE ReadRelated
  <2> DEFINE list == [owner |-> listing.owner,
                      rows |-> {<<r, stored[r]>> : r \in {x \in Records :
                                  Owner[x] = listing.owner /\ stored[x] # None}}]
  <2>1. listing \in Listings /\ UNCHANGED <<selected, related, listed>>
    BY <1>3 DEF ReadRelated, RecordsTypeOK, Listings
  <2>2. list \in List /\ list.owner = listing.owner
    BY <2>1 DEF List, Listings, RecordsTypeOK
  <2>3. listing' = [listing EXCEPT !.stage = "read", !.list = list]
    BY <1>3 DEF ReadRelated
  <2> HIDE DEF list
  <2>4. /\ listing' \in Listings /\ listing'.owner = listing.owner
        /\ listing'.list = list
    BY <2>1, <2>2, <2>3 DEF Listings
  <2>5. listing.owner = OnPage(selected, grid)
    BY <1>3 DEF ReadRelated, RelatedSound
  <2> QED
    BY <1>1, <2>1, <2>2, <2>4, <2>5 DEF RecordsTypeOK, RelatedSound, Listings, OnPage
<1>4. CASE RelatedAnswered
  BY <1>1, <1>4 DEF RelatedAnswered, RecordsTypeOK, RelatedSound, OnPage
<1>5. CASE RelatedFailed
  BY <1>1, <1>5, NoListTyped DEF RelatedFailed, RecordsTypeOK, RelatedSound, OnPage
<1> QED
  BY <1>2, <1>3, <1>4, <1>5

(* The panels of records, whose gestures leave the list alone.             *)
LEMMA PanelStep ==
  ASSUME RecordsTypeOK, RelatedSound, TypeOK', grid' = grid,
         \/ InspectRelated \/ MetadataAnswered \/ ChangeField \/ DiscardField
         \/ AskDelete \/ SendRecord \/ DeleteElsewhere \/ RecordServed \/ RecordFailed
         \/ ClosePanel
  PROVE  RecordsTypeOK' /\ RelatedSound'
<1>1. UNCHANGED <<selected, related, listing, listed>>
  BY DEF InspectRelated, MetadataAnswered, ChangeField, DiscardField, AskDelete, SendRecord,
     DeleteElsewhere, RecordServed, RecordFailed, ClosePanel
<1>2. RelatedSound'
  BY <1>1 DEF RelatedSound, OnPage
<1>3. CASE InspectRelated
  <2>1. PICK p \in related.rows :
          /\ panels' = [panels EXCEPT ![p[1]] =
               IF panels[p[1]] = None
               THEN [row |-> p[2], value |-> p[2], change |-> None, asking |-> FALSE,
                     meta |-> "loading"]
               ELSE [panels[p[1]] EXCEPT !.row = p[2]]]
          /\ UNCHANGED <<stored, writes>>
    BY <1>3 DEF InspectRelated, Clickable
  <2>2. p[1] \in Records /\ p[2] \in Values
    BY <2>1 DEF RecordsTypeOK, List
  <2>3. panels[p[1]] # None => [panels[p[1]] EXCEPT !.row = p[2]] \in Panel
    BY <2>2 DEF RecordsTypeOK, Panel
  <2>4. [row |-> p[2], value |-> p[2], change |-> None, asking |-> FALSE,
         meta |-> "loading"] \in Panel
    BY <2>2 DEF Panel
  <2>5. panels' \in [Records -> Panel \cup {None}]
    BY <2>1, <2>2, <2>3, <2>4 DEF RecordsTypeOK
  <2> QED
    BY <1>1, <1>2, <2>1, <2>5 DEF RecordsTypeOK
<1>4. CASE MetadataAnswered \/ ChangeField \/ DiscardField \/ AskDelete \/ ClosePanel
  <2>1. panels' \in [Records -> Panel \cup {None}]
    <3>1. CASE MetadataAnswered
      <4>1. PICK r \in Records, m \in {"ready", "failed"} :
              panels[r] # None /\ panels' = [panels EXCEPT ![r].meta = m]
        BY <3>1 DEF MetadataAnswered
      <4>2. [panels[r] EXCEPT !.meta = m] \in Panel
        BY <4>1 DEF RecordsTypeOK, Panel
      <4> QED
        BY <4>1, <4>2 DEF RecordsTypeOK
    <3>2. CASE ChangeField
      <4>1. PICK r \in Records, v \in Values :
              /\ panels[r] # None
              /\ panels' = [panels EXCEPT ![r] =
                   [panels[r] EXCEPT !.value = v,
                                     !.change = IF v = panels[r].row THEN None ELSE v]]
        BY <3>2 DEF ChangeField, FieldsOpen, RecordsTypeOK
      <4>2. [panels[r] EXCEPT !.value = v,
                              !.change = IF v = panels[r].row THEN None ELSE v] \in Panel
        BY <4>1 DEF RecordsTypeOK, Panel
      <4> QED
        BY <4>1, <4>2 DEF RecordsTypeOK
    <3>3. CASE DiscardField
      <4>1. PICK r \in Records :
              /\ panels[r] # None
              /\ panels' = [panels EXCEPT ![r] =
                   [panels[r] EXCEPT !.value = panels[r].row, !.change = None]]
        BY <3>3 DEF DiscardField, Changed, FieldsOpen, RecordsTypeOK
      <4>2. [panels[r] EXCEPT !.value = panels[r].row, !.change = None] \in Panel
        BY <4>1 DEF RecordsTypeOK, Panel
      <4> QED
        BY <4>1, <4>2 DEF RecordsTypeOK
    <3>4. CASE AskDelete
      <4>1. PICK r \in Records :
              panels[r] # None /\ panels' = [panels EXCEPT ![r].asking = ~panels[r].asking]
        BY <3>4 DEF AskDelete
      <4> DEFINE asking == ~panels[r].asking
      <4>2. asking \in BOOLEAN /\ panels' = [panels EXCEPT ![r].asking = asking]
        BY <4>1
      <4> HIDE DEF asking
      <4>3. [panels[r] EXCEPT !.asking = asking] \in Panel
        BY <4>1, <4>2 DEF RecordsTypeOK, Panel
      <4> QED
        BY <4>1, <4>2, <4>3 DEF RecordsTypeOK
    <3>5. CASE ClosePanel
      BY <3>5 DEF ClosePanel, RecordsTypeOK
    <3> QED
      BY <1>4, <3>1, <3>2, <3>3, <3>4, <3>5
  <2>2. UNCHANGED <<stored, writes>>
    BY <1>4 DEF MetadataAnswered, ChangeField, DiscardField, AskDelete, ClosePanel
  <2> QED
    BY <1>1, <1>2, <2>1, <2>2 DEF RecordsTypeOK
<1>5. CASE SendRecord \/ DeleteElsewhere \/ RecordServed \/ RecordFailed
  <2>1. writes' \in [Records -> Write \cup {None}]
    BY <1>5 DEF SendRecord, Changed, FieldsOpen, DeleteElsewhere, RecordServed, RecordFailed,
       RecordsTypeOK, Write, Panel
  <2>2. stored' \in [Records -> Values \cup {None}]
    BY <1>5 DEF SendRecord, DeleteElsewhere, RecordServed, RecordFailed, RecordsTypeOK, Write
  <2>3. panels' = panels
    BY <1>5 DEF SendRecord, DeleteElsewhere, RecordServed, RecordFailed
  <2> QED
    BY <1>1, <1>2, <2>1, <2>2, <2>3 DEF RecordsTypeOK
<1> QED
  BY <1>3, <1>4, <1>5

(* A record was written: the list is read again.                           *)
LEMMA WrittenStep ==
  ASSUME RecordsTypeOK, RelatedSound, WritesSound, TypeOK', grid' = grid, RecordSaved \/ RecordDeleted
  PROVE  RecordsTypeOK' /\ RelatedSound'
<1>1. Relist(OnPage(selected, grid)) /\ UNCHANGED <<stored, selected>>
  BY DEF RecordSaved, RecordDeleted
<1>2. /\ OnPage(selected, grid)' = OnPage(selected, grid)
      /\ OnPage(selected, grid) \in Rows \cup {None}
  BY <1>1 DEF OnPage, RecordsTypeOK
<1>3. /\ related' \in List /\ listed' \in BOOLEAN
      /\ listing' \in {None} \cup Listings /\ RelatedSound'
  BY <1>1, <1>2, RelistSound
<1>4. writes' \in [Records -> Write \cup {None}]
  BY DEF RecordSaved, RecordDeleted, RecordsTypeOK
<1>5. panels' \in [Records -> Panel \cup {None}]
  <2>1. CASE RecordDeleted
    BY <2>1 DEF RecordDeleted, RecordsTypeOK
  <2>2. CASE RecordSaved
    <3>1. PICK r \in Records :
            /\ writes[r] # None /\ writes[r].kind = "update"
            /\ panels' = [panels EXCEPT ![r] =
                 IF panels[r] = None THEN None
                 ELSE [panels[r] EXCEPT !.row = writes[r].value, !.value = writes[r].value,
                                        !.change = None]]
      BY <2>2 DEF RecordSaved
    <3>2. writes[r].value \in Values
      BY <3>1 DEF RecordsTypeOK, Write, WritesSound
    <3>3. panels[r] # None =>
            [panels[r] EXCEPT !.row = writes[r].value, !.value = writes[r].value,
                              !.change = None] \in Panel
      BY <3>2 DEF RecordsTypeOK, Panel
    <3> QED
      BY <3>1, <3>3 DEF RecordsTypeOK
  <2> QED
    BY <2>1, <2>2
<1> QED
  BY <1>1, <1>3, <1>4, <1>5 DEF RecordsTypeOK, Listings

LEMMA WritesStep ==
  ASSUME RecordsTypeOK, WritesSound, TableStep \/ RecordStep
  PROVE  WritesSound'
<1>1. CASE SendRecord
  <2>1. PICK r \in Records, w \in Write :
          /\ writes' = [writes EXCEPT ![r] = w]
          /\ w.kind = "update" => w.value # None
    <3>1. PICK r \in Records :
            \/ /\ r \in Changed
               /\ writes' = [writes EXCEPT ![r] =
                    [kind |-> "update", value |-> panels[r].change, stage |-> "sent"]]
            \/ writes' = [writes EXCEPT ![r] =
                 [kind |-> "delete", value |-> None, stage |-> "sent"]]
      BY <1>1 DEF SendRecord
    <3>2. CASE writes' = [writes EXCEPT ![r] =
                 [kind |-> "delete", value |-> None, stage |-> "sent"]]
      <4>1. [kind |-> "delete", value |-> None, stage |-> "sent"] \in Write
        BY DEF Write
      <4> QED
        BY <3>2, <4>1
    <3>3. CASE /\ r \in Changed
               /\ writes' = [writes EXCEPT ![r] =
                    [kind |-> "update", value |-> panels[r].change, stage |-> "sent"]]
      <4>1. panels[r].change \in Values /\ panels[r].change # None
        BY <3>3 DEF Changed, FieldsOpen, RecordsTypeOK, Panel
      <4>2. [kind |-> "update", value |-> panels[r].change, stage |-> "sent"] \in Write
        BY <4>1 DEF Write
      <4> QED
        BY <3>3, <4>1, <4>2
    <3> QED
      BY <3>1, <3>2, <3>3
  <2> QED
    BY <2>1 DEF WritesSound, RecordsTypeOK
<1>2. CASE RecordServed
  <2>1. PICK r \in Records, stage \in {"done", "refused"} :
          writes[r] # None /\ writes' = [writes EXCEPT ![r].stage = stage]
    BY <1>2 DEF RecordServed
  <2>2. /\ writes'[r].kind = writes[r].kind /\ writes'[r].value = writes[r].value
        /\ \A x \in Records : x # r => writes'[x] = writes[x]
    BY <2>1 DEF RecordsTypeOK, Write
  <2> QED
    BY <2>1, <2>2 DEF WritesSound
<1>3. CASE RecordSaved \/ RecordDeleted \/ RecordFailed
  BY <1>3 DEF RecordSaved, RecordDeleted, RecordFailed, WritesSound, RecordsTypeOK
<1>4. CASE writes' = writes
  BY <1>4 DEF WritesSound
<1> QED
  BY <1>1, <1>2, <1>3, <1>4 DEF TableStep, RecordStep, SelectRow, ReadRelated,
     RelatedAnswered, RelatedFailed, InspectRelated, MetadataAnswered, ChangeField,
     DiscardField, AskDelete, DeleteElsewhere, ClosePanel

----------------------------------------------------------------------------
(* The inductive invariant and the theorems.                               *)

IInv ==
  /\ RecordsTypeOK /\ Versions /\ Current /\ InsertsSound
  /\ RelatedSound /\ WritesSound

LEMMA BesideSound ==
  ASSUME TypeOK, Versions, Current, InsertsSound, Beside
  PROVE  Versions' /\ Current' /\ InsertsSound'
<1>1. CASE UNCHANGED <<shown, requests, server, save, history>>
  BY <1>1 DEF shown, requests, server, history, Versions, Current, Fresh, Fitting, Now,
     InsertsSound
<1>2. CASE Renders({})
  <2>1. Versions'
    BY <1>2 DEF Renders, Rest, Versions, server, history
  <2> QED
    BY <1>2, <2>1, RendersCurrent, RendersInserts
<1> QED
  BY <1>1, <1>2 DEF Beside

LEMMA StepInvariant ==
  ASSUME IInv, TableStep \/ RecordStep
  PROVE  IInv'
<1>1. TypeOK
  BY DEF IInv, RecordsTypeOK
<1>2. WritesSound'
  BY WritesStep DEF IInv
<1>3. CASE TableStep
  <2>1. Versions' /\ Current' /\ InsertsSound'
    BY <1>1, <1>3, VersionsStep, CurrentStep, InsertsStep DEF IInv, TableStep
  <2> QED
    BY <1>2, <1>3, <2>1, TableStepRelated DEF IInv
<1>4. CASE RecordStep
  <2>1. Beside /\ TypeOK'
    BY <1>1, <1>4, RecordStepBeside
  <2>2. Versions' /\ Current' /\ InsertsSound'
    BY <1>1, <2>1, BesideSound DEF IInv
  <2>3. grid' = grid
    BY <2>1 DEF Beside, Renders, Rest, shown
  <2>4. RecordsTypeOK' /\ RelatedSound'
    BY <1>4, <2>1, <2>3, ListingStep, PanelStep, WrittenStep DEF IInv, RecordStep
  <2> QED
    BY <1>2, <2>2, <2>4 DEF IInv
<1> QED
  BY <1>3, <1>4

LEMMA InitInvariant ==
  ASSUME RecordsInit
  PROVE  IInv
<1> USE DEF RecordsInit, Init
<1>1. NoPage \in Page
  BY InspectorConstants DEF NoPage, Page, Query
<1>2. filter \in FilterStates /\ filter.accepted = NoFilter
  BY InspectorConstants DEF FilterStates
<1>3. load \in Read /\ load = Ask(0, NoTerm, NoFilter)
  BY InspectorConstants, AskTyped
<1>4. TypeOK
  <2>1. table \in [Rows -> Row \cup {None}]
    BY StartingTables
  <2>2. /\ search \in [input: Terms, applied: Terms]
        /\ gestures \in 0..MaxGestures /\ others \in 0..MaxOthers
    BY InspectorConstants
  <2>3. loading \in BOOLEAN /\ rowsError \in BOOLEAN /\ overtaken \in BOOLEAN
    OBVIOUS
  <2> QED
    BY <1>1, <1>2, <1>3, <2>1, <2>2, <2>3, NoEditsTyped DEF TypeOK, FilterStates
<1>5. RecordsTypeOK
  BY <1>4, NoListTyped DEF RecordsTypeOK
<1>6. Current
  <2>1. load.query = Now /\ load.stage = "asked"
    BY <1>2, <1>3 DEF Ask, Now
  <2>2. grid.set = FALSE
    BY DEF NoPage
  <2>3. \A s \in PageSlots : ~Fitting(s)
    BY DEF Fitting
  <2> QED
    BY <2>1, <2>2, <2>3 DEF Current, Fresh
<1>7. Versions /\ InsertsSound
  BY DEF Versions, InsertsSound
<1>8. RelatedSound /\ WritesSound
  BY NoListTyped DEF RelatedSound, WritesSound
<1> QED
  BY <1>5, <1>6, <1>7, <1>8 DEF IInv

LEMMA StutterInvariant ==
  ASSUME IInv, UNCHANGED allVars
  PROVE  IInv'
<1>1. RecordsTypeOK'
  BY DEF IInv, RecordsTypeOK, TypeOK, allVars, vars, recordVars, shown, requests, server,
     history
<1>2. Versions' /\ Current' /\ InsertsSound'
  BY BesideSound DEF IInv, RecordsTypeOK, Beside, allVars, vars
<1>3. RelatedSound' /\ WritesSound'
  BY DEF IInv, RelatedSound, WritesSound, OnPage, allVars, vars, recordVars, shown
<1> QED
  BY <1>1, <1>2, <1>3 DEF IInv

LEMMA Invariance == RecordsSpec => []IInv
<1>1. IInv /\ [TableStep \/ RecordStep]_allVars => IInv'
  BY StepInvariant, StutterInvariant
<1> QED
  BY <1>1, InitInvariant, PTL DEF RecordsSpec

(* Type correctness of the table panel and of the panels beside it.        *)
THEOREM InspectorTypeCorrect == RecordsSpec => []RecordsTypeOK
  BY Invariance, PTL DEF IInv

(* What the panel shows at rest answers the search and the filter in force *)
(* and is no older than the last commit it was told of (the load effect    *)
(* and handlePageChange of DataInspector.tsx).                             *)
THEOREM OwnWritesAlwaysRead == RecordsSpec => []ReadsOwnWrites
<1>1. IInv => ReadsOwnWrites
  BY DEF IInv, Current, ReadsOwnWrites, Quiet, Fitting, Now
<1> QED
  BY <1>1, Invariance, PTL

(* However often the button is used, a new row is inserted once, and once  *)
(* more for each answer that was lost (handleSaveChanges).                 *)
THEOREM RowsInsertedOnce == RecordsSpec => []InsertOnce
<1>1. IInv => InsertOnce
  BY DEF IInv, InsertsSound, InsertOnce
<1> QED
  BY <1>1, Invariance, PTL

(* The related rows that can be clicked are those of the record selected.  *)
THEOREM RelatedAlwaysFits == RecordsSpec => []RelatedFits
<1>1. IInv => RelatedFits
  BY DEF IInv, RelatedSound, RelatedFits, Clickable
<1> QED
  BY <1>1, Invariance, PTL

LEMMA RendersKeepQuery ==
  ASSUME TypeOK, NEW extra, Renders(extra),
         <<search'.applied, filter'.accepted>> # <<search.applied, filter.accepted>>
  PROVE  draft' = NoEdits
<1>1. PICK d \in Edits, s \in Searches, f \in FilterStates, refresh \in BOOLEAN :
        /\ Render(d, s, f, refresh)
        /\ <<s.applied, f.accepted>> # <<search.applied, filter.accepted>> => d = NoEdits
  BY DEF Renders
<1>2. draft' = d /\ search' = s /\ filter' = Accepts(d, f)
  BY <1>1 DEF Render
<1>3. Dirty(d) => Accepts(d, f) = f
  BY DEF Accepts
<1> QED
  BY <1>1, <1>2, <1>3 DEF Dirty

(* No step of either panel changes the search or the filter in force under *)
(* pending edits (confirmDraftReset and the accept effect).                *)
THEOREM EditsAlwaysKeepTheirQuery == RecordsSpec => EditsKeepTheirQuery
<1>1. ASSUME IInv, [TableStep \/ RecordStep]_allVars
      PROVE  [<<search'.applied, filter'.accepted>> # <<search.applied, filter.accepted>>
                => draft' = NoEdits]_vars
  <2>1. TypeOK
    BY <1>1 DEF IInv, RecordsTypeOK
  <2> SUFFICES ASSUME <<search'.applied, filter'.accepted>>
                        # <<search.applied, filter.accepted>>
               PROVE  draft' = NoEdits
    OBVIOUS
  <2>2. CASE RecordStep
    BY <2>1, <2>2, RecordStepBeside, RendersKeepQuery DEF Beside, shown
  <2>3. CASE Next
    <3>1. CASE TypeSearch
      BY <2>1, <3>1, TypedNow DEF TypeSearch, Searches
    <3>2. CASE Handlers \/ AddDraftRow
      BY <2>1, <3>2, HandlersRender, AddRenders, RendersKeepQuery
    <3>3. CASE ChangePage \/ Remount
      BY <3>3 DEF ChangePage, Remount
    <3>4. CASE SaveAnswered
      BY <3>4 DEF SaveAnswered, Render
    <3>5. CASE \/ ReadLoad \/ ReadPage \/ LoadAnswered \/ LoadFailed \/ PageAnswered
               \/ PageFailed \/ WriteRow \/ SaveChanges \/ CommitServed \/ SaveFailed
      BY <3>5 DEF ReadLoad, ReadPage, LoadAnswered, LoadFailed, PageAnswered, PageFailed,
         WriteRow, SaveChanges, CommitServed, SaveFailed, shown
    <3> QED
      BY <2>3, <3>1, <3>2, <3>3, <3>4, <3>5 DEF Next, Handlers
  <2>4. CASE UNCHANGED vars
    BY <2>4 DEF vars, shown
  <2> QED
    BY <1>1, <2>2, <2>3, <2>4 DEF TableStep, allVars
<1> QED
  BY <1>1, Invariance, PTL DEF RecordsSpec, EditsKeepTheirQuery
=============================================================================
