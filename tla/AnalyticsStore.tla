--------------------------- MODULE AnalyticsStore ---------------------------
(***************************************************************************)
(* The store of analytics definitions, publications and shares: an object  *)
(* map behind a read-write lock, checked against revisions, validated as a *)
(* whole and written to one JSON file that is replaced by a rename         *)
(* (backend/internal/analytics: store.go, publication.go, transfer.go and  *)
(* the handlers of http.go and share_routes.go).                           *)
(*                                                                         *)
(* A writer holds the lock from its checks until it replaces the map, so   *)
(* one request at a time is between those points; op is that request.  The *)
(* server may stop between any two steps and start again from the file.    *)
(***************************************************************************)
EXTENDS AnalyticsState

CONSTANTS
  Editors,          \* clients of the editor routes
  Viewers,          \* clients of the public share routes
  DatasetForms,     \* definitions an editor may send
  ChartForms,
  DashboardForms,
  LockedForms,      \* filters a share may be given
  InitialFiles,     \* what the file may hold when the server starts
  ReferenceBundle,  \* the definitions buildReference makes
  MaxWrites,        \* bound: writes attempted
  MaxCrashes        \* bound: crashes

(* What editors send has the fields of its type, and the server starts     *)
(* from a file that OpenStore accepts.                                     *)
ASSUME StoreConstants ==
  /\ DatasetForms \subseteq Dataset
  /\ ChartForms \subseteq Chart
  /\ DashboardForms \subseteq Dashboard
  /\ LockedForms \subseteq SUBSET Filter
  /\ \A f \in InitialFiles : f \in State /\ ValidState(f)
  /\ ReferenceBundle \in State
  /\ MaxWrites \in Nat /\ MaxCrashes \in Nat

VARIABLES
  up,        \* the server runs
  objects,   \* Store.objects
  file,      \* the file at Store.path
  op,        \* the request that holds the write lock, if any
  editor,    \* the editors
  bundle,    \* a dashboard bundle somebody exported
  viewer,    \* requests on public share routes
  lapsed,    \* shares whose expiry has passed
  revoked,   \* history: shares whose revocation was acknowledged
  writes,    \* writes attempted
  crashes    \* crashes so far

vars == <<up, objects, file, op, editor, bundle, viewer, lapsed, revoked,
          writes, crashes>>

----------------------------------------------------------------------------

(* A draft is an object an editor has read and may send back.  basis is    *)
(* history: whether that is still the stored object ("current"), has been  *)
(* overwritten ("updated"), or was deleted since ("deleted").              *)
Bases == {"current", "updated", "deleted"}

NoDraft == [kind |-> None, id |-> None, revision |-> 0, basis |-> "current"]

(* replaced is history: the basis of the last draft that was accepted.     *)
Editor ==
  [pc : {"idle", "waiting", "ok", "refused", "unknown"},
   draft : [kind : EditableKinds \cup {None},
            id : Datasets \cup Charts \cup Dashboards \cup {None},
            revision : Nat, basis : Bases],
   replaced : Bases]

(* revokes is the share a RevokeShare request is about.                    *)
Operation ==
  [by : Editors, stage : {"writing", "renamed"}, next : State,
   kind : EditableKinds \cup {None},
   id : Datasets \cup Charts \cup Dashboards \cup {None},
   revokes : Shares \cup {None}]

ASSUME OperationsApart == None \notin Operation \cup EditableKinds

Viewer == [pc : {"idle", "serving"}, share : Shares \cup {None}]

IdsOf(k) ==
  CASE k = "datasets" -> Datasets
    [] k = "charts" -> Charts
    [] k = "dashboards" -> Dashboards

FormsOf(k) ==
  CASE k = "datasets" -> DatasetForms
    [] k = "charts" -> ChartForms
    [] k = "dashboards" -> DashboardForms

TypeOK ==
  /\ up \in BOOLEAN
  /\ objects \in State
  /\ file \in State
  /\ op \in Operation \cup {None}
  /\ editor \in [Editors -> Editor]
  /\ bundle \in State \cup {None}
  /\ viewer \in [Viewers -> Viewer]
  /\ lapsed \subseteq Shares
  /\ revoked \subseteq Shares
  /\ writes \in Nat
  /\ crashes \in Nat

Init ==
  /\ up = TRUE
  /\ file \in InitialFiles
  /\ objects = file
  /\ op = None
  /\ editor = [e \in Editors |->
       [pc |-> "idle", draft |-> NoDraft, replaced |-> "current"]]
  /\ bundle = None
  /\ viewer = [v \in Viewers |-> [pc |-> "idle", share |-> None]]
  /\ lapsed = {}
  /\ revoked = {}
  /\ writes = 0
  /\ crashes = 0

----------------------------------------------------------------------------
(* Under the write lock: checks, then a file write is on its way.          *)

Unlocked == up /\ op = None

CanWrite(e) == Unlocked /\ editor[e].pc # "waiting" /\ writes < MaxWrites

Request(e, k, id, next, share) ==
  /\ op' = [by |-> e, stage |-> "writing", next |-> next,
            kind |-> k, id |-> id, revokes |-> share]
  /\ writes' = writes + 1
  /\ UNCHANGED <<up, objects, file, bundle, viewer, lapsed, revoked, crashes>>

Waits(e, basis) ==
  editor' = [editor EXCEPT ![e].pc = "waiting", ![e].replaced = basis]

(* Faulty variant: a new object starts without a revision.                 *)
SavedFromZero(k, id, def) ==
  [revision |-> IF objects[k][id] = None THEN 0 ELSE objects[k][id].revision + 1,
   def |-> def]

Saved(k, id, def) ==
  [revision |-> IF objects[k][id] = None THEN 1 ELSE objects[k][id].revision + 1,
   def |-> def]

(* POST: the object must not exist.                                        *)
Create(e, k, id, def) ==
  LET next == [objects EXCEPT ![k][id] = Saved(k, id, def)] IN
  /\ CanWrite(e)
  /\ objects[k][id] = None
  /\ ValidState(next)
  /\ Request(e, k, id, next, None)
  /\ Waits(e, "current")

(* Faulty variant: the revision of an update is not compared.              *)
AnyRevision(k, id, revision) == objects[k][id] # None

Matches(k, id, revision) ==
  objects[k][id] # None /\ objects[k][id].revision = revision

(* PUT: the draft carries the revision that was read.                      *)
Update(e, k, id, def) ==
  LET draft == editor[e].draft
      next == [objects EXCEPT ![k][id] = Saved(k, id, def)] IN
  /\ CanWrite(e)
  /\ draft.kind = k /\ draft.id = id
  /\ Matches(k, id, draft.revision)
  /\ ValidState(next)
  /\ Request(e, k, id, next, None)
  /\ Waits(e, draft.basis)

(* Faulty variant: a deletion is not validated.                            *)
DeleteUnchecked(e, k, id) ==
  LET draft == editor[e].draft
      next == [objects EXCEPT ![k][id] = None] IN
  /\ CanWrite(e)
  /\ draft.kind = k /\ draft.id = id
  /\ Matches(k, id, draft.revision)
  /\ Request(e, None, None, next, None)
  /\ Waits(e, draft.basis)

Delete(e, k, id) ==
  LET draft == editor[e].draft
      next == [objects EXCEPT ![k][id] = None] IN
  /\ CanWrite(e)
  /\ draft.kind = k /\ draft.id = id
  /\ Matches(k, id, draft.revision)
  /\ ValidState(next)
  /\ Request(e, None, None, next, None)
  /\ Waits(e, draft.basis)

(* Faulty variant: publishing a dashboard again reuses its publication.    *)
PublishAgain(e, b, p) ==
  LET draft == editor[e].draft
      snapshot == Snapshot(objects, b) IN
  /\ CanWrite(e)
  /\ draft.kind = "dashboards" /\ draft.id = b
  /\ Matches("dashboards", b, draft.revision)
  /\ Publishable(snapshot)
  /\ Request(e, None, None,
             [objects EXCEPT !.publications[p] = snapshot], None)
  /\ Waits(e, "current")

Publish(e, b, p) ==
  LET draft == editor[e].draft
      snapshot == Snapshot(objects, b) IN
  /\ CanWrite(e)
  /\ draft.kind = "dashboards" /\ draft.id = b
  /\ Matches("dashboards", b, draft.revision)
  /\ Publishable(snapshot)
  /\ objects.publications[p] = None
  /\ Request(e, None, None,
             [objects EXCEPT !.publications[p] = snapshot], None)
  /\ Waits(e, "current")

(* The filters the link is locked to are tried on every chart first.       *)
CreateShare(e, p, h, expires, locked) ==
  LET share == [publication |-> p, revision |-> 1, revoked |-> FALSE,
                expires |-> expires, filters |-> locked] IN
  /\ CanWrite(e)
  /\ objects.publications[p] # None
  /\ FiltersFit(objects.publications[p], locked)
  /\ objects.shares[h] = None
  /\ Request(e, None, None, [objects EXCEPT !.shares[h] = share], None)
  /\ Waits(e, "current")

RevokeShare(e, h, revision) ==
  /\ CanWrite(e)
  /\ objects.shares[h] # None
  /\ objects.shares[h].revision = revision
  /\ Request(e, None, None,
             [objects EXCEPT !.shares[h].revoked = TRUE,
                             !.shares[h].revision = @ + 1], h)
  /\ Waits(e, "current")

ImportDashboard(e, replace) ==
  /\ CanWrite(e)
  /\ bundle # None
  /\ replace \/ ~Overlaps(objects, bundle)
  /\ ValidState(bundle)
  /\ ValidState(Merge(objects, bundle))
  /\ Request(e, None, None, Merge(objects, bundle), None)
  /\ Waits(e, "current")

Alike ==
  Unchanged(objects.datasets, ReferenceBundle.datasets)
    \cup Unchanged(objects.charts, ReferenceBundle.charts)
    \cup Unchanged(objects.dashboards, ReferenceBundle.dashboards)

(* A definition that equals the stored one is left alone; two that are the *)
(* same here may differ in what is left out, so alike is any part of them. *)
(* Drafts are not asked for. With nothing to write it only replies.        *)
ImportReference(e, alike) ==
  LET next == MergeReference(objects, ReferenceBundle, alike) IN
  /\ CanWrite(e)
  /\ alike \subseteq Alike
  /\ next # objects
  /\ ValidState(next)
  /\ ReferenceCompiles(next, ReferenceBundle)
  /\ Request(e, None, None, next, None)
  /\ Waits(e, "current")

(* A request that is malformed, stale, about something that is not there   *)
(* or that would leave an invalid state: any editor may send one.          *)
Refuse(e) ==
  /\ Unlocked
  /\ editor[e].pc # "waiting"
  /\ editor' = [editor EXCEPT ![e].pc = "refused"]
  /\ UNCHANGED <<up, objects, file, op, bundle, viewer, lapsed, revoked,
                 writes, crashes>>

----------------------------------------------------------------------------
(* persist, and what follows it under the same lock.                       *)

(* Any step of persist up to the rename may fail: the file stays.          *)
PersistFails ==
  /\ up /\ op # None
  /\ op.stage = "writing"
  /\ editor' = [editor EXCEPT ![op.by].pc = "refused"]
  /\ op' = None
  /\ UNCHANGED <<up, objects, file, bundle, viewer, lapsed, revoked, writes,
                 crashes>>

(* History: what the new file makes of the draft an editor has.            *)
Basis(draft, next) ==
  IF draft.kind = None THEN draft.basis
  ELSE IF next[draft.kind][draft.id] = None THEN "deleted"
  ELSE IF draft.basis = "current" /\ next[draft.kind][draft.id]
                                       # file[draft.kind][draft.id]
    THEN "updated"
  ELSE draft.basis

Rename ==
  /\ up /\ op # None
  /\ op.stage = "writing"
  /\ file' = op.next
  /\ op' = [op EXCEPT !.stage = "renamed"]
  /\ editor' = [e \in Editors |->
       [editor[e] EXCEPT !.draft.basis = Basis(editor[e].draft, op.next)]]
  /\ UNCHANGED <<up, objects, bundle, viewer, lapsed, revoked, writes, crashes>>

(* Faulty variant: the request is acknowledged before the rename.          *)
SwapEarly ==
  /\ up /\ op # None
  /\ objects' = op.next
  /\ op' = None
  /\ editor' = [editor EXCEPT ![op.by].pc = "ok"]
  /\ revoked' = IF op.revokes = None THEN revoked ELSE revoked \cup {op.revokes}
  /\ UNCHANGED <<up, file, bundle, viewer, lapsed, writes, crashes>>

(* Faulty variant: the file is written, the map is not replaced.           *)
SwapForgotten ==
  /\ up /\ op # None
  /\ op.stage = "renamed"
  /\ op' = None
  /\ editor' = [editor EXCEPT ![op.by].pc = "ok"]
  /\ revoked' = IF op.revokes = None THEN revoked ELSE revoked \cup {op.revokes}
  /\ UNCHANGED <<up, objects, file, bundle, viewer, lapsed, writes, crashes>>

(* s.objects = next, unlock and reply; a saved object is the new draft.    *)
Swap ==
  /\ up /\ op # None
  /\ op.stage = "renamed"
  /\ objects' = op.next
  /\ op' = None
  /\ editor' = [editor EXCEPT
       ![op.by].pc = "ok",
       ![op.by].draft =
         IF op.kind = None THEN @
         ELSE [kind |-> op.kind, id |-> op.id, basis |-> "current",
               revision |-> op.next[op.kind][op.id].revision]]
  /\ revoked' = IF op.revokes = None THEN revoked ELSE revoked \cup {op.revokes}
  /\ UNCHANGED <<up, file, bundle, viewer, lapsed, writes, crashes>>

----------------------------------------------------------------------------
(* Under the read lock.                                                    *)

Load(e, k, id) ==
  /\ Unlocked
  /\ editor[e].pc # "waiting"
  /\ objects[k][id] # None
  /\ editor' = [editor EXCEPT ![e].draft =
       [kind |-> k, id |-> id, revision |-> objects[k][id].revision,
        basis |-> "current"]]
  /\ UNCHANGED <<up, objects, file, op, bundle, viewer, lapsed, revoked,
                 writes, crashes>>

ExportDashboard(b) ==
  /\ Unlocked
  /\ objects.dashboards[b] # None
  /\ bundle' = Bundle(objects, b)
  /\ UNCHANGED <<up, objects, file, op, editor, viewer, lapsed, revoked,
                 writes, crashes>>

Resolvable(h) ==
  /\ objects.shares[h] # None
  /\ ~objects.shares[h].revoked
  /\ ~(objects.shares[h].expires /\ h \in lapsed)

(* The publication a viewer is served from is the one resolved here; the   *)
(* query that follows does not look at the share again.                    *)
ResolveShare(v, h) ==
  /\ Unlocked
  /\ viewer[v].pc = "idle"
  /\ Resolvable(h)
  /\ viewer' = [viewer EXCEPT ![v] = [pc |-> "serving", share |-> h]]
  /\ UNCHANGED <<up, objects, file, op, editor, bundle, lapsed, revoked,
                 writes, crashes>>

AnswerViewer(v) ==
  /\ up
  /\ viewer[v].pc = "serving"
  /\ viewer' = [viewer EXCEPT ![v] = [pc |-> "idle", share |-> None]]
  /\ UNCHANGED <<up, objects, file, op, editor, bundle, lapsed, revoked,
                 writes, crashes>>

----------------------------------------------------------------------------
(* The environment.                                                        *)

Lapse(h) ==
  /\ objects.shares[h] # None
  /\ objects.shares[h].expires
  /\ h \notin lapsed
  /\ lapsed' = lapsed \cup {h}
  /\ UNCHANGED <<up, objects, file, op, editor, bundle, viewer, revoked,
                 writes, crashes>>

(* The server stops; whoever waits for an answer never learns it.          *)
Crash ==
  /\ up
  /\ crashes < MaxCrashes
  /\ up' = FALSE
  /\ crashes' = crashes + 1
  /\ op' = None
  /\ editor' = [e \in Editors |->
       IF editor[e].pc = "waiting" THEN [editor[e] EXCEPT !.pc = "unknown"]
       ELSE editor[e]]
  /\ viewer' = [v \in Viewers |-> [pc |-> "idle", share |-> None]]
  /\ UNCHANGED <<objects, file, bundle, lapsed, revoked, writes>>

(* OpenStore refuses a file that does not validate.                        *)
Open ==
  /\ ~up
  /\ ValidState(file)
  /\ up' = TRUE
  /\ objects' = file
  /\ UNCHANGED <<file, op, editor, bundle, viewer, lapsed, revoked, writes,
                 crashes>>

EditorStep(e) ==
  \/ \E k \in EditableKinds : \E id \in IdsOf(k) :
       \/ \E def \in FormsOf(k) : Create(e, k, id, def) \/ Update(e, k, id, def)
       \/ Delete(e, k, id)
       \/ Load(e, k, id)
  \/ \E b \in Dashboards, p \in Publications : Publish(e, b, p)
  \/ \E p \in Publications, h \in Shares, expires \in BOOLEAN, locked \in LockedForms :
       CreateShare(e, p, h, expires, locked)
  \/ \E h \in Shares, revision \in 1..2 : RevokeShare(e, h, revision)
  \/ \E replace \in BOOLEAN : ImportDashboard(e, replace)
  \/ \E alike \in SUBSET (Datasets \cup Charts \cup Dashboards) : ImportReference(e, alike)
  \/ Refuse(e)

Next ==
  \/ \E e \in Editors : EditorStep(e)
  \/ \E b \in Dashboards : ExportDashboard(b)
  \/ PersistFails \/ Rename \/ Swap
  \/ \E v \in Viewers : AnswerViewer(v) \/ \E h \in Shares : ResolveShare(v, h)
  \/ \E h \in Shares : Lapse(h)
  \/ Crash
  \/ Open

Spec == Init /\ [][Next]_vars

----------------------------------------------------------------------------
(* Properties.                                                             *)

(* The file can always be opened again: whatever was saved, deleted,       *)
(* imported or published, and wherever the server stopped, no reference    *)
(* dangles and no charts form a cycle of layers.                           *)
FileOpens == ValidState(file)

(* What is served is what is saved, whenever the lock is free.             *)
ServedIsSaved == Unlocked => objects = file

(* Of the editors who read one revision of an object, one at most saves    *)
(* over it or deletes it; the others are refused, also when the winner was *)
(* never told so because the server stopped.                               *)
OneWinner == \A e \in Editors : editor[e].replaced # "updated"

(* A save or a deletion never hits an object its editor has not read.      *)
ConcurrentEditsConflict == \A e \in Editors : editor[e].replaced = "current"

(* A filter reaches a chart: it is for all widgets, or for one that shows  *)
(* the chart.                                                              *)
Meets(pub, f, c) ==
  f.targets = {} \/ \E w \in pub.dashboard.widgets :
                      w.id \in f.targets /\ c \in WidgetShows(pub, w)

(* Every definition that the charts, relationships, native filters and the *)
(* dashboard filters of a publication's queries refer to is in it, and no  *)
(* chart is in it that no widget shows.  A filter for texts only is not    *)
(* part of a query, and its dataset may be missing.                        *)
Closed(pub) ==
  LET Has(d) == pub.datasets[d] # None IN
  /\ \A c \in WidgetCharts(pub.dashboard) : pub.charts[c] # None
  /\ \A f \in pub.dashboard.nativeFilters : Has(f.dataset)
  /\ \A d \in Present(pub.datasets) :
       \A r \in pub.datasets[d].relationships : Has(r.dataset)
  /\ \A c \in Present(pub.charts) :
       /\ Has(pub.charts[c].dataset)
       /\ \A l \in pub.charts[c].layers : pub.charts[l] # None
       /\ \E w \in pub.dashboard.widgets : c \in WidgetShows(pub, w)
  /\ \A c \in PlainCharts(pub) :
       /\ \A ref \in pub.charts[c].uses : Has(ref.dataset)
       /\ \A f \in pub.dashboard.filters :
            Meets(pub, f, c) => Has(Source(f, pub.charts[c].dataset))

(* What a link is locked to narrows every chart it reaches: none is served *)
(* with one of the locked filters left out.                                *)
Narrowed(pub, locked) ==
  \A f \in locked, c \in PlainCharts(pub) :
    Meets(pub, f, c) =>
      LET root == pub.charts[c].dataset
      IN  Known(pub, f, root) /\ MappedTo(pub, f, root) # {}

ShareFits(s, share) ==
  /\ s.publications[share.publication] # None
  /\ Narrowed(s.publications[share.publication], share.filters)

AllClosed(s) ==
  /\ \A p \in Present(s.publications) : Closed(s.publications[p])
  /\ \A h \in Present(s.shares) : ShareFits(s, s.shares[h])

(* The file the server first starts from holds publications of its own.    *)
ASSUME FilesClosed == \A f \in InitialFiles : AllClosed(f)

(* A viewer finds in a publication every definition it needs, whatever     *)
(* became of the ones it was made of, and the filters its link is locked   *)
(* to can be applied to every chart it can ask for.                        *)
PublicationsClosed == AllClosed(file)

(* Every dashboard that is saved can be exported as a bundle that another  *)
(* installation accepts.                                                   *)
ExportsImportable ==
  \A b \in Present(file.dashboards) : ValidState(Bundle(file, b))

(* A publication never changes and never disappears, whatever happens to   *)
(* the definitions it was made of and wherever the server stops.           *)
PublicationsPinned ==
  [][\A p \in Present(file.publications) :
       file'.publications[p] = file.publications[p]]_vars

(* Once the revocation of a share has been acknowledged no request on its  *)
(* link is served any more, also after a restart.                          *)
RevokedNotServed ==
  [][\A v \in Viewers :
       viewer[v].pc = "idle" /\ viewer'[v].pc = "serving" =>
         viewer'[v].share \notin revoked]_vars

Durable == INSTANCE DurableObjects WITH
  Clients <- Editors,
  Valid <- ValidState,
  contents <- file,
  client <- [e \in Editors |->
    IF editor[e].pc # "waiting" THEN editor[e].pc
    ELSE IF op = None THEN "pending"
    ELSE IF op.stage = "writing" THEN "pending" ELSE "applied"]

(* The store with its lock, its file and its crashes implements the        *)
(* durable objects.                                                        *)
ImplementsDurable == Durable!Spec
============================================================================
