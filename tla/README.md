# A verification of GeoPanel's GIS service

GeoPanel (this repository) is a web application for maps and dashboards over
PostGIS databases: a Go backend (`src/backend`), a React frontend
(`src/frontend`) and a catalogue database. This directory holds TLA+ models of
the parts of it that keep state and can be used by several people at once, TLC
configurations that check them on small instances, and proofs that TLAPS
checks for instances of any size.

Contents: 1 inventory, 2 plan, 3 the models, 4 the runs, 5 fairness,
6 the proofs, 7 what disagrees with the documents, 8 limits.

## 1 Inventory

Paths are relative to `src/backend/internal` or, for the frontend, to
`src/frontend/src/features`.

| Component | State | Operations | Talks to |
|---|---|---|---|
| Query cache and flights (`analytics/query_cache.go`, `query_routes.go`) | `entries`, `flights` under a mutex, a channel of 4 slots | execute a query (hit, join, start, refuse), run a flight, leave, preview | definition store, PostgreSQL |
| Definition store (`analytics/store.go`, `types.go`, `http.go`) | object map under a read-write lock, one JSON file | get, list, save, delete, open, persist | editors, query compiler |
| Publications and shares (`analytics/publication.go`, `share_routes.go`) | two kinds of objects in the same store | publish, create, resolve and revoke a share, viewer's query | store, cache, viewers |
| Transfer (`analytics/transfer.go`) | none | export and import a dashboard with what it needs | store |
| Reference import (`analytics/import_reference.go`) | none | build definitions from a foreign description, save them | store |
| Query compiler (`analytics/query.go`) | none | compile a query or a filter | store, publications |
| Workspaces (`auth/workspaces.go`, `workspace_http.go`) | tables of workspaces, members, group roles | create, put and remove a member, put and remove a group's role | PostgreSQL, every authorized route |
| API tokens (`auth/api_tokens.go`, `token_http.go`) | table of tokens | create, rotate, revoke, authenticate | memberships |
| OIDC and sessions (`auth/browser.go`, `flow_store.go`, `session_store.go`, `oidc.go`, `middleware.go`) | one-time flows and sessions in tables | begin, callback, read a session, log out | identity provider |
| Tile sources (`httpapi/layers.go`, `server.go`) | map of sources with a time to live under a mutex | register, renew, read, prune | frontend map |
| Tile pools (`postgres/connections.go`) | map of connection pools with a time to live | get or open, close when idle | PostgreSQL |
| Table edits (`postgres/mutations.go`, `writes.go`, `httpapi/records.go`) | a transaction | insert, update, delete, commit a batch | PostgreSQL |
| Reading services (`postgres/service.go` and others) | none | rows, relations, catalogue, layers, flow maps | PostgreSQL |
| Frontend auth stores (`auth/store.ts`, `management-store.ts`) | signed-in user, selected workspace, its members and tokens, loading flags | initialize, log in and out, select, load, change | backend, asynchronously |
| Frontend analytics (`analytics/workspace-store.ts`, `WorkspaceAnalytics.tsx`, `DashboardViewer.tsx`, `DashboardBuilder.tsx`, `ChartBuilder.tsx`, `DatasetEditor.tsx` and others) | source, selection and filters of the dock, charts on the map, definitions under edit, chart results | analyse, filter, query with an abort, edit, save, publish, share, export, import | backend, asynchronously; the map and the table, through the shared store |
| Frontend connections (`connections/store.ts`, `ConnectionManager.tsx`, `ConnectionCatalog.tsx`, `MapLayerEditor.tsx`, `App.tsx`) | connections, sources, layers, saved views, kept in `localStorage`; the catalogue, the chosen table, layer and object | add, test, select, remove, load a catalogue, add and edit a layer, save a view, migrate an older state | backend, asynchronously; the inspector and the dock |
| Frontend inspector (`inspector/DataInspector.tsx`, `RecordPanels.tsx`) | a page of rows, pending edits, the selected row with its related rows, panels of single records | load, page, search, filter, edit, commit, inspect | backend, asynchronously; the filters of views and of the dock |
| Map, filters, layout, texts, onboarding, scripts, deployment | presentation | rendering | - |

What is hard in each, and what makes it correct:

* *Query cache.* Requests join, leave and time out while the goroutine of a
  flight goes on by itself. Correct when nobody's query is cancelled by another
  one's departure, a query runs once, every slot comes back, the maps stay within
  their limits and answers never go back in time for a key.
* *Definition store.* Several editors hold drafts of the same objects, and the
  server may stop between the rename of the file and the moment the editor is
  told. Correct when exactly one of the drafts of one revision is accepted, an
  accepted one survives, one that was refused leaves no trace, and the file
  always opens again, which needs every reference in it to resolve.
* *Publications, shares, transfer.* A publication must hold a closed copy of
  everything its dashboard reaches, a bundle likewise; neither may change with
  the originals; a revoked link must stay dead over restarts.
* *Workspaces.* Two changes, each allowed by itself, may together remove the last
  administrator; a refused one must give its lock back.
* *API tokens.* Rotations, revocations, changes of role and authentications
  overlap between their SQL statements.
* *OIDC and sessions.* A login flow must be used once; a session must not outlive
  its expiry or a logout.
* *Tile sources and pools.* Renewal and use race with expiry.
* *Table edits.* A batch is committed wholly or not at all, and never to a row
  other than the one that was edited.
* *Frontend inspector.* Reads of a page, commits and changes of the query overlap.
  Correct when what is shown is no older than what was saved, a new row is
  inserted once, and edits stay with the rows they were made on.
* *Frontend analytics.* A dozen effects ask for charts whenever a source, a
  filter, a selection or a definition changes, and drafts are edited while
  their own saves are under way. Correct when no answer is taken for a newer
  question and no save overwrites a revision its editor has not seen.
* *Frontend connections.* Layers, sources, views and connections refer to each
  other and are removed one by one, also by a list that comes from the server;
  answers arrive after the selection that asked for them is gone. Correct when
  every reference resolves and what is chosen exists.

The hazards, each at its line and with the properties that cover it, are listed
in `PROJECT.json`.

## 2 Plan

Done, in the order in which it was planned:

1. `QueryCache`, with its promise `QueryAnswers`: checked and proved.
2. `AnalyticsState` (the data and its pure functions), `AnalyticsStore` (the
   store with publications, shares, transfer and the reference import), with its
   promise `DurableObjects`: checked and proved.
3. `Workspaces`, `ApiTokens`: checked and proved.
4. `SignIn`, the sessions with the pages that use them: checked and proved.
5. `DataInspector` and `RelatedRecords`: the table panel with the writes of its
   rows: checked and proved.
6. The analytics screens (`AnalyticsDock`, `DashboardViewer`, `DashboardBuilder`,
   `ChartEditor`, `DatasetEditor`, over `Screens`), composed in
   `AnalyticsScreens`: checked and proved.
7. `ConnectionStore`, with `LayerEditor`, `SourcesPanel` and `PanelForms` on top of
   it, composed in `Connections`: checked and proved.

Left, in this order; section 8 says why each is not here yet or will not be:

8. A composition of shares with the query cache: a definition that is edited
   between the reads of one compilation, a link revoked before its answer.
9. The management store of the frontend, and registered tile sources with their
   expiry.

## 3 The models

### QueryCache and QueryAnswers

`QueryCache` models one process of the backend. The variables `entries`,
`flights` and `slots` are the fields of `queryCache` and the slots channel of
`queryService`; `flight` holds the `queryFlight` objects with the place their
goroutine has reached; `caller` and `preview` hold the requests. Everything under
`cache.mu` is one action:

| Code | Actions |
|---|---|
| the first locked section of `executeCompiledScopedFresh` | `HitCache`, `JoinFlight`, `StartFlight`, `RejectFull` |
| the request's context ends, then its second locked section | `Disconnect`, `Leave` |
| `<-flight.done` | `Receive` |
| `queryService.execute` | `AcquireSlot`, `AbandonSlot`, `ExecuteOk`, `ExecuteFail` |
| the last locked section of `runFlight` | `Finish` (with `MayStore`, `MakeRoom`, `Store`) |
| previews and filter options, which share the slots | `PreviewAsk`, `PreviewStart`, `PreviewAbandon`, `PreviewEnd` |
| other programs write to the tables, time passes | `WriteSource`, `Tick` |

The database is a version counter and a result is the version it was read at.
The key stands for the digest of scope, compiled query and revisions.
A flight is cancelled when its last waiter leaves; its goroutine then runs on
for as long as it likes, which is the interesting case: a newer flight of the
same key may finish before it. `newest` is history.

`QueryAnswers` is what a client may rely on: a question is answered once, or
fails, and an answer is a version the source had and no older than the newest
version kept for the key when it was asked. `ImplementsAnswers` is the
refinement: a request is its client's question, flights and slots are hidden.

### AnalyticsState, AnalyticsStore and DurableObjects

`AnalyticsState` translates `types.go` and the functions that have no state of
their own: `validateState`, the closures of `Publish` and `ExportDashboard`, the
merge of `ImportDashboard`. An object is reduced to its references (charts to
datasets, fields and layers; dashboards to charts, native filters and filters;
datasets to related datasets), because these are what the validation reads.
The forms a definition can have in a run are listed in `MCAnalyticsStore`.

A filter of a dashboard or of a link is for every widget or for those it names
(`targets`), and a widget shows its chart with all layers under it (`WidgetShows`).
`QueryFits` is `Publication.query` of one chart in one widget: of the filters that
apply there (`Applying`) each must be known, which takes a pinned dataset with that
field; it goes over to the chart's dataset by itself, by a field of the same meaning
or across a relationship (`MappedTo`); one that does not is left out if it is an
unscoped filter of the dashboard, and refused if it is scoped or locked
(`Mandatory`). `FiltersFit` is `validateFilters`, which `Publish` runs without locked
filters and `CreateShare` with those of the link. Texts are passed over. `Publish`
pins the datasets of charts and native filters and not those of `Dashboard.Filters`:
a filter for texts only is published with a dataset that is not there, and no query
ever asks for it. `PublicationsClosed` therefore says of a publication that whatever its
widgets' queries refer to is there (`Closed`, over the filters that meet a chart,
`Meets`), and of a link that its locked filters narrow every chart they meet
(`Narrowed`), so that none is answered without them.

`AnalyticsStore` has the store. A writer holds the lock from its checks to the
replacement of the map, so `op` is one request at a time in two stages:

| Code | Actions |
|---|---|
| `Save`, `Delete`, `Publish`, `CreateShare`, `RevokeShare`, `ImportDashboard`, `ImportReference` up to `persist` | `Create`, `Update`, `Delete`, `Publish`, `CreateShare`, `RevokeShare`, `ImportDashboard`, `ImportReference`, `Refuse` |
| `persist` | `PersistFails`, `Rename` |
| `s.objects = next`, unlock, reply | `Swap` |
| reads under the read lock | `Load`, `ExportDashboard`, `ResolveShare` |
| a viewer is answered | `AnswerViewer` |
| the process stops and starts again | `Crash`, `Open` |
| the expiry of a share passes | `Lapse` |

An editor keeps the draft it loaded with its revision; `basis` and `replaced` are
history about what has happened to the object since. `DurableObjects` is the
promise: a valid change is committed in one step between submission and
acknowledgement, contents are always valid, and a client that lost touch does
not know the outcome. The commit is the rename of the file, not the swap of the
map: after a crash between them, the change is there.

The definitions that `ImportReference` brings are a constant, `ReferenceBundle`:
their translation from the foreign description depends on nothing but a file. It
asks for no draft, leaves definitions alone that are alike (`alike`: two that are
equal in the model may differ in what the model leaves out, so any of them may be)
and, when nothing would change, writes nothing.

### Workspaces

Rows of the three tables, the row lock on the workspace and the requests.
`Authorize` is the check before the operation, in a query of its own. `PutMember` and
`RemoveMember` are `Lock` (`SELECT ... FOR UPDATE` on the workspace), `Load`,
`Count` (only when an administrator would stop being one), `Commit` or
`Rollback`. `PutGroupRole` and `RemoveGroupRole` are one statement,
`ChangeGroup`; a new row waits for the lock because it refers to the workspace.
Administrators through a group are administrators for `Authorize` and not for
`Count`, as in the code.

### ApiTokens

Rows of the table, a row lock and requests with the step they have reached.
Creation is `ReadTarget` (the role of the token's subject) and `Create` (the
insert); rotation is `BeginRotation` (the transaction and the secret), `LockToken`
and `Rotate`; revocation is one statement, `Revoke`; authentication is
`BeginAsking`, `Lookup` (the join with the members) and `Accept` (the update of
the last use). `ChangeRole` and `Tick` happen between any two of these.
`dead` and `best` in a request are history: whether its token was dead when it
came, and the best role its subject has had since. Who may call the routes of
tokens is left out, so any request may come in: the properties hold for more
behaviours than the code has.

### SignIn

Rows of the flows and of the sessions, the codes of the identity provider
(external), the tabs of one browser with the cookie they share, and the requests.
`Login` stores a flow and sends the tab away; `Authorize` is the provider, which
may be visited more than once for one login; `Return` is a callback with any
state and any code that exist, also while an earlier one is being served. A
callback goes through `TakeFlow` (`DELETE ... RETURNING`), `Redeem` (the exchange and the
comparison of nonces), `PutSession` and `SignedIn` (the answer that sets the cookie
and loads the application). A page calls `Initialize` when it is mounted, twice under
React's `StrictMode`, and shares one lookup (`Lookup`, `Answer`) among calls that overlap;
`Use` stands for the calls of the management API, the only ones whose refusal
makes the page forget its user. Logout is `Logout`, `DeleteSession`, `SignedOut`. `Fail` ends
any request at any step: a refusal, an error, a lost answer or a server that
stops, which are alike because the server keeps nothing in memory. A tab that is
reloaded or sent elsewhere no longer hears of its requests (`Orphaned`), which
the server goes on serving.

Errors of `Login` are the tab going elsewhere (`Visit`). The expiry of the cookie
in the browser is left out: sending it longer gives more behaviours.

### What the models of the frontend have in common

A gesture of the user runs its handler and the effects React runs after it in one
step, because nothing else of the page runs between them; `Render`,
`Rerender` and `View` are those effects. A request is asked for in one step, served
in a second where the server's state matters, and answered in a third, and
anything may happen in between. An effect that is run again gives its request up
(`isActive`, an `AbortController`): the answer may still come, as `late` or not at
all, and the model lets it come and shows that it is dropped. Requests of handlers
have no such guard in the code, and none in the model.

### DataInspector and RelatedRecords

`DataInspector` has the database table with a version, the page that is shown with
the query and the version it answers, the pending edits, and the requests.

| Code | Actions |
|---|---|
| search box, its delay, filters of views and of the dock | `TypeSearch`, `ApplySearch`, `ChangeFilter`, `ApplyPendingFilter` |
| refresh, a new feature on the map | `RefreshRows`, `RefreshFromOutside` |
| `loadRows` of the effect | `ReadLoad`, `LoadAnswered`, `LoadFailed` |
| `handlePageChange` | `ChangePage`, `ReadPage`, `PageAnswered`, `PageFailed` |
| edits of cells, deletions, new rows, discard | `EditCell`, `ToggleDelete`, `AddDraftRow`, `RemoveDraftRow`, `DiscardChanges` |
| `handleSaveChanges` | `SaveChanges`, `CommitServed`, `SaveAnswered`, `SaveFailed` |
| other programs, another table and back | `WriteRow`, `Remount` |

The load of the effect is guarded by `isActive`, a page that is asked for by its
button is not: it may come after a load that was asked for later. `overtaken` is
history that says it did, and `ReadsOwnWrites` excepts it, as it excepts a failed
read and a filter that cannot be applied. `lost` counts for each new row the answers of
commits with it that were lost, after each of which the panel keeps a row that is
already stored; `InsertOnce` allows one insertion more for each of them.

`RelatedRecords` adds the selected row, the rows of another table that refer to it
and the panels opened on those, with their fields, their deletion and their
saves. A page, a load or a search under way may take the selected row off the
page, which the effect answers by listing nothing.

### The analytics screens

`Screens` has the one thing the screens share: what a chart, a list or a preview
asks (`wants`), what it shows, whether a request runs, and a question given up
whose answer is still on its way.

* `AnalyticsDock`: the shared store (source, selection, filters, extent), the charts
  in the dock, over the map and in layers of it with their queries, the
  creation of a dataset or a quick chart in several requests. `Asks` is the
  question that follows from the store; `Settle` is `useChartQuery`. `ws.by` is the
  `sourceWidgetId` of the filters in force, one of `Origins`: the chart of the preview
  they were picked in, a layer of the map (for all charts of a composite layer), or a
  dashboard. `FiltersOfOthers` leaves them out of the chart or layer they are from and
  of no other one; a chart over the map has no source of its own and leaves out
  nothing. A quick chart gets a new id whenever it is made anew, and then is filtered
  by what was picked in it before: `dock.picked` says whether the one shown is still
  the one picked in, and `Choose` when it is made anew. Nothing is drawn for a chart
  whose dataset is not in the list (`Rendered`). `DockAnswersFit` does not use `Asks`:
  `PreviewShows`, `OverlayShows` and `LayerShows` state what a result may be limited by
  in terms of the store, and the proof shows that the questions asked agree.
* `DashboardViewer`: filters set by a toolbar, a control or a click on a chart, the
  requests of each widget and of the layers of a composite map, the choices
  offered for a filter, the timers, and the page of a publication.
* `DashboardBuilder`: a draft with its layout, controls and default filters; its
  saves, publications and links, beside another editor of the same
  dashboards. Requests are not guarded by what is chosen, and the model takes their
  answers whatever is chosen, as the code does.
* `ChartEditor`: the draft of a chart, its form for each type, previews and saves. One
  load of the catalogue runs at a time. `replaced` marks a draft that an
  answered save or the first load put in place of the one on trial, with another
  question (`SameQuestion`).
* `DatasetEditor`: tabs, the form of a dataset, its preview, bundles out and in.
  `overtaken` marks a preview whose draft was edited while it ran, which the code
  shows all the same.

Only one of these screens is mounted, so `AnalyticsScreens` puts them side by
side and a behaviour stays in the `place` it begins in. `MCAnalyticsScreens` gives
them their small instance.

### Connections and layers

`ConnectionStore` has the store as one value and an operator for each of its
operations, with the migrations of what an older build left in `localStorage` and
what a reload keeps. `LayerEditor` has the drafts of a layer's settings: the effect
that sets them to the layer whenever the store has a new object for it, and the
moments at which they are written. `SourcesPanel` is the page around the store:
every step ends with `Render`, which runs the effects in their order. `PanelForms`
has the forms for a connection, its test, its schemas and a new layer. `late` marks a
catalogue, a form or a dialog that an answer for another connection or another form has
reached; the code has no guard there, so `ChoicesStand` excepts exactly these until
they are cleared.

`busy.left` has the connections that an earlier page left as being tested. The store
keeps the state of a test (`partialize`, store.ts:890) and a page that is loaded takes
it as it is (`normalizeConnection`, store-helpers.ts:109), so a page that is left amid a
test shows "Testing" on its return, with no test under way, until the next test
of that connection. `TestsRun` excepts these.

`Connections` composes them: a behaviour stays in one `place`, the store called in any
order or one of the four panels over it, and all of them share `store`. `PlacesOf`
says where a page may begin with what an earlier one left; the theorems hold for
every choice of it, the small instance begins each place where its gestures have
something to act on. Lists are selected from with `Only` and migrated with `MigrateLegacy`, which are recursive
functions along the list rather than `SelectSeq` and a fold, because the provers can
reason about the former. `MCConnections` gives the small instance.

## 4 The runs

| Run | Instance | Shows |
|---|---|---|
| `query_cache` | 2 callers, 2 keys, 2 flights, 1 preview, 1 entry, 1 registered flight, 2 slots | `TypeOK`, `LiveWorkKept`, `OneFlightPerKey`, `SlotsAccounted`, `CacheBounded`, `NoStaleAnswer`, `ImplementsAnswers` |
| `query_cache_live` | 2 callers, 1 key, 2 flights, 1 preview, 1 slot | `EveryRequestEnds`, `AbandonedWorkEnds` |
| `store_integrity` | 2 datasets, 2 charts, 1 dashboard, 2 widgets, 1 publication, 1 share, 3 writes, 1 crash | `TypeOK`, `FileOpens`, `PublicationsClosed`, `ExportsImportable` |
| `store_editing` | 2 editors, 1 dataset, 1 chart, 4 writes, 1 crash | `ServedIsSaved`, `OneWinner`, `ImplementsDurable` |
| `store_sharing` | 1 dashboard, 2 publications, 1 share, 1 viewer, 4 writes, 1 crash | `PublicationsPinned`, `RevokedNotServed` |
| `store_recreated` | as `store_editing` | `ConcurrentEditsConflict` is violated, see 7 |
| `workspaces` | 1 workspace, 2 people, 1 group, 2 requests | `AdminRemains`, `EveryChangeEnds` |
| `api_tokens` | 3 tokens, 1 subject, 1 scope, 3 roles, 2 requests, 2 ticks | `OneSuccessor`, `RevocationFinal`, `DeadTokenRefused`, `ScopesWithinRole` |
| `sign_in` | 2 tabs, 2 requests, 2 flows, 2 codes, 2 sessions, 1 person, lifetimes of 1 tick, 2 ticks | `TypeOK`, `SessionsFromFlows`, `SignInKept`, `DeadSessionRefused`, `AnonymousSticks` |
| `data_inspector` | 2 rows on 2 pages, 1 column, 2 values, 1 new row, 2 searches, 2 filters, 1 page request, 1 related record, 4 gestures, 1 event from outside | `RecordsTypeOK`, `ReadsOwnWrites`, `InsertOnce`, `RelatedFits`, `EditsKeepTheirQuery` |
| `analytics_screens` | 2 tables, 3 datasets, 2 widgets, 2 dashboards, 4 charts, 2 bundles, 3 or 4 gestures in each screen | `ScreensTypeOK`, `AnswersFit`, `DraftsFit` |
| `connections` | 2 connections, 2 tables, no or 4 earlier states, 3 gestures in each place | `ConsoleTypeOK`, `LayersStand`, `ChoicesStand` |

The types of `Workspaces` and `ApiTokens` are proved (section 6) and not checked
again by a run.

Why the bounds are enough for the cases of interest:

* `query_cache`: one cache entry and two keys make every second result evict
  another one; one registered flight and two callers reach the refusal; two
  flight identities allow an abandoned flight to run beside its successor; one
  change of the source and one tick separate fresh from stale and valid from
  expired. The flights limit of the code (64) and the entries limit (64) are
  constants. `MaxSource` and `MaxNow` bound the environment only.
* `store_integrity`: two datasets give a relationship that dangles; two charts
  give a map with a layer and a cycle; three writes are enough to make, publish
  and then change or delete. The files the server may find at its start
  (`IntegrityFiles`) already hold a dashboard, so that the three writes are
  spent on what comes after. `MaxWrites` and `MaxCrashes` are bounds. Two
  widgets give a dashboard with a filter for its text only and one with a filter for its
  chart only, and the locked filters of a link (`IntegrityLocks`) are of a dataset with
  a relationship to the chart's or without, or of the chart's own.
* `store_editing`: two drafts of one object and four writes reach a delete, a
  new creation, and an update from the older draft.
* `workspaces`: two people are the smallest number where each of two
  administrators can be taken away by a request of the other.
* `api_tokens`: three tokens are a token, its successor and one that a second
  rotation would produce.
* `sign_in`: two flows and two codes give a callback that is repeated, one with a
  second code for the same login, and one that mixes two logins; two tabs give
  a logout that meets a sign-in; two ticks let a session and a flow expire.
  `MaxNow` is a bound.

* `data_inspector`: two rows and pages of one row make a search, a filter, a
  deletion or another writer move rows between pages; four gestures
  (`MaxGestures`) are an edit, a save, a change of page and one of query while all
  of them are under way; `MaxOthers` bounds what comes from outside, lost answers
  included, and `PageSlots` the pages under way. Two slots do not fit the time of
  the run: what several pages under way can do is in the proof.
* `analytics_screens`: `DockGestures` (4) choose a source, filter, change the source
  again and draw a chart; `ViewGestures` (3) reach a filter changed twice under one
  request; `BoardGestures` (4) edit, save, edit and save while another editor
  writes; `EditGestures` (3) and `DeskGestures` (4) edit while a preview and a save
  run. Each screen begins with definitions that are saved, so that gestures
  are spent on what follows. `DeskSends` and `Publications` are bounds.
* `connections`: `StoreGestures`, `EditorGestures` and `PanelGestures` (3) are enough
  to leave a connection, come back and change what the first answer is about.
  The states a page may start from (`MCFirstStored`) are none, a layer on a saved
  view, an import of an older build with two layers of one source, a layer of each
  kind, and the server's connection alone, left amid its test. `MCPlacesOf` begins the
  store's calls with the first three, the catalogue with the second, settings and map
  with the fourth and the forms with the last two; the run has about 330,000 states.
  What holds of any such state in any place (`StoredAlike`) is in the proof.

Deadlock is checked in every run but the three of the frontend: their gestures are
bounded, and a user may stop.

Symmetry is used in the safety-only runs where identities are
interchangeable (`query_cache`, `api_tokens`, `sign_in`), never with liveness.

## 5 Fairness

`QueryCache!FairSpec`: the Go scheduler runs every goroutine that can run; a
flight waits for a slot at most until its deadline (twenty seconds) and an
execution ends by its statement timeout, so each stage of a flight is weakly
fair, and so is a request whose `select` has a ready branch. Clients, writers
and the clock are not fair: nobody has to leave, write or wait.

`Workspaces!FairSpec`: PostgreSQL grants a row lock to the requests in the order
they asked, so one whose turn keeps coming gets it (strong fairness of `Lock` and
of `ChangeGroup`); a transaction that holds the lock runs on (weak
fairness), and the handler rolls back one that a check refuses. Nothing needs to
fail for a request to end.

The other specifications are checked for safety only.

## 6 The proofs

`TLAPS` checks them from nothing. They hold for every value of the constants
that satisfies the named assumptions (finite sets of callers, flights and
subjects, positive limits, a reserved value `None`).

*Query cache* (`QueryCacheProofs`). `LiveWorkKept` and
`OneFlightPerKey` relate structures that change in different actions, so the
inductive invariant is `TypeOK /\ Links /\ SlotsAccounted`. `Links` ties them
together: a waiting request has a flight that exists (`CallerLinks`); a running
flight counts exactly its waiters, has none once it is cancelled and is
registered until then (`FlightLinks`); a registered flight is running, has that
key and is not cancelled (`MapLinks`). The count matters: `Leave` cancels when
`waiters` falls to zero, and only its equality with the number of attached
requests makes that the last one. `SlotsAccounted` needs one lemma on the
cardinality of the executions for each action that begins or ends one.

`CacheBounded` is proved from the finiteness of the entries. The comparison of
versions needs more: a cached result is the newest one
(`CacheFresh`), a flight that has its rows and is still wanted was not overtaken
(`FlightFresh`), and a waiting request asked before its flight had read the source
(`CallerFresh`). `NoStaleAnswer` follows, and with it the step-by-step refinement
of `QueryAnswers`. `FlightFresh` is where the test in `runFlight` is needed that
only a flight which is still in the table may store its result.

*Workspaces* (`WorkspacesProofs`). `AdminRemains` is not inductive: at `Commit`
nothing in it says why taking an administrator away is safe. The invariant
adds `Asking` (a request past authorization has a change), `Locking` (a request in
a transaction holds the lock of its workspace), `Reading` (what it loaded is still
the member's role, since nobody else can commit) and `Counting` (a checked
request that takes an administrator away leaves another one).

*API tokens* (`ApiTokensProofs`). The invariant adds `Held` (a token has a
subject), `Replaced` (a token with a successor is revoked, by that rotation),
`RevokedState` (the tokens whose revocation was acknowledged are revoked) and
`Sound` for each request: a rotation past `LockToken` holds the lock of a
live token, a token that was dead when the request came is not usable
later, and what a lookup saw is no better than the best role of the request. A
lemma of its own (`Frame`) shows that a step leaves every other request sound.

*Sign-in* (`SignInProofs`). That a login opens one session at most is not visible
in any single row: the invariant says that a flow which has left the table is in
the hands of one request (`HoldersApart`, `Holds`) or has become one session
(`SessionSound`, `SessionsApart`). Codes are spent and sessions are deleted but neither is
ever rewritten (`Grows`), so that what is known of a request stays true while others are
served (`Frame`). `AnonymousSticks` has an invariant of its own, `PInv`: what a page
waits for fits what it shows, it never waits for two lookups, and it makes
calls of `initialize` only while it is loading. That is why an answer that is late finds
nothing to revive.

*Definition store* (`AnalyticsStoreProofs`). Its first
part proves what the pure functions promise each other: the searches for
dependencies find the least closed set that holds the roots; in a valid state
everything they find is there; so an export, with what the importing side
adds, is a valid state (`ExportsAreValid`) and a publication of a valid dashboard is
closed once `Publish` has accepted it (`SnapshotsAreClosed`): the walk over the
charts of a widget finds what the publication pins of them, so each chart in it is
shown by some widget and was tried there with the filters that meet it. The second has the invariant of the store:
`FileOpens` and `PublicationsClosed` are about the file, which only a rename changes,
so `OpSound` says of the request under the lock that what it is about to write is
valid, closed and a permitted change of the file (`Evolves`: revisions grow,
publications stay, a revoked share stays revoked), and that after the rename the
file is what it wrote. `Drafts` relates the history of each draft to the stored
revision, which gives `OneWinner`; `RevokedState` is the share in the file. The map
is the file whenever the lock is free (`ServedIsSaved`). `StoreIsDurable` shows
step by step that the store implements `DurableObjects`: the rename is the commit,
also when the process stops right after it. The assumptions are that the forms
of a run are definitions, that the files the server may find open and hold
closed publications (`StoreConstants`, `FilesClosed`), and that the reserved value
`None` is nothing else (`NoneApart`, `OperationsApart`).

*Inspector* (`DataInspectorProofs`). All handlers that end with the effects of the page
are one case, `Renders`. `ReadsOwnWrites` only speaks of a panel at rest; the
invariant `Current` says what holds on the way there: the load under way is one
for the query in force that has read, or will read, what was committed last;
so has every page that was not asked for before a later load; and while the page
shown is not fresh, one of these is under way. `Versions` orders the versions of
commits and of the table. `InsertsSound` says when a new row whose insertion was
served may still be among the drafts: only while the answer of that very commit is
waited for. `RelatedSound` says whose rows a list under way will be. The proof holds for
any number of pages in flight, and has shown that a load overtakes all of them
and not only the one a run with one slot has. The assumptions are
`InspectorConstants`, `StartingTables`, `RecordConstants` and `NothingApart`.

*Analytics screens* (`AnalyticsScreensProofs`). Each screen has an invariant of its
own, and `ScreensInv` is that of the one that is mounted; the other four keep
their values. What they add to the properties is what a gesture needs of the state
before it:

* `DockInv`: after every step each chart has asked what the shared store makes of its
  question (`DockShowsSound`); that only holds because every gesture ends with the
  effects. `AskedFits` shows that a question which is asked has the filters, the
  selection, the extent and the source that the store allows it; `PreviewFit`,
  `OverlayFit` and `LayerFit` make of it what each place may show. The scope (`DockScopeSound`), the charts drawn and the lists of the dock are
  of the source they are kept for, a dataset under creation too.
* `ViewInv`: a load shows the answer to its question unless it runs or failed
  (`Answers`), and every load asks what the filters in force make of it, except in a
  form whose timer is due.
* `BoardInv`: `LayoutFits` needs that everything a draft may be replaced by
  is laid out, so it is stated of all that is saved, published or on its way
  (`ArgSound`, `AnswerSound`); `SavesSeen` needs what revision a request carries.
  `placeWidgets` is a recursive function: that its result is laid out for any
  number of widgets is shown by an induction on the numbers already placed, spelled
  out as a set that holds 0 and every next number (`CountUp`).
* `ChartInv`: the newest preview is for the draft as it stands. The first form of
  this invariant was not inductive: the `replaced` mark compared the layers of the
  two drafts only as far as the catalogue on the screen listed them, so an older
  catalogue could hide that they differ. `SameQuestion` now compares the
  questions themselves.
* `DeskInv`: a sheet that is open is of the definition selected, its preview and the
  definition it would save have one source.

The assumptions are on what the screens are given, all of it written earlier by
the same code: a chart that exists is one of a dataset there is and a saved one is no
quick one (`DockCharts`), ids of charts, layers and dashboards differ (`DockConstants`,
`DockCharts`), a
saved dashboard is laid out (`FirstSaves`), a saved chart groups its time by one of its
dimensions and a new chart has an id of its own (`ChartsSaved`), a dataset has the
columns its charts are made of (`ChartConstants`), a saved definition has one
source (`DatasetsSaved`), and the fields and targets of a published dashboard
are among its datasets and widgets (`ViewConstants`).

*Connections* (`ConnectionsProofs`). The store is shared and a behaviour is in one
place, so the invariant is that of the store and that of the place:

* `StoreSound`: `LayersStand` and the types of the store are inductive once two things are
  added. A source of a view is of the connection of its view and has a filter; without
  that the removal of a connection could take a view away and leave its source. And
  identities are unique in each list (`Unique`); without that the last layer of a
  source is not the last. There is one lemma for each operation of the store, and
  `Merge` is sound for whatever an earlier page has left, the migration of an
  older build included: it goes along a list of any length, as selections from
  lists do, by `CountUp`.
* `EditorInv`: a draft and its layer are written together, so `DraftsShown` is inductive
  with its type.
* `PageInv`: every step of the catalogue and of the map ends with `Render`.
  `EffectsStand` shows that its effects, in the order React runs them, make of any
  page a step may leave (`PanelStarts`) one whose choices stand: each effect repairs
  one choice and keeps what the earlier ones repaired. The steps then only owe
  `StoreSound` and `PanelStarts`.
* `FormsInv`: an answer does not say which form or dialog it is for, only the number
  of times one was opened (`busy.opened`) tells them apart, so `FlightsHold` relates
  the number a request carries to the form that is open. One form is open at a time
  (`OneOpen`), and a selected table or the table of a saved view exists (`KeysFit`), which
  the form of a new layer relies on when it opens on it.

The assumptions are `StoreConstants`, `StoredAlike` (what an earlier page left was kept
by the same store, but for the fields and lists an older build did not have),
`NoneIsNoField`, `EditorConstants` and `PanelConstants` (a table is in one of the
schemas). The attempt showed that `TestsRun` was false of a page that is loaded
amid a test, which no earlier state of the run had: section 3 says what the code does
then, and `MCTested` is now one of the states.

Only model-checked: the liveness properties, which are out of the proof system's reach
(fairness and `ENABLED`). Every invariant and every other property of the passing runs
is stated by a theorem.
`ConcurrentEditsConflict` is violated and has nothing to prove.

## 7 A disagreement with the documents

`store_recreated` (`src/backend/internal/analytics/store.go:120`): the plan of the
analytics part promises that "concurrent edits conflict clearly"
(`src/plan/native-analytics.md:35`). A revision is a number that starts at 1 for every new
object. An editor reads revision 1 of an object; another deletes it and creates
one with the same id; the first one's update carries revision 1, is accepted and
overwrites an object its editor has never seen. `OneWinner`, which holds,
says that this is the only way.

## 8 Limits

* SQL, geometry, expressions and formatting are not modelled; where a property
  depends on a query's definitions, the definitions it needs are.
* A crash is a stop of the process. The loss of a rename that was not flushed to
  the disk, when the machine itself loses power, is not modelled.
* PostgreSQL is assumed to do what it documents for `READ COMMITTED`, row locks
  and `FOR UPDATE`.
* In `DataInspector` a panel that is mounted again cannot save while the commit of
  the one before it has not been served, because a model of one commit under way is
  enough for every other case; afterwards it can.
* Some answers are taken by the code without asking what they are about any more, and
  the properties except them: a page of the table asked for before the last load
  (`overtaken`), a catalogue, form or dialog a late answer has reached (`late`), and the
  answer of a saved dashboard, which replaces the draft and the edits made meanwhile.
  A form does not know which table was chosen last, so a late answer for an earlier
  choice of the same form is not seen either.
* `StoredAlike` assumes of the state a page starts with that its references resolve; one
  with a layer whose source is missing is not covered. The columns of a table are the
  same on every connection (`GeometryOf`).
* A filter of the shared store made of several columns or alternatives is one of its
  columns in the models; the filters picked in several widgets of one dashboard are one
  filter of that dashboard.

Not modelled, and why:

* *Tile sources and pools.* A request may delete a source that was renewed under
  another lock (`httpapi/layers.go:143`). The effect is a tile that is missing
  until the library that renders the map asks again; that library is not part of
  this code. A pool that is idle for too long is closed, whether or not a request
  uses it; what then becomes of its query is up to the database driver.
* *Table edits, reading services, query compiler.* Each request is one statement or
  one transaction whose steps nobody sees; `CommitServed` and `RecordServed` have its
  outcome. What is left is the text of SQL. The definitions that a compilation needs
  are in `AnalyticsState` (`Compiles`).
* *The reads of one compilation.* They take the lock of the store one by one; the
  composition of the store with the cache that would show it is the next item of the
  plan.
* *Management store of the frontend.* It is last in the plan: a form for
  administrators, whose operations are in `Workspaces` and `ApiTokens`. Only the success
  of a load is guarded by the selected workspace; a load that fails and the answers
  of changes are taken whatever is selected by then. This is listed as a
  hazard without a property.
* *Map rendering, chart drawing, positions of overlays, labels of relations,
  display settings, texts, layout, onboarding.* They decide nothing that another
  part relies on.
* *Process start, deployment, scripts.* Configuration and wiring; the stop and start
  of the process are `Crash` and `Open`.
