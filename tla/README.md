# EPIC.map: a TLA+ verification project

EPIC.map is a map of British Columbia for environmental assessment: a Flask API
(`map-api`) over PostgreSQL/PostGIS, a React widget (`packages/epic-map`) that
draws the map and talks to the API, and a small host page (`map-web`). This
directory holds TLA+ models of the parts of it that keep state, TLC
configurations that check them on small instances, and proofs checked by TLAPS.

Paths below are relative to the repository. `PROJECT.json` holds the machine
readable side: which definition models which lines, what each run checks, the
mutated definitions that each property is shown to reject, the hazards and the
theorems.

## 1. The system

| part | code | state it keeps | operations |
|---|---|---|---|
| Favourites panel | `map-api/src/map_api/{resources,services,models}/user_favourite_*` | tables `user_favourite_layers`, `user_favourite_folders` | list (seeds a layer), star, unstar, file, reorder; create, patch, ungroup a folder |
| Applied layers | `.../user_applied_layer*` | table `user_applied_layers` | list, apply, set opacity, remove |
| Imported layers | `.../user_layer*` | tables `user_layers`, `user_layer_features` | PUT an import under a client-chosen id, rename, delete, stream the features, intersect |
| Hosted-layer ingest | `map-api/scripts/ingest_local_layer.py`, `services/local_layer_service/{ingest,s3,ingest_spec}.py`, `scripts/sql/` | the served tables, a staging table, the feature history, the style, the load history `cache.local_layer_loads` | one scheduled job per layer: fetch, stage, validate, compare, transform, commit, record |
| Hosted-layer reads | `services/local_layer_service/__init__.py` | none | metadata, search, extent |
| EPIC.Track client | `services/epic_track_service/` | a process-wide cache: projects, their last good copy, the token | read projects and works, with refresh lock and token retry |
| BCGW client | `services/bcgw_service/`, `utils/click_epoch.py` | a process-wide cache, the in-flight locks, the click epochs | single-flighted reads, bounded fan-out over a click's layers |
| Signed-in user, audit | `auth.py`, `__init__.py`, `models/user.py`, `services/audit_service/` | tables `users`, `audit_events` | provision a user from a token, authorise, append an audit row after every request |
| Widget: applied layers | `packages/epic-map/src/api/useAppliedLayers.ts`, `.../components/Layers/` | the optimistic list, the sliders' drafts and timers, the hosted layers switched on | toggle, drag, turn all off, rollback, refetch |
| Widget: favourites panel | `.../api/useFavourite*.ts`, `.../components/Layers/Favourites/` | two optimistic lists, the draft of a folder, the layer filed while its folder is being saved | star, file, drop, draft, rename, fold, ungroup |
| Widget: imports | `.../api/useImportedLayers.ts`, `.../components/Layers/UserLayers/` | the uploads under way, My Layers, what of it is drawn | read a file, PUT, cancel, dismiss, retry, undo, rename, delete, show |
| Widget: clicks and tools | `.../api/{useMetaData,useWhatsHere}.ts`, `.../components/{MetaData,MapTools}/` | the latest click and its answers, Select area and its results, the measured line | click, choose, Retry, close, search, focus, measure |
| Widget: drawing | `.../components/Layers/{layerUtils,eaoVisibility}.ts`, `HostedLayer.tsx`, `.../components/MapSurface.tsx` | the map's stack of style layers, the works waiting for its style | draw, hide, filter, highlight, switch basemap |
| Widget: projects, filters, card | `.../api/useProjects.ts`, `.../components/{Filters,Projects}/` | the list and the menus, the filters, the open card and its eyes, rows and folds | filter, hover, open, hide, select |
| Widget: search | `.../components/Search/`, `.../api/usePlaceSearch.ts` | the field, the geocoder's answers by query, the pin | type, walk the menu, take a row, clear |
| Host page, deployment | `map-web/`, `deployment/`, `map-api/migrations/` | sign-in (a library's) | configuration |

How they meet. A request of the widget becomes a chain of SQL statements in one
thread of gunicorn (one process of eight threads a replica); all threads share
the database and, within a process, the caches. A React Query mutation of the
widget paints its expected outcome, sends the request, and refetches. The ingest
is a separate job that shares only the database with the API. After **every**
request, `after_request` runs `write_audit_event`, whose commit also commits
whatever the request left assigned in its session.

What is hard here:

- **Statements, not requests, interleave.** Sessions run at READ COMMITTED: each
  SELECT sees whatever has been committed before it, so a check and the write it
  guards may be separated by another tab's commit.
- **The ORM writes differences.** SQLAlchemy updates only the columns whose value
  differs from the one it loaded, so two overlapping requests merge by column.
- **Caps are counts** taken before an insert, with no constraint behind them.
- **Two-transaction operations**: ungrouping a folder, the load of a hosted layer
  and its record, a provisioned user and what is then stored for it.
- **Bounded waits**: the refresh lock of the project cache (60 s), the in-flight
  lock of a BCGW read (8 s), the 20 s budget of a click; each is followed by code
  that must be right both when the wait ended and when it timed out.
- **Superseded work**: a second click while a first is still being answered, a
  cancelled upload whose PUT is still running, an optimistic change overtaken by
  another.
- **Deferred work**: what the widget does to the map waits until the map's style
  is loaded, and what waits and what runs at once do not keep one order.
- **Stale selections**: a card, a highlight or a row of a menu chosen from an
  answer that the next refetch changes.

What makes each part correct:

- Favourites: no layer twice; filed only in one's own folder; nobody else's panel
  disturbed; a reorder only reorders; only a removal removes; the cap holds up to
  a known overrun; a sequential client sees exactly an ordered panel.
- Applied layers: a call names a row of its own; what is painted is, in the end,
  what is stored; a slider at rest shows the opacity that is stored.
- Imported layers: names stay unique, whatever is retried; a cancelled upload is
  undone; every upload ends.
- Ingest: what is served is always one whole delivery; a refused delivery changes
  nothing; the record agrees with what is served; the history explains every
  change of a feature.
- EPIC.Track and BCGW clients: one refresh of the list at a time; a key searched
  once, and once more per failure; a refused token never cached again; no answer
  behind one given before; every caller answered.
- Favourites in the widget: every favourite in one place, a call never names a
  stand-in, and when everything has settled what is painted is what is stored.
- Clicks and tools: an answer is shown for the click or the selection it was asked
  for; one handler takes a click.
- Drawing: with no work left the map draws what is wanted, in the right order.
- Projects and search: the counts of the filters deliver, the card speaks of a
  project that is drawn, the eyes are obeyed, Enter takes the highlighted row.

## 2. Plan

| order | modules | abstract specification | theorems worth proving | state |
|---|---|---|---|---|
| 1 | `Favourites`, `FavouritesRefinement`, `MCFavourites` | `FavouritesPanel`: ordered lists per container | types; filing, seeding, removal, reorder, separation, patches; cap overrun; no duplicates; refinement | done |
| 2 | `LayerIngest`: runs, lock, staging, commit, record, faults | `HostedLayer`: a delivery and its style, replaced whole | types; one load at a time; what is checked is what was staged; the record; the change record; refinement | done |
| 3 | `AppliedLayers`: the widget's optimistic list and sliders over map-api's table | the table itself | types, calls name their own row, a settled list is the table, sliders | done |
| 4 | `PanelCache`: the widget's two favourite lists over map-api's tables | the tables themselves | the same for two lists that disagree | done |
| 5 | `ImportedLayers`: uploads, retries, cancel, edits, drawing, over concurrent requests | what is stored | types, names unique, the list and the map follow | done |
| 6 | `MapClicks`: clicks, popup, Select area, the line | an answer of the latest question | a Retry dies with its click; the results shown are of the areas selected; a click has one handler | done |
| 7 | `MapView`: works on the map's style, deferred or not | what React wants drawn | the drawing follows what is wanted unless overtaken; the stack's order; a basemap | done |
| 8 | `ProjectFilters`, `ComponentGrouping`, `Projects`, `MapSearch`: list, filters, card, search | `VisibleIn`: what ticking an option would leave | the counts; the card and the map; the eyes; the rows; the field | done |
| 9 | `UpstreamReads`: EPIC.Track's cache, lock and token; BCGW's single flight | no answer behind one given | one refresh; the token; the answers; the searches | done |
| 10 | the BCGW fan-out of a click (pool, budgets) | an answer per layer within the budget | every layer answered or given up | not modelled |

The modules are written to be proved about: parameters are CONSTANTS with named
assumptions, there is one action per SELECT or flush, invariants are conjunctions
of named parts, and no module proved about has a RECURSIVE operator.

The proofs are in eight modules: `FavouritesProofs`, `LayerIngestProofs`,
`LayersProofs` (`AppliedLayers`, and what `MapView`'s operators do to a map),
`MapViewProofs` (what follows from it for `MapView`), `CachesProofs` (`PanelCache` and
`UpstreamReads`), `ImportedLayersProofs`, `MapClicksProofs` and `ProjectsProofs`
(`Projects` and what it is made of, and `MapSearch`). For each component there is an
invariant that is inductive, a lemma for each kind of step, and the theorems at the
end of what they rest on; what the prover is given are the named assumptions of the
constants, which TLC evaluates on the instances, and nothing else. A pair of
components shares a module where neither needs one of its own: `LayersProofs` and
`CachesProofs` extend two modules that share no name.

## 3. Favourites

### 3.1 Model

`Favourites.tla` models every endpoint of `/users/me/favourites` and
`/users/me/favourite-folders` that changes anything. (GET of the folders only
reads and answers, and is left out.)

| TLA+ | code |
|---|---|
| `Workers` | request threads, of all replicas: the code has no state outside the database here, so replicas are just more threads |
| `favourites`, `folders` | the two tables, functions from id to row |
| `nextFavourite`, `nextFolder` | the sequences of the two ids |
| `pc[w]`, `call[w]` | the step a request is at, and what its client sent |
| `seen[w]`, `seenFolder[w]` | the rows its session has loaded, as loaded |
| `dirty[w]` | what it has assigned to them and not flushed |
| `place[w]` | the position it has read, to insert at |
| `reply[w]` | the status of the response; `full` is 422, `bad` 400, `missing` 404, `error` 500 |
| `served` | requests started; bounded by `MaxRequests`, the only bound in a guard |

A request is a chain of actions, one for each SELECT whose answer is used later
and one for each flush-and-commit:

- list: `EnsureFinds`/`EnsureMisses`, `ReadPosition`, `Insert` or
  `InsertConflicts` then `FindAgain`, `List`;
- star: `CountFull`/`CountFree`, then as above;
- unstar: `FindToRemove`, `Delete`;
- file: `CheckFolder`, `LoadToMove`, `AssignMove`, `Flush` or `FlushFails`;
- reorder: `CheckFolder`, `CheckOrder`, `AssignOrder` (whose KeyError on a row
  that has left the container is an answer of 500 with the rows before it already
  assigned), `Flush` or `FlushFails`;
- folders: `CountFolders`, `ReadFolderPosition`, `InsertFolder`; `LoadFolder`,
  `FlushFolder`; `FindToUngroup`, `LoadToUngroup`, `AssignUngroup`, `Flush`,
  `DeleteFolder`;
- all of them end with `Audit`, which flushes what is left and drops the session.

What is assumed of SQLAlchemy and PostgreSQL, from how the code uses them:
READ COMMITTED; an UPDATE holds only the changed columns; an UPDATE of a row that
is gone raises StaleDataError, a DELETE of one does not; the unique constraint and
the foreign key raise IntegrityError; an expired object whose row is gone cannot
be refreshed; a commit that fails rolls its session back; ids are never reused.
An insert that waits on another's uncommitted row is folded into the order of the
commits. The SELECTs that read rows back after a commit only to fill the response
are not steps.

Data that is abstracted: a layer is a model value, not a (source, table) pair; a
folder name is a model value after `folder_name` has trimmed it and replaced a
blank; the order sent to a reorder is any sequence of a given set.

`FavouritesPanel.tla` is what the panel promises, with no tables, positions or
requests: an ordered list of layers at the top level and in every folder, an
ordered list of folders, and one step per operation. `FavouritesRefinement.tla`
reads the tables as a panel (`InOrder`: position, ties on id; `LayersOf`: the layers
of those rows) and instantiates it.

### 3.2 Runs

| run | instance | shows |
|---|---|---|
| `fav_tabs` | 2 threads; two users with a folder and a layer in it each, one of them with the seeded layer; 3 layers in the catalogue, caps of 1; every operation but creating a folder, lists of two ids sent to a reorder; 3 requests | `StarsHold`, `ListedHasSeed`, `FiledInOwnFolder`, `PanelsAreSeparate`, `PatchesDoNotClobber`, `OnlyAskedMoves` |
| `fav_sequential` | 1 thread, all eight operations, 3 starting tables, caps of 2, every order of two or three ids, 3 requests | `TypeOK`, and `ImplementsPanel`: each request is one abstract operation or a stutter |

`StarsHold` is `StarredOnce` (a layer is starred once) and `CapOverrunBounded`
(the overrun of the cap is smaller than the number of threads); `OnlyAskedMoves`
is `OnlyRemovalUnstars` and `ReorderNeverRefiles`.

Why the bounds suffice. The races are between two requests; a third lets one
thread finish and start again inside another's request, which is what removes,
files or ungroups a row between two of its steps. Two threads pass the cap
together, and `CapTheorem` speaks of any number of them. Ids are never reused, so
a request can only meet a row as it was, changed, or gone. `CHECK_DEADLOCK FALSE`
because a behaviour ends when `MaxRequests` have been served. Symmetry is over
the threads; no liveness property is checked with it.

### 3.3 Behaviours worth knowing

Three things the model does, as the code does, that a reader might not expect. No
property judges the first beyond what it leaves true of filing and stars: the
positions of a reorder that failed half-way, and the rows of a folder half
ungrouped, are a state the panel lives with.

1. A reorder that races a removal answers 500, not 400, and the positions assigned
   before the KeyError are committed by the audit hook, in `Audit`.
2. Of two overlapping reorders the later may answer with an order it was not sent,
   because only the columns that differ from the loaded row are written.
3. A layer filed into a folder while it is being ungrouped is taken out by
   SET NULL and keeps its old position.

### 3.4 Proofs

`FavouritesProofs.tla` proves, for every finite set of threads, every set of users,
layers, names and orders, every cap, every bound and every well-formed initial
database:

| theorem | property |
|---|---|
| `TypeCorrect` | `TypeOK` |
| `SoundAlways` | `Sound`, the inductive invariant below |
| `FilingTheorem` | `FiledInOwnFolder` |
| `SeedTheorem` | `ListedHasSeed` |
| `RemovalTheorem` | `OnlyRemovalUnstars` |
| `ReorderTheorem` | `ReorderNeverRefiles` |
| `SeparationTheorem` | `PanelsAreSeparate` |
| `CapTheorem` | `CapOverrunBounded` |
| `OnceTheorem` | `StarredOnce` |
| `StarsTheorem` | `StarsHold`, from the two before |
| `MovesTheorem` | `OnlyAskedMoves`, from `RemovalTheorem` and `ReorderTheorem` |
| `PatchTheorem` | `PatchesDoNotClobber` |
| `UndisturbedAlone` | `Undisturbed`, the second invariant below, where `[]OneAtATime` |
| `PanelTheorem` | `ImplementsPanel`, where `[]OneAtATime` |
| `OneWorkerTheorem` | `ImplementsPanel` with a single thread, where `[]OneAtATime` always holds |

The assumptions are `ConstantsAssumption` (threads are finite and there is at
least one, the seeded layer is no layer of the catalogue, the caps are natural
numbers, orders are sequences of naturals) and `InitialAssumption` (the database
a behaviour starts from satisfies its constraints, files layers in their owner's
folders and is within the cap).

The argument. `FiledInOwnFolder` is not inductive: a request checks the folder,
then reads, then writes. `Sound` (in `FavouritesInvariant.tla`) adds what each
request under way knows and keeps knowing whatever the others commit:

- `OnItsWay`: the step belongs to the operation;
- `Vouched`: the folder it was asked about has been handed out and, *if it still
  exists*, is the user's: a folder's owner never changes (`FoldersEvolve`) and an
  id is never handed out twice (`SequencesGrow`), so nobody can invalidate this;
- `LoadedOwn`, `AssignedLoaded`: loaded rows that still exist are the user's, and
  a folder is assigned only by a move, to the vouched folder, or by an ungrouping,
  to the top level;
- `Removable`: a row about to be deleted is not the seeded one;
- `Seeded`: past the ensure step of a list, the seeded row is there, and stays,
  because of `Removable`.

Each part has a lemma for the requests that do not move (`SoundOthers`) and one
for the request that does. The cap has an invariant of its own,
`RoomForPastCap`: the stars plus the requests that passed the cap without having
inserted are at most the cap plus the other threads. Both invariants were
model-checked before being proved.

The refinement. `ImplementsPanel` cannot hold of two overlapping requests of one
user: a reorder that loses a row to a removal has turned part of a list (3.3, 1), which
is no operation of the panel. It does hold, for any number of
threads and of users, as long as no user has two requests under way (`OneAtATime`;
a client who waits for each answer), whatever the *other* users' requests do between
two statements: that is `PanelTheorem`, of which the run `fav_sequential` is the
instance with one thread. It takes three things.

- What a request has read still holds when it writes (`Undisturbed`): the folder it
  looked up is there (`FolderStands`), the position it read is still above or below its
  list (`PlaceStands`), the rows it loaded are those of the table (`RowsStand`), and
  what it assigned is right for the table it is flushed to (`AssignedStands`). It is
  inductive because every write is of the writer's own user (`WritesItsOwn`, which also
  gives `SeparationTheorem`), so `OthersLeaveItStanding`. TLC checked it first.
- The tables read as lists. Rows ordered by position and id are counted off, so
  `InOrder` is the one enumeration that `Precedes` orders (`OrderIsOne`,
  `OrderEnumerates`). Hence what a write does to the list: a row put above all others
  leads (`OrderAppends`, at either end), a row taken out leaves the others in order
  (`OrderLeavesOut`), a reorder turns the list into the one sent (`LayersTurn`).
- One operation a commit. `InsertStars`, `DeleteUnstars`, `MoveFiles`,
  `OrderReorders`, `UngroupEmpties`, `InsertFolderAdds` and `DeleteFolderDrops` take
  each committing step to its operation of `FavouritesPanel`, in the user's own
  containers and nobody else's; every other step, the audit hook's commit included,
  changes nothing (`QuietSteps`: with one request at a time it never has anything left
  to write).

### 3.5 Only model-checked

Nothing. No fairness is assumed: every property of Favourites is a safety property.
What a request must eventually do rests on the database answering.

## 4. The ingest of a hosted layer

### 4.1 Model

`LayerIngest.tla` models `map-api/scripts/ingest_local_layer.py`, the guard and
the download it calls, and the SQL of one layer. A run is a process that goes
through the steps of `main()` and `load()`; several may be started, one by the
CronJob and others by hand.

| TLA+ | code |
|---|---|
| `rows`, `style` | the layer's table and its row of `cache.local_layer_styles`: what the map reads |
| `history` | `app.local_layer_feature_history`, a sequence of changes for each key |
| `lastLoaded`, `verdict` | digest of the latest `loaded` row of `cache.local_layer_loads`; status of the latest row |
| `staging` | the staging table, as the sequence of (extract, source layer) pieces that ogr2ogr wrote |
| `lock`, `live[r]` | the session's advisory lock, and whether the session is up |
| `pc[r]`, `flags[r]`, `fetched[r]`, `part[r]` | the step of a run, `--force`/`--allow-shrink`/`--dry-run`, the files it has, the source layer it stages next |
| `pending[r]` | what its open transaction has written |
| `offered` | the files in the bucket |

A run: `TakeLock` (or `FindsLocked`); `FetchExtract`, `FetchStyle`;
`CompareDigest`, then `RecordSkipped`; `BuildStyle`; `Stage` once for each source
layer; `Check`; `Replace`; `Commit`; `RecordLoaded`, a transaction of its own;
`Vacuum`; `DropStaging`, which ends it. A refusal goes through `RecordRefused`, a
failure through `RecordFailed`. `Crash`, `Error` and `Disconnect` may strike at
the steps a configuration lists in `Faults`. A kill closes the session, so its
transaction is rolled back and its lock is free; ogr2ogr works on a connection of
its own, so its pieces stay.

What is assumed of PostgreSQL and ogr2ogr: an overwrite of the staging table waits
for a transaction that has read it, an append does not; a session-level advisory
lock ends with its session; DELETE and INSERT become visible at the commit. A
kill takes the run's ogr2ogr with it, as it does in the pod.

Data that is abstracted: a feature is its key and a shape, a shape has a number of
vertices; attributes count as part of the shape. A digest is what it is a digest
of. Of `validate.sql` the model keeps the checks that depend on more than one row
(missing source layers, repeated keys, keys with several shapes); the checks of a
single geometry would refuse the same way. `--min-ratio` is a constant, 9/10 in
the runs as in the code's default. `Content` gives the features of each source
layer of an extract and stands for files, downloads and SELECTs. The two layers
differ in `PartCount`, `OwnsStyle`, `Folds` and `TrackHistory`, as their specs do.

`HostedLayer.tla` is what the map may rely on: rows and style change together, to
one whole delivery that is acceptable, and not to one that lost too much unless
the run doing it was told to allow that. `Waived` in `LayerIngest` says so from
the lock and the flags.

### 4.2 Runs

Both layers' configurations have a scheduled run and one started by hand, and three keys.

| run | instance | shows |
|---|---|---|
| `ingest_areas` | consultation areas: one source layer, four extracts, three styles; two uploads, one kill or error at any step or one connection dropped during ogr2ogr, one hand run with `--allow-shrink`, one rebuild of the cache | `TypeOK`, `ImplementsHostedLayer` |
| `ingest_features` | project data with fairness: two source layers, history kept, hand runs forced or dry; a kill or an error at any step but `record`, one rebuild | `LoadsAlone`, `HistoryExplains`, `LoadedIsServed`, `EventuallyServed` |

`LoadsAlone` is `OnlyLoad` (no two runs stage, check or replace at once) and
`ChecksWhatItStaged` (a run checks and replaces with its own pieces, all of them).

Why the bounds suffice. Two uploads are what a mixed pair takes, and what a
delivery taken back takes. Runs are started again and again without a bound, so
every fault is followed by as many undisturbed runs as matter; a second fault
would only repeat what the next run meets after the first. A hand run may be given
any files, so one is enough to load something nobody offers. Two source layers are
enough to be killed between the first, which overwrites, and one that appends.
The extracts are chosen to be accepted, swapped for one another without loss,
coarser, ambiguous or torn.

Fairness, in `FairSpec`: the CronJob keeps starting runs (`WF` of `StartCron`) and
a run that has started takes its next step or fails (`WF` of `Advance`); a run
that hangs is killed by `activeDeadlineSeconds`, which is a `Crash`. Nobody is
assumed to publish, to rebuild or to start anything by hand. `EventuallyServed`
leaves out the faults between a commit and its record, because there it does not
hold: the first item below.

### 4.3 Behaviours worth knowing

1. A run killed between the commit and the record of it leaves the digest of the
   previous load. If that delivery comes back, it is skipped as already loaded,
   by every run, while the other one stays on the map.
2. After a rebuild of the cache, the first load is taken for the rows put back even
   when the delivery has changed, so what changed is never recorded. This is why
   `HistoryExplains` speaks of the time before a rebuild.

Two more belong beside these. A failure of the record or of VACUUM, after the commit, is
recorded as `failed` and ends in exit 2, although the rows were judged and
replaced. And the advisory lock belongs to a session that is idle while ogr2ogr
works; if its connection drops, a second run stages into the same table, so that
neither `LoadsAlone` nor `LoadedIsServed` holds with `disconnect` among `Faults`.
What the map shows is still whole where there is one source layer, which
`ingest_areas` checks with that fault; with several, pieces of two deliveries may
be loaded as one, which is why `RefinementTheorem` assumes that it does not happen.

### 4.4 Proofs

`LayerIngestProofs.tla` proves, for any number of runs, source layers, deliveries,
flags, faults and bounds:

| theorem | property | beyond `IngestAssumption` |
|---|---|---|
| `TypeCorrect` | `TypeOK` | |
| `ExclusionTheorem` | `OnlyLoad` | `NoDisconnects` |
| `InvariantTheorem` | `IngestInv`, the inductive invariant below | `NoDisconnects` |
| `StagingTheorem` | `ChecksWhatItStaged` | `NoDisconnects` |
| `LoadedTheorem` | `LoadedIsServed` | `NoDisconnects` |
| `RefinementTheorem` | `ImplementsHostedLayer` | `NoDisconnects` |
| `AloneTheorem` | `LoadsAlone`, from `ExclusionTheorem` and `StagingTheorem` | `NoDisconnects` |
| `HistoryTheorem` | `HistoryExplains`, which speaks of a cache not rebuilt | `NoDisconnects` |

`NoDisconnects` says that `Faults` drops no connection under a run that goes on;
the end of 4.3 says why it is needed.

The argument. `IngestInv` says what a run relies on between two of its statements:
a run past the lock holds it (`HoldLock`), so no other is past it (`Alone`); the
staging table holds the pieces the run has staged so far (`StagedSoFar`,
`StagedWhole`), because the first overwrites whatever a killed run left and
nobody else writes; what the guard found when it compared the staged extract with
the rows served is still true when they are replaced (`Judged`), because only the
holder of the lock replaces them and a rebuild waits for the transaction that
reads; and what was committed is still served when it is recorded
(`CommittedIsServed`). A staged whole is the extract (`WholeExtract`), which is
what makes the commit a `Load` of `HostedLayer`. For the history, `ChangeExplains`
goes through what a load may do to one feature. The invariant was model-checked on
the instances of the runs before it was proved.

### 4.5 Only model-checked

`EventuallyServed`, which needs fairness.

## 5. The widget and what it talks to

Seven modules model the widget, each over as much of map-api as answers it. They
share their conventions.

- **A handler is one action**, together with what React does before the next
  event: the effects that follow a render are part of the action that causes it.
- **A request** is sent by one action, served by another and answered by a third;
  each may be overtaken, and may fail before it is served or after. Requests are
  answered in any order.
- **A history variable** appears where a property needs one and is named so in
  its comment (`wishes`, `kept`, `pointed`, `crossed`, `late`, `astray`, `newest`,
  `since`, `dropped`); no guard reads one.
- **A list is fetched again** when it has failed and the user asks, and when the network
  comes back to a list that has gone stale: the queries have a `staleTime` of five
  minutes and `MapWidget.tsx:154` turns off only `refetchOnWindowFocus`, not React
  Query's refetch on reconnect. It is the action `Retry`, or `RetryList`, of
  `AppliedLayers`, `PanelCache` and `ImportedLayers`. React Query sends the mutations
  it has held back before it refetches, and those that write the list make it fresh.
- **Bounds** are the constants named `Max...`; they count what a user does and what
  goes wrong. What must happen, an answer, a timer, a refetch, has no bound.
- `CHECK_DEADLOCK FALSE` throughout: once the user has used up his acts and every
  answer has come, nothing has to happen.
- **Fairness** is stated for answers, timers and frames, never for the user: a
  request is answered or fails because the HTTP client and gunicorn time out, and
  a browser goes on drawing frames and firing timers.

### 5.1 Applied layers (`AppliedLayers`, run `applied`)

| TLA+ | code |
|---|---|
| `table`, `given` | `user_applied_layers`: opacity of each row, and the layer each id was handed out for |
| `cache`, `loaded`, `failed`, `fetch` | the query of the list: what is painted, and the GET under way |
| `calls`, `pending` | mutations under way, with the list to put back; `pendingIds` |
| `timers`, `saving`, `drafts` | the debounced saves of a slider in `useAppliedLayers.ts` |
| `hostedOn` | hosted layers switched on; nothing of them is stored |

Actions: `SwitchOn`, `SwitchOff`, `SwitchHosted`, `TurnAllOff`, `Drag`, `TimerFires`
(the user and his timers); `Serve` and its outcomes (map-api: the cap is counted in
one step and the row stored in another, so that two calls may pass it together);
`AnswerToggle`, `AnswerSave`, `Lost` (an answer, a refusal, a lost call);
`ListServed`, `ListArrives`, `ListFails`, `Retry`.

The run has two catalogue layers, one of them stored at the start, a hosted one, two
opacities, caps of 2, three calls, two drags and one fault, of a call or of a GET:
451 014 states. Two toggles that overlap while a third is refused is what the
rollback has to survive; a second drag is one that meets the save of the first; and
a fault of either kind makes every roll-back and every refetch possible.

- `PanelIsTrue`: types; a DELETE or PATCH names a row handed out for that layer,
  never the stand-in id, whatever was rolled back or fetched; a list that has
  settled is the table.
- `SliderIsStored`: with no toggle and no GET under way, and none failed, the opacity a
  layer is shown at is the one its row has, unless the slider is still being dragged or saved, however
  drags, saves, toggles, roll-backs and fetched lists overlapped. It does not speak of
  a layer in `crossed`, the history of what its slider met on the way (below).
- `ComesToRest`: the list comes to be the table; a slider's save does not queue
  itself for ever behind a row that never gets its id.

Fairness: timers fire, calls are served and answered, the GET comes back.

`LayersProofs` proves `PanelIsTrueTheorem`, `Spec => []PanelIsTrue`, from
`AppliedAssumption`: any finite set of layers, any calls and faults. The invariant
`AppliedInv` adds to the types `IdsOwn` (every list that may be painted, now or
when a call is refused, holds own ids only) and `Follows` (no list is fetched while
a toggle is out; with none out, what is fetched or painted is the table).
`SliderTheorem`, `Spec => []SliderIsStored`, needs a second invariant, `SliderInv`, of
every layer that has not crossed. While a slider moves (`Sliding`), one save of it is
out at most, what is painted is what will be sent or was, a drag whose row has no id
yet is queued for it, and what a save would put back is what is stored. While it does
not (`Stilled`), a list on its way brings the opacity stored, and the one painted is
already it. Each kind of step has a lemma for a layer it is about and for the others.
`ComesToRest` is model-checked only.

Worth knowing. What may leave a slider off what is stored, each noted in `crossed`:

- A list read before a save and arriving after its answer moves the slider back,
  because the answer takes the layer out of `savingOpacity`
  (`useAppliedLayers.ts:139-142`).
- A second save is sent before the first is answered. The two PATCHes may be served in
  either order, and the first answer takes the layer out of `savingOpacity` although
  the second is still out.
- A toggle that is refused puts back a list with the opacity of before the drag, over a
  slider whose save is queued or out; or a layer is switched on, or listed, again under
  a slider that is still on its way.
- A save whose answer is lost puts the previous opacity back although the new one is
  stored, and nothing fetches the list.

### 5.2 The favourites panel in the widget (`PanelCache`, run `panel`)

Two React Query lists over the two tables of section 3. A request is one step of
map-api here; `Favourites` has the steps inside it.

| TLA+ | code |
|---|---|
| `stored`, `given`, `shelves`, `made` | the two tables, and the ids handed out |
| `favourites`, `folders`, `...Status`, `...Get` | the two lists as painted, and their GETs |
| `calls`, `starPending` | mutations under way; `favouritePendingIds` |
| `lastPendingId` | the stand-in ids of `pendingIds.ts`, negative |
| `editing`, `filing` | the folder being named, and the layer held in a folder that is being saved (`FavouritesSection.tsx`) |

Actions: `AddFavourite`, `RemoveFavourite`, `MoveFromMenu`, `DropOn`, `OpenDraft`,
`CancelEdit`, `CommitDraft`, `RenameFolder`, `SetFolderCollapsed`, `DeleteFolder`;
`Serve`, `Answer`, `Lost`; the GETs. The order within a list, notices and what is
read aloud are left out.

The run has two layers, the tables of `MCPanelCache`, caps of 2, two changes and two
faults: 360 877 states. Two changes are what overlaps; a create followed by the
move it is for is one change of the user and two calls. Either list may go stale and
be fetched again at any time.

- `PanelIsTrue`: types; calls name rows and folders that map-api handed out; every
  favourite is in exactly one place of the panel although the two lists are
  fetched and put back apart; a settled panel is the tables.
- `ComesToRest`: the panel comes to be the tables; a layer held in a folder that is
  being saved is let go.

Fairness: calls are served and answered, and so are the two GETs.

`CachesProofs` proves `PanelTheorem`, `Spec => []PanelIsTrue`, from
`PanelAssumption`: any finite or infinite set of layers and names, any caps, calls and
faults. `PanelInv` has the types with what every id in them stands for (`Sound`: what
may be painted, what a GET brings, what a call names and what it will put back if
refused are ids handed out for that layer, or stand-ins), that a layer is stored once
(`RowsAreOne`), and, for each of the two lists by itself, that with no call on it out
what is fetched or painted is the table (`FavouritesFollow`, `FoldersFollow`; an
ungrouping is on both). A favourite is in one place because the panel looks its folder
up in the folder list as painted, whatever that list holds. `ComesToRest` is
model-checked only.

Worth knowing: with two folders being saved at once, the answer to the first clears
what is held in the second (`FavouritesSection.tsx:147`); the layer is shown at the
top level until the second is answered.

### 5.3 Imported layers (`ImportedLayers`, run `imports`)

The one module where widget and server are both detailed, because their hazards are
of both: a PUT may outlive the connection that carried it.

| TLA+ | code |
|---|---|
| `table` | `user_layers`: the name of each layer; its features are stored with it |
| `puts` | PUTs, each at a step of `import_layer`: `sending`, `received`, `unknown`, `free`, `inserted`, `stored`, `refused`, `broken`; `heard` while the widget listens |
| `calls` | DELETEs and PATCHes, the undo of a cancelled upload among them |
| `jobs` | the rows of uploads in `ImportedLayersContext.tsx` |
| `cache`, `loaded`, `failed`, `fetch` | My Layers, patched after every answer, and its GET |
| `late`, `astray` | history: layers changed since the list on its way was read, and layers the list may be wrong about |
| `shown`, `features`, `drawn` | what is switched on, fetched and on the map |

Actions of the user: `StartUpload`, `CancelUpload`, `DismissUpload`, `RetryUpload`,
`AskRename`, `AskDelete`, `Toggle`, `RetryList`, `RetryFeatures`; of the browser:
`SendPut`, `PrepareFails` (the file cannot be packed,
`useImportedLayers.ts:257-260`), `SendFile`, `Progress`, `AllSent`, `Stall`, `Paint`; of
map-api:
`BodyReceived`, `FindById`, `LookForClash`, `Insert`, `StoreFeatures`,
`ServeDelete`, `ServeRename`; and the answers and the dropped connections. An insert
that meets another's uncommitted row of one id or one name waits for it, as
PostgreSQL makes it (`NoInsertWaits`). `RetryList` is also the refetch of a stale
list on reconnect: it may start beside any upload, rename or delete, and none of them
cancels it.

The run has one upload id and one kept layer, two names, a good file and one
for each way to fail, two PUTs, two edits or toggles, and one dropped connection,
failure or failing GET: 529 170 states. Two PUTs of one id are a retry beside what it
retries; a delete and a rename are what a list on its way may miss.

- `Sound`: types; two layers of a user never share a name.
- `ListAndMapFollow`: with nothing under way and nothing failed, My Layers is what
  is stored, and a deleted layer is off the map, however lists, uploads, renames and
  deletes overlapped; uploads that were cancelled, and the layers of `astray`, apart.
- `ComesToRest`: no upload stays on its way for ever; an upload cancelled after its
  last byte is stored and then deleted, unless a connection drops.

Fairness: the browser sends (`Sending`), map-api serves (`Server`), answers and GETs
come back, and the map paints.

`ImportedLayersProofs` proves `SoundTheorem`, `Spec => []Sound`, for any uploads,
names, files and bounds. A look-up of the name is some statements before the insert;
the invariant `ImportInv` adds what the unique constraints give in between: an
uncommitted insert clashes with nothing stored (`InsertsFree`) and with no other
uncommitted insert (`InsertsApart`).

`FollowTheorem`, `Spec => []ListAndMapFollow`, needs to know what is under way for each
layer and not only that nothing is. `FollowInv` says that nothing is asked of a list
that has never come (`CallsAfterList`), though it may be on its way again; that only
cancelled uploads are undone (`UndoesCancelled`); that without a fault no upload is sent
twice (`SentOnce`); and, of each layer not cancelled, that at most one PUT or call is
out for it (`PutFollows`, `CallFollows`, `FreshFollows`) and how two lists then stand to
the table: the one painted, unless the layer is in `astray`, and the one on its way,
unless it is in `late` (`Trusted`, `Current`). Each agrees with the table about the
layer, or differs by exactly what the call or the PUT still to be answered has changed
(`View`). A list that arrives makes `astray` of `late`, so the second view becomes the
first. The proof goes layer by layer: a step leaves every layer but one as it was
(`SameAt`). `ComesToRest` is model-checked only.

Worth knowing. Without any fault, the list and what is stored may part until the next
fetch, which may be the next visit; the layers concerned are those of `astray`:

- A list read before a delete, rename or upload and arriving after its answer puts a
  deleted layer back, gives a renamed one its old name, or drops an uploaded one:
  the answers patch the cache and do not cancel the query (`useImportedLayers.ts`).
- A layer listed by a refetch before its own PUT is answered may be deleted; the
  answer to the PUT then lists it again.
- An upload answered before the list ever came, or after it failed, makes a list of
  just that layer.

A cancelled upload whose whole body was received is stored, and stays so when the
answer to its PUT is lost, because the undo waits for that answer. A retry that races
the PUT it retries may be told 409 although the layer is stored. `ListAndMapFollow`
therefore looks at runs without a fault, and leaves cancelled uploads out.

### 5.4 Clicks, popup and tools (`MapClicks`, run `clicks`)

| TLA+ | code |
|---|---|
| `on` | layers switched on |
| `click`, `clicks`, `chosen` | the click the popup answers, and the feature picked in it |
| `answers`, `told` | React Query's answers by key; the latest epoch map-api was told (`click_epoch.py`) |
| `retried`, `retrying`, `retries` | Retry of a single layer in `useMetaData.ts` |
| `records` | the records of a hosted feature |
| `select`, `queries`, `searches`, `framing` | the reducer of `SelectAreaContext.tsx`, What's here under way, bounds asked for a result |
| `measure` | the line |
| `outcome` | what the last step did to the camera and to the card |

`ClickMap` is the click in all four of its handlers (popup, project, Select area,
measure), which share no state but read each other's. The others are the popup's
(`ClosePopup`, `Choose`, `RetryLayer`, `RetryRecords`), the tools' (`SwitchTool`,
`UndoPoint`, `Done`, `ClearMeasure`, the rows of the results, `WhatsHere`), and the
answers, each of which may arrive long after its question was replaced.

The run has a warehouse layer and a hosted one, two places to click, one project
area, one feature of the results, three acts, one failure: 146 499 states. A second
click replaces the first and a third returns to the answer kept of the first.

- `FocusIsSound`: types; the results shown, and the search shown as running, are of
  the areas selected now; highlight and popup of a result point at a row listed; the
  popup and the results never want the map's one highlight together.
- `PopupIsOfItsClick`: what a Retry answered is shown only for its click; a layer
  that map-api abandoned as replaced is never shown.
- `EffectsAreDue`: a click is taken by one handler; late bounds do not move the
  camera to a result left behind.
- `ComesToRest`: the popup does not identify, nor What's here search, for ever.

Fairness: batch, retry, records and search each end.

`MapClicksProofs` proves `FocusTheorem`, `PopupTheorem` and `EffectsTheorem`, the three
safety properties, for any layers, places, areas and bounds. They share `ClickInv`
(`ClickTheorem`), which says of each question under way whose it is: the search that
is waited for is of the areas selected (`Waits`), bounds are asked for the result that
is highlighted (`FramingHolds`), a batch that is out is the popup's and not replaced
as far as map-api was told, with no layer of it asked again before it is in
(`Listens`), a Retry that is out is of the popup's click (`RetriesHold`), and a popup is
open only while no tool takes the clicks (`ClickHolds`). `FocusIsSound` adds that the
state the reducer leaves fits together (`Good`), which every case of the reducer
keeps; `PopupIsOfItsClick` adds that no answer kept says "abandoned", because
map-api drops only clicks older than the latest it was told of. `ComesToRest` is model-checked
only.

Left out: the refetch of an answer that is stale but kept, the pager of records, several
features of one layer at a point, a second click at one place after an error (which
asks nothing), the wording of attributes, placing the popup and the line's shape.
A Retry's answer is not kept in the query's cache, in the code as in the model.

### 5.5 Drawing (`MapView`, runs `view` and `view_footprints`)

`want` is what panel, filter bar and popup say; `map` is MapLibre's stack with the
look of each layer, whether its style is loaded, and the queue of works that wait.
An effect of React compares what was wanted and what is (`Effects(o, n)`) and hands
over one work a change; `Hand` is `whenStyleReady`: at once if the style is loaded,
else at the next `styledata` or `idle`. The operators `ShowWms`, `ShowHosted`,
`SetFilters`, `ShowComponentHighlight`, `KeepProjectsOnTop` and so on are the
functions of `layerUtils.ts`, `projectUtils.ts` and `eaoVisibility.ts`, one for one.
A layer drawn by several style layers that come and go together is one here. What changes
`want` is `Apply` to `FadeMine`; what the map does by itself is `Pan`,
`SwitchBasemap`, `Load`, `Frame`, `TilesArrive`, `BecomesIdle`, `BasemapArrives`.

The run has two projects, two possible zoom floors, three changes and one camera move
or switch of basemap: 192 267 states. An overtaking needs two changes of one layer
and a camera that keeps the map from being idle; the third change lets another
layer's work fall between. Four changes have been explored without the liveness
property as well (819 000 states).

- `DrawsWhatIsWanted`: with no work waiting and none overtaken by a later one of
  its layer, the map draws exactly what is wanted.
- `StackHolds`: types; raster and outline of a catalogue layer take over from each
  other at the published zoom; the order of what overlaps; the dots on top.
- `SurvivesBasemap`: a basemap takes nothing of the widget's away, nor its order.
- `WorksRun`: no work waits for ever.
- `view_footprints` is a **violation**, and a finding: a work that waits for the
  style can be overtaken by the next one on its layer and then runs last
  (`layerUtils.ts:42`), so that after two quick changes of a filter the footprints
  are those of the first, although `eaoVisibility.ts:9` says that dots and
  footprints always agree. `DrawsWhatIsWanted` sets such a layer apart by
  `overtaken`.

Fairness: the style, frames, tiles and the basemap arrive, and the camera rests
sometimes (`BecomesIdle`). Worth knowing: catalogue layers and imports may lie over the
highlights, although comments in `layerUtils.ts` (290, 1102) put the highlights above
them; a component picked before the hosted style is there is not highlighted when
it comes (`HostedLayer.tsx:107`; counted as overtaken); a basemap whose style cannot
be fetched leaves the old one (`MapSurface.tsx:63`, left out).

`MapViewProofs` proves every safety property of the run `view`, for any projects, any
zoom floors and any number of changes and camera moves:

| theorem | property |
|---|---|
| `ViewInvariant` | `ViewInv`, the inductive invariant |
| `ViewTypeCorrect`, `ViewStacking`, `ViewDotsOnTop`, `ViewOutlineTakesOver` | the four parts of `StackHolds` |
| `ViewStackHolds` | `StackHolds` |
| `ViewDrawsWhatIsWanted` | `DrawsWhatIsWanted` |
| `ViewSurvivesBasemap` | `SurvivesBasemap` |

The assumption, `ViewAssumption`, is that the open project is one of the projects, the
floors are zooms, and the bounds are numbers.

The argument. `DrawsWhatIsWanted` speaks of a map at rest, and says nothing of one on
which works wait, so it is not inductive. What a step keeps is `WillDraw`: unless a
work overtook one of its layer, the map **as it will be** once what waits has run
(`RunDeferred`) draws what is wanted. That a change keeps it takes three facts, each a
chapter of `LayersProofs` and `MapViewProofs`:

1. The works fall into six lanes (the catalogue layer, the two hosted ones, the
   import, the highlight, the dots). A work changes the looks and the presence of its
   own lane's layers only, and does the same on maps that agree about its lane
   (`WorkedMoves`, `WorkedAlike`). So two works of different lanes may run in either
   order, and a queue may be run lane by lane (`RunAllApart`, `RunAllAlike`).
2. Hence a work that runs at once leaves the map, once the queue has run, as if it had
   run last, unless one of its lane waits: then `overtaken` is set (`HandFinal`,
   `HandAllFinal`).
3. Run one after the other on a map that draws the old wish, the effects of a change
   leave one that draws the new, cleanups first as React runs them (`EffectsDrawn`).
   The one case between lanes is the shape drawn of a marked hosted feature, which
   needs the layer's tiles (`Lined`, `EffectsLined`).

`ViewInv` adds the order of the stack (`Stacked`, which says of two layers what lies
below what): to put a layer under another, over all, or take it off moves no other
two past each other (`Inserted`, `Appended`, `Removed`), so each work is only asked
what it puts its own layers under. `ViewStacking`, `ViewDotsOnTop` and
`ViewSurvivesBasemap` follow.

`ViewOutlineTakesOver` needs a second invariant, `Gated`, because a catalogue layer is
a raster and an outline that two works put on and two works gate, and any of them may
run at once or wait. Wherever they are: works of a pair wait next to each other
(`Blocks`); a work finds its layer on, or waits behind the one that puts it on
(`Timely`); the two are on together with the same zoom, or the outline is still to
come and the raster draws at its widest (`Even`, `Outlined`); and a raster without
its outline is a change the map has not drawn yet (`Halfway`). That last is what ties
the pair to `ready`: adding the raster makes the style unready, so the outline's work,
next in the same change, always waits, and no later work of the layer runs at once
before it. TLC checked `Gated` on the run's
instance (192 267 states) before it was proved.

The recursions over the works (`HandAll`, `RunAll`) are functions of how many have run,
so that the proof can name every map on the way (`RunTrace`, `HandTrace`). `WorksRun`
is model-checked only, and `view_footprints` is a violation.

### 5.6 Projects, filters, card and search (`Projects`, `MapSearch`, run `projects`)

`ProjectFilters` (what the filter bar shows and counts) and `ComponentGrouping` (the
rows of a card: sections, submissions, labels, variants) are pure; `Projects` adds
the list, the menus, the hovered and selected project, the card's three queries and
what the user did in it; `MapSearch` adds the field, the geocoder and the pin, and
is the composition that is checked.

| TLA+ | code |
|---|---|
| `list`, `menu` | `useProjects.ts`, `useProjectFilterOptions.ts`: the answer, and whether the last try failed |
| `filters` | `FiltersContext.tsx` |
| `hovered`, `selected` | `ProjectsControl.tsx` |
| `card`, `components`, `works` | the queries of `ProjectCard.tsx`, by project |
| `panel` | `MapLayersSection.tsx`: submissions off, features hidden by an eye, the row selected, folds |
| `shown` | `RevealedComponentsContext.tsx`: what the EAO layer is told |
| `tool`, `focused` | Select area, as far as it takes the one highlight |
| `query`, `debounced`, `menuOpen`, `activeKey`, `places`, `online`, `held`, `pin` | `MapSearch.tsx`, `usePlaceSearch.ts`, `useSearchMarker.ts` |
| `wishes`, `kept`, `pointed` | history: what the user last asked of a feature; sensitive features at the first eye; the row last highlighted |

A listing is a sequence of components and the order of rows follows it, as in the
code. `Settles` is the chain of effects that clears what a filter or an answer has
taken away.

The run has two projects, a list that loses one and gives the other a type that no
menu offers, a menu that loses a type, a listing that loses a feature to another
label, and three queries, the first places of two of them in two localities and of
one name; the user does three things on the map and in the card, or
types up to four keys with two changes of the map between them (`habit` chooses,
to keep the product small); one request fails or answers something else. Losing the
network counts as a key: 205 638 states.

- `CountsDeliver`: the number beside an option is what ticking it alone would leave,
  and beside All what ticking every option offered would leave. (Pressing All when
  all are ticked clears them.)
- `MapFollowsCard`: types; a card and a hovered name are of a project drawn; nothing
  of a closed card is left on the map; what is highlighted is drawn; one highlight;
  every feature is in one row.
- `EyesAreObeyed`: a sensitive feature is drawn only when its eye asks; what the user
  hid stays hidden.
- `SelectedRowIsSeen`: a click of the map unfolds what hides the row it selects.
- `FieldMeansWhatItSays`: "no match" is said only when the geocoder has answered the
  query in the field with nothing and no project has it, through failures, aborts,
  retries, the network lost and back, and answers to queries left behind, a query whose
  fetch is held for want of a network apart; Enter takes the row that was highlighted:
  the project, or the place of that number and that name.
- `ComesToRest`: a list that failed is loaded; the field does not search for ever.

Fairness: the list is asked for every `PROJECTS_REFRESH_MS` and answered; the pause
of typing ends, and a request for places ends by an answer or by being held. The
network need not come back.

`ProjectsProofs` proves every safety property of the run, for any projects, lists,
menus, listings, queries and bounds:

| theorem | property |
|---|---|
| `CountDelivers`, `OptionsPartTheTotal`, `TotalDelivers` | facts of the pure `ProjectFilters` |
| `CountsTheorem` | `CountsDeliver` |
| `CardTheorem` | `CardInv` |
| `EyesTheorem` | `EyesAreObeyed` |
| `OnePlace` | each component of a listing is in exactly one row |
| `MapTheorem` | `MapFollowsCard` |
| `SeenTheorem` | `SelectedRowIsSeen` |
| `FieldTheorem` | `FieldMeansWhatItSays` |

The assumptions, `ProjectsAssumption` and `SearchAssumption`, are what the answers of
map-api satisfy: lists and menus are finite, a listing names every feature once
(`IsListing`: `feature_id` is the table's primary key,
`map-api/migrations/versions/f4a8d3b19e52_add_cache_eao_project_data.py:35`), the
names found and the geocoder's places are sequences, and no row of the menu is the
mark for "no row".

The argument. `CountsDeliver` is `CountDelivers` for an option. For All it is a sum over the
menu: what ticking every option leaves is the disjoint union of what its options leave, and the sum
is taken off the smallest set of options for which it would fail (`TotalDelivers`).
`BarInv` keeps the filters within what menus have offered. `CardInv` says that what the EAO
layer is told is what the open card says (`LayerTold`), that the eyes' histories are
obeyed, and that no card or hovered name outlives its dot; `Settles` is proved to
finish whatever a step leaves (`SettledCard`). `TypesInv` keeps what a card lists
among the listings of its project, so that the facts about *any* listing apply:
the grouping of `ComponentGrouping` is by type, then submission, then label, then
comment, and each level parts what the level above it holds (`OnePlace`). From that
follow `MapTheorem` and `SeenTheorem`, where the row a click is sent to is the one
that lists it and its folds are unfolded by the same step. `FieldInv` says that the
key highlighted is the key of the row it was set for, though the menu has moved on,
and that an answer kept for a query is what the geocoder finds for it. A key
is a kind and a project, or a number and a name, so a row of the same key is the same
entry (`SameKeyIsSameEntry`).
`ComesToRest` is model-checked only.

Worth knowing. Once the first eye was used, the hidden set starts from what it was
then, so a sensitive feature that a later refetch brings is drawn
(`MapLayersSection.tsx`; `kept` says so). A background refetch of components that
fails hides the rows and leaves them drawn; a failing refresh of the list takes away
"no project matches". A row's key is the first feature of its variant; a submission's
switch is keyed by its submission, over all types. In the search, `steppedIndex`'s
comment says that both arrows pass through the field, and Down does not. A place's key
is its number and name (`searchUtils.ts:296-298`), so the first places of two queries
that share a name in two localities are one row to the field: the highlight stays, and
Enter pins the second although the first was highlighted, against
`MapSearch.tsx:120-124`. A fetch of places, or the retry of one, that is held because
the browser is offline is pending, not fetching and no error (`usePlaceSearch.ts:65`),
so the menu says "No projects or places match" although nobody was asked, against
`SearchDropdown.tsx:77-80` and `97-98`. TLC finds both as soon as the property stops
setting them apart. Backspacing to nothing leaves the pin with no Clear button
(`MapSearch.tsx:178` says otherwise); taking a place leaves the card of an earlier
project open (`useSearchMarker.ts:12-13`). Left out: how a name matches, how a
geocoder's feature becomes a place, the limit on rows, the camera, and the clicks a
measurement takes.

## 6. Reads from EPIC.Track and the warehouse (`UpstreamReads`, run `upstream`)

The threads of one API process share a cache (`utils/cache.py`), a refresh lock, a
service account's token and the locks of searches in flight. The model goes
statement by statement between them.

| TLA+ | code |
|---|---|
| `cache`, `token` | what `cache.get` finds; a project list is the version of Track's data it was read from, and the last good copies never expire |
| `refresh` | `REFRESH_LOCK` of `epic_track_service` |
| `flight`, `held` | `IN_FLIGHT` of `bcgw_service` for one key, and the locks held: a lock may be held that the table no longer has |
| `pc`, `read`, `call`, `tries`, `part`, `bearer`, `got`, `lock` | a thread's step and locals |
| `world`, `revoked`, `faults` | Track's version, the tokens it refuses, what failed |
| `newest`, `since`, `dropped` | history, for the properties |

Actions: `Ask`, `Pick` (the works of a project need the list first), `Acquire`,
`StopWaiting` (60 s), `Recheck`, `TakeToken`, `Login`, `Stow`,
`Answered`, `Refused` (drop the token and try once more), `CallFails`, `Save`,
`Keep`, then `Reply`; for a search `Join`, `Take`, `GiveUp` (8 s), `LastLook`,
`Retake`, `Found`, `SearchFails`, `Release`, `Pop`; and of the world `Expire`,
`ExpireToken`, `Publish`, `Revoke`. `Expire` takes an entry only if no request under
way saw it: the shortest expiry is five minutes, longer than any request lives.

The run has two threads, three tokens, two locks, two versions and one fault, for
each of three mixes of reads that share something: projects and works; options;
searches: 272 104 states. Two threads are a refresh and one that waits or gives up;
a third token is what a refused one and a new one in another thread leave. Whatever
waits may time out at any moment, so no wait is short enough to hide a race.

- `NoStampede`: types; one refresh of the list at a time; a key searched once, and
  once more per failure; no lock left behind when all are done.
- `AnswersHold`: nobody is answered with less, or older, than was answered before he
  asked, through cache, wait and last good copy; where a copy exists no outage makes
  a request fail. This is below the cache's limit of entries, which the model leaves
  out: `CACHE_ENTRY_LIMIT` (`constant.py:87-92`) could drop a last good copy.
- `DroppedTokenIsGone`: a refused token is never cached again.
- `ReadsComeToRest`: everybody is answered, and once Track is quiet, with the list it
  has.

Fairness: a thread takes its next step (its waits and calls have time-outs), and the
cached list expires.

`CachesProofs` proves, for any number of threads, tokens, versions and faults:
`TypeCorrect`; `RefreshTheorem` (`OneRefresh`, through `Alones`: who is in the refresh
holds the lock); `TokenTheorem` (`DroppedTokenIsGone`, through `TokenInv`: a thread
about to store a token has one that no thread has dropped); and `AnswersTheorem`
(`AnswersHold`). `AnswerInv` says why a stale answer cannot come back: what is
cached is no older than its last good copy, a copy is behind only while the thread
that saved the entry is about to keep it, and what a thread is about to save is
newer than the copy (`Ordered`, `Copied`, `Brings`), so that a thread that missed
the entry is owed no more than the copy (`Owed`).

`StampedeTheorem` (`NoStampede`) counts. A failing searcher makes `IN_FLIGHT` forget a
lock that others still wait for, so "one searcher a key" is false, and how many there
may be is a budget: until something is found, the locks under which a search may still
begin or go on, and those who will forget one, are together at most one more than what
failed (`Budget`). `FlightInv` adds that a lock is held by the one thread between
taking and releasing it (`HeldByOne`), that somebody will take the lock out of
`IN_FLIGHT` (`ToBePopped`), and whose `REFRESH_LOCK` is (`Calls`): the last two are why
nothing is left when nobody is at work (`LocksComeBack`). TLC checked the invariant
first. `ReadsComeToRest` is model-checked only.

Worth knowing. After a search fails, `IN_FLIGHT` forgets a lock that others still
wait for, so a newcomer takes a new one and two searches of one key run, which
`bcgw_service/__init__.py` (135-140, 170-173) does not expect; `SearchesShare` counts
them. Works are fetched with no lock, so a request may be answered with an
older answer for them than one given before; `AnswersHold` speaks of the list and
the filters' tables. A waiter gives up after 60 s, while a refresh whose token was
refused may take 80 s (token and call, twice), against `constant.py:325-326`. A late
401 may drop a token newer than the one refused, which costs one more login.

## 7. Mutants

Every property of every passing run has a mutant in `PROJECT.json`: a definition of
the model replaced by what a plausible slip in that code would make of it, under
which the run must fail. The mutated forms stand beside the definitions they mutate
and say so in a comment, or by their name (`NeverPending`, `AnyAnswer`, `NoUndo`,
`KeyByPlace`).

## 8. Not modelled

- **The BCGW fan-out** of a click over its layers: the pool of threads and the time
  budgets. `MapClicks` has what a batch may answer, layer by layer, and
  `UpstreamReads` the single flight behind it.
- **Hosted-layer reads**: each is one statement over the served tables; what it may
  see while a load replaces the rows is what `HostedLayer` promises.
- **The signed-in user, authorisation and the audit log**: a library checks the
  token; a user's row is one look-up and one insert. The commit of the audit hook
  is part of `Favourites`.
- **Host page, deployment, migrations**: configuration. What the ingest relies on of
  them, the schedule, the deadline and a rebuild of the cache schema, is in
  `LayerIngest`.
- **Text and geometry**: names, attributes, the wording of responses, colours, sizes,
  where a popup or the camera goes, the parsing of files and of geocoder answers.

What is left to TLC alone: the liveness properties (`EventuallyServed`, `WorksRun` and
`ComesToRest` of five modules, `ReadsComeToRest`), because fairness is about ENABLED,
which the prover does not treat. Every other property of a passing run is a theorem.
