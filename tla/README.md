# Circuit Forgery in TLA+

Circuit Forgery is a self-hosted route planner for motorbikes: a browser client
(`src/frontend/src`, plain JavaScript modules around Leaflet), a FastAPI backend
(`src/backend/app`, SQLAlchemy on SQLite) and external engines (GraphHopper,
Nominatim for geocoding, the IRVE charging-station database of data.gouv). This directory models
the parts of it where several things happen at once, checks them with TLC and
proves the most important guarantees with TLAPS.

JavaScript runs one handler at a time, but nearly every feature of the client
waits for an answer, and everything can happen during the wait: another edit,
another opening, a click on the same button, a change of tab, the loss of the
page. The code answers with sequence numbers, `AbortController`s, comparisons
by identity, disabled buttons and a dirty flag. That net is the core of the
program and of these modules.

## Inventory

| part | state it keeps | operations | talks to |
|---|---|---|---|
| `api/latest-request.js`, `api/http.js` | the current controller; a timer per fetch | `run`, `cancel`; fetch, timeout, abort, body | every caller that replaces a request |
| `state/store.js` | the keys of the editor | `setState`, subscriptions with keys, queue of nested updates | everything in the client |
| `state/draft-autosave.js`, `draft-storage.js` | dirty flag, debounce timer, one key of `localStorage` | notified, flush, cancel; save in two attempts, load | store, `main.js` |
| `controllers/route-controller.js` | `loadSeq`, the current computation, buttons | compute, open, enrich, save, update, clear, react to deletions | store, backend, draft, waypoints, tabs |
| `ui/route-alternatives.js` | its controller, the list, its button | ask, reset, list, pick | store, backend |
| `map/markers.js`, `state/history.js`, `utils/waypoint-ids.js` | points, selection, id counter, undo and redo stacks | add, remove, edit, reverse, reorder, replace, clear, undo, redo, set silently | store, zones |
| `controllers/avoid-zone-controller.js`, `map/avoid-zone-draw-interaction.js` | drawing mode, gesture | toggle, draw, add, remove | waypoints (flag, history), tabs, options panel |
| `controllers/round-trip-controller.js` | picking mode, `generating`; forced points and variant in the store | pick a start or forced points, generate, vary | waypoints (flag, `replaceAll`), backend, tabs |
| `ui/tabs.js` | the current tab | activate, switch by program | all modes |
| `ui/address-search.js`, `controllers/itinerary-controller.js`, `utils/itinerary.js` | text of each field, debounce, current search, list and active suggestion | type, arrows, choose, Escape, blur, follow the points | geocoding, waypoints |
| `map/route-layer.js`, `map/route-insert-interaction.js`, `utils/route-segments.js` | the route drawn and its leg boundaries, the segment grabbed | draw, clear, press, release, give up | waypoints |
| `ui/waypoint-list.js` | the items, the point being edited, the item being dragged | render, edit, commit, cancel, remove, up, down, drag | waypoints |
| `controllers/gpx-controller.js`, speed limit, EV | inputs, debounce | user changes of options and points | store, backend |
| `ui/saved-routes-list.js`, `list-panel.js`, `confirm-button.js` | the list, buttons disabled and armed | list, favourite, delete, confirm, redraw | backend, route controller |
| POIs, busy indicator | markers, promises counted | load, show | backend |
| `routers/routes.py`, `db/models.py`, `db/session.py` | rows of saved routes | create, read, update, delete, compute, alternatives, round trip | SQLite, GraphHopper, charging |
| charging (`charging_plan`, `charging_route`, `charging_stations`, `irve_client`) | cells and stations cached in the database | place stops, search cells page by page, route again | IRVE, GraphHopper |
| geocoding (`geocoding_client.py`) | `_next_slot`, `_inflight`, `_cache` | search, share, wait for a slot, evict | Nominatim |
| round trip and sampling (`geo_sampling.py`, `via_points.py`) | none | thin a line out, insert via points | GraphHopper |
| the rest of the backend | none worth naming | GPX, validation, middleware, migrations, health | |

The backend is one Uvicorn worker (`backend/Dockerfile:64`): `async` handlers
interleave at their `await`s, the others run each in a thread of a pool.

What makes each hard: **answers out of order** (computations, openings,
enrichments, alternatives, imports, saves), **state read before a wait and used
after it** (options, points, edit mode, button state), **one shared flag for
two modes**, **one shared history for two kinds of data**, **the loss of the
page at any moment** with a write of the draft due or refused, **requests whose
client has given up but which the backend still serves**. `PROJECT.json` lists
each hazard at its line, with the properties that watch it or the reason why
none does yet.

## Modules

| module | what it models |
|---|---|
| `LastCallWins` | abstract: of all calls, only the last one that is not cancelled may report a result |
| `LatestRequest` | `createLatestRequest` over `fetchWithTimeout`: controllers, aborts, timer, headers, body |
| `DraftAutosave` | the autosave as a function of what it is told: also the abstract view of the draft that the editor implements |
| `RouteEditor` | the editor of one tab with the rows of the backend: 32 actions over store, computations, openings, enrichments, alternatives, saves, deletions, imports, points of passage, draft, loss of the page |
| `MapModes` | what a click on the map means: picking, drawing, the shared flag, tabs, options panel, generations of loops and the variant |
| `UndoTimeline` | abstract: a line of screens and a place on it |
| `WaypointHistory` | points, ids, selection, zones and the two stacks; implements `UndoTimeline` |
| `SavedRoutes` | the rows under the threads of `routes.py`, and the list of a tab with its favourite and delete buttons |
| `Charging` | where recharges are due, cells fetched and cached, stations chosen, the second routing |
| `AddressSearch` | the three address fields with the geocoding client of the backend |
| `PointGestures` | where a point lands: click, step dragged out of the route, list with its form, loop thinned out by the backend |
| `MC*` | instances for TLC |
| `*Proofs` | theorems |

How they compose: `LatestRequest` is shown to implement `LastCallWins`;
`RouteEditor` INSTANCEs `DraftAutosave` with its own store (`Draft!Flush`,
`Draft!Discard`, ... are the operations its actions call) and is shown to
implement it, so what is proved of the autosave for any screen holds of the
editor; `WaypointHistory` is shown to implement `UndoTimeline`. `RouteEditor`
keeps points abstract (a content and the identity of the array), and its
`UndoRedo` chooses any; `WaypointHistory` is what decides which. The rows of
`RouteEditor` are changed one handler at a time; `SavedRoutes` takes these
handlers apart. `AddressSearch` composes a field of the page with the service of
the backend it waits for, and `PointGestures` the map, the list and the loops of
the backend, which meet in the array of points.

### State and code

`RouteEditor`. An action is what the code runs between two waits: a click with
every subscriber it sets off, or the continuation of an answer. A request in
flight is a record of what it captured: `computes` (`computeAndRender`),
`opens` (`openSavedRoute`, with `seq` the value of `++loadSeq`), `enriches`
(`enrichLoadedRoute`), `altRequests`, `writes` (POST and PUT). `controllers`
numbers the `AbortController`s; the current one of a caller is a number or 0.
`ref` is the identity of the array `waypoints`, which `enrichLoadedRoute`
compares; `mixed`, `wanted`, `unsaved` are history variables (screens stored or
sent in pieces that did not fit, the edit mode last asked for, a change neither
saved nor given up). The action `ServeWrite` is the backend, apart from the
answer: `orphan` writes are those whose client has given up and which may be
served later.

`MapModes`. `addOnMapClick` is `_addOnMapClick` of the waypoint manager, which
`startPicking`/`stopPicking` and `setDrawing` both write. `loops` are the
calls of `generateFrom`; they wait twice (`asked`: the backend; `computing`:
`waitForRecompute`). `of` names the start and distance. History variables:
`effects` (what the last click did), `crossed` (both modes have been on
together since one of them was entered), `shown` and `outlived` (which loop is
on screen, and which were replaced during their second wait).

`WaypointHistory`. `past`, `future` as the arrays of `createHistory`, ends
included (`push` and `pop` at the end, `shift` at the front). A snapshot is a
record of points and zones. `normalizeIds` is stated by its result: an id is
kept if positive and not met before, and the others get, in order, the numbers
after the largest.

`LatestRequest`. `controller` is the closure's variable, `aborted` the signals;
a fetch is `fetching` while the timer and the forwarded abort exist (until the
headers), then `reading`.

`DraftAutosave`. `screen` is what `serializeDraft` writes of the store, in the
groups the autosave tells apart: `user`, replaced by user changes; `route` and
`editing`, the two keys it tracks when they change silently; and `loop`,
`pendingForcedPoints` and `roundTripVariant` together, which are written with the
rest, always change silently (`LoopChange`) and are not tracked. `Store` is the two
attempts of `saveDraft` (whole, without the route, refused). History variables:
`unsaved` (a user change neither saved nor given up) and `behind` (`loop` has
changed since the last write). `DraftIsScreen` demands that a draft with no write
due be the screen, but for a `loop` that is behind.

`SavedRoutes`. A call that writes is a record: `sent`, `read` (its thread has
the row, kept in `seen`), `committed` (the row is read again for the answer),
`done` or `refused`. Nothing locks a row between `Read` and `CommitUpdate`, and
`Written` is SQLAlchemy's UPDATE, which sets the columns that differ from those
read. `waits` is false for a call given up or of another tab; `button` is the
button of the list that sent it, until the list is redrawn. `listing` is the
last `refreshSavedRoutesList`: an earlier one is dropped when it is answered.
`birth` tells the rows that had the same id apart. History variables: `outdated`
(a write this tab will not hear of), `clashed` (rows written by an update that
had read another content).

`Charging`. A request goes through `prefetch`, then `look` and `near` for each
target and each radius (`_station_for`), then `route`. Its `wave` is what
`_ensure_cells` gathers: for each cell the page it is at and the rows it got.
`Choose` stores the wave and picks the nearest station: one action, since the
code does not wait in between. `cells` holds when each was read; the flag
`truncated` stored with it is left out, since nothing reads it. `BoxSpan` is how
far the box of each radius reaches: `_deg_span` takes a degree for 111320 m and
`haversine_m` for about 111195 m, so that the box asked for, and the rows filtered
with it (`NearStations`), end a little short of the radius. `Page` gives the
rows of a cell by their rank, as the source orders them. `Stops` is where along the trip the stations placed are
(targets differ, hence a set); `InterleaveStops` and `UserLegs` are `_interleave`
and the boundaries kept.

`AddressSearch`. `search` is the search of the field that has the focus (`sent`,
`shared`: it awaits a task of the backend, `found` or `error`), `tasks` is
`_inflight` with the slot each has reserved, `cache` is `_cache` in its order of
use. `text` says for each field whether it shows what was typed or its point. History
variables: `failed` (the last search failed) and `givenUp` (Escape gave a text up
while its timer or search was pending), the two ways out of `ListIsOfText`.

`PointGestures`. `shown` is the route displayed, `bounded` the points its
`_legBoundaries` were answered for, `drag` the segment grabbed with `shown` as
it was, `list` the points the items were drawn from, `form` the `_editingId`
with what was read and typed, `lifted` the index an item is dragged with.

### Abstractions

- Points are a content out of a few, options three flags (`zone`, `limit`,
  `ev`), a route the points and options it was computed for and where it came
  from. Geometry, distances and names are left out; `isSameRoute` is a free
  choice, as are the legs of a charging route.
- The backend's id of a new row is any free one (SQLite may reuse the id of a
  deleted last row). A create blocks when no id of the instance is free: a bound.
- One kind of import in `RouteEditor` stands for a GPX file and a loop; the
  modes that lead to a loop are in `MapModes`.
- Counters (`controllers`, `loadSeq`, `ref`) are not set back by a reload: they
  only tell requests apart and none outlives its page.
- In `MapModes` an opening may be answered at any time (the list can be
  clicked in another tab first), and a press on the map begins and ends inside it.
- `SavedRoutes` gives a new row the id after the largest, as SQLite does here.
  A content is three columns that belong together (points, line, stops).
- In `RouteEditor` a generated loop becomes the variant (`LoopChange`) apart from
  its arrival (`ImportAnswered`), as in the code, which waits for the route in
  between; that the variant is the loop on screen is the matter of `MapModes`.
- The map of `Charging` is a road from west to east, where a degree of longitude
  is two thirds of a degree of latitude, so that cells are narrower than high;
  a station is a number, which orders the rows of a page.
- In `AddressSearch` a query stands for the place it finds, and where a step fits
  best is free. In `PointGestures` it is computed, on places along one road.
- `PointGestures` drags one step at a time; the flag of the click is the matter
  of `MapModes` and undo that of `WaypointHistory`.
- `WaypointHistory` treats place and label as one value. Leaflet and the
  rendering of markers are left out.

## Runs

| run | question | bounds |
|---|---|---|
| `latest_request` | is only the wanted call heard, are the others aborted, does the wait for headers end? | four calls: one stale, one aborted, one cancelled and one live overlap |
| `draft_autosave` | is a draft with no write due the screen (its untracked keys apart), is the draft of a clean page of the same points, does one given up stay away? | two values besides the empty one in each of its three tracked parts, symmetric, and two of the untracked one; all histories |
| `editor_answers` | is what is on screen one thing (route, alternatives, edit mode) whatever the order of the answers? | one edit, two openings, one picked alternative, one import; two lists of points, zones on and off |
| `editor_reload` | over saves, deletions and the loss of the page, is the draft always what `DraftAutosave` allows? | one edit, one opening, one save or update, one deletion, one change of the points of passage, one reload; `localStorage` whole, without the route or refused |
| `map_modes` | does one click do one thing, do modes end where they can no longer be seen, is the variant that of the screen? | three loops: one on screen, one in each wait; two forced points |
| `waypoint_history` | do undo and redo move along one line, are ids unique, is the stack bounded? | two undos, two points, two places, one zone, three ids, drafts with ids missing and double |
| `saved_routes` | does the list settle on the table, does every disabled button have a reason, does a row keep the pieces of one save? | two ids, three writes, two of them not of the list: two overlap and one finds what they left |
| `charging` | is each stop the nearest station the search can find whatever the cache held, does the plan keep to the autonomy, are the user's legs kept, does every request end? | two requests, four trips (the cap met, the tail skipped, none needed, refused), two sets of stations (one in the strip between the box and the radius, one past the budget of pages), boxes one unit short of the radius, two pages of one row, three stops, cells that expire at once |
| `address_search` | are suggestions those of the text (but after a failed search or a text given up), do fields show their points, is the service spared? | two texts, three typings, times 0 to 3 with an interval of 2, answers kept for 1, a cache of one entry |
| `point_gestures` | does a dragged step land in its leg, does the list follow, does a loop fit? | three places, at most five points, a limit of four for a computation, three changes |

Each bound is a constant with that name in the `.cfg`; `Budget` in
`RouteEditor` bounds how often each kind of action happens, and everything that
follows from them (answers, failures, timers, `pagehide`) is unbounded. The
interesting histories need two of the same kind (two openings, two waits) or
one of each, which the bounds allow; what is proved below is for any bound.

Deadlock is checked, except where everything the bounds allow may have
happened (`saved_routes`, `charging`, `point_gestures`, `stale_boundaries`): calls
are all answered, requests all over, or no change is left.

Runs that expect a violation show where the code does not do what the
repository says of it. The statement quoted is in the property's comment:

| run | what happens |
|---|---|
| `save_during_compute` | the save button works while a route is computed: new points are stored with the old geometry |
| `stale_boundaries` | a step is released while other points are on screen than those the leg boundaries were computed for, as many as before: their number agrees, so the boundaries are used all the same, and the step goes to another place than a click there would give it |

Met while modelling, in the models, without a run of their own:

- The points of passage of the next loop and the last loop generated are in the
  draft but not among the keys the autosave tracks (`draft-autosave.js:7`,
  `round-trip-controller.js:90-96` and `138`): put down after the last write, they
  are not in it until something else is written, and a page lost then loses them.
- A station just inside the radius of a search, due north or south, is outside its
  box and is missed: the last thousandth of the radius
  (`charging_stations.py:16` and `30-32`, `geo.py:5`).
- A cell cut by its budget of pages is marked so only if the answer gave its total
  (`irve_client.py:187`), and nothing reads the mark.
- A draft written during a computation has new points and the old route; after
  a reload it is shown if both have as many points (`main.js:160`).
- Alternatives neither follow nor send the vehicle (`route-alternatives.js:66`):
  one picked in electric mode passes by no charging station.
- Drawing on, picking on, Escape: the flag is given back while drawing is on,
  and a short press then adds a zone and a point (`round-trip-controller.js:77`).
- After a clear during the second wait of a generation, "Autre variante" is
  offered for a loop that is gone (`round-trip-controller.js:138`).
- The timer of a fetch ends with its headers; a body that stalls waits for ever
  (`http.js:55`).
- The recomputation of an opened route replaces that of options changed
  meanwhile: points are compared after the wait, options are not
  (`route-controller.js:463`).
- The 404 or the success of an update ends the edition of another route, opened
  meanwhile (`route-controller.js:341-346`), and the answer to a save gives up the
  draft of edits made since (`route-controller.js:278`).
- The answer to a computation enables the button a save had disabled: a second
  click creates the route twice (`route-controller.js:180`). A POST given up by
  its timeout may be committed all the same.
- Générer, Autre variante, then a click on the map: two generations at once
  (`round-trip-controller.js:168`).
- The list redrawn by another answer gives back a button whose call is under way,
  which the comment at `saved-routes-list.js:89-90` excludes; and SQLite gives the
  id of a deleted last row again, so that a click on a list not yet redrawn acts
  on another route.
- Two updates of one route that overlap leave columns of both (`clashed`).
- Escape in a field whose list is empty gives its text up, but not its timer or
  search: suggestions open under the text of the point
  (`address-search.js:119-126`), which the comments of `close`
  (`address-search.js:34-35`) and of `onClear` (`itinerary-controller.js:30`) do not
  mean. `ListIsOfText` states this exception and that of a failed search.
- A search covers up to 2 × 3 cells, since they are narrower in longitude; the
  comment at `charging_stations.py:39-42` says never more than 2 × 2. Stations
  that closed are never deleted from the cache, and the limit on concurrent
  fetches is one per request.
- An item dragged in the list is known by its index: when a loop, an import or an
  opening replaces the points before it is dropped, another point is moved
  (`waypoint-list.js:155`).
- The slots of the geocoding client are spaced; the requests are sent at their
  slot or later, so that two may be nearer than the interval. `RateBounded` is
  what remains true.
- The GPX banner says that only the first points are kept
  (`gpx-controller.js:23-24`); the backend thins the whole track out.

## Fairness

`LatestRequest` states a liveness property under `FairSpec`: weak fairness of
the rejection of an aborted fetch and of the timer, both of which the browser
provides. Nothing is assumed of the server or the network, hence `FetchEnds`
speaks of the wait for headers and no property of the body.

`Charging` assumes weak fairness of the steps of each request, together: the
clients of the source and of GraphHopper have timeouts (`irve_client.py`,
`graphhopper_client.py`), so that a wait ends with an answer or a failure, and
the event loop runs what is ready. It does not assume success. `RequestsEnd`
then says that waves asked for again, wider searches and cells that expire while
they are used do not go on for ever. All other specifications are safety only:
nothing in the code makes an answer come.

## Proofs

All theorems hold for every value of the constants under the named assumptions
(`MaxCallsAssumption`, `DraftAssumption`, `EditorAssumption`,
`ModesAssumption`, `SavedRoutesAssumption`, `SearchAssumption`,
`ChargingAssumption`, `HistoryAssumption`, `GestureAssumption`), which TLC
evaluates on every run of the module.

- `ClientProofs`, the two small parts everything in the client uses. Of
  `LatestRequest`: types (`RequestTypeOK`); at most one fetch is live and not
  aborted, because a call that is neither settled nor aborted is the current
  controller's; and the refinement of `LastCallWins`, step by step. Of
  `DraftAutosave`: types and the three guarantees. The strengthening says that a
  dirty draft implies an unsaved change (`DirtyIsUnsaved`), and each result of a
  write is followed apart. `DraftFollowsScreen` says of the untracked keys only that
  the draft holds some earlier value of them: a change of these keys alone leaves
  what it says true (`LoopChangeKeepsDraft`), and a write that is not refused makes
  them those of the screen.
- `RouteEditorProofs`: types; every step of the editor is a step of
  `DraftAutosave` or leaves its variables alone (`DraftImplementation`), and
  from an inductive invariant `IInv` the three guarantees of the screen.
  `RouteMatchesScreen` alone is not inductive: an answer must be known to be
  right before it comes. `IInv` adds `ComputesFresh` (the current computation
  is for the points and options on screen; ids are below `controllers`),
  `EnrichesFollowRef` (an enrichment with the current `ref` has the current
  points), `AlternativesFresh`, `StoredFit` (every row, every write, the draft
  and every loaded answer has a route of its own points or is recorded in
  `mixed`) and `OpensOrdered` (an opening with the current number is the one
  whose edit mode is `wanted`). `DraftOfEditor` takes the three guarantees of
  `DraftAutosave` to the whole editor: its store is the screen there, so they
  follow from `DraftStep` by the argument of `ClientProofs`, with the same exceptions
  (a write refused or without the route, untracked keys not written yet). It does not need that
  some write is possible, which `EditorAssumption` does not say.
- `MapModesProofs`, three inductive invariants over the same steps. `ModesInv`:
  the flag is free whenever no mode is on, modes end where they are out of
  sight, a gesture needs its mode. `FlagTellsModes`: unless both modes have been
  on together, the flag is off exactly when one is on, so that a click is for
  one of them (`OneEffectPerClick`). `LoopsInv`: a loop in its second wait is on
  screen or was replaced there (`SecondWaitIsKnown`), so that the name it
  leaves at its end is one of these (`VariantIsOfScreen`).

- `SavedRoutesProofs`: types, from `CallOK` for each call. `RowsWhole`: a call
  that has read keeps the columns it saw, and its UPDATE either leaves the rest
  of what it read or is recorded in `clashed`. `ButtonsComeBack`: the call of a
  disabled button keeps its id and its button until it is answered or the list
  is drawn again. `ListIsTable` rests on `ListedRight`: row by row, the listing is
  right unless news of that row is to come (a listing, or a call that is waited
  for and done, or committed with its row still there) or the row is `outdated`.
  The row must still be there because a call committed on a row deleted since
  ends as a refusal, which refreshes nothing.
- `AddressSearchProofs`: `FieldsFollowPoints`; `ListFitsText`, since what the
  focused field awaits (timer, then search, then list) is of its text, unless the
  last search failed or Escape gave that text up, in which case it is of what was
  given up until the next key;
  `ServiceIsSpared`: for every time t from now on, what was sent and the tasks
  whose slot is at most t, together, number at most one per interval up to t, and
  the next slot lies after them all. `SearchTypesHold`, from `SearchInv`, which
  adds what the types need: the focused field is one the points give a role to,
  so that "end" never replaces the last of no points (`FieldTypes`); a search is
  of one query, so that an answer has a length (`ListTypes`); and the cache is a
  dictionary, so that a hit, which takes an entry out and puts it last, keeps its
  size (`CacheTypes`).
- `ChargingProofs`, four results.
  `PlanIsWithinAutonomy`: the recharges due are the first ones up to the cap
  (`DueIsPrefix`), since none is due after one that is not; so the targets are the
  multiples of the interval, and what is left behind the last one is within the
  autonomy (`TailIsReached`). `PlanInv` carries this through the searches: a
  request keeps its trip, and its targets once they are set.
  `StationsAreTheNearest`, from `ChargingInv`: the rows of a cell have ranks, a
  page is the ranks from one to another, so a wave that ended has them all, unless
  the cell has more rows than its budget (`FetchRight`); what is stored inherits
  this (`CacheRight`), whichever request read it. The cells asked for cover the box around a target (`CellsAtCover`),
  so the station chosen among their rows is nearest among all those of the box that
  can be known; and what was placed stays right while other requests fill the cache,
  because a dense cell is dense whenever it is read. The search widens up to the
  larger of the two radii, so the reach the property speaks of is the box of that
  one: of the stations between its end and the radius nothing is claimed, whatever
  `BoxSpan` is.
  `LegsAreOfTheUser`: the points of the user take increasing places among the
  stops, and the stops between two of them are those whose rank falls there
  (`FirstOnes`, `StopsAreBetween`).
  `ChargingTypesHold`: the types, part of the same invariant.
- `WaypointHistoryProofs`: `StacksStayBounded`, as sequences of whatever screens:
  a redo moves one screen from one stack to the other and drops none. From
  `HistoryInv` (types; every screen of both stacks has different ids below the
  counter) `HistoryTypesHold` and `IdsAreUnique`: what `normalizeIds` keeps are
  first occurrences, what it gives is above them all. `HistoryIsATimeline`: every
  action is a step of `UndoTimeline` or leaves the line alone. The line is the past,
  the screen and the future reversed, so that an undo and a redo only move the
  place, a change cuts what comes after, and the shift of a full stack drops the
  oldest screen.
- `PointGesturesProofs`: `TypesCorrect`, `DraggedStepsStayInside`,
  `ListFollowsPoints` and `LoopsFit`, for any places, tracks, via points, limit
  and number of changes. The inductive invariant `IInv` is short: points have
  different ids (`Sound`); the list is that of the points and a form is of one of
  them (`FormFits`); what is dragged was a segment of the route displayed at the
  press (`GesturesFit`); what is drawn with boundaries is no longer than a
  computation may be (`RouteFits`). The theorems are about steps, and the work is
  in the operators:
  - a function defined step by step over `0..n` exists and has the values
    expected, by a least counterexample (`RecursionExists`, `AllReached`), since
    the induction of the library cannot be instantiated;
  - ids (`FreshIdsAre`): among the first `n + c` numbers `n` are free of `c` used
    ones, and the k-th is found by rank (`NthIsThere`, `NthGrows`);
  - legs: the line up to a place ends on it (`LineEnds`) and is the beginning of
    every longer one (`LineGrows`); from one place on, the next is not met before
    the end of its own leg (`FirstMet`), so the nearest coordinate is that end
    (`NearestIs`) and the boundaries are the lengths of the lines
    (`BoundariesAreReaches`), though a route may pass a place several times. So
    `legIndexForCoordIndex` gives the leg a segment is part of (`LegIndexOfRoute`),
    provided the boundaries are of the route grabbed: the run `stale_boundaries`
    shows what happens when they are not;
  - loops: rounding keeps both ends and at most as many positions as were aimed at
    (`RoundedIs`, `SubsampleIs`); each via point is put between the ends and
    removes nothing (`OnePlaceMore`, `ViasInserted`).

Four conventions keep these provable, and are the same for TLC: what the code
filters out of a sequence is given by the places kept (`WaypointHistory`,
`AtPositions` of `PointGestures`), the rows of a page by their rank (`Rank`, `Nth`
of `Charging`), a sequence put together from two others by what stands at each
place (`InterleaveStops`, over the distances of the stops), and a loop of the code
that feeds each result to its next round by a recursive function over `0..n`
(`Lines`, `LegBoundaries`, `InsertViaPoints`).

Only model-checked: the liveness properties `FetchEnds` and `RequestsEnd`, which
are out of the prover's reach. Every other property of the passing runs is a
theorem. The proofs share the abstractions of the runs, among them the one road
along which `PointGestures` measures distances.

## Not modelled, and why

Rendering (Leaflet, DOM), messages and formatting: no property is about them.
Points of interest (a list loaded and shown), HTTP middleware, migrations and
health are stateless or run once. The GraphHopper client and its retries with
other seeds are an answer, an error or a wait in every module. Reading and
writing GPX is parsing. The store's queue of nested updates, the debounced speed
limit and vehicle inputs, and the busy indicator keep state of their own: they
come next.

## Plan

Written so far, in this order: the request helper, the draft, the editor with
its rows, the modes of the map, the history; then the rows under threads and
their list, charging, address search with geocoding, the gestures that place a
point. What is left, by what is at stake:

1. `Store`: nested updates, keys merged in the queue, a listener that throws.
2. The debounced speed limit typed for one route and published after another was
   opened, and the busy indicator, within `RouteEditor`.
3. GraphHopper's retries of a loop with other seeds.
4. That the computations of `RouteEditor` implement `LastCallWins`: its records
   are dropped with their answers and its numbers are shared with other requests,
   so that it needs history variables for what each computation reported.
