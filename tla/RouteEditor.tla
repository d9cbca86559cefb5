----------------------------- MODULE RouteEditor ----------------------------
(***************************************************************************)
(* The route being edited in one browser tab: the store's keys, the route  *)
(* controller (frontend/src/controllers/route-controller.js), the          *)
(* alternatives panel (ui/route-alternatives.js), the opening, saving and  *)
(* deletion of saved routes, the draft (state/, main.js) and the rows the  *)
(* backend keeps.                                                          *)
(*                                                                         *)
(* JavaScript runs one handler at a time, so an action is what runs        *)
(* between two awaits: a click with all the store notifications it sets    *)
(* off, or the continuation of an answer.  Requests in flight are records  *)
(* of what they captured when they were sent; they are answered, or fail,  *)
(* in any order.                                                           *)
(*                                                                         *)
(* Waypoint lists and options are compared by content, except where the    *)
(* code compares arrays by identity: `ref` is the identity of the          *)
(* `waypoints` array.                                                      *)
(***************************************************************************)
EXTENDS Naturals

CONSTANTS
  PointLists,           \* Contents of the waypoint list.
  NoPoints,             \* The empty one.
  NumPoints,            \* Number of points of each.
  OptionChoices,        \* The options a user may choose, a subset of Options.
  DefaultOptions,       \* Those of a page opened for the first time.
  RouteIds,             \* Ids of saved routes.
  None,                 \* editingRouteId = null
  NoRoute,              \* computedRoute = null
  Loops,                \* Points of passage and last loop: see DraftAutosave.
  NoLoop,               \* None of either.
  NoRow,                \* No saved route under an id.
  NotServed,            \* A GET the backend has not answered yet.
  NoDraft,              \* No draft in localStorage.
  Stock,                \* The rows of the database when the page is opened.
  Writes,               \* What localStorage may do with a write.
  Budget                \* Bounds: how often each kind of action may happen.

Limits == {"default", "custom", "none"}

\* zone: avoidZones is not empty; limit: speedLimitKmh and noSpeedLimit;
\* ev: evEnabled with its settings.
Options == [zone : BOOLEAN, limit : Limits, ev : BOOLEAN]

\* A value of computedRoute: what it was computed for, and where it is from.
\* A loaded route has no leg_boundaries.
Kinds == {"computed", "enriched", "alternative", "loaded"}

RouteValues == [points : PointLists, options : Options, kind : Kinds]

Rows == [points : PointLists, options : Options, route : RouteValues]

Bounded == {"edits", "opens", "picks", "saves", "deletes", "imports", "loops", "reloads"}

\* A row saved before this page was opened has the route of its own points.
ASSUME EditorAssumption ==
  /\ NoPoints \in PointLists
  /\ NumPoints \in [PointLists -> Nat]
  /\ NumPoints[NoPoints] = 0
  /\ OptionChoices \subseteq Options
  /\ DefaultOptions \in Options
  /\ NoRoute \notin RouteValues
  /\ NoRow \notin Rows
  /\ NotServed \notin Rows \cup {NoRow}
  /\ None \notin RouteIds
  /\ NoLoop \in Loops
  /\ Stock \in [RouteIds -> Rows \cup {NoRow}]
  /\ \A i \in RouteIds : Stock[i] # NoRow =>
       /\ Stock[i].route =
            [points |-> Stock[i].points, options |-> Stock[i].options,
             kind |-> "loaded"]
       /\ NumPoints[Stock[i].points] >= 2
  /\ Writes \subseteq {"whole", "withoutRoute", "refused"}
  /\ Budget \in [Bounded -> Nat]

VARIABLES
  \* The store.
  waypoints,            \* Content of the waypoint list ...
  ref,                  \* ... and identity of its array.
  options,
  computedRoute,
  editingRouteId,
  loop,                 \* pendingForcedPoints and roundTripVariant.
  \* Computation of the route.
  controllers,          \* Number of AbortControllers created so far.
  routeController,      \* The current one of routeRequest; 0: null.
  computes,             \* computeAndRender waiting for its answer.
  \* Opening a saved route.
  loadSeq,
  opens,                \* openSavedRoute waiting for the row.
  enriches,             \* enrichLoadedRoute waiting for its recomputation.
  \* The alternatives panel.
  altController,        \* The current controller of its request; 0: null.
  altRequests,
  altList,              \* The options on display.
  altDisabled,          \* Its button was disabled by a click.
  \* Saving, deleting, importing.
  saved,                \* The rows of the backend.
  writes,               \* POST and PUT in flight.
  saveDisabled,         \* Each button, disabled by its own request.
  updateDisabled,
  deletes,              \* Deletions done whose answer is not here yet.
  imports,              \* GPX imports and loop generations in flight.
  \* The draft: see DraftAutosave.
  dirty, timer, draft, lastWrite, unsaved, behind,
  \* History and bounds.
  mixed,                \* The mismatched screens ever stored or sent.
  wanted,               \* The edit mode the last opening asked for.
  budget

storeVars == <<waypoints, ref, options, computedRoute, editingRouteId, loop>>
computeVars == <<controllers, routeController, computes>>
openVars == <<loadSeq, opens, enriches>>
altVars == <<altController, altRequests, altList, altDisabled>>
saveVars == <<saved, writes, saveDisabled, updateDisabled>>
draftVars == <<dirty, timer, draft, lastWrite, unsaved, behind>>
vars == <<storeVars, computeVars, openVars, altVars, saveVars, deletes,
          imports, draftVars, mixed, wanted, budget>>

UserParts == [points : PointLists, options : Options]

Screen ==
  [user |-> [points |-> waypoints, options |-> options],
   route |-> computedRoute, editing |-> editingRouteId, loop |-> loop]

Draft ==
  INSTANCE DraftAutosave WITH
    screen <- Screen,
    Users <- UserParts,
    NoUser <- [points |-> NoPoints, options |-> DefaultOptions],
    EmptyUsers <- {u \in UserParts : NumPoints[u.points] = 0},
    Routes <- RouteValues \cup {NoRoute}, NoRoute <- NoRoute,
    EditingIds <- RouteIds \cup {None}, NotEditing <- None

-----------------------------------------------------------------------------
Computes == [id : Nat, points : PointLists, options : Options]
Opens ==
  [seq : Nat, id : RouteIds, edit : BOOLEAN, row : Rows \cup {NoRow, NotServed}]
Enriches == [seq : Nat, ref : Nat, points : PointLists, options : Options]
WriteRequests ==
  [id : Nat, target : RouteIds \cup {None}, row : Rows,
   state : {"sent", "done", "missing", "orphan"}]

StoreTypeOK ==
  /\ waypoints \in PointLists /\ ref \in Nat
  /\ options \in Options
  /\ computedRoute \in RouteValues \cup {NoRoute}
  /\ editingRouteId \in RouteIds \cup {None}
  /\ loop \in Loops

ComputeTypeOK ==
  /\ controllers \in Nat /\ routeController \in Nat
  /\ computes \subseteq Computes

OpenTypeOK ==
  /\ loadSeq \in Nat
  /\ opens \subseteq Opens
  /\ enriches \subseteq Enriches
  /\ wanted \in RouteIds \cup {None}

AltTypeOK ==
  /\ altController \in Nat
  /\ altRequests \subseteq Computes
  /\ altList \subseteq RouteValues
  /\ altDisabled \in BOOLEAN

SaveTypeOK ==
  /\ saved \in [RouteIds -> Rows \cup {NoRow}]
  /\ writes \subseteq WriteRequests
  /\ saveDisabled \in BOOLEAN /\ updateDisabled \in BOOLEAN
  /\ deletes \subseteq RouteIds
  /\ imports \in Nat

BudgetTypeOK == budget \in [Bounded -> Nat]

TypeOK ==
  /\ StoreTypeOK
  /\ ComputeTypeOK
  /\ OpenTypeOK
  /\ AltTypeOK
  /\ SaveTypeOK
  /\ Draft!TypeOK
  /\ BudgetTypeOK

Init ==
  /\ waypoints = NoPoints /\ ref = 0
  /\ options = DefaultOptions
  /\ computedRoute = NoRoute /\ editingRouteId = None /\ loop = NoLoop
  /\ controllers = 0 /\ routeController = 0 /\ computes = {}
  /\ loadSeq = 0 /\ opens = {} /\ enriches = {}
  /\ altController = 0 /\ altRequests = {} /\ altList = {}
  /\ altDisabled = FALSE
  /\ saved = Stock /\ writes = {}
  /\ saveDisabled = FALSE /\ updateDisabled = FALSE
  /\ deletes = {} /\ imports = 0
  /\ dirty = FALSE /\ timer = FALSE
  /\ draft = NoDraft /\ lastWrite = "none" /\ unsaved = FALSE /\ behind = FALSE
  /\ mixed = {} /\ wanted = None
  /\ budget = Budget

Spend(kind) ==
  /\ budget[kind] > 0
  /\ budget' = [budget EXCEPT ![kind] = @ - 1]

Fits(p, o, r) == r.points = p /\ r.options = o

\* What is stored or sent of points p, options o and route r, if it does not
\* fit together.
Mismatch(p, o, r) ==
  IF r = NoRoute \/ Fits(p, o, r) THEN {} ELSE {<<p, o, r.points, r.options>>}

-----------------------------------------------------------------------------
(* What the subscribers of the store do after a change. *)

\* computeAndRender, up to its await: without two points the request is
\* cancelled and the route removed; otherwise a new request replaces the
\* current one and the old route stays until the answer.
Recompute(p, o) ==
  \/ /\ NumPoints[p] < 2
     /\ routeController' = 0
     /\ computedRoute' = NoRoute
     /\ UNCHANGED <<controllers, computes>>
  \/ /\ NumPoints[p] >= 2
     /\ controllers' = controllers + 1
     /\ routeController' = controllers + 1
     /\ computes' = computes \cup
          {[id |-> controllers + 1, points |-> p, options |-> o]}
     /\ UNCHANGED computedRoute

\* The alternatives panel listens to the points, the zones and the limit.
Offered(p, o) == NumPoints[p] = 2 /\ ~o.zone /\ o.limit # "custom"

\* Mutant: the list is emptied, the request is left running.
ResetAlternativesListOnly == UNCHANGED altController /\ altList' = {}

\* reset()
ResetAlternatives == altController' = 0 /\ altList' = {}

AlternativesFollow ==
  LET heard == \/ ref' # ref
               \/ options'.zone # options.zone
               \/ (options'.limit = "custom") # (options.limit = "custom")
      reset == ref' # ref \/ ~Offered(waypoints', options')
  IN  /\ altDisabled' = (altDisabled /\ ~heard)
      /\ \/ heard /\ reset /\ ResetAlternatives
         \/ ~(heard /\ reset) /\ UNCHANGED <<altController, altList>>
      /\ UNCHANGED altRequests

\* The action buttons are disabled without a route and enabled with one,
\* each time computedRoute changes.
ButtonsFollow(changed) ==
  /\ saveDisabled' = (saveDisabled /\ ~changed)
  /\ updateDisabled' = (updateDisabled /\ ~changed)

\* A user change of the points or options, with everything it sets off.
\* The caller gives waypoints', ref', options', editingRouteId' and loop'.
UserChanged ==
  /\ Recompute(waypoints', options')
  /\ AlternativesFollow
  /\ ButtonsFollow(computedRoute' # computedRoute)
  /\ Draft!Notified(TRUE, TRUE)

\* A silent change of computedRoute.
ShowRoute(r) ==
  /\ computedRoute' = r
  /\ ButtonsFollow(r # NoRoute \/ computedRoute # NoRoute)
  /\ UNCHANGED <<waypoints, ref, options, editingRouteId, loop>>
  /\ Draft!Notified(FALSE, r # NoRoute \/ computedRoute # NoRoute)

\* A silent change of editingRouteId to null.
LeaveEditMode ==
  /\ editingRouteId' = None
  /\ UNCHANGED <<waypoints, ref, options, computedRoute, loop>>
  /\ Draft!Notified(FALSE, editingRouteId # None)

-----------------------------------------------------------------------------
(* Editing.                                                                *)

\* WaypointManager: a point is added, moved, renamed, removed, ... or the
\* whole list replaced; every operation publishes a new array.
EditPoints ==
  /\ Spend("edits")
  /\ \E p \in PointLists : waypoints' = p
  /\ ref' = ref + 1
  /\ UNCHANGED <<options, editingRouteId, loop>>
  /\ UserChanged
  /\ UNCHANGED <<openVars, saved, writes, deletes, imports, mixed, wanted>>

\* Zones, speed limit, vehicle; a speed limit typed again is published again.
EditOptions ==
  /\ Spend("edits")
  /\ options' \in OptionChoices
  /\ UNCHANGED <<waypoints, ref, editingRouteId, loop>>
  /\ UserChanged
  /\ UNCHANGED <<openVars, saved, writes, deletes, imports, mixed, wanted>>

\* Undo and redo bring back points and zones in one notification.
UndoRedo ==
  /\ Spend("edits")
  /\ \E p \in PointLists : waypoints' = p
  /\ \E z \in BOOLEAN : options' = [options EXCEPT !.zone = z]
  /\ options' \in OptionChoices
  /\ ref' = ref + 1
  /\ UNCHANGED <<editingRouteId, loop>>
  /\ UserChanged
  /\ UNCHANGED <<openVars, saved, writes, deletes, imports, mixed, wanted>>

\* resetRouteState ("Effacer le trajet" and "Annuler"): clear() is a user
\* change, the draft it makes dirty is given up at the end of the handler.
ResetRoute ==
  /\ Spend("edits")
  /\ loadSeq' = loadSeq + 1
  /\ waypoints' = NoPoints /\ ref' = ref + 1
  /\ options' = [options EXCEPT !.zone = FALSE, !.limit = "default"]
  /\ editingRouteId' = None /\ loop' = NoLoop
  /\ Recompute(waypoints', options')
  /\ AlternativesFollow
  /\ ButtonsFollow(computedRoute # NoRoute)
  /\ Draft!Discard
  /\ wanted' = None
  /\ UNCHANGED <<opens, enriches, saved, writes, deletes, imports, mixed>>

-----------------------------------------------------------------------------
(* The answer to a computation.                                            *)

Computing == \E c \in computes : c.id = routeController

\* Mutant: the stale check is gone.
ComputeAnsweredUnchecked ==
  \E c \in computes :
    /\ computes' = computes \ {c}
    /\ ShowRoute([points |-> c.points, options |-> c.options, kind |-> "computed"])
    /\ UNCHANGED <<controllers, routeController, openVars, altVars, saved,
                   writes, deletes, imports, mixed, wanted, budget>>

ComputeAnswered ==
  \E c \in computes :
    /\ computes' = computes \ {c}
    /\ \/ /\ c.id = routeController
          /\ ShowRoute([points |-> c.points, options |-> c.options,
                        kind |-> "computed"])
       \/ /\ c.id # routeController
          /\ UNCHANGED <<storeVars, saveDisabled, updateDisabled, draftVars>>
    /\ UNCHANGED <<controllers, routeController, openVars, altVars, saved,
                   writes, deletes, imports, mixed, wanted, budget>>

\* An engine error, a refused request or the timeout.
ComputeFailed ==
  \E c \in computes :
    /\ computes' = computes \ {c}
    /\ \/ c.id = routeController /\ ShowRoute(NoRoute)
       \/ /\ c.id # routeController
          /\ UNCHANGED <<storeVars, saveDisabled, updateDisabled, draftVars>>
    /\ UNCHANGED <<controllers, routeController, openVars, altVars, saved,
                   writes, deletes, imports, mixed, wanted, budget>>

-----------------------------------------------------------------------------
(* Opening a saved route: preview or copy (edit = FALSE), or edition.      *)

OpenRoute ==
  /\ Spend("opens")
  /\ \E i \in RouteIds, e \in BOOLEAN :
       /\ loadSeq' = loadSeq + 1
       /\ opens' = opens \cup
            {[seq |-> loadSeq + 1, id |-> i, edit |-> e, row |-> NotServed]}
       /\ wanted' = IF e THEN i ELSE None
  /\ UNCHANGED <<storeVars, computeVars, enriches, altVars, saveVars, deletes,
                 imports, draftVars, mixed>>

\* GET /api/routes/{id}: the row as it is now, whenever the answer arrives.
ServeOpen ==
  \E o \in opens :
    /\ o.row = NotServed
    /\ opens' = (opens \ {o}) \cup {[o EXCEPT !.row = saved[o.id]]}
    /\ UNCHANGED <<storeVars, computeVars, loadSeq, enriches, altVars,
                   saveVars, deletes, imports, draftVars, mixed, wanted, budget>>

\* Mutant: a preview has the id 0 for null.
ApplyLoadedRouteZero(o) ==
  /\ routeController' = 0
  /\ Draft!Discard
  /\ waypoints' = o.row.points /\ ref' = ref + 1
  /\ options' = o.row.options
  /\ computedRoute' = o.row.route
  /\ editingRouteId' = IF o.edit THEN o.id ELSE 0
  /\ loop' = NoLoop
  /\ AlternativesFollow
  /\ ButtonsFollow(TRUE)
  /\ UNCHANGED <<controllers, computes, enriches>>

\* applyLoadedRoute and the first half of enrichLoadedRoute.
ApplyLoadedRoute(o) ==
  /\ routeController' = 0
  /\ Draft!Discard
  /\ waypoints' = o.row.points /\ ref' = ref + 1
  /\ options' = o.row.options
  /\ computedRoute' = o.row.route
  /\ editingRouteId' = IF o.edit THEN o.id ELSE None
  /\ loop' = NoLoop
  /\ AlternativesFollow
  /\ ButtonsFollow(TRUE)
  /\ enriches' = enriches \cup
       {e \in {[seq |-> o.seq, ref |-> ref + 1, points |-> o.row.points,
                options |-> o.row.options]} : NumPoints[e.points] >= 2}
  /\ UNCHANGED <<controllers, computes>>

\* Mutant: any answer is applied.
OpenAnsweredUnchecked ==
  \E o \in opens :
    /\ o.row \notin {NotServed, NoRow}
    /\ opens' = opens \ {o}
    /\ ApplyLoadedRoute(o)
    /\ UNCHANGED <<loadSeq, saved, writes, deletes, imports, mixed, wanted, budget>>

\* Only the last opening asked for is applied.
OpenAnswered ==
  \E o \in opens :
    /\ o.row \notin {NotServed, NoRow}
    /\ opens' = opens \ {o}
    /\ \/ o.seq = loadSeq /\ ApplyLoadedRoute(o)
       \/ /\ o.seq # loadSeq
          /\ UNCHANGED <<storeVars, computeVars, enriches, altVars,
                         saveDisabled, updateDisabled, draftVars>>
    /\ UNCHANGED <<loadSeq, saved, writes, deletes, imports, mixed, wanted, budget>>

\* The row is gone, or the request failed: the screen is left as it is.
OpenFailed ==
  \E o \in opens :
    /\ opens' = opens \ {o}
    /\ wanted' = IF o.seq = loadSeq THEN editingRouteId ELSE wanted
    /\ UNCHANGED <<storeVars, computeVars, loadSeq, enriches, altVars,
                   saveVars, deletes, imports, draftVars, mixed, budget>>

\* The recomputation replaces the loaded route if no other route was opened,
\* the array of points is still the same and the distances agree.
EnrichAnswered ==
  \E e \in enriches, same \in BOOLEAN :
    /\ enriches' = enriches \ {e}
    /\ \/ /\ e.seq = loadSeq /\ e.ref = ref /\ same
          /\ ShowRoute([points |-> e.points, options |-> e.options,
                        kind |-> "enriched"])
       \/ /\ ~(e.seq = loadSeq /\ e.ref = ref /\ same)
          /\ UNCHANGED <<storeVars, saveDisabled, updateDisabled, draftVars>>
    /\ UNCHANGED <<computeVars, loadSeq, opens, altVars, saved, writes,
                   deletes, imports, mixed, wanted, budget>>

EnrichFailed ==
  \E e \in enriches :
    /\ enriches' = enriches \ {e}
    /\ UNCHANGED <<storeVars, computeVars, loadSeq, opens, altVars, saveVars,
                   deletes, imports, draftVars, mixed, wanted, budget>>

-----------------------------------------------------------------------------
(* The alternatives panel.                                                 *)

\* The request has the points and noSpeedLimit, and nothing of the vehicle.
ShowAlternatives ==
  /\ Spend("picks")
  /\ Offered(waypoints, options) /\ ~altDisabled
  /\ altDisabled' = TRUE
  /\ controllers' = controllers + 1
  /\ altController' = controllers + 1
  /\ altRequests' = altRequests \cup
       {[id |-> controllers + 1, points |-> waypoints,
         options |-> [options EXCEPT !.ev = FALSE]]}
  /\ UNCHANGED <<storeVars, routeController, computes, openVars, altList,
                 saveVars, deletes, imports, draftVars, mixed, wanted>>

\* The button is released whether the answer is stale or not.
AltAnswered ==
  \E a \in altRequests :
    /\ altRequests' = altRequests \ {a}
    /\ altDisabled' = FALSE
    /\ \/ /\ a.id = altController
          /\ altList' = {[points |-> a.points, options |-> a.options,
                          kind |-> "alternative"]}
       \/ a.id # altController /\ UNCHANGED altList
    /\ UNCHANGED <<storeVars, computeVars, openVars, altController, saveVars,
                   deletes, imports, draftVars, mixed, wanted, budget>>

AltFailed ==
  \E a \in altRequests :
    /\ altRequests' = altRequests \ {a}
    /\ altDisabled' = FALSE
    /\ UNCHANGED <<storeVars, computeVars, openVars, altController, altList,
                   saveVars, deletes, imports, draftVars, mixed, wanted, budget>>

\* A choice replaces the route; a computation in flight is left running.
PickAlternative ==
  \E r \in altList :
    /\ r # computedRoute
    /\ ShowRoute(r)
    /\ UNCHANGED <<computeVars, openVars, altVars, saved, writes, deletes,
                   imports, mixed, wanted, budget>>

-----------------------------------------------------------------------------
(* Saving and updating.                                                    *)

\* The body of a POST or PUT: read from the store at the click.
Send(target) ==
  /\ controllers' = controllers + 1
  /\ writes' = writes \cup
       {[id |-> controllers + 1, target |-> target, state |-> "sent",
         row |-> [points |-> waypoints, options |-> options,
                  route |-> [computedRoute EXCEPT !.kind = "loaded"]]]}
  /\ mixed' = mixed \cup Mismatch(waypoints, options, computedRoute)
  /\ UNCHANGED <<storeVars, routeController, computes, openVars, altVars,
                 saved, deletes, imports, draftVars, wanted>>

SaveRoute ==
  /\ Spend("saves")
  /\ computedRoute # NoRoute /\ editingRouteId = None /\ ~saveDisabled
  /\ saveDisabled' = TRUE
  /\ Send(None)
  /\ UNCHANGED updateDisabled

UpdateRoute ==
  /\ Spend("saves")
  /\ computedRoute # NoRoute /\ editingRouteId # None /\ ~updateDisabled
  /\ updateDisabled' = TRUE
  /\ Send(editingRouteId)
  /\ UNCHANGED saveDisabled

\* Nobody waits any more for the answer to an orphan.
Served(w, outcome) ==
  writes' = (writes \ {w}) \cup
            {x \in {[w EXCEPT !.state = outcome]} : w.state = "sent"}

\* create_route and update_route.
ServeWrite ==
  \E w \in writes :
    /\ w.state \in {"sent", "orphan"}
    /\ \/ /\ w.target = None
          /\ \E i \in RouteIds : saved[i] = NoRow /\ saved' = [saved EXCEPT ![i] = w.row]
          /\ Served(w, "done")
       \/ /\ w.target # None /\ saved[w.target] # NoRow
          /\ saved' = [saved EXCEPT ![w.target] = w.row]
          /\ Served(w, "done")
       \/ /\ w.target # None /\ saved[w.target] = NoRow
          /\ Served(w, "missing")
          /\ UNCHANGED saved
    /\ UNCHANGED <<storeVars, computeVars, openVars, altVars, saveDisabled,
                   updateDisabled, deletes, imports, draftVars, mixed, wanted,
                   budget>>

\* The button of the request is released.
Release(w) ==
  /\ saveDisabled' = (saveDisabled /\ w.target # None)
  /\ updateDisabled' = (updateDisabled /\ w.target = None)

\* Success: an update leaves edit mode, and both give up the draft.
WriteAnswered ==
  \E w \in writes :
    /\ w.state = "done"
    /\ writes' = writes \ {w}
    /\ editingRouteId' = IF w.target = None THEN editingRouteId ELSE None
    /\ Draft!Discard
    /\ Release(w)
    /\ UNCHANGED <<waypoints, ref, options, computedRoute, loop, computeVars,
                   openVars, altVars, saved, deletes, imports, mixed, wanted,
                   budget>>

\* 404: the route being edited is gone.
WriteMissing ==
  \E w \in writes :
    /\ w.state = "missing"
    /\ writes' = writes \ {w}
    /\ LeaveEditMode
    /\ Release(w)
    /\ UNCHANGED <<computeVars, openVars, altVars, saved, deletes, imports,
                   mixed, wanted, budget>>

\* A timeout, before or after the backend did the work; a request given up
\* before may still be served.
WriteFailed ==
  \E w \in writes :
    /\ w.state # "orphan"
    /\ \/ writes' = writes \ {w}
       \/ /\ w.state = "sent"
          /\ writes' = (writes \ {w}) \cup {[w EXCEPT !.state = "orphan"]}
    /\ Release(w)
    /\ UNCHANGED <<storeVars, computeVars, openVars, altVars, saved, deletes,
                   imports, draftVars, mixed, wanted, budget>>

-----------------------------------------------------------------------------
(* Deleting from the list, or from another device.                         *)

DeleteRoute ==
  /\ Spend("deletes")
  /\ \E i \in RouteIds \ deletes :
       /\ saved[i] # NoRow
       /\ saved' = [saved EXCEPT ![i] = NoRow]
       /\ deletes' \in {deletes, deletes \cup {i}}
  /\ UNCHANGED <<storeVars, computeVars, openVars, altVars, writes,
                 saveDisabled, updateDisabled, imports, draftVars, mixed, wanted>>

\* onRouteDeleted
DeleteAnswered ==
  \E i \in deletes :
    /\ deletes' = deletes \ {i}
    /\ \/ editingRouteId = i /\ LeaveEditMode
       \/ editingRouteId # i /\ UNCHANGED <<storeVars, draftVars>>
    /\ UNCHANGED <<computeVars, openVars, altVars, saveVars, imports, mixed,
                   wanted, budget>>

DeleteFailed ==
  \E i \in deletes :
    /\ deletes' = deletes \ {i}
    /\ UNCHANGED <<storeVars, computeVars, openVars, altVars, saveVars,
                   imports, draftVars, mixed, wanted, budget>>

-----------------------------------------------------------------------------
(* GPX import and generated loops: the answer replaces the points.         *)

ImportStart ==
  /\ Spend("imports")
  /\ imports' = imports + 1
  /\ UNCHANGED <<storeVars, computeVars, openVars, altVars, saveVars, deletes,
                 draftVars, mixed, wanted>>

ImportAnswered ==
  /\ imports > 0
  /\ imports' = imports - 1
  /\ waypoints' \in PointLists \ {NoPoints} /\ ref' = ref + 1
  /\ editingRouteId' = None
  /\ UNCHANGED <<options, loop>>
  /\ UserChanged
  /\ UNCHANGED <<openVars, saved, writes, deletes, mixed, wanted, budget>>

ImportFailed ==
  /\ imports > 0
  /\ imports' = imports - 1
  /\ UNCHANGED <<storeVars, computeVars, openVars, altVars, saveVars, deletes,
                 draftVars, mixed, wanted, budget>>

\* A point of passage is put down or taken away, or a generated loop is kept, once its
\* route is computed, to generate another: silent changes that the draft does not track.
LoopChange ==
  /\ Spend("loops")
  /\ loop' \in Loops \ {loop}
  /\ UNCHANGED <<waypoints, ref, options, computedRoute, editingRouteId>>
  /\ Draft!Notified(FALSE, FALSE)
  /\ UNCHANGED <<computeVars, openVars, altVars, saveVars, deletes, imports,
                 mixed, wanted>>

-----------------------------------------------------------------------------
(* The draft.                                                              *)

MixedDraft ==
  mixed' = mixed \cup
    (IF draft' = NoDraft THEN {}
     ELSE Mismatch(draft'.user.points, draft'.user.options, draft'.route))

TimerFires ==
  /\ timer /\ Draft!Flush
  /\ MixedDraft
  /\ UNCHANGED <<storeVars, computeVars, openVars, altVars, saveVars, deletes,
                 imports, wanted, budget>>

PageHide ==
  /\ Draft!Flush
  /\ MixedDraft
  /\ UNCHANGED <<storeVars, computeVars, openVars, altVars, saveVars, deletes,
                 imports, wanted, budget>>

\* The route of a draft is shown if it has as many legs as the draft has
\* points; the charging plan of an electric route may have lost its legs.
Keeps(d) ==
  {k \in BOOLEAN :
     LET legs == /\ d.route # NoRoute
                 /\ d.route.kind # "loaded"
                 /\ NumPoints[d.route.points] = NumPoints[d.user.points]
     IN  k = legs \/ (~k /\ d.route.options.ev)}

\* Mutant: the mode is not restored.
RestoreForgetsEdit(d, keep) ==
  /\ waypoints' = d.user.points
  /\ options' = d.user.options
  /\ loop' = d.loop
  /\ editingRouteId' = None
  /\ wanted' = None
  /\ computedRoute' = IF keep THEN d.route ELSE NoRoute
  /\ routeController' = 0 /\ computes' = {} /\ UNCHANGED controllers

\* main.js on a page opened again: an answer nobody waits for any more, a
\* POST or PUT that may still be served, and the draft restored.
Restore(d, keep) ==
  /\ waypoints' = d.user.points
  /\ options' = d.user.options
  /\ loop' = d.loop
  /\ editingRouteId' = d.editing
  /\ wanted' = d.editing
  /\ computedRoute' = IF keep THEN d.route ELSE NoRoute
  /\ IF ~keep /\ NumPoints[d.user.points] >= 2
     THEN /\ controllers' = controllers + 1
          /\ routeController' = controllers + 1
          /\ computes' = {[id |-> controllers + 1, points |-> d.user.points,
                           options |-> d.user.options]}
     ELSE routeController' = 0 /\ computes' = {} /\ UNCHANGED controllers

Reload ==
  /\ Spend("reloads")
  /\ \/ draft = NoDraft /\ Restore(Draft!Fresh, FALSE)
     \/ draft # NoDraft /\ NumPoints[draft.user.points] = 0 /\ Restore(Draft!Fresh, FALSE)
     \/ /\ draft # NoDraft /\ NumPoints[draft.user.points] > 0
        /\ \E keep \in Keeps(draft) : Restore(draft, keep)
  /\ ref' = ref + 1
  /\ opens' = {} /\ enriches' = {}
  /\ altController' = 0 /\ altRequests' = {} /\ altList' = {}
  /\ altDisabled' = FALSE
  /\ \E kept \in SUBSET {w \in writes : w.state = "sent"} :
       writes' = {w \in writes : w.state = "orphan"}
                 \cup {[w EXCEPT !.state = "orphan"] : w \in kept}
  /\ saveDisabled' = FALSE /\ updateDisabled' = FALSE
  /\ deletes' = {} /\ imports' = 0
  /\ dirty' = FALSE /\ timer' = FALSE /\ behind' = FALSE
  /\ UNCHANGED <<loadSeq, saved, draft, lastWrite, unsaved, mixed>>

-----------------------------------------------------------------------------
Next ==
  \/ EditPoints
  \/ EditOptions
  \/ UndoRedo
  \/ ResetRoute
  \/ ComputeAnswered
  \/ ComputeFailed
  \/ OpenRoute
  \/ ServeOpen
  \/ OpenAnswered
  \/ OpenFailed
  \/ EnrichAnswered
  \/ EnrichFailed
  \/ ShowAlternatives
  \/ AltAnswered
  \/ AltFailed
  \/ PickAlternative
  \/ SaveRoute
  \/ UpdateRoute
  \/ ServeWrite
  \/ WriteAnswered
  \/ WriteMissing
  \/ WriteFailed
  \/ DeleteRoute
  \/ DeleteAnswered
  \/ DeleteFailed
  \/ ImportStart
  \/ ImportAnswered
  \/ ImportFailed
  \/ LoopChange
  \/ TimerFires
  \/ PageHide
  \/ Reload

Spec == Init /\ [][Next]_vars

-----------------------------------------------------------------------------
(* Properties the code keeps.                                              *)

\* With no computation running, the route on screen is one computed for the
\* points on screen, and for the options on screen if it is the answer to a
\* computation or a saved route, whatever answers came late, in any order.
\* The one way out is a screen stored in pieces that did not fit: see the
\* runs that expect a violation (computeAndRender, applyLoadedRoute,
\* route-controller.js:57-90 and 377-427).
RouteMatchesScreen ==
  ~Computing /\ computedRoute # NoRoute =>
    \/ /\ computedRoute.points = waypoints
       /\ computedRoute.kind \in {"computed", "loaded"} =>
            computedRoute.options = options
    \/ <<waypoints, options, computedRoute.points, computedRoute.options>> \in mixed

\* The alternatives on display, and those a live request will display, are
\* for the two points on screen: picking one never draws a route that misses
\* the markers (route-alternatives.js:31-34, 58-61).
AlternativesMatchPoints ==
  /\ \A r \in altList : r.points = waypoints /\ NumPoints[r.points] = 2
  /\ \A a \in altRequests : a.id = altController => a.points = waypoints

\* When no answer of the last opening is awaited, edit mode is off or is the
\* one this opening asked for: a slow answer to an earlier opening does not
\* put another saved route under the update button
\* (route-controller.js:42-45).
EditModeFollowsLastOpen ==
  ~(\E o \in opens : o.seq = loadSeq) => editingRouteId \in {None, wanted}

\* All that the editor does to the draft is what DraftAutosave allows, so
\* that its guarantees hold here.
ImplementsDraftAutosave == Draft!Spec

-----------------------------------------------------------------------------
(* A property the repository states and the code does not keep.            *)

\* "le garder laissait sauvegarder, exporter ou restaurer (brouillon) les
\* nouveaux points avec l'ancienne geometrie" (route-controller.js:76-78):
\* a saved route has the geometry of its own points.
SavedRowsFit ==
  \A i \in RouteIds : saved[i] # NoRow => saved[i].route.points = saved[i].points

=============================================================================
