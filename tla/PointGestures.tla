---------------------------- MODULE PointGestures ----------------------------
(***************************************************************************)
(* Where points land: a click on the map, a step dragged out of the route  *)
(* (map/route-layer.js, map/route-insert-interaction.js), the list of the  *)
(* points with its form (ui/waypoint-list.js), and the points of a loop or *)
(* of a track, thinned out by the backend (routers/routes.py,              *)
(* services/geo_sampling.py, services/via_points.py).                      *)
(*                                                                         *)
(* A gesture begins on what is displayed and ends on the points as they    *)
(* are by then; a route stays displayed while the next one is computed,    *)
(* and answers come at any time.  Places lie along one road, so that the   *)
(* geometry of a route is the sequence of the places it goes through.      *)
(***************************************************************************)
EXTENDS Integers, FiniteSets, Sequences, SequencesExt

CONSTANTS
  Places,               \* Numbered along the road.
  Generated,            \* The geometries of loops and the tracks imported.
  ViaPoints,            \* What may be imposed on a loop: lists of places.
  Saved,                \* The points of saved routes.
  TypedPlaces,          \* What may be typed in the form.
  MaxWaypoints,         \* max_waypoints: of a computation
  MaxChanges            \* Bound on the changes of the points.

ASSUME GestureAssumption ==
  /\ Places \subseteq Int /\ TypedPlaces \subseteq Places
  /\ MaxWaypoints \in Nat \ {0, 1} /\ MaxChanges \in Nat
  /\ \A g \in Generated : g \in Seq(Places) /\ Len(g) >= 2
  /\ \A v \in ViaPoints \cup Saved : v \in Seq(Places)

VARIABLES
  points,               \* _points
  shown,                \* The places of the route displayed; <<>>: none.
  bounded,              \* The places _legBoundaries were computed for.
  computing,            \* A computation, or an enrichment, of the points runs:
                        \* "no", "route" or "enrichment".
  drag,                 \* A step is dragged: the segment, and shown at the press.
  list,                 \* The points as the list was drawn from them.
  form,                 \* The form open in the list; _editingId.
  lifted,               \* The index of the item dragged in the list; 0: none.
  changes               \* Number of changes of the points.

gestures == <<drag, lifted>>
listVars == <<list, form>>
routeVars == <<shown, bounded, computing>>
vars == <<points, routeVars, gestures, listVars, changes>>

MaxPoints == MaxWaypoints + 1
Ids == Nat \ {0}
NoDrag == [segment |-> 0, of |-> <<>>]
NoForm == [id |-> 0, was |-> 0, typed |-> 0]

PlacesOf(pts) == [i \in DOMAIN pts |-> pts[i].at]
IdsOf(pts) == {pts[i].id : i \in DOMAIN pts}

\* How many numbers of a set come before one, and the number that i - 1 come before.
Rank(all, s) == Cardinality({o \in all : o < s})
Nth(all, i) == CHOOSE s \in all : Rank(all, s) = i - 1

\* What a list has at some of its positions, in their order.
AtPositions(s, kept) == [k \in 1..Cardinality(kept) |-> s[Nth(kept, k)]]

\* Mutant: a counter that starts again.
FreshIdsAgain(n) == [k \in 1..n |-> k]

\* Ids nothing uses or names stand for those newId counts up to.
FreshIds(n) ==
  LET used == IdsOf(points) \cup {form.id}
      free == (1..(n + Cardinality(used))) \ used
  IN  [k \in 1..n |-> Nth(free, k)]

WithIds(places) ==
  LET ids == FreshIds(Len(places))
  IN  [i \in DOMAIN places |-> [id |-> ids[i], at |-> places[i]]]

-----------------------------------------------------------------------------
(* Routes and distances. *)

Dist(a, b) == IF a <= b THEN b - a ELSE a - b

\* The coordinates from a place of a list to the next, that of the first for itself.
Leg(places, i) ==
  IF i = 1 THEN <<places[1]>>
  ELSE LET a == places[i - 1]
           b == places[i]
       IN  [k \in 1..Dist(a, b) |-> IF a <= b THEN a + k ELSE a - k]

\* The coordinates up to each place, and those of the whole route.
Lines(places) ==
  LET line[i \in 0..Len(places)] ==
        IF i = 0 THEN <<>> ELSE line[i - 1] \o Leg(places, i)
  IN  line

Geometry(places) == Lines(places)[Len(places)]

\* The first of the nearest coordinates of a line, from one of them on.
Nearest(line, from, p) ==
  CHOOSE i \in from..Len(line) :
    \A j \in from..Len(line) :
      \/ Dist(line[i], p) < Dist(line[j], p)
      \/ Dist(line[i], p) = Dist(line[j], p) /\ i <= j

\* _leg_boundaries: the nearest coordinate from the one found before on.
LegBoundaries(places) ==
  LET line == Geometry(places)
      found[i \in 0..Len(places)] ==
        IF i = 0 THEN 1 ELSE Nearest(line, found[i - 1], places[i])
  IN  [i \in 1..Len(places) |-> found[i]]

\* nearestSegment, for a pointer halfway between x and x + 1: the first that passes.
NearestSegment(line, x) ==
  LET passing == {i \in 1..(Len(line) - 1) : {line[i], line[i + 1]} = {x, x + 1}}
  IN  CHOOSE i \in passing : \A j \in passing : i <= j

\* Mutant: the leg is not bounded to the last one.
LegIndexUnbounded(bounds, segment) ==
  IF Len(bounds) < 2 THEN 1
  ELSE Cardinality({i \in 1..Len(bounds) : \A j \in 1..i : bounds[j] <= segment})

\* legIndexForCoordIndex
LegIndex(bounds, segment) ==
  LET reached == Cardinality({i \in 1..Len(bounds) : \A j \in 1..i : bounds[j] <= segment})
  IN  IF Len(bounds) < 2 THEN 1
      ELSE IF reached > Len(bounds) - 1 THEN Len(bounds) - 1
      ELSE IF reached = 0 THEN 1 ELSE reached

\* cheapestInsertionIndex, _cheapest_insertion_index: the first of the least detours.
Cheapest(places, p) ==
  LET Detour(i) == Dist(places[i], p) + Dist(p, places[i + 1])
                     - Dist(places[i], places[i + 1])
      legs == 1..(Len(places) - 1)
  IN  CHOOSE i \in legs :
        \A j \in legs : Detour(i) < Detour(j) \/ (Detour(i) = Detour(j) /\ i <= j)

IndexForNewPoint(places, p) ==
  IF Len(places) < 2 THEN Len(places) + 1 ELSE Cheapest(places, p) + 1

IndexForRouteDrop(places, bounds, segment, p) ==
  IF Len(places) < 2 \/ Len(bounds) # Len(places) THEN IndexForNewPoint(places, p)
  ELSE LegIndex(bounds, segment) + 1

-----------------------------------------------------------------------------
(* What a loop or a track becomes. *)

\* round(a / b) of Python: the even one of two as near.
Rounded(a, b) ==
  LET q == a \div b
      twice == 2 * (a % b)
  IN  IF twice > b \/ (twice = b /\ q % 2 = 1) THEN q + 1 ELSE q

\* subsample, subsample_indices for max >= 2: both ends, and others spread evenly.
Subsample(line, max) ==
  IF Len(line) <= max THEN line
  ELSE AtPositions(line, {Rounded(i * (Len(line) - 1), max - 1) + 1 : i \in 0..(max - 1)})

\* insert_via_points: one after the other.
InsertViaPoints(places, vias) ==
  LET built[k \in 0..Len(vias)] ==
        IF k = 0 THEN places
        ELSE InsertAt(built[k - 1], Cheapest(built[k - 1], vias[k]) + 1, vias[k])
  IN  built[Len(vias)]

\* Mutant: no room is left for the via points.
TargetWithoutVias(vias) == IF MaxWaypoints - 1 < 2 THEN 2 ELSE MaxWaypoints - 1

\* round_trip_target
Target(vias) ==
  IF MaxWaypoints - 1 - Len(vias) < 2 THEN 2 ELSE MaxWaypoints - 1 - Len(vias)

-----------------------------------------------------------------------------
Init ==
  /\ points = <<>> /\ shown = <<>> /\ bounded = <<>> /\ computing = "no"
  /\ drag = NoDrag /\ list = <<>> /\ form = NoForm /\ lifted = 0 /\ changes = 0

FormOf(pts, id) ==
  LET p == CHOOSE p \in {pts[i] : i \in DOMAIN pts} : p.id = id
  IN  [id |-> id, was |-> p.at, typed |-> p.at]

\* Mutant: the list is drawn again as well when only the route has changed.
RenderListAlways(pts, edited, same) ==
  /\ list' = pts
  /\ form' = IF edited.id \in IdsOf(pts) THEN FormOf(pts, edited.id) ELSE NoForm

\* renderWaypointList: a form outlives a change of the route alone, and is made anew
\* from the points when they change.
RenderList(pts, edited, same) ==
  IF same /\ edited.id \in IdsOf(pts) THEN UNCHANGED listVars
  ELSE /\ list' = pts
       /\ form' = IF edited.id \in IdsOf(pts) THEN FormOf(pts, edited.id) ELSE NoForm

\* A change by the user: the list follows, and a route is asked for.  The one
\* displayed stays until the answer, unless no route can be.
Change(pts, edited) ==
  /\ changes < MaxChanges
  /\ changes' = changes + 1
  /\ points' = pts
  /\ RenderList(pts, edited, FALSE)
  /\ IF Len(pts) < 2 THEN computing' = "no" /\ shown' = <<>>
     ELSE computing' = "route" /\ UNCHANGED shown
  /\ UNCHANGED bounded

Insert(index, p) ==
  /\ Len(points) < MaxPoints
  /\ Change(InsertAt(points, index, [id |-> FreshIds(1)[1], at |-> p]), form)

\* While an item of the list is dragged, nothing else can be clicked.
HandFree == lifted = 0

\* A click on the map, or with Shift and for closing the loop at the end.
AddPoint(p) ==
  /\ HandFree
  /\ \/ Insert(IndexForNewPoint(PlacesOf(points), p), p)
     \/ Insert(Len(points) + 1, p)
  /\ UNCHANGED gestures

\* updatePoint: the end of a drag of a marker.
MovePoint(i, p) ==
  /\ HandFree
  /\ Change([points EXCEPT ![i].at = p], form)
  /\ UNCHANGED gestures

ReverseAll ==
  /\ HandFree /\ Len(points) >= 2
  /\ Change(Reverse(points), form)
  /\ UNCHANGED gestures

-----------------------------------------------------------------------------
(* A step dragged out of the route. *)

\* _onPointerDown and startDrag, on the transparent line that only a geometry with
\* two coordinates has.
Press(x) ==
  /\ HandFree /\ drag = NoDrag
  /\ LET line == Geometry(shown)
     IN  /\ \E i \in 1..(Len(line) - 1) : {line[i], line[i + 1]} = {x, x + 1}
         /\ drag' = [segment |-> NearestSegment(line, x), of |-> shown]
  /\ UNCHANGED <<points, routeVars, lifted, listVars, changes>>

\* The segment of the press, with the boundaries and the points of the release.
Release(p) ==
  /\ drag # NoDrag
  /\ Insert(IndexForRouteDrop(PlacesOf(points), LegBoundaries(bounded), drag.segment, p), p)
  /\ drag' = NoDrag
  /\ UNCHANGED lifted

\* Escape, a cancelled pointer, or a release outside the map.
GiveUp ==
  /\ drag # NoDrag
  /\ drag' = NoDrag
  /\ UNCHANGED <<points, routeVars, lifted, listVars, changes>>

-----------------------------------------------------------------------------
(* The list.  Its buttons act by the index or the id they were drawn with. *)

OpenForm(i) ==
  /\ HandFree
  /\ list' = points /\ form' = FormOf(points, list[i].id)
  /\ UNCHANGED <<points, routeVars, gestures, changes>>

TypeInForm(p) ==
  /\ HandFree /\ form # NoForm
  /\ form' = [form EXCEPT !.typed = p]
  /\ UNCHANGED <<points, routeVars, gestures, list, changes>>

\* commit: the point is edited if something was changed.
Commit ==
  /\ HandFree /\ form # NoForm
  /\ IF form.typed # form.was
     THEN Change([i \in DOMAIN points |->
                    IF points[i].id = form.id THEN [points[i] EXCEPT !.at = form.typed]
                    ELSE points[i]], NoForm)
     ELSE RenderList(points, NoForm, FALSE) /\ UNCHANGED <<points, routeVars, changes>>
  /\ UNCHANGED gestures

Cancel ==
  /\ HandFree /\ form # NoForm
  /\ RenderList(points, NoForm, FALSE)
  /\ UNCHANGED <<points, routeVars, gestures, changes>>

RemovePoint(i) ==
  /\ HandFree
  /\ Change(AtPositions(points, {k \in DOMAIN points : points[k].id # list[i].id}), form)
  /\ UNCHANGED gestures

Reorder(from, to) ==
  /\ from # to /\ {from, to} \subseteq DOMAIN points
  /\ Change(InsertAt(RemoveAt(points, from), to, points[from]), form)

UpDown(i) ==
  /\ HandFree
  /\ Reorder(i, i - 1) \/ Reorder(i, i + 1)
  /\ UNCHANGED gestures

\* Items can be dragged while no form is open.
Lift(i) ==
  /\ HandFree /\ drag = NoDrag /\ form = NoForm
  /\ lifted' = i
  /\ UNCHANGED <<points, routeVars, drag, listVars, changes>>

\* On another item, on itself, or outside; the index is the one it was lifted with.
Drop ==
  /\ lifted # 0
  /\ \/ \E to \in DOMAIN list : Reorder(lifted, to)
     \/ UNCHANGED <<points, routeVars, listVars, changes>>
  /\ lifted' = 0
  /\ UNCHANGED drag

-----------------------------------------------------------------------------
(* Answers. *)

\* draw, or clear after a failure, which leaves the boundaries.
ComputeEnds ==
  /\ computing = "route"
  /\ computing' = "no"
  /\ \/ Len(points) <= MaxWaypoints /\ shown' = PlacesOf(points) /\ bounded' = shown'
     \/ shown' = <<>> /\ UNCHANGED bounded
  /\ RenderList(points, form, TRUE)
  /\ UNCHANGED <<points, gestures, changes>>

\* The enrichment of an opened route, which is silent when it fails.
EnrichEnds ==
  /\ computing = "enrichment"
  /\ computing' = "no"
  /\ \/ /\ Len(points) <= MaxWaypoints
        /\ shown' = PlacesOf(points) /\ bounded' = shown'
        /\ RenderList(points, form, TRUE)
     \/ UNCHANGED <<shown, bounded, listVars>>
  /\ UNCHANGED <<points, gestures, changes>>

\* The answer to a loop with its via points, or without to an imported track:
\* replaceAll.
LoopArrives(line, vias) ==
  /\ Change(WithIds(InsertViaPoints(Subsample(line, Target(vias)), vias)), form)
  /\ UNCHANGED gestures

\* applyLoadedRoute: drawn without boundaries, then enriched.
RouteOpens(places) ==
  /\ changes < MaxChanges
  /\ changes' = changes + 1
  /\ points' = WithIds(places)
  /\ RenderList(points', form, FALSE)
  /\ shown' = places /\ bounded' = <<>>
  /\ computing' = IF Len(places) < 2 THEN "no" ELSE "enrichment"
  /\ UNCHANGED gestures

-----------------------------------------------------------------------------
Map ==
  \/ \E p \in Places : AddPoint(p) \/ Release(p)
  \/ \E i \in DOMAIN points, p \in Places : MovePoint(i, p)
  \/ \E x \in Places : Press(x)
  \/ ReverseAll \/ GiveUp

List ==
  \/ \E i \in DOMAIN list : OpenForm(i) \/ RemovePoint(i) \/ UpDown(i) \/ Lift(i)
  \/ \E p \in TypedPlaces : TypeInForm(p)
  \/ Commit \/ Cancel \/ Drop

Answers ==
  \/ ComputeEnds \/ EnrichEnds
  \/ \E line \in Generated, vias \in ViaPoints : LoopArrives(line, vias)
  \/ \E places \in Saved : RouteOpens(places)

Next == Map \/ List \/ Answers

Spec == Init /\ [][Next]_vars

-----------------------------------------------------------------------------
(* Properties. *)

\* Points keep different ids, routes are of at most MaxWaypoints points, and a form
\* is of a point there is (markers.js:48-52, waypoint-list.js:42-44).
TypeOK ==
  /\ \A i, j \in DOMAIN points :
       /\ points[i] \in [id : Ids, at : Places]
       /\ points[i].id = points[j].id => i = j
  /\ shown \in Seq(Places) /\ bounded \in Seq(Places)
  /\ Len(bounded) <= MaxWaypoints
  /\ computing \in {"no", "route", "enrichment"}
  /\ drag.segment \in Nat /\ drag.of \in Seq(Places)
  /\ drag # NoDrag => drag.segment \in 1..(Len(Geometry(drag.of)) - 1)
  /\ form # NoForm => form.id \in IdsOf(points)
  /\ lifted \in Nat /\ changes \in 0..MaxChanges

\* Which leg of a route a segment is part of, by the lengths of the legs.
LegOf(places, segment) ==
  CHOOSE i \in 1..(Len(places) - 1) :
    /\ Len(Lines(places)[i]) <= segment
    /\ segment < Len(Lines(places)[i + 1])

\* A step dragged out of the route becomes one more point between the first and the
\* last, whatever has been drawn, computed or changed since the press; and if what
\* was grabbed is the route of the points, of the leg that was grabbed
\* (route-segments.js:74-91, itinerary.js:26-43, route-insert-interaction.js:94-100).
StepsStayInside ==
  [][\A p \in Places :
       Release(p) /\ Len(points) >= 2 =>
         \E i \in 2..Len(points) :
           /\ PlacesOf(points') = InsertAt(PlacesOf(points), i, p)
           /\ drag.of = PlacesOf(points) /\ bounded = drag.of =>
                i = LegOf(drag.of, drag.segment) + 1
           /\ RemoveAt(points', i) = points]_vars

\* The list is always that of the points, so that its buttons act on what they
\* stand beside; and what is being typed there outlives the answers to computations
\* (waypoint-list.js:38-54,109-136).
FormFollowsPoints ==
  [][/\ list' = points'
     /\ (ComputeEnds \/ EnrichEnds) => form' = form]_vars

\* A loop keeps its first and its last point, goes through what was imposed, and
\* leaves room for one point more under the limit of a computation, unless it is
\* nothing but its ends and what was imposed (routers/routes.py:120-146).
LoopFits ==
  [][\A line \in Generated, vias \in ViaPoints :
       LoopArrives(line, vias) =>
         /\ points'[1].at = line[1] /\ points'[Len(points')].at = line[Len(line)]
         /\ ToSet(vias) \subseteq ToSet(PlacesOf(points'))
         /\ Len(points') < MaxWaypoints \/ Len(points') = Len(vias) + 2]_vars

\* "... des bornes d'un calcul précédent seraient périmées.  On se rabat alors sur
\* la position de dépôt, comme pour un clic" (itinerary.js:28-31).
StaleBoundariesUnused ==
  [][\A p \in Places :
       Release(p) /\ bounded # PlacesOf(points) =>
         PlacesOf(points') =
           InsertAt(PlacesOf(points), IndexForNewPoint(PlacesOf(points), p), p)]_vars

=============================================================================
