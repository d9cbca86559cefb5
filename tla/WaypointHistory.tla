--------------------------- MODULE WaypointHistory ---------------------------
(***************************************************************************)
(* The waypoints on the map and the history they share with the zones to   *)
(* avoid: WaypointManager (frontend/src/map/markers.js), the two stacks of *)
(* state/history.js, utils/waypoint-ids.js, and the operations of          *)
(* controllers/avoid-zone-controller.js and route-controller.js on them.   *)
(*                                                                         *)
(* Two stacks move by each other: a change pushes what was on screen and   *)
(* empties the other, an undo pushes what is on screen to the other.  The  *)
(* points carry ids, which lists and markers act by; the counter they come *)
(* from starts again at 1 with the page, while the draft keeps its ids.    *)
(***************************************************************************)
EXTENDS Naturals, Sequences, FiniteSets, SequencesExt

CONSTANTS
  Places,               \* Where a point may be, with its label.
  Zones,                \* The zones that may be drawn.
  MaxHistory,           \* MAX_HISTORY: 50 in the code.
  MaxPoints,            \* Bound on the number of points.
  MaxIds,               \* Bound on the ids given out.
  Drafts                \* The waypoints of the drafts of earlier visits.

ASSUME HistoryAssumption ==
  MaxHistory \in Nat \ {0} /\ MaxPoints \in Nat /\ MaxIds \in Nat

VARIABLES
  points,               \* _points
  zones,                \* avoidZones of the store
  past, future,         \* The stacks of createHistory.
  nextId,               \* _nextId
  selected              \* _selectedId; 0: null

vars == <<points, zones, past, future, nextId, selected>>

Ids == 1..MaxIds
Points == [id : Ids, place : Places]
PointLists == BoundedSeq(Points, MaxPoints)
Snapshots == [waypoints : PointLists, avoidZones : SUBSET Zones]

\* A saved route has no ids (0), a draft any.
ReadPoints == [id : 0..MaxIds, place : Places]
ReadLists == BoundedSeq(ReadPoints, MaxPoints)

ASSUME DraftsAssumption == Drafts \subseteq ReadLists

IdsOf(ps) == {ps[i].id : i \in DOMAIN ps}

\* The Delete key acts on a point that is there (markers.js:77-81), after undo,
\* redo, a new list or a removal.
TypeOK ==
  /\ points \in PointLists
  /\ zones \subseteq Zones
  /\ past \in Seq(Snapshots)
  /\ future \in Seq(Snapshots)
  /\ nextId \in 1..(MaxIds + 1)
  /\ selected \in IdsOf(points) \cup {0}

Init ==
  /\ points = <<>> /\ zones = {}
  /\ past = <<>> /\ future = <<>>
  /\ nextId = 1 /\ selected = 0

-----------------------------------------------------------------------------
(* The history. *)

\* _fullSnapshot: copies, which later edits of the points do not reach.
Now == [waypoints |-> points, avoidZones |-> zones]

\* past.push and, when it is one too many, past.shift.
Pushed ==
  LET longer == Append(past, Now)
  IN  IF Len(longer) > MaxHistory THEN Tail(longer) ELSE longer

\* Mutant: no bound.
PushUnbounded == past' = Append(past, Now) /\ future' = <<>>

Push == past' = Pushed /\ future' = <<>>

\* Mutant: the selected point may not be in the snapshot.
ApplySnapshotKeepsSelection(s) ==
  /\ points' = s.waypoints
  /\ zones' = s.avoidZones
  /\ UNCHANGED <<selected, nextId>>

ApplySnapshot(s) ==
  /\ points' = s.waypoints
  /\ zones' = s.avoidZones
  /\ selected' = 0
  /\ UNCHANGED nextId

Undo ==
  /\ past # <<>>
  /\ future' = Append(future, Now)
  /\ past' = Front(past)
  /\ ApplySnapshot(Last(past))

Redo ==
  /\ future # <<>>
  /\ past' = Pushed
  /\ future' = Front(future)
  /\ ApplySnapshot(Last(future))

-----------------------------------------------------------------------------
(* The user's changes of the points. *)

\* addPoint, addPointSmart and insertPointAt: the index is the end, the place
\* that lengthens the route least, or the one of the leg that was dragged.
InsertPoint ==
  /\ Len(points) < MaxPoints /\ nextId <= MaxIds
  /\ Push
  /\ \E index \in 1..(Len(points) + 1), p \in Places :
       points' = InsertAt(points, index, [id |-> nextId, place |-> p])
  /\ nextId' = nextId + 1
  /\ selected' = 0
  /\ UNCHANGED zones

\* Array.filter: the points at these positions, in their order.
Filtered(ps, kept) ==
  [k \in 1..Cardinality(kept) |->
     ps[CHOOSE i \in kept : Cardinality(kept \cap (1..i)) = k]]

\* From the list, from a right click, or the Delete key for the selected one.
RemovePoint ==
  \E id \in IdsOf(points) :
    /\ Push
    /\ points' = Filtered(points, {i \in DOMAIN points : points[i].id # id})
    /\ selected' = IF selected = id THEN 0 ELSE selected
    /\ UNCHANGED <<zones, nextId>>

\* Mutant: the last snapshot shares its points with the list.
EditPointShared ==
  \E i \in DOMAIN points, p \in Places :
    LET edited == [points EXCEPT ![i].place = p]
    IN  /\ points' = edited
        /\ past' = [Pushed EXCEPT ![Len(Pushed)].waypoints = edited]
        /\ future' = <<>>
        /\ UNCHANGED <<zones, nextId, selected>>

\* updatePoint (the end of a drag) and editPoint (the list, the search fields).
EditPoint ==
  /\ Push
  /\ \E i \in DOMAIN points, p \in Places :
       points' = [points EXCEPT ![i].place = p]
  /\ UNCHANGED <<zones, nextId, selected>>

ReverseAll ==
  /\ Push
  /\ points' = Reverse(points)
  /\ UNCHANGED <<zones, nextId, selected>>

Reorder ==
  /\ Push
  /\ \E from, to \in DOMAIN points :
       /\ from # to
       /\ points' = InsertAt(RemoveAt(points, from), to, points[from])
  /\ UNCHANGED <<zones, nextId, selected>>

\* An imported track or a generated loop.
ReplacePoints ==
  /\ Push
  /\ \E places \in BoundedSeq(Places, MaxPoints) :
       /\ nextId + Len(places) <= MaxIds + 1
       /\ points' = [i \in DOMAIN places |-> [id |-> nextId + i - 1, place |-> places[i]]]
       /\ nextId' = nextId + Len(places)
  /\ selected' = 0
  /\ UNCHANGED zones

\* resetRouteState: clear() records the screen, the zones go after it.
ClearRoute ==
  /\ Push
  /\ points' = <<>>
  /\ zones' = {}
  /\ selected' = 0
  /\ UNCHANGED nextId

Select ==
  /\ selected' \in IdsOf(points)
  /\ UNCHANGED <<points, zones, past, future, nextId>>

-----------------------------------------------------------------------------
(* The user's changes of the zones. *)

AddZone ==
  /\ Push
  /\ \E z \in Zones \ zones : zones' = zones \cup {z}
  /\ UNCHANGED <<points, nextId, selected>>

RemoveZone ==
  /\ Push
  /\ \E z \in zones : zones' = zones \ {z}
  /\ UNCHANGED <<points, nextId, selected>>

-----------------------------------------------------------------------------
(* Points that come with their context: setPointsSilently. *)

\* The first loop of normalizeIds: beyond every id that was read.
IdsFrom(ps, next) == Max(IdsOf(ps) \cup {next - 1}) + 1

\* Mutant: an id that is missing is kept.
KeptIdsEvenMissing(ps) ==
  {i \in DOMAIN ps : \A j \in 1..(i - 1) : ps[j].id # ps[i].id}

\* An id is kept if it is one and no point before it has it.
KeptIds(ps) ==
  {i \in DOMAIN ps : ps[i].id > 0 /\ \A j \in 1..(i - 1) : ps[j].id # ps[i].id}

\* The new ids that the second loop has given before the i-th point.
GivenBefore(ps, i) == Cardinality(1..(i - 1) \ KeptIds(ps))

\* Mutant: the counter is not moved beyond the ids that were read.
SetPointsSilentlySameCounter(ps, next) ==
  /\ nextId' = next + GivenBefore(ps, Len(ps) + 1)
  /\ points' = [i \in DOMAIN ps |->
       IF i \in KeptIds(ps) THEN ps[i]
       ELSE [ps[i] EXCEPT !.id = next + GivenBefore(ps, i)]]
  /\ selected' = 0
  /\ past' = <<>> /\ future' = <<>>

SetPointsSilently(ps, next) ==
  LET free == IdsFrom(ps, next)
  IN  /\ nextId' = free + GivenBefore(ps, Len(ps) + 1)
      /\ nextId' <= MaxIds + 1
      /\ points' = [i \in DOMAIN ps |->
           IF i \in KeptIds(ps) THEN ps[i]
           ELSE [ps[i] EXCEPT !.id = free + GivenBefore(ps, i)]]
      /\ selected' = 0
      /\ past' = <<>> /\ future' = <<>>

\* applyLoadedRoute
OpenRoute ==
  /\ \E places \in BoundedSeq(Places, MaxPoints) :
       SetPointsSilently([i \in DOMAIN places |-> [id |-> 0, place |-> places[i]]], nextId)
  /\ zones' \in SUBSET Zones

\* The page is opened again, with the draft of the screen it had or of an
\* earlier visit; an empty draft is not restored.
Reload ==
  \E ps \in Drafts \cup {points} :
    \/ ps # <<>> /\ SetPointsSilently(ps, 1) /\ zones' \in SUBSET Zones
    \/ /\ ps = <<>>
       /\ points' = <<>> /\ zones' = {}
       /\ past' = <<>> /\ future' = <<>>
       /\ nextId' = 1 /\ selected' = 0

-----------------------------------------------------------------------------
Next ==
  \/ InsertPoint
  \/ RemovePoint
  \/ EditPoint
  \/ ReverseAll
  \/ Reorder
  \/ ReplacePoints
  \/ ClearRoute
  \/ Select
  \/ AddZone
  \/ RemoveZone
  \/ Undo
  \/ Redo
  \/ OpenRoute
  \/ Reload

Spec == Init /\ [][Next]_vars

-----------------------------------------------------------------------------
(* Properties. *)

\* Lists, markers and search fields act on a point by its id: no two points
\* on screen, or in a screen that undo or redo may bring back, have the same
\* (waypoint-ids.js:4-9).
IdsUnique ==
  \A s \in ToSet(past) \cup ToSet(future) \cup {Now} :
    Cardinality(IdsOf(s.waypoints)) = Len(s.waypoints)

\* Both stacks together never hold more than MAX_HISTORY screens: the shift in
\* redo (history.js:41) can then drop none (state/history.js:20-43).
HistoryBounded == Len(past) + Len(future) <= MaxHistory

\* Waypoints and zones move along one line of screens that undo and redo never
\* alter: "undo() restaure toujours tout ce qui a ete pousse ensemble, dans
\* l'ordre" (history.js:7-8).
Timeline ==
  INSTANCE UndoTimeline WITH
    Screens <- Snapshots,
    line <- past \o <<Now>> \o Reverse(future),
    at <- Len(past) + 1

ImplementsUndoTimeline == Timeline!Spec

=============================================================================
