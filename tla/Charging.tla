------------------------------ MODULE Charging ------------------------------
(***************************************************************************)
(* The charging stops of a route (services/charging_plan.py,               *)
(* charging_route.py), chosen among stations read cell by cell, page by    *)
(* page, from an open database (irve_client.py) and kept in a cache        *)
(* (charging_stations.py).  Requests interleave where the code awaits: a   *)
(* page of the source, and the second routing.                             *)
(*                                                                         *)
(* The map is a road from west to east, in units of distance along it.  A  *)
(* trip goes to its turning point and comes back.  At this latitude a      *)
(* degree of longitude is two thirds of a degree of latitude, and a cell   *)
(* that many degrees wide is narrower than it is high.  The code turns     *)
(* metres into degrees with a longer degree than the one it measures       *)
(* distances with, so that the box it searches ends short of the radius:   *)
(* BoxSpan is how far it goes, in the units of distance.                   *)
(***************************************************************************)
EXTENDS Integers, FiniteSets, Sequences

CONSTANTS
  Requests,             \* The requests of the users.
  Trips,                \* What they ask for.
  Stations,             \* The stations, numbered ...
  Position,             \* ... where they are ...
  Sources,              \* ... and which of them the database may list.
  CellHeight,           \* irve_cache_cell_deg, in units of distance.
  SearchRadius,         \* irve_search_radius_m
  MaxDetour,            \* irve_max_detour_m
  BoxSpan,              \* How far the box of each radius reaches: see CellsAt.
  PageSize,             \* Rows of a page.
  MaxPages,             \* The page budget of a cell.
  MaxFetches,           \* _MAX_CONCURRENT_FETCHES
  MaxStops,             \* max_charging_stops
  TTL,                  \* irve_cache_ttl_s
  MaxTime               \* Bound on the time.

\* waypoints: how far along the trip the user's points are.
ASSUME ChargingAssumption ==
  /\ Stations \subseteq Nat /\ IsFiniteSet(Stations) /\ Position \in [Stations -> Int]
  /\ Sources \subseteq SUBSET Stations
  /\ CellHeight \in Nat \ {0, 1} /\ SearchRadius \in Nat \ {0}
  /\ MaxDetour \in Nat \ {0} /\ BoxSpan \in [{SearchRadius, MaxDetour} -> Nat]
  /\ {PageSize, MaxPages, MaxFetches, MaxStops} \subseteq Nat \ {0}
  /\ {TTL, MaxTime} \subseteq Nat
  /\ \A t \in Trips :
       /\ {t.length, t.turn, t.interval, t.autonomy} \subseteq Nat \ {0}
       /\ t.waypoints \in Seq(0..t.length) /\ Len(t.waypoints) >= 2
       /\ t.waypoints[1] = 0 /\ t.waypoints[Len(t.waypoints)] = t.length

VARIABLES
  source,               \* The stations the database lists, all along.
  now,                  \* The time.
  cells,                \* The cells in the cache, and when each was read.
  known,                \* The stations in the cache.
  requests              \* The state of each request.

vars == <<source, now, cells, known, requests>>

-----------------------------------------------------------------------------
(* Where recharges are due. *)

Smallest(a, b) == IF a <= b THEN a ELSE b
Largest(a, b) == IF a >= b THEN a ELSE b

\* Mutant: the reserve the previous charge leaves is forgotten.
SkipTailInterval(interval, autonomy) == interval

SkipTail(interval, autonomy) == Largest(0, Smallest(interval, autonomy - interval))

\* A recharge every interval, unless what is left of the trip does not need it.
\* Those left out are the last ones, so that the cap counts the first ones.
StopTargets(t) ==
  LET due == {k \in 1..Smallest(MaxStops, t.length) :
                /\ k * t.interval < t.length
                /\ t.length - k * t.interval > SkipTail(t.interval, t.autonomy)}
  IN  [k \in 1..Cardinality(due) |-> k * t.interval]

\* point_at_distance, on this road.
Place(t, distance) == IF distance <= t.turn THEN distance ELSE 2 * t.turn - distance

-----------------------------------------------------------------------------
(* Cells. *)

\* cell_size_for: in degrees twice the box is enough to the north, and the same
\* degrees are less to the east.
CellWidth(radius) == (2 * Largest(CellHeight, 2 * BoxSpan[radius])) \div 3

\* Mutant: the radius is turned into degrees as if they were all as long.
CellsAtNarrow(place, radius) ==
  LET w == CellWidth(radius)
      r == (2 * BoxSpan[radius]) \div 3
  IN  {<<w, j>> : j \in ((place - r) \div w)..((place + r) \div w)}

\* _deg_span and _cells_covering: the cells that cover the box, each known by its size
\* and its place in the grid.  _deg_span takes 111320 metres for a degree, haversine_m
\* about 111195: the box of a radius reaches a little less far than the radius.
CellsAt(place, radius) ==
  LET w == CellWidth(radius)
      span == BoxSpan[radius]
  IN  {<<w, j>> : j \in ((place - span) \div w)..((place + span) \div w)}

Inside(s, cell) ==
  cell[1] * cell[2] <= Position[s] /\ Position[s] <= cell[1] * (cell[2] + 1)

\* How many numbers of a set come before one, and the number that i - 1 come before.
Rank(all, s) == Cardinality({o \in all : o < s})
Nth(all, i) == CHOOSE s \in all : Rank(all, s) = i - 1

\* The rows of the source in a cell, and those of one page, in the source's order.
SourceRows(cell) == {s \in source : Inside(s, cell)}

Page(all, n) == {s \in all : Rank(all, s) \div PageSize = n - 1}

Fresh(cell) == cell \in DOMAIN cells /\ cells[cell] >= now - TTL

Distance(p, q) == IF p <= q THEN q - p ELSE p - q

-----------------------------------------------------------------------------
(* Requests. *)

NewFetch == [page |-> 1, rows |-> {}, done |-> FALSE]

\* _ensure_cells: the cells it has to ask for.
Wave(keys) == [c \in {k \in keys : ~Fresh(k)} |-> NewFetch]

NoWave == Wave({})

\* plan: for each target so far, the set of the station found, or the empty set.
Request(trip) ==
  [phase |-> "new", trip |-> trip, targets |-> <<>>, radius |-> SearchRadius,
   wave |-> NoWave, plan |-> <<>>, legs |-> <<>>]

Answers == {"planned", "no stops", "unavailable", "refused", "failed"}

Phases == {"new", "prefetch", "look", "near", "route"} \cup Answers

Cells == {CellWidth(SearchRadius), CellWidth(MaxDetour)} \X Int

TypeOK ==
  /\ source \in Sources /\ now \in 0..MaxTime
  /\ DOMAIN cells \subseteq Cells
  /\ \A c \in DOMAIN cells : cells[c] \in 0..now
  /\ known \subseteq Stations
  /\ \A r \in Requests :
       LET q == requests[r] IN
         /\ q.phase \in Phases /\ q.trip \in Trips
         /\ q.radius \in {SearchRadius, MaxDetour}
         /\ DOMAIN q.wave \subseteq Cells
         /\ \A c \in DOMAIN q.wave : /\ q.wave[c].page \in 1..MaxPages
                                     /\ q.wave[c].rows \subseteq Stations
         /\ Len(q.plan) <= Len(q.targets)
         /\ \A i \in DOMAIN q.plan : q.plan[i] \subseteq Stations

Init ==
  /\ source \in Sources
  /\ now = 0 /\ cells = NoWave /\ known = {}
  /\ requests \in [Requests -> {Request(t) : t \in Trips}]

Used(q) == UNION {q.plan[i] : i \in DOMAIN q.plan}

Unplaced(q) == Cardinality({i \in DOMAIN q.plan : q.plan[i] = {}})

Become(r, q) == requests' = [requests EXCEPT ![r] = q]

\* The place of the target whose station is looked for.
Due(q) == Place(q.trip, q.targets[Len(q.plan) + 1])

\* The first routing has answered: the settings are checked, and the cells of all
\* targets asked for at once.
Plan(r) ==
  LET q == requests[r]
      targets == StopTargets(q.trip)
      keys == UNION {CellsAt(Place(q.trip, targets[i]), SearchRadius) : i \in DOMAIN targets}
  IN  /\ q.phase = "new"
      /\ \/ q.trip.interval > q.trip.autonomy /\ Become(r, [q EXCEPT !.phase = "refused"])
         \/ /\ q.trip.interval <= q.trip.autonomy /\ targets = <<>>
            /\ Become(r, [q EXCEPT !.phase = "no stops"])
         \/ /\ q.trip.interval <= q.trip.autonomy /\ targets # <<>>
            /\ Become(r, [q EXCEPT !.phase = "prefetch", !.targets = targets,
                                   !.wave = Wave(keys)])
      /\ UNCHANGED <<source, now, cells, known>>

Waiting(q) == q.phase \in {"prefetch", "near"} /\ \E c \in DOMAIN q.wave : ~q.wave[c].done

Started(q) == {c \in DOMAIN q.wave : q.wave[c].page > 1 /\ ~q.wave[c].done}

\* Mutant: the budget is compared once too often.
PageGotBeyond(f, cell) ==
  LET all == SourceRows(cell)
      rows == Page(all, f.page)
      last == Cardinality(rows) < PageSize \/ f.page > MaxPages
  IN  [page |-> IF last THEN f.page ELSE f.page + 1, rows |-> f.rows \cup rows,
       done |-> last]

\* stations_in_bbox, one page: a short page is the last, and a full one at the end
\* of the budget leaves out what follows.  The flag `truncated` that this sets, if the
\* answer gave its total, is stored and logged, and read by nothing.
PageGot(f, cell) ==
  LET all == SourceRows(cell)
      rows == Page(all, f.page)
      last == Cardinality(rows) < PageSize \/ f.page = MaxPages
  IN  [page |-> IF last THEN f.page ELSE f.page + 1, rows |-> f.rows \cup rows,
       done |-> last]

FetchPage(r, c) ==
  LET q == requests[r] IN
  /\ Waiting(q) /\ c \in DOMAIN q.wave /\ ~q.wave[c].done
  /\ c \in Started(q) \/ Cardinality(Started(q)) < MaxFetches
  /\ Become(r, [q EXCEPT !.wave[c] = PageGot(@, c)])
  /\ UNCHANGED <<source, now, cells, known>>

\* Mutant: the wave is sent again for as long as it fails.
FetchFailsAgain(r) ==
  /\ Waiting(requests[r])
  /\ Become(r, [requests[r] EXCEPT !.wave = [c \in DOMAIN @ |-> NewFetch]])
  /\ UNCHANGED <<source, now, cells, known>>

\* One failure ends the gathering: nothing of the wave is stored, and the route is
\* answered without stops.
FetchFails(r) ==
  /\ Waiting(requests[r])
  /\ Become(r, [requests[r] EXCEPT !.phase = "unavailable", !.wave = NoWave])
  /\ UNCHANGED <<source, now, cells, known>>

Gathered(q) == q.phase \in {"prefetch", "near"} /\ ~Waiting(q)

\* _store, for these cells of the wave.  A station that is known is kept.
Store(wave, stored) ==
  /\ known' = known \cup UNION {wave[c].rows : c \in stored}
  /\ cells' = [c \in stored \cup DOMAIN cells |-> IF c \in stored THEN now ELSE cells[c]]

\* The database is locked when one of the cells is stored; those before it remain.
StoreFails(r) ==
  LET q == requests[r] IN
  /\ Gathered(q)
  /\ \E stored \in SUBSET DOMAIN q.wave : stored # DOMAIN q.wave /\ Store(q.wave, stored)
  /\ Become(r, [q EXCEPT !.phase = "failed", !.wave = NoWave])
  /\ UNCHANGED <<source, now>>

Prefetched(r) ==
  LET q == requests[r] IN
  /\ q.phase = "prefetch" /\ Gathered(q)
  /\ Store(q.wave, DOMAIN q.wave)
  /\ Become(r, [q EXCEPT !.phase = "look", !.wave = NoWave])
  /\ UNCHANGED <<source, now>>

\* stations_near, up to its wait.
Look(r) ==
  LET q == requests[r] IN
  /\ q.phase = "look"
  /\ Become(r, [q EXCEPT !.phase = "near", !.wave = Wave(CellsAt(Due(q), q.radius))])
  /\ UNCHANGED <<source, now, cells, known>>

\* The rows in the box, then those within the radius.
NearStations(q, stations) ==
  LET box == {s \in stations : Distance(Position[s], Due(q)) <= BoxSpan[q.radius]}
  IN  {s \in box \ Used(q) : Distance(Position[s], Due(q)) <= q.radius}

\* The plan with the next target settled.
Settled(q, found) ==
  LET plan == Append(q.plan, found)
      over == Len(plan) = Len(q.targets)
      none == \A i \in DOMAIN plan : plan[i] = {}
  IN  [q EXCEPT !.plan = plan, !.wave = NoWave, !.radius = SearchRadius,
                !.phase = IF ~over THEN "look" ELSE IF none THEN "no stops" ELSE "route"]

\* The rest of stations_near and _station_for: the nearest station, else a wider
\* search, else none.
Choose(r) ==
  LET q == requests[r]
      near == NearStations(q, known')
  IN  /\ q.phase = "near" /\ Gathered(q)
      /\ Store(q.wave, DOMAIN q.wave)
      /\ \/ \E s \in near :
              /\ \A o \in near : Distance(Position[s], Due(q)) <= Distance(Position[o], Due(q))
              /\ Become(r, Settled(q, {s}))
         \/ /\ near = {} /\ q.radius < MaxDetour
            /\ Become(r, [q EXCEPT !.phase = "look", !.radius = MaxDetour, !.wave = NoWave])
         \/ /\ near = {} /\ q.radius >= MaxDetour
            /\ Become(r, Settled(q, {}))
      /\ UNCHANGED <<source, now>>

-----------------------------------------------------------------------------
(* The second routing. *)

\* The targets that were given a station: the stops, known by their distance.
Stops(q) == {q.targets[i] : i \in {j \in DOMAIN q.plan : q.plan[j] # {}}}

User(i) == [user |-> i, at |-> 0]
Stop(d) == [user |-> 0, at |-> d]

\* _interleave: before each waypoint but the first, the stops due until then, in order;
\* those left, after the last.
InterleaveStops(t, stops) ==
  LET w == t.waypoints
      before(i) == {d \in stops : \E j \in 2..i : d <= w[j]}
      place(i) == i + Cardinality(before(i))
      users(k) == {i \in DOMAIN w : place(i) = k}
      passed(k) == {i \in DOMAIN w : place(i) < k}
  IN  [k \in 1..(Len(w) + Cardinality(stops)) |->
         IF users(k) # {} THEN User(CHOOSE i \in users(k) : TRUE)
         ELSE Stop(Nth(stops, k - Cardinality(passed(k))))]

\* Mutant: the boundaries of the stops are given as legs of the user.
UserLegsAll(points) == [k \in 1..Len(points) |-> k]

\* The boundaries that belong to the user's points.
UserLegs(points) ==
  LET mine == {k \in DOMAIN points : points[k].user # 0}
  IN  [i \in 1..Cardinality(mine) |-> Nth(mine, i)]

\* The second answer; legs stays empty if it does not have one boundary per point.
Routed(r) ==
  LET q == requests[r] IN
  /\ q.phase = "route"
  /\ \/ Become(r, [q EXCEPT !.phase = "planned",
                            !.legs = UserLegs(InterleaveStops(q.trip, Stops(q)))])
     \/ Become(r, [q EXCEPT !.phase = "planned"])
     \/ Become(r, [q EXCEPT !.phase = "failed"])
  /\ UNCHANGED <<source, now, cells, known>>

\* The first answer did not have one boundary per point: the stops are given up.
NoBoundaries(r) ==
  /\ requests[r].phase = "route"
  /\ Become(r, [requests[r] EXCEPT !.phase = "no stops"])
  /\ UNCHANGED <<source, now, cells, known>>

Tick ==
  /\ now < MaxTime
  /\ now' = now + 1
  /\ UNCHANGED <<source, cells, known, requests>>

Step(r) ==
  \/ Plan(r) \/ (\E c \in DOMAIN requests[r].wave : FetchPage(r, c))
  \/ FetchFails(r) \/ Prefetched(r) \/ StoreFails(r) \/ Look(r) \/ Choose(r)
  \/ Routed(r) \/ NoBoundaries(r)

Next == Tick \/ \E r \in Requests : Step(r)

\* httpx and GraphHopper's client both give up after a while: no wait is forever.
Fairness == \A r \in Requests : WF_vars(Step(r))

Spec == Init /\ [][Next]_vars /\ Fairness

-----------------------------------------------------------------------------
(* Properties. *)

\* A cell with more rows than its pages may hold: read in part, whatever the cache says.
TooDense(cell) == Cardinality(SourceRows(cell)) > MaxPages * PageSize

\* Each target got the nearest station not used before it, as far as the box of the
\* wider search reaches, and it got none only if there is none: whatever cells, pages,
\* earlier requests and expired entries the answer was put together from.  Two kinds of
\* stations may be missed, and no other: those of a cell too dense to be read whole, and
\* those between the end of the box and the radius, which the code means to reach but
\* filters out since its two measures of a degree differ
\* (charging_stations.py:16,27-66,131-205, geo.py:3-5, charging_plan.py:102-121,
\* irve_client.py:168-190).
PlacementIsRight ==
  \A r \in Requests : \A i \in DOMAIN requests[r].plan :
    LET q == requests[r]
        widest == Largest(SearchRadius, MaxDetour)
        far(s) == Distance(Position[s], Place(q.trip, q.targets[i]))
        free == {s \in source : /\ far(s) <= widest
                                /\ \A j \in 1..(i - 1) : s \notin q.plan[j]}
        sure == {s \in free : /\ far(s) <= BoxSpan[widest]
                              /\ \A c \in DOMAIN cells : Inside(s, c) => ~TooDense(c)}
    IN  \/ q.plan[i] = {} /\ sure = {}
        \/ \E s \in free : q.plan[i] = {s} /\ \A o \in sure : far(s) <= far(o)

\* When every recharge due was placed, and no cap cut them, no stretch of the trip
\* between two of them is longer than the autonomy: the recharges left out at the
\* end are those the last charge makes useless (charging_plan.py:53-78).
PlanKeepsAutonomy ==
  \A r \in Requests :
    LET q == requests[r]
        marks == <<0>> \o q.targets \o <<q.trip.length>>
    IN  q.phase \in {"planned", "no stops"} /\ Unplaced(q) = 0 /\ Len(q.targets) < MaxStops
          => \A i \in 1..(Len(marks) - 1) : marks[i + 1] - marks[i] <= q.trip.autonomy

\* The legs answered are those of the user's points, each in its place, and every
\* stop lies between the two points that frame it (charging_route.py:24-61,122-135).
UserLegsKept ==
  \A r \in Requests :
    LET q == requests[r]
        w == q.trip.waypoints
        points == InterleaveStops(q.trip, Stops(q))
    IN  q.legs # <<>> =>
          /\ Len(q.legs) = Len(w)
          /\ \A i \in 1..Len(w) : points[q.legs[i]] = User(i)
          /\ \A i \in 1..(Len(w) - 1) : \A k \in (q.legs[i] + 1)..(q.legs[i + 1] - 1) :
               w[i] <= points[k].at /\ points[k].at <= w[i + 1]

\* Every request is answered, even when the cells it has just asked for expire as
\* fast as they are stored (charging_stations.py:131-158, charging_plan.py:116-121).
RequestsEnd == \A r \in Requests : <>(requests[r].phase \in Answers)
=============================================================================
