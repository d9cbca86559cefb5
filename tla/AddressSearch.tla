---------------------------- MODULE AddressSearch ---------------------------
(***************************************************************************)
(* The fields "start", "end" and "step" of the itinerary: what is typed,   *)
(* the debounced search, the list of suggestions and what choosing one     *)
(* does to the points (ui/address-search.js, utils/itinerary.js,           *)
(* controllers/itinerary-controller.js), together with the geocoding       *)
(* client of the backend (services/geocoding_client.py), which shares one  *)
(* task between identical searches, spaces the requests it sends and       *)
(* keeps recent answers.                                                   *)
(*                                                                         *)
(* A search given up by its field goes on in the backend.  Leaving a field *)
(* closes its list, so one field at a time has a search.                   *)
(***************************************************************************)
EXTENDS Naturals, FiniteSets, Sequences, SequencesExt

CONSTANTS
  Queries,              \* Texts long enough to be searched.
  Found,                \* How many suggestions each of them has.
  Elsewhere,            \* Points set by other means than the fields.
  MaxPoints,            \* Bound on the points ...
  MaxTyped,             \* ... on what is typed ...
  MaxTime,              \* ... and on the time.
  Interval,             \* nominatim_min_interval_s
  TTL,                  \* _CACHE_TTL_S
  MaxEntries            \* _CACHE_MAX_ENTRIES

ASSUME SearchAssumption ==
  /\ IsFiniteSet(Queries)
  /\ Found \in [Queries -> Nat]
  /\ {MaxPoints, MaxTyped, MaxTime, TTL, MaxEntries} \subseteq Nat
  /\ Interval \in Nat \ {0}
  /\ \A pts \in Elsewhere : pts \in Seq(Queries) /\ Len(pts) <= MaxPoints

VARIABLES
  points,               \* The points, each known by the query that found it.
  focus,                \* The field that has the focus, or "none".
  text,                 \* What each field shows.
  timer,                \* The query of the debounce timer; {}: not set.
  search,               \* The search awaited.
  list,                 \* The suggestions.
  active,               \* The one the arrows are on; 0: none.
  failed,               \* History: the last search failed.
  givenUp,              \* History: Escape gave the text up, but not its search.
  typed,                \* Number of texts typed.
  now,                  \* The time.
  nextSlot,             \* _next_slot
  tasks,                \* _inflight: the task of each query.
  cache,                \* _cache, the oldest used first.
  sends                 \* History: number of requests sent.

fieldVars == <<points, focus, text, typed>>
listVars == <<timer, search, list, active, failed, givenUp>>
backendVars == <<now, nextSlot, tasks, cache, sends>>
vars == <<fieldVars, listVars, backendVars>>

Fields == {"start", "end", "step"}

Texts == [kind : {"typed"}, of : {{q} : q \in Queries} \cup {{}}] \cup
         [kind : {"point"}, of : {{q} : q \in Queries} \cup {{}}]

\* Typed(q): a text too short to be searched if q is empty.
Typed(of) == [kind |-> "typed", of |-> of]
Shown(of) == [kind |-> "point", of |-> of]

NoSearch == [of |-> {}, stage |-> "none"]
NoList == [of |-> {}, length |-> 0]
NoTask == [stage |-> "none", slot |-> 0]

TypeOK ==
  /\ points \in BoundedSeq(Queries, MaxPoints)
  /\ focus \in Fields \cup {"none"}
  /\ text \in [Fields -> Texts]
  /\ timer \subseteq Queries /\ Cardinality(timer) <= 1
  /\ search.of \subseteq Queries
  /\ search.stage \in {"none", "sent", "shared", "found", "error"}
  /\ list.of \subseteq Queries /\ active \in 0..list.length
  /\ failed \in BOOLEAN /\ givenUp \in BOOLEAN /\ typed \in 0..MaxTyped
  /\ now \in 0..MaxTime /\ nextSlot \in Nat
  /\ \A q \in Queries : tasks[q].stage \in {"none", "waiting", "sent"}
  /\ Len(cache) <= MaxEntries
  /\ \A i, j \in DOMAIN cache : cache[i].of = cache[j].of => i = j
  /\ focus = "none" => timer = {} /\ search = NoSearch /\ list = NoList

-----------------------------------------------------------------------------
(* What the fields are for. *)

IsFieldEnabled(f, pts) ==
  \/ f = "start"
  \/ f = "end" /\ Len(pts) >= 1
  \/ f = "step" /\ Len(pts) >= 2

FieldDisplayValue(f, pts) ==
  Shown(IF f = "start" /\ pts # <<>> THEN {pts[1]}
        ELSE IF f = "end" /\ Len(pts) >= 2 THEN {pts[Len(pts)]} ELSE {})

\* searchFieldAction, done: what choosing a place in this field makes of the points.
\* Where a step fits best is a matter of distances: anywhere between two points.
Chosen(f, pts, place) ==
  IF f = "start" THEN {IF pts = <<>> THEN <<place>> ELSE [pts EXCEPT ![1] = place]}
  ELSE IF f = "end" THEN {IF Len(pts) = 1 THEN Append(pts, place)
                          ELSE [pts EXCEPT ![Len(pts)] = place]}
  ELSE {InsertAt(pts, i, place) : i \in 2..Len(pts)}

Init ==
  /\ points = <<>> /\ focus = "none"
  /\ text = [f \in Fields |-> FieldDisplayValue(f, <<>>)]
  /\ timer = {} /\ search = NoSearch /\ list = NoList /\ active = 0
  /\ failed = FALSE /\ givenUp = FALSE /\ typed = 0
  /\ now = 0 /\ nextSlot = 0 /\ tasks = [q \in Queries |-> NoTask] /\ cache = <<>>
  /\ sends = 0

\* close(): the answer of a search under way shall not open the list again.
Close ==
  /\ timer' = {} /\ search' = NoSearch /\ list' = NoList /\ active' = 0
  /\ failed' = FALSE /\ givenUp' = FALSE

\* syncField of every field as the points change.  A field that is being typed in
\* keeps its text, and one that loses its role its focus.
Sync(pts, forced) ==
  /\ text' = [f \in Fields |->
                IF f = focus /\ f # forced THEN text[f] ELSE FieldDisplayValue(f, pts)]
  /\ focus' = IF focus # "none" /\ IsFieldEnabled(focus, pts) THEN focus ELSE "none"

-----------------------------------------------------------------------------
(* The user. *)

Focus(f) ==
  /\ focus = "none" /\ IsFieldEnabled(f, points)
  /\ focus' = f
  /\ UNCHANGED <<points, text, typed, listVars, backendVars>>

\* Mutant: what was typed stays.
BlurUnsynced ==
  /\ focus # "none"
  /\ Close
  /\ focus' = "none"
  /\ UNCHANGED <<points, text, typed, backendVars>>

\* What was typed and not chosen is given up.
Blur ==
  /\ focus # "none"
  /\ Close
  /\ text' = [text EXCEPT ![focus] = FieldDisplayValue(focus, points)]
  /\ focus' = "none"
  /\ UNCHANGED <<points, typed, backendVars>>

\* Mutant: a short text stops the timer only.
TypeKeepsSearch(of) ==
  /\ focus # "none" /\ typed < MaxTyped
  /\ typed' = typed + 1
  /\ text' = [text EXCEPT ![focus] = Typed(of)]
  /\ \/ of = {} /\ timer' = {}
     \/ of # {} /\ timer' = of
  /\ givenUp' = FALSE
  /\ UNCHANGED <<points, focus, search, list, active, failed, backendVars>>

\* A short text closes the list; another sets the timer anew, and leaves the list
\* and the search of the text before.
Type(of) ==
  /\ focus # "none" /\ typed < MaxTyped
  /\ typed' = typed + 1
  /\ text' = [text EXCEPT ![focus] = Typed(of)]
  /\ \/ of = {} /\ Close
     \/ /\ of # {} /\ timer' = of /\ givenUp' = FALSE
        /\ UNCHANGED <<search, list, active, failed>>
  /\ UNCHANGED <<points, focus, backendVars>>

Arrow ==
  /\ list.length > 0
  /\ \/ active' = IF active = list.length THEN 1 ELSE active + 1
     \/ active' = IF active <= 1 THEN list.length ELSE active - 1
  /\ UNCHANGED <<fieldVars, timer, search, list, failed, givenUp, backendVars>>

\* Enter or a click on a suggestion; the field empties, its point changes, and it
\* shows the point.
Select ==
  /\ list.length > 0
  /\ \E place \in list.of : \E pts \in Chosen(focus, points, place) :
       /\ Len(pts) <= MaxPoints
       /\ points' = pts
       /\ Sync(pts, focus)
  /\ Close
  /\ UNCHANGED <<typed, backendVars>>

\* Escape closes the list; without one it gives the text up, but not its search.
Escape ==
  /\ focus # "none"
  /\ \/ list.length > 0 /\ Close /\ UNCHANGED text
     \/ /\ list.length = 0
        /\ text' = [text EXCEPT ![focus] = FieldDisplayValue(focus, points)]
        /\ givenUp' = (givenUp \/ timer # {} \/ search # NoSearch)
        /\ UNCHANGED <<timer, search, list, active, failed>>
  /\ UNCHANGED <<points, focus, typed, backendVars>>

\* Points set otherwise: on the map, by the history, or with an opened route.
SetPoints(pts) ==
  /\ pts # points
  /\ points' = pts
  /\ Sync(pts, "none")
  /\ IF focus # "none" /\ focus' = "none" THEN Close ELSE UNCHANGED listVars
  /\ UNCHANGED <<typed, backendVars>>

-----------------------------------------------------------------------------
(* The search, from the field's side. *)

\* A new search takes the place of the one before.
TimerFires ==
  /\ timer # {}
  /\ timer' = {}
  /\ search' = [of |-> timer, stage |-> "sent"]
  /\ UNCHANGED <<fieldVars, list, active, failed, givenUp, backendVars>>

Answered ==
  /\ search.stage = "found"
  /\ list' = [of |-> search.of, length |-> Found[CHOOSE q \in search.of : TRUE]]
  /\ active' = 0 /\ failed' = FALSE
  /\ search' = NoSearch
  /\ UNCHANGED <<fieldVars, timer, givenUp, backendVars>>

\* A failure, of the backend or on the way, leaves the list as it is.
SearchFails ==
  /\ search.stage # "none"
  /\ search' = NoSearch /\ failed' = TRUE
  /\ UNCHANGED <<fieldVars, timer, list, active, givenUp, backendVars>>

-----------------------------------------------------------------------------
(* The geocoding client. *)

CachedAt(q) == {i \in DOMAIN cache : cache[i].of = q}

\* A dictionary has one entry at most for a key.
Without(q) ==
  IF CachedAt(q) = {} THEN cache ELSE RemoveAt(cache, CHOOSE i \in CachedAt(q) : TRUE)

\* Mutant: the slot is counted from the present.
ReserveNow(q) ==
  /\ tasks' = [tasks EXCEPT ![q] = [stage |-> "waiting", slot |-> now]]
  /\ nextSlot' = now + Interval

Larger(a, b) == IF a >= b THEN a ELSE b
Smaller(a, b) == IF a <= b THEN a ELSE b

\* _wait_for_slot, under its lock.
Reserve(q) ==
  /\ tasks' = [tasks EXCEPT ![q] = [stage |-> "waiting", slot |-> Larger(now, nextSlot)]]
  /\ nextSlot' = Larger(now, nextSlot) + Interval

\* search(): a fresh answer is taken from the cache, an old one dropped; else the
\* task of the same query is shared, or one is made, which reserves its slot.
Search(q) ==
  /\ search.stage = "sent" /\ search.of = {q}
  /\ \/ /\ \E i \in CachedAt(q) :
             /\ now - cache[i].at < TTL
             /\ cache' = Append(Without(q), cache[i])
        /\ search' = [search EXCEPT !.stage = "found"]
        /\ UNCHANGED <<tasks, nextSlot>>
     \/ /\ \A i \in CachedAt(q) : now - cache[i].at >= TTL
        /\ cache' = Without(q)
        /\ search' = [search EXCEPT !.stage = "shared"]
        /\ IF tasks[q] # NoTask THEN UNCHANGED <<tasks, nextSlot>>
           ELSE Reserve(q)
  /\ UNCHANGED <<fieldVars, timer, list, active, failed, givenUp, now, sends>>

\* The slot has come: the request goes out, now or later.
SendRequest(q) ==
  /\ tasks[q].stage = "waiting" /\ tasks[q].slot <= now
  /\ tasks' = [tasks EXCEPT ![q].stage = "sent"]
  /\ sends' = sends + 1
  /\ UNCHANGED <<fieldVars, listVars, now, nextSlot, cache>>

\* The awaited search shares the end of the task of its query.
Tell(q, outcome) ==
  search' = IF search = [of |-> {q}, stage |-> "shared"]
            THEN [search EXCEPT !.stage = outcome] ELSE search

\* Mutant: nothing is ever evicted.
EvictNothing(entries) == entries

Evict(entries) ==
  SubSeq(entries, Len(entries) - Smaller(Len(entries), MaxEntries) + 1, Len(entries))

TaskEnds(q) ==
  /\ tasks[q].stage = "sent"
  /\ tasks' = [tasks EXCEPT ![q] = NoTask]
  /\ \/ /\ cache' = Evict(Append(Without(q), [of |-> q, at |-> now]))
        /\ Tell(q, "found")
     \/ UNCHANGED cache /\ Tell(q, "error")
  /\ UNCHANGED <<fieldVars, timer, list, active, failed, givenUp, now, nextSlot, sends>>

Tick ==
  /\ now < MaxTime
  /\ now' = now + 1
  /\ UNCHANGED <<fieldVars, listVars, nextSlot, tasks, cache, sends>>

-----------------------------------------------------------------------------
User ==
  \/ \E f \in Fields : Focus(f)
  \/ Blur \/ Arrow \/ Select \/ Escape
  \/ \E of \in {{q} : q \in Queries} \cup {{}} : Type(of)
  \/ \E pts \in Elsewhere : SetPoints(pts)

Page == TimerFires \/ Answered \/ SearchFails

Backend == Tick \/ \E q \in Queries : Search(q) \/ SendRequest(q) \/ TaskEnds(q)

Next == User \/ Page \/ Backend

Spec == Init /\ [][Next]_vars

-----------------------------------------------------------------------------
(* Properties. *)

\* "Annule aussi une recherche deja en vol : sa reponse ne doit pas rouvrir la liste
\* apres coup" (address-search.js:34-35): once nothing is awaited, the suggestions are
\* those of the text under which they are shown, whatever was typed, closed, chosen,
\* shared or cached since.  There are two ways out, and no other.  The last search
\* failed, which leaves the list of the text before under the new one (82-100).  Or
\* Escape, while the list was empty, gave the text up but not its timer or search
\* (119-126): then suggestions for what was typed open under the text of the point,
\* where the code means none to open.
ListIsOfText ==
  timer = {} /\ search = NoSearch /\ list.length > 0 =>
    /\ focus # "none"
    /\ \/ text[focus] = Typed(list.of)
       \/ failed
       \/ givenUp /\ text[focus].kind = "point"

\* A field that can be used and is not being typed in shows its point, wherever the
\* point came from and whatever was typed before (itinerary-controller.js:30-72).
FieldsShowPoints ==
  \A f \in Fields :
    f # focus /\ IsFieldEnabled(f, points) => text[f] = FieldDisplayValue(f, points)

\* However many searches are started, given up and shared, the service never gets
\* more requests than one per interval (geocoding_client.py:40-46,110-117).
RateBounded == sends <= 1 + now \div Interval

=============================================================================
