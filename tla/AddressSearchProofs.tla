------------------------ MODULE AddressSearchProofs -------------------------
(***************************************************************************)
(* What the address fields and the geocoding client guarantee for any      *)
(* queries, points, times and sizes of the cache.                          *)
(***************************************************************************)
EXTENDS AddressSearch, FiniteSetTheorems, SequenceTheorems, TLAPS

-----------------------------------------------------------------------------
(* Fields show their points. *)

\* The texts of the three fields, and what they show.
TextsShown ==
  /\ text = [f \in Fields |-> text[f]]
  /\ FieldsShowPoints

LEMMA InitTexts == Init => TextsShown
  BY DEF Init, TextsShown, FieldsShowPoints

\* Whatever the fields that are not forced showed, they show their points after.
LEMMA SyncShows ==
  ASSUME NEW pts, NEW forced, TextsShown, points' = pts, Sync(pts, forced)
  PROVE  TextsShown'
  BY DEF TextsShown, FieldsShowPoints, Sync, IsFieldEnabled, Fields

\* No action shows anything else in a field that is left.
LEMMA StepTexts == TextsShown /\ [Next]_vars => TextsShown'
<1> SUFFICES ASSUME TextsShown, [Next]_vars PROVE TextsShown'
  OBVIOUS
<1>1. ASSUME UNCHANGED fieldVars PROVE TextsShown'
  BY <1>1 DEF fieldVars, TextsShown, FieldsShowPoints
<1>2. ASSUME NEW f \in Fields, Focus(f) PROVE TextsShown'
  BY <1>2 DEF Focus, TextsShown, FieldsShowPoints, Fields
<1>3. CASE Blur
  BY <1>3 DEF Blur, TextsShown, FieldsShowPoints
<1>4. CASE Select
  <2>1. PICK pts : points' = pts /\ Sync(pts, focus)
    BY <1>4 DEF Select
  <2>2. QED
    BY <2>1, SyncShows
<1>5. CASE Escape
  BY <1>5 DEF Escape, TextsShown, FieldsShowPoints
<1>6. ASSUME NEW of, Type(of) PROVE TextsShown'
  BY <1>6 DEF Type, TextsShown, FieldsShowPoints
<1>7. ASSUME NEW pts, SetPoints(pts) PROVE TextsShown'
  BY <1>7, SyncShows DEF SetPoints
<1>8. CASE Arrow \/ Page \/ Backend
  <2>1. UNCHANGED fieldVars
    BY <1>8 DEF Arrow, Page, TimerFires, Answered, SearchFails, Backend, Tick,
       Search, SendRequest, TaskEnds
  <2>2. QED
    BY <1>1, <2>1
<1>9. CASE UNCHANGED vars
  BY <1>1, <1>9 DEF vars
<1>10. QED
  BY <1>2, <1>3, <1>4, <1>5, <1>6, <1>7, <1>8, <1>9 DEF Next, User

\* A field that is not being typed in shows its point, in any history of typing,
\* choosing and points set otherwise (itinerary-controller.js:30-72).
THEOREM FieldsFollowPoints == Spec => []FieldsShowPoints
<1>1. TextsShown => FieldsShowPoints
  BY DEF TextsShown
<1>2. QED
  BY InitTexts, StepTexts, <1>1, PTL DEF Spec

-----------------------------------------------------------------------------
(* Suggestions are those of their text. *)

Stages == {"none", "sent", "shared", "found", "error"}

\* The text of the focused field is the one typed, or was given up by Escape.
IsTextOf(of) ==
  text[focus] = Typed(of) \/ (givenUp /\ text[focus].kind = "point")

\* What is awaited for the text of the focused field is of that text: the timer, else
\* the search, else the list.  A field that was left awaits nothing.
ListFollowsText ==
  /\ focus \in Fields \cup {"none"}
  /\ text = [f \in Fields |-> text[f]]
  /\ timer \subseteq Queries
  /\ search \in [of : SUBSET Queries, stage : Stages]
  /\ search.stage = "none" => search = NoSearch
  /\ focus = "none" => timer = {} /\ search = NoSearch /\ list = NoList
  /\ focus # "none" =>
       /\ timer # {} => IsTextOf(timer)
       /\ timer = {} /\ search # NoSearch => IsTextOf(search.of)
       /\ timer = {} /\ search = NoSearch /\ list.length > 0 => failed \/ IsTextOf(list.of)

LEMMA InitList == Init => ListFollowsText
  BY DEF Init, ListFollowsText, IsTextOf, NoSearch, NoList, Stages

\* Of what a step may leave alone.
LEMMA QuietList ==
  ASSUME ListFollowsText, UNCHANGED <<focus, text, timer, search, list, failed, givenUp>>
  PROVE  ListFollowsText'
  BY DEF ListFollowsText, IsTextOf

\* Choosing and leaving close the list, whatever the texts become.
LEMMA CloseKeepsList ==
  ASSUME Close, focus' \in Fields \cup {"none"}, text' = [f \in Fields |-> text'[f]]
  PROVE  ListFollowsText'
  BY DEF Close, ListFollowsText, IsTextOf, NoSearch, NoList, Stages

\* What the user does.
LEMMA UserList == ListFollowsText /\ User => ListFollowsText'
<1> SUFFICES ASSUME ListFollowsText, User PROVE ListFollowsText'
  OBVIOUS
<1>1. ASSUME NEW f \in Fields, Focus(f) PROVE ListFollowsText'
  BY <1>1 DEF Focus, ListFollowsText, IsTextOf, listVars, NoSearch, NoList
<1>2. CASE Blur
  BY <1>2, CloseKeepsList DEF Blur, ListFollowsText, IsTextOf
<1>3. CASE Select
  <2>1. PICK pts : Sync(pts, focus)
    BY <1>3 DEF Select
  <2>2. QED
    BY <1>3, <2>1, CloseKeepsList DEF Select, Sync, ListFollowsText, IsTextOf
<1>4. CASE Escape
  <2>1. CASE Close /\ UNCHANGED text
    BY <1>4, <2>1, CloseKeepsList DEF Escape, ListFollowsText, IsTextOf
  <2>2. CASE /\ list.length = 0
             /\ text' = [text EXCEPT ![focus] = FieldDisplayValue(focus, points)]
             /\ givenUp' = (givenUp \/ timer # {} \/ search # NoSearch)
             /\ UNCHANGED <<timer, search, list, active, failed>>
    <3>1. focus' = focus /\ focus \in Fields
      BY <1>4 DEF Escape, ListFollowsText
    <3>2. text' = [f \in Fields |-> text'[f]] /\ text'[focus].kind = "point"
      BY <2>2, <3>1 DEF ListFollowsText, FieldDisplayValue, Shown
    <3>3. timer # {} \/ search # NoSearch => givenUp'
      BY <2>2
    <3>4. \A of : timer # {} \/ search # NoSearch => IsTextOf(of)'
      BY <3>1, <3>2, <3>3 DEF IsTextOf
    <3>5. QED
      BY <2>2, <3>1, <3>2, <3>4 DEF ListFollowsText
  <2>3. QED
    BY <1>4, <2>1, <2>2 DEF Escape
<1>5. CASE Arrow
  BY <1>5, QuietList DEF Arrow, fieldVars
<1>6. ASSUME NEW of \in {{q} : q \in Queries} \cup {{}}, Type(of) PROVE ListFollowsText'
  <2>1. CASE of = {}
    BY <1>6, <2>1, CloseKeepsList DEF Type, ListFollowsText, IsTextOf
  <2>2. CASE of # {}
    BY <1>6, <2>2 DEF Type, ListFollowsText, IsTextOf, Typed
  <2>3. QED
    BY <2>1, <2>2
<1>7. ASSUME NEW pts \in Elsewhere, SetPoints(pts) PROVE ListFollowsText'
  <2>1. Sync(pts, "none")
    BY <1>7 DEF SetPoints
  <2>2. CASE focus # "none" /\ focus' = "none"
    BY <1>7, <2>1, <2>2, CloseKeepsList DEF SetPoints, Sync, ListFollowsText, IsTextOf
  <2>3. CASE ~(focus # "none" /\ focus' = "none")
    BY <1>7, <2>1, <2>3 DEF SetPoints, Sync, ListFollowsText, IsTextOf, listVars, Fields
  <2>4. QED
    BY <2>2, <2>3
<1>8. QED
  BY <1>1, <1>2, <1>3, <1>4, <1>5, <1>6, <1>7 DEF User

\* What comes to the page, and what the backend does.
LEMMA StepList == ListFollowsText /\ [Next]_vars => ListFollowsText'
<1> SUFFICES ASSUME ListFollowsText, [Next]_vars PROVE ListFollowsText'
  OBVIOUS
<1>1. CASE TimerFires
  BY <1>1 DEF TimerFires, ListFollowsText, IsTextOf, fieldVars, NoSearch, Stages
<1>2. CASE Answered
  BY <1>2 DEF Answered, ListFollowsText, IsTextOf, fieldVars, NoSearch, Stages
<1>3. CASE SearchFails
  BY <1>3 DEF SearchFails, ListFollowsText, IsTextOf, fieldVars, NoSearch, Stages
<1>4. ASSUME NEW q \in Queries, Search(q) PROVE ListFollowsText'
  <2>1. UNCHANGED <<focus, text, timer, list, failed, givenUp>> /\ search.stage = "sent"
    BY <1>4 DEF Search, fieldVars
  <2>2. PICK stage \in {"found", "shared"} : search' = [search EXCEPT !.stage = stage]
    BY <1>4 DEF Search
  <2>3. QED
    BY <2>1, <2>2 DEF ListFollowsText, IsTextOf, NoSearch, Stages
<1>5. ASSUME NEW q \in Queries, TaskEnds(q) PROVE ListFollowsText'
  <2>1. UNCHANGED <<focus, text, timer, list, failed, givenUp>>
    BY <1>5 DEF TaskEnds, fieldVars
  <2>2. CASE search' = search
    BY <2>1, <2>2, QuietList
  <2>3. ASSUME NEW outcome \in {"found", "error"}, search.stage = "shared",
               search' = [search EXCEPT !.stage = outcome]
        PROVE  ListFollowsText'
    BY <2>1, <2>3 DEF ListFollowsText, IsTextOf, NoSearch, Stages
  <2>4. PICK outcome \in {"found", "error"} : Tell(q, outcome)
    BY <1>5 DEF TaskEnds
  <2>5. QED
    BY <2>2, <2>3, <2>4 DEF Tell
<1>6. CASE Tick \/ \E q \in Queries : SendRequest(q)
  BY <1>6, QuietList DEF Tick, SendRequest, fieldVars, listVars
<1>7. CASE UNCHANGED vars
  BY <1>7, QuietList DEF vars, fieldVars, listVars
<1>8. QED
  BY <1>1, <1>2, <1>3, <1>4, <1>5, <1>6, <1>7, UserList DEF Next, Page, Backend

\* Suggestions shown with nothing awaited are those of the text above them, but for a
\* failed search and for a text given up by Escape while it was searched: nothing else
\* puts them under another text (address-search.js:32-42,82-126).
THEOREM ListFitsText == Spec => []ListIsOfText
<1>1. ListFollowsText => ListIsOfText
  BY DEF ListFollowsText, IsTextOf, ListIsOfText, NoList
<1>2. QED
  BY InitList, StepList, <1>1, PTL DEF Spec

-----------------------------------------------------------------------------
(* Requests are spaced. *)

Waiting == {q \in Queries : tasks[q].stage = "waiting"}

\* Those whose request may be out by the time t.
WaitingBy(t) == {q \in Waiting : tasks[q].slot <= t}

ClientTypes ==
  /\ tasks \in [Queries -> [stage : {"none", "waiting", "sent"}, slot : Nat]]
  /\ now \in Nat /\ nextSlot \in Nat /\ sends \in Nat

\* Slots are an interval apart, the next one after them all: at any time to come, the
\* requests sent by then are as many as intervals, and one.
SlotsAreSpaced ==
  /\ \A q \in Waiting : tasks[q].slot + Interval <= nextSlot
  /\ (sends + Cardinality(Waiting)) * Interval <= nextSlot
  /\ \A t \in Nat : t >= now =>
       (sends + Cardinality(WaitingBy(t))) * Interval <= t + Interval

RateInv == ClientTypes /\ SlotsAreSpaced

\* The queries are finitely many, hence so are the tasks.
LEMMA WaitingFinite ==
  /\ IsFiniteSet(Waiting) /\ Cardinality(Waiting) \in Nat
  /\ \A t : IsFiniteSet(WaitingBy(t)) /\ Cardinality(WaitingBy(t)) \in Nat
<1>1. IsFiniteSet(Waiting)
  BY SearchAssumption, FS_Subset DEF Waiting
<1>2. \A t : IsFiniteSet(WaitingBy(t))
  BY <1>1, FS_Subset DEF WaitingBy
<1>3. QED
  BY <1>1, <1>2, FS_CardinalityType

LEMMA InitRate == Init => RateInv
<1> SUFFICES ASSUME Init PROVE RateInv
  OBVIOUS
<1>1. ClientTypes
  BY DEF Init, ClientTypes, NoTask
<1>2. Waiting = {} /\ \A t : WaitingBy(t) = {}
  BY DEF Init, Waiting, WaitingBy, NoTask
<1>3. Cardinality({}) = 0
  BY FS_EmptySet
<1>4. (sends + 0) * Interval = 0 /\ nextSlot = 0 /\ now = 0 /\ Interval \in Nat
  BY SearchAssumption DEF Init
<1>5. QED
  BY <1>1, <1>2, <1>3, <1>4 DEF RateInv, SlotsAreSpaced

\* One interval more for one request more.
LEMMA OneMore ==
  ASSUME NEW n \in Nat, NEW t \in Nat, n * Interval <= t
  PROVE  (n + 1) * Interval <= t + Interval
<1>1. Interval \in Nat
  BY SearchAssumption
<1>2. (n + 1) * Interval = n * Interval + Interval
  BY <1>1
<1>3. n * Interval \in Nat
  BY <1>1
<1>4. QED
  BY <1>1, <1>2, <1>3

\* A request that waits for a slot of its own, after all those reserved.
LEMMA ReserveKeepsRate ==
  ASSUME RateInv, NEW q \in Queries, tasks[q] = NoTask, Reserve(q), UNCHANGED <<now, sends>>
  PROVE  RateInv'
<1> DEFINE slot == Larger(now, nextSlot)
<1>1. slot \in Nat /\ slot >= now /\ slot >= nextSlot /\ Interval \in Nat
  BY SearchAssumption DEF RateInv, ClientTypes, Larger
<1>2. /\ tasks' = [tasks EXCEPT ![q] = [stage |-> "waiting", slot |-> slot]]
      /\ nextSlot' = slot + Interval
  BY DEF Reserve
<1> HIDE DEF slot
<1>3. ClientTypes'
  BY <1>1, <1>2 DEF RateInv, ClientTypes
<1>4. q \notin Waiting /\ Waiting' = Waiting \cup {q}
  BY <1>2 DEF RateInv, ClientTypes, Waiting, NoTask
<1>5. Cardinality(Waiting') = Cardinality(Waiting) + 1
  BY <1>4, WaitingFinite, FS_AddElement
<1>6. \A p \in Waiting : tasks'[p].slot = tasks[p].slot /\ tasks[p].slot \in Nat
  BY <1>2, <1>4 DEF RateInv, ClientTypes, Waiting
<1>7. tasks'[q].slot = slot
  BY <1>2 DEF RateInv, ClientTypes
<1>8. \A p \in Waiting' : tasks'[p].slot + Interval <= nextSlot'
  <2>1. \A p \in Waiting : tasks[p].slot + Interval <= nextSlot
    BY DEF RateInv, SlotsAreSpaced
  <2>2. nextSlot <= nextSlot' /\ slot + Interval <= nextSlot' /\ nextSlot \in Nat
    BY <1>1, <1>2 DEF RateInv, ClientTypes
  <2>3. ASSUME NEW p \in Waiting PROVE tasks'[p].slot + Interval <= nextSlot'
    BY <1>1, <1>2, <1>6, <2>1, <2>2
  <2>4. QED
    BY <1>4, <1>7, <2>2, <2>3
<1>9. sends \in Nat /\ nextSlot \in Nat /\ Cardinality(Waiting) \in Nat
  BY WaitingFinite DEF RateInv, ClientTypes
<1>10. (sends + Cardinality(Waiting) + 1) * Interval <= nextSlot + Interval
  BY <1>9, OneMore DEF RateInv, SlotsAreSpaced
<1>11. (sends' + Cardinality(Waiting')) * Interval <= nextSlot'
  BY <1>1, <1>2, <1>5, <1>9, <1>10
<1>12. ASSUME NEW t \in Nat, t >= now'
       PROVE  (sends' + Cardinality(WaitingBy(t)')) * Interval <= t + Interval
  <2>1. CASE t < slot
    <3>1. WaitingBy(t)' = WaitingBy(t)
      BY <1>1, <1>4, <1>6, <1>7, <2>1 DEF WaitingBy
    <3>2. QED
      BY <1>12, <3>1 DEF RateInv, SlotsAreSpaced
  <2>2. CASE t >= slot
    <3>1. WaitingBy(t)' = Waiting'
      <4>1. \A p \in Waiting' : tasks'[p].slot \in Nat
        BY <1>1, <1>4, <1>6, <1>7
      <4>2. \A p \in Waiting' : tasks'[p].slot <= t
        BY <1>1, <1>2, <1>8, <2>2, <4>1
      <4>3. QED
        BY <4>2 DEF WaitingBy
    <3>2. QED
      BY <1>1, <1>5, <1>9, <1>10, <2>2, <3>1
  <2>3. QED
    BY <1>1, <2>1, <2>2
<1>13. QED
  BY <1>3, <1>8, <1>11, <1>12 DEF RateInv, SlotsAreSpaced

\* A request that goes out was counted when its slot was reserved.
LEMMA SendKeepsRate ==
  ASSUME RateInv, NEW q \in Queries, SendRequest(q)
  PROVE  RateInv'
<1>1. /\ q \in Waiting /\ tasks[q].slot <= now
      /\ tasks' = [tasks EXCEPT ![q].stage = "sent"]
      /\ sends' = sends + 1 /\ now' = now /\ nextSlot' = nextSlot
  BY DEF SendRequest, Waiting
<1>2. ClientTypes'
  BY <1>1 DEF RateInv, ClientTypes
<1>3. Waiting' = Waiting \ {q} /\ \A p \in Waiting : tasks'[p].slot = tasks[p].slot
  BY <1>1 DEF RateInv, ClientTypes, Waiting
<1>4. Cardinality(Waiting') = Cardinality(Waiting) - 1
  BY <1>1, <1>3, WaitingFinite, FS_RemoveElement
<1>5. sends \in Nat /\ now \in Nat /\ Cardinality(Waiting) \in Nat /\ tasks[q].slot \in Nat
  BY <1>1, WaitingFinite DEF RateInv, ClientTypes
<1>6. sends' + Cardinality(Waiting') = sends + Cardinality(Waiting)
  BY <1>1, <1>4, <1>5
<1>7. ASSUME NEW t \in Nat, t >= now'
      PROVE  (sends' + Cardinality(WaitingBy(t)')) * Interval <= t + Interval
  <2>1. q \in WaitingBy(t) /\ WaitingBy(t)' = WaitingBy(t) \ {q}
    BY <1>1, <1>3, <1>5, <1>7 DEF WaitingBy
  <2>2. Cardinality(WaitingBy(t)') = Cardinality(WaitingBy(t)) - 1
    BY <2>1, WaitingFinite, FS_RemoveElement
  <2>3. Cardinality(WaitingBy(t)) \in Nat
    BY WaitingFinite
  <2>4. sends' + Cardinality(WaitingBy(t)') = sends + Cardinality(WaitingBy(t))
    BY <1>1, <1>5, <2>2, <2>3
  <2>5. QED
    BY <1>1, <1>7, <2>4 DEF RateInv, SlotsAreSpaced
<1>8. QED
  BY <1>1, <1>2, <1>3, <1>6, <1>7 DEF RateInv, SlotsAreSpaced

\* Nothing else reserves a slot or sends.
LEMMA QuietRate ==
  ASSUME RateInv, ClientTypes', now' >= now, Waiting' = Waiting,
         \A q \in Waiting : tasks'[q] = tasks[q], UNCHANGED <<nextSlot, sends>>
  PROVE  RateInv'
<1>1. \A t : WaitingBy(t)' = WaitingBy(t)
  BY DEF WaitingBy
<1>2. QED
  BY <1>1 DEF RateInv, ClientTypes, SlotsAreSpaced

LEMMA StepRate == RateInv /\ [Next]_vars => RateInv'
<1> SUFFICES ASSUME RateInv, [Next]_vars PROVE RateInv'
  OBVIOUS
<1>1. ASSUME UNCHANGED <<now, nextSlot, tasks, sends>> PROVE RateInv'
  BY <1>1, QuietRate DEF RateInv, ClientTypes, Waiting
<1>2. CASE User \/ Page
  BY <1>1, <1>2 DEF User, Focus, Blur, Arrow, Select, Escape, Type, SetPoints, Page,
     TimerFires, Answered, SearchFails, backendVars
<1>3. CASE Tick
  BY <1>3, QuietRate DEF Tick, RateInv, ClientTypes, Waiting
<1>4. ASSUME NEW q \in Queries, Search(q) PROVE RateInv'
  <2>1. UNCHANGED <<now, sends>>
    BY <1>4 DEF Search
  <2>2. UNCHANGED <<tasks, nextSlot>> \/ (tasks[q] = NoTask /\ Reserve(q))
    BY <1>4 DEF Search
  <2>3. QED
    BY <1>1, <2>1, <2>2, ReserveKeepsRate
<1>5. ASSUME NEW q \in Queries, TaskEnds(q) PROVE RateInv'
  <2>1. /\ tasks[q].stage = "sent" /\ tasks' = [tasks EXCEPT ![q] = NoTask]
        /\ UNCHANGED <<now, nextSlot, sends>>
    BY <1>5 DEF TaskEnds
  <2>2. ClientTypes'
    BY <2>1 DEF RateInv, ClientTypes, NoTask
  <2>3. Waiting' = Waiting /\ \A p \in Waiting : tasks'[p] = tasks[p]
    BY <2>1 DEF RateInv, ClientTypes, Waiting, NoTask
  <2>4. QED
    BY <2>1, <2>2, <2>3, QuietRate DEF RateInv, ClientTypes
<1>6. ASSUME NEW q \in Queries, SendRequest(q) PROVE RateInv'
  BY <1>6, SendKeepsRate
<1>7. CASE UNCHANGED vars
  BY <1>1, <1>7 DEF vars, backendVars
<1>8. QED
  BY <1>2, <1>3, <1>4, <1>5, <1>6, <1>7 DEF Next, Backend

\* As many whole intervals as there are requests but one.
LEMMA WholeIntervals ==
  ASSUME NEW n \in Nat, NEW t \in Nat, n * Interval <= t + Interval
  PROVE  n <= 1 + t \div Interval
<1> DEFINE whole == t \div Interval
<1>1. Interval \in Nat \ {0}
  BY SearchAssumption
<1>2. whole \in Nat /\ t < (whole + 1) * Interval
  BY <1>1
<1> HIDE DEF whole
<1>3. (whole + 2) * Interval = (whole + 1) * Interval + Interval
  BY <1>1, <1>2
<1>4. ASSUME n >= whole + 2 PROVE FALSE
  <2>1. n * Interval >= (whole + 2) * Interval
    BY <1>1, <1>2, <1>4
  <2>2. QED
    BY <1>1, <1>2, <1>3, <2>1
<1>5. QED
  BY <1>2, <1>4 DEF whole

\* The service never gets more than one request per interval of the whole time, for
\* any interval, queries and searches (geocoding_client.py:40-46,110-117).
THEOREM ServiceIsSpared == Spec => []RateBounded
<1>1. RateInv => RateBounded
  <2> SUFFICES ASSUME RateInv PROVE RateBounded
    OBVIOUS
  <2>1. sends \in Nat /\ now \in Nat /\ Cardinality(WaitingBy(now)) \in Nat /\ Interval \in Nat
    BY WaitingFinite, SearchAssumption DEF RateInv, ClientTypes
  <2>2. (sends + Cardinality(WaitingBy(now))) * Interval <= now + Interval
    BY <2>1 DEF RateInv, SlotsAreSpaced
  <2>3. sends + Cardinality(WaitingBy(now)) <= 1 + now \div Interval
    BY <2>1, <2>2, WholeIntervals
  <2>4. now \div Interval \in Nat
    BY <2>1, SearchAssumption
  <2>5. QED
    BY <2>1, <2>3, <2>4 DEF RateBounded
<1>2. QED
  BY InitRate, StepRate, <1>1, PTL DEF Spec

-----------------------------------------------------------------------------
(* Points, texts, suggestions and the cache are well formed. *)

\* A point is inserted between two others.
LEMMA InsertProperties ==
  ASSUME NEW S, NEW s \in Seq(S), NEW i \in 1..Len(s), NEW e \in S
  PROVE  InsertAt(s, i, e) \in Seq(S) /\ Len(InsertAt(s, i, e)) = Len(s) + 1
<1> DEFINE low == SubSeq(s, 1, i - 1)
<1> DEFINE high == SubSeq(s, i, Len(s))
<1>1. Len(s) \in Nat /\ \A k \in 1..Len(s) : s[k] \in S
  BY SMT
<1>2. low \in Seq(S) /\ Len(low) = i - 1
  BY <1>1, SubSeqProperties
<1>3. high \in Seq(S) /\ Len(high) = Len(s) - i + 1
  BY <1>1, SubSeqProperties
<1> HIDE DEF low, high
<1> DEFINE lower == low \o <<e>>
<1>4. lower \in Seq(S) /\ Len(lower) = i
  BY <1>2
<1>5. InsertAt(s, i, e) = lower \o high
  BY DEF InsertAt, low, high
<1> HIDE DEF lower
<1>6. lower \o high \in Seq(S) /\ Len(lower \o high) = Len(lower) + Len(high)
  BY <1>3, <1>4, ConcatProperties
<1>7. QED
  BY <1>1, <1>3, <1>4, <1>5, <1>6

\* An entry is taken out; the later ones move up.
LEMMA RemoveProperties ==
  ASSUME NEW S, NEW s \in Seq(S), NEW i \in 1..Len(s)
  PROVE  /\ RemoveAt(s, i) \in Seq(S) /\ Len(RemoveAt(s, i)) = Len(s) - 1
         /\ \A k \in 1..(Len(s) - 1) :
              /\ k < i => RemoveAt(s, i)[k] = s[k]
              /\ k >= i => RemoveAt(s, i)[k] = s[k + 1]
<1> DEFINE low == SubSeq(s, 1, i - 1)
<1> DEFINE high == SubSeq(s, i + 1, Len(s))
<1>1. Len(s) \in Nat /\ \A k \in 1..Len(s) : s[k] \in S
  BY SMT
<1>2. low \in Seq(S) /\ Len(low) = i - 1 /\ \A k \in 1..(i - 1) : low[k] = s[k]
  BY <1>1, SubSeqProperties
<1>3. /\ high \in Seq(S) /\ Len(high) = Len(s) - i
      /\ \A k \in 1..(Len(s) - i) : high[k] = s[i + k]
  <2>1. /\ high \in Seq(S)
        /\ Len(high) = IF i + 1 <= Len(s) THEN Len(s) - (i + 1) + 1 ELSE 0
        /\ \A k \in 1..(Len(s) - (i + 1) + 1) : high[k] = s[(i + 1) + k - 1]
    BY <1>1, SubSeqProperties
  <2>2. QED
    BY <1>1, <2>1
<1> HIDE DEF low, high
<1>4. /\ low \o high \in Seq(S) /\ Len(low \o high) = Len(low) + Len(high)
      /\ \A k \in 1..(Len(low) + Len(high)) :
           (low \o high)[k] = IF k <= Len(low) THEN low[k] ELSE high[k - Len(low)]
  BY <1>2, <1>3, ConcatProperties
<1>5. RemoveAt(s, i) = low \o high
  BY DEF RemoveAt, low, high
<1>6. Len(low) + Len(high) = Len(s) - 1
  BY <1>1, <1>2, <1>3
<1>7. ASSUME NEW k \in 1..(Len(s) - 1)
      PROVE  /\ k < i => (low \o high)[k] = s[k]
             /\ k >= i => (low \o high)[k] = s[k + 1]
  <2>1. CASE k < i
    BY <1>1, <1>2, <1>4, <1>6, <2>1
  <2>2. CASE k >= i
    <3>1. (low \o high)[k] = high[k - (i - 1)] /\ k - (i - 1) \in 1..(Len(s) - i)
      BY <1>1, <1>2, <1>4, <1>6, <2>2
    <3>2. high[k - (i - 1)] = s[i + (k - (i - 1))] /\ i + (k - (i - 1)) = k + 1
      BY <1>1, <1>3, <3>1
    <3>3. (low \o high)[k] = s[k + 1]
      BY <3>1, <3>2
    <3>4. QED
      BY <1>1, <2>2, <3>3
  <2>3. i \in Int /\ k \in Int
    BY <1>1
  <2>4. k < i \/ k >= i
    BY <2>3
  <2>5. QED
    BY <2>1, <2>2, <2>4
<1>8. QED
  BY <1>4, <1>5, <1>6, <1>7

\* The points are of the queries, few enough, and a field has the focus only while
\* the points give it its role: "end" is never replaced where there is no point.
FieldTypes ==
  /\ points \in Seq(Queries) /\ Len(points) <= MaxPoints
  /\ focus \in Fields \cup {"none"}
  /\ focus # "none" => IsFieldEnabled(focus, points)
  /\ text \in [Fields -> Texts]
  /\ typed \in 0..MaxTyped

\* What a field shows is a text.
LEMMA ShownIsText ==
  ASSUME NEW f, NEW pts \in Seq(Queries)
  PROVE  FieldDisplayValue(f, pts) \in Texts
<1>1. pts # <<>> => pts[1] \in Queries /\ pts[Len(pts)] \in Queries
  OBVIOUS
<1>2. Len(pts) >= 2 => pts # <<>>
  OBVIOUS
<1>3. \A of \in {{q} : q \in Queries} \cup {{}} : Shown(of) \in Texts
  BY DEF Shown, Texts
<1>4. QED
  BY <1>1, <1>2, <1>3 DEF FieldDisplayValue

\* Suggestions are of queries, the arrows on one of them, and a search of one query.
ListTypes ==
  /\ list.of \subseteq Queries /\ list.length \in Nat /\ active \in 0..list.length
  /\ timer # {} => \E q \in Queries : timer = {q}
  /\ search.stage # "none" => \E q \in Queries : search.of = {q}

\* No action makes anything else of the list, its arrows and what is awaited.
LEMMA StepListTypes ==
  ASSUME ListTypes, ListFollowsText, [Next]_vars
  PROVE  ListTypes'
<1>1. ASSUME UNCHANGED listVars PROVE ListTypes'
  BY <1>1 DEF listVars, ListTypes
<1>2. ASSUME Close PROVE ListTypes'
  <2>1. list'.of = {} /\ list'.length = 0 /\ search'.stage = "none"
    BY <1>2 DEF Close, NoSearch, NoList
  <2>2. active' = 0 /\ timer' = {}
    BY <1>2 DEF Close
  <2>3. QED
    BY <2>1, <2>2 DEF ListTypes
<1>3. CASE User
  <2>1. ASSUME NEW of \in {{q} : q \in Queries} \cup {{}}, Type(of) PROVE ListTypes'
    BY <1>2, <2>1 DEF Type, ListTypes
  <2>2. CASE Arrow
    BY <2>2 DEF Arrow, ListTypes
  <2>3. CASE Select
    BY <1>2, <2>3 DEF Select
  <2>4. CASE Escape
    BY <1>2, <2>4 DEF Escape, ListTypes
  <2>5. QED
    BY <1>1, <1>2, <1>3, <2>1, <2>2, <2>3, <2>4 DEF User, Focus, Blur, SetPoints
<1>4. CASE TimerFires
  BY <1>4 DEF TimerFires, ListTypes
<1>5. CASE Answered
  <2>1. PICK q \in Queries : search.of = {q}
    BY <1>5 DEF Answered, ListTypes
  <2>2. (CHOOSE p \in search.of : TRUE) \in Queries
    BY <2>1
  <2>3. list' = [of |-> search.of, length |-> Found[CHOOSE p \in search.of : TRUE]]
    BY <1>5 DEF Answered
  <2>4. list'.of = search.of /\ list'.length \in Nat
    BY <2>2, <2>3, SearchAssumption
  <2>5. active' = 0 /\ timer' = timer /\ search'.stage = "none"
    BY <1>5 DEF Answered, NoSearch
  <2>6. QED
    BY <2>1, <2>4, <2>5 DEF ListTypes
<1>6. CASE SearchFails
  BY <1>6 DEF SearchFails, ListTypes, NoSearch
<1>7. ASSUME \/ search' = search
             \/ /\ search.stage # "none"
                /\ \E stage : search' = [search EXCEPT !.stage = stage],
             UNCHANGED <<timer, list, active, failed>>
      PROVE  ListTypes'
  BY <1>7 DEF ListTypes, ListFollowsText
<1>8. ASSUME NEW q \in Queries, Search(q) PROVE ListTypes'
  BY <1>7, <1>8 DEF Search
<1>9. ASSUME NEW q \in Queries, TaskEnds(q) PROVE ListTypes'
  BY <1>7, <1>9 DEF TaskEnds, Tell
<1>10. CASE Tick \/ \E q \in Queries : SendRequest(q)
  BY <1>1, <1>10 DEF Tick, SendRequest
<1>11. CASE UNCHANGED vars
  BY <1>1, <1>11 DEF vars
<1>12. QED
  BY <1>3, <1>4, <1>5, <1>6, <1>8, <1>9, <1>10, <1>11 DEF Next, Page, Backend

\* Points that change keep the fields well formed.
LEMMA SyncTypes ==
  ASSUME FieldTypes, NEW pts \in Seq(Queries), NEW forced, Len(pts) <= MaxPoints,
         points' = pts, Sync(pts, forced), typed' = typed
  PROVE  FieldTypes'
<1>1. text' \in [Fields -> Texts]
  BY ShownIsText DEF FieldTypes, Sync
<1>2. focus' \in Fields \cup {"none"} /\ (focus' # "none" => IsFieldEnabled(focus', pts))
  BY DEF FieldTypes, Sync
<1>3. QED
  BY <1>1, <1>2 DEF FieldTypes, IsFieldEnabled

\* Choosing a place makes points of points, in a field that is enabled.
LEMMA ChosenTypes ==
  ASSUME NEW pts \in Seq(Queries), NEW place \in Queries, NEW f \in Fields,
         IsFieldEnabled(f, pts), NEW new \in Chosen(f, pts, place)
  PROVE  new \in Seq(Queries)
<1>1. CASE f = "start"
  <2>1. new = IF pts = <<>> THEN <<place>> ELSE [pts EXCEPT ![1] = place]
    BY <1>1 DEF Chosen
  <2>2. CASE pts = <<>>
    BY <2>1, <2>2
  <2>3. CASE pts # <<>>
    <3>1. new = [pts EXCEPT ![1] = place]
      BY <2>1, <2>3
    <3>2. Len(pts) \in Nat /\ Len(pts) # 0
      BY <2>3, EmptySeq
    <3>3. QED
      BY <3>1, <3>2
  <2>4. QED
    BY <2>2, <2>3
<1>2. CASE f = "end"
  <2>1. Len(pts) >= 1
    BY <1>2 DEF IsFieldEnabled
  <2>2. new = Append(pts, place) \/ new = [pts EXCEPT ![Len(pts)] = place]
    BY <1>2 DEF Chosen
  <2>3. CASE new = Append(pts, place)
    BY <2>3
  <2>4. CASE new = [pts EXCEPT ![Len(pts)] = place]
    BY <2>1, <2>4
  <2>5. QED
    BY <2>2, <2>3, <2>4
<1>3. CASE f = "step"
  <2>1. PICK i \in 2..Len(pts) : new = InsertAt(pts, i, place)
    BY <1>3 DEF Chosen
  <2>2. i \in 1..Len(pts)
    BY <2>1
  <2>3. QED
    BY <2>1, <2>2, InsertProperties
<1>4. QED
  BY <1>1, <1>2, <1>3 DEF Fields

\* No action makes anything else of the points, the focus and the texts.
LEMMA StepFields ==
  ASSUME FieldTypes, ListTypes, ListFollowsText, [Next]_vars
  PROVE  FieldTypes'
<1>1. ASSUME UNCHANGED fieldVars PROVE FieldTypes'
  BY <1>1 DEF fieldVars, FieldTypes, IsFieldEnabled
<1>2. ASSUME NEW f \in Fields, Focus(f) PROVE FieldTypes'
  BY <1>2 DEF Focus, FieldTypes, IsFieldEnabled
<1>3. CASE Blur
  BY <1>3, ShownIsText DEF Blur, FieldTypes, IsFieldEnabled
<1>4. CASE Select
  <2>1. focus \in Fields /\ list.length > 0
    BY <1>4 DEF Select, ListFollowsText, NoList
  <2>2. PICK place \in list.of : \E pts \in Chosen(focus, points, place) :
          Len(pts) <= MaxPoints /\ points' = pts /\ Sync(pts, focus)
    BY <1>4 DEF Select
  <2>3. PICK pts \in Chosen(focus, points, place) :
          Len(pts) <= MaxPoints /\ points' = pts /\ Sync(pts, focus)
    BY <2>2
  <2>4. points \in Seq(Queries) /\ place \in Queries /\ IsFieldEnabled(focus, points)
    BY <2>1, <2>2 DEF FieldTypes, ListTypes, Fields
  <2>5. pts \in Seq(Queries)
    BY <2>1, <2>3, <2>4, ChosenTypes
  <2>6. typed' = typed
    BY <1>4 DEF Select
  <2>7. Len(pts) <= MaxPoints /\ points' = pts /\ Sync(pts, focus)
    BY <2>3
  <2>8. QED
    BY <2>5, <2>6, <2>7, SyncTypes
<1>5. CASE Escape
  BY <1>1, <1>5, ShownIsText DEF Escape, FieldTypes, IsFieldEnabled
<1>6. ASSUME NEW of \in {{q} : q \in Queries} \cup {{}}, Type(of) PROVE FieldTypes'
  <2>1. Typed(of) \in Texts
    BY DEF Typed, Texts
  <2>2. text' \in [Fields -> Texts]
    BY <1>6, <2>1 DEF Type, FieldTypes
  <2>3. typed' \in 0..MaxTyped
    BY <1>6, SearchAssumption DEF Type, FieldTypes
  <2>4. QED
    BY <1>6, <2>2, <2>3 DEF Type, FieldTypes, IsFieldEnabled
<1>7. ASSUME NEW pts \in Elsewhere, SetPoints(pts) PROVE FieldTypes'
  BY <1>7, SyncTypes, SearchAssumption DEF SetPoints
<1>8. CASE Arrow \/ Page \/ Backend
  <2>1. UNCHANGED fieldVars
    BY <1>8 DEF Arrow, Page, TimerFires, Answered, SearchFails, Backend, Tick,
       Search, SendRequest, TaskEnds
  <2>2. QED
    BY <1>1, <2>1
<1>9. CASE UNCHANGED vars
  BY <1>1, <1>9 DEF vars
<1>10. QED
  BY <1>2, <1>3, <1>4, <1>5, <1>6, <1>7, <1>8, <1>9 DEF Next, User

\* The cache is a dictionary: one entry of each query, no more than its bound.
Entries == [of : Queries, at : Nat]

IsDictionary(s) == \A i, j \in 1..Len(s) : s[i].of = s[j].of => i = j

CacheTypes ==
  cache \in Seq(Entries) /\ IsDictionary(cache) /\ Len(cache) <= MaxEntries

\* Taking a key out leaves a dictionary without it, smaller if it was there.
LEMMA WithoutIsDictionary ==
  ASSUME CacheTypes, NEW q \in Queries
  PROVE  /\ Without(q) \in Seq(Entries) /\ IsDictionary(Without(q))
         /\ Len(Without(q)) <= MaxEntries
         /\ CachedAt(q) # {} => Len(Without(q)) = Len(cache) - 1
         /\ \A k \in 1..Len(Without(q)) : Without(q)[k].of # q
<1>1. Len(cache) \in Nat /\ DOMAIN cache = 1..Len(cache) /\ MaxEntries \in Nat
  BY SearchAssumption DEF CacheTypes
<1>2. CASE CachedAt(q) = {}
  BY <1>1, <1>2 DEF Without, CachedAt, CacheTypes
<1>3. CASE CachedAt(q) # {}
  <2>1. PICK at \in CachedAt(q) : Without(q) = RemoveAt(cache, at)
    BY <1>3 DEF Without
  <2>2. at \in 1..Len(cache) /\ cache[at].of = q
    BY <1>1 DEF CachedAt
  <2> DEFINE rest == RemoveAt(cache, at)
  <2>3. /\ rest \in Seq(Entries) /\ Len(rest) = Len(cache) - 1
        /\ \A k \in 1..(Len(cache) - 1) :
             (k < at => rest[k] = cache[k]) /\ (k >= at => rest[k] = cache[k + 1])
    BY <2>2, RemoveProperties DEF CacheTypes
  <2> HIDE DEF rest
  <2> DEFINE was(k) == IF k < at THEN k ELSE k + 1
  <2>4. ASSUME NEW k \in 1..Len(rest)
        PROVE  was(k) \in 1..Len(cache) /\ rest[k] = cache[was(k)]
    <3>1. CASE k < at
      BY <1>1, <2>2, <2>3, <3>1
    <3>2. CASE k >= at
      BY <1>1, <2>2, <2>3, <3>2
    <3>3. QED
      BY <1>1, <2>2, <2>3, <3>1, <3>2
  <2>5. \A i, j \in 1..Len(rest) : was(i) = was(j) => i = j
    BY <1>1, <2>2, <2>3
  <2> HIDE DEF was
  <2>6. IsDictionary(rest)
    BY <2>4, <2>5 DEF CacheTypes, IsDictionary
  <2>7. \A k \in 1..Len(rest) : rest[k].of # q
    BY <1>1, <2>2, <2>3 DEF CacheTypes, IsDictionary
  <2>8. QED
    BY <1>1, <1>3, <2>1, <2>3, <2>6, <2>7 DEF CacheTypes, rest
<1>4. QED
  BY <1>2, <1>3

\* Putting a key last leaves a dictionary.
LEMMA PutIsDictionary ==
  ASSUME CacheTypes, NEW q \in Queries, NEW e \in Entries, e.of = q
  PROVE  LET new == Append(Without(q), e)
         IN  new \in Seq(Entries) /\ IsDictionary(new) /\ Len(new) = Len(Without(q)) + 1
<1> DEFINE old == Without(q)
<1>1. /\ old \in Seq(Entries) /\ IsDictionary(old) /\ \A k \in 1..Len(old) : old[k].of # q
  BY WithoutIsDictionary
<1> HIDE DEF old
<1> DEFINE new == Append(old, e)
<1>2. /\ new \in Seq(Entries) /\ Len(old) \in Nat /\ Len(new) = Len(old) + 1
      /\ \A k \in 1..Len(old) : new[k] = old[k]
      /\ new[Len(old) + 1] = e
  BY <1>1
<1> HIDE DEF new
<1>3. IsDictionary(new)
  BY <1>1, <1>2 DEF IsDictionary
<1>4. QED
  BY <1>2, <1>3 DEF old, new

\* Eviction leaves a dictionary within the bound.
LEMMA EvictIsDictionary ==
  ASSUME NEW s \in Seq(Entries), IsDictionary(s)
  PROVE  Evict(s) \in Seq(Entries) /\ IsDictionary(Evict(s)) /\ Len(Evict(s)) <= MaxEntries
<1> DEFINE kept == Smaller(Len(s), MaxEntries)
<1>1. Len(s) \in Nat /\ MaxEntries \in Nat /\ \A k \in 1..Len(s) : s[k] \in Entries
  BY SearchAssumption
<1>2. kept \in 0..Len(s) /\ kept <= MaxEntries
  BY <1>1 DEF Smaller
<1>3. Evict(s) = SubSeq(s, Len(s) - kept + 1, Len(s))
  BY DEF Evict
<1> HIDE DEF kept
<1> DEFINE from == Len(s) - kept + 1
<1>4. from \in 1..(Len(s) + 1) /\ Len(s) - from + 1 = kept
  BY <1>1, <1>2
<1> HIDE DEF from
<1>5. /\ SubSeq(s, from, Len(s)) \in Seq(Entries)
      /\ Len(SubSeq(s, from, Len(s))) = IF from <= Len(s) THEN Len(s) - from + 1 ELSE 0
      /\ \A k \in 1..(Len(s) - from + 1) : SubSeq(s, from, Len(s))[k] = s[from + k - 1]
  BY <1>1, <1>4, SubSeqProperties
<1> DEFINE last == SubSeq(s, from, Len(s))
<1>6. /\ last \in Seq(Entries) /\ Len(last) = kept
      /\ \A k \in 1..kept : last[k] = s[from + k - 1]
  BY <1>1, <1>2, <1>4, <1>5
<1> HIDE DEF last
<1>7. IsDictionary(last)
  <2> SUFFICES ASSUME NEW i \in 1..kept, NEW j \in 1..kept, last[i].of = last[j].of PROVE i = j
    BY <1>6 DEF IsDictionary
  <2>1. from + i - 1 \in 1..Len(s) /\ from + j - 1 \in 1..Len(s)
    BY <1>1, <1>2, <1>4
  <2>2. s[from + i - 1].of = s[from + j - 1].of
    BY <1>6
  <2>3. from + i - 1 = from + j - 1
    BY <2>1, <2>2 DEF IsDictionary
  <2>4. QED
    BY <1>4, <2>3
<1>8. QED
  BY <1>2, <1>3, <1>6, <1>7 DEF last, from

\* The cache stays a dictionary within its bound.
LEMMA StepCache ==
  ASSUME CacheTypes, ClientTypes, [Next]_vars
  PROVE  CacheTypes'
<1>1. CASE UNCHANGED cache
  BY <1>1 DEF CacheTypes
<1>2. ASSUME NEW q \in Queries, Search(q) PROVE CacheTypes'
  <2>1. CASE \E i \in CachedAt(q) : cache' = Append(Without(q), cache[i])
    <3>1. PICK i \in CachedAt(q) : cache' = Append(Without(q), cache[i])
      BY <2>1
    <3>2. Len(cache) \in Nat /\ i \in 1..Len(cache) /\ cache[i] \in Entries /\ cache[i].of = q
      BY <3>1 DEF CacheTypes, CachedAt
    <3>3. cache' \in Seq(Entries) /\ IsDictionary(cache') /\ Len(cache') = Len(Without(q)) + 1
      BY <3>1, <3>2, PutIsDictionary
    <3>4. Len(Without(q)) = Len(cache) - 1
      BY <3>1, WithoutIsDictionary
    <3>5. QED
      BY <3>2, <3>3, <3>4 DEF CacheTypes
  <2>2. CASE cache' = Without(q)
    BY <2>2, WithoutIsDictionary DEF CacheTypes
  <2>3. QED
    BY <1>2, <2>1, <2>2 DEF Search
<1>3. ASSUME NEW q \in Queries, TaskEnds(q) PROVE CacheTypes'
  <2>1. CASE cache' = Evict(Append(Without(q), [of |-> q, at |-> now]))
    <3> DEFINE new == [of |-> q, at |-> now]
    <3>1. new \in Entries /\ new.of = q
      BY DEF Entries, ClientTypes
    <3> HIDE DEF new
    <3>2. Append(Without(q), new) \in Seq(Entries) /\ IsDictionary(Append(Without(q), new))
      BY <3>1, PutIsDictionary
    <3>3. cache' = Evict(Append(Without(q), new))
      BY <2>1 DEF new
    <3>4. QED
      BY <3>2, <3>3, EvictIsDictionary DEF CacheTypes
  <2>2. QED
    BY <1>1, <1>3, <2>1 DEF TaskEnds
<1>4. CASE User \/ Page \/ Tick \/ \E q \in Queries : SendRequest(q)
  BY <1>1, <1>4 DEF User, Focus, Blur, Arrow, Select, Escape, Type, SetPoints, Page,
     TimerFires, Answered, SearchFails, Tick, SendRequest, backendVars
<1>5. QED
  BY <1>1, <1>2, <1>3, <1>4 DEF Next, Backend, vars, backendVars

\* The clock, and the flags of the last search.
NowBounded == now \in 0..MaxTime

FlagTypes == failed \in BOOLEAN /\ givenUp \in BOOLEAN

\* The inductive invariant: what the field awaits, the slots, and all that is typed.
SearchInv ==
  ListFollowsText /\ ListTypes /\ FieldTypes /\ RateInv /\ CacheTypes /\ NowBounded /\ FlagTypes

LEMMA InitSearch == Init => SearchInv
<1> SUFFICES ASSUME Init PROVE SearchInv
  OBVIOUS
<1>1. ListTypes
  <2>1. list.of = {} /\ list.length = 0 /\ search.stage = "none"
    BY DEF Init, NoSearch, NoList
  <2>2. active = 0 /\ timer = {}
    BY DEF Init
  <2>3. QED
    BY <2>1, <2>2 DEF ListTypes
<1>2. FieldTypes
  <2>1. <<>> \in Seq(Queries) /\ Len(<<>>) = 0 /\ MaxPoints \in Nat /\ MaxTyped \in Nat
    BY SearchAssumption
  <2>2. \A f \in Fields : FieldDisplayValue(f, <<>>) \in Texts
    BY <2>1, ShownIsText
  <2>3. text \in [Fields -> Texts]
    BY <2>2 DEF Init
  <2>4. QED
    BY <2>1, <2>3 DEF Init, FieldTypes
<1>3. CacheTypes
  <2>1. <<>> \in Seq(Entries) /\ Len(<<>>) = 0 /\ MaxEntries \in Nat
    BY SearchAssumption
  <2>2. QED
    BY <2>1 DEF Init, CacheTypes, IsDictionary
<1>4. NowBounded
  BY SearchAssumption DEF Init, NowBounded
<1>5. FlagTypes
  BY DEF Init, FlagTypes
<1>6. QED
  BY <1>1, <1>2, <1>3, <1>4, <1>5, InitList, InitRate DEF SearchInv

LEMMA StepSearch == SearchInv /\ [Next]_vars => SearchInv'
<1> SUFFICES ASSUME SearchInv, [Next]_vars PROVE SearchInv'
  OBVIOUS
<1>1. UNCHANGED now \/ Tick
  BY DEF Next, User, Focus, Blur, Arrow, Select, Escape, Type, SetPoints, Page, TimerFires,
     Answered, SearchFails, Backend, Search, SendRequest, TaskEnds, vars, backendVars
<1>2. NowBounded'
  BY <1>1, SearchAssumption DEF SearchInv, NowBounded, Tick
<1>3. UNCHANGED failed \/ failed' \in BOOLEAN
  BY Zenon DEF Next, User, Focus, Blur, Arrow, Select, Escape, Type, SetPoints, Page, TimerFires,
     Answered, SearchFails, Backend, Search, SendRequest, TaskEnds, Tick, vars, listVars, Close
<1>4. \/ UNCHANGED givenUp \/ givenUp' \in BOOLEAN
      \/ givenUp' = (givenUp \/ timer # {} \/ search # NoSearch)
  BY Zenon DEF Next, User, Focus, Blur, Arrow, Select, Escape, Type, SetPoints, Page, TimerFires,
     Answered, SearchFails, Backend, Search, SendRequest, TaskEnds, Tick, vars, listVars, Close
<1>5. FlagTypes'
  BY <1>3, <1>4 DEF SearchInv, FlagTypes
<1>6. QED
  BY <1>2, <1>5, StepList, StepListTypes, StepFields, StepRate, StepCache DEF SearchInv, RateInv

\* In any history of typing, choosing and searches, the points stay within their bound,
\* the arrows on a suggestion, one query in the timer, and the cache has one entry of a
\* query and never more than its bound (itinerary.js:51-85, geocoding_client.py:121-138).
THEOREM SearchTypesHold == Spec => []TypeOK
<1>1. ASSUME SearchInv PROVE TypeOK
  <2>1. points \in BoundedSeq(Queries, MaxPoints)
    <3>1. Len(points) \in 0..MaxPoints /\ points \in [1..Len(points) -> Queries]
      BY <1>1, SearchAssumption DEF SearchInv, FieldTypes
    <3>2. QED
      BY <3>1 DEF BoundedSeq, SeqOf
  <2>2. timer \subseteq Queries /\ Cardinality(timer) <= 1
    <3>1. \A q : Cardinality({q}) = 1
      BY FS_Singleton
    <3>2. Cardinality({}) = 0
      BY FS_EmptySet
    <3>3. CASE timer = {}
      BY <3>2, <3>3
    <3>4. CASE \E q \in Queries : timer = {q}
      BY <3>1, <3>4
    <3>5. QED
      BY <1>1, <3>3, <3>4 DEF SearchInv, ListTypes
  <2>3. search.of \subseteq Queries /\ search.stage \in Stages
    BY <1>1 DEF SearchInv, ListFollowsText
  <2>4. \A q \in Queries : tasks[q].stage \in {"none", "waiting", "sent"}
    BY <1>1 DEF SearchInv, RateInv, ClientTypes
  <2>5. /\ Len(cache) <= MaxEntries
        /\ \A i, j \in DOMAIN cache : cache[i].of = cache[j].of => i = j
    BY <1>1 DEF SearchInv, CacheTypes, IsDictionary
  <2>6. nextSlot \in Nat /\ now \in 0..MaxTime
    BY <1>1 DEF SearchInv, RateInv, ClientTypes, NowBounded
  <2>7. QED
    BY <1>1, <2>1, <2>2, <2>3, <2>4, <2>5, <2>6
       DEF SearchInv, FlagTypes, ListTypes, FieldTypes, ListFollowsText, TypeOK, Stages
<1>2. QED
  BY InitSearch, StepSearch, <1>1, PTL DEF Spec

=============================================================================
