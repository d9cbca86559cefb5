--------------------------- MODULE ChargingProofs ---------------------------
(***************************************************************************)
(* What a plan of charging stops guarantees for any trips, intervals and   *)
(* autonomies, whatever stations, cells and failures: no stretch of it is  *)
(* longer than the autonomy, its stations are the nearest, and the legs    *)
(* answered are those of the user's points.                                *)
(***************************************************************************)
EXTENDS Charging, FiniteSetTheorems, FunctionTheorems, SequenceTheorems, WellFoundedInduction,
        TLAPS

-----------------------------------------------------------------------------
(* Where recharges are due. *)

IsDue(t, k) ==
  k * t.interval < t.length /\ t.length - k * t.interval > SkipTail(t.interval, t.autonomy)

DueCounts(t) == {k \in 1..Smallest(MaxStops, t.length) : IsDue(t, k)}

\* The settings are numbers.
LEMMA SettingTypes ==
  /\ CellHeight \in Nat \ {0, 1} /\ SearchRadius \in Nat \ {0} /\ MaxDetour \in Nat \ {0}
  /\ PageSize \in Nat \ {0} /\ MaxPages \in Nat \ {0} /\ MaxFetches \in Nat \ {0}
  /\ MaxStops \in Nat \ {0} /\ TTL \in Nat /\ MaxTime \in Nat
  BY ChargingAssumption

\* The numbers of a trip.
LEMMA TripTypes ==
  ASSUME NEW t \in Trips
  PROVE  /\ t.length \in Nat \ {0} /\ t.interval \in Nat \ {0} /\ t.autonomy \in Nat \ {0}
         /\ t.turn \in Nat \ {0}
         /\ Smallest(MaxStops, t.length) \in Nat \ {0}
         /\ SkipTail(t.interval, t.autonomy) \in Int
<1>1. /\ t.length \in Nat \ {0} /\ t.interval \in Nat \ {0} /\ t.autonomy \in Nat \ {0}
      /\ t.turn \in Nat \ {0}
  BY ChargingAssumption
<1>2. QED
  BY <1>1, SettingTypes DEF Smallest, Largest, SkipTail

\* Nothing is due after a recharge that is not.
LEMMA DueIsClosed ==
  ASSUME NEW t \in Trips, NEW k \in Nat, NEW j \in Nat, j <= k, IsDue(t, k)
  PROVE  IsDue(t, j)
<1>1. t.interval \in Nat /\ t.length \in Nat /\ SkipTail(t.interval, t.autonomy) \in Int
  BY TripTypes
<1>2. j * t.interval <= k * t.interval /\ j * t.interval \in Nat /\ k * t.interval \in Nat
  BY <1>1
<1>3. QED
  BY <1>1, <1>2 DEF IsDue

\* The recharges due are the first ones, up to the cap.
LEMMA DueIsPrefix ==
  ASSUME NEW t \in Trips
  PROVE  \E n \in 0..Smallest(MaxStops, t.length) :
           /\ DueCounts(t) = 1..n
           /\ n = Smallest(MaxStops, t.length) \/ ~IsDue(t, n + 1)
<1> DEFINE most == Smallest(MaxStops, t.length)
           n == Cardinality(DueCounts(t))
<1>1. most \in Nat
  BY TripTypes
<1>2. DueCounts(t) = {k \in 1..most : IsDue(t, k)}
  BY DEF DueCounts
<1> HIDE DEF most
<1>3. IsFiniteSet(1..most) /\ Cardinality(1..most) = most
  BY <1>1, FS_Interval
<1>4. IsFiniteSet(DueCounts(t)) /\ n <= most
  <2>1. DueCounts(t) \in SUBSET (1..most)
    BY <1>2
  <2>2. QED
    BY <1>3, <2>1, FS_Subset
<1>5. n \in Nat
  BY <1>4, FS_CardinalityType
<1> HIDE DEF n
<1>6. ASSUME NEW k \in DueCounts(t) PROVE k \in 1..n
  <2>1. k \in 1..most /\ IsDue(t, k)
    BY <1>2
  <2>2. \A j \in 1..k : j \in DueCounts(t)
    BY <1>1, <1>2, <2>1, DueIsClosed
  <2>3. Cardinality(1..k) = k
    BY <1>1, <2>1, FS_Interval
  <2>4. Cardinality(1..k) <= n
    BY <1>4, <2>2, FS_Subset DEF n
  <2>5. QED
    BY <1>1, <1>5, <2>1, <2>3, <2>4
<1>7. IsFiniteSet(1..n) /\ Cardinality(1..n) = n
  BY <1>5, FS_Interval
<1>8. DueCounts(t) = 1..n
  BY <1>6, <1>7, FS_Subset DEF n
<1>9. n = most \/ ~IsDue(t, n + 1)
  BY <1>1, <1>2, <1>4, <1>5, <1>8
<1>10. QED
  BY <1>1, <1>4, <1>5, <1>8, <1>9 DEF most

\* The targets: as many intervals from the start.
LEMMA TargetsAre ==
  ASSUME NEW t \in Trips
  PROVE  \E n \in 0..Smallest(MaxStops, t.length) :
           /\ StopTargets(t) = [k \in 1..n |-> k * t.interval]
           /\ n = Smallest(MaxStops, t.length) \/ ~IsDue(t, n + 1)
<1>1. PICK n \in 0..Smallest(MaxStops, t.length) :
        /\ DueCounts(t) = 1..n
        /\ n = Smallest(MaxStops, t.length) \/ ~IsDue(t, n + 1)
  BY DueIsPrefix
<1>2. n \in Nat
  BY <1>1, TripTypes
<1>3. Cardinality(1..n) = n
  BY <1>2, FS_Interval
<1>4. StopTargets(t) = [k \in 1..Cardinality(DueCounts(t)) |-> k * t.interval]
  BY DEF StopTargets, DueCounts, IsDue
<1>5. QED
  BY <1>1, <1>3, <1>4

\* Products.
LEMMA OneMore ==
  ASSUME NEW n \in Nat, NEW i \in Nat \ {0}
  PROVE  n * i \in Nat /\ n * i >= n /\ (n + 1) * i = n * i + i
OBVIOUS

\* What is left after the last recharge, when no cap cut them, is within the autonomy.
LEMMA TailIsReached ==
  ASSUME NEW t \in Trips, t.interval <= t.autonomy, NEW n \in Nat, n < MaxStops,
         n <= t.length,
         n = Smallest(MaxStops, t.length) \/ ~IsDue(t, n + 1)
  PROVE  t.length - n * t.interval <= t.autonomy
<1>1. t.interval \in Nat \ {0} /\ t.length \in Nat /\ t.autonomy \in Nat
  BY TripTypes
<1>2. /\ n * t.interval \in Nat /\ n * t.interval >= n
      /\ (n + 1) * t.interval = n * t.interval + t.interval
  BY <1>1, OneMore
<1>3. CASE n = Smallest(MaxStops, t.length)
  <2>1. n = t.length
    BY <1>1, <1>3, SettingTypes DEF Smallest
  <2>2. QED
    BY <1>1, <1>2, <2>1
<1>4. CASE ~IsDue(t, n + 1)
  <2>1. \/ (n + 1) * t.interval >= t.length
        \/ t.length - (n + 1) * t.interval <= SkipTail(t.interval, t.autonomy)
    BY <1>1, <1>2, <1>4, TripTypes DEF IsDue
  <2>2. SkipTail(t.interval, t.autonomy) <= t.autonomy - t.interval
    BY <1>1 DEF SkipTail, Smallest, Largest
  <2>3. SkipTail(t.interval, t.autonomy) \in Int
    BY TripTypes
  <2> HIDE DEF SkipTail
  <2>4. QED
    BY <1>1, <1>2, <2>1, <2>2, <2>3
<1>5. QED
  BY <1>3, <1>4

\* The stretches between the marks of a trip.
LEMMA StretchesAreReached ==
  ASSUME NEW t \in Trips, t.interval <= t.autonomy, Len(StopTargets(t)) < MaxStops,
         NEW marks, marks = << 0 >> \o StopTargets(t) \o <<t.length>>,
         NEW i \in 1..(Len(marks) - 1)
  PROVE  marks[i + 1] - marks[i] <= t.autonomy
<1>1. PICK n \in 0..Smallest(MaxStops, t.length) :
        /\ StopTargets(t) = [k \in 1..n |-> k * t.interval]
        /\ n = Smallest(MaxStops, t.length) \/ ~IsDue(t, n + 1)
  BY TargetsAre
<1> DEFINE step == t.interval
           targets == StopTargets(t)
           first == <<0>> \o targets
<1>2. /\ step \in Nat \ {0} /\ t.length \in Nat /\ t.autonomy \in Nat /\ step <= t.autonomy
      /\ n \in Nat /\ n <= t.length /\ MaxStops \in Nat
  BY <1>1, TripTypes, SettingTypes DEF Smallest
<1>3. \A k \in Nat : k * step \in Nat /\ (k + 1) * step = k * step + step
  BY <1>2, OneMore
<1> HIDE DEF step
<1>4. /\ targets \in Seq(Nat) /\ Len(targets) = n
      /\ \A k \in 1..n : targets[k] = k * step
  <2>1. targets = [k \in 1..n |-> k * step]
    BY <1>1 DEF step
  <2>2. \A k \in 1..n : k * step \in Nat
    BY <1>2, <1>3
  <2> HIDE DEF targets
  <2>3. targets \in [1..n -> Nat]
    BY <2>1, <2>2
  <2>4. QED
    BY <1>2, <2>1, <2>3
<1>5. t.length - n * step <= t.autonomy
  BY <1>1, <1>2, <1>4, TailIsReached DEF step
<1>6. <<0>> \in Seq(Nat) /\ Len(<<0>>) = 1 /\ <<0>>[1] = 0
  OBVIOUS
<1> DEFINE last == <<t.length>>
<1>7. last \in Seq(Nat) /\ Len(last) = 1 /\ last[1] = t.length
  BY <1>2
<1> HIDE DEF last
<1> HIDE DEF targets
<1>8. /\ first \in Seq(Nat) /\ Len(first) = n + 1
      /\ \A k \in 1..(n + 1) : first[k] = (k - 1) * step
  <2>1. /\ first \in Seq(Nat) /\ Len(first) = n + 1
        /\ \A k \in 1..(n + 1) : first[k] = IF k <= 1 THEN <<0>>[k] ELSE targets[k - 1]
    BY <1>2, <1>4, <1>6, ConcatProperties
  <2>2. first[1] = 0 /\ 0 * step = 0
    BY <1>2, <1>6, <2>1
  <2>3. \A k \in 2..(n + 1) : first[k] = (k - 1) * step
    BY <1>2, <1>4, <2>1
  <2>4. QED
    BY <1>2, <2>1, <2>2, <2>3
<1> HIDE DEF first
<1>9. /\ Len(marks) = n + 2 /\ marks[n + 2] = t.length
      /\ \A k \in 1..(n + 1) : marks[k] = (k - 1) * step
  <2>1. marks = first \o last
    BY DEF first, targets, last
  <2>2. /\ Len(marks) = Len(first) + Len(last)
        /\ \A k \in 1..(Len(first) + Len(last)) :
             marks[k] = IF k <= Len(first) THEN first[k] ELSE last[k - Len(first)]
    BY ONLY <1>7, <1>8, <2>1, ConcatProperties
  <2>3. Len(first) + Len(last) = n + 2
    BY <1>2, <1>7, <1>8
  <2>4. marks[n + 2] = last[1]
    <3>1. n + 2 \in 1..(n + 2) /\ ~(n + 2 <= n + 1) /\ (n + 2) - (n + 1) = 1
      BY <1>2
    <3>2. QED
      BY <1>8, <2>2, <2>3, <3>1
  <2>5. ASSUME NEW k \in 1..(n + 1) PROVE marks[k] = (k - 1) * step
    <3>1. k \in 1..(n + 2) /\ k <= Len(first)
      BY <1>2, <1>8
    <3>2. marks[k] = first[k]
      BY <2>2, <2>3, <3>1
    <3>3. QED
      BY <1>8, <3>2
  <2>6. QED
    BY <1>7, <2>2, <2>3, <2>4, <2>5
<1>10. CASE i = n + 1
  <2>1. i \in 1..(n + 1) /\ i - 1 = n /\ i + 1 = n + 2
    BY <1>2, <1>10
  <2>2. marks[i] = n * step
    <3>1. marks[i] = (i - 1) * step
      BY <1>9, <2>1
    <3>2. QED
      BY <2>1, <3>1
  <2>3. marks[i + 1] = t.length
    BY <1>9, <2>1
  <2>4. QED
    BY <1>5, <2>2, <2>3
<1>11. CASE i # n + 1
  <2>1. i \in 1..n
    BY <1>2, <1>9, <1>11
  <2>2. marks[i] = (i - 1) * step /\ marks[i + 1] = i * step
    <3>1. i \in 1..(n + 1) /\ i + 1 \in 1..(n + 1) /\ (i + 1) - 1 = i
      BY <1>2, <2>1
    <3>2. marks[i] = (i - 1) * step /\ marks[i + 1] = ((i + 1) - 1) * step
      BY <1>9, <3>1
    <3>3. QED
      BY <3>1, <3>2
  <2>3. i * step = (i - 1) * step + step /\ (i - 1) * step \in Nat
    <3> DEFINE j == i - 1
    <3>1. j \in Nat /\ i = j + 1
      BY <1>2, <2>1
    <3> HIDE DEF j
    <3>2. QED
      BY <1>3, <3>1 DEF j
  <2>4. QED
    BY <1>2, <2>2, <2>3
<1>12. QED
  BY <1>10, <1>11

-----------------------------------------------------------------------------
(* The trip of a request is its own all along, and its targets are set once. *)

Planned(q) ==
  /\ {"phase", "trip", "targets"} \subseteq DOMAIN q
  /\ q.trip \in Trips
  /\ q.phase = "new" => q.targets = <<>>
  /\ q.phase \notin {"new", "refused"} =>
       q.trip.interval <= q.trip.autonomy /\ q.targets = StopTargets(q.trip)

PlanInv ==
  /\ DOMAIN requests = Requests
  /\ \A r \in Requests : Planned(requests[r])

LEMMA InitPlan == Init => PlanInv
<1> SUFFICES ASSUME Init PROVE PlanInv
  OBVIOUS
<1>1. DOMAIN requests = Requests
  BY DEF Init
<1>2. ASSUME NEW r \in Requests PROVE Planned(requests[r])
  <2>1. PICK t \in Trips : requests[r] = Request(t)
    BY DEF Init
  <2>2. QED
    BY <2>1 DEF Planned, Request
<1>3. QED
  BY <1>1, <1>2 DEF PlanInv

LEMMA BecomePlanned ==
  ASSUME PlanInv, NEW r \in Requests, NEW q, Planned(q), Become(r, q)
  PROVE  PlanInv'
BY DEF PlanInv, Become

\* Once it is planned, a request goes on with the same trip and targets.
Continues(q, next) ==
  /\ {"phase", "trip", "targets"} \subseteq DOMAIN next
  /\ q.phase \notin {"new", "refused"} /\ next.phase # "new"
  /\ next.trip = q.trip /\ next.targets = q.targets

LEMMA ContinuesPlanned ==
  ASSUME NEW q, NEW next, Planned(q), Continues(q, next)
  PROVE  Planned(next)
BY DEF Planned, Continues

LEMMA StepPlan == PlanInv /\ [Next]_vars => PlanInv'
<1> SUFFICES ASSUME PlanInv, [Next]_vars PROVE PlanInv'
  OBVIOUS
<1>1. ASSUME NEW r \in Requests, Plan(r) PROVE PlanInv'
  <2> DEFINE q == requests[r]
             targets == StopTargets(q.trip)
             keys == UNION {CellsAt(Place(q.trip, targets[i]), SearchRadius) : i \in DOMAIN targets}
             wave == Wave(keys)
  <2>1. Planned(q) /\ q.phase = "new"
    BY <1>1 DEF PlanInv, Plan
  <2>2. CASE Become(r, [q EXCEPT !.phase = "refused"])
    <3>1. Planned([q EXCEPT !.phase = "refused"])
      BY <2>1 DEF Planned
    <3>2. QED
      BY <2>2, <3>1, BecomePlanned
  <2>3. CASE /\ q.trip.interval <= q.trip.autonomy /\ targets = <<>>
             /\ Become(r, [q EXCEPT !.phase = "no stops"])
    <3>1. Planned([q EXCEPT !.phase = "no stops"])
      BY <2>1, <2>3 DEF Planned
    <3>2. QED
      BY <2>3, <3>1, BecomePlanned
  <2>4. CASE /\ q.trip.interval <= q.trip.autonomy
             /\ Become(r, [q EXCEPT !.phase = "prefetch", !.targets = targets, !.wave = wave])
    <3> HIDE DEF wave
    <3>1. Planned([q EXCEPT !.phase = "prefetch", !.targets = targets, !.wave = wave])
      BY <2>1, <2>4 DEF Planned
    <3>2. QED
      BY <2>4, <3>1, BecomePlanned
  <2>5. QED
    BY <1>1, <2>2, <2>3, <2>4 DEF Plan
<1>2. ASSUME NEW r \in Requests, NEW next, Continues(requests[r], next), Become(r, next)
      PROVE  PlanInv'
  BY <1>2, ContinuesPlanned, BecomePlanned DEF PlanInv
<1>3. ASSUME NEW r \in Requests
      PROVE  {"phase", "trip", "targets"} \subseteq DOMAIN requests[r]
  BY DEF PlanInv, Planned
<1>4. ASSUME NEW r \in Requests, NEW c, FetchPage(r, c) PROVE PlanInv'
  <2> DEFINE q == requests[r]
             next == [q EXCEPT !.wave[c] = PageGot(@, c)]
  <2>1. q.phase \in {"prefetch", "near"} /\ Become(r, next)
    BY <1>4 DEF FetchPage, Waiting
  <2>2. Continues(q, next)
    BY <1>3, <2>1 DEF Continues
  <2>3. QED
    BY <1>2, <2>1, <2>2
<1>5. ASSUME NEW r \in Requests, FetchFails(r) PROVE PlanInv'
  <2> DEFINE q == requests[r]
             next == [q EXCEPT !.phase = "unavailable", !.wave = NoWave]
  <2>1. q.phase \in {"prefetch", "near"} /\ Become(r, next)
    BY <1>5 DEF FetchFails, Waiting
  <2>2. Continues(q, next)
    BY <1>3, <2>1 DEF Continues
  <2>3. QED
    BY <1>2, <2>1, <2>2
<1>6. ASSUME NEW r \in Requests, Prefetched(r) PROVE PlanInv'
  <2> DEFINE q == requests[r]
             next == [q EXCEPT !.phase = "look", !.wave = NoWave]
  <2>1. q.phase = "prefetch" /\ Become(r, next)
    BY <1>6 DEF Prefetched
  <2>2. Continues(q, next)
    BY <1>3, <2>1 DEF Continues
  <2>3. QED
    BY <1>2, <2>1, <2>2
<1>7. ASSUME NEW r \in Requests, StoreFails(r) PROVE PlanInv'
  <2> DEFINE q == requests[r]
             next == [q EXCEPT !.phase = "failed", !.wave = NoWave]
  <2>1. q.phase \in {"prefetch", "near"} /\ Become(r, next)
    BY <1>7 DEF StoreFails, Gathered
  <2>2. Continues(q, next)
    BY <1>3, <2>1 DEF Continues
  <2>3. QED
    BY <1>2, <2>1, <2>2
<1>8. ASSUME NEW r \in Requests, Look(r) PROVE PlanInv'
  <2> DEFINE q == requests[r]
             wave == Wave(CellsAt(Due(q), q.radius))
             next == [q EXCEPT !.phase = "near", !.wave = wave]
  <2>1. q.phase = "look" /\ Become(r, next)
    BY <1>8 DEF Look
  <2> HIDE DEF wave
  <2>2. Continues(q, next)
    BY <1>3, <2>1 DEF Continues
  <2>3. QED
    BY <1>2, <2>1, <2>2
<1>9. ASSUME NEW r \in Requests, Choose(r) PROVE PlanInv'
  <2> DEFINE q == requests[r]
             wider == [q EXCEPT !.phase = "look", !.radius = MaxDetour, !.wave = NoWave]
  <2>1. q.phase = "near"
    BY <1>9 DEF Choose
  <2>2. ASSUME NEW found PROVE Continues(q, Settled(q, found))
    <3> DEFINE plan == Append(q.plan, found)
               phase == IF ~(Len(plan) = Len(q.targets)) THEN "look"
                        ELSE IF \A i \in DOMAIN plan : plan[i] = {} THEN "no stops" ELSE "route"
               next == [q EXCEPT !.plan = plan, !.wave = NoWave, !.radius = SearchRadius,
                                 !.phase = phase]
    <3>1. Settled(q, found) = next
      BY DEF Settled
    <3>2. phase \in {"look", "no stops", "route"}
      OBVIOUS
    <3> HIDE DEF plan, phase
    <3>3. Continues(q, next)
      BY <1>3, <2>1, <3>2 DEF Continues
    <3>4. QED
      BY <3>1, <3>3
  <2>3. Continues(q, wider)
    BY <1>3, <2>1 DEF Continues
  <2>4. (\E found : Become(r, Settled(q, found))) \/ Become(r, wider)
    BY <1>9 DEF Choose
  <2>5. QED
    BY <1>2, <2>2, <2>3, <2>4
<1>10. ASSUME NEW r \in Requests, Routed(r) PROVE PlanInv'
  <2> DEFINE q == requests[r]
             legs == UserLegs(InterleaveStops(q.trip, Stops(q)))
             whole == [q EXCEPT !.phase = "planned", !.legs = legs]
             bare == [q EXCEPT !.phase = "planned"]
             failed == [q EXCEPT !.phase = "failed"]
  <2>1. q.phase = "route" /\ (Become(r, whole) \/ Become(r, bare) \/ Become(r, failed))
    BY <1>10 DEF Routed
  <2> HIDE DEF legs
  <2>2. Continues(q, whole) /\ Continues(q, bare) /\ Continues(q, failed)
    BY <1>3, <2>1 DEF Continues
  <2>3. QED
    BY <1>2, <2>1, <2>2
<1>11. ASSUME NEW r \in Requests, NoBoundaries(r) PROVE PlanInv'
  <2> DEFINE q == requests[r]
             next == [q EXCEPT !.phase = "no stops"]
  <2>1. q.phase = "route" /\ Become(r, next)
    BY <1>11 DEF NoBoundaries
  <2>2. Continues(q, next)
    BY <1>3, <2>1 DEF Continues
  <2>3. QED
    BY <1>2, <2>1, <2>2
<1>12. ASSUME UNCHANGED requests PROVE PlanInv'
  BY <1>12 DEF PlanInv
<1>13. ASSUME NEW r \in Requests, Step(r) PROVE PlanInv'
  BY <1>1, <1>4, <1>5, <1>6, <1>7, <1>8, <1>9, <1>10, <1>11, <1>13 DEF Step
<1>14. QED
  BY <1>12, <1>13 DEF Next, Tick, vars

\* When every recharge due was placed, and no cap cut them, no stretch of a trip
\* is longer than the autonomy, for any interval, autonomy and length
\* (charging_plan.py:53-78).
THEOREM PlanIsWithinAutonomy == Spec => []PlanKeepsAutonomy
<1>1. PlanInv => PlanKeepsAutonomy
  <2> SUFFICES ASSUME PlanInv, NEW r \in Requests,
                      requests[r].phase \in {"planned", "no stops"},
                      Len(requests[r].targets) < MaxStops
               PROVE  LET marks == <<0>> \o requests[r].targets \o <<requests[r].trip.length>>
                      IN  \A i \in 1..(Len(marks) - 1) :
                            marks[i + 1] - marks[i] <= requests[r].trip.autonomy
    BY DEF PlanKeepsAutonomy
  <2> DEFINE q == requests[r]
             t == q.trip
  <2>1. t \in Trips /\ t.interval <= t.autonomy /\ q.targets = StopTargets(t)
    BY DEF PlanInv, Planned
  <2>2. QED
    BY <2>1, StretchesAreReached
<1>2. QED
  BY InitPlan, StepPlan, <1>1, PTL DEF Spec

-----------------------------------------------------------------------------
(* What is known of the source while a request is answered. *)

\* The rows of a source in a cell.
RowsOf(src, cell) == {s \in src : Inside(s, cell)}

\* A cell that the page budget does not read whole.
Dense(src, cell) == Cardinality(RowsOf(src, cell)) > MaxPages * PageSize

\* The first rows in the order of the source.
FirstRows(all, n) == {s \in all : Rank(all, s) < n}

\* The pages read of a cell are the first ones; when it is done it lacks nothing, unless
\* it is dense.
FetchRight(f, src, cell) ==
  /\ {"page", "rows", "done"} \subseteq DOMAIN f
  /\ f.page \in 1..MaxPages /\ f.rows \subseteq RowsOf(src, cell)
  /\ f.done \in BOOLEAN
  /\ ~f.done => f.rows = FirstRows(RowsOf(src, cell), (f.page - 1) * PageSize)
  /\ f.done /\ ~Dense(src, cell) => f.rows = RowsOf(src, cell)

WaveRight(wave, src) ==
  /\ DOMAIN wave \subseteq Cells
  /\ \A c \in DOMAIN wave : FetchRight(wave[c], src, c)

\* All the stations of a cell in the cache are known, unless it is dense.
EntryRight(c, src, cs, kn, t) ==
  /\ c \in Cells /\ cs[c] \in 0..t
  /\ ~Dense(src, c) => RowsOf(src, c) \subseteq kn

CacheRight(src, cs, kn, t) ==
  /\ kn \subseteq src
  /\ \A c \in DOMAIN cs : EntryRight(c, src, cs, kn, t)

Fields == {"phase", "trip", "targets", "radius", "wave", "plan", "legs"}

\* Where a request stands in its plan: a wider radius is wider, and a station is looked
\* for only while a target is left.
ShapeRight(q, src) ==
  /\ Fields \subseteq DOMAIN q
  /\ q.phase \in Phases
  /\ q.radius = SearchRadius \/ (q.radius = MaxDetour /\ SearchRadius < MaxDetour)
  /\ q.plan \in Seq(SUBSET src)
  /\ q.phase \in {"new", "refused"} => q.plan = <<>> /\ q.targets = <<>>
  /\ q.phase = "prefetch" => q.plan = <<>> /\ q.targets # <<>>
  /\ q.phase \in {"look", "near"} => Len(q.plan) < Len(q.targets)
  /\ Len(q.plan) <= Len(q.targets)

\* While a station is looked for, the cells around the target are in the cache or asked for.
Covered(q, cs) ==
  q.phase = "near" =>
    \A c \in CellsAt(Due(q), q.radius) : c \in DOMAIN cs \/ c \in DOMAIN q.wave

\* The parts of PlacementIsRight.
Far(q, i, s) == Distance(Position[s], Place(q.trip, q.targets[i]))

Free(q, i, src) ==
  {s \in src : /\ Far(q, i, s) <= Largest(SearchRadius, MaxDetour)
               /\ \A j \in 1..(i - 1) : s \notin q.plan[j]}

Sure(q, i, src, cs) ==
  {s \in Free(q, i, src) : /\ Far(q, i, s) <= BoxSpan[Largest(SearchRadius, MaxDetour)]
                           /\ \A c \in DOMAIN cs : Inside(s, c) => ~Dense(src, c)}

Placed(q, i, src, cs) ==
  \/ q.plan[i] = {} /\ Sure(q, i, src, cs) = {}
  \/ \E s \in Free(q, i, src) :
       q.plan[i] = {s} /\ \A o \in Sure(q, i, src, cs) : Far(q, i, s) <= Far(q, i, o)

PlanRight(q, src, cs) == \A i \in DOMAIN q.plan : Placed(q, i, src, cs)

RequestRight(q, src, cs) ==
  /\ ShapeRight(q, src) /\ WaveRight(q.wave, src)
  /\ Covered(q, cs) /\ PlanRight(q, src, cs)

\* The inductive invariant.
ChargingInv ==
  /\ source \in Sources /\ now \in 0..MaxTime
  /\ CacheRight(source, cells, known, now)
  /\ PlanInv
  /\ \A r \in Requests : RequestRight(requests[r], source, cells)

-----------------------------------------------------------------------------
(* Pages. *)

\* The rows are numbered from 0 in the order of the source.
LEMMA RanksAreBelow ==
  ASSUME NEW all \in SUBSET Nat, IsFiniteSet(all), NEW s \in all
  PROVE  Rank(all, s) \in 0..(Cardinality(all) - 1)
<1> DEFINE before == {o \in all : o < s}
<1>1. before \in SUBSET all /\ s \notin before
  OBVIOUS
<1>2. /\ IsFiniteSet(before) /\ Cardinality(before) <= Cardinality(all)
      /\ Cardinality(all) # Cardinality(before)
  BY <1>1, FS_Subset
<1>3. Cardinality(before) \in Nat /\ Cardinality(all) \in Nat
  BY <1>2, FS_CardinalityType
<1>4. QED
  BY <1>2, <1>3 DEF Rank

\* A row further on has a higher rank.
LEMMA RanksGrow ==
  ASSUME NEW all \in SUBSET Nat, IsFiniteSet(all), NEW s \in all, NEW o \in all, o < s
  PROVE  Rank(all, o) < Rank(all, s)
<1> DEFINE before(x) == {e \in all : e < x}
<1>1. before(o) \in SUBSET before(s) /\ o \in before(s) /\ o \notin before(o)
  <2>1. \A e \in all : e < o => e < s
    OBVIOUS
  <2>2. o \in before(s) /\ o \notin before(o)
    OBVIOUS
  <2>3. before(o) \subseteq before(s)
    BY <2>1
  <2>4. QED
    BY <2>2, <2>3
<1>2. before(s) \in SUBSET all
  OBVIOUS
<1>3. IsFiniteSet(before(s))
  BY <1>2, FS_Subset
<1>4. /\ IsFiniteSet(before(o)) /\ Cardinality(before(o)) <= Cardinality(before(s))
      /\ Cardinality(before(o)) # Cardinality(before(s))
  BY <1>1, <1>3, FS_Subset
<1>5. Cardinality(before(o)) \in Nat /\ Cardinality(before(s)) \in Nat
  BY <1>3, <1>4, FS_CardinalityType
<1>6. QED
  BY <1>4, <1>5 DEF Rank

\* Every number below the count is the rank of a row.
LEMMA RanksAreReached ==
  ASSUME NEW all \in SUBSET Nat, IsFiniteSet(all), NEW k \in 0..(Cardinality(all) - 1)
  PROVE  \E s \in all : Rank(all, s) = k
<1> DEFINE n == Cardinality(all)
           numbers == 0..(n - 1)
           f == [s \in all |-> Rank(all, s)]
<1>1. n \in Nat
  BY FS_CardinalityType
<1>2. IsFiniteSet(numbers) /\ Cardinality(numbers) = n
  BY <1>1, FS_Interval
<1>3. \A s \in all : Rank(all, s) \in numbers
  BY RanksAreBelow
<1>4. ASSUME NEW s \in all, NEW o \in all, Rank(all, s) = Rank(all, o) PROVE s = o
  <2>1. Rank(all, s) \in Int /\ Rank(all, o) \in Int
    BY <1>3
  <2>2. ~(s < o) /\ ~(o < s)
    BY <1>4, <2>1, RanksGrow
  <2>3. QED
    BY <2>2
<1> HIDE DEF n, numbers
<1>5. f \in [all -> numbers]
  BY <1>3
<1>6. IsInjective(f)
  BY <1>4 DEF IsInjective
<1>7. f \in Injection(all, numbers)
  BY <1>5, <1>6 DEF Injection
<1> HIDE DEF f
<1>8. f \in Surjection(all, numbers)
  <2>1. Cardinality(all) = Cardinality(numbers)
    BY <1>2 DEF n
  <2>2. QED
    BY <1>2, <1>7, <2>1, FS_Injection
<1>9. \E s \in all : f[s] = k
  BY <1>8 DEF Surjection, numbers, n
<1>10. QED
  BY <1>9 DEF f

\* A page holds the rows of its ranks.
LEMMA PageIs ==
  ASSUME NEW all \in SUBSET Nat, IsFiniteSet(all), NEW p \in Nat \ {0}, NEW s \in all
  PROVE  s \in Page(all, p) <=>
           (p - 1) * PageSize <= Rank(all, s) /\ Rank(all, s) < p * PageSize
<1> DEFINE rank == Rank(all, s)
           k == p - 1
<1>1. rank \in Nat /\ PageSize \in Nat \ {0} /\ k \in Nat
  <2>1. PageSize \in Nat \ {0}
    BY SettingTypes
  <2>2. rank \in Nat /\ k \in Nat
    BY RanksAreBelow
  <2>3. QED
    BY <2>1, <2>2
<1>2. s \in Page(all, p) <=> rank \div PageSize = k
  BY DEF Page
<1>3. p * PageSize = k * PageSize + PageSize
  BY <1>1
<1> HIDE DEF rank, k
<1>4. k * PageSize <= rank /\ rank < k * PageSize + PageSize => rank \div PageSize = k
  BY <1>1
<1>5. rank \div PageSize = k => k * PageSize <= rank /\ rank < k * PageSize + PageSize
  <2>1. /\ PageSize * (rank \div PageSize) <= rank
        /\ rank < PageSize * (rank \div PageSize) + PageSize
    BY <1>1
  <2>2. PageSize * k = k * PageSize
    BY <1>1
  <2>3. QED
    BY <2>1, <2>2
<1>6. QED
  BY <1>2, <1>3, <1>4, <1>5 DEF rank, k

\* A page that is not full is the last.
LEMMA ShortPageIsLast ==
  ASSUME NEW all \in SUBSET Nat, IsFiniteSet(all), NEW p \in Nat \ {0},
         Cardinality(Page(all, p)) < PageSize
  PROVE  Cardinality(all) < p * PageSize
<1> DEFINE n == Cardinality(all)
           a == (p - 1) * PageSize
           b == p * PageSize
           rows == Page(all, p)
           ranks == a..(b - 1)
           f == [s \in rows |-> Rank(all, s)]
<1>1. n \in Nat /\ a \in Nat /\ b \in Nat /\ PageSize \in Nat \ {0} /\ b = a + PageSize
  <2>1. PageSize \in Nat \ {0}
    BY SettingTypes
  <2>2. \A k \in Nat : k * PageSize \in Nat /\ (k + 1) * PageSize = k * PageSize + PageSize
    BY <2>1
  <2> DEFINE k == p - 1
  <2>3. k \in Nat /\ p = k + 1
    OBVIOUS
  <2> HIDE DEF k
  <2>4. QED
    BY <2>1, <2>2, <2>3, FS_CardinalityType DEF k
<1>2. rows \subseteq all /\ IsFiniteSet(rows)
  <2>1. rows \in SUBSET all
    BY DEF Page
  <2>2. QED
    BY <2>1, FS_Subset
<1>3. \A s \in all : s \in rows <=> a <= Rank(all, s) /\ Rank(all, s) < b
  BY PageIs
<1>4. \A s \in all : Rank(all, s) \in Int
  BY RanksAreBelow
<1>5. SUFFICES ASSUME n >= b PROVE FALSE
  BY <1>1
<1>6. \A k \in ranks : \E s \in all : Rank(all, s) = k
  <2>1. \A k \in ranks : k \in 0..(n - 1)
    BY <1>1, <1>5
  <2>2. QED
    BY <2>1, RanksAreReached
<1> HIDE DEF rows, a, b, n
<1>7. IsFiniteSet(ranks) /\ Cardinality(ranks) = PageSize
  BY <1>1, FS_Interval
<1>8. f \in Surjection(rows, ranks)
  <2>1. \A s \in rows : Rank(all, s) \in ranks
    BY <1>1, <1>2, <1>3, <1>4
  <2>2. f \in [rows -> ranks]
    BY <2>1
  <2>3. \A k \in ranks : \E s \in rows : Rank(all, s) = k
    BY <1>1, <1>3, <1>6
  <2> HIDE DEF ranks
  <2>4. \A k \in ranks : \E s \in rows : f[s] = k
    BY <2>3
  <2>5. QED
    BY <2>2, <2>4 DEF Surjection
<1> HIDE DEF f, ranks
<1>9. Cardinality(ranks) <= Cardinality(rows)
  BY <1>2, <1>8, FS_Surjection
<1>10. Cardinality(rows) \in Nat
  BY <1>2, FS_CardinalityType
<1>11. QED
  BY <1>1, <1>7, <1>9, <1>10 DEF rows

-----------------------------------------------------------------------------
(* Reading a cell. *)

\* The source is finite, and its stations are numbered.
LEMMA SourceTypes ==
  ASSUME NEW src \in Sources, NEW cell
  PROVE  /\ src \subseteq Stations
         /\ RowsOf(src, cell) \in SUBSET Nat /\ RowsOf(src, cell) \subseteq src
         /\ IsFiniteSet(RowsOf(src, cell)) /\ Cardinality(RowsOf(src, cell)) \in Nat
<1>1. src \in SUBSET Stations /\ Stations \subseteq Nat /\ IsFiniteSet(Stations)
  BY ChargingAssumption
<1>2. RowsOf(src, cell) \in SUBSET Stations /\ RowsOf(src, cell) \subseteq src
  BY <1>1 DEF RowsOf
<1>3. IsFiniteSet(RowsOf(src, cell))
  BY <1>1, <1>2, FS_Subset
<1>4. QED
  BY <1>1, <1>2, <1>3, FS_CardinalityType

\* A cell not read yet.
LEMMA NewFetchRight ==
  ASSUME NEW src \in Sources, NEW cell
  PROVE  FetchRight(NewFetch, src, cell)
<1> DEFINE all == RowsOf(src, cell)
<1>1. all \in SUBSET Nat /\ IsFiniteSet(all)
  BY SourceTypes
<1> HIDE DEF all
<1>2. FirstRows(all, 0) = {}
  <2>1. \A s \in all : ~(Rank(all, s) < 0)
    BY <1>1, RanksAreBelow
  <2>2. QED
    BY <2>1 DEF FirstRows
<1>3. (1 - 1) * PageSize = 0 /\ 1 \in 1..MaxPages
  BY SettingTypes
<1>4. QED
  BY <1>2, <1>3 DEF FetchRight, NewFetch, all

\* The rows of the first pages, and of one more.
LEMMA OnePageMore ==
  ASSUME NEW all \in SUBSET Nat, IsFiniteSet(all), NEW p \in Nat \ {0}
  PROVE  FirstRows(all, (p - 1) * PageSize) \cup Page(all, p) = FirstRows(all, p * PageSize)
<1> DEFINE a == (p - 1) * PageSize
           b == p * PageSize
<1>1. a \in Nat /\ b \in Nat /\ a <= b
  <2>1. PageSize \in Nat
    BY SettingTypes
  <2>2. \A k \in Nat : k * PageSize \in Nat /\ (k + 1) * PageSize = k * PageSize + PageSize
    BY <2>1
  <2> DEFINE k == p - 1
  <2>3. k \in Nat /\ p = k + 1
    OBVIOUS
  <2> HIDE DEF k
  <2>4. QED
    BY <2>1, <2>2, <2>3 DEF k
<1>2. \A s \in all : s \in Page(all, p) <=> a <= Rank(all, s) /\ Rank(all, s) < b
  BY PageIs
<1>3. Page(all, p) \subseteq all
  BY DEF Page
<1>4. \A s \in all : Rank(all, s) \in Int
  BY RanksAreBelow
<1> HIDE DEF a, b
<1>5. FirstRows(all, a) \cup Page(all, p) = FirstRows(all, b)
  <2>1. \A s \in all : Rank(all, s) < b <=> Rank(all, s) < a \/ s \in Page(all, p)
    BY <1>1, <1>2, <1>4
  <2>2. QED
    BY <1>3, <2>1 DEF FirstRows
<1>6. QED
  BY <1>5 DEF a, b

\* All rows, when there are no more of them.
LEMMA AllRows ==
  ASSUME NEW all \in SUBSET Nat, IsFiniteSet(all), NEW n \in Int, Cardinality(all) <= n
  PROVE  FirstRows(all, n) = all
<1>1. Cardinality(all) \in Nat
  BY FS_CardinalityType
<1>2. \A s \in all : Rank(all, s) < n
  BY <1>1, RanksAreBelow
<1>3. QED
  BY <1>2 DEF FirstRows

\* A page read (irve_client.py:168-190).
LEMMA PageGotRight ==
  ASSUME source \in Sources, NEW cell, NEW f, FetchRight(f, source, cell), ~f.done
  PROVE  FetchRight(PageGot(f, cell), source, cell)
<1> DEFINE all == RowsOf(source, cell)
           p == f.page
           rows == Page(all, p)
           b == p * PageSize
           n == Cardinality(all)
           short == Cardinality(rows) < PageSize
           last == short \/ p = MaxPages
           got == [page |-> IF last THEN p ELSE p + 1, rows |-> f.rows \cup rows,
                   done |-> last]
<1>1. PageGot(f, cell) = got
  BY DEF PageGot, SourceRows, RowsOf
<1>2. /\ p \in 1..MaxPages /\ p \in Nat \ {0} /\ MaxPages \in Nat /\ PageSize \in Nat \ {0}
      /\ all \in SUBSET Nat /\ IsFiniteSet(all) /\ n \in Nat
  BY SourceTypes, SettingTypes DEF FetchRight
<1>3. f.rows \cup rows = FirstRows(all, b)
  BY <1>2, OnePageMore DEF FetchRight
<1>4. f.rows \cup rows \subseteq all
  BY <1>3 DEF FirstRows
<1>5. short => n < b
  BY <1>2, ShortPageIsLast
<1>6. b <= MaxPages * PageSize /\ b \in Nat
  BY <1>2
<1>7. n <= b => FirstRows(all, b) = all
  BY <1>2, <1>6, AllRows
<1>8. Dense(source, cell) <=> n > MaxPages * PageSize
  BY DEF Dense
<1>9. MaxPages * PageSize \in Nat
  BY <1>2
<1>10. (p + 1) - 1 = p
  BY <1>2
<1> HIDE DEF all, p, b, n, rows
<1> HIDE DEF short
<1>11. ~last => f.rows \cup rows = FirstRows(all, (got.page - 1) * PageSize)
  BY <1>3, <1>10 DEF b
<1>12. ASSUME last, ~Dense(source, cell) PROVE got.rows = all
  <2>1. n <= b
    <3>1. CASE short
      BY <1>2, <1>5, <1>6, <3>1
    <3>2. CASE p = MaxPages
      BY <1>2, <1>8, <1>9, <1>12, <3>2 DEF b
    <3>3. QED
      BY <1>12, <3>1, <3>2
  <2>2. QED
    BY <1>3, <1>7, <2>1
<1>13. got.page \in 1..MaxPages
  BY <1>2
<1>14. /\ {"page", "rows", "done"} \subseteq DOMAIN got
       /\ got.done \in BOOLEAN
       /\ got.rows = f.rows \cup rows /\ (got.done <=> last)
  OBVIOUS
<1> HIDE DEF got, last
<1>15. FetchRight(got, source, cell)
  BY <1>4, <1>11, <1>12, <1>13, <1>14 DEF FetchRight, all
<1>16. QED
  BY <1>1, <1>15

\* A wave has just what is asked for and is not fresh in the cache.
LEMMA WaveIs ==
  ASSUME NEW keys
  PROVE  /\ DOMAIN Wave(keys) = {k \in keys : ~Fresh(k)}
         /\ \A c \in DOMAIN Wave(keys) : Wave(keys)[c] = NewFetch
BY DEF Wave

\* A new wave, together with the cache, has all that was asked for.
LEMMA NewWaveRight ==
  ASSUME source \in Sources, NEW keys, keys \subseteq Cells
  PROVE  /\ WaveRight(Wave(keys), source)
         /\ \A c \in keys : c \in DOMAIN cells \/ c \in DOMAIN Wave(keys)
<1>1. DOMAIN Wave(keys) \subseteq Cells
  BY WaveIs
<1>2. \A c \in DOMAIN Wave(keys) : FetchRight(Wave(keys)[c], source, c)
  BY WaveIs, NewFetchRight
<1>3. \A c \in keys : c \in DOMAIN cells \/ c \in DOMAIN Wave(keys)
  BY WaveIs DEF Fresh
<1>4. QED
  BY <1>1, <1>2, <1>3 DEF WaveRight

\* No wave.
LEMMA NoWaveRight ==
  ASSUME source \in Sources
  PROVE  WaveRight(NoWave, source) /\ DOMAIN NoWave = {}
<1>1. DOMAIN NoWave = {}
  <2>1. DOMAIN Wave({}) = {k \in {} : ~Fresh(k)}
    BY WaveIs
  <2>2. QED
    BY <2>1 DEF NoWave
<1>2. WaveRight(NoWave, source)
  BY NewWaveRight DEF NoWave
<1>3. QED
  BY <1>1, <1>2

\* The cells of a wave that are stored, whatever is in the cache
\* (charging_stations.py:131-158).
LEMMA StoredRight ==
  ASSUME source \in Sources, now \in Nat, CacheRight(source, cells, known, now),
         NEW wave, WaveRight(wave, source), NEW stored, stored \subseteq DOMAIN wave,
         \A c \in stored : wave[c].done,
         Store(wave, stored)
  PROVE  /\ CacheRight(source, cells', known', now)
         /\ DOMAIN cells' = stored \cup DOMAIN cells
<1>1. DOMAIN cells' = stored \cup DOMAIN cells
  BY DEF Store
<1>2. /\ \A c \in stored : cells'[c] = now
      /\ \A c \in DOMAIN cells \ stored : cells'[c] = cells[c]
  BY DEF Store
<1>3. known' = known \cup UNION {wave[c].rows : c \in stored}
  BY DEF Store
<1>4. \A c \in stored : c \in Cells /\ FetchRight(wave[c], source, c) /\ wave[c].done
  BY DEF WaveRight
<1>5. known' \subseteq source
  <2>1. \A c \in stored : wave[c].rows \subseteq source
    BY <1>4 DEF FetchRight, RowsOf
  <2>2. QED
    BY <1>3, <2>1 DEF CacheRight
<1>6. ASSUME NEW c \in stored PROVE EntryRight(c, source, cells', known', now)
  <2>1. cells'[c] = now
    BY <1>2
  <2>2. wave[c].rows \subseteq known'
    BY <1>3
  <2>3. ~Dense(source, c) => wave[c].rows = RowsOf(source, c)
    BY <1>4 DEF FetchRight
  <2>4. QED
    BY <1>4, <2>1, <2>2, <2>3 DEF EntryRight
<1>7. ASSUME NEW c \in DOMAIN cells \ stored PROVE EntryRight(c, source, cells', known', now)
  <2>1. EntryRight(c, source, cells, known, now)
    BY DEF CacheRight
  <2>2. cells'[c] = cells[c] /\ known \subseteq known'
    BY <1>2, <1>3
  <2>3. QED
    BY <2>1, <2>2 DEF EntryRight
<1>8. QED
  BY <1>1, <1>5, <1>6, <1>7 DEF CacheRight

-----------------------------------------------------------------------------
(* Cells. *)

\* The radii, how far their boxes reach, and the widths of their cells.
LEMMA RadiusTypes ==
  /\ SearchRadius \in Nat \ {0} /\ MaxDetour \in Nat \ {0}
  /\ BoxSpan[SearchRadius] \in Nat /\ BoxSpan[MaxDetour] \in Nat
  /\ CellWidth(SearchRadius) \in Nat \ {0} /\ CellWidth(MaxDetour) \in Nat \ {0}
<1>1. ASSUME NEW radius \in {SearchRadius, MaxDetour} PROVE CellWidth(radius) \in Nat \ {0}
  <2> DEFINE n == 2 * Largest(CellHeight, 2 * BoxSpan[radius])
  <2>1. n \in Nat /\ n >= 4
    <3>1. BoxSpan[radius] \in Nat
      BY ChargingAssumption
    <3>2. QED
      BY <3>1, SettingTypes DEF Largest
  <2> HIDE DEF n
  <2>2. n \div 3 \in Nat \ {0}
    BY <2>1
  <2>3. QED
    BY <2>2 DEF CellWidth, n
<1>2. QED
  BY <1>1, ChargingAssumption

\* The cells around a place are cells of the grid.
LEMMA CellsAtAreCells ==
  ASSUME NEW place \in Int, NEW radius \in {SearchRadius, MaxDetour}
  PROVE  CellsAt(place, radius) \subseteq Cells
<1> DEFINE w == CellWidth(radius)
           span == BoxSpan[radius]
           a == (place - span) \div w
           b == (place + span) \div w
<1>1. w \in {CellWidth(SearchRadius), CellWidth(MaxDetour)}
  OBVIOUS
<1>2. w \in Nat \ {0} /\ span \in Nat
  BY RadiusTypes
<1> HIDE DEF w
<1>3. a \in Int /\ b \in Int
  BY <1>2
<1>4. CellsAt(place, radius) = {<<w, j>> : j \in a..b}
  BY DEF CellsAt, w
<1> HIDE DEF a, b, span
<1>5. QED
  BY <1>1, <1>3, <1>4 DEF Cells

\* Every station of the box is in one of them (charging_stations.py:48-66).
LEMMA CellsAtCover ==
  ASSUME NEW place \in Int, NEW radius \in {SearchRadius, MaxDetour}, NEW s \in Stations,
         Distance(Position[s], place) <= BoxSpan[radius]
  PROVE  \E c \in CellsAt(place, radius) : Inside(s, c)
<1> DEFINE w == CellWidth(radius)
           at == Position[s]
           span == BoxSpan[radius]
           a == (place - span) \div w
           b == (place + span) \div w
           j == at \div w
<1>1. w \in Nat \ {0} /\ span \in Nat
  BY RadiusTypes
<1>2. at \in Int
  BY ChargingAssumption
<1>3. place - span <= at /\ at <= place + span
  BY <1>1, <1>2 DEF Distance
<1>4. CellsAt(place, radius) = {<<w, k>> : k \in a..b}
  BY DEF CellsAt
<1> HIDE DEF w, at, span
<1>5. a \in Int /\ b \in Int /\ j \in Int
  BY <1>1, <1>2
<1>6. a <= j
  <2> DEFINE m == place - span
  <2>1. m \in Int /\ m <= at
    BY <1>1, <1>3
  <2> HIDE DEF m
  <2>2. m \div w <= at \div w
    BY <1>1, <1>2, <2>1
  <2>3. QED
    BY <2>2 DEF m
<1>7. j <= b
  <2> DEFINE m == place + span
  <2>1. m \in Int /\ at <= m
    BY <1>1, <1>3
  <2> HIDE DEF m
  <2>2. at \div w <= m \div w
    BY <1>1, <1>2, <2>1
  <2>3. QED
    BY <2>2 DEF m
<1>8. w * j <= at /\ at < w * j + w
  BY <1>1, <1>2
<1> HIDE DEF a, b, j
<1>9. w * (j + 1) = w * j + w /\ w * j \in Int
  BY <1>1, <1>5
<1>10. <<w, j>> \in CellsAt(place, radius)
  BY <1>4, <1>5, <1>6, <1>7
<1>11. Inside(s, <<w, j>>)
  BY <1>1, <1>2, <1>8, <1>9 DEF Inside, at
<1>12. QED
  BY <1>10, <1>11

-----------------------------------------------------------------------------
(* What a request has found stays right when the cache grows. *)

\* With more cells in the cache, fewer stations are in none that is dense.
LEMMA PlanStaysRight ==
  ASSUME NEW src, NEW cs, NEW cs2, NEW kn, NEW kn2, NEW t, NEW t2, NEW q,
         CacheRight(src, cs, kn, t), CacheRight(src, cs2, kn2, t2),
         DOMAIN cs \subseteq DOMAIN cs2, PlanRight(q, src, cs)
  PROVE  PlanRight(q, src, cs2)
<1> SUFFICES ASSUME NEW i \in DOMAIN q.plan PROVE Placed(q, i, src, cs2)
  BY DEF PlanRight
<1>1. Placed(q, i, src, cs)
  BY DEF PlanRight
<1>2. Sure(q, i, src, cs2) \subseteq Sure(q, i, src, cs)
  BY DEF Sure
<1>3. QED
  BY <1>1, <1>2 DEF Placed

\* A request that waits while another one stores its cells.
LEMMA RequestStaysRight ==
  ASSUME NEW src, NEW cs, NEW cs2, NEW kn, NEW kn2, NEW t, NEW t2, NEW q,
         CacheRight(src, cs, kn, t), CacheRight(src, cs2, kn2, t2),
         DOMAIN cs \subseteq DOMAIN cs2, RequestRight(q, src, cs)
  PROVE  RequestRight(q, src, cs2)
<1>1. PlanRight(q, src, cs2)
  BY PlanStaysRight DEF RequestRight
<1>2. Covered(q, cs2)
  BY DEF RequestRight, Covered
<1>3. QED
  BY <1>1, <1>2 DEF RequestRight

\* The others keep what they have when one request goes on.
LEMMA BecomeRight ==
  ASSUME ChargingInv, PlanInv', NEW r \in Requests, NEW next, Become(r, next),
         UNCHANGED <<source, now>>, CacheRight(source, cells', known', now),
         DOMAIN cells \subseteq DOMAIN cells', RequestRight(next, source, cells')
  PROVE  ChargingInv'
<1>1. source' = source /\ now' = now
  OBVIOUS
<1>2. DOMAIN requests = Requests
  BY DEF ChargingInv, PlanInv
<1>3. requests'[r] = next
  BY <1>2 DEF Become
<1>4. ASSUME NEW o \in Requests, o # r PROVE RequestRight(requests'[o], source, cells')
  <2>1. requests'[o] = requests[o]
    BY <1>2, <1>4 DEF Become
  <2>2. RequestRight(requests[o], source, cells) /\ CacheRight(source, cells, known, now)
    BY DEF ChargingInv
  <2>3. RequestRight(requests[o], source, cells')
    BY <2>2, RequestStaysRight
  <2>4. QED
    BY <2>1, <2>3
<1>5. \A o \in Requests : RequestRight(requests'[o], source', cells')
  BY <1>1, <1>3, <1>4
<1>6. CacheRight(source', cells', known', now')
  BY <1>1
<1>7. source' \in Sources /\ now' \in 0..MaxTime
  BY <1>1 DEF ChargingInv
<1>8. QED
  BY <1>5, <1>6, <1>7 DEF ChargingInv

\* The plan of a request that did not place anything.
LEMMA SamePlanRight ==
  ASSUME NEW q, NEW next, NEW src, NEW cs, PlanRight(q, src, cs),
         next.trip = q.trip, next.targets = q.targets, next.plan = q.plan
  PROVE  PlanRight(next, src, cs)
BY DEF PlanRight, Placed, Far, Free, Sure

\* The places of the targets.
LEMMA PlaceTypes ==
  ASSUME NEW t \in Trips, NEW i \in DOMAIN StopTargets(t)
  PROVE  Place(t, StopTargets(t)[i]) \in Int
<1>1. PICK n \in 0..Smallest(MaxStops, t.length) :
        StopTargets(t) = [k \in 1..n |-> k * t.interval]
  BY TargetsAre
<1>2. n \in Nat /\ t.interval \in Nat /\ t.turn \in Nat
  BY <1>1, TripTypes, SettingTypes
<1>3. i \in 1..n /\ StopTargets(t)[i] = i * t.interval
  BY <1>1
<1>4. i * t.interval \in Int
  BY <1>2, <1>3
<1>5. QED
  BY <1>2, <1>3, <1>4 DEF Place

\* The targets are a sequence.
LEMMA TargetsAreASequence ==
  ASSUME NEW t \in Trips
  PROVE  Len(StopTargets(t)) \in Nat /\ DOMAIN StopTargets(t) = 1..Len(StopTargets(t))
<1>1. PICK n \in 0..Smallest(MaxStops, t.length) :
        StopTargets(t) = [k \in 1..n |-> k * t.interval]
  BY TargetsAre
<1>2. n \in Nat /\ t.interval \in Nat
  BY <1>1, TripTypes
<1> DEFINE f == [k \in 1..n |-> k * t.interval]
<1>3. f \in [1..n -> Nat]
  BY <1>2
<1>4. DOMAIN f = 1..n
  OBVIOUS
<1> HIDE DEF f
<1>5. f \in Seq(Nat) /\ Len(f) = n
  BY <1>2, <1>3, <1>4
<1>6. QED
  BY <1>1, <1>2, <1>4, <1>5 DEF f

\* No target, or some.
LEMMA TargetsAreNone ==
  ASSUME NEW t \in Trips, StopTargets(t) # <<>>
  PROVE  Len(StopTargets(t)) \in Nat /\ Len(StopTargets(t)) # 0
<1>1. PICK n \in 0..Smallest(MaxStops, t.length) :
        StopTargets(t) = [k \in 1..n |-> k * t.interval]
  BY TargetsAre
<1> DEFINE f == [k \in 1..n |-> k * t.interval]
<1>2. n \in Nat
  BY <1>1, TripTypes
<1>3. n = 0 => f = <<>>
  OBVIOUS
<1>4. DOMAIN f = 1..n
  OBVIOUS
<1> HIDE DEF f
<1>5. n # 0
  BY <1>1, <1>3 DEF f
<1>6. f = StopTargets(t)
  BY <1>1 DEF f
<1>7. Len(f) \in Nat /\ DOMAIN f = 1..Len(f)
  BY <1>6, TargetsAreASequence
<1>8. 1 \in 1..Len(f)
  BY <1>2, <1>4, <1>5, <1>7
<1>9. QED
  BY <1>6, <1>7, <1>8

\* Of a request: what its shape and its plan say together.
LEMMA DueTypes ==
  ASSUME NEW q, NEW src, Planned(q), ShapeRight(q, src), q.phase \in {"look", "near"}
  PROVE  /\ Due(q) \in Int /\ Len(q.plan) \in Nat
         /\ Len(q.targets) \in Nat /\ Len(q.plan) < Len(q.targets)
         /\ q.radius \in {SearchRadius, MaxDetour}
<1>1. q.trip \in Trips /\ q.targets = StopTargets(q.trip)
  BY DEF Planned
<1>2. Len(q.plan) \in Nat /\ Len(q.plan) < Len(q.targets)
  BY DEF ShapeRight
<1>3. Len(q.targets) \in Nat /\ DOMAIN q.targets = 1..Len(q.targets)
  BY <1>1, TargetsAreASequence
<1>4. Len(q.plan) + 1 \in DOMAIN q.targets
  BY <1>2, <1>3
<1>5. Due(q) \in Int
  BY <1>1, <1>4, PlaceTypes DEF Due
<1>6. QED
  BY <1>2, <1>3, <1>5 DEF ShapeRight

-----------------------------------------------------------------------------
(* The next station of a plan. *)

\* What was placed stays right when a target more is settled.
LEMMA AppendRight ==
  ASSUME NEW q, NEW next, NEW src, NEW cs, NEW found \in SUBSET src,
         q.plan \in Seq(SUBSET src), PlanRight(q, src, cs),
         next.trip = q.trip, next.targets = q.targets, next.plan = Append(q.plan, found),
         Placed(next, Len(q.plan) + 1, src, cs)
  PROVE  PlanRight(next, src, cs)
<1> DEFINE n == Len(q.plan)
<1>1. /\ n \in Nat /\ DOMAIN q.plan = 1..n /\ DOMAIN next.plan = 1..(n + 1)
      /\ \A j \in 1..n : next.plan[j] = q.plan[j]
  OBVIOUS
<1> HIDE DEF n
<1>2. ASSUME NEW i \in 1..n PROVE Placed(next, i, src, cs)
  <2>1. Placed(q, i, src, cs)
    BY <1>1 DEF PlanRight
  <2>2. \A j \in 1..(i - 1) : next.plan[j] = q.plan[j]
    BY <1>1
  <2>3. next.plan[i] = q.plan[i]
    BY <1>1
  <2>4. \A s : Far(next, i, s) = Far(q, i, s)
    BY DEF Far
  <2>5. Free(next, i, src) = Free(q, i, src)
    <3>1. \A s : (\A j \in 1..(i - 1) : s \notin next.plan[j])
                    <=> (\A j \in 1..(i - 1) : s \notin q.plan[j])
      BY <2>2
    <3>2. ASSUME NEW s PROVE s \in Free(next, i, src) <=> s \in Free(q, i, src)
      <4>1. Far(next, i, s) = Far(q, i, s)
        BY <2>4
      <4>2. QED
        BY <3>1, <4>1 DEF Free
    <3>3. QED
      BY <3>2
  <2>6. Sure(next, i, src, cs) = Sure(q, i, src, cs)
    <3>1. \A s : Far(next, i, s) = Far(q, i, s)
      BY <2>4
    <3>2. QED
      BY <2>5, <3>1 DEF Sure
  <2>7. QED
    BY <2>1, <2>3, <2>4, <2>5, <2>6 DEF Placed
<1>3. QED
  BY <1>1, <1>2 DEF PlanRight, n

\* The stations that are looked at are all those that are sure (charging_stations.py:
\* 131-205, charging_plan.py:102-121).
LEMMA NearIsRight ==
  ASSUME source \in Sources, NEW cs, NEW kn, NEW t, CacheRight(source, cs, kn, t),
         NEW q, Planned(q), ShapeRight(q, source), q.phase = "near",
         \A c \in CellsAt(Due(q), q.radius) : c \in DOMAIN cs,
         NEW next, NEW found \in SUBSET source,
         next.trip = q.trip, next.targets = q.targets, next.plan = Append(q.plan, found)
  PROVE  LET i == Len(q.plan) + 1 IN
         /\ \A s : Far(next, i, s) = Distance(Position[s], Due(q))
         /\ NearStations(q, kn) \subseteq Free(next, i, source)
         /\ \A o \in Sure(next, i, source, cs) :
              Far(next, i, o) <= q.radius /\ Far(next, i, o) <= BoxSpan[q.radius]
                => o \in NearStations(q, kn)
<1> DEFINE n == Len(q.plan)
           i == n + 1
           near == NearStations(q, kn)
<1>1. /\ n \in Nat /\ DOMAIN q.plan = 1..n
      /\ \A j \in 1..n : next.plan[j] = q.plan[j]
  BY DEF ShapeRight
<1>2. /\ Due(q) \in Int /\ q.radius \in {SearchRadius, MaxDetour}
      /\ q.radius <= Largest(SearchRadius, MaxDetour)
  <2>1. Due(q) \in Int /\ q.radius \in {SearchRadius, MaxDetour}
    BY DueTypes
  <2>2. QED
    BY <2>1, RadiusTypes DEF Largest
<1>3. \A s : Far(next, i, s) = Distance(Position[s], Due(q))
  BY DEF Far, Due
<1>4. \A s : (s \notin Used(q)) <=> (\A j \in 1..n : s \notin next.plan[j])
  BY <1>1 DEF Used
<1>5. source \subseteq Stations /\ kn \subseteq source
  BY ChargingAssumption DEF CacheRight
<1>6. 1..(i - 1) = 1..n
  BY <1>1
<1>7. \A s \in Stations : Distance(Position[s], Due(q)) \in Int
  <2>1. \A s \in Stations : Position[s] \in Int
    BY ChargingAssumption
  <2>2. QED
    BY <1>2, <2>1 DEF Distance
<1>8. q.radius \in Int /\ Largest(SearchRadius, MaxDetour) \in Int
  BY <1>2, RadiusTypes DEF Largest
<1> HIDE DEF n, i
<1>9. ASSUME NEW s \in near PROVE s \in Free(next, i, source)
  <2>1. s \in kn /\ s \notin Used(q) /\ Distance(Position[s], Due(q)) <= q.radius
    BY <1>9 DEF NearStations
  <2>2. Far(next, i, s) <= Largest(SearchRadius, MaxDetour)
    BY <1>2, <1>3, <1>5, <1>7, <1>8, <2>1
  <2>3. QED
    BY <1>4, <1>5, <1>6, <2>1, <2>2 DEF Free
<1>10. ASSUME NEW o \in Sure(next, i, source, cs), Far(next, i, o) <= q.radius,
              Far(next, i, o) <= BoxSpan[q.radius]
       PROVE  o \in near
  <2>1. /\ o \in source /\ o \notin Used(q) /\ Distance(Position[o], Due(q)) <= q.radius
        /\ Distance(Position[o], Due(q)) <= BoxSpan[q.radius]
        /\ \A c \in DOMAIN cs : Inside(o, c) => ~Dense(source, c)
    BY <1>3, <1>4, <1>6, <1>10 DEF Sure, Free
  <2>2. PICK c \in CellsAt(Due(q), q.radius) : Inside(o, c)
    BY <1>2, <1>5, <2>1, CellsAtCover
  <2>3. c \in DOMAIN cs /\ ~Dense(source, c)
    BY <2>1, <2>2
  <2>4. RowsOf(source, c) \subseteq kn
    BY <2>3 DEF CacheRight, EntryRight
  <2>5. o \in kn
    BY <2>1, <2>2, <2>4 DEF RowsOf
  <2>6. QED
    BY <2>1, <2>5 DEF NearStations
<1>11. QED
  BY <1>3, <1>9, <1>10 DEF i, n

\* A station found, the nearest of those looked at.
LEMMA FoundIsPlaced ==
  ASSUME source \in Sources, NEW cs, NEW kn, NEW t, CacheRight(source, cs, kn, t),
         NEW q, Planned(q), ShapeRight(q, source), q.phase = "near",
         \A c \in CellsAt(Due(q), q.radius) : c \in DOMAIN cs,
         NEW next, NEW s \in NearStations(q, kn),
         \A o \in NearStations(q, kn) :
           Distance(Position[s], Due(q)) <= Distance(Position[o], Due(q)),
         next.trip = q.trip, next.targets = q.targets, next.plan = Append(q.plan, {s})
  PROVE  {s} \in SUBSET source /\ Placed(next, Len(q.plan) + 1, source, cs)
<1> DEFINE i == Len(q.plan) + 1
           near == NearStations(q, kn)
<1>1. /\ s \in kn /\ kn \subseteq source /\ Distance(Position[s], Due(q)) <= q.radius
      /\ Distance(Position[s], Due(q)) <= BoxSpan[q.radius]
  BY DEF NearStations, CacheRight
<1>2. {s} \in SUBSET source
  BY <1>1
<1>3. /\ \A x : Far(next, i, x) = Distance(Position[x], Due(q))
      /\ near \subseteq Free(next, i, source)
      /\ \A o \in Sure(next, i, source, cs) :
           Far(next, i, o) <= q.radius /\ Far(next, i, o) <= BoxSpan[q.radius] => o \in near
  BY <1>2, NearIsRight
<1>4. next.plan[i] = {s}
  BY DEF ShapeRight
<1>5. Due(q) \in Int /\ q.radius \in Int /\ BoxSpan[q.radius] \in Int
  BY DueTypes, RadiusTypes
<1>6. source \subseteq Stations /\ \A x \in Stations : Position[x] \in Int
  BY ChargingAssumption
<1>7. \A x \in Stations : Distance(Position[x], Due(q)) \in Int
  BY <1>5, <1>6 DEF Distance
<1>8. Sure(next, i, source, cs) \subseteq Stations /\ s \in Stations
  BY <1>1, <1>6 DEF Sure, Free
<1> HIDE DEF near, i
<1>9. ASSUME NEW o \in Sure(next, i, source, cs) PROVE Far(next, i, s) <= Far(next, i, o)
  <2>1. CASE o \in near
    BY <1>3, <2>1 DEF near
  <2>2. CASE o \notin near
    <3>1. ~(Far(next, i, o) <= q.radius) \/ ~(Far(next, i, o) <= BoxSpan[q.radius])
      BY <1>3, <1>9, <2>2
    <3>2. Far(next, i, o) \in Int /\ Far(next, i, s) \in Int
      BY <1>3, <1>7, <1>8, <1>9
    <3>3. Far(next, i, s) <= q.radius /\ Far(next, i, s) <= BoxSpan[q.radius]
      BY <1>1, <1>3
    <3>4. QED
      BY <1>5, <3>1, <3>2, <3>3
  <2>3. QED
    BY <2>1, <2>2
<1>10. s \in Free(next, i, source)
  BY <1>3 DEF near
<1>11. Placed(next, i, source, cs)
  BY <1>4, <1>9, <1>10 DEF Placed
<1>12. QED
  BY <1>2, <1>11 DEF i

\* None, when there is none as far as they are looked for.
LEMMA NoneIsPlaced ==
  ASSUME source \in Sources, NEW cs, NEW kn, NEW t, CacheRight(source, cs, kn, t),
         NEW q, Planned(q), ShapeRight(q, source), q.phase = "near",
         \A c \in CellsAt(Due(q), q.radius) : c \in DOMAIN cs,
         NEW next, NearStations(q, kn) = {}, q.radius >= MaxDetour,
         next.trip = q.trip, next.targets = q.targets, next.plan = Append(q.plan, {})
  PROVE  Placed(next, Len(q.plan) + 1, source, cs)
<1> DEFINE i == Len(q.plan) + 1
<1>1. \A o \in Sure(next, i, source, cs) :
        ~(Far(next, i, o) <= q.radius /\ Far(next, i, o) <= BoxSpan[q.radius])
  <2>1. \A o \in Sure(next, i, source, cs) :
          Far(next, i, o) <= q.radius /\ Far(next, i, o) <= BoxSpan[q.radius]
            => o \in NearStations(q, kn)
    BY NearIsRight
  <2>2. QED
    BY <2>1
<1>2. q.radius = Largest(SearchRadius, MaxDetour)
  BY RadiusTypes DEF ShapeRight, Largest
<1>3. \A o \in Sure(next, i, source, cs) :
        /\ Far(next, i, o) <= Largest(SearchRadius, MaxDetour)
        /\ Far(next, i, o) <= BoxSpan[Largest(SearchRadius, MaxDetour)]
  BY DEF Sure, Free
<1>4. Sure(next, i, source, cs) = {}
  BY <1>1, <1>2, <1>3
<1>5. next.plan[i] = {}
  BY DEF ShapeRight
<1>6. QED
  BY <1>4, <1>5 DEF Placed

\* The request with a target more settled.
LEMMA SettledRight ==
  ASSUME source \in Sources, NEW cs, NEW q, Planned(q), ShapeRight(q, source),
         q.phase = "near", PlanRight(q, source, cs), NEW found \in SUBSET source,
         \A next : /\ next.trip = q.trip /\ next.targets = q.targets
                   /\ next.plan = Append(q.plan, found)
                   => Placed(next, Len(q.plan) + 1, source, cs)
  PROVE  RequestRight(Settled(q, found), source, cs)
<1> DEFINE plan == Append(q.plan, found)
           over == Len(plan) = Len(q.targets)
           phase == IF ~over THEN "look"
                    ELSE IF \A i \in DOMAIN plan : plan[i] = {} THEN "no stops" ELSE "route"
           next == [q EXCEPT !.plan = plan, !.wave = NoWave, !.radius = SearchRadius,
                             !.phase = phase]
<1>1. Settled(q, found) = next
  BY DEF Settled
<1>2. plan \in Seq(SUBSET source) /\ Len(plan) = Len(q.plan) + 1
  BY DEF ShapeRight
<1>3. /\ Len(q.plan) \in Nat /\ Len(q.targets) \in Nat /\ Len(q.plan) < Len(q.targets)
  BY DueTypes
<1>4. /\ phase \in {"look", "no stops", "route"}
      /\ phase = "look" => Len(plan) < Len(q.targets)
      /\ Len(plan) <= Len(q.targets)
  BY <1>2, <1>3
<1>5. Fields \subseteq DOMAIN q
  BY DEF ShapeRight
<1> HIDE DEF plan, phase
<1>6. /\ Fields \subseteq DOMAIN next /\ next.phase = phase /\ next.plan = plan
      /\ next.wave = NoWave /\ next.radius = SearchRadius
      /\ next.trip = q.trip /\ next.targets = q.targets
  BY <1>5 DEF Fields
<1> HIDE DEF next
<1>7. ShapeRight(next, source)
  BY <1>2, <1>4, <1>6 DEF ShapeRight, Phases, Answers
<1>8. WaveRight(next.wave, source)
  BY <1>6, NoWaveRight
<1>9. Covered(next, cs)
  BY <1>4, <1>6 DEF Covered
<1>10. PlanRight(next, source, cs)
  <2>1. next.plan = Append(q.plan, found)
    BY <1>6 DEF plan
  <2>2. Placed(next, Len(q.plan) + 1, source, cs)
    BY <1>6, <2>1
  <2>3. QED
    BY <1>6, <2>1, <2>2, AppendRight DEF ShapeRight
<1>11. QED
  BY <1>1, <1>7, <1>8, <1>9, <1>10 DEF RequestRight

-----------------------------------------------------------------------------
(* The inductive invariant holds. *)

\* At the start nothing is known and nothing is planned.
LEMMA InitCharging == Init => ChargingInv
<1> SUFFICES ASSUME Init PROVE ChargingInv
  OBVIOUS
<1>1. source \in Sources /\ now \in 0..MaxTime
  BY ChargingAssumption DEF Init
<1>2. DOMAIN cells = {} /\ known = {}
  BY <1>1, NoWaveRight DEF Init
<1>3. CacheRight(source, cells, known, now)
  BY <1>2 DEF CacheRight
<1>4. ASSUME NEW r \in Requests PROVE RequestRight(requests[r], source, cells)
  <2> DEFINE q == requests[r]
  <2>1. PICK trip \in Trips : q = Request(trip)
    BY DEF Init
  <2>2. /\ Fields \subseteq DOMAIN q /\ q.phase = "new" /\ q.radius = SearchRadius
        /\ q.plan = <<>> /\ q.targets = <<>> /\ q.wave = NoWave
    BY <2>1 DEF Request, Fields
  <2> HIDE DEF q
  <2>3. <<>> \in Seq(SUBSET source) /\ Len(<<>>) = 0 /\ DOMAIN <<>> = {}
    OBVIOUS
  <2>4. ShapeRight(q, source)
    BY <2>2, <2>3 DEF ShapeRight, Phases
  <2>5. WaveRight(q.wave, source)
    BY <1>1, <2>2, NoWaveRight
  <2>6. Covered(q, cells) /\ PlanRight(q, source, cells)
    BY <2>2, <2>3 DEF Covered, PlanRight
  <2>7. QED
    BY <2>4, <2>5, <2>6 DEF RequestRight, q
<1>5. QED
  BY <1>1, <1>3, <1>4, InitPlan DEF ChargingInv

\* A step that places nothing and leaves the cache as it is.
LEMMA GoesOnRight ==
  ASSUME ChargingInv, PlanInv', NEW r \in Requests, NEW next, Become(r, next),
         UNCHANGED <<source, now, cells, known>>,
         next.trip = requests[r].trip, next.targets = requests[r].targets,
         next.plan = requests[r].plan,
         ShapeRight(next, source), WaveRight(next.wave, source), Covered(next, cells)
  PROVE  ChargingInv'
<1>1. CacheRight(source, cells', known', now) /\ DOMAIN cells \subseteq DOMAIN cells'
  BY DEF ChargingInv
<1>2. PlanRight(next, source, cells')
  BY SamePlanRight DEF ChargingInv, RequestRight
<1>3. RequestRight(next, source, cells')
  BY <1>2 DEF RequestRight
<1>4. QED
  BY <1>1, <1>3, BecomeRight

\* What a step may use of the state before it.
LEMMA Unfold ==
  ASSUME ChargingInv, NEW r \in Requests
  PROVE  /\ source \in Sources /\ now \in Nat /\ CacheRight(source, cells, known, now)
         /\ Planned(requests[r]) /\ ShapeRight(requests[r], source)
         /\ WaveRight(requests[r].wave, source)
         /\ Covered(requests[r], cells) /\ PlanRight(requests[r], source, cells)
         /\ Fields \subseteq DOMAIN requests[r]
BY ChargingAssumption DEF ChargingInv, PlanInv, RequestRight, ShapeRight

\* The first routing has answered (charging_route.py:88-91).
LEMMA PlanStepRight ==
  ASSUME ChargingInv, PlanInv', NEW r \in Requests, Plan(r)
  PROVE  ChargingInv'
<1> DEFINE q == requests[r]
           targets == StopTargets(q.trip)
           keys == UNION {CellsAt(Place(q.trip, targets[i]), SearchRadius) : i \in DOMAIN targets}
           wave == Wave(keys)
<1>1. /\ source \in Sources /\ Planned(q) /\ ShapeRight(q, source) /\ q.phase = "new"
      /\ WaveRight(q.wave, source) /\ Fields \subseteq DOMAIN q
      /\ UNCHANGED <<source, now, cells, known>>
  BY Unfold DEF Plan
<1>2. q.plan = <<>> /\ q.targets = <<>> /\ q.trip \in Trips
  BY <1>1 DEF ShapeRight, Planned
<1>3. PlanRight(q, source, cells)
  BY Unfold
<1>4. <<>> \in Seq(SUBSET source) /\ Len(<<>>) = 0 /\ DOMAIN <<>> = {}
  OBVIOUS
<1>5. ASSUME NEW phase \in {"refused", "no stops"},
             Become(r, [q EXCEPT !.phase = phase])
      PROVE  ChargingInv'
  <2> DEFINE next == [q EXCEPT !.phase = phase]
  <2>1. /\ Fields \subseteq DOMAIN next /\ next.phase = phase /\ next.plan = q.plan
        /\ next.wave = q.wave /\ next.radius = q.radius
        /\ next.trip = q.trip /\ next.targets = q.targets
    BY <1>1 DEF Fields
  <2>2. Become(r, next)
    BY <1>5
  <2> HIDE DEF next
  <2>3. ShapeRight(next, source)
    BY <1>1, <1>2, <1>4, <2>1 DEF ShapeRight, Phases, Answers
  <2>4. WaveRight(next.wave, source) /\ Covered(next, cells)
    BY <1>1, <2>1 DEF Covered
  <2> HIDE DEF q
  <2>5. QED
    BY <1>1, <2>1, <2>2, <2>3, <2>4, GoesOnRight DEF q
<1>6. CASE /\ targets # <<>>
           /\ Become(r, [q EXCEPT !.phase = "prefetch", !.targets = targets, !.wave = wave])
  <2> DEFINE next == [q EXCEPT !.phase = "prefetch", !.targets = targets, !.wave = wave]
  <2>1. keys \subseteq Cells
    <3>1. \A i \in DOMAIN targets : Place(q.trip, targets[i]) \in Int
      BY <1>2, PlaceTypes
    <3>2. \A i \in DOMAIN targets : CellsAt(Place(q.trip, targets[i]), SearchRadius) \subseteq Cells
      BY <3>1, CellsAtAreCells
    <3>3. QED
      BY <3>2
  <2> HIDE DEF keys
  <2>2. WaveRight(wave, source)
    BY <1>1, <2>1, NewWaveRight
  <2>3. Len(targets) \in Nat
    BY <1>2, TargetsAreASequence
  <2> HIDE DEF wave, targets
  <2>4. /\ Fields \subseteq DOMAIN next /\ next.phase = "prefetch" /\ next.plan = q.plan
        /\ next.wave = wave /\ next.radius = q.radius
        /\ next.trip = q.trip /\ next.targets = targets
    BY <1>1 DEF Fields
  <2>5. Become(r, next)
    BY <1>6
  <2> HIDE DEF next
  <2>6. ShapeRight(next, source)
    BY <1>1, <1>2, <1>4, <1>6, <2>3, <2>4 DEF ShapeRight, Phases
  <2>7. WaveRight(next.wave, source) /\ Covered(next, cells) /\ PlanRight(next, source, cells)
    BY <1>2, <1>4, <2>2, <2>4 DEF Covered, PlanRight
  <2>8. RequestRight(next, source, cells')
    BY <1>1, <2>6, <2>7 DEF RequestRight
  <2>9. CacheRight(source, cells', known', now) /\ DOMAIN cells \subseteq DOMAIN cells'
    BY <1>1, Unfold
  <2>10. QED
    BY <1>1, <2>5, <2>8, <2>9, BecomeRight
<1>7. QED
  BY <1>5, <1>6 DEF Plan

\* A page comes for one cell of a wave.
LEMMA FetchPageRight ==
  ASSUME ChargingInv, PlanInv', NEW r \in Requests, NEW c, FetchPage(r, c)
  PROVE  ChargingInv'
<1> DEFINE q == requests[r]
           wave == [q.wave EXCEPT ![c] = PageGot(@, c)]
           next == [q EXCEPT !.wave[c] = PageGot(@, c)]
<1>1. /\ source \in Sources /\ ShapeRight(q, source) /\ WaveRight(q.wave, source)
      /\ Covered(q, cells) /\ Fields \subseteq DOMAIN q
      /\ c \in DOMAIN q.wave /\ ~q.wave[c].done /\ Become(r, next)
      /\ UNCHANGED <<source, now, cells, known>>
  BY Unfold DEF FetchPage
<1>2. next = [q EXCEPT !.wave = wave]
  OBVIOUS
<1>3. DOMAIN wave = DOMAIN q.wave
  OBVIOUS
<1>4. WaveRight(wave, source)
  <2>1. FetchRight(PageGot(q.wave[c], c), source, c)
    BY <1>1, PageGotRight DEF WaveRight
  <2>2. wave[c] = PageGot(q.wave[c], c)
    BY <1>1
  <2>3. \A d \in DOMAIN q.wave : d # c => wave[d] = q.wave[d]
    OBVIOUS
  <2> HIDE DEF wave
  <2>4. QED
    BY <1>1, <1>3, <2>1, <2>2, <2>3 DEF WaveRight
<1> HIDE DEF wave
<1>5. /\ Fields \subseteq DOMAIN next /\ next.phase = q.phase /\ next.plan = q.plan
      /\ next.wave = wave /\ next.radius = q.radius
      /\ next.trip = q.trip /\ next.targets = q.targets
  BY <1>1, <1>2 DEF Fields
<1> HIDE DEF next
<1>6. ShapeRight(next, source)
  BY <1>1, <1>5 DEF ShapeRight
<1>7. Due(next) = Due(q)
  BY <1>5 DEF Due
<1>8. Covered(next, cells)
  BY <1>1, <1>3, <1>5, <1>7 DEF Covered
<1>9. QED
  BY <1>1, <1>4, <1>5, <1>6, <1>8, GoesOnRight

\* A request that gives up, or goes on, with its plan as it is, and asks for nothing.
LEMMA MovesRight ==
  ASSUME NEW q, NEW cs, source \in Sources, ShapeRight(q, source),
         q.phase \notin {"new", "refused"},
         NEW next, Fields \subseteq DOMAIN next,
         \/ next.phase \in Answers \ {"refused"}
         \/ next.phase = "look" /\ Len(q.plan) < Len(q.targets),
         next.plan = q.plan, next.targets = q.targets, next.trip = q.trip,
         next.radius = q.radius \/ (next.radius = MaxDetour /\ q.radius < MaxDetour),
         next.wave = NoWave \/ next.wave = q.wave,
         WaveRight(q.wave, source)
  PROVE  ShapeRight(next, source) /\ WaveRight(next.wave, source) /\ Covered(next, cs)
<1>1. next.phase \notin {"new", "refused", "prefetch", "near"} /\ next.phase \in Phases
  BY DEF Answers, Phases
<1>2. next.radius = SearchRadius \/ (next.radius = MaxDetour /\ SearchRadius < MaxDetour)
  BY RadiusTypes DEF ShapeRight
<1>3. ShapeRight(next, source)
  BY <1>1, <1>2 DEF ShapeRight, Answers
<1>4. WaveRight(next.wave, source)
  BY NoWaveRight
<1>5. Covered(next, cs)
  BY <1>1 DEF Covered
<1>6. QED
  BY <1>3, <1>4, <1>5

\* A page does not come.
LEMMA FetchFailsRight ==
  ASSUME ChargingInv, PlanInv', NEW r \in Requests, FetchFails(r)
  PROVE  ChargingInv'
<1> DEFINE q == requests[r]
           next == [q EXCEPT !.phase = "unavailable", !.wave = NoWave]
<1>1. /\ source \in Sources /\ ShapeRight(q, source) /\ WaveRight(q.wave, source)
      /\ Fields \subseteq DOMAIN q /\ q.phase \in {"prefetch", "near"} /\ Become(r, next)
      /\ UNCHANGED <<source, now, cells, known>>
  BY Unfold DEF FetchFails, Waiting
<1>2. /\ Fields \subseteq DOMAIN next /\ next.phase = "unavailable" /\ next.plan = q.plan
      /\ next.wave = NoWave /\ next.radius = q.radius
      /\ next.trip = q.trip /\ next.targets = q.targets
  BY <1>1 DEF Fields
<1> HIDE DEF next
<1>3. ShapeRight(next, source) /\ WaveRight(next.wave, source) /\ Covered(next, cells)
  BY <1>1, <1>2, MovesRight DEF Answers
<1>4. QED
  BY <1>1, <1>2, <1>3, GoesOnRight

\* The cells around the next target that are not fresh are asked for.
LEMMA LookRight ==
  ASSUME ChargingInv, PlanInv', NEW r \in Requests, Look(r)
  PROVE  ChargingInv'
<1> DEFINE q == requests[r]
           keys == CellsAt(Due(q), q.radius)
           wave == Wave(keys)
           next == [q EXCEPT !.phase = "near", !.wave = wave]
<1>1. /\ source \in Sources /\ Planned(q) /\ ShapeRight(q, source)
      /\ Fields \subseteq DOMAIN q /\ q.phase = "look" /\ Become(r, next)
      /\ UNCHANGED <<source, now, cells, known>>
  BY Unfold DEF Look
<1>2. keys \subseteq Cells
  BY <1>1, DueTypes, CellsAtAreCells
<1> HIDE DEF keys
<1>3. WaveRight(wave, source) /\ \A c \in keys : c \in DOMAIN cells \/ c \in DOMAIN wave
  BY <1>1, <1>2, NewWaveRight
<1> HIDE DEF wave
<1>4. /\ Fields \subseteq DOMAIN next /\ next.phase = "near" /\ next.plan = q.plan
      /\ next.wave = wave /\ next.radius = q.radius
      /\ next.trip = q.trip /\ next.targets = q.targets
  BY <1>1 DEF Fields
<1> HIDE DEF next
<1>5. ShapeRight(next, source)
  BY <1>1, <1>4 DEF ShapeRight, Phases
<1>6. CellsAt(Due(next), next.radius) = keys
  BY <1>4 DEF Due, keys
<1>7. Covered(next, cells)
  BY <1>3, <1>4, <1>6 DEF Covered
<1>8. QED
  BY <1>1, <1>3, <1>4, <1>5, <1>7, GoesOnRight

\* A request that ends with what its second routing gives.
LEMMA RoutedRight ==
  ASSUME ChargingInv, PlanInv', NEW r \in Requests, Routed(r) \/ NoBoundaries(r)
  PROVE  ChargingInv'
<1> DEFINE q == requests[r]
           legs == UserLegs(InterleaveStops(q.trip, Stops(q)))
<1>1. /\ source \in Sources /\ ShapeRight(q, source) /\ WaveRight(q.wave, source)
      /\ Fields \subseteq DOMAIN q /\ q.phase = "route"
      /\ UNCHANGED <<source, now, cells, known>>
  BY Unfold DEF Routed, NoBoundaries
<1>2. \/ Become(r, [q EXCEPT !.phase = "planned", !.legs = legs])
      \/ \E phase \in {"planned", "failed", "no stops"} : Become(r, [q EXCEPT !.phase = phase])
  BY DEF Routed, NoBoundaries
<1> HIDE DEF legs
<1>3. ASSUME NEW next, Become(r, next), Fields \subseteq DOMAIN next,
             next.phase \in {"planned", "failed", "no stops"}, next.plan = q.plan,
             next.wave = q.wave, next.radius = q.radius,
             next.trip = q.trip, next.targets = q.targets
      PROVE  ChargingInv'
  <2>1. ShapeRight(next, source) /\ WaveRight(next.wave, source) /\ Covered(next, cells)
    <3>1. next.phase \in Answers \ {"refused"} /\ q.phase \notin {"new", "refused"}
      BY <1>1, <1>3 DEF Answers
    <3> HIDE DEF q
    <3>2. QED
      BY <1>1, <1>3, <3>1, MovesRight
  <2>2. QED
    BY <1>1, <1>3, <2>1, GoesOnRight
<1>4. CASE Become(r, [q EXCEPT !.phase = "planned", !.legs = legs])
  <2> DEFINE next == [q EXCEPT !.phase = "planned", !.legs = legs]
  <2>1. /\ Fields \subseteq DOMAIN next /\ next.phase = "planned" /\ next.plan = q.plan
        /\ next.wave = q.wave /\ next.radius = q.radius
        /\ next.trip = q.trip /\ next.targets = q.targets
    BY <1>1 DEF Fields
  <2>2. Become(r, next)
    BY <1>4
  <2> HIDE DEF next
  <2>3. QED
    BY <1>3, <2>1, <2>2
<1>5. ASSUME NEW phase \in {"planned", "failed", "no stops"}, Become(r, [q EXCEPT !.phase = phase])
      PROVE  ChargingInv'
  <2> DEFINE next == [q EXCEPT !.phase = phase]
  <2>1. /\ Fields \subseteq DOMAIN next /\ next.phase = phase /\ next.plan = q.plan
        /\ next.wave = q.wave /\ next.radius = q.radius
        /\ next.trip = q.trip /\ next.targets = q.targets
    BY <1>1 DEF Fields
  <2>2. Become(r, next)
    BY <1>5
  <2> HIDE DEF next
  <2>3. QED
    BY <1>3, <1>5, <2>1, <2>2
<1>6. QED
  BY <1>2, <1>4, <1>5

\* The cache after a step that stores some of the cells of a wave, all of them read.
LEMMA CacheStored ==
  ASSUME ChargingInv, NEW r \in Requests, Gathered(requests[r]),
         NEW stored, stored \subseteq DOMAIN requests[r].wave,
         Store(requests[r].wave, stored)
  PROVE  /\ CacheRight(source, cells', known', now)
         /\ DOMAIN cells' = stored \cup DOMAIN cells
         /\ PlanRight(requests[r], source, cells')
<1> DEFINE wave == requests[r].wave
<1>1. source \in Sources /\ now \in Nat /\ CacheRight(source, cells, known, now)
      /\ WaveRight(wave, source) /\ PlanRight(requests[r], source, cells)
  BY Unfold
<1>2. \A c \in stored : wave[c].done
  BY DEF Gathered, Waiting
<1> HIDE DEF wave
<1>3. CacheRight(source, cells', known', now) /\ DOMAIN cells' = stored \cup DOMAIN cells
  BY <1>1, <1>2, StoredRight DEF wave
<1>4. PlanRight(requests[r], source, cells')
  BY <1>1, <1>3, PlanStaysRight
<1>5. QED
  BY <1>3, <1>4

\* A wave is stored, whole, or in part before it fails.
LEMMA StoresOnlyRight ==
  ASSUME ChargingInv, PlanInv', NEW r \in Requests, Prefetched(r) \/ StoreFails(r)
  PROVE  ChargingInv'
<1> DEFINE q == requests[r]
           next(phase) == [q EXCEPT !.phase = phase, !.wave = NoWave]
<1>1. /\ source \in Sources /\ ShapeRight(q, source) /\ WaveRight(q.wave, source)
      /\ Fields \subseteq DOMAIN q /\ Gathered(q) /\ q.phase \in {"prefetch", "near"}
      /\ UNCHANGED <<source, now>>
  BY Unfold DEF Prefetched, StoreFails, Gathered
<1>2. \E stored \in SUBSET DOMAIN q.wave : Store(q.wave, stored)
  BY DEF Prefetched, StoreFails
<1>3. PICK stored \in SUBSET DOMAIN q.wave : Store(q.wave, stored)
  BY <1>2
<1>4. /\ CacheRight(source, cells', known', now) /\ DOMAIN cells \subseteq DOMAIN cells'
      /\ PlanRight(q, source, cells')
  BY <1>1, <1>3, CacheStored
<1>5. \/ Become(r, next("failed"))
      \/ q.phase = "prefetch" /\ Become(r, next("look"))
  BY DEF Prefetched, StoreFails
<1>6. ASSUME NEW phase, phase = "failed" \/ (phase = "look" /\ q.phase = "prefetch")
      PROVE  RequestRight(next(phase), source, cells')
  <2> DEFINE to == next(phase)
  <2>1. /\ Fields \subseteq DOMAIN to /\ to.phase = phase /\ to.plan = q.plan
        /\ to.wave = NoWave /\ to.radius = q.radius
        /\ to.trip = q.trip /\ to.targets = q.targets
    BY <1>1 DEF Fields
  <2> HIDE DEF next
  <2>2. phase = "look" => Len(q.plan) < Len(q.targets)
    <3>1. ASSUME q.phase = "prefetch" PROVE Len(q.plan) < Len(q.targets)
      <4>1. Planned(q)
        BY Unfold
      <4>2. q.plan = <<>> /\ q.targets # <<>> /\ q.trip \in Trips /\ q.targets = StopTargets(q.trip)
        BY <1>1, <3>1, <4>1 DEF ShapeRight, Planned
      <4>3. Len(q.targets) \in Nat /\ Len(q.targets) # 0
        BY <4>2, TargetsAreNone
      <4>4. Len(q.plan) = 0
        BY <4>2
      <4>5. QED
        BY <4>3, <4>4
    <3>2. QED
      BY <1>6, <3>1
  <2>3. to.phase \in Answers \ {"refused"} \/ (to.phase = "look" /\ Len(q.plan) < Len(q.targets))
    BY <1>6, <2>1, <2>2 DEF Answers
  <2> HIDE DEF to
  <2>4. ShapeRight(to, source) /\ WaveRight(to.wave, source) /\ Covered(to, cells')
    <3> HIDE DEF q
    <3>1. QED
      BY <1>1, <2>1, <2>3, MovesRight
  <2>5. PlanRight(to, source, cells')
    BY <1>4, <2>1, SamePlanRight
  <2>6. QED
    BY <2>4, <2>5 DEF RequestRight, to
<1> HIDE DEF next, q
<1>7. QED
  BY <1>1, <1>4, <1>5, <1>6, BecomeRight

\* The next target is settled, or looked for further away.
LEMMA ChooseRight ==
  ASSUME ChargingInv, PlanInv', NEW r \in Requests, Choose(r)
  PROVE  ChargingInv'
<1> DEFINE q == requests[r]
           near == NearStations(q, known')
           wider == [q EXCEPT !.phase = "look", !.radius = MaxDetour, !.wave = NoWave]
<1>1. /\ source \in Sources /\ Planned(q) /\ ShapeRight(q, source) /\ WaveRight(q.wave, source)
      /\ Covered(q, cells) /\ Fields \subseteq DOMAIN q /\ Gathered(q) /\ q.phase = "near"
      /\ Store(q.wave, DOMAIN q.wave) /\ UNCHANGED <<source, now>>
  BY Unfold DEF Choose
<1>2. /\ CacheRight(source, cells', known', now) /\ DOMAIN cells' = DOMAIN q.wave \cup DOMAIN cells
      /\ PlanRight(q, source, cells')
  BY <1>1, CacheStored
<1>3. \A c \in CellsAt(Due(q), q.radius) : c \in DOMAIN cells'
  BY <1>1, <1>2 DEF Covered
<1>4. \/ \E s \in near :
           /\ \A o \in near : Distance(Position[s], Due(q)) <= Distance(Position[o], Due(q))
           /\ Become(r, Settled(q, {s}))
      \/ near = {} /\ q.radius < MaxDetour /\ Become(r, wider)
      \/ near = {} /\ q.radius >= MaxDetour /\ Become(r, Settled(q, {}))
  BY DEF Choose
<1> DEFINE grown == DOMAIN cells \subseteq DOMAIN cells'
<1>5. grown
  BY <1>2
<1>6. ASSUME NEW s \in near, Become(r, Settled(q, {s})),
             \A o \in near : Distance(Position[s], Due(q)) <= Distance(Position[o], Due(q))
      PROVE  ChargingInv'
  <2>1. \A next : /\ next.trip = q.trip /\ next.targets = q.targets
                  /\ next.plan = Append(q.plan, {s})
                  => Placed(next, Len(q.plan) + 1, source, cells') /\ {s} \in SUBSET source
    BY <1>1, <1>2, <1>3, <1>6, FoundIsPlaced
  <2>2. {s} \in SUBSET source
    BY <1>2 DEF NearStations, CacheRight
  <2>3. RequestRight(Settled(q, {s}), source, cells')
    BY <1>1, <1>2, <2>1, <2>2, SettledRight
  <2>4. QED
    BY <1>1, <1>2, <1>5, <1>6, <2>3, BecomeRight
<1>7. CASE near = {} /\ q.radius >= MaxDetour /\ Become(r, Settled(q, {}))
  <2>1. \A next : /\ next.trip = q.trip /\ next.targets = q.targets
                  /\ next.plan = Append(q.plan, {})
                  => Placed(next, Len(q.plan) + 1, source, cells')
    BY <1>1, <1>2, <1>3, <1>7, NoneIsPlaced
  <2>2. RequestRight(Settled(q, {}), source, cells')
    BY <1>1, <1>2, <2>1, SettledRight
  <2>3. QED
    BY <1>1, <1>2, <1>5, <1>7, <2>2, BecomeRight
<1>8. CASE q.radius < MaxDetour /\ Become(r, wider)
  <2>1. /\ Fields \subseteq DOMAIN wider /\ wider.phase = "look" /\ wider.plan = q.plan
        /\ wider.wave = NoWave /\ wider.radius = MaxDetour
        /\ wider.trip = q.trip /\ wider.targets = q.targets
    BY <1>1 DEF Fields
  <2>2. Len(q.plan) < Len(q.targets)
    BY <1>1 DEF ShapeRight
  <2>3. Become(r, wider)
    BY <1>8
  <2> HIDE DEF wider
  <2>4. ShapeRight(wider, source) /\ WaveRight(wider.wave, source) /\ Covered(wider, cells')
    BY <1>1, <1>8, <2>1, <2>2, MovesRight
  <2>5. PlanRight(wider, source, cells')
    BY <1>2, <2>1, SamePlanRight
  <2>6. RequestRight(wider, source, cells')
    BY <2>4, <2>5 DEF RequestRight
  <2>7. QED
    BY <1>1, <1>2, <1>5, <2>3, <2>6, BecomeRight
<1>9. QED
  BY <1>4, <1>6, <1>7, <1>8

\* Every step keeps the invariant.
LEMMA StepCharging == ChargingInv /\ [Next]_vars => ChargingInv'
<1> SUFFICES ASSUME ChargingInv, [Next]_vars PROVE ChargingInv'
  OBVIOUS
<1>1. PlanInv'
  BY StepPlan DEF ChargingInv
<1>2. ASSUME NEW r \in Requests, Step(r) PROVE ChargingInv'
  BY <1>1, <1>2, PlanStepRight, FetchPageRight, FetchFailsRight, StoresOnlyRight, LookRight,
     ChooseRight, RoutedRight DEF Step
<1>3. ASSUME UNCHANGED <<source, cells, known, requests>>, now' \in now..MaxTime PROVE ChargingInv'
  <2>1. now \in 0..MaxTime /\ now' \in 0..MaxTime /\ now <= now'
    BY <1>3, SettingTypes DEF ChargingInv
  <2>2. CacheRight(source, cells, known, now')
    <3>1. \A c \in DOMAIN cells : EntryRight(c, source, cells, known, now)
      BY DEF ChargingInv, CacheRight
    <3>2. \A c \in DOMAIN cells : EntryRight(c, source, cells, known, now')
      BY <2>1, <3>1 DEF EntryRight
    <3>3. QED
      BY <3>2 DEF ChargingInv, CacheRight
  <2>3. CacheRight(source', cells', known', now')
    BY <1>3, <2>2
  <2>4. \A r \in Requests : RequestRight(requests'[r], source', cells')
    BY <1>3 DEF ChargingInv
  <2>5. QED
    BY <1>1, <1>3, <2>1, <2>3, <2>4 DEF ChargingInv
<1>4. ASSUME Tick PROVE ChargingInv'
  <2>1. now' \in now..MaxTime
    BY <1>4, SettingTypes DEF Tick, ChargingInv
  <2>2. QED
    BY <1>3, <1>4, <2>1 DEF Tick
<1>5. ASSUME UNCHANGED vars PROVE ChargingInv'
  <2>1. now' \in now..MaxTime
    BY <1>5, SettingTypes DEF vars, ChargingInv
  <2>2. QED
    BY <1>3, <1>5, <2>1 DEF vars
<1>6. QED
  BY <1>2, <1>4, <1>5 DEF Next

\* Whatever cells, pages, failures, expired entries and other requests a request meets,
\* it holds the state that TypeOK describes (charging_stations.py:131-205,
\* charging_route.py:80-135).
THEOREM ChargingTypesHold == Spec => []TypeOK
<1>1. ChargingInv => TypeOK
  <2> SUFFICES ASSUME ChargingInv PROVE TypeOK
    OBVIOUS
  <2>1. source \in Sources /\ now \in 0..MaxTime /\ known \subseteq source
    BY DEF ChargingInv, CacheRight
  <2>2. source \subseteq Stations
    BY <2>1, ChargingAssumption
  <2>3. \A c \in DOMAIN cells : c \in Cells /\ cells[c] \in 0..now
    BY DEF ChargingInv, CacheRight, EntryRight
  <2>4. ASSUME NEW r \in Requests
        PROVE  LET q == requests[r] IN
                 /\ q.phase \in Phases /\ q.trip \in Trips
                 /\ q.radius \in {SearchRadius, MaxDetour}
                 /\ DOMAIN q.wave \subseteq Cells
                 /\ \A c \in DOMAIN q.wave : /\ q.wave[c].page \in 1..MaxPages
                                             /\ q.wave[c].rows \subseteq Stations
                 /\ Len(q.plan) <= Len(q.targets)
                 /\ \A i \in DOMAIN q.plan : q.plan[i] \subseteq Stations
    <3> DEFINE q == requests[r]
    <3>1. Planned(q) /\ ShapeRight(q, source) /\ WaveRight(q.wave, source)
      BY Unfold
    <3> HIDE DEF q
    <3>2. q.phase \in Phases /\ q.trip \in Trips /\ q.radius \in {SearchRadius, MaxDetour}
      BY <3>1 DEF Planned, ShapeRight
    <3>3. /\ DOMAIN q.wave \subseteq Cells
          /\ \A c \in DOMAIN q.wave : /\ q.wave[c].page \in 1..MaxPages
                                      /\ q.wave[c].rows \subseteq Stations
      BY <2>2, <3>1 DEF WaveRight, FetchRight, RowsOf
    <3>4. Len(q.plan) <= Len(q.targets) /\ \A i \in DOMAIN q.plan : q.plan[i] \subseteq Stations
      BY <2>2, <3>1 DEF ShapeRight
    <3>5. QED
      BY <3>2, <3>3, <3>4 DEF q
  <2>5. QED
    BY <2>1, <2>2, <2>3, <2>4 DEF TypeOK
<1>2. QED
  BY InitCharging, StepCharging, <1>1, PTL DEF Spec

\* Each target gets the nearest station not used before it, as far as the box of the wider
\* search reaches, and none only if there is none, whatever cells, pages, expired entries,
\* failures and other requests the answer is put together from.  Two kinds of stations may
\* be missed: those of the cells too dense to be read whole, and those between the end of
\* the box and the radius (charging_stations.py:16,27-66,131-205, geo.py:3-5,
\* charging_plan.py:102-121, irve_client.py:168-190).
THEOREM StationsAreTheNearest == Spec => []PlacementIsRight
<1>1. ChargingInv => PlacementIsRight
  <2> SUFFICES ASSUME ChargingInv, NEW r \in Requests, NEW i \in DOMAIN requests[r].plan
               PROVE  LET q == requests[r]
                          widest == Largest(SearchRadius, MaxDetour)
                          far(s) == Distance(Position[s], Place(q.trip, q.targets[i]))
                          free == {s \in source : /\ far(s) <= widest
                                                  /\ \A j \in 1..(i - 1) : s \notin q.plan[j]}
                          sure == {s \in free :
                                     /\ far(s) <= BoxSpan[widest]
                                     /\ \A c \in DOMAIN cells : Inside(s, c) => ~TooDense(c)}
                      IN  \/ q.plan[i] = {} /\ sure = {}
                          \/ \E s \in free : q.plan[i] = {s} /\ \A o \in sure : far(s) <= far(o)
    BY DEF PlacementIsRight
  <2>1. Placed(requests[r], i, source, cells)
    BY Unfold DEF PlanRight
  <2>2. \A c : TooDense(c) <=> Dense(source, c)
    BY DEF TooDense, Dense, SourceRows, RowsOf
  <2>3. QED
    BY <2>1, <2>2 DEF Placed, Sure, Free, Far
<1>2. QED
  BY InitCharging, StepCharging, <1>1, PTL DEF Spec

-----------------------------------------------------------------------------
(* Sets of numbers, in their order. *)

\* A number with its rank.
LEMMA NthIs ==
  ASSUME NEW all \in SUBSET Nat, IsFiniteSet(all), NEW s \in all, NEW i, Rank(all, s) = i - 1
  PROVE  Nth(all, i) = s
<1>1. ASSUME NEW o \in all, Rank(all, o) = Rank(all, s) PROVE o = s
  <2>1. Rank(all, s) \in Int /\ Rank(all, o) \in Int
    BY RanksAreBelow
  <2>2. ~(s < o) /\ ~(o < s)
    BY <1>1, <2>1, RanksGrow
  <2>3. QED
    BY <2>2
<1>2. QED
  BY <1>1 DEF Nth

\* There is one for every rank.
LEMMA NthIsThere ==
  ASSUME NEW all \in SUBSET Nat, IsFiniteSet(all), NEW i \in 1..Cardinality(all)
  PROVE  Nth(all, i) \in all /\ Rank(all, Nth(all, i)) = i - 1
<1>1. Cardinality(all) \in Nat
  BY FS_CardinalityType
<1>2. i - 1 \in 0..(Cardinality(all) - 1)
  BY <1>1
<1>3. PICK s \in all : Rank(all, s) = i - 1
  BY <1>2, RanksAreReached
<1>4. QED
  BY <1>3, NthIs

\* The first n values of f are the numbers of a set, in their order.
Enumerates(f, n, S) ==
  /\ \A i \in 1..n : f[i] \in S
  /\ \A s \in S : \E i \in 1..n : f[i] = s
  /\ \A i, j \in 1..n : i < j => f[i] < f[j]

\* The values of an increasing sequence are as many as its places.
LEMMA IncreasingImage ==
  ASSUME NEW n \in Nat, NEW f, NEW S \in SUBSET Nat, Enumerates(f, n, S)
  PROVE  IsFiniteSet(S) /\ Cardinality(S) = n
<1> DEFINE g == [i \in 1..n |-> f[i]]
<1>1. g \in [1..n -> S]
  BY DEF Enumerates
<1>2. \A s \in S : \E i \in 1..n : g[i] = s
  BY DEF Enumerates
<1>3. \A i, j \in 1..n : g[i] = g[j] => i = j
  <2>1. ASSUME NEW i \in 1..n, NEW j \in 1..n, g[i] = g[j] PROVE i = j
    <3>1. f[i] = f[j] /\ f[i] \in Nat
      BY <2>1 DEF Enumerates
    <3>2. ~(i < j) /\ ~(j < i)
      BY <3>1 DEF Enumerates
    <3>3. QED
      BY <3>2
  <2>2. QED
    BY <2>1
<1>4. IsFiniteSet(1..n) /\ Cardinality(1..n) = n
  BY FS_Interval
<1> HIDE DEF g
<1>5. g \in Surjection(1..n, S)
  BY <1>1, <1>2 DEF Surjection
<1>6. g \in Injection(1..n, S)
  <2>1. IsInjective(g)
    BY <1>1, <1>3 DEF IsInjective
  <2>2. QED
    BY <1>1, <2>1 DEF Injection
<1>7. QED
  BY <1>4, <1>5, <1>6, FS_Surjection

\* The values of an increasing sequence come in its order.
LEMMA IncreasingOrder ==
  ASSUME NEW n \in Nat, NEW f, NEW S \in SUBSET Nat, Enumerates(f, n, S)
  PROVE  \A i \in 1..n : Nth(S, i) = f[i]
<1> SUFFICES ASSUME NEW i \in 1..n PROVE Nth(S, i) = f[i]
  OBVIOUS
<1> DEFINE T == {o \in S : o < f[i]}
           m == i - 1
<1>1. IsFiniteSet(S)
  BY IncreasingImage
<1>2. m \in Nat
  OBVIOUS
<1>3. \A j \in 1..m : f[j] \in T
  BY DEF Enumerates
<1>4. ASSUME NEW s \in T PROVE \E j \in 1..m : f[j] = s
  <2>1. PICK j \in 1..n : f[j] = s
    BY DEF Enumerates
  <2>2. f[j] < f[i] /\ f[j] \in Nat /\ f[i] \in Nat
    BY <2>1 DEF Enumerates
  <2>3. ~(i < j) /\ i # j
    BY <2>2 DEF Enumerates
  <2>4. QED
    BY <2>1, <2>3
<1>5. \A j, k \in 1..m : j < k => f[j] < f[k]
  BY DEF Enumerates
<1>6. T \in SUBSET Nat
  OBVIOUS
<1> HIDE DEF T, m
<1>7. Cardinality(T) = m
  <2>1. Enumerates(f, m, T)
    BY <1>3, <1>4, <1>5 DEF Enumerates
  <2>2. QED
    BY <1>2, <1>6, <2>1, IncreasingImage
<1>8. Rank(S, f[i]) = i - 1
  BY <1>7 DEF Rank, T, m
<1>9. f[i] \in S
  BY DEF Enumerates
<1> DEFINE s == f[i]
<1>10. s \in S /\ Rank(S, s) = i - 1
  BY <1>8, <1>9
<1> HIDE DEF s
<1>11. Nth(S, i) = s
  BY <1>1, <1>10, NthIs
<1>12. QED
  BY <1>11 DEF s

\* The first numbers of a set: those whose rank is below their count.
LEMMA FirstOnes ==
  ASSUME NEW all \in SUBSET Nat, IsFiniteSet(all), NEW first \in SUBSET all,
         \A s \in first : \A o \in all : o < s => o \in first,
         NEW d \in all
  PROVE  d \in first <=> Rank(all, d) < Cardinality(first)
<1> DEFINE below == {o \in all : o < d}
<1>1. IsFiniteSet(first) /\ below \in SUBSET all /\ IsFiniteSet(below)
  <2>1. below \in SUBSET all
    OBVIOUS
  <2>2. QED
    BY <2>1, FS_Subset
<1>2. Cardinality(first) \in Nat /\ Cardinality(below) \in Nat
  BY <1>1, FS_CardinalityType
<1>3. ASSUME d \in first PROVE Cardinality(below) < Cardinality(first)
  <2>1. below \in SUBSET first /\ below # first
    <3>1. d \in first /\ d \notin below
      BY <1>3
    <3>2. \A o \in below : o \in first
      BY <1>3
    <3>3. QED
      BY <3>1, <3>2
  <2>2. Cardinality(below) <= Cardinality(first) /\ Cardinality(first) # Cardinality(below)
    BY <1>1, <2>1, FS_Subset
  <2>3. QED
    BY <1>2, <2>2
<1>4. ASSUME d \notin first PROVE Cardinality(first) <= Cardinality(below)
  <2>1. \A s \in first : s < d
    BY <1>4
  <2>2. first \in SUBSET below
    BY <2>1
  <2>3. QED
    BY <1>1, <2>2, FS_Subset
<1> HIDE DEF below
<1>5. d \in first <=> Cardinality(below) < Cardinality(first)
  BY <1>2, <1>3, <1>4
<1>6. QED
  BY <1>5 DEF Rank, below

-----------------------------------------------------------------------------
(* The stops among the points of the user. *)

\* The stops before a point, and its place among the points and the stops.
StopsBefore(w, stops, i) == {d \in stops : \E j \in 2..i : d <= w[j]}
PointPlace(w, stops, i) == i + Cardinality(StopsBefore(w, stops, i))

\* Points at distances along a trip, and stops.
OnTheRoad(w, stops) ==
  /\ w \in Seq(Nat) /\ Len(w) >= 2 /\ w[1] = 0
  /\ stops \in SUBSET Nat /\ IsFiniteSet(stops)

\* Places are positions among the points and the stops.
LEMMA BeforeTypes ==
  ASSUME NEW w, NEW stops, OnTheRoad(w, stops), NEW i \in 1..Len(w)
  PROVE  /\ StopsBefore(w, stops, i) \in SUBSET stops
         /\ IsFiniteSet(StopsBefore(w, stops, i))
         /\ Cardinality(StopsBefore(w, stops, i)) \in 0..Cardinality(stops)
         /\ Cardinality(stops) \in Nat
         /\ PointPlace(w, stops, i) \in 1..(Len(w) + Cardinality(stops))
<1> DEFINE before == StopsBefore(w, stops, i)
<1>1. before \in SUBSET stops
  BY DEF StopsBefore
<1>2. IsFiniteSet(stops) /\ Len(w) \in Nat
  BY DEF OnTheRoad
<1> HIDE DEF before
<1>3. IsFiniteSet(before) /\ Cardinality(before) <= Cardinality(stops)
  BY <1>1, <1>2, FS_Subset
<1>4. Cardinality(before) \in Nat /\ Cardinality(stops) \in Nat
  BY <1>2, <1>3, FS_CardinalityType
<1>5. QED
  BY <1>1, <1>2, <1>3, <1>4 DEF PointPlace, before

\* The points keep their order.
LEMMA PlacesGrow ==
  ASSUME NEW w, NEW stops, OnTheRoad(w, stops), NEW i \in 1..Len(w), NEW j \in 1..Len(w), i < j
  PROVE  PointPlace(w, stops, i) < PointPlace(w, stops, j)
<1> DEFINE b(k) == StopsBefore(w, stops, k)
<1>1. b(i) \in SUBSET b(j)
  <2>1. Len(w) \in Nat
    BY DEF OnTheRoad
  <2>2. 2..i \subseteq 2..j
    BY <2>1
  <2>3. QED
    BY <2>2 DEF StopsBefore
<1>2. /\ IsFiniteSet(b(j)) /\ Cardinality(b(i)) \in Int /\ Cardinality(b(j)) \in Int
  BY BeforeTypes
<1> HIDE DEF b
<1>3. Cardinality(b(i)) <= Cardinality(b(j))
  BY <1>1, <1>2, FS_Subset
<1>4. i \in Int /\ j \in Int
  BY DEF OnTheRoad
<1>5. QED
  BY <1>2, <1>3, <1>4 DEF PointPlace, b

\* Each point of the user is at its place, and nothing else of the user.
LEMMA PointsAreThere ==
  ASSUME NEW t, NEW stops, OnTheRoad(t.waypoints, stops),
         NEW points, points = InterleaveStops(t, stops)
  PROVE  LET w == t.waypoints
             place(i) == PointPlace(w, stops, i)
             size == Len(w) + Cardinality(stops)
         IN  /\ DOMAIN points = 1..size
             /\ \A i \in 1..Len(w) : points[place(i)] = User(i)
             /\ \A k \in 1..size : (\E i \in 1..Len(w) : place(i) = k) \/ points[k].user = 0
<1> DEFINE w == t.waypoints
           n == Len(w)
           place(i) == PointPlace(w, stops, i)
           size == n + Cardinality(stops)
           users(k) == {i \in DOMAIN w : place(i) = k}
           passed(k) == {i \in DOMAIN w : place(i) < k}
           at(k) == Nth(stops, k - Cardinality(passed(k)))
<1>1. points = [k \in 1..size |-> IF users(k) # {} THEN User(CHOOSE i \in users(k) : TRUE)
                                  ELSE Stop(at(k))]
  BY DEF InterleaveStops, PointPlace, StopsBefore
<1>2. DOMAIN w = 1..n /\ n \in Nat
  BY DEF OnTheRoad
<1>3. \A i \in 1..n : place(i) \in 1..size
  BY BeforeTypes
<1>4. \A i, j \in 1..n : i < j => place(i) < place(j)
  BY PlacesGrow
<1>5. \A i, j \in 1..n : place(i) = place(j) => i = j
  <2>1. ASSUME NEW i \in 1..n, NEW j \in 1..n, place(i) = place(j) PROVE i = j
    <3>1. place(i) \in Int /\ place(j) \in Int
      BY <1>3
    <3>2. ~(i < j) /\ ~(j < i)
      BY <1>4, <2>1, <3>1
    <3>3. QED
      BY <1>2, <3>2
  <2>2. QED
    BY <2>1
<1> HIDE DEF w, n, place, size, at
<1>6. DOMAIN points = 1..size
  BY <1>1
<1>7. ASSUME NEW i \in 1..n PROVE points[place(i)] = User(i)
  <2>1. users(place(i)) = {i}
    BY <1>2, <1>5
  <2>2. (CHOOSE j \in users(place(i)) : TRUE) = i
    BY <2>1
  <2>3. place(i) \in 1..size
    BY <1>3
  <2> HIDE DEF users
  <2>4. QED
    BY <1>1, <2>1, <2>2, <2>3
<1>8. ASSUME NEW k \in 1..size, \A i \in 1..n : place(i) # k PROVE points[k].user = 0
  <2>1. users(k) = {}
    BY <1>2, <1>8
  <2>2. points[k] = Stop(at(k))
    BY <1>1, <2>1
  <2>3. QED
    BY <2>2 DEF Stop
<1>9. QED
  BY <1>6, <1>7, <1>8 DEF w, n, place, size

\* The legs of the user are the places of the points.
LEMMA LegsAreThePlaces ==
  ASSUME NEW t, NEW stops, OnTheRoad(t.waypoints, stops),
         NEW points, points = InterleaveStops(t, stops),
         NEW legs, legs = UserLegs(points)
  PROVE  /\ Len(legs) = Len(t.waypoints)
         /\ \A i \in 1..Len(t.waypoints) : legs[i] = PointPlace(t.waypoints, stops, i)
<1> DEFINE n == Len(t.waypoints)
           place(i) == PointPlace(t.waypoints, stops, i)
           size == n + Cardinality(stops)
           mine == {k \in DOMAIN points : points[k].user # 0}
           f == [i \in 1..n |-> place(i)]
<1>1. /\ DOMAIN points = 1..size
      /\ \A i \in 1..n : points[place(i)] = User(i)
      /\ \A k \in 1..size : (\E i \in 1..n : place(i) = k) \/ points[k].user = 0
  BY PointsAreThere
<1>2. n \in Nat /\ size \in Nat
  <2>1. Cardinality(stops) \in Nat
    BY FS_CardinalityType DEF OnTheRoad
  <2>2. QED
    BY <2>1 DEF OnTheRoad
<1>3. \A i \in 1..n : place(i) \in 1..size
  BY BeforeTypes
<1>4. \A i, j \in 1..n : i < j => place(i) < place(j)
  BY PlacesGrow
<1>5. legs = [i \in 1..Cardinality(mine) |-> Nth(mine, i)]
  BY DEF UserLegs
<1> HIDE DEF place, n, size
<1>6. mine \in SUBSET Nat
  BY <1>1, <1>2
<1>7. \A i \in 1..n : place(i) \in mine
  <2>1. \A i \in 1..n : User(i).user # 0
    BY <1>2 DEF User
  <2>2. QED
    BY <1>1, <1>3, <2>1
<1>8. \A k \in mine : \E i \in 1..n : place(i) = k
  BY <1>1
<1> HIDE DEF mine
<1>9. Enumerates(f, n, mine) /\ \A i \in 1..n : f[i] = place(i)
  BY <1>4, <1>7, <1>8 DEF Enumerates
<1> HIDE DEF f
<1>10. Cardinality(mine) = n
  BY <1>2, <1>6, <1>9, IncreasingImage
<1>11. \A i \in 1..n : Nth(mine, i) = place(i)
  <2>1. \A i \in 1..n : Nth(mine, i) = f[i]
    BY <1>2, <1>6, <1>9, IncreasingOrder
  <2>2. QED
    BY <1>9, <2>1
<1>12. legs = [i \in 1..n |-> Nth(mine, i)]
  BY <1>5, <1>10
<1>13. Len(legs) = n
  BY <1>2, <1>12
<1>14. \A i \in 1..n : legs[i] = place(i)
  BY <1>11, <1>12
<1>15. QED
  BY <1>13, <1>14 DEF n, place

\* Between the places of two points that follow each other are the stops that are due
\* between them.
LEMMA StopsAreBetween ==
  ASSUME NEW t, NEW stops, OnTheRoad(t.waypoints, stops),
         NEW points, points = InterleaveStops(t, stops),
         NEW i \in 1..(Len(t.waypoints) - 1),
         NEW k \in (PointPlace(t.waypoints, stops, i) + 1)
                  ..(PointPlace(t.waypoints, stops, i + 1) - 1)
  PROVE  t.waypoints[i] <= points[k].at /\ points[k].at <= t.waypoints[i + 1]
<1> DEFINE w == t.waypoints
           n == Len(w)
           place(j) == PointPlace(w, stops, j)
           before(j) == StopsBefore(w, stops, j)
           size == n + Cardinality(stops)
           users == {j \in DOMAIN w : place(j) = k}
           passed == {j \in DOMAIN w : place(j) < k}
           m == k - Cardinality(passed)
           d == Nth(stops, m)
<1>1. /\ DOMAIN w = 1..n /\ n \in Nat /\ i \in 1..n /\ i + 1 \in 1..n
      /\ \A j \in 1..n : w[j] \in Nat
      /\ w[1] = 0 /\ stops \in SUBSET Nat /\ IsFiniteSet(stops)
  <2>1. w \in Seq(Nat) /\ w[1] = 0 /\ stops \in SUBSET Nat /\ IsFiniteSet(stops)
    BY DEF OnTheRoad
  <2>2. n \in Nat /\ i \in 1..(n - 1)
    BY <2>1
  <2> HIDE DEF w
  <2>3. DOMAIN w = 1..n /\ \A j \in 1..n : w[j] \in Nat
    BY <2>1
  <2> HIDE DEF n
  <2>4. i \in 1..n /\ i + 1 \in 1..n
    BY <2>2
  <2>5. QED
    BY <2>1, <2>2, <2>3, <2>4
<1>2. /\ \A j \in 1..n : /\ before(j) \in SUBSET stops /\ IsFiniteSet(before(j))
                         /\ Cardinality(before(j)) \in 0..Cardinality(stops)
                         /\ place(j) \in 1..size
      /\ Cardinality(stops) \in Nat
  BY <1>1, BeforeTypes
<1>3. \A j, l \in 1..n : j < l => place(j) < place(l)
  BY PlacesGrow
<1>4. /\ place(i) = i + Cardinality(before(i))
      /\ place(i + 1) = (i + 1) + Cardinality(before(i + 1))
  BY DEF PointPlace
<1>5. points = [l \in 1..size |->
         IF {j \in DOMAIN w : place(j) = l} # {}
         THEN User(CHOOSE j \in {jj \in DOMAIN w : place(jj) = l} : TRUE)
         ELSE Stop(Nth(stops, l - Cardinality({j \in DOMAIN w : place(j) < l})))]
  BY DEF InterleaveStops, PointPlace, StopsBefore
<1>6. k \in Int /\ place(i) < k /\ k < place(i + 1) /\ k \in 1..size
  <2>1. /\ place(i) \in 1..size /\ place(i + 1) \in 1..size
        /\ k \in (place(i) + 1)..(place(i + 1) - 1)
    BY <1>1, <1>2
  <2> DEFINE from == place(i)
             to == place(i + 1)
  <2>2. from \in 1..size /\ to \in 1..size /\ k \in (from + 1)..(to - 1)
    BY <2>1
  <2>3. size \in Int
    BY <1>1, <1>2
  <2> HIDE DEF from, to, size
  <2>4. k \in Int /\ from < k /\ k < to /\ k \in 1..size
    BY <2>2, <2>3
  <2>5. QED
    BY <2>4 DEF from, to
<1> DEFINE a == Cardinality(before(i))
           b == Cardinality(before(i + 1))
           all == Cardinality(stops)
<1>7. \A j \in 1..n : place(j) \in Int
  BY <1>2
<1>8. a \in Nat /\ b \in Nat /\ all \in Nat /\ a <= all /\ b <= all
  BY <1>1, <1>2
<1>9. i + a < k /\ k < (i + 1) + b
  BY <1>4, <1>6
<1> HIDE DEF a, b, all
<1> HIDE DEF place, before, size, w, n
<1>10. \A j \in 1..n : (place(j) < k <=> j <= i) /\ place(j) # k
  <2>1. ASSUME NEW j \in 1..n, j <= i PROVE place(j) < k
    <3>1. j = i \/ place(j) < place(i)
      BY <1>1, <1>3, <2>1
    <3>2. place(i) \in Int /\ place(j) \in Int
      BY <1>1, <1>7
    <3>3. QED
      BY <1>6, <3>1, <3>2
  <2>2. ASSUME NEW j \in 1..n, ~(j <= i) PROVE k < place(j)
    <3>1. j = i + 1 \/ place(i + 1) < place(j)
      BY <1>1, <1>3, <2>2
    <3>2. place(i + 1) \in Int /\ place(j) \in Int
      BY <1>1, <1>7
    <3>3. QED
      BY <1>6, <3>1, <3>2
  <2>3. QED
    BY <1>2, <1>6, <2>1, <2>2
<1>11. users = {} /\ passed = 1..i
  BY <1>1, <1>10
<1>12. Cardinality(passed) = i
  <2>1. Cardinality(1..i) = i
    BY <1>1, FS_Interval
  <2>2. QED
    BY <1>11, <2>1
<1>13. points[k] = Stop(d)
  BY <1>5, <1>6, <1>11
<1>14. m = k - i
  BY <1>12
<1> HIDE DEF users, passed, m
<1>15. m \in 1..all /\ a <= m - 1 /\ m - 1 < b
  BY <1>1, <1>6, <1>8, <1>9, <1>14
<1>16. d \in stops /\ Rank(stops, d) = m - 1
  BY <1>1, <1>15, NthIsThere DEF all
<1>17. ASSUME NEW j \in 1..n PROVE d \in before(j) <=> Rank(stops, d) < Cardinality(before(j))
  <2>1. \A s \in before(j) : \A o \in stops : o < s => o \in before(j)
    <3>1. ASSUME NEW s \in before(j), NEW o \in stops, o < s PROVE o \in before(j)
      <4>1. PICK l \in 2..j : s <= w[l]
        BY DEF before, StopsBefore
      <4>2. l \in 1..n /\ s \in stops
        BY <1>1, <1>2, <4>1
      <4>3. w[l] \in Nat /\ s \in Nat /\ o \in Nat
        BY <1>1, <4>2
      <4>4. o <= w[l]
        BY <3>1, <4>1, <4>3
      <4>5. QED
        BY <4>1, <4>4 DEF before, StopsBefore
    <3>2. QED
      BY <3>1
  <2>2. QED
    BY <1>1, <1>2, <1>16, <2>1, FirstOnes
<1>18. d \notin before(i) /\ d \in before(i + 1)
  <2>1. (d \in before(i) <=> m - 1 < a) /\ (d \in before(i + 1) <=> m - 1 < b)
    BY <1>1, <1>16, <1>17 DEF a, b
  <2>2. QED
    BY <1>15, <1>8, <2>1
<1> HIDE DEF d
<1>19. d \in Nat
  BY <1>1, <1>16
<1>20. w[i] <= d
  <2>1. CASE i = 1
    BY <1>1, <1>19, <2>1
  <2>2. CASE i # 1
    <3>1. i \in 2..i
      BY <1>1, <2>2
    <3>2. ~(d <= w[i])
      BY <1>16, <1>18, <3>1 DEF before, StopsBefore
    <3>3. QED
      BY <1>1, <1>19, <3>2
  <2>3. QED
    BY <2>1, <2>2
<1>21. d <= w[i + 1]
  <2>1. PICK j \in 2..(i + 1) : d <= w[j]
    BY <1>18 DEF before, StopsBefore
  <2>2. j \notin 2..i
    BY <1>16, <1>18, <2>1 DEF before, StopsBefore
  <2>3. j = i + 1
    BY <1>1, <2>1, <2>2
  <2>4. QED
    BY <2>1, <2>3
<1>22. points[k].at = d
  BY <1>13 DEF Stop
<1>23. QED
  BY <1>20, <1>21, <1>22 DEF w

-----------------------------------------------------------------------------
(* The legs of a request are those of its last routing. *)

LegsRight(q) ==
  q.legs # <<>> =>
    q.phase = "planned" /\ q.legs = UserLegs(InterleaveStops(q.trip, Stops(q)))

LegsInv == \A r \in Requests : LegsRight(requests[r])

\* The steps before the second routing do not make legs.
LEMMA NoLegsYet ==
  ASSUME ChargingInv, LegsInv, NEW r \in Requests, requests[r].phase # "planned",
         NEW next, Become(r, next), next.legs = requests[r].legs
  PROVE  LegsInv'
<1>1. DOMAIN requests = Requests
  BY DEF ChargingInv, PlanInv
<1>2. LegsRight(next)
  BY DEF LegsInv, LegsRight
<1>3. ASSUME NEW o \in Requests PROVE LegsRight(requests'[o])
  BY <1>1, <1>2 DEF LegsInv, Become
<1>4. QED
  BY <1>3 DEF LegsInv

\* Legs are made by the second routing, of the stops as they are.
LEMMA StepLegs == ChargingInv /\ LegsInv /\ [Next]_vars => LegsInv'
<1> SUFFICES ASSUME ChargingInv, LegsInv, [Next]_vars PROVE LegsInv'
  OBVIOUS
<1>1. \A r \in Requests : Fields \subseteq DOMAIN requests[r]
  BY Unfold
<1>2. ASSUME NEW r \in Requests, Plan(r) PROVE LegsInv'
  <2> DEFINE q == requests[r]
             targets == StopTargets(q.trip)
             keys == UNION {CellsAt(Place(q.trip, targets[i]), SearchRadius) : i \in DOMAIN targets}
             wave == Wave(keys)
  <2>1. /\ q.phase = "new"
        /\ \/ Become(r, [q EXCEPT !.phase = "refused"])
           \/ Become(r, [q EXCEPT !.phase = "no stops"])
           \/ Become(r, [q EXCEPT !.phase = "prefetch", !.targets = targets, !.wave = wave])
    BY <1>2 DEF Plan
  <2> HIDE DEF wave, targets
  <2>2. /\ [q EXCEPT !.phase = "refused"].legs = q.legs
        /\ [q EXCEPT !.phase = "no stops"].legs = q.legs
        /\ [q EXCEPT !.phase = "prefetch", !.targets = targets, !.wave = wave].legs = q.legs
    BY <1>1 DEF Fields
  <2>3. QED
    BY <2>1, <2>2, NoLegsYet
<1>3. ASSUME NEW r \in Requests, NEW c, FetchPage(r, c) PROVE LegsInv'
  <2> DEFINE q == requests[r]
             next == [q EXCEPT !.wave[c] = PageGot(@, c)]
  <2>1. q.phase \in {"prefetch", "near"} /\ Become(r, next)
    BY <1>3 DEF FetchPage, Waiting
  <2>2. next.legs = q.legs
    BY <1>1 DEF Fields
  <2>3. QED
    BY <2>1, <2>2, NoLegsYet
<1>4. ASSUME NEW r \in Requests, FetchFails(r) \/ Prefetched(r) \/ StoreFails(r) PROVE LegsInv'
  <2> DEFINE q == requests[r]
             next(phase) == [q EXCEPT !.phase = phase, !.wave = NoWave]
  <2>1. /\ q.phase \in {"prefetch", "near"}
        /\ Become(r, next("unavailable")) \/ Become(r, next("look")) \/ Become(r, next("failed"))
    BY <1>4 DEF FetchFails, Waiting, Prefetched, StoreFails, Gathered
  <2>2. \A phase : next(phase).legs = q.legs
    BY <1>1 DEF Fields
  <2> HIDE DEF next
  <2>3. QED
    BY <2>1, <2>2, NoLegsYet
<1>5. ASSUME NEW r \in Requests, Look(r) PROVE LegsInv'
  <2> DEFINE q == requests[r]
             wave == Wave(CellsAt(Due(q), q.radius))
             next == [q EXCEPT !.phase = "near", !.wave = wave]
  <2>1. q.phase = "look" /\ Become(r, next)
    BY <1>5 DEF Look
  <2> HIDE DEF wave
  <2>2. next.legs = q.legs
    BY <1>1 DEF Fields
  <2>3. QED
    BY <2>1, <2>2, NoLegsYet
<1>6. ASSUME NEW r \in Requests, Choose(r) PROVE LegsInv'
  <2> DEFINE q == requests[r]
             wider == [q EXCEPT !.phase = "look", !.radius = MaxDetour, !.wave = NoWave]
  <2>1. /\ q.phase = "near"
        /\ (\E found : Become(r, Settled(q, found))) \/ Become(r, wider)
    BY <1>6 DEF Choose
  <2>2. wider.legs = q.legs /\ \A found : Settled(q, found).legs = q.legs
    BY <1>1 DEF Settled, Fields
  <2> HIDE DEF wider
  <2>3. QED
    BY <2>1, <2>2, NoLegsYet
<1>7. ASSUME NEW r \in Requests, NoBoundaries(r) PROVE LegsInv'
  <2> DEFINE q == requests[r]
             next == [q EXCEPT !.phase = "no stops"]
  <2>1. q.phase = "route" /\ Become(r, next)
    BY <1>7 DEF NoBoundaries
  <2>2. next.legs = q.legs
    BY <1>1 DEF Fields
  <2>3. QED
    BY <2>1, <2>2, NoLegsYet
<1>8. ASSUME NEW r \in Requests, Routed(r) PROVE LegsInv'
  <2> DEFINE q == requests[r]
             legs == UserLegs(InterleaveStops(q.trip, Stops(q)))
             whole == [q EXCEPT !.phase = "planned", !.legs = legs]
             next(phase) == [q EXCEPT !.phase = phase]
  <2>1. /\ q.phase = "route"
        /\ Become(r, whole) \/ Become(r, next("planned")) \/ Become(r, next("failed"))
    BY <1>8 DEF Routed
  <2>2. \A phase : next(phase).legs = q.legs
    BY <1>1 DEF Fields
  <2> HIDE DEF legs
  <2>3. /\ whole.legs = legs /\ whole.phase = "planned" /\ whole.trip = q.trip
        /\ whole.plan = q.plan /\ whole.targets = q.targets
    BY <1>1 DEF Fields
  <2> HIDE DEF next, whole
  <2>4. CASE Become(r, whole)
    <3>1. Stops(whole) = Stops(q)
      BY <2>3 DEF Stops
    <3>2. LegsRight(whole)
      BY <2>3, <3>1 DEF LegsRight, legs
    <3>3. DOMAIN requests = Requests
      BY DEF ChargingInv, PlanInv
    <3>4. ASSUME NEW o \in Requests PROVE LegsRight(requests'[o])
      BY <2>4, <3>2, <3>3 DEF LegsInv, Become
    <3>5. QED
      BY <3>4 DEF LegsInv
  <2>5. QED
    BY <2>1, <2>2, <2>4, NoLegsYet
<1>9. ASSUME UNCHANGED requests PROVE LegsInv'
  BY <1>9 DEF LegsInv
<1>10. ASSUME NEW r \in Requests, Step(r) PROVE LegsInv'
  BY <1>2, <1>3, <1>4, <1>5, <1>6, <1>7, <1>8, <1>10 DEF Step
<1>11. QED
  BY <1>9, <1>10 DEF Next, Tick, vars

\* The points and the stops of a request are on its road.
LEMMA RequestIsOnTheRoad ==
  ASSUME NEW q, NEW src, Planned(q), ShapeRight(q, src),
         q.phase \notin {"new", "refused"}
  PROVE  OnTheRoad(q.trip.waypoints, Stops(q))
<1> DEFINE t == q.trip
           w == t.waypoints
           given == {j \in DOMAIN q.plan : q.plan[j] # {}}
           f == [i \in given |-> q.targets[i]]
<1>1. t \in Trips /\ q.targets = StopTargets(t)
  BY DEF Planned
<1>2. /\ w \in Seq(0..t.length) /\ Len(w) >= 2 /\ w[1] = 0 /\ t.length \in Nat
  BY <1>1, ChargingAssumption, TripTypes
<1>3. w \in Seq(Nat)
  <2> DEFINE road == 0..t.length
  <2>1. road \subseteq Nat /\ w \in Seq(road)
    BY <1>2
  <2> HIDE DEF road, w
  <2>2. Len(w) \in Nat /\ w \in [1..Len(w) -> road]
    BY <2>1
  <2>3. w \in [1..Len(w) -> Nat]
    BY <2>1, <2>2
  <2>4. QED
    BY <2>2, <2>3
<1>4. PICK n \in 0..Smallest(MaxStops, t.length) : StopTargets(t) = [k \in 1..n |-> k * t.interval]
  BY <1>1, TargetsAre
<1>5. n \in Nat /\ t.interval \in Nat
  BY <1>1, <1>4, TripTypes
<1>6. \A i \in 1..n : q.targets[i] \in Nat
  BY <1>1, <1>4, <1>5
<1>7. Len(q.targets) = n
  BY <1>1, <1>4, <1>5
<1>8. DOMAIN q.plan = 1..Len(q.plan) /\ Len(q.plan) \in Nat /\ Len(q.plan) <= n
  BY <1>7 DEF ShapeRight
<1>9. given \in SUBSET (1..n)
  BY <1>5, <1>8
<1>10. IsFiniteSet(given)
  <2>1. IsFiniteSet(1..n)
    BY <1>5, FS_Interval
  <2>2. QED
    BY <1>9, <2>1, FS_Subset
<1>11. Stops(q) = {q.targets[i] : i \in given}
  BY DEF Stops
<1> HIDE DEF given
<1>12. Stops(q) \in SUBSET Nat
  BY <1>6, <1>9, <1>11
<1>13. f \in Surjection(given, Stops(q))
  <2>1. f \in [given -> Stops(q)]
    BY <1>11
  <2>2. \A d \in Stops(q) : \E i \in given : f[i] = d
    BY <1>11
  <2> HIDE DEF f
  <2>3. QED
    BY <2>1, <2>2 DEF Surjection
<1>14. IsFiniteSet(Stops(q))
  BY <1>10, <1>13, FS_Surjection
<1>15. QED
  BY <1>2, <1>3, <1>12, <1>14 DEF OnTheRoad

\* The legs answered are those of the points of the user, each in its place, and every stop
\* lies between the two points that frame it, for any points, stops and intervals
\* (charging_route.py:24-61,122-135).
THEOREM LegsAreOfTheUser == Spec => []UserLegsKept
<1>1. Init => LegsInv
  <2> SUFFICES ASSUME Init, NEW r \in Requests PROVE LegsRight(requests[r])
    BY DEF LegsInv
  <2>1. PICK trip \in Trips : requests[r] = Request(trip)
    BY DEF Init
  <2>2. QED
    BY <2>1 DEF Request, LegsRight
<1>2. ChargingInv /\ LegsInv => UserLegsKept
  <2> SUFFICES ASSUME ChargingInv, LegsInv, NEW r \in Requests, requests[r].legs # <<>>
               PROVE  LET q == requests[r]
                          w == q.trip.waypoints
                          points == InterleaveStops(q.trip, Stops(q))
                      IN  /\ Len(q.legs) = Len(w)
                          /\ \A i \in 1..Len(w) : points[q.legs[i]] = User(i)
                          /\ \A i \in 1..(Len(w) - 1) :
                               \A k \in (q.legs[i] + 1)..(q.legs[i + 1] - 1) :
                                 w[i] <= points[k].at /\ points[k].at <= w[i + 1]
    BY DEF UserLegsKept
  <2> DEFINE q == requests[r]
             w == q.trip.waypoints
             n == Len(w)
             stops == Stops(q)
             points == InterleaveStops(q.trip, stops)
             place(i) == PointPlace(w, stops, i)
  <2>1. q.phase = "planned" /\ q.legs = UserLegs(points)
    BY DEF LegsInv, LegsRight
  <2>2. OnTheRoad(w, stops)
    BY <2>1, Unfold, RequestIsOnTheRoad
  <2>3. n \in Nat
    BY <2>2 DEF OnTheRoad
  <2> HIDE DEF stops
  <2>4. Len(q.legs) = n /\ \A i \in 1..n : q.legs[i] = place(i)
    BY <2>1, <2>2, LegsAreThePlaces
  <2>5. \A i \in 1..n : points[place(i)] = User(i)
    BY <2>2, PointsAreThere
  <2>6. \A i \in 1..(n - 1) : \A k \in (place(i) + 1)..(place(i + 1) - 1) :
          w[i] <= points[k].at /\ points[k].at <= w[i + 1]
    BY <2>2, StopsAreBetween
  <2> HIDE DEF points, n, place, q, w
  <2>7. \A i \in 1..n : points[q.legs[i]] = User(i)
    BY <2>4, <2>5
  <2>8. ASSUME NEW i \in 1..(n - 1), NEW k \in (q.legs[i] + 1)..(q.legs[i + 1] - 1)
        PROVE  w[i] <= points[k].at /\ points[k].at <= w[i + 1]
    <3>1. i \in 1..n /\ i + 1 \in 1..n
      BY <2>3
    <3>2. q.legs[i] = place(i) /\ q.legs[i + 1] = place(i + 1)
      BY <2>4, <3>1
    <3>3. QED
      BY <2>6, <3>2
  <2>9. QED
    BY <2>4, <2>7, <2>8 DEF points, n, q, w, stops
<1>3. QED
  BY InitCharging, StepCharging, StepLegs, <1>1, <1>2, PTL DEF Spec

=============================================================================
