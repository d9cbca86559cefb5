------------------------- MODULE PointGesturesProofs -------------------------
(***************************************************************************)
(* What is proved of PointGestures for any places, loops and limits.       *)
(*                                                                         *)
(* The recursive functions of that module (Lines, LegBoundaries,           *)
(* InsertViaPoints) are defined step by step over 0..n: that such a        *)
(* function exists is proved here by a least counterexample, and so is     *)
(* what holds of all its values.  From there: the lists of points and      *)
(* their ids; where an insertion comes; the coordinates of a route, whose  *)
(* boundaries are those of its legs; what a loop is thinned out to.  The   *)
(* inductive invariant then says what a gesture and a form still refer to. *)
(***************************************************************************)
EXTENDS PointGestures, FiniteSetTheorems, FunctionTheorems, SequenceTheorems,
  WellFoundedInduction, TLAPS

-----------------------------------------------------------------------------
(* Numbers and recursion. *)

\* A set of naturals has a least element.
LEMMA LeastNatural ==
  ASSUME NEW S \in SUBSET Nat, S # {}
  PROVE  \E m \in S : \A k \in S : m <= k
<1> DEFINE R == {pair \in Nat \X Nat : pair[1] < pair[2]}
<1>1. IsWellFoundedOn(R, Nat)
  BY NatLessThanWellFounded DEF OpToRel
<1> HIDE DEF R
<1>2. PICK m \in S : \A k \in S : ~(<<k, m>> \in R)
  BY <1>1, WFMin
<1>3. ASSUME NEW k \in S PROVE m <= k
  <2>1. ~(k < m)
    BY <1>2 DEF R
  <2>2. QED
    BY <2>1
<1>4. QED
  BY <1>3

\* A set of numbers that has 0, and each number whose predecessor it has, has all.
LEMMA AllReached ==
  ASSUME NEW n \in Nat, NEW S, 0 \in S, \A k \in 1..n : k - 1 \in S => k \in S
  PROVE  \A k \in 0..n : k \in S
<1> DEFINE missed == {k \in 0..n : k \notin S}
<1>1. SUFFICES ASSUME missed # {} PROVE FALSE
  OBVIOUS
<1>2. missed \in SUBSET Nat
  OBVIOUS
<1>3. PICK m \in missed : \A k \in missed : m <= k
  BY <1>1, <1>2, LeastNatural
<1>4. m \in 1..n /\ m - 1 \in 0..n /\ ~(m <= m - 1)
  BY <1>3
<1>5. m - 1 \in S
  BY <1>3, <1>4
<1>6. QED
  BY <1>3, <1>4, <1>5

\* The values reached from a first one, each by the step from the one before.
Recursive(f, a, n, step) == f[0] = a /\ \A k \in 1..n : f[k] = step[<<k, f[k - 1]>>]

\* They are there if every step is possible.
LEMMA RecursionExists ==
  ASSUME NEW S, NEW a \in S, NEW n \in Nat, NEW step \in [(1..n) \X S -> S]
  PROVE  \E f \in [0..n -> S] : Recursive(f, a, n, step)
<1> DEFINE Reaches(m, f) == f[0] = a /\ \A k \in 1..m : f[k] = step[<<k, f[k - 1]>>]
           reached == {m \in 0..n : \E f \in [0..m -> S] : Reaches(m, f)}
<1>1. 0 \in reached
  <2> DEFINE f == [k \in 0..0 |-> a]
  <2>1. f \in [0..0 -> S] /\ Reaches(0, f)
    OBVIOUS
  <2> HIDE DEF f
  <2>2. QED
    BY <2>1
<1>2. ASSUME NEW m \in 1..n, m - 1 \in reached PROVE m \in reached
  <2>1. PICK f \in [0..(m - 1) -> S] : Reaches(m - 1, f)
    BY <1>2
  <2> DEFINE g == [k \in 0..m |-> IF k = m THEN step[<<m, f[m - 1]>>] ELSE f[k]]
  <2>2. f[m - 1] \in S
    BY <2>1
  <2>3. step[<<m, f[m - 1]>>] \in S
    BY <2>2
  <2>4. \A k \in 0..(m - 1) : g[k] = f[k] /\ g[k] \in S
    BY <2>1
  <2>5. g[m] = step[<<m, f[m - 1]>>]
    OBVIOUS
  <2>6. g \in [0..m -> S]
    BY <2>3, <2>1
  <2> HIDE DEF g
  <2>7. Reaches(m, g)
    <3>1. g[0] = a
      BY <2>1, <2>4
    <3>2. ASSUME NEW k \in 1..m PROVE g[k] = step[<<k, g[k - 1]>>]
      <4>1. CASE k = m
        BY <2>4, <2>5, <4>1
      <4>2. CASE k # m
        <5>1. k \in 1..(m - 1) /\ k - 1 \in 0..(m - 1) /\ k \in 0..(m - 1)
          BY <4>2
        <5>2. f[k] = step[<<k, f[k - 1]>>]
          BY <2>1, <5>1
        <5>3. QED
          BY <2>4, <5>1, <5>2
      <4>3. QED
        BY <4>1, <4>2
    <3>3. QED
      BY <3>1, <3>2
  <2>8. QED
    BY <2>6, <2>7
<1>3. n \in reached
  <2> HIDE DEF reached
  <2>1. \A k \in 0..n : k \in reached
    BY <1>1, <1>2, AllReached
  <2>2. QED
    BY <2>1
<1>4. QED
  BY <1>3 DEF Recursive

\* The numbers of a finite set are ranked from 0 on.
LEMMA RanksAreBelow ==
  ASSUME NEW all \in SUBSET Nat, IsFiniteSet(all), NEW s \in all
  PROVE  Rank(all, s) \in 0..(Cardinality(all) - 1)
<1> DEFINE before == {o \in all : o < s}
<1>1. before \in SUBSET all /\ s \notin before
  OBVIOUS
<1>2. /\ IsFiniteSet(before) /\ Cardinality(before) <= Cardinality(all)
      /\ Cardinality(all) # Cardinality(before)
  BY <1>1, FS_Subset
<1>3. Cardinality(before) \in Nat /\ Cardinality(all) \in Nat
  BY <1>2, FS_CardinalityType
<1>4. QED
  BY <1>2, <1>3 DEF Rank

\* The higher the number, the higher its rank.
LEMMA RanksGrow ==
  ASSUME NEW all \in SUBSET Nat, IsFiniteSet(all), NEW s \in all, NEW o \in all, o < s
  PROVE  Rank(all, o) < Rank(all, s)
<1> DEFINE before(x) == {e \in all : e < x}
<1>1. before(o) \in SUBSET before(s) /\ o \in before(s) /\ o \notin before(o)
  <2>1. \A e \in all : e < o => e < s
    OBVIOUS
  <2>2. o \in before(s) /\ o \notin before(o)
    OBVIOUS
  <2>3. before(o) \subseteq before(s)
    BY <2>1
  <2>4. QED
    BY <2>2, <2>3
<1>2. before(s) \in SUBSET all
  OBVIOUS
<1>3. IsFiniteSet(before(s))
  BY <1>2, FS_Subset
<1>4. /\ IsFiniteSet(before(o)) /\ Cardinality(before(o)) <= Cardinality(before(s))
      /\ Cardinality(before(o)) # Cardinality(before(s))
  BY <1>1, <1>3, FS_Subset
<1>5. Cardinality(before(o)) \in Nat /\ Cardinality(before(s)) \in Nat
  BY <1>3, <1>4, FS_CardinalityType
<1>6. QED
  BY <1>4, <1>5 DEF Rank

\* Every number below the count is the rank of one.
LEMMA RanksAreReached ==
  ASSUME NEW all \in SUBSET Nat, IsFiniteSet(all), NEW k \in 0..(Cardinality(all) - 1)
  PROVE  \E s \in all : Rank(all, s) = k
<1> DEFINE n == Cardinality(all)
           numbers == 0..(n - 1)
           f == [s \in all |-> Rank(all, s)]
<1>1. n \in Nat
  BY FS_CardinalityType
<1>2. IsFiniteSet(numbers) /\ Cardinality(numbers) = n
  BY <1>1, FS_Interval
<1>3. \A s \in all : Rank(all, s) \in numbers
  BY RanksAreBelow
<1>4. ASSUME NEW s \in all, NEW o \in all, Rank(all, s) = Rank(all, o) PROVE s = o
  <2>1. Rank(all, s) \in Int /\ Rank(all, o) \in Int
    BY <1>3
  <2>2. ~(s < o) /\ ~(o < s)
    BY <1>4, <2>1, RanksGrow
  <2>3. QED
    BY <2>2
<1> HIDE DEF n, numbers
<1>5. f \in [all -> numbers]
  BY <1>3
<1>6. IsInjective(f)
  BY <1>4 DEF IsInjective
<1>7. f \in Injection(all, numbers)
  BY <1>5, <1>6 DEF Injection
<1> HIDE DEF f
<1>8. f \in Surjection(all, numbers)
  <2>1. Cardinality(all) = Cardinality(numbers)
    BY <1>2 DEF n
  <2>2. QED
    BY <1>2, <1>7, <2>1, FS_Injection
<1>9. \E s \in all : f[s] = k
  BY <1>8 DEF Surjection, numbers, n
<1>10. QED
  BY <1>9 DEF f

\* A number with its rank.
LEMMA NthIs ==
  ASSUME NEW all \in SUBSET Nat, IsFiniteSet(all), NEW s \in all, NEW i, Rank(all, s) = i - 1
  PROVE  Nth(all, i) = s
<1>1. ASSUME NEW o \in all, Rank(all, o) = Rank(all, s) PROVE o = s
  <2>1. Rank(all, s) \in Int /\ Rank(all, o) \in Int
    BY RanksAreBelow
  <2>2. ~(s < o) /\ ~(o < s)
    BY <1>1, <2>1, RanksGrow
  <2>3. QED
    BY <2>2
<1>2. QED
  BY <1>1 DEF Nth

\* There is one for every rank.
LEMMA NthIsThere ==
  ASSUME NEW all \in SUBSET Nat, IsFiniteSet(all), NEW i \in 1..Cardinality(all)
  PROVE  Nth(all, i) \in all /\ Rank(all, Nth(all, i)) = i - 1
<1>1. Cardinality(all) \in Nat
  BY FS_CardinalityType
<1>2. i - 1 \in 0..(Cardinality(all) - 1)
  BY <1>1
<1>3. PICK s \in all : Rank(all, s) = i - 1
  BY <1>2, RanksAreReached
<1>4. QED
  BY <1>3, NthIs

-----------------------------------------------------------------------------
(* Lists of points. *)

\* An entry is put in; those from there on move down.
LEMMA InsertIs ==
  ASSUME NEW S, NEW s \in Seq(S), NEW i \in 1..(Len(s) + 1), NEW e \in S
  PROVE  /\ InsertAt(s, i, e) \in Seq(S) /\ Len(InsertAt(s, i, e)) = Len(s) + 1
         /\ InsertAt(s, i, e)[i] = e
         /\ \A k \in 1..Len(s) :
              /\ k < i => InsertAt(s, i, e)[k] = s[k]
              /\ k >= i => InsertAt(s, i, e)[k + 1] = s[k]
<1> DEFINE low == SubSeq(s, 1, i - 1)
           high == SubSeq(s, i, Len(s))
           n == Len(s)
<1>1. n \in Nat /\ i \in Int /\ \A k \in 1..n : s[k] \in S
  BY SMT
<1>2. /\ low \in Seq(S) /\ Len(low) = i - 1
      /\ \A k \in 1..(i - 1) : low[k] = s[k]
  BY <1>1, SubSeqProperties
<1>3. /\ high \in Seq(S) /\ Len(high) = n - i + 1
      /\ \A k \in 1..(n - i + 1) : high[k] = s[i + k - 1]
  BY <1>1, SubSeqProperties
<1> HIDE DEF low, high
<1> DEFINE lower == low \o <<e>>
<1>4. /\ lower \in Seq(S) /\ Len(lower) = i
      /\ lower[i] = e /\ \A k \in 1..(i - 1) : lower[k] = s[k]
  BY <1>1, <1>2
<1>5. InsertAt(s, i, e) = lower \o high
  BY DEF InsertAt, low, high
<1> HIDE DEF lower
<1>6. /\ lower \o high \in Seq(S) /\ Len(lower \o high) = Len(lower) + Len(high)
      /\ \A k \in 1..(Len(lower) + Len(high)) :
           (lower \o high)[k] = IF k <= Len(lower) THEN lower[k] ELSE high[k - Len(lower)]
  BY <1>3, <1>4, ConcatProperties
<1> DEFINE t == lower \o high
<1>7. /\ t \in Seq(S) /\ Len(t) = n + 1
      /\ \A k \in 1..(n + 1) : t[k] = IF k <= i THEN lower[k] ELSE high[k - i]
  BY <1>1, <1>3, <1>4, <1>6
<1>8. t = InsertAt(s, i, e)
  BY <1>5
<1> HIDE DEF t, n
<1>9. t[i] = e
  BY <1>1, <1>4, <1>7 DEF n
<1>10. ASSUME NEW k \in 1..n, k < i PROVE t[k] = s[k]
  BY <1>1, <1>4, <1>7, <1>10
<1>11. ASSUME NEW k \in 1..n, k >= i PROVE t[k + 1] = s[k]
  <2>1. t[k + 1] = high[k + 1 - i]
    BY <1>1, <1>7, <1>11
  <2>2. k + 1 - i \in 1..(n - i + 1)
    BY <1>1, <1>11
  <2>3. high[k + 1 - i] = s[i + (k + 1 - i) - 1] /\ i + (k + 1 - i) - 1 = k
    BY <1>1, <1>3, <2>2
  <2>4. QED
    BY <2>1, <2>3
<1>12. QED
  BY <1>7, <1>8, <1>9, <1>10, <1>11 DEF n

\* An entry is taken out; those after it move up.
LEMMA RemoveIs ==
  ASSUME NEW S, NEW s \in Seq(S), NEW i \in 1..Len(s)
  PROVE  /\ RemoveAt(s, i) \in Seq(S) /\ Len(RemoveAt(s, i)) = Len(s) - 1
         /\ \A k \in 1..(Len(s) - 1) :
              /\ k < i => RemoveAt(s, i)[k] = s[k]
              /\ k >= i => RemoveAt(s, i)[k] = s[k + 1]
<1> DEFINE low == SubSeq(s, 1, i - 1)
           high == SubSeq(s, i + 1, Len(s))
           n == Len(s)
           t == low \o high
<1>1. n \in Nat /\ i \in Int /\ \A k \in 1..n : s[k] \in S
  BY SMT
<1>2. low \in Seq(S) /\ Len(low) = i - 1 /\ \A k \in 1..(i - 1) : low[k] = s[k]
  BY <1>1, SubSeqProperties
<1>3. /\ high \in Seq(S) /\ Len(high) = IF i + 1 <= n THEN n - (i + 1) + 1 ELSE 0
      /\ \A k \in 1..(n - (i + 1) + 1) : high[k] = s[(i + 1) + k - 1]
  BY <1>1, SubSeqProperties
<1> HIDE DEF low, high
<1>4. /\ t \in Seq(S) /\ Len(t) = Len(low) + Len(high)
      /\ \A k \in 1..(Len(low) + Len(high)) :
           t[k] = IF k <= Len(low) THEN low[k] ELSE high[k - Len(low)]
  BY <1>2, <1>3, ConcatProperties
<1>5. Len(high) = n - i
  BY <1>1, <1>3
<1>6. RemoveAt(s, i) = t
  BY DEF RemoveAt, low, high
<1> HIDE DEF t
<1>7. /\ Len(t) = n - 1
      /\ \A k \in 1..(n - 1) : t[k] = IF k <= i - 1 THEN low[k] ELSE high[k - (i - 1)]
  BY <1>1, <1>2, <1>4, <1>5
<1> HIDE DEF n
<1>8. ASSUME NEW k \in 1..(n - 1), k < i PROVE t[k] = s[k]
  BY <1>1, <1>2, <1>7, <1>8
<1>9. ASSUME NEW k \in 1..(n - 1), k >= i PROVE t[k] = s[k + 1]
  <2>1. t[k] = high[k - (i - 1)]
    BY <1>1, <1>7, <1>9
  <2>2. k - (i - 1) \in 1..(n - (i + 1) + 1)
    BY <1>1, <1>9
  <2>3. high[k - (i - 1)] = s[(i + 1) + (k - (i - 1)) - 1]
    BY <1>3, <2>2
  <2>4. (i + 1) + (k - (i - 1)) - 1 = k + 1
    BY <1>1
  <2>5. QED
    BY <2>1, <2>3, <2>4
<1>10. QED
  BY <1>4, <1>6, <1>7, <1>8, <1>9 DEF n

\* What was put in and taken out again leaves the list as it was.
LEMMA RemoveInserted ==
  ASSUME NEW S, NEW s \in Seq(S), NEW i \in 1..(Len(s) + 1), NEW e \in S
  PROVE  RemoveAt(InsertAt(s, i, e), i) = s
<1> DEFINE t == InsertAt(s, i, e)
           u == RemoveAt(t, i)
           n == Len(s)
<1>1. /\ t \in Seq(S) /\ Len(t) = n + 1
      /\ \A k \in 1..n : (k < i => t[k] = s[k]) /\ (k >= i => t[k + 1] = s[k])
  BY InsertIs
<1>2. n \in Nat /\ i \in 1..(n + 1)
  OBVIOUS
<1> HIDE DEF t, n
<1>3. i \in 1..Len(t) /\ Len(t) - 1 = n
  BY <1>1, <1>2
<1>4. /\ u \in Seq(S) /\ Len(u) = Len(t) - 1
      /\ \A k \in 1..(Len(t) - 1) : (k < i => u[k] = t[k]) /\ (k >= i => u[k] = t[k + 1])
  BY <1>1, <1>3, RemoveIs
<1>5. /\ u \in Seq(S) /\ Len(u) = n
      /\ \A k \in 1..n : (k < i => u[k] = t[k]) /\ (k >= i => u[k] = t[k + 1])
  BY <1>3, <1>4
<1> HIDE DEF u
<1>6. ASSUME NEW k \in 1..n PROVE u[k] = s[k]
  <2>1. k < i \/ k >= i
    BY <1>2
  <2>2. QED
    BY <1>1, <1>5, <2>1
<1>7. u = s
  BY <1>5, <1>6, SeqEqual DEF n
<1>8. QED
  BY <1>7 DEF u, t

\* What a point of the list is.
Point == [id : Ids, at : Places]

\* The places of the points are a list as long.
LEMMA PlacesAre ==
  ASSUME NEW ps \in Seq(Point)
  PROVE  /\ PlacesOf(ps) \in Seq(Places) /\ Len(PlacesOf(ps)) = Len(ps)
         /\ \A k \in 1..Len(ps) : PlacesOf(ps)[k] = ps[k].at /\ ps[k].at \in Places
<1>1. /\ DOMAIN ps = 1..Len(ps) /\ Len(ps) \in Nat
      /\ \A k \in 1..Len(ps) : ps[k] \in Point
  OBVIOUS
<1>2. \A k \in 1..Len(ps) : ps[k].at \in Places
  BY <1>1 DEF Point
<1>3. PlacesOf(ps) = [k \in 1..Len(ps) |-> ps[k].at]
  BY <1>1 DEF PlacesOf
<1>4. QED
  BY <1>1, <1>2, <1>3

\* A point put in the list is a place put in that of the places.
LEMMA PlacesOfInserted ==
  ASSUME NEW ps \in Seq(Point), NEW i \in 1..(Len(ps) + 1), NEW q \in Point
  PROVE  PlacesOf(InsertAt(ps, i, q)) = InsertAt(PlacesOf(ps), i, q.at)
<1> DEFINE places == PlacesOf(ps)
           qs == InsertAt(ps, i, q)
           left == PlacesOf(qs)
           right == InsertAt(places, i, q.at)
           n == Len(ps)
<1>1. /\ places \in Seq(Places) /\ Len(places) = n
      /\ \A k \in 1..n : places[k] = ps[k].at
  BY PlacesAre
<1>2. /\ qs \in Seq(Point) /\ Len(qs) = n + 1 /\ qs[i] = q
      /\ \A k \in 1..n : (k < i => qs[k] = ps[k]) /\ (k >= i => qs[k + 1] = ps[k])
  BY InsertIs
<1>3. q.at \in Places /\ n \in Nat /\ i \in 1..(n + 1)
  BY DEF Point
<1> HIDE DEF places, qs, n
<1>4. /\ right \in Seq(Places) /\ Len(right) = n + 1 /\ right[i] = q.at
      /\ \A k \in 1..n :
           (k < i => right[k] = places[k]) /\ (k >= i => right[k + 1] = places[k])
  <2>1. i \in 1..(Len(places) + 1)
    BY <1>1, <1>3
  <2> DEFINE e == q.at
  <2>2. e \in Places
    BY <1>3
  <2> HIDE DEF e
  <2>3. LET r == InsertAt(places, i, e)
        IN  /\ r \in Seq(Places) /\ Len(r) = Len(places) + 1 /\ r[i] = e
            /\ \A k \in 1..Len(places) :
                 (k < i => r[k] = places[k]) /\ (k >= i => r[k + 1] = places[k])
    <3>1. places \in Seq(Places)
      BY <1>1
    <3>2. QED
      BY ONLY <2>1, <2>2, <3>1, InsertIs
  <2>4. QED
    BY <1>1, <2>3 DEF e
<1>5. /\ left \in Seq(Places) /\ Len(left) = n + 1
      /\ \A k \in 1..(n + 1) : left[k] = qs[k].at
  BY <1>2, PlacesAre
<1> HIDE DEF left, right
<1>6. ASSUME NEW k \in 1..(n + 1) PROVE left[k] = right[k]
  <2>1. CASE k < i
    <3>1. k \in 1..n
      BY <1>3, <2>1
    <3>2. QED
      BY <1>1, <1>2, <1>4, <1>5, <2>1, <3>1
  <2>2. CASE k = i
    BY <1>2, <1>4, <1>5, <2>2
  <2>3. CASE k > i
    <3>1. k - 1 \in 1..n /\ k - 1 >= i /\ (k - 1) + 1 = k
      BY <1>3, <2>3
    <3>2. qs[k] = ps[k - 1] /\ right[k] = places[k - 1]
      BY <1>2, <1>4, <3>1
    <3>3. QED
      BY <1>1, <1>5, <3>1, <3>2
  <2>4. QED
    BY <1>3, <2>1, <2>2, <2>3
<1>7. left = right
  BY <1>4, <1>5, <1>6, SeqEqual
<1>8. QED
  BY <1>7 DEF left, right, places, qs

\* A lower rank is that of a lower number.
LEMMA NthGrows ==
  ASSUME NEW all \in SUBSET Nat, IsFiniteSet(all),
         NEW i \in 1..Cardinality(all), NEW j \in 1..Cardinality(all), i < j
  PROVE  Nth(all, i) < Nth(all, j)
<1> DEFINE s == Nth(all, i)
           o == Nth(all, j)
<1>1. s \in all /\ Rank(all, s) = i - 1 /\ o \in all /\ Rank(all, o) = j - 1
  BY NthIsThere
<1>2. Cardinality(all) \in Nat
  BY FS_CardinalityType
<1> HIDE DEF s, o
<1>3. s # o /\ ~(o < s)
  <2>1. i - 1 # j - 1 /\ ~(j - 1 < i - 1)
    BY <1>2
  <2>2. QED
    BY <1>1, <2>1, RanksGrow
<1>4. s \in Nat /\ o \in Nat
  BY <1>1
<1>5. QED
  BY <1>3, <1>4 DEF s, o

\* What is left of a list is in its order, and all of it that was kept.
LEMMA AtPositionsIs ==
  ASSUME NEW S, NEW s \in Seq(S), NEW kept \in SUBSET (1..Len(s))
  PROVE  /\ IsFiniteSet(kept) /\ Cardinality(kept) \in 0..Len(s)
         /\ AtPositions(s, kept) \in Seq(S)
         /\ Len(AtPositions(s, kept)) = Cardinality(kept)
         /\ \A k \in 1..Cardinality(kept) :
              Nth(kept, k) \in kept /\ AtPositions(s, kept)[k] = s[Nth(kept, k)]
<1>1. Len(s) \in Nat /\ \A k \in 1..Len(s) : s[k] \in S
  OBVIOUS
<1>2. IsFiniteSet(1..Len(s)) /\ Cardinality(1..Len(s)) = Len(s)
  <2> DEFINE n == Len(s)
  <2>1. n \in Nat
    BY <1>1
  <2> HIDE DEF n
  <2>2. IsFiniteSet(1..n) /\ Cardinality(1..n) = n
    BY <2>1, FS_Interval
  <2>3. QED
    BY <2>2 DEF n
<1>3. IsFiniteSet(kept) /\ Cardinality(kept) <= Len(s)
  BY <1>2, FS_Subset
<1>4. Cardinality(kept) \in Nat
  BY <1>3, FS_CardinalityType
<1>5. kept \in SUBSET Nat
  BY <1>1
<1>6. \A k \in 1..Cardinality(kept) : Nth(kept, k) \in kept
  BY <1>3, <1>5, NthIsThere
<1> DEFINE n == Cardinality(kept)
           t == AtPositions(s, kept)
<1>7. t = [k \in 1..n |-> s[Nth(kept, k)]]
  BY DEF AtPositions
<1> HIDE DEF n, t
<1>8. n \in Nat /\ \A k \in 1..n : Nth(kept, k) \in kept
  BY <1>4, <1>6 DEF n
<1>9. \A k \in 1..n : s[Nth(kept, k)] \in S
  BY <1>1, <1>8
<1>10. t \in Seq(S) /\ Len(t) = n /\ \A k \in 1..n : t[k] = s[Nth(kept, k)]
  BY <1>7, <1>8, <1>9
<1>11. QED
  BY <1>1, <1>3, <1>4, <1>8, <1>10 DEF n, t

\* Points have ids of their own.
Sound(ps) ==
  /\ ps \in Seq(Point)
  /\ \A i, j \in 1..Len(ps) : ps[i].id = ps[j].id => i = j

\* A point with an id of its own may be put anywhere.
LEMMA InsertSound ==
  ASSUME NEW ps, Sound(ps), NEW i \in 1..(Len(ps) + 1), NEW q \in Point,
         q.id \notin IdsOf(ps)
  PROVE  Sound(InsertAt(ps, i, q)) /\ Len(InsertAt(ps, i, q)) = Len(ps) + 1
<1> DEFINE n == Len(ps)
           qs == InsertAt(ps, i, q)
<1>1. ps \in Seq(Point) /\ n \in Nat /\ DOMAIN ps = 1..n
  BY DEF Sound
<1>2. /\ qs \in Seq(Point) /\ Len(qs) = n + 1 /\ qs[i] = q
      /\ \A k \in 1..n : (k < i => qs[k] = ps[k]) /\ (k >= i => qs[k + 1] = ps[k])
  <2>1. i \in 1..(Len(ps) + 1)
    OBVIOUS
  <2>2. QED
    BY ONLY <1>1, <2>1, q \in Point, InsertIs
<1>3. \A k \in 1..n : ps[k].id # q.id
  BY <1>1 DEF IdsOf
<1> HIDE DEF qs
<1> DEFINE From(k) == IF k < i THEN k ELSE k - 1
<1>4. ASSUME NEW k \in 1..(n + 1), k # i
      PROVE  From(k) \in 1..n /\ qs[k] = ps[From(k)]
  <2>1. CASE k < i
    BY <1>1, <1>2, <2>1
  <2>2. CASE k > i
    <3>1. k - 1 \in 1..n /\ k - 1 >= i /\ (k - 1) + 1 = k /\ ~(k < i)
      BY <1>1, <2>2
    <3>2. qs[k] = ps[k - 1]
      BY <1>2, <3>1
    <3>3. QED
      BY <3>1, <3>2
  <2>3. QED
    BY <1>1, <1>4, <2>1, <2>2
<1>5. ASSUME NEW k \in 1..(n + 1), NEW l \in 1..(n + 1), qs[k].id = qs[l].id
      PROVE  k = l
  <2>1. CASE k = i /\ l # i
    BY <1>2, <1>3, <1>4, <1>5, <2>1
  <2>2. CASE k # i /\ l = i
    BY <1>2, <1>3, <1>4, <1>5, <2>2
  <2>3. CASE k # i /\ l # i
    <3>1. From(k) = From(l)
      <4>1. ps[From(k)].id = ps[From(l)].id /\ From(k) \in 1..n /\ From(l) \in 1..n
        BY <1>4, <1>5, <2>3
      <4> HIDE DEF From
      <4>2. QED
        BY <4>1 DEF Sound, n
    <3>2. QED
      BY <1>1, <2>3, <3>1
  <2>4. QED
    BY <2>1, <2>2, <2>3
<1>6. QED
  BY <1>2, <1>5 DEF Sound, qs

\* A point taken out leaves the others, and its id.
LEMMA RemoveSound ==
  ASSUME NEW ps, Sound(ps), NEW i \in 1..Len(ps)
  PROVE  /\ Sound(RemoveAt(ps, i)) /\ Len(RemoveAt(ps, i)) = Len(ps) - 1
         /\ ps[i] \in Point /\ ps[i].id \notin IdsOf(RemoveAt(ps, i))
<1> DEFINE n == Len(ps)
           qs == RemoveAt(ps, i)
           From(k) == IF k < i THEN k ELSE k + 1
<1>1. ps \in Seq(Point) /\ n \in Nat /\ ps[i] \in Point
  BY DEF Sound
<1>2. /\ qs \in Seq(Point) /\ Len(qs) = n - 1
      /\ \A k \in 1..(n - 1) : (k < i => qs[k] = ps[k]) /\ (k >= i => qs[k] = ps[k + 1])
  BY <1>1, RemoveIs
<1> HIDE DEF qs
<1>3. \A k \in 1..(n - 1) : From(k) \in 1..n /\ From(k) # i /\ qs[k] = ps[From(k)]
  BY <1>1, <1>2
<1>4. \A k, l \in 1..(n - 1) : From(k) = From(l) => k = l
  BY <1>1
<1> HIDE DEF From
<1>5. \A k, l \in 1..(n - 1) : qs[k].id = qs[l].id => k = l
  BY <1>3, <1>4 DEF Sound, n
<1>6. \A k \in 1..(n - 1) : qs[k].id # ps[i].id
  BY <1>3 DEF Sound, n
<1>7. DOMAIN qs = 1..(n - 1)
  BY <1>1, <1>2
<1>8. ps[i].id \notin IdsOf(qs)
  BY <1>6, <1>7 DEF IdsOf
<1>9. QED
  BY <1>1, <1>2, <1>5, <1>8 DEF Sound, qs

\* A point moved elsewhere in the list takes its id with it.
LEMMA ReorderSound ==
  ASSUME NEW ps, Sound(ps), NEW from \in 1..Len(ps), NEW to \in 1..Len(ps)
  PROVE  Sound(InsertAt(RemoveAt(ps, from), to, ps[from]))
<1> DEFINE qs == RemoveAt(ps, from)
<1>1. /\ Sound(qs) /\ Len(qs) = Len(ps) - 1
      /\ ps[from] \in Point /\ ps[from].id \notin IdsOf(qs)
  BY RemoveSound
<1>2. Len(ps) \in Nat
  BY DEF Sound
<1> HIDE DEF qs
<1>3. to \in 1..(Len(qs) + 1)
  BY <1>1, <1>2
<1>4. Sound(InsertAt(qs, to, ps[from]))
  BY <1>1, <1>3, InsertSound
<1>5. QED
  BY <1>4 DEF qs

\* So do points whose order is reversed.
LEMMA ReverseSound ==
  ASSUME NEW ps, Sound(ps)
  PROVE  Sound(Reverse(ps))
<1> DEFINE n == Len(ps)
           qs == Reverse(ps)
<1>1. ps \in Seq(Point) /\ n \in Nat /\ \A k \in 1..n : ps[k] \in Point
  BY DEF Sound
<1>2. qs = [k \in 1..n |-> ps[(n - k) + 1]]
  BY DEF Reverse
<1>3. \A k \in 1..n : (n - k) + 1 \in 1..n
  BY <1>1
<1> HIDE DEF qs
<1>4. qs \in Seq(Point) /\ Len(qs) = n /\ \A k \in 1..n : qs[k] = ps[(n - k) + 1]
  BY <1>1, <1>2, <1>3
<1>5. ASSUME NEW k \in 1..n, NEW l \in 1..n, qs[k].id = qs[l].id PROVE k = l
  <2>1. \A i, j \in 1..n : ps[i].id = ps[j].id => i = j
    BY DEF Sound
  <2>2. ps[(n - k) + 1].id = ps[(n - l) + 1].id
    BY <1>4, <1>5
  <2> HIDE DEF n
  <2>3. (n - k) + 1 = (n - l) + 1
    BY <1>3, <2>1, <2>2
  <2>4. QED
    BY <1>1, <2>3
<1>6. QED
  BY <1>4, <1>5 DEF Sound, qs

\* A list with the same ids, at other places, is as sound.
LEMMA MovedSound ==
  ASSUME NEW ps, Sound(ps), NEW qs \in Seq(Point), Len(qs) = Len(ps),
         \A k \in 1..Len(ps) : qs[k].id = ps[k].id
  PROVE  Sound(qs)
BY DEF Sound

\* What is kept of a list is as sound.
LEMMA AtPositionsSound ==
  ASSUME NEW ps, Sound(ps), NEW kept \in SUBSET (1..Len(ps))
  PROVE  Sound(AtPositions(ps, kept))
<1> DEFINE n == Cardinality(kept)
           qs == AtPositions(ps, kept)
<1>1. ps \in Seq(Point) /\ Len(ps) \in Nat
  BY DEF Sound
<1>2. /\ IsFiniteSet(kept) /\ n \in Nat /\ qs \in Seq(Point) /\ Len(qs) = n
      /\ \A k \in 1..n : Nth(kept, k) \in kept /\ qs[k] = ps[Nth(kept, k)]
  BY <1>1, AtPositionsIs
<1>3. kept \in SUBSET Nat
  BY <1>1
<1>4. \A k, l \in 1..n : k < l => Nth(kept, k) < Nth(kept, l)
  BY <1>2, <1>3, NthGrows
<1> HIDE DEF n, qs
<1>5. ASSUME NEW k \in 1..n, NEW l \in 1..n, qs[k].id = qs[l].id PROVE k = l
  <2> DEFINE a == Nth(kept, k)
             b == Nth(kept, l)
  <2>1. a \in 1..Len(ps) /\ b \in 1..Len(ps) /\ qs[k] = ps[a] /\ qs[l] = ps[b]
    BY <1>2
  <2>2. (k < l => a < b) /\ (l < k => b < a)
    BY <1>4
  <2> HIDE DEF a, b
  <2>3. a = b
    BY <1>5, <2>1 DEF Sound
  <2>4. ~(k < l) /\ ~(l < k)
    BY <1>1, <2>1, <2>2, <2>3
  <2>5. QED
    BY <1>2, <2>4
<1>6. QED
  BY <1>2, <1>5 DEF Sound, qs

\* The ids of the points are as many as them at most.
LEMMA IdsAreFinite ==
  ASSUME NEW ps \in Seq(Point)
  PROVE  IsFiniteSet(IdsOf(ps))
<1> DEFINE f == [i \in DOMAIN ps |-> ps[i].id]
<1>1. Len(ps) \in Nat /\ DOMAIN ps = 1..Len(ps)
  OBVIOUS
<1>2. IsFiniteSet(DOMAIN ps)
  BY <1>1, FS_Interval
<1>3. f \in Surjection(DOMAIN ps, IdsOf(ps))
  BY DEF Surjection, IdsOf
<1>4. QED
  BY <1>2, <1>3, FS_Surjection

\* newId never gives an id that is used, nor the same twice.
LEMMA FreshIdsAre ==
  ASSUME points \in Seq(Point), NEW n \in Nat
  PROVE  /\ \A k \in 1..n : FreshIds(n)[k] \in Ids /\ FreshIds(n)[k] \notin IdsOf(points)
         /\ \A k, l \in 1..n : FreshIds(n)[k] = FreshIds(n)[l] => k = l
<1> DEFINE used == IdsOf(points) \cup {form.id}
           c == Cardinality(used)
           all == 1..(n + c)
           free == all \ used
<1>1. IsFiniteSet(used)
  BY IdsAreFinite, FS_AddElement
<1>2. c \in Nat
  BY <1>1, FS_CardinalityType
<1>3. FreshIds(n) = [k \in 1..n |-> Nth(free, k)]
  BY DEF FreshIds
<1>4. \A i \in free : i \in Ids /\ i \notin IdsOf(points)
  BY <1>2 DEF Ids
<1>5. free \in SUBSET Nat
  BY <1>2
<1>6. IsFiniteSet(free) /\ Cardinality(free) >= n
  <2> HIDE DEF used, c
  <2>1. IsFiniteSet(all) /\ Cardinality(all) = n + c
    BY <1>2, FS_Interval
  <2> HIDE DEF all
  <2>2. IsFiniteSet(free)
    BY <2>1, FS_Subset
  <2>3. Cardinality(all) <= Cardinality(free \cup used)
    <3>1. all \in SUBSET (free \cup used)
      OBVIOUS
    <3>2. IsFiniteSet(free \cup used)
      BY <1>1, <2>2, FS_Union
    <3>3. QED
      BY <3>1, <3>2, FS_Subset
  <2>4. Cardinality(free \cup used)
          = Cardinality(free) + Cardinality(used) - Cardinality(free \cap used)
    BY <1>1, <2>2, FS_Union
  <2>5. free \cap used = {}
    OBVIOUS
  <2>6. Cardinality(free \cap used) = 0
    BY <2>5, FS_EmptySet
  <2>7. Cardinality(free) \in Nat
    BY <2>2, FS_CardinalityType
  <2>8. QED
    BY <1>2, <2>1, <2>2, <2>3, <2>4, <2>6, <2>7 DEF c
<1>7. Cardinality(free) \in Nat
  BY <1>6, FS_CardinalityType
<1> HIDE DEF free
<1>8. ASSUME NEW k \in 1..n PROVE k \in 1..Cardinality(free)
  BY <1>6, <1>7
<1>9. \A k \in 1..n : Nth(free, k) \in free
  BY <1>5, <1>6, <1>8, NthIsThere
<1>10. \A k, l \in 1..n : k < l => Nth(free, k) < Nth(free, l)
  BY <1>5, <1>6, <1>8, NthGrows
<1>11. ASSUME NEW k \in 1..n, NEW l \in 1..n, Nth(free, k) = Nth(free, l) PROVE k = l
  <2>1. Nth(free, k) \in Nat
    BY <1>5, <1>9
  <2>2. ~(k < l) /\ ~(l < k)
    BY <1>10, <1>11, <2>1
  <2>3. QED
    BY <2>2
<1>12. QED
  BY <1>3, <1>4, <1>9, <1>11

\* Places become points with new ids.
LEMMA WithIdsSound ==
  ASSUME points \in Seq(Point), NEW places \in Seq(Places)
  PROVE  /\ Sound(WithIds(places)) /\ Len(WithIds(places)) = Len(places)
         /\ PlacesOf(WithIds(places)) = places
         /\ \A k \in 1..Len(places) : WithIds(places)[k].at = places[k]
<1> DEFINE n == Len(places)
           ids == FreshIds(n)
           ps == WithIds(places)
<1>1. n \in Nat /\ DOMAIN places = 1..n /\ \A k \in 1..n : places[k] \in Places
  OBVIOUS
<1>2. /\ \A k \in 1..n : ids[k] \in Ids
      /\ \A k, l \in 1..n : ids[k] = ids[l] => k = l
  BY <1>1, FreshIdsAre
<1>3. ps = [k \in 1..n |-> [id |-> ids[k], at |-> places[k]]]
  BY <1>1 DEF WithIds
<1> HIDE DEF ids, ps
<1>4. ps \in Seq(Point) /\ Len(ps) = n
  BY <1>1, <1>2, <1>3 DEF Point
<1>5. \A k \in 1..n : ps[k].id = ids[k] /\ ps[k].at = places[k]
  BY <1>3
<1>6. Sound(ps)
  BY <1>2, <1>4, <1>5 DEF Sound
<1>7. PlacesOf(ps) = places
  <2>1. DOMAIN ps = 1..n
    BY <1>3
  <2>2. PlacesOf(ps) = [k \in 1..n |-> places[k]]
    BY <1>5, <2>1 DEF PlacesOf
  <2>3. QED
    BY <1>1, <2>2
<1>8. QED
  BY <1>4, <1>5, <1>6, <1>7 DEF ps

-----------------------------------------------------------------------------
(* Routes and distances. *)

\* The first of those where a function is the least.
LEMMA FirstOfLeast ==
  ASSUME NEW S \in SUBSET Nat, S # {}, NEW f \in [S -> Nat]
  PROVE  \E i \in S : \A j \in S : f[i] < f[j] \/ (f[i] = f[j] /\ i <= j)
<1> DEFINE values == {f[i] : i \in S}
<1>1. values \in SUBSET Nat /\ values # {}
  OBVIOUS
<1>2. PICK v \in values : \A w \in values : v <= w
  BY <1>1, LeastNatural
<1> DEFINE firsts == {i \in S : f[i] = v}
<1>3. firsts \in SUBSET Nat /\ firsts # {}
  BY <1>2
<1>4. PICK i \in firsts : \A j \in firsts : i <= j
  BY <1>3, LeastNatural
<1>5. ASSUME NEW j \in S PROVE f[i] < f[j] \/ (f[i] = f[j] /\ i <= j)
  <2>1. f[i] = v /\ v <= f[j] /\ v \in Nat /\ f[j] \in Nat
    BY <1>1, <1>2, <1>4
  <2>2. f[j] = v => i <= j
    BY <1>4
  <2>3. QED
    BY <2>1, <2>2
<1>6. QED
  BY <1>4, <1>5

\* Distances are naturals, and a detour is never less than none.
LEMMA DistIs ==
  ASSUME NEW a \in Int, NEW b \in Int
  PROVE  /\ Dist(a, b) \in Nat /\ (Dist(a, b) = 0 <=> a = b)
         /\ \A p \in Int : Dist(a, p) + Dist(p, b) - Dist(a, b) \in Nat
BY DEF Dist

\* The leg of the cheapest insertion is one of the legs.
LEMMA CheapestIs ==
  ASSUME NEW places \in Seq(Places), Len(places) >= 2, NEW p \in Places
  PROVE  Cheapest(places, p) \in 1..(Len(places) - 1)
<1> DEFINE Detour(i) == Dist(places[i], p) + Dist(p, places[i + 1])
                          - Dist(places[i], places[i + 1])
           legs == 1..(Len(places) - 1)
           f == [i \in legs |-> Detour(i)]
           First(i) == \A j \in legs :
                         Detour(i) < Detour(j) \/ (Detour(i) = Detour(j) /\ i <= j)
<1>1. Len(places) \in Nat /\ \A i \in 1..Len(places) : places[i] \in Places
  OBVIOUS
<1>2. \A q \in Places : q \in Int
  BY GestureAssumption
<1>3. legs \in SUBSET Nat /\ legs # {}
      /\ \A i \in legs : i \in 1..Len(places) /\ i + 1 \in 1..Len(places)
  <2>1. 1 \in legs
    BY <1>1
  <2>2. \A i \in legs : i \in Nat /\ i \in 1..Len(places) /\ i + 1 \in 1..Len(places)
    BY <1>1
  <2>3. QED
    BY <2>1, <2>2
<1>4. \A i \in legs : Detour(i) \in Nat
  <2> TAKE i \in legs
  <2>1. places[i] \in Int /\ places[i + 1] \in Int /\ p \in Int
    BY <1>1, <1>2, <1>3
  <2>2. QED
    BY <2>1, DistIs
<1>5. Cheapest(places, p) = CHOOSE i \in legs : First(i)
  BY DEF Cheapest
<1> HIDE DEF legs, Detour
<1>6. f \in [legs -> Nat]
  BY <1>4
<1> DEFINE g == f
<1>7. \A i \in legs : g[i] = Detour(i)
  OBVIOUS
<1>8. g \in [legs -> Nat]
  BY <1>6
<1> HIDE DEF g
<1>9. \E i \in legs : \A j \in legs : g[i] < g[j] \/ (g[i] = g[j] /\ i <= j)
  BY <1>3, <1>8, FirstOfLeast
<1>10. \E i \in legs : First(i)
  BY <1>7, <1>9
<1> HIDE DEF First
<1>11. Cheapest(places, p) \in legs
  BY <1>5, <1>10
<1>12. QED
  BY <1>11 DEF legs

\* A new point comes at one of the positions there are.
LEMMA NewPointIndex ==
  ASSUME NEW places \in Seq(Places), NEW p \in Places
  PROVE  /\ IndexForNewPoint(places, p) \in 1..(Len(places) + 1)
         /\ Len(places) >= 2 => IndexForNewPoint(places, p) \in 2..Len(places)
<1>1. Len(places) \in Nat
  OBVIOUS
<1>2. CASE Len(places) < 2
  BY <1>1, <1>2 DEF IndexForNewPoint
<1>3. CASE Len(places) >= 2
  <2>1. Cheapest(places, p) \in 1..(Len(places) - 1)
    BY <1>3, CheapestIs
  <2>2. QED
    BY <1>1, <1>3, <2>1 DEF IndexForNewPoint
<1>4. QED
  BY <1>1, <1>2, <1>3

\* The leg of a segment is one of the legs, whatever the boundaries.
LEMMA LegIndexIs ==
  ASSUME NEW bounds, Len(bounds) \in Nat, Len(bounds) >= 2, NEW segment
  PROVE  LegIndex(bounds, segment) \in 1..(Len(bounds) - 1)
<1> DEFINE before == {i \in 1..Len(bounds) : \A j \in 1..i : bounds[j] <= segment}
           n == Len(bounds)
<1>1. before \in SUBSET (1..n)
  OBVIOUS
<1> HIDE DEF before
<1>2. IsFiniteSet(1..n) /\ n \in Nat
  <2> HIDE DEF n
  <2>1. n \in Nat
    BY DEF n
  <2>2. QED
    BY <2>1, FS_Interval
<1>3. IsFiniteSet(before)
  BY <1>1, <1>2, FS_Subset
<1>4. Cardinality(before) \in Nat
  BY <1>3, FS_CardinalityType
<1>5. LegIndex(bounds, segment) =
        IF Len(bounds) < 2 THEN 1
        ELSE IF Cardinality(before) > Len(bounds) - 1 THEN Len(bounds) - 1
        ELSE IF Cardinality(before) = 0 THEN 1 ELSE Cardinality(before)
  BY DEF LegIndex, before
<1>6. QED
  BY <1>4, <1>5

\* A dragged step comes between the first point and the last, if there are two.
LEMMA RouteDropIndex ==
  ASSUME NEW places \in Seq(Places), NEW bounds, Len(bounds) \in Nat, NEW segment,
         NEW p \in Places
  PROVE  /\ IndexForRouteDrop(places, bounds, segment, p) \in 1..(Len(places) + 1)
         /\ Len(places) >= 2 =>
              IndexForRouteDrop(places, bounds, segment, p) \in 2..Len(places)
<1>1. Len(places) \in Nat
  OBVIOUS
<1>2. CASE Len(places) < 2 \/ Len(bounds) # Len(places)
  BY <1>2, NewPointIndex DEF IndexForRouteDrop
<1>3. CASE Len(places) >= 2 /\ Len(bounds) = Len(places)
  <2>1. LegIndex(bounds, segment) \in 1..(Len(places) - 1)
    BY <1>3, LegIndexIs
  <2>2. QED
    BY <1>1, <1>3, <2>1 DEF IndexForRouteDrop
<1>4. QED
  BY <1>1, <1>2, <1>3

\* A function that is what the lines of a route are defined to be.
LinesStep(places, line) ==
  line = [i \in 0..Len(places) |-> IF i = 0 THEN <<>> ELSE line[i - 1] \o Leg(places, i)]

\* Places are numbers.
LEMMA PlacesAreNumbers ==
  ASSUME NEW places \in Seq(Places)
  PROVE  /\ Len(places) \in Nat
         /\ \A k \in 1..Len(places) : places[k] \in Places /\ places[k] \in Int
<1>1. \A p \in Places : p \in Int
  BY GestureAssumption
<1>2. QED
  BY <1>1

\* The coordinates from a place to the next are integers, as many as it is away.
LEMMA LegIs ==
  ASSUME NEW places \in Seq(Places), NEW i \in 1..Len(places)
  PROVE  /\ Leg(places, i) \in Seq(Int)
         /\ i = 1 => Leg(places, i) = <<places[1]>>
         /\ i > 1 => LET a == places[i - 1]
                         b == places[i]
                     IN  /\ a \in Int /\ b \in Int
                         /\ Len(Leg(places, i)) = Dist(a, b)
                         /\ \A k \in 1..Dist(a, b) :
                              Leg(places, i)[k] = IF a <= b THEN a + k ELSE a - k
<1>1. Len(places) \in Nat /\ \A k \in 1..Len(places) : places[k] \in Int
  BY PlacesAreNumbers
<1>2. CASE i = 1
  BY <1>1, <1>2 DEF Leg
<1>3. CASE i > 1
  <2> DEFINE a == places[i - 1]
             b == places[i]
             n == Dist(a, b)
             line == [k \in 1..n |-> IF a <= b THEN a + k ELSE a - k]
  <2>1. a \in Int /\ b \in Int
    <3>1. i - 1 \in 1..Len(places)
      BY <1>1, <1>3
    <3>2. QED
      BY <1>1, <3>1
  <2>2. n \in Nat
    BY <2>1, DistIs
  <2>3. Leg(places, i) = line
    BY <1>3 DEF Leg
  <2> HIDE DEF a, b, n
  <2>4. line \in Seq(Int) /\ Len(line) = n
        /\ \A k \in 1..n : line[k] = IF a <= b THEN a + k ELSE a - k
    BY <2>1, <2>2
  <2> HIDE DEF line
  <2>5. QED
    BY <1>3, <2>1, <2>3, <2>4 DEF a, b, n
<1>4. QED
  BY <1>1, <1>2, <1>3

\* The lines up to each place are there: each is the one before and a leg.
LEMMA LinesAre ==
  ASSUME NEW places \in Seq(Places)
  PROVE  /\ Lines(places)[0] = <<>>
         /\ \A i \in 1..Len(places) :
              Lines(places)[i] = Lines(places)[i - 1] \o Leg(places, i)
         /\ \A i \in 0..Len(places) : Lines(places)[i] \in Seq(Int)
<1> DEFINE n == Len(places)
           step == [x \in (1..n) \X Seq(Int) |-> x[2] \o Leg(places, x[1])]
<1>1. n \in Nat /\ <<>> \in Seq(Int)
  OBVIOUS
<1>2. \A i \in 1..n : Leg(places, i) \in Seq(Int)
  BY LegIs
<1>3. \A i \in 1..n, s \in Seq(Int) :
        s \o Leg(places, i) \in Seq(Int) /\ step[<<i, s>>] = s \o Leg(places, i)
  <2> TAKE i \in 1..n, s \in Seq(Int)
  <2> DEFINE leg == Leg(places, i)
  <2>1. leg \in Seq(Int)
    BY <1>2
  <2> HIDE DEF leg
  <2>2. s \o leg \in Seq(Int)
    BY <2>1, ConcatProperties
  <2>3. <<i, s>> \in (1..n) \X Seq(Int)
    OBVIOUS
  <2>4. step[<<i, s>>] = s \o Leg(places, i)
    BY <2>3, Zenon
  <2>5. QED
    BY <2>2, <2>4 DEF leg
<1>4. step \in [(1..n) \X Seq(Int) -> Seq(Int)]
  BY <1>3
<1> HIDE DEF step
<1>5. PICK f \in [0..n -> Seq(Int)] :
        f[0] = <<>> /\ \A k \in 1..n : f[k] = step[<<k, f[k - 1]>>]
  <2> DEFINE m == n
             start == <<>>
             all == Seq(Int)
  <2>1. m \in Nat /\ start \in all /\ step \in [(1..m) \X all -> all]
    BY <1>1, <1>4
  <2> HIDE DEF m, start, all
  <2>2. \E f \in [0..m -> all] : Recursive(f, start, m, step)
    BY <2>1, RecursionExists
  <2>3. QED
    BY <2>2 DEF m, start, all, Recursive
<1> HIDE DEF n
<1>6. \A k \in 1..n : f[k] = f[k - 1] \o Leg(places, k)
  <2> TAKE k \in 1..n
  <2>1. f[k - 1] \in Seq(Int)
    BY <1>1, <1>5
  <2>2. QED
    BY <1>3, <1>5, <2>1
<1>7. f = [i \in 0..n |-> IF i = 0 THEN <<>> ELSE f[i - 1] \o Leg(places, i)]
  <2> DEFINE g == [i \in 0..n |-> IF i = 0 THEN <<>> ELSE f[i - 1] \o Leg(places, i)]
  <2>1. ASSUME NEW i \in 0..n PROVE g[i] = f[i]
    <3>1. CASE i = 0
      BY <1>5, <3>1
    <3>2. CASE i # 0
      <4>1. i \in 1..n
        BY <1>1, <3>2
      <4>2. QED
        BY <1>6, <3>2, <4>1, Zenon
    <3>3. QED
      BY <3>1, <3>2
  <2>2. QED
    BY <1>5, <2>1
<1>8. LinesStep(places, f)
  BY <1>7 DEF LinesStep, n
<1>9. Lines(places) = CHOOSE line : LinesStep(places, line)
  BY DEF Lines, LinesStep
<1>10. LinesStep(places, Lines(places))
  BY <1>8, <1>9
<1> DEFINE line == Lines(places)
<1>11. line = [i \in 0..n |-> IF i = 0 THEN <<>> ELSE line[i - 1] \o Leg(places, i)]
  BY <1>10 DEF LinesStep, n
<1> HIDE DEF line
<1>12. line[0] = <<>>
  BY <1>1, <1>11
<1>13. \A i \in 1..n : line[i] = line[i - 1] \o Leg(places, i)
  <2> TAKE i \in 1..n
  <2>1. i \in 0..n /\ i # 0
    BY <1>1
  <2>2. QED
    BY <1>11, <2>1
<1>14. \A i \in 0..n : line[i] \in Seq(Int)
  <2> DEFINE Typed(i) == line[i] \in Seq(Int)
             typed == {i \in 0..n : Typed(i)}
  <2>1. Typed(0)
    BY <1>1, <1>12, Zenon
  <2>2. ASSUME NEW k \in 1..n, Typed(k - 1) PROVE Typed(k)
    <3> DEFINE leg == Leg(places, k)
               before == line[k - 1]
    <3>1. leg \in Seq(Int) /\ before \in Seq(Int)
      BY <1>2, <2>2
    <3> HIDE DEF leg, before
    <3>2. before \o leg \in Seq(Int)
      BY <3>1, ConcatProperties
    <3>3. QED
      BY <1>13, <3>2 DEF leg, before
  <2> HIDE DEF Typed
  <2>3. \A k \in 0..n : k \in typed
    <3>1. 0 \in typed
      BY <1>1, <2>1
    <3>2. \A k \in 1..n : k - 1 \in typed => k \in typed
      BY <1>1, <2>2
    <3> HIDE DEF typed
    <3>3. QED
      BY <1>1, <3>1, <3>2, AllReached
  <2>4. QED
    BY <2>3 DEF Typed
<1>15. QED
  BY <1>12, <1>13, <1>14 DEF line, n

\* How far along the route a place is.
Reach(places, i) == Len(Lines(places)[i])

\* A leg further, the line is what it was, and the leg.
LEMMA ReachIs ==
  ASSUME NEW places \in Seq(Places)
  PROVE  /\ Reach(places, 0) = 0
         /\ \A i \in 0..Len(places) : Reach(places, i) \in Nat
         /\ \A i \in 1..Len(places) :
              /\ Reach(places, i) = Reach(places, i - 1) + Len(Leg(places, i))
              /\ \A k \in 1..Reach(places, i - 1) :
                   Lines(places)[i][k] = Lines(places)[i - 1][k]
              /\ \A k \in 1..Len(Leg(places, i)) :
                   Lines(places)[i][Reach(places, i - 1) + k] = Leg(places, i)[k]
<1> DEFINE n == Len(places)
<1>1. n \in Nat
  OBVIOUS
<1>2. Reach(places, 0) = 0
  BY LinesAre DEF Reach
<1>3. \A i \in 0..n : Reach(places, i) \in Nat
  BY LinesAre DEF Reach
<1>4. ASSUME NEW i \in 1..n
      PROVE  /\ Reach(places, i) = Reach(places, i - 1) + Len(Leg(places, i))
             /\ \A k \in 1..Reach(places, i - 1) :
                  Lines(places)[i][k] = Lines(places)[i - 1][k]
             /\ \A k \in 1..Len(Leg(places, i)) :
                  Lines(places)[i][Reach(places, i - 1) + k] = Leg(places, i)[k]
  <2> DEFINE line == Lines(places)[i]
             before == Lines(places)[i - 1]
             leg == Leg(places, i)
  <2>1. i - 1 \in 0..n
    BY <1>1
  <2>2. before \in Seq(Int) /\ leg \in Seq(Int) /\ line = before \o leg
    BY <2>1, LinesAre, LegIs
  <2> HIDE DEF line, before, leg
  <2>3. /\ Len(line) = Len(before) + Len(leg) /\ Len(before) \in Nat /\ Len(leg) \in Nat
        /\ \A k \in 1..(Len(before) + Len(leg)) :
             line[k] = IF k <= Len(before) THEN before[k] ELSE leg[k - Len(before)]
    BY <2>2, ConcatProperties
  <2>4. \A k \in 1..Len(before) : line[k] = before[k]
    BY <2>3
  <2>5. ASSUME NEW k \in 1..Len(leg) PROVE line[Len(before) + k] = leg[k]
    <3> DEFINE m == Len(before) + k
    <3>1. m \in 1..(Len(before) + Len(leg)) /\ ~(m <= Len(before)) /\ m - Len(before) = k
      BY <2>3
    <3> HIDE DEF m
    <3>2. line[m] = leg[k]
      BY <2>3, <3>1
    <3>3. QED
      BY <3>2 DEF m
  <2>6. QED
    BY <2>3, <2>4, <2>5 DEF line, before, leg, Reach
<1>5. QED
  BY <1>2, <1>3, <1>4

\* The line up to a place begins that up to every later one.
LEMMA LineGrows ==
  ASSUME NEW places \in Seq(Places), NEW i \in 0..Len(places), NEW j \in 0..Len(places),
         i <= j
  PROVE  /\ Reach(places, i) <= Reach(places, j)
         /\ \A k \in 1..Reach(places, i) : Lines(places)[j][k] = Lines(places)[i][k]
<1> DEFINE n == Len(places)
           Begins(m) == /\ Reach(places, i) <= Reach(places, m)
                        /\ \A k \in 1..Reach(places, i) :
                             Lines(places)[m][k] = Lines(places)[i][k]
           reached == {m \in 0..n : i <= m => Begins(m)}
<1>1. n \in Nat /\ i \in 0..n /\ j \in 0..n
  OBVIOUS
<1>2. Begins(i)
  BY <1>1, ReachIs
<1>3. ASSUME NEW m \in 1..n, i <= m - 1, Begins(m - 1) PROVE Begins(m)
  <2>1. /\ Reach(places, m - 1) <= Reach(places, m)
        /\ Reach(places, i) \in Nat /\ Reach(places, m - 1) \in Nat
        /\ Reach(places, m) \in Nat
        /\ \A k \in 1..Reach(places, m - 1) : Lines(places)[m][k] = Lines(places)[m - 1][k]
    <3>1. m \in 0..n /\ m - 1 \in 0..n
      BY <1>1
    <3>2. Leg(places, m) \in Seq(Int)
      BY LegIs
    <3>3. Len(Leg(places, m)) \in Nat
      BY <3>2
    <3>4. QED
      BY <1>1, <3>1, <3>3, ReachIs
  <2>2. QED
    BY <1>3, <2>1
<1> HIDE DEF Begins
<1>4. 0 \in reached
  BY <1>1, <1>2
<1>5. ASSUME NEW m \in 1..n, m - 1 \in reached PROVE m \in reached
  <2>1. CASE i = m
    BY <1>1, <1>2, <2>1
  <2>2. CASE i # m
    <3>1. i <= m => i <= m - 1
      BY <1>1, <2>2
    <3>2. m \in 0..n
      BY <1>1
    <3>3. QED
      BY <1>3, <1>5, <3>1, <3>2
  <2>3. QED
    BY <2>1, <2>2
<1> HIDE DEF reached
<1>6. \A m \in 0..n : m \in reached
  <2> HIDE DEF n
  <2>1. QED
    BY <1>1, <1>4, <1>5, AllReached
<1>7. Begins(j)
  BY <1>1, <1>6 DEF reached
<1>8. QED
  BY <1>7 DEF Begins

\* The line up to a place ends there.
LEMMA LineEnds ==
  ASSUME NEW places \in Seq(Places), NEW i \in 1..Len(places)
  PROVE  /\ Reach(places, 1) = 1
         /\ Reach(places, i) \in Nat \ {0}
         /\ Lines(places)[i][Reach(places, i)] = places[i]
<1> DEFINE n == Len(places)
           Ends(m) == /\ Reach(places, m) \in Nat \ {0}
                      /\ Lines(places)[m][Reach(places, m)] = places[m]
           reached == {m \in 0..n : m # 0 => Ends(m)}
<1>1. n \in Nat /\ i \in 1..n /\ 1 \in 1..n
  OBVIOUS
<1>2. Reach(places, 1) = 1 /\ Ends(1)
  <2>1. Leg(places, 1) = <<places[1]>>
    BY <1>1, LegIs
  <2>2. Len(Leg(places, 1)) = 1 /\ Leg(places, 1)[1] = places[1]
    BY <2>1
  <2>3. Reach(places, 1) = Reach(places, 0) + Len(Leg(places, 1)) /\ Reach(places, 0) = 0
    BY <1>1, ReachIs
  <2>4. Lines(places)[1][Reach(places, 0) + 1] = Leg(places, 1)[1]
    BY <1>1, <2>2, ReachIs
  <2>5. Reach(places, 1) = 1 /\ Reach(places, 0) + 1 = 1
    <3> DEFINE r == Reach(places, 0)
               l == Len(Leg(places, 1))
    <3>1. l = 1 /\ r = 0 /\ Reach(places, 1) = r + l
      BY <2>2, <2>3, Zenon
    <3> HIDE DEF r, l
    <3>2. Reach(places, 1) = 1 /\ r + 1 = 1
      BY <3>1
    <3>3. QED
      BY <3>2 DEF r
  <2>6. Lines(places)[1][1] = places[1]
    BY <2>2, <2>4, <2>5
  <2>7. QED
    BY <2>5, <2>6
<1>3. ASSUME NEW m \in 2..n, Ends(m - 1) PROVE Ends(m)
  <2> DEFINE a == places[m - 1]
             b == places[m]
             d == Dist(a, b)
             before == Reach(places, m - 1)
  <2>1. m \in 1..n /\ m - 1 \in 1..n /\ m > 1
    BY <1>1
  <2>2. /\ a \in Int /\ b \in Int /\ Len(Leg(places, m)) = d
        /\ \A k \in 1..d : Leg(places, m)[k] = IF a <= b THEN a + k ELSE a - k
    BY <2>1, LegIs
  <2>3. d \in Nat /\ (d = 0 <=> a = b)
    BY <2>2, DistIs
  <2>4. before \in Nat \ {0} /\ Lines(places)[m - 1][before] = a
    BY <1>3
  <2>5. /\ Reach(places, m) = before + d
        /\ \A k \in 1..before : Lines(places)[m][k] = Lines(places)[m - 1][k]
        /\ \A k \in 1..d : Lines(places)[m][before + k] = Leg(places, m)[k]
    BY <2>1, <2>2, ReachIs
  <2>6. d > 0 => (IF a <= b THEN a + d ELSE a - d) = b
    BY <2>2 DEF Dist
  <2> HIDE DEF a, d, before
  <2>7. CASE d = 0
    BY <2>3, <2>4, <2>5, <2>7
  <2>8. CASE d # 0
    <3>1. d \in 1..d
      BY <2>3, <2>8
    <3>2. Lines(places)[m][before + d] = b
      BY <2>2, <2>3, <2>5, <2>6, <2>8, <3>1
    <3>3. QED
      BY <2>3, <2>4, <2>5, <3>2
  <2>9. QED
    BY <2>7, <2>8
<1> HIDE DEF Ends
<1>4. 0 \in reached
  BY <1>1
<1>5. ASSUME NEW m \in 1..n, m - 1 \in reached PROVE m \in reached
  <2>1. CASE m = 1
    BY <1>1, <1>2, <2>1
  <2>2. CASE m # 1
    <3>1. m \in 2..n /\ m - 1 # 0 /\ m \in 0..n
      BY <1>1, <2>2
    <3>2. QED
      BY <1>3, <1>5, <3>1
  <2>3. QED
    BY <2>1, <2>2
<1> HIDE DEF reached
<1>6. \A m \in 0..n : m \in reached
  <2> HIDE DEF n
  <2>1. QED
    BY <1>1, <1>4, <1>5, AllReached
<1>7. i \in reached
  <2>1. i \in 0..n
    BY <1>1
  <2>2. QED
    BY <1>6, <2>1
<1>8. Ends(i)
  BY <1>1, <1>7 DEF reached
<1>9. QED
  BY <1>2, <1>8 DEF Ends

\* From one place on, the next is first met at its own end of the line.
LEMMA FirstMet ==
  ASSUME NEW places \in Seq(Places), NEW i \in 1..Len(places),
         NEW from, from = IF i = 1 THEN 1 ELSE Reach(places, i - 1)
  PROVE  LET line == Geometry(places)
             end == Reach(places, i)
         IN  /\ from \in 1..end /\ end \in 1..Len(line) /\ line[end] = places[i]
             /\ \A j \in from..(end - 1) : line[j] # places[i]
             /\ \A j \in 1..Len(line) : line[j] \in Int
<1> DEFINE n == Len(places)
           line == Geometry(places)
           end == Reach(places, i)
           before == Reach(places, i - 1)
<1>1. n \in Nat /\ i \in 0..n /\ n \in 0..n /\ i - 1 \in 0..n /\ i <= n /\ i - 1 <= i
  OBVIOUS
<1>2. /\ end \in Nat \ {0} /\ Reach(places, 1) = 1 /\ Lines(places)[i][end] = places[i]
  BY LineEnds
<1>3. /\ end <= Reach(places, n)
      /\ \A k \in 1..end : Lines(places)[n][k] = Lines(places)[i][k]
  BY <1>1, LineGrows
<1>4. /\ Len(line) = Reach(places, n) /\ Len(line) \in Nat
      /\ line = Lines(places)[n] /\ line \in Seq(Int)
  BY <1>1, LinesAre DEF Geometry, Reach
<1>5. /\ before <= end /\ before \in Nat
      /\ \A k \in 1..before : Lines(places)[i][k] = Lines(places)[i - 1][k]
  BY <1>1, LineGrows, ReachIs
<1>6. \A k \in 1..end : line[k] = Lines(places)[i][k]
  BY <1>3, <1>4
<1>7. from \in 1..end
  <2>1. CASE i = 1
    BY <1>2, <2>1
  <2>2. CASE i # 1
    <3>1. i - 1 \in 1..n
      BY <1>1, <2>2
    <3>2. before \in Nat \ {0}
      BY <3>1, LineEnds
    <3>3. QED
      BY <1>2, <1>5, <2>2, <3>2
  <2>3. QED
    BY <2>1, <2>2
<1>8. end \in 1..Len(line) /\ line[end] = places[i]
  BY <1>2, <1>3, <1>4, <1>6
<1>9. ASSUME NEW j \in from..(end - 1) PROVE line[j] # places[i]
  <2> DEFINE a == places[i - 1]
             b == places[i]
             d == Dist(a, b)
  <2>1. i # 1
    BY <1>2, <1>9
  <2>2. i > 1 /\ from = before /\ i - 1 \in 1..n
    BY <1>1, <2>1
  <2>3. /\ a \in Int /\ b \in Int /\ Len(Leg(places, i)) = d
        /\ \A k \in 1..d : Leg(places, i)[k] = IF a <= b THEN a + k ELSE a - k
    BY <2>2, LegIs
  <2>4. d \in Nat /\ (d = 0 <=> a = b) /\ d = IF a <= b THEN b - a ELSE a - b
    BY <2>3, DistIs DEF Dist
  <2>5. /\ end = before + d
        /\ \A k \in 1..d : Lines(places)[i][before + k] = Leg(places, i)[k]
    <3>1. /\ end = before + Len(Leg(places, i))
          /\ \A k \in 1..Len(Leg(places, i)) :
               Lines(places)[i][before + k] = Leg(places, i)[k]
      BY ReachIs
    <3> HIDE DEF d, end, before
    <3>2. QED
      BY <2>3, <3>1
  <2>6. before \in Nat \ {0} /\ Lines(places)[i - 1][before] = a
    BY <2>2, LineEnds
  <2> HIDE DEF d, before, a, b
  <2>7. CASE j = before
    <3>1. before \in 1..end /\ d # 0
      BY <1>2, <1>5, <1>9, <2>4, <2>5, <2>6, <2>7
    <3>2. line[before] = a
      BY <1>5, <1>6, <2>6, <3>1
    <3>3. QED
      BY <2>4, <2>7, <3>1, <3>2 DEF b
  <2>8. CASE j # before
    <3> DEFINE k == j - before
    <3>1. k \in 1..(d - 1) /\ before + k = j /\ j \in 1..end
      <4>1. before \in Nat \ {0} /\ d \in Nat /\ end = before + d /\ j \in before..(end - 1)
        BY <1>9, <2>2, <2>4, <2>5, <2>6
      <4> HIDE DEF end
      <4>2. QED
        BY ONLY <2>8, <4>1
    <3> HIDE DEF k
    <3>2. k \in 1..d
      BY <2>4, <3>1
    <3>3. line[j] = Leg(places, i)[k]
      BY <1>6, <2>5, <3>1, <3>2
    <3>4. line[j] = IF a <= b THEN a + k ELSE a - k
      BY <2>3, <3>2, <3>3
    <3>5. line[j] # b
      BY <2>3, <2>4, <3>1, <3>4
    <3>6. QED
      BY <3>5 DEF b
  <2>9. QED
    BY <2>7, <2>8
<1>10. \A j \in 1..Len(line) : line[j] \in Int
  BY <1>4
<1>11. QED
  BY <1>7, <1>8, <1>9, <1>10

\* The nearest coordinate is the place itself where the line meets it first.
LEMMA NearestIs ==
  ASSUME NEW line, Len(line) \in Nat, \A j \in 1..Len(line) : line[j] \in Int,
         NEW end \in 1..Len(line), NEW from \in 1..end, NEW p \in Int, line[end] = p,
         \A j \in from..(end - 1) : line[j] # p
  PROVE  Nearest(line, from, p) = end
<1> DEFINE First(i) == \A j \in from..Len(line) :
                         \/ Dist(line[i], p) < Dist(line[j], p)
                         \/ Dist(line[i], p) = Dist(line[j], p) /\ i <= j
<1>1. \A j \in from..Len(line) :
        /\ Dist(line[j], p) \in Nat
        /\ Dist(line[j], p) = 0 <=> line[j] = p
  <2> TAKE j \in from..Len(line)
  <2>1. line[j] \in Int
    OBVIOUS
  <2>2. QED
    BY <2>1, DistIs
<1>2. end \in from..Len(line)
  OBVIOUS
<1>3. Dist(line[end], p) = 0
  BY <1>1, <1>2
<1>4. First(end)
  <2> SUFFICES ASSUME NEW j \in from..Len(line)
               PROVE  \/ Dist(line[end], p) < Dist(line[j], p)
                      \/ Dist(line[end], p) = Dist(line[j], p) /\ end <= j
    OBVIOUS
  <2>1. j < end => Dist(line[j], p) > 0
    BY <1>1
  <2>2. QED
    BY <1>1, <1>3, <2>1
<1>5. ASSUME NEW i \in from..Len(line), First(i) PROVE i = end
  <2>1. \/ Dist(line[i], p) < Dist(line[end], p)
        \/ Dist(line[i], p) = Dist(line[end], p) /\ i <= end
    BY <1>2, <1>5
  <2>2. Dist(line[i], p) = 0 /\ i <= end
    BY <1>1, <1>3, <2>1
  <2>3. line[i] = p
    BY <1>1, <2>2
  <2>4. QED
    BY <2>2, <2>3
<1>6. Nearest(line, from, p) = CHOOSE i \in from..Len(line) : First(i)
  BY DEF Nearest
<1> HIDE DEF First
<1>7. QED
  BY <1>2, <1>4, <1>5, <1>6

\* A function that is what the boundaries are defined from.
BoundariesStep(places, found) ==
  found = [i \in 0..Len(places) |->
             IF i = 0 THEN 1 ELSE Nearest(Geometry(places), found[i - 1], places[i])]

\* The boundaries of the legs are where the places are on the route.
LEMMA BoundariesAreReaches ==
  ASSUME NEW places \in Seq(Places)
  PROVE  /\ LegBoundaries(places) = [i \in 1..Len(places) |-> Reach(places, i)]
         /\ Len(LegBoundaries(places)) = Len(places)
<1> DEFINE n == Len(places)
           line == Geometry(places)
           f == [i \in 0..n |-> IF i = 0 THEN 1 ELSE Reach(places, i)]
<1>1. n \in Nat
  OBVIOUS
<1>2. f[0] = 1 /\ \A i \in 1..n : f[i] = Reach(places, i)
  BY <1>1
<1>3. ASSUME NEW i \in 1..n PROVE Nearest(line, f[i - 1], places[i]) = f[i]
  <2> DEFINE from == f[i - 1]
             end == Reach(places, i)
             p == places[i]
  <2>1. from = IF i = 1 THEN 1 ELSE Reach(places, i - 1)
    BY <1>1
  <2> HIDE DEF f, from
  <2>2. /\ from \in 1..end /\ end \in 1..Len(line) /\ line[end] = p
        /\ \A j \in from..(end - 1) : line[j] # p
        /\ \A j \in 1..Len(line) : line[j] \in Int
    BY <2>1, FirstMet
  <2>3. p \in Int
    BY PlacesAreNumbers
  <2>4. Len(line) \in Nat
    BY <1>1, LinesAre DEF Geometry
  <2> HIDE DEF line, end, p
  <2>5. Nearest(line, from, p) = end
    BY <2>2, <2>3, <2>4, NearestIs
  <2>6. QED
    BY <1>2, <2>5 DEF from, end, p
<1>4. BoundariesStep(places, f)
  <2> DEFINE g == [i \in 0..n |-> IF i = 0 THEN 1 ELSE Nearest(line, f[i - 1], places[i])]
  <2>1. ASSUME NEW i \in 0..n PROVE f[i] = g[i]
    <3>1. CASE i = 0
      BY <1>2, <3>1
    <3>2. CASE i # 0
      <4>1. i \in 1..n
        BY <1>1, <3>2
      <4> HIDE DEF f
      <4>2. QED
        BY <1>3, <3>2, <4>1
    <3>3. QED
      BY <3>1, <3>2
  <2>2. f = g
    BY <2>1
  <2>3. QED
    BY <2>2 DEF BoundariesStep
<1> DEFINE found == CHOOSE g : BoundariesStep(places, g)
<1>5. LegBoundaries(places) = [i \in 1..n |-> found[i]]
  BY DEF LegBoundaries, BoundariesStep
<1>6. BoundariesStep(places, found)
  BY <1>4
<1> HIDE DEF found, f
<1>7. /\ found[0] = 1
      /\ \A i \in 1..n : found[i] = Nearest(line, found[i - 1], places[i])
  <2>1. \A i \in 0..n : found[i] =
          IF i = 0 THEN 1 ELSE Nearest(line, found[i - 1], places[i])
    BY <1>6 DEF BoundariesStep
  <2> HIDE DEF line
  <2>2. QED
    BY <1>1, <2>1
<1> DEFINE same == {i \in 0..n : found[i] = f[i]}
<1>8. 0 \in same
  BY <1>1, <1>2, <1>7
<1>9. ASSUME NEW i \in 1..n, i - 1 \in same PROVE i \in same
  BY <1>1, <1>3, <1>7, <1>9
<1>10. \A i \in 0..n : i \in same
  <2> HIDE DEF same, n
  <2>1. QED
    BY <1>1, <1>8, <1>9, AllReached
<1>11. \A i \in 1..n : found[i] = Reach(places, i)
  BY <1>1, <1>2, <1>10
<1>12. LegBoundaries(places) = [i \in 1..n |-> Reach(places, i)]
  BY <1>5, <1>11
<1>13. QED
  BY <1>1, <1>12

\* With the boundaries of its own route, the leg of a segment is the one it is part of.
LEMMA LegIndexOfRoute ==
  ASSUME NEW places \in Seq(Places), Len(places) >= 2,
         NEW segment \in 1..(Len(Geometry(places)) - 1)
  PROVE  LegIndex(LegBoundaries(places), segment) = LegOf(places, segment)
<1> DEFINE n == Len(places)
           R(i) == Reach(places, i)
           bounds == LegBoundaries(places)
           over == {i \in 1..n : R(i) > segment}
<1>1. n \in Nat /\ n >= 2
  OBVIOUS
<1>2. bounds = [i \in 1..n |-> R(i)] /\ Len(bounds) = n
  BY BoundariesAreReaches
<1>3. R(n) = Len(Geometry(places)) /\ R(1) = 1 /\ \A i \in 1..n : R(i) \in Nat
  <2>1. 1 \in 1..n
    BY <1>1
  <2>2. R(1) = 1 /\ \A i \in 1..n : R(i) \in Nat
    BY <2>1, LineEnds
  <2>3. R(n) = Len(Geometry(places))
    BY DEF Reach, Geometry
  <2>4. QED
    BY <2>2, <2>3
<1>4. \A i, j \in 1..n : i <= j => R(i) <= R(j)
  <2> TAKE i, j \in 1..n
  <2>1. i \in 0..n /\ j \in 0..n
    BY <1>1
  <2>2. QED
    BY <2>1, LineGrows
<1>5. segment \in Nat /\ 1 <= segment /\ segment < R(n)
  <2>1. R(n) \in Nat
    BY <1>1, <1>3
  <2>2. segment \in 1..(R(n) - 1)
    BY <1>3
  <2> HIDE DEF R
  <2>3. QED
    BY <2>1, <2>2
<1> HIDE DEF R, bounds
<1>6. over \in SUBSET Nat /\ over # {}
  <2>1. n \in over
    BY <1>1, <1>5
  <2>2. QED
    BY <2>1
<1>7. PICK t \in over : \A i \in over : t <= i
  BY <1>6, LeastNatural
<1> DEFINE m == t - 1
<1>8. t \in 1..n /\ R(t) > segment
  BY <1>7
<1> HIDE DEF n
<1>9. m \in 1..(n - 1) /\ m + 1 = t /\ R(m) <= segment /\ segment < R(m + 1)
  <2>1. t # 1
    BY <1>3, <1>5, <1>8
  <2>2. m \in 1..(n - 1) /\ m + 1 = t /\ m \in 1..n /\ ~(t <= m)
    BY <1>1, <1>8, <2>1
  <2>3. m \notin over
    BY <1>7, <2>2
  <2>4. R(m) <= segment
    BY <1>3, <1>5, <2>2, <2>3
  <2>5. QED
    BY <1>3, <1>5, <1>8, <2>2, <2>4
<1> HIDE DEF m, over
<1> DEFINE before == {i \in 1..Len(bounds) : \A j \in 1..i : bounds[j] <= segment}
<1>10. before = 1..m
  <2>1. ASSUME NEW i \in before PROVE i \in 1..m
    <3>1. i \in 1..n
      BY <1>2
    <3>2. bounds[i] <= segment
      BY <1>1, <2>1, <3>1
    <3>3. R(i) <= segment
      BY <1>2, <3>1, <3>2
    <3>4. ~(m + 1 <= i)
      <4>1. m + 1 \in 1..n
        BY <1>1, <1>9
      <4>2. R(i) \in Nat /\ R(m + 1) \in Nat
        BY <1>3, <3>1, <4>1
      <4>3. QED
        BY <1>4, <1>5, <1>9, <3>1, <3>3, <4>1, <4>2
    <3>5. QED
      BY <1>1, <1>9, <3>1, <3>4
  <2>2. ASSUME NEW i \in 1..m PROVE i \in before
    <3>1. i \in 1..n /\ m \in 1..n
      BY <1>1, <1>9
    <3>2. ASSUME NEW j \in 1..i PROVE bounds[j] <= segment
      <4>1. j \in 1..n /\ j <= m
        BY <1>1, <1>9, <3>1
      <4>2. R(j) <= R(m) /\ R(j) \in Nat /\ R(m) \in Nat /\ bounds[j] = R(j)
        BY <1>2, <1>3, <1>4, <3>1, <4>1
      <4>3. QED
        BY <1>5, <1>9, <4>2
    <3>3. QED
      BY <1>2, <3>1, <3>2
  <2>3. QED
    BY <2>1, <2>2
<1>11. Cardinality(before) = m
  <2>1. m \in Int /\ m >= 1
    BY <1>1, <1>9
  <2>2. Cardinality(1..m) = m
    BY <2>1, FS_Interval
  <2>3. QED
    BY <1>10, <2>2
<1>12. LegIndex(bounds, segment) = m
  <2>1. LegIndex(bounds, segment) =
          IF Len(bounds) < 2 THEN 1
          ELSE IF Cardinality(before) > Len(bounds) - 1 THEN Len(bounds) - 1
          ELSE IF Cardinality(before) = 0 THEN 1 ELSE Cardinality(before)
    BY DEF LegIndex
  <2> HIDE DEF before
  <2>2. QED
    BY <1>1, <1>2, <1>9, <1>11, <2>1
<1>13. LegOf(places, segment) = m
  <2>1. LegOf(places, segment) =
          CHOOSE i \in 1..(n - 1) : R(i) <= segment /\ segment < R(i + 1)
    BY DEF LegOf, R, Reach, n
  <2>2. ASSUME NEW i \in 1..(n - 1), R(i) <= segment, segment < R(i + 1) PROVE i = m
    <3>1. i \in 1..n /\ i + 1 \in 1..n /\ m \in 1..n /\ m + 1 \in 1..n
      BY <1>1, <1>9
    <3>2. R(i) \in Nat /\ R(i + 1) \in Nat /\ R(m) \in Nat /\ R(m + 1) \in Nat
      BY <1>3, <3>1
    <3>3. ~(i + 1 <= m) /\ ~(m + 1 <= i)
      BY <1>4, <1>5, <1>9, <2>2, <3>1, <3>2
    <3>4. QED
      BY <1>1, <1>9, <3>3
  <2>3. QED
    BY <1>9, <2>1, <2>2
<1>14. QED
  BY <1>12, <1>13 DEF bounds

\* A press grabs the first of the segments that pass there.
LEMMA NearestSegmentIs ==
  ASSUME NEW line, Len(line) \in Nat, NEW x,
         \E i \in 1..(Len(line) - 1) : {line[i], line[i + 1]} = {x, x + 1}
  PROVE  NearestSegment(line, x) \in 1..(Len(line) - 1)
<1> DEFINE passing == {i \in 1..(Len(line) - 1) : {line[i], line[i + 1]} = {x, x + 1}}
<1>1. passing # {}
  OBVIOUS
<1>2. passing \in SUBSET (1..(Len(line) - 1))
  OBVIOUS
<1>3. NearestSegment(line, x) = CHOOSE i \in passing : \A j \in passing : i <= j
  BY DEF NearestSegment
<1> HIDE DEF passing
<1>4. passing \in SUBSET Nat
  BY <1>2
<1>5. \E i \in passing : \A j \in passing : i <= j
  BY <1>1, <1>4, LeastNatural
<1>6. NearestSegment(line, x) \in passing
  BY <1>3, <1>5
<1>7. QED
  BY <1>2, <1>6

-----------------------------------------------------------------------------
(* Loops. *)

\* A list with one place more, between the same ends.
Grown(s, p, t) ==
  /\ t \in Seq(Places) /\ Len(t) = Len(s) + 1
  /\ t[1] = s[1] /\ t[Len(t)] = s[Len(s)]
  /\ \E l \in 1..Len(t) : t[l] = p
  /\ \A k \in 1..Len(s) : \E l \in 1..Len(t) : t[l] = s[k]

\* A place put on its cheapest leg leaves the ends, and all there was.
LEMMA OnePlaceMore ==
  ASSUME NEW s \in Seq(Places), Len(s) >= 2, NEW p \in Places,
         NEW t, t = InsertAt(s, Cheapest(s, p) + 1, p)
  PROVE  Grown(s, p, t)
<1> DEFINE i == Cheapest(s, p) + 1
           n == Len(s)
<1>1. n \in Nat /\ n >= 2
  OBVIOUS
<1>2. i \in 2..n
  <2>1. Cheapest(s, p) \in 1..(n - 1)
    BY CheapestIs
  <2>2. QED
    BY <1>1, <2>1
<1>3. t = InsertAt(s, i, p)
  OBVIOUS
<1> HIDE DEF i
<1>4. i \in 1..(Len(s) + 1)
  BY <1>1, <1>2
<1>5. /\ t \in Seq(Places) /\ Len(t) = n + 1 /\ t[i] = p
      /\ \A k \in 1..n : (k < i => t[k] = s[k]) /\ (k >= i => t[k + 1] = s[k])
  BY <1>3, <1>4, InsertIs
<1> HIDE DEF n
<1>6. t[1] = s[1] /\ t[Len(t)] = s[n]
  <2>1. 1 \in 1..n /\ 1 < i /\ n \in 1..n /\ n >= i
    BY <1>1, <1>2
  <2>2. QED
    BY <1>5, <2>1
<1>7. i \in 1..Len(t)
  BY <1>1, <1>2, <1>5
<1>8. ASSUME NEW k \in 1..n PROVE \E l \in 1..Len(t) : t[l] = s[k]
  <2>1. k \in 1..Len(t) /\ k + 1 \in 1..Len(t) /\ (k < i \/ k >= i)
    BY <1>1, <1>2, <1>5
  <2>2. QED
    BY <1>5, <2>1
<1>9. QED
  BY <1>5, <1>6, <1>7, <1>8 DEF n, Grown

\* A function that is what the lists with more and more via points are.
ViasStep(places, vias, built) ==
  built = [k \in 0..Len(vias) |->
             IF k = 0 THEN places
             ELSE InsertAt(built[k - 1], Cheapest(built[k - 1], vias[k]) + 1, vias[k])]

\* All that is imposed goes between the ends.
LEMMA ViasInserted ==
  ASSUME NEW places \in Seq(Places), Len(places) >= 2, NEW vias \in Seq(Places),
         NEW r, r = InsertViaPoints(places, vias)
  PROVE  /\ r \in Seq(Places) /\ Len(r) = Len(places) + Len(vias)
         /\ r[1] = places[1] /\ r[Len(r)] = places[Len(places)]
         /\ \A j \in 1..Len(vias) : \E l \in 1..Len(r) : r[l] = vias[j]
<1> DEFINE n == Len(vias)
           Lists == {s \in Seq(Places) : Len(s) >= 2}
           More(s, k) == InsertAt(s, Cheapest(s, vias[k]) + 1, vias[k])
           step == [x \in (1..n) \X Lists |-> More(x[2], x[1])]
<1>1. n \in Nat /\ \A k \in 1..n : vias[k] \in Places
  OBVIOUS
<1>2. ASSUME NEW s \in Lists, NEW k \in 1..n
      PROVE  More(s, k) \in Lists /\ Grown(s, vias[k], More(s, k))
  <2> DEFINE p == vias[k]
             t == InsertAt(s, Cheapest(s, p) + 1, p)
  <2>1. p \in Places /\ s \in Seq(Places) /\ Len(s) >= 2 /\ Len(s) \in Nat
    BY <1>1
  <2> HIDE DEF p
  <2>2. t = InsertAt(s, Cheapest(s, p) + 1, p)
    OBVIOUS
  <2>3. t = More(s, k)
    BY DEF p, More
  <2> HIDE DEF t, More
  <2>4. Grown(s, p, t)
    BY <2>1, <2>2, OnePlaceMore
  <2>5. QED
    BY <2>1, <2>3, <2>4 DEF p, Grown
<1> HIDE DEF More
<1>3. ASSUME NEW k \in 1..n, NEW s \in Lists PROVE step[<<k, s>>] = More(s, k)
  <2>1. <<k, s>> \in (1..n) \X Lists
    OBVIOUS
  <2> HIDE DEF Lists, n
  <2>2. QED
    BY <2>1
<1>4. step \in [(1..n) \X Lists -> Lists] /\ places \in Lists
  BY <1>2
<1> HIDE DEF step
<1>5. PICK f \in [0..n -> Lists] : Recursive(f, places, n, step)
  <2> HIDE DEF n, Lists
  <2>1. QED
    BY <1>1, <1>4, RecursionExists
<1>6. f[0] = places /\ \A k \in 1..n : f[k - 1] \in Lists /\ f[k] = More(f[k - 1], k)
  <2>1. f[0] = places /\ \A k \in 1..n : f[k] = step[<<k, f[k - 1]>>]
    BY <1>5 DEF Recursive
  <2>2. \A k \in 1..n : k - 1 \in 0..n
    BY <1>1
  <2> HIDE DEF Lists, n
  <2>3. \A k \in 1..n : f[k - 1] \in Lists
    BY <1>5, <2>2
  <2>4. QED
    BY <1>3, <2>1, <2>3
<1>7. ViasStep(places, vias, f)
  <2> DEFINE g == [k \in 0..n |-> IF k = 0 THEN places ELSE More(f[k - 1], k)]
  <2> HIDE DEF Lists
  <2>1. ASSUME NEW k \in 0..n PROVE f[k] = g[k]
    <3>1. CASE k = 0
      BY <1>6, <3>1
    <3>2. CASE k # 0
      <4>1. k \in 1..n
        BY <1>1, <3>2
      <4>2. QED
        BY <1>6, <3>2, <4>1
    <3>3. QED
      BY <3>1, <3>2
  <2>2. f = g
    BY <1>5, <2>1
  <2>3. QED
    BY <2>2 DEF ViasStep, More
<1> DEFINE built == CHOOSE g : ViasStep(places, vias, g)
<1>8. r = built[n]
  BY DEF InsertViaPoints, ViasStep
<1>9. ViasStep(places, vias, built)
  BY <1>7
<1> HIDE DEF built
<1>10. built[0] = places /\ \A k \in 1..n : built[k] = More(built[k - 1], k)
  <2>1. \A k \in 0..n : built[k] = IF k = 0 THEN places ELSE More(built[k - 1], k)
    BY <1>9 DEF ViasStep, More
  <2> HIDE DEF n
  <2>2. QED
    BY <1>1, <2>1 DEF n
<1> DEFINE Right(k) == /\ built[k] \in Lists /\ Len(built[k]) = Len(places) + k
                       /\ built[k][1] = places[1]
                       /\ built[k][Len(built[k])] = places[Len(places)]
                       /\ \A j \in 1..k : \E l \in 1..Len(built[k]) : built[k][l] = vias[j]
           right == {k \in 0..n : Right(k)}
<1>11. Right(0)
  BY <1>4, <1>10
<1>12. ASSUME NEW k \in 1..n, Right(k - 1) PROVE Right(k)
  <2> DEFINE s == built[k - 1]
             t == built[k]
  <2>1. s \in Lists /\ Len(s) = Len(places) + (k - 1) /\ Len(places) \in Nat /\ k \in Int
    BY <1>1, <1>12
  <2>2. t = More(s, k)
    BY <1>10
  <2>3. /\ t \in Lists /\ Len(t) = Len(s) + 1
        /\ t[1] = s[1] /\ t[Len(t)] = s[Len(s)]
        /\ \E l \in 1..Len(t) : t[l] = vias[k]
        /\ \A i \in 1..Len(s) : \E l \in 1..Len(t) : t[l] = s[i]
    <3> HIDE DEF s, t, Lists
    <3>1. t \in Lists /\ Grown(s, vias[k], t)
      BY <1>2, <2>1, <2>2
    <3>2. QED
      BY <3>1 DEF Grown
  <2>4. /\ s[1] = places[1] /\ s[Len(s)] = places[Len(places)]
        /\ \A j \in 1..(k - 1) : \E l \in 1..Len(s) : s[l] = vias[j]
    BY <1>12
  <2> HIDE DEF s, Lists
  <2>5. ASSUME NEW j \in 1..k PROVE \E l \in 1..Len(t) : t[l] = vias[j]
    <3> HIDE DEF t
    <3>1. CASE j = k
      BY <2>3, <3>1
    <3>2. CASE j # k
      <4>1. j \in 1..(k - 1)
        BY <2>1, <3>2
      <4>2. QED
        BY <2>3, <2>4, <4>1
    <3>3. QED
      BY <3>1, <3>2
  <2>6. Len(t) = Len(places) + k
    <3> HIDE DEF t
    <3>1. QED
      BY <2>1, <2>3
  <2>7. QED
    BY <2>3, <2>4, <2>5, <2>6
<1> HIDE DEF Right
<1>13. \A k \in 0..n : k \in right
  <2>1. 0 \in right
    BY <1>1, <1>11
  <2>2. \A k \in 1..n : k - 1 \in right => k \in right
    BY <1>1, <1>12
  <2> HIDE DEF right, n
  <2>3. QED
    BY <1>1, <2>1, <2>2, AllReached
<1>14. Right(n)
  BY <1>1, <1>13
<1>15. QED
  BY <1>8, <1>14 DEF Right

\* A share of a line rounds to one of its positions, the ends to the ends.
LEMMA RoundedIs ==
  ASSUME NEW b \in Nat \ {0}, NEW m \in Nat, NEW i \in 0..b
  PROVE  /\ Rounded(i * m, b) \in 0..m
         /\ i = 0 => Rounded(i * m, b) = 0
         /\ i = b => Rounded(i * m, b) = m
<1> DEFINE a == i * m
           q == a \div b
           r == a % b
<1>1. a \in Nat /\ a <= b * m /\ b * m \in Nat
  <2>1. i \in Nat /\ i <= b
    OBVIOUS
  <2>2. i * m <= b * m
    BY <2>1
  <2>3. QED
    BY <2>1, <2>2
<1>2. (i = 0 => a = 0) /\ (i = b => a = b * m)
  OBVIOUS
<1> HIDE DEF a
<1>3. /\ q \in Nat /\ r \in 0..(b - 1) /\ a = b * q + r
  BY <1>1
<1>4. Rounded(a, b) = IF 2 * r > b \/ (2 * r = b /\ q % 2 = 1) THEN q + 1 ELSE q
  BY DEF Rounded
<1> HIDE DEF q, r
<1>5. b * q <= b * m
  BY <1>1, <1>3
<1>6. q <= m
  <2>1. SUFFICES ASSUME q >= m + 1 PROVE FALSE
    BY <1>3
  <2>2. b * q >= b * (m + 1)
    BY <1>3, <2>1
  <2>3. b * (m + 1) = b * m + b
    OBVIOUS
  <2>4. b * m \in Nat /\ b * q \in Nat
    BY <1>1, <1>3
  <2>5. QED
    BY <1>5, <2>2, <2>3, <2>4
<1>7. q = m => r = 0
  BY <1>1, <1>3
<1>8. r = 0 => Rounded(a, b) = q
  BY <1>4
<1>9. Rounded(a, b) \in {q, q + 1}
  BY <1>4
<1>10. Rounded(a, b) \in 0..m
  BY <1>3, <1>6, <1>7, <1>8, <1>9
<1>11. i = 0 => Rounded(a, b) = 0
  <2>1. SUFFICES ASSUME a = 0 PROVE Rounded(a, b) = 0
    BY <1>2
  <2>2. b * q = 0 /\ r = 0
    <3>1. b * q \in Nat
      BY <1>3
    <3>2. QED
      BY <1>3, <2>1, <3>1
  <2>3. q = 0
    BY <1>3, <2>2
  <2>4. QED
    BY <1>8, <2>2, <2>3
<1>12. i = b => Rounded(a, b) = m
  <2>1. SUFFICES ASSUME a = b * m PROVE Rounded(a, b) = m
    BY <1>2
  <2>2. q >= m
    <3>1. SUFFICES ASSUME q + 1 <= m PROVE FALSE
      BY <1>3
    <3>2. b * (q + 1) <= b * m
      BY <1>3, <3>1
    <3>3. b * (q + 1) = b * q + b /\ b * q \in Nat /\ b * m \in Nat
      BY <1>3
    <3>4. QED
      BY <1>3, <2>1, <3>2, <3>3
  <2>3. q = m
    BY <1>3, <1>6, <2>2
  <2>4. QED
    BY <1>7, <1>8, <2>3
<1>13. QED
  BY <1>10, <1>11, <1>12 DEF a

\* Nothing comes before the least number of a set, and all the others before the last.
LEMMA NthOfEnds ==
  ASSUME NEW all \in SUBSET Nat, IsFiniteSet(all), NEW last \in all,
         \A s \in all : 1 <= s /\ s <= last
  PROVE  /\ 1 \in all => Nth(all, 1) = 1
         /\ Nth(all, Cardinality(all)) = last
<1>1. Cardinality(all) \in Nat
  BY FS_CardinalityType
<1>2. ASSUME 1 \in all PROVE Nth(all, 1) = 1
  <2>1. {o \in all : o < 1} = {}
    <3>1. \A o \in all : ~(o < 1)
      OBVIOUS
    <3>2. QED
      BY <3>1
  <2>2. Rank(all, 1) = 1 - 1
    BY <2>1, FS_EmptySet DEF Rank
  <2>3. QED
    BY <1>2, <2>2, NthIs
<1>3. Nth(all, Cardinality(all)) = last
  <2>1. {o \in all : o < last} = all \ {last}
    <3>1. \A o \in all : o < last <=> o # last
      OBVIOUS
    <3>2. QED
      BY <3>1
  <2>2. Cardinality(all \ {last}) = Cardinality(all) - 1
    BY FS_RemoveElement
  <2>3. Rank(all, last) = Cardinality(all) - 1
    BY <2>1, <2>2 DEF Rank
  <2>4. QED
    BY <2>3, NthIs
<1>4. QED
  BY <1>2, <1>3

\* A line thinned out keeps its ends and is no longer than asked for.
LEMMA SubsampleIs ==
  ASSUME NEW line \in Seq(Places), Len(line) >= 2, NEW max \in Nat, max >= 2,
         NEW r, r = Subsample(line, max)
  PROVE  /\ r \in Seq(Places) /\ Len(r) \in 2..max
         /\ r[1] = line[1] /\ r[Len(r)] = line[Len(line)]
<1> DEFINE n == Len(line)
           b == max - 1
           Kept(i) == Rounded(i * (n - 1), b) + 1
           kept == {Kept(i) : i \in 0..b}
<1>1. n \in Nat /\ n >= 2 /\ n - 1 \in Nat /\ b \in Nat \ {0}
  OBVIOUS
<1>2. CASE n <= max
  BY <1>1, <1>2 DEF Subsample
<1>3. CASE ~(n <= max)
  <2>1. r = AtPositions(line, kept)
    BY <1>3 DEF Subsample
  <2> HIDE DEF n, b
  <2>2. /\ \A i \in 0..b : Kept(i) \in 1..n
        /\ Kept(0) = 1 /\ Kept(b) = n
    <3> DEFINE m == n - 1
    <3>1. m \in Nat /\ n = m + 1 /\ 0 \in 0..b /\ b \in 0..b
      BY <1>1
    <3> HIDE DEF m
    <3>2. \A i \in 0..b : /\ Rounded(i * m, b) \in 0..m
                          /\ i = 0 => Rounded(i * m, b) = 0
                          /\ i = b => Rounded(i * m, b) = m
      BY <1>1, <3>1, RoundedIs
    <3>3. \A i \in 0..b : Rounded(i * m, b) + 1 \in 1..n
      BY <3>1, <3>2
    <3>4. Rounded(0 * m, b) + 1 = 1 /\ Rounded(b * m, b) + 1 = n
      BY <3>1, <3>2
    <3>5. QED
      BY <3>3, <3>4 DEF m
  <2> HIDE DEF Kept
  <2>3. kept \in SUBSET (1..n) /\ 1 \in kept /\ n \in kept
    BY <1>1, <2>2
  <2>4. /\ IsFiniteSet(kept) /\ Cardinality(kept) <= max
    <3> DEFINE f == [i \in 0..b |-> Kept(i)]
    <3>1. IsFiniteSet(0..b) /\ Cardinality(0..b) = b + 1
      <4>1. b \in Int /\ ~(0 > b) /\ b - 0 + 1 = b + 1
        BY <1>1
      <4>2. QED
        BY ONLY <4>1, FS_Interval
    <3>2. f \in Surjection(0..b, kept)
      BY DEF Surjection
    <3> HIDE DEF f, kept
    <3>3. IsFiniteSet(kept) /\ Cardinality(kept) <= Cardinality(0..b)
      BY <3>1, <3>2, FS_Surjection
    <3>4. b + 1 = max
      BY DEF b
    <3>5. QED
      BY <3>1, <3>3, <3>4
  <2> HIDE DEF kept
  <2> DEFINE c == Cardinality(kept)
  <2>5. c \in Nat /\ c <= max /\ kept \in SUBSET (1..Len(line))
    BY <2>3, <2>4, FS_CardinalityType DEF n
  <2>6. c >= 2
    <3>1. {1, n} \in SUBSET kept
      BY <2>3
    <3>2. Cardinality({1, n}) = 2
      <4>1. IsFiniteSet({1}) /\ Cardinality({1}) = 1
        BY FS_Singleton
      <4>2. {1, n} = {1} \cup {n} /\ n \notin {1}
        BY <1>1
      <4>3. Cardinality({1} \cup {n}) = Cardinality({1}) + 1
        BY ONLY <4>1, <4>2, FS_AddElement
      <4>4. Cardinality({1, n}) = Cardinality({1}) + 1
        BY ONLY <4>2, <4>3
      <4>5. QED
        BY ONLY <4>1, <4>4
    <3>3. QED
      BY <2>4, <3>1, <3>2, FS_Subset
  <2>7. Nth(kept, 1) = 1 /\ Nth(kept, c) = n
    <3>1. kept \in SUBSET Nat /\ \A s \in kept : 1 <= s /\ s <= n
      BY <1>1, <2>3
    <3>2. QED
      BY <2>3, <2>4, <3>1, NthOfEnds
  <2>8. /\ r \in Seq(Places) /\ Len(r) = c
        /\ \A k \in 1..c : r[k] = line[Nth(kept, k)]
    BY <2>1, <2>5, AtPositionsIs
  <2> HIDE DEF c
  <2>9. 1 \in 1..c /\ c \in 1..c /\ c \in 2..max
    BY <2>5, <2>6
  <2>10. QED
    BY <2>7, <2>8, <2>9 DEF n
<1>4. QED
  BY <1>2, <1>3

-----------------------------------------------------------------------------
(* The invariant. *)

\* The list is drawn from the points, and a form is of one of them.
FormFits ==
  /\ list = points
  /\ form # NoForm => /\ form \in [id : Ids, was : Places, typed : Places]
                      /\ form.id \in IdsOf(points)

\* What is dragged was a segment of the route displayed at the press.
GesturesFit ==
  /\ drag.segment \in Nat /\ drag.of \in Seq(Places)
  /\ drag # NoDrag => drag.segment \in 1..(Len(Geometry(drag.of)) - 1)
  /\ lifted \in Nat

\* What is drawn, what its boundaries are of, and what is awaited.
RouteFits ==
  /\ shown \in Seq(Places) /\ bounded \in Seq(Places)
  /\ Len(bounded) <= MaxWaypoints
  /\ computing \in {"no", "route", "enrichment"}
  /\ changes \in 0..MaxChanges

\* Between them: what a gesture, a form or a button will act on is still there.
IInv == Sound(points) /\ FormFits /\ GesturesFit /\ RouteFits

\* The invariant gives the types.
LEMMA TypesHold == IInv => TypeOK
<1> SUFFICES ASSUME IInv PROVE TypeOK
  OBVIOUS
<1>1. DOMAIN points = 1..Len(points) /\ \A i \in 1..Len(points) : points[i] \in Point
  BY DEF IInv, Sound
<1>2. \A i, j \in DOMAIN points :
        /\ points[i] \in [id : Ids, at : Places]
        /\ points[i].id = points[j].id => i = j
  BY <1>1 DEF IInv, Sound, Point
<1>3. QED
  BY <1>2 DEF IInv, FormFits, GesturesFit, RouteFits, TypeOK

\* At first there is nothing.
LEMMA InitIInv == Init => IInv
<1> SUFFICES ASSUME Init PROVE IInv
  OBVIOUS
<1>1. /\ points = <<>> /\ list = <<>> /\ shown = <<>> /\ bounded = <<>>
      /\ computing = "no" /\ drag = NoDrag /\ form = NoForm /\ lifted = 0 /\ changes = 0
  BY DEF Init
<1>2. <<>> \in Seq(Point) /\ <<>> \in Seq(Places) /\ Len(<<>>) = 0
  OBVIOUS
<1>3. Sound(points)
  BY <1>1, <1>2 DEF Sound
<1>4. FormFits
  BY <1>1 DEF FormFits
<1>5. GesturesFit
  BY <1>1, <1>2 DEF GesturesFit, NoDrag
<1>6. MaxChanges \in Nat /\ MaxWaypoints \in Nat
  BY GestureAssumption
<1>7. RouteFits
  <2>1. shown \in Seq(Places) /\ bounded \in Seq(Places) /\ Len(bounded) = 0
    BY <1>1, <1>2
  <2>2. changes \in 0..MaxChanges
    BY <1>1, <1>6
  <2>3. Len(bounded) <= MaxWaypoints
    BY <1>6, <2>1
  <2>4. QED
    BY <1>1, <2>1, <2>2, <2>3 DEF RouteFits
<1>8. QED
  BY <1>3, <1>4, <1>5, <1>7 DEF IInv

\* The form made from the points is of the point that has its id.
LEMMA FormOfIs ==
  ASSUME NEW pts \in Seq(Point), NEW id \in IdsOf(pts)
  PROVE  /\ FormOf(pts, id) \in [id : Ids, was : Places, typed : Places]
         /\ FormOf(pts, id).id = id
<1> DEFINE all == {pts[i] : i \in DOMAIN pts}
           p == CHOOSE q \in all : q.id = id
<1>1. \A q \in all : q \in Point
  OBVIOUS
<1>2. \E q \in all : q.id = id
  BY DEF IdsOf
<1>3. p \in all /\ p.id = id
  BY <1>2
<1>4. FormOf(pts, id) = [id |-> id, was |-> p.at, typed |-> p.at]
  BY DEF FormOf
<1> HIDE DEF p, all
<1>5. p \in Point
  BY <1>1, <1>3
<1>6. p.at \in Places /\ id \in Ids
  BY <1>3, <1>5 DEF Point
<1>7. QED
  BY <1>4, <1>6

\* A list drawn again is of the points it is drawn from, and so is its form.
LEMMA RenderFits ==
  ASSUME NEW pts \in Seq(Point), NEW edited, RenderList(pts, edited, FALSE)
  PROVE  /\ list' = pts
         /\ form' # NoForm => /\ form' \in [id : Ids, was : Places, typed : Places]
                              /\ form'.id \in IdsOf(pts)
<1>1. list' = pts /\ form' = IF edited.id \in IdsOf(pts) THEN FormOf(pts, edited.id) ELSE NoForm
  BY DEF RenderList
<1>2. CASE edited.id \in IdsOf(pts)
  <2>1. form' = FormOf(pts, edited.id)
    BY <1>1, <1>2
  <2>2. QED
    BY <1>1, <1>2, <2>1, FormOfIs
<1>3. CASE edited.id \notin IdsOf(pts)
  BY <1>1, <1>3
<1>4. QED
  BY <1>2, <1>3

\* A change of the points keeps the invariant, if the new ones are sound.
LEMMA ChangeKeepsIInv ==
  ASSUME IInv, NEW pts, Sound(pts), NEW edited, Change(pts, edited), GesturesFit'
  PROVE  IInv'
<1>1. /\ points' = pts /\ RenderList(pts, edited, FALSE)
      /\ changes < MaxChanges /\ changes' = changes + 1 /\ bounded' = bounded
      /\ IF Len(pts) < 2 THEN computing' = "no" /\ shown' = <<>>
         ELSE computing' = "route" /\ shown' = shown
  BY DEF Change
<1>2. pts \in Seq(Point)
  BY DEF Sound
<1>3. FormFits'
  BY <1>1, <1>2, RenderFits DEF FormFits
<1>4. Sound(points)'
  BY <1>1
<1>5. RouteFits'
  <2>1. changes' \in 0..MaxChanges
    BY <1>1, GestureAssumption DEF IInv, RouteFits
  <2>2. <<>> \in Seq(Places)
    OBVIOUS
  <2>3. shown' \in Seq(Places) /\ computing' \in {"no", "route", "enrichment"}
    BY <1>1, <2>2 DEF IInv, RouteFits
  <2>4. QED
    BY <1>1, <2>1, <2>3 DEF IInv, RouteFits
<1>6. QED
  BY <1>3, <1>4, <1>5 DEF IInv

\* A point put in the list.
LEMMA InsertKeepsIInv ==
  ASSUME IInv, NEW index \in 1..(Len(points) + 1), NEW p \in Places, Insert(index, p),
         GesturesFit'
  PROVE  IInv'
<1> DEFINE q == [id |-> FreshIds(1)[1], at |-> p]
           pts == InsertAt(points, index, q)
<1>1. Sound(points) /\ points \in Seq(Point)
  BY DEF IInv, Sound
<1>2. FreshIds(1)[1] \in Ids /\ FreshIds(1)[1] \notin IdsOf(points)
  BY <1>1, FreshIdsAre
<1>3. q \in Point /\ q.id \notin IdsOf(points)
  BY <1>2 DEF Point
<1>4. Change(pts, form)
  BY DEF Insert
<1> HIDE DEF q
<1>5. Sound(pts)
  BY <1>1, <1>3, InsertSound
<1> HIDE DEF pts
<1>6. QED
  BY <1>4, <1>5, ChangeKeepsIInv

-----------------------------------------------------------------------------
(* Every action keeps it. *)

\* What leaves the points, the list and the route alone.
LEMMA GestureKeepsIInv ==
  ASSUME IInv, UNCHANGED <<points, routeVars, listVars, changes>>, GesturesFit'
  PROVE  IInv'
<1>1. UNCHANGED <<points, shown, bounded, computing, list, form, changes>>
  BY DEF routeVars, listVars
<1>2. Sound(points)' /\ FormFits' /\ RouteFits'
  BY <1>1 DEF IInv, FormFits, RouteFits, Sound
<1>3. QED
  BY <1>2 DEF IInv

\* A step that leaves the gestures alone leaves them fit.
LEMMA SameGestures ==
  ASSUME IInv, UNCHANGED gestures
  PROVE  GesturesFit'
BY DEF IInv, GesturesFit, gestures

\* A click adds a point somewhere in the list or at its end.
LEMMA AddPointStep ==
  ASSUME IInv, NEW p \in Places, AddPoint(p)
  PROVE  IInv'
<1> DEFINE index == IndexForNewPoint(PlacesOf(points), p)
<1>1. points \in Seq(Point) /\ Len(points) \in Nat
  BY DEF IInv, Sound
<1>2. PlacesOf(points) \in Seq(Places) /\ Len(PlacesOf(points)) = Len(points)
  BY <1>1, PlacesAre
<1>3. index \in 1..(Len(points) + 1)
  BY <1>2, NewPointIndex
<1>4. Len(points) + 1 \in 1..(Len(points) + 1)
  BY <1>1
<1>5. GesturesFit'
  BY SameGestures DEF AddPoint
<1>6. Insert(index, p) \/ Insert(Len(points) + 1, p)
  BY DEF AddPoint
<1> HIDE DEF index
<1>7. QED
  BY <1>3, <1>4, <1>5, <1>6, InsertKeepsIInv

\* The position where a dragged step comes.
DropIndex(p) ==
  IndexForRouteDrop(PlacesOf(points), LegBoundaries(bounded), drag.segment, p)

\* Whatever the boundaries are worth, it is one of the positions, and between the
\* ends if there are two.
LEMMA DropIndexIs ==
  ASSUME IInv, NEW p \in Places
  PROVE  /\ points \in Seq(Point) /\ Len(points) \in Nat
         /\ PlacesOf(points) \in Seq(Places) /\ Len(PlacesOf(points)) = Len(points)
         /\ DropIndex(p) \in 1..(Len(points) + 1)
         /\ Len(points) >= 2 => DropIndex(p) \in 2..Len(points)
<1>1. points \in Seq(Point) /\ Len(points) \in Nat
  BY DEF IInv, Sound
<1>2. PlacesOf(points) \in Seq(Places) /\ Len(PlacesOf(points)) = Len(points)
  BY <1>1, PlacesAre
<1>3. bounded \in Seq(Places) /\ Len(bounded) \in Nat
  BY DEF IInv, RouteFits
<1>4. Len(LegBoundaries(bounded)) \in Nat
  BY <1>3, BoundariesAreReaches
<1>5. QED
  BY <1>1, <1>2, <1>4, RouteDropIndex DEF DropIndex

\* No drag, no segment.
LEMMA NoDragFits ==
  ASSUME IInv, drag' = NoDrag, lifted' \in Nat
  PROVE  GesturesFit'
<1>1. <<>> \in Seq(Places)
  OBVIOUS
<1>2. QED
  BY <1>1 DEF GesturesFit, NoDrag

\* A release puts one more point where it was dragged.
LEMMA ReleaseStep ==
  ASSUME IInv, NEW p \in Places, Release(p)
  PROVE  IInv'
<1>1. Insert(DropIndex(p), p)
  BY DEF Release, DropIndex
<1>2. DropIndex(p) \in 1..(Len(points) + 1)
  BY DropIndexIs
<1>3. GesturesFit'
  BY NoDragFits DEF Release, IInv, GesturesFit
<1>4. QED
  BY <1>1, <1>2, <1>3, InsertKeepsIInv

\* A press takes hold of a segment of what is displayed.
LEMMA PressStep ==
  ASSUME IInv, NEW x, Press(x)
  PROVE  IInv'
<1> DEFINE line == Geometry(shown)
<1>1. shown \in Seq(Places) /\ Len(shown) \in Nat
  BY DEF IInv, RouteFits
<1>2. Len(line) \in Nat
  <2>1. Len(shown) \in 0..Len(shown)
    BY <1>1
  <2>2. line \in Seq(Int)
    BY <1>1, <2>1, LinesAre DEF Geometry
  <2>3. QED
    BY <2>2
<1>3. /\ \E i \in 1..(Len(line) - 1) : {line[i], line[i + 1]} = {x, x + 1}
      /\ drag' = [segment |-> NearestSegment(line, x), of |-> shown]
      /\ UNCHANGED <<points, routeVars, lifted, listVars, changes>>
  BY DEF Press
<1> HIDE DEF line
<1>4. NearestSegment(line, x) \in 1..(Len(line) - 1)
  BY <1>2, <1>3, NearestSegmentIs
<1>5. drag'.segment = NearestSegment(line, x) /\ drag'.of = shown
  BY <1>3
<1>6. drag'.segment \in 1..(Len(Geometry(drag'.of)) - 1) /\ drag'.segment \in Nat
  BY <1>2, <1>4, <1>5 DEF line
<1>7. GesturesFit'
  BY <1>1, <1>3, <1>5, <1>6 DEF GesturesFit, IInv
<1>8. QED
  BY <1>3, <1>7, GestureKeepsIInv

\* A drag given up changes nothing else.
LEMMA GiveUpStep ==
  ASSUME IInv, GiveUp
  PROVE  IInv'
<1>1. GesturesFit'
  BY NoDragFits DEF GiveUp, IInv, GesturesFit
<1>2. QED
  BY <1>1, GestureKeepsIInv DEF GiveUp

\* A point moved keeps its id.
LEMMA MovePointStep ==
  ASSUME IInv, NEW i \in DOMAIN points, NEW p \in Places, MovePoint(i, p)
  PROVE  IInv'
<1> DEFINE pts == [points EXCEPT ![i].at = p]
<1>1. /\ Sound(points) /\ points \in Seq(Point) /\ Len(points) \in Nat
      /\ DOMAIN points = 1..Len(points)
  BY DEF IInv, Sound
<1>2. \A k \in 1..Len(points) : points[k] \in Point
  BY <1>1
<1>3. \A k \in 1..Len(points) : pts[k] = IF k = i THEN [points[k] EXCEPT !.at = p] ELSE points[k]
  BY <1>1
<1>4. \A k \in 1..Len(points) : pts[k] \in Point /\ pts[k].id = points[k].id
  BY <1>2, <1>3 DEF Point
<1>5. pts \in Seq(Point) /\ Len(pts) = Len(points)
  <2>1. pts = [k \in 1..Len(points) |-> pts[k]]
    BY <1>1
  <2> HIDE DEF pts
  <2>2. QED
    BY <1>1, <1>4, <2>1
<1>6. Change(pts, form) /\ GesturesFit'
  BY SameGestures DEF MovePoint
<1> HIDE DEF pts
<1>7. Sound(pts)
  BY <1>1, <1>4, <1>5, MovedSound
<1>8. QED
  BY <1>6, <1>7, ChangeKeepsIInv

\* The points in the other order are the same.
LEMMA ReverseAllStep ==
  ASSUME IInv, ReverseAll
  PROVE  IInv'
<1>1. Sound(Reverse(points))
  BY ReverseSound DEF IInv
<1>2. Change(Reverse(points), form) /\ GesturesFit'
  BY SameGestures DEF ReverseAll
<1>3. QED
  BY <1>1, <1>2, ChangeKeepsIInv

\* A form opened is of the point its item was drawn from.
LEMMA OpenFormStep ==
  ASSUME IInv, NEW i \in DOMAIN list, OpenForm(i)
  PROVE  IInv'
<1>1. /\ list = points /\ points \in Seq(Point)
  BY DEF IInv, FormFits, Sound
<1>2. list[i].id \in IdsOf(points)
  BY <1>1 DEF IdsOf
<1>3. /\ list' = points /\ form' = FormOf(points, list[i].id)
      /\ UNCHANGED <<points, routeVars, gestures, changes>>
  BY DEF OpenForm
<1>4. FormFits'
  BY <1>1, <1>2, <1>3, FormOfIs DEF FormFits
<1>5. GesturesFit'
  BY <1>3, SameGestures
<1>6. Sound(points)' /\ RouteFits'
  BY <1>3 DEF routeVars, IInv, RouteFits, Sound
<1>7. QED
  BY <1>4, <1>5, <1>6 DEF IInv

\* What is typed stays in the form.
LEMMA TypeInFormStep ==
  ASSUME IInv, NEW p \in TypedPlaces, TypeInForm(p)
  PROVE  IInv'
<1>1. /\ form # NoForm /\ form' = [form EXCEPT !.typed = p]
      /\ UNCHANGED <<points, routeVars, gestures, list, changes>>
  BY DEF TypeInForm
<1>2. p \in Places
  BY GestureAssumption
<1>3. form \in [id : Ids, was : Places, typed : Places] /\ form.id \in IdsOf(points)
  BY <1>1 DEF IInv, FormFits
<1>4. form' \in [id : Ids, was : Places, typed : Places] /\ form'.id = form.id
  BY <1>1, <1>2, <1>3
<1>5. FormFits'
  BY <1>1, <1>3, <1>4 DEF IInv, FormFits
<1>6. GesturesFit'
  BY <1>1, SameGestures
<1>7. Sound(points)' /\ RouteFits'
  BY <1>1 DEF routeVars, IInv, RouteFits, Sound
<1>8. QED
  BY <1>5, <1>6, <1>7 DEF IInv

\* A list drawn again without a form.
LEMMA CloseFormStep ==
  ASSUME IInv, RenderList(points, NoForm, FALSE),
         UNCHANGED <<points, routeVars, gestures, changes>>
  PROVE  IInv'
<1>1. points \in Seq(Point)
  BY DEF IInv, Sound
<1>2. FormFits'
  BY <1>1, RenderFits DEF FormFits
<1>3. GesturesFit'
  BY SameGestures
<1>4. Sound(points)' /\ RouteFits'
  BY DEF routeVars, IInv, RouteFits, Sound
<1>5. QED
  BY <1>2, <1>3, <1>4 DEF IInv

\* A form committed moves its point, or nothing.
LEMMA CommitStep ==
  ASSUME IInv, Commit
  PROVE  IInv'
<1> DEFINE pts == [i \in DOMAIN points |->
                     IF points[i].id = form.id THEN [points[i] EXCEPT !.at = form.typed]
                     ELSE points[i]]
<1>1. /\ Sound(points) /\ points \in Seq(Point) /\ Len(points) \in Nat
      /\ DOMAIN points = 1..Len(points)
  BY DEF IInv, Sound
<1>2. form.typed \in Places /\ UNCHANGED gestures
  BY DEF Commit, IInv, FormFits
<1>3. CASE form.typed # form.was
  <2>1. \A k \in 1..Len(points) : points[k] \in Point
    BY <1>1
  <2>2. \A k \in 1..Len(points) : pts[k] \in Point /\ pts[k].id = points[k].id
    BY <1>1, <1>2, <2>1 DEF Point
  <2>3. pts \in Seq(Point) /\ Len(pts) = Len(points)
    <3>1. pts = [k \in 1..Len(points) |-> pts[k]]
      BY <1>1
    <3> HIDE DEF pts
    <3>2. QED
      BY <1>1, <2>2, <3>1
  <2>4. Change(pts, NoForm)
    BY <1>3 DEF Commit
  <2>5. GesturesFit'
    BY <1>2, SameGestures
  <2> HIDE DEF pts
  <2>6. Sound(pts)
    BY <1>1, <2>2, <2>3, MovedSound
  <2>7. QED
    BY <2>4, <2>5, <2>6, ChangeKeepsIInv
<1>4. CASE form.typed = form.was
  BY <1>4, CloseFormStep DEF Commit
<1>5. QED
  BY <1>3, <1>4

\* A point removed is gone from the list, and a form of it with it.
LEMMA RemovePointStep ==
  ASSUME IInv, NEW i, RemovePoint(i)
  PROVE  IInv'
<1> DEFINE kept == {k \in DOMAIN points : points[k].id # list[i].id}
           pts == AtPositions(points, kept)
<1>1. Sound(points) /\ DOMAIN points = 1..Len(points)
  BY DEF IInv, Sound
<1>2. kept \in SUBSET (1..Len(points))
  BY <1>1
<1>3. Change(pts, form) /\ GesturesFit'
  BY SameGestures DEF RemovePoint
<1> HIDE DEF kept
<1>4. Sound(pts)
  BY <1>1, <1>2, AtPositionsSound
<1> HIDE DEF pts
<1>5. QED
  BY <1>3, <1>4, ChangeKeepsIInv

\* A point put elsewhere is still there once.
LEMMA ReorderStep ==
  ASSUME IInv, NEW from, NEW to, Reorder(from, to), GesturesFit'
  PROVE  IInv'
<1> DEFINE pts == InsertAt(RemoveAt(points, from), to, points[from])
<1>1. Sound(points) /\ DOMAIN points = 1..Len(points)
  BY DEF IInv, Sound
<1>2. from \in 1..Len(points) /\ to \in 1..Len(points) /\ Change(pts, form)
  BY <1>1 DEF Reorder
<1>3. Sound(pts)
  BY <1>1, <1>2, ReorderSound
<1> HIDE DEF pts
<1>4. QED
  BY <1>2, <1>3, ChangeKeepsIInv

\* A drop reorders or changes nothing.
LEMMA DropStep ==
  ASSUME IInv, Drop
  PROVE  IInv'
<1>1. GesturesFit'
  BY DEF Drop, IInv, GesturesFit
<1>2. CASE \E to \in DOMAIN list : Reorder(lifted, to)
  BY <1>1, <1>2, ReorderStep
<1>3. CASE UNCHANGED <<points, routeVars, listVars, changes>>
  BY <1>1, <1>3, GestureKeepsIInv
<1>4. QED
  BY <1>2, <1>3 DEF Drop

\* An item lifted is one of the list.
LEMMA LiftStep ==
  ASSUME IInv, NEW i \in DOMAIN list, Lift(i)
  PROVE  IInv'
<1>1. list = points /\ points \in Seq(Point)
  BY DEF IInv, FormFits, Sound
<1>2. i \in Nat
  BY <1>1
<1>3. GesturesFit'
  BY <1>2 DEF Lift, IInv, GesturesFit
<1>4. QED
  BY <1>3, GestureKeepsIInv DEF Lift

\* The list after an answer: a form open is still of a point there is, and stays.
LEMMA AnswerRendersForm ==
  ASSUME IInv, RenderList(points, form, TRUE), points' = points
  PROVE  FormFits' /\ list' = points /\ form' = form
<1>1. CASE form.id \in IdsOf(points)
  <2>1. UNCHANGED listVars
    BY <1>1 DEF RenderList
  <2>2. list' = list /\ form' = form
    BY <2>1 DEF listVars
  <2>3. QED
    BY <2>2 DEF IInv, FormFits
<1>2. CASE form.id \notin IdsOf(points)
  <2>1. list' = points /\ form' = NoForm
    BY <1>2 DEF RenderList
  <2>2. form = NoForm
    BY <1>2 DEF IInv, FormFits
  <2>3. QED
    BY <2>1, <2>2 DEF FormFits
<1>3. QED
  BY <1>1, <1>2

\* The answer to a computation draws a route of the points, or clears it.
LEMMA ComputeEndsStep ==
  ASSUME IInv, ComputeEnds
  PROVE  IInv' /\ form' = form
<1>1. /\ RenderList(points, form, TRUE) /\ UNCHANGED <<points, gestures, changes>>
      /\ computing' = "no"
  BY DEF ComputeEnds
<1>2. FormFits' /\ form' = form
  BY <1>1, AnswerRendersForm
<1>3. points \in Seq(Point) /\ <<>> \in Seq(Places)
  BY DEF IInv, Sound
<1>4. PlacesOf(points) \in Seq(Places) /\ Len(PlacesOf(points)) = Len(points)
  BY <1>3, PlacesAre
<1>5. RouteFits'
  <2>1. CASE Len(points) <= MaxWaypoints /\ shown' = PlacesOf(points) /\ bounded' = shown'
    BY <1>1, <1>4, <2>1 DEF IInv, RouteFits
  <2>2. CASE shown' = <<>> /\ UNCHANGED bounded
    BY <1>1, <1>3, <2>2 DEF IInv, RouteFits
  <2>3. QED
    BY <2>1, <2>2 DEF ComputeEnds
<1>6. Sound(points)' /\ GesturesFit'
  BY <1>1, SameGestures DEF IInv, Sound
<1>7. QED
  BY <1>2, <1>5, <1>6 DEF IInv

\* The answer to an enrichment does, or is silent.
LEMMA EnrichEndsStep ==
  ASSUME IInv, EnrichEnds
  PROVE  IInv' /\ form' = form
<1>1. UNCHANGED <<points, gestures, changes>> /\ computing' = "no"
  BY DEF EnrichEnds
<1>2. Sound(points)' /\ GesturesFit'
  BY <1>1, SameGestures DEF IInv, Sound
<1>3. CASE /\ Len(points) <= MaxWaypoints
           /\ shown' = PlacesOf(points) /\ bounded' = shown'
           /\ RenderList(points, form, TRUE)
  <2>1. FormFits' /\ form' = form
    BY <1>1, <1>3, AnswerRendersForm
  <2>2. points \in Seq(Point)
    BY DEF IInv, Sound
  <2>3. PlacesOf(points) \in Seq(Places) /\ Len(PlacesOf(points)) = Len(points)
    BY <2>2, PlacesAre
  <2>4. RouteFits'
    BY <1>1, <1>3, <2>3 DEF IInv, RouteFits
  <2>5. QED
    BY <1>2, <2>1, <2>4 DEF IInv
<1>4. CASE UNCHANGED <<shown, bounded, listVars>>
  <2>1. UNCHANGED <<list, form>>
    BY <1>4 DEF listVars
  <2>2. FormFits' /\ RouteFits'
    BY <1>1, <1>4, <2>1 DEF IInv, FormFits, RouteFits
  <2>3. QED
    BY <1>2, <2>1, <2>2 DEF IInv
<1>5. QED
  BY <1>3, <1>4 DEF EnrichEnds

\* The arrows of the list.
LEMMA UpDownStep ==
  ASSUME IInv, NEW i, UpDown(i)
  PROVE  IInv'
<1>1. GesturesFit'
  BY SameGestures DEF UpDown
<1>2. QED
  BY <1>1, ReorderStep DEF UpDown

\* A form given up.
LEMMA CancelStep ==
  ASSUME IInv, Cancel
  PROVE  IInv'
BY CloseFormStep DEF Cancel

\* The loop with its via points keeps both ends, goes through them all, and is as
\* long as was aimed at.
LEMMA LoopIs ==
  ASSUME NEW line \in Generated, NEW vias \in ViaPoints,
         NEW r, r = InsertViaPoints(Subsample(line, Target(vias)), vias)
  PROVE  /\ r \in Seq(Places) /\ Len(r) \in Nat \ {0}
         /\ r[1] = line[1] /\ r[Len(r)] = line[Len(line)]
         /\ \A j \in 1..Len(vias) : \E l \in 1..Len(r) : r[l] = vias[j]
         /\ Len(r) < MaxWaypoints \/ Len(r) = Len(vias) + 2
<1> DEFINE max == Target(vias)
           sub == Subsample(line, max)
<1>1. line \in Seq(Places) /\ Len(line) >= 2 /\ vias \in Seq(Places)
  BY GestureAssumption
<1>2. Len(vias) \in Nat /\ MaxWaypoints \in Nat
  BY <1>1, GestureAssumption
<1>3. max \in Nat /\ max >= 2 /\ (max = 2 \/ max = MaxWaypoints - 1 - Len(vias))
  BY <1>2 DEF Target
<1>4. r = InsertViaPoints(sub, vias)
  OBVIOUS
<1> HIDE DEF max
<1>5. /\ sub \in Seq(Places) /\ Len(sub) \in 2..max
      /\ sub[1] = line[1] /\ sub[Len(sub)] = line[Len(line)]
  BY <1>1, <1>3, SubsampleIs
<1> HIDE DEF sub
<1>6. Len(sub) \in Nat /\ Len(sub) >= 2 /\ Len(sub) <= max
  BY <1>3, <1>5
<1>7. /\ r \in Seq(Places) /\ Len(r) = Len(sub) + Len(vias)
      /\ r[1] = sub[1] /\ r[Len(r)] = sub[Len(sub)]
      /\ \A j \in 1..Len(vias) : \E l \in 1..Len(r) : r[l] = vias[j]
  BY <1>1, <1>4, <1>5, <1>6, ViasInserted
<1>8. Len(r) \in Nat \ {0} /\ (Len(r) < MaxWaypoints \/ Len(r) = Len(vias) + 2)
  BY <1>2, <1>3, <1>6, <1>7
<1>9. QED
  BY <1>5, <1>7, <1>8

\* The loop or the track replaces all points.
LEMMA LoopArrivesStep ==
  ASSUME IInv, NEW line \in Generated, NEW vias \in ViaPoints, LoopArrives(line, vias)
  PROVE  IInv'
<1> DEFINE r == InsertViaPoints(Subsample(line, Target(vias)), vias)
           pts == WithIds(r)
<1>1. points \in Seq(Point)
  BY DEF IInv, Sound
<1>2. r \in Seq(Places)
  BY LoopIs
<1>3. Change(pts, form) /\ GesturesFit'
  BY SameGestures DEF LoopArrives
<1> HIDE DEF r
<1>4. Sound(pts)
  BY <1>1, <1>2, WithIdsSound
<1> HIDE DEF pts
<1>5. QED
  BY <1>3, <1>4, ChangeKeepsIInv

\* A saved route takes the place of everything but the gestures.
LEMMA RouteOpensStep ==
  ASSUME IInv, NEW places \in Saved, RouteOpens(places)
  PROVE  IInv'
<1> DEFINE pts == WithIds(places)
<1>1. points \in Seq(Point)
  BY DEF IInv, Sound
<1>2. places \in Seq(Places) /\ <<>> \in Seq(Places) /\ Len(<<>>) = 0
  BY GestureAssumption
<1>3. Sound(pts) /\ pts \in Seq(Point)
  BY <1>1, <1>2, WithIdsSound DEF Sound
<1>4. /\ changes < MaxChanges /\ changes' = changes + 1
      /\ points' = pts /\ RenderList(pts, form, FALSE)
      /\ shown' = places /\ bounded' = <<>>
      /\ computing' = IF Len(places) < 2 THEN "no" ELSE "enrichment"
      /\ UNCHANGED gestures
  BY DEF RouteOpens
<1> HIDE DEF pts
<1>5. Sound(points)'
  BY <1>3, <1>4
<1>6. FormFits'
  BY <1>3, <1>4, RenderFits DEF FormFits
<1>7. GesturesFit'
  BY <1>4, SameGestures
<1>8. RouteFits'
  <2>1. changes' \in 0..MaxChanges /\ MaxWaypoints \in Nat
    BY <1>4, GestureAssumption DEF IInv, RouteFits
  <2>2. bounded' \in Seq(Places) /\ Len(bounded') <= MaxWaypoints
    BY <1>2, <1>4, <2>1
  <2>3. QED
    BY <1>2, <1>4, <2>1, <2>2 DEF RouteFits
<1>9. QED
  BY <1>5, <1>6, <1>7, <1>8 DEF IInv

\* No step breaks the invariant.
LEMMA StepKeepsIInv == IInv /\ [Next]_vars => IInv'
<1> SUFFICES ASSUME IInv, [Next]_vars PROVE IInv'
  OBVIOUS
<1>1. CASE Map
  <2>1. ASSUME NEW p \in Places, AddPoint(p) \/ Release(p) PROVE IInv'
    BY <2>1, AddPointStep, ReleaseStep
  <2>2. ASSUME NEW i \in DOMAIN points, NEW p \in Places, MovePoint(i, p) PROVE IInv'
    BY <2>2, MovePointStep
  <2>3. ASSUME NEW x \in Places, Press(x) PROVE IInv'
    BY <2>3, PressStep
  <2>4. QED
    BY <1>1, <2>1, <2>2, <2>3, ReverseAllStep, GiveUpStep DEF Map
<1>2. CASE List
  <2>1. ASSUME NEW i \in DOMAIN list, OpenForm(i) \/ RemovePoint(i) \/ UpDown(i) \/ Lift(i)
        PROVE  IInv'
    BY <2>1, OpenFormStep, RemovePointStep, UpDownStep, LiftStep
  <2>2. ASSUME NEW p \in TypedPlaces, TypeInForm(p) PROVE IInv'
    BY <2>2, TypeInFormStep
  <2>3. QED
    BY <1>2, <2>1, <2>2, CommitStep, CancelStep, DropStep DEF List
<1>3. CASE Answers
  <2>1. ASSUME NEW line \in Generated, NEW vias \in ViaPoints, LoopArrives(line, vias)
        PROVE  IInv'
    BY <2>1, LoopArrivesStep
  <2>2. ASSUME NEW places \in Saved, RouteOpens(places) PROVE IInv'
    BY <2>2, RouteOpensStep
  <2>3. QED
    BY <1>3, <2>1, <2>2, ComputeEndsStep, EnrichEndsStep DEF Answers
<1>4. CASE UNCHANGED vars
  <2>1. UNCHANGED <<points, routeVars, gestures, listVars, changes>>
    BY <1>4 DEF vars
  <2>2. GesturesFit'
    BY <2>1, SameGestures
  <2>3. QED
    BY <2>1, <2>2, GestureKeepsIInv
<1>5. QED
  BY <1>1, <1>2, <1>3, <1>4 DEF Next

-----------------------------------------------------------------------------
(* The theorems. *)

\* The invariant holds in every behaviour.
THEOREM Invariance == Spec => []IInv
BY InitIInv, StepKeepsIInv, PTL DEF Spec

\* Points keep different ids whatever newId is asked for, a route drawn with its
\* boundaries has at most MaxWaypoints points, what is dragged was a segment of what
\* was displayed, and the form open in the list is of a point there is
\* (markers.js:48-52, waypoint-list.js:42-44).
THEOREM TypesCorrect == Spec => []TypeOK
BY Invariance, TypesHold, PTL

\* The list is always that of the points, and no answer to a computation or to an
\* enrichment touches what is being typed there (waypoint-list.js:38-54,109-136).
THEOREM ListFollowsPoints == Spec => FormFollowsPoints
<1>1. ASSUME IInv, IInv', [Next]_vars
      PROVE  [/\ list' = points'
              /\ (ComputeEnds \/ EnrichEnds) => form' = form]_vars
  BY <1>1, ComputeEndsStep, EnrichEndsStep DEF IInv, FormFits
<1>2. QED
  BY <1>1, Invariance, PTL DEF Spec, FormFollowsPoints

\* Where a step dragged out of the route comes to.
LEMMA ReleaseIsInside ==
  ASSUME IInv, NEW p \in Places, Release(p), Len(points) >= 2
  PROVE  \E i \in 2..Len(points) :
           /\ PlacesOf(points') = InsertAt(PlacesOf(points), i, p)
           /\ drag.of = PlacesOf(points) /\ bounded = drag.of =>
                i = LegOf(drag.of, drag.segment) + 1
           /\ RemoveAt(points', i) = points
<1> DEFINE i == DropIndex(p)
           q == [id |-> FreshIds(1)[1], at |-> p]
<1>1. /\ points \in Seq(Point) /\ Len(points) \in Nat
      /\ PlacesOf(points) \in Seq(Places) /\ Len(PlacesOf(points)) = Len(points)
      /\ i \in 1..(Len(points) + 1) /\ i \in 2..Len(points)
  BY DropIndexIs
<1>2. q \in Point /\ q.at = p
  <2>1. FreshIds(1)[1] \in Ids
    BY <1>1, FreshIdsAre
  <2>2. QED
    BY <2>1 DEF Point
<1>3. points' = InsertAt(points, i, q)
  BY DEF Release, Insert, Change, DropIndex
<1>4. ASSUME drag.of = PlacesOf(points), bounded = drag.of
      PROVE  i = LegOf(drag.of, drag.segment) + 1
  <2>1. drag.segment \in 1..(Len(Geometry(drag.of)) - 1)
    BY DEF Release, IInv, GesturesFit
  <2>2. Len(LegBoundaries(drag.of)) = Len(drag.of)
    BY <1>1, <1>4, BoundariesAreReaches
  <2>3. i = LegIndex(LegBoundaries(drag.of), drag.segment) + 1
    BY <1>1, <1>4, <2>2 DEF DropIndex, IndexForRouteDrop
  <2>4. LegIndex(LegBoundaries(drag.of), drag.segment) = LegOf(drag.of, drag.segment)
    BY <1>1, <1>4, <2>1, LegIndexOfRoute
  <2>5. QED
    BY <2>3, <2>4
<1> HIDE DEF i, q
<1>5. PlacesOf(points') = InsertAt(PlacesOf(points), i, p)
  BY <1>1, <1>2, <1>3, PlacesOfInserted
<1>6. RemoveAt(points', i) = points
  BY <1>1, <1>2, <1>3, RemoveInserted
<1>7. QED
  BY <1>1, <1>4, <1>5, <1>6

\* A step dragged out of the route becomes one more point, never the first nor the
\* last, whatever was drawn, computed or changed since the press; and of the leg that
\* was grabbed when the route grabbed is that of the points
\* (route-segments.js:74-91, itinerary.js:26-43, route-insert-interaction.js:94-100).
THEOREM DraggedStepsStayInside == Spec => StepsStayInside
<1>1. ASSUME IInv, [Next]_vars
      PROVE  [\A p \in Places :
                Release(p) /\ Len(points) >= 2 =>
                  \E i \in 2..Len(points) :
                    /\ PlacesOf(points') = InsertAt(PlacesOf(points), i, p)
                    /\ drag.of = PlacesOf(points) /\ bounded = drag.of =>
                         i = LegOf(drag.of, drag.segment) + 1
                    /\ RemoveAt(points', i) = points]_vars
  BY <1>1, ReleaseIsInside
<1>2. QED
  BY <1>1, Invariance, PTL DEF Spec, StepsStayInside

\* What the points are once a loop has come.
LEMMA LoopArrived ==
  ASSUME IInv, NEW line \in Generated, NEW vias \in ViaPoints, LoopArrives(line, vias)
  PROVE  /\ points'[1].at = line[1] /\ points'[Len(points')].at = line[Len(line)]
         /\ ToSet(vias) \subseteq ToSet(PlacesOf(points'))
         /\ Len(points') < MaxWaypoints \/ Len(points') = Len(vias) + 2
<1> DEFINE r == InsertViaPoints(Subsample(line, Target(vias)), vias)
<1>1. /\ r \in Seq(Places) /\ Len(r) \in Nat \ {0}
      /\ r[1] = line[1] /\ r[Len(r)] = line[Len(line)]
      /\ \A j \in 1..Len(vias) : \E l \in 1..Len(r) : r[l] = vias[j]
      /\ Len(r) < MaxWaypoints \/ Len(r) = Len(vias) + 2
  BY LoopIs
<1>2. points \in Seq(Point) /\ vias \in Seq(Places)
  BY GestureAssumption DEF IInv, Sound
<1>3. points' = WithIds(r)
  BY DEF LoopArrives, Change
<1> HIDE DEF r
<1>4. /\ Len(points') = Len(r) /\ PlacesOf(points') = r
      /\ \A k \in 1..Len(r) : points'[k].at = r[k]
  BY <1>1, <1>2, <1>3, WithIdsSound
<1>5. points'[1].at = line[1] /\ points'[Len(points')].at = line[Len(line)]
  BY <1>1, <1>4
<1>6. DOMAIN vias = 1..Len(vias) /\ DOMAIN r = 1..Len(r)
  BY <1>1, <1>2
<1>7. ToSet(vias) \subseteq ToSet(PlacesOf(points'))
  BY <1>1, <1>4, <1>6 DEF ToSet
<1>8. QED
  BY <1>1, <1>4, <1>5, <1>7

\* A loop keeps both its ends, goes through every place imposed on it, and leaves room
\* for one more point under the limit of a computation, unless it is nothing but its
\* ends and what was imposed (routers/routes.py:120-146, services/geo_sampling.py,
\* services/via_points.py).
THEOREM LoopsFit == Spec => LoopFits
<1>1. ASSUME IInv, [Next]_vars
      PROVE  [\A line \in Generated, vias \in ViaPoints :
                LoopArrives(line, vias) =>
                  /\ points'[1].at = line[1] /\ points'[Len(points')].at = line[Len(line)]
                  /\ ToSet(vias) \subseteq ToSet(PlacesOf(points'))
                  /\ Len(points') < MaxWaypoints \/ Len(points') = Len(vias) + 2]_vars
  BY <1>1, LoopArrived
<1>2. QED
  BY <1>1, Invariance, PTL DEF Spec, LoopFits

=============================================================================
