------------------------ MODULE WaypointHistoryProofs -----------------------
(***************************************************************************)
(* The waypoints and their history, for any places, zones, drafts, depth   *)
(* and bounds: the ids of a screen are all different, on screen and in     *)
(* every screen that undo or redo may bring back (HistoryInv); the two     *)
(* stacks keep within the bound together (StacksBounded); and, from both,  *)
(* the stacks are a line of screens that undo and redo only move along.    *)
(*                                                                         *)
(* The first sections are about the operators: filters, insertions and     *)
(* removals element by element, the largest of a set of numbers.           *)
(***************************************************************************)
EXTENDS WaypointHistory, SequenceTheorems, FiniteSetTheorems, FunctionTheorems,
  WellFoundedInduction, TLAPS

-----------------------------------------------------------------------------
(* Numbers and filters. *)

\* A set of naturals has a least element.
LEMMA LeastNatural ==
  ASSUME NEW S \in SUBSET Nat, S # {}
  PROVE  \E m \in S : \A k \in S : m <= k
<1> DEFINE R == {pair \in Nat \X Nat : pair[1] < pair[2]}
<1>1. IsWellFoundedOn(R, Nat)
  BY NatLessThanWellFounded DEF OpToRel
<1> HIDE DEF R
<1>2. PICK m \in S : \A k \in S : ~(<<k, m>> \in R)
  BY <1>1, WFMin
<1>3. ASSUME NEW k \in S PROVE m <= k
  <2>1. ~(k < m)
    BY <1>2 DEF R
  <2>2. QED
    BY <2>1
<1>4. QED
  BY <1>3

\* The largest of a set of naturals with a bound: the least of its bounds.
LEMMA MaxOfNaturals ==
  ASSUME NEW n \in Nat, NEW S \in SUBSET (0..n), S # {}
  PROVE  Max(S) \in S /\ \A x \in S : x <= Max(S)
<1> DEFINE Bounds == {b \in Nat : \A x \in S : x <= b}
<1>1. n \in Bounds
  OBVIOUS
<1>2. PICK m \in Bounds : \A b \in Bounds : m <= b
  BY <1>1, LeastNatural
<1>3. m \in S
  <2>1. SUFFICES ASSUME m \notin S PROVE FALSE
    OBVIOUS
  <2>2. \A x \in S : x < m
    BY <1>2, <2>1
  <2>3. m \in Nat /\ m >= 1
    <3>1. PICK x \in S : x < m
      BY <2>2
    <3>2. x \in Nat /\ m \in Nat
      BY <1>2
    <3>3. QED
      BY <3>1, <3>2
  <2>4. m - 1 \in Bounds
    BY <2>2, <2>3
  <2>5. QED
    BY <1>2, <2>3, <2>4
<1>4. \E x \in S : \A y \in S : x >= y
  BY <1>2, <1>3
<1>5. QED
  BY <1>4 DEF Max

\* The rank of a position among those kept.
LEMMA RankIsStrict ==
  ASSUME NEW n \in Nat, NEW kept \in SUBSET (1..n), NEW i \in kept, NEW j \in kept, i < j
  PROVE  Cardinality(kept \cap (1..i)) < Cardinality(kept \cap (1..j))
<1> DEFINE A == kept \cap (1..i)
           B == kept \cap (1..j)
<1>1. A \subseteq B /\ j \in B /\ j \notin A
  OBVIOUS
<1>2. IsFiniteSet(1..n)
  BY FS_Interval
<1>3. IsFiniteSet(B)
  BY <1>2, FS_Subset
<1>4. IsFiniteSet(A) /\ Cardinality(A) <= Cardinality(B) /\ Cardinality(A) # Cardinality(B)
  BY <1>1, <1>3, FS_Subset
<1>5. Cardinality(A) \in Nat /\ Cardinality(B) \in Nat
  BY <1>3, <1>4, FS_CardinalityType
<1>6. QED
  BY <1>4, <1>5

\* The k-th of the positions kept.
Position(kept, k) == CHOOSE i \in kept : Cardinality(kept \cap (1..i)) = k

\* The positions kept, in a row.
LEMMA KeptPositions ==
  ASSUME NEW n \in Nat, NEW kept \in SUBSET (1..n)
  PROVE  /\ Cardinality(kept) \in 0..n
         /\ \A k \in 1..Cardinality(kept) : Position(kept, k) \in kept
         /\ \A j, k \in 1..Cardinality(kept) : Position(kept, j) = Position(kept, k) => j = k
         /\ \A i \in kept : \E k \in 1..Cardinality(kept) : Position(kept, k) = i
<1> DEFINE c == Cardinality(kept)
           rank(i) == Cardinality(kept \cap (1..i))
           g == [i \in kept |-> rank(i)]
<1>1. IsFiniteSet(1..n) /\ Cardinality(1..n) = n
  BY FS_Interval
<1>2. IsFiniteSet(kept) /\ c <= n
  <2>1. kept \subseteq 1..n
    OBVIOUS
  <2>2. QED
    BY <1>1, <2>1, FS_Subset
<1>3. c \in 0..n
  BY <1>2, FS_CardinalityType
<1> HIDE DEF c
<1>4. \A i \in kept : rank(i) \in 1..c
  <2> TAKE i \in kept
  <2> DEFINE A == kept \cap (1..i)
  <2>1. IsFiniteSet(A) /\ Cardinality(A) <= c
    BY <1>2, FS_Subset DEF c
  <2>2. Cardinality(A) \in Nat /\ Cardinality(A) # 0
    <3>1. i \in A
      OBVIOUS
    <3>2. QED
      BY <2>1, <3>1, FS_CardinalityType, FS_EmptySet
  <2>3. QED
    BY <1>3, <2>1, <2>2
<1>5. \A i, j \in kept : rank(i) = rank(j) => i = j
  <2> SUFFICES ASSUME NEW i \in kept, NEW j \in kept, rank(i) = rank(j), i # j PROVE FALSE
    OBVIOUS
  <2>1. rank(i) \in 1..c /\ rank(j) \in 1..c
    BY <1>4
  <2>2. i < j => rank(i) < rank(j)
    BY RankIsStrict
  <2>3. j < i => rank(j) < rank(i)
    BY RankIsStrict
  <2>4. i \in Nat /\ j \in Nat
    OBVIOUS
  <2> HIDE DEF rank
  <2>5. QED
    BY <1>3, <2>1, <2>2, <2>3, <2>4
<1> HIDE DEF rank
<1>6. g \in Injection(kept, 1..c)
  BY <1>4, <1>5 DEF Injection, IsInjective
<1>7. IsFiniteSet(1..c) /\ Cardinality(1..c) = Cardinality(kept)
  BY <1>3, FS_Interval DEF c
<1>8. g \in Surjection(kept, 1..c)
  BY <1>6, <1>7, FS_Injection
<1>9. \A k \in 1..c : \E i \in kept : rank(i) = k
  BY <1>8 DEF Surjection
<1>10. \A k \in 1..c : Position(kept, k) \in kept /\ rank(Position(kept, k)) = k
  BY <1>9 DEF Position, rank
<1>11. \A j, k \in 1..c : Position(kept, j) = Position(kept, k) => j = k
  BY <1>10
<1>12. \A i \in kept : rank(i) \in 1..c /\ Position(kept, rank(i)) = i
  BY <1>4, <1>5, <1>10
<1>13. QED
  BY <1>3, <1>10, <1>11, <1>12 DEF c

-----------------------------------------------------------------------------
(* Sequences. *)

\* The first elements of a sequence.
LEMMA PrefixProperties ==
  ASSUME NEW S, NEW s \in Seq(S), NEW m \in 0..Len(s)
  PROVE  /\ SubSeq(s, 1, m) \in Seq(S) /\ Len(SubSeq(s, 1, m)) = m
         /\ \A k \in 1..m : SubSeq(s, 1, m)[k] = s[k]
<1> DEFINE t == SubSeq(s, 1, m)
<1>1. Len(s) \in Nat /\ m \in Nat /\ m <= Len(s)
  BY LenProperties
<1>2. \A k \in 1..m : s[k] \in S
  BY <1>1, ElementOfSeq
<1>3. /\ t \in Seq(S)
      /\ Len(t) = IF 1 <= m THEN m - 1 + 1 ELSE 0
      /\ \A k \in 1..(m - 1 + 1) : t[k] = s[1 + k - 1]
  BY <1>1, <1>2, SubSeqProperties
<1> HIDE DEF t
<1>4. m - 1 + 1 = m /\ (~(1 <= m) => m = 0)
  BY <1>1
<1>5. \A k \in 1..m : t[k] = s[k]
  <2> TAKE k \in 1..m
  <2>1. 1 + k - 1 = k /\ k \in 1..(m - 1 + 1)
    BY <1>4
  <2>2. QED
    BY <1>3, <2>1
<1>6. QED
  BY <1>3, <1>4, <1>5 DEF t

\* A stack without its last screen.
LEMMA FrontIsShorter ==
  ASSUME NEW S, NEW s \in Seq(S), s # <<>>
  PROVE  Front(s) \in Seq(S) /\ Len(Front(s)) = Len(s) - 1 /\ Len(s) >= 1
<1>1. Len(s) \in Nat /\ Len(s) >= 1
  <2>1. Len(s) \in Nat
    BY LenProperties
  <2>2. Len(s) # 0
    BY EmptySeq
  <2>3. QED
    BY <2>1, <2>2
<1>2. \A i \in 1..(Len(s) - 1) : s[i] \in S
  BY <1>1, ElementOfSeq
<1> DEFINE n == Len(s) - 1
<1>3. /\ SubSeq(s, 1, n) \in Seq(S)
      /\ Len(SubSeq(s, 1, n)) = IF 1 <= n THEN n - 1 + 1 ELSE 0
  <2>1. n \in Int /\ 1 \in Int
    BY <1>1
  <2> HIDE DEF n
  <2>2. QED
    BY <1>2, <2>1, SubSeqProperties DEF n
<1>4. Front(s) = SubSeq(s, 1, n)
  BY DEF Front
<1>5. n \in Nat
  BY <1>1
<1> HIDE DEF n
<1>6. Len(Front(s)) = n /\ Front(s) \in Seq(S)
  <2>1. CASE n = 0
    BY <1>3, <1>4, <2>1
  <2>2. CASE n # 0
    <3>1. 1 <= n
      BY <1>5, <2>2
    <3>2. n - 1 + 1 = n
      BY <1>5
    <3>3. QED
      BY <1>3, <1>4, <3>1, <3>2
  <2>3. QED
    BY <2>1, <2>2
<1>7. QED
  BY <1>1, <1>6 DEF n

\* InsertAt and RemoveAt, element by element.
LEMMA InsertAtProperties ==
  ASSUME NEW S, NEW s \in Seq(S), NEW i \in 1..(Len(s) + 1), NEW e \in S
  PROVE  /\ InsertAt(s, i, e) \in Seq(S) /\ Len(InsertAt(s, i, e)) = Len(s) + 1
         /\ \A k \in 1..(Len(s) + 1) :
              InsertAt(s, i, e)[k] = IF k < i THEN s[k] ELSE IF k = i THEN e ELSE s[k - 1]
<1> DEFINE n == Len(s)
           t == InsertAt(s, i, e)
           before == SubSeq(s, 1, i - 1)
           after == SubSeq(s, i, n)
<1>1. n \in Nat /\ \A k \in 1..n : s[k] \in S
  BY LenProperties, ElementOfSeq
<1> HIDE DEF n
<1>2. i \in Nat /\ 1 <= i /\ i <= n + 1
  BY <1>1 DEF n
<1>3. /\ before \in Seq(S) /\ Len(before) = i - 1
      /\ \A k \in 1..(i - 1) : before[k] = s[k]
  <2>1. i - 1 \in 0..Len(s)
    BY <1>1, <1>2 DEF n
  <2>2. QED
    BY <2>1, PrefixProperties
<1>4. /\ after \in Seq(S) /\ Len(after) = n + 1 - i
      /\ \A k \in 1..(n + 1 - i) : after[k] = s[i + k - 1]
  <2>1. \A k \in i..n : s[k] \in S
    BY <1>1, <1>2
  <2>2. /\ after \in Seq(S)
        /\ Len(after) = IF i <= n THEN n - i + 1 ELSE 0
        /\ \A k \in 1..(n - i + 1) : after[k] = s[i + k - 1]
    BY <1>1, <1>2, <2>1, SubSeqProperties
  <2> HIDE DEF after
  <2>3. QED
    BY <1>1, <1>2, <2>2
<1>5. t = (before \o <<e>>) \o after
  BY DEF InsertAt, n
<1> HIDE DEF before, after
<1>6. <<e>> \in Seq(S) /\ Len(<<e>>) = 1 /\ <<e>>[1] = e
  OBVIOUS
<1> DEFINE front == before \o <<e>>
<1>7. /\ front \in Seq(S) /\ Len(front) = i
      /\ \A k \in 1..i : front[k] = IF k < i THEN s[k] ELSE e
  <2>1. /\ front \in Seq(S) /\ Len(front) = (i - 1) + 1
        /\ \A k \in 1..((i - 1) + 1) :
             front[k] = IF k <= i - 1 THEN before[k] ELSE <<e>>[k - (i - 1)]
    BY <1>3, <1>6, ConcatProperties
  <2>2. (i - 1) + 1 = i
    BY <1>2
  <2> HIDE DEF front
  <2>3. QED
    BY <1>2, <1>3, <1>6, <2>1, <2>2
<1>8. /\ t \in Seq(S) /\ Len(t) = n + 1
      /\ \A k \in 1..(n + 1) :
           t[k] = IF k < i THEN s[k] ELSE IF k = i THEN e ELSE s[k - 1]
  <2>1. t = front \o after
    BY <1>5
  <2> HIDE DEF front, t
  <2>2. /\ t \in Seq(S) /\ Len(t) = i + (n + 1 - i)
        /\ \A k \in 1..(i + (n + 1 - i)) :
             t[k] = IF k <= i THEN front[k] ELSE after[k - i]
    <3>1. /\ t \in Seq(S) /\ Len(t) = Len(front) + Len(after)
          /\ \A k \in 1..(Len(front) + Len(after)) :
               t[k] = IF k <= Len(front) THEN front[k] ELSE after[k - Len(front)]
      BY ONLY <1>4, <1>7, <2>1, ConcatProperties
    <3>2. QED
      BY <1>4, <1>7, <3>1
  <2>3. i + (n + 1 - i) = n + 1
    BY <1>1, <1>2
  <2>4. ASSUME NEW k \in 1..(n + 1), k > i PROVE t[k] = s[k - 1]
    <3>1. k - i \in 1..(n + 1 - i) /\ i + (k - i) - 1 = k - 1
      BY <1>1, <1>2, <2>4
    <3>2. QED
      BY <1>2, <1>4, <2>2, <2>3, <2>4, <3>1
  <2>5. QED
    BY <1>1, <1>2, <1>7, <2>2, <2>3, <2>4
<1>9. QED
  BY <1>8 DEF n

LEMMA RemoveAtProperties ==
  ASSUME NEW S, NEW s \in Seq(S), NEW i \in 1..Len(s)
  PROVE  /\ RemoveAt(s, i) \in Seq(S) /\ Len(RemoveAt(s, i)) = Len(s) - 1
         /\ \A k \in 1..(Len(s) - 1) : RemoveAt(s, i)[k] = IF k < i THEN s[k] ELSE s[k + 1]
<1> DEFINE n == Len(s)
           t == RemoveAt(s, i)
           before == SubSeq(s, 1, i - 1)
           after == SubSeq(s, i + 1, n)
<1>1. n \in Nat /\ \A k \in 1..n : s[k] \in S
  BY LenProperties, ElementOfSeq
<1> HIDE DEF n
<1>2. i \in Nat /\ 1 <= i /\ i <= n
  BY <1>1 DEF n
<1>3. /\ before \in Seq(S) /\ Len(before) = i - 1
      /\ \A k \in 1..(i - 1) : before[k] = s[k]
  <2>1. i - 1 \in 0..Len(s)
    BY <1>1, <1>2 DEF n
  <2>2. QED
    BY <2>1, PrefixProperties
<1>4. /\ after \in Seq(S) /\ Len(after) = n - i
      /\ \A k \in 1..(n - i) : after[k] = s[i + k]
  <2>1. i + 1 \in Int /\ \A k \in (i + 1)..n : s[k] \in S
    BY <1>1, <1>2
  <2>2. /\ after \in Seq(S)
        /\ Len(after) = IF i + 1 <= n THEN n - (i + 1) + 1 ELSE 0
        /\ \A k \in 1..(n - (i + 1) + 1) : after[k] = s[(i + 1) + k - 1]
    BY <1>1, <1>2, <2>1, SubSeqProperties
  <2> HIDE DEF after
  <2>3. n - (i + 1) + 1 = n - i /\ (\A k \in 1..(n - i) : (i + 1) + k - 1 = i + k)
    BY <1>1, <1>2
  <2>4. QED
    BY <1>1, <1>2, <2>2, <2>3
<1>5. t = before \o after
  BY DEF RemoveAt, n
<1> HIDE DEF before, after, t
<1>6. /\ t \in Seq(S) /\ Len(t) = (i - 1) + (n - i)
      /\ \A k \in 1..((i - 1) + (n - i)) :
           t[k] = IF k <= i - 1 THEN before[k] ELSE after[k - (i - 1)]
  BY <1>3, <1>4, <1>5, ConcatProperties
<1>7. (i - 1) + (n - i) = n - 1
  BY <1>1, <1>2
<1>8. ASSUME NEW k \in 1..(n - 1), ~(k < i) PROVE t[k] = s[k + 1]
  <2>1. k - (i - 1) \in 1..(n - i) /\ i + (k - (i - 1)) = k + 1 /\ ~(k <= i - 1)
    BY <1>1, <1>2, <1>8
  <2>2. QED
    BY <1>4, <1>6, <1>7, <2>1
<1>9. ASSUME NEW k \in 1..(n - 1), k < i PROVE t[k] = s[k]
  BY <1>1, <1>2, <1>3, <1>6, <1>7, <1>9
<1>10. QED
  BY <1>6, <1>7, <1>8, <1>9 DEF n, t

-----------------------------------------------------------------------------
(* Lists of points with different ids. *)

\* The lists whose ids are all different, and below the counter.
Numbered(next) ==
  {ps \in PointLists :
     /\ \A i \in 1..Len(ps) : ps[i].id < next
     /\ \A i, j \in 1..Len(ps) : ps[i].id = ps[j].id => i = j}

\* Lists of points are sequences within the bound.
LEMMA PointListsAreSeq ==
  ASSUME NEW ps
  PROVE  ps \in PointLists <=> ps \in Seq(Points) /\ Len(ps) <= MaxPoints
<1>1. ps \in PointLists <=> \E m \in 0..MaxPoints : ps \in [1..m -> Points]
  BY DEF PointLists, BoundedSeq, SeqOf
<1>2. ASSUME NEW m \in 0..MaxPoints, ps \in [1..m -> Points]
      PROVE  ps \in Seq(Points) /\ Len(ps) <= MaxPoints
  BY <1>2, HistoryAssumption
<1>3. ASSUME ps \in Seq(Points), Len(ps) <= MaxPoints
      PROVE  Len(ps) \in 0..MaxPoints /\ ps \in [1..Len(ps) -> Points]
  BY <1>3, LenProperties, HistoryAssumption
<1>4. QED
  BY <1>1, <1>2, <1>3

\* What a numbered list is made of.
LEMMA NumberedTypes ==
  ASSUME NEW next, NEW ps \in Numbered(next)
  PROVE  /\ ps \in Seq(Points) /\ Len(ps) \in 0..MaxPoints /\ DOMAIN ps = 1..Len(ps)
         /\ \A i \in 1..Len(ps) : /\ ps[i] \in Points /\ ps[i].id \in Ids /\ ps[i].id < next
                                  /\ ps[i].id \in IdsOf(ps)
         /\ \A i, j \in 1..Len(ps) : ps[i].id = ps[j].id => i = j
<1>1. ps \in Seq(Points) /\ Len(ps) <= MaxPoints
  BY PointListsAreSeq DEF Numbered
<1>2. Len(ps) \in 0..MaxPoints /\ DOMAIN ps = 1..Len(ps)
  BY <1>1, LenProperties, HistoryAssumption
<1>3. \A i \in 1..Len(ps) : ps[i] \in Points
  BY <1>1, ElementOfSeq
<1>4. QED
  BY <1>1, <1>2, <1>3 DEF Numbered, Points, IdsOf

\* A higher counter takes no list away.
LEMMA NumberedGrows ==
  ASSUME NEW a \in Nat, NEW b \in Nat, a <= b, NEW ps \in Numbered(a)
  PROVE  ps \in Numbered(b)
<1>1. \A i \in 1..Len(ps) : ps[i].id \in Ids /\ ps[i].id < a
  BY NumberedTypes
<1>2. \A i \in 1..Len(ps) : ps[i].id < b
  BY <1>1, HistoryAssumption DEF Ids
<1>3. QED
  BY <1>2 DEF Numbered

\* No points: markers.js:221 (clear) and a draft that is not restored.
LEMMA NoPointsNumbered == \A next : <<>> \in Numbered(next)
<1>1. <<>> \in Seq(Points) /\ Len(<<>>) = 0
  BY EmptySeq
<1>2. <<>> \in PointLists
  <2>1. Len(<<>>) <= MaxPoints
    BY <1>1, HistoryAssumption
  <2>2. QED
    BY <1>1, <2>1, PointListsAreSeq
<1>3. QED
  BY <1>1, <1>2 DEF Numbered

\* A list given element by element.
LEMMA ListedPoints ==
  ASSUME NEW next, NEW n \in 0..MaxPoints, NEW f \in [1..n -> Points],
         \A i \in 1..n : f[i].id < next,
         \A i, j \in 1..n : f[i].id = f[j].id => i = j
  PROVE  f \in Numbered(next) /\ f \in Seq(Points) /\ Len(f) = n
<1>1. n \in Nat /\ n <= MaxPoints
  BY HistoryAssumption
<1>2. f \in Seq(Points) /\ Len(f) = n
  BY <1>1
<1>3. f \in PointLists
  BY <1>1, <1>2, PointListsAreSeq
<1>4. QED
  BY <1>2, <1>3 DEF Numbered

\* Points of a list, each at most once, in any order.
LEMMA PointsRearranged ==
  ASSUME NEW next, NEW ps \in Numbered(next), NEW n \in 0..MaxPoints,
         NEW qs \in [1..n -> Points], NEW f,
         \A k \in 1..n : f[k] \in 1..Len(ps) /\ qs[k] = ps[f[k]],
         \A j, k \in 1..n : f[j] = f[k] => j = k
  PROVE  qs \in Numbered(next)
<1>1. \A k \in 1..n : qs[k] = ps[f[k]] /\ f[k] \in 1..Len(ps)
  OBVIOUS
<1>2. /\ \A i \in 1..Len(ps) : ps[i] \in Points /\ ps[i].id < next
      /\ \A i, j \in 1..Len(ps) : ps[i].id = ps[j].id => i = j
  BY NumberedTypes
<1>3. \A k \in 1..n : qs[k].id < next
  BY <1>1, <1>2
<1>4. ASSUME NEW j \in 1..n, NEW k \in 1..n, qs[j].id = qs[k].id PROVE j = k
  <2>1. f[j] = f[k]
    BY <1>1, <1>2, <1>4
  <2>2. QED
    BY <2>1
<1>5. QED
  BY <1>3, <1>4, ListedPoints

\* One point more, with the id of the counter.
LEMMA PointInserted ==
  ASSUME NEW next \in Ids, NEW ps \in Numbered(next), Len(ps) < MaxPoints,
         NEW index \in 1..(Len(ps) + 1), NEW p \in Places
  PROVE  InsertAt(ps, index, [id |-> next, place |-> p]) \in Numbered(next + 1)
<1> DEFINE e == [id |-> next, place |-> p]
           n == Len(ps)
           qs == InsertAt(ps, index, e)
<1>1. /\ ps \in Seq(Points) /\ n \in Nat /\ n < MaxPoints /\ e \in Points /\ next \in Nat
      /\ \A i \in 1..n : ps[i] \in Points /\ ps[i].id \in Nat /\ ps[i].id < next
      /\ \A i, j \in 1..n : ps[i].id = ps[j].id => i = j
  <2>1. e \in Points /\ next \in Nat
    BY HistoryAssumption DEF Points, Ids
  <2>2. \A id \in Ids : id \in Nat
    BY HistoryAssumption DEF Ids
  <2>3. n \in 0..MaxPoints
    BY NumberedTypes
  <2>4. n \in Nat /\ n < MaxPoints
    BY <2>3
  <2>5. QED
    BY <2>1, <2>2, <2>4, NumberedTypes
<1> HIDE DEF n
<1>2. index \in Nat /\ 1 <= index /\ index <= n + 1
  BY <1>1 DEF n
<1>3. /\ qs \in Seq(Points) /\ Len(qs) = n + 1
      /\ \A k \in 1..(n + 1) :
           qs[k] = IF k < index THEN ps[k] ELSE IF k = index THEN e ELSE ps[k - 1]
  <2>1. ps \in Seq(Points) /\ e \in Points /\ index \in 1..(Len(ps) + 1)
    BY <1>1
  <2> HIDE DEF e
  <2>2. qs \in Seq(Points) /\ Len(qs) = Len(ps) + 1
    BY <2>1, InsertAtProperties
  <2>3. \A k \in 1..(Len(ps) + 1) :
          qs[k] = IF k < index THEN ps[k] ELSE IF k = index THEN e ELSE ps[k - 1]
    BY <2>1, InsertAtProperties
  <2>4. QED
    BY <2>2, <2>3 DEF n
<1>4. e \in Points /\ e.id = next
  BY <1>1 DEF e
<1> HIDE DEF qs
<1>5. \A k \in 1..(n + 1) : IF k = index THEN qs[k].id = next
                             ELSE qs[k].id \in Nat /\ qs[k].id < next
  <2> TAKE k \in 1..(n + 1)
  <2>1. CASE k < index
    <3>1. k \in 1..n /\ qs[k] = ps[k] /\ k # index
      BY <1>1, <1>2, <1>3, <2>1
    <3>2. QED
      BY <1>1, <3>1
  <2>2. CASE k = index
    <3>1. qs[k] = e
      BY <1>2, <1>3, <2>2
    <3>2. QED
      BY <1>4, <2>2, <3>1
  <2>3. CASE k > index
    <3>1. k - 1 \in 1..n /\ qs[k] = ps[k - 1]
      BY <1>1, <1>2, <1>3, <2>3
    <3>2. QED
      BY <1>1, <1>2, <2>3, <3>1
  <2>4. QED
    BY <1>2, <2>1, <2>2, <2>3
<1>6. ASSUME NEW j \in 1..(n + 1), NEW k \in 1..(n + 1), qs[j].id = qs[k].id PROVE j = k
  <2> DEFINE old(i) == IF i < index THEN i ELSE i - 1
  <2>1. CASE j = index \/ k = index
    <3>1. j = index <=> qs[j].id = next
      BY <1>1, <1>5
    <3>2. k = index <=> qs[k].id = next
      BY <1>1, <1>5
    <3>3. QED
      BY <1>6, <2>1, <3>1, <3>2
  <2>2. CASE j # index /\ k # index
    <3>1. \A i \in 1..(n + 1) : i # index => old(i) \in 1..n /\ qs[i] = ps[old(i)]
      BY <1>1, <1>2, <1>3
    <3>2. PICK a \in 1..n : a = old(j) /\ qs[j] = ps[a]
      BY <2>2, <3>1
    <3>3. PICK b \in 1..n : b = old(k) /\ qs[k] = ps[b]
      BY <2>2, <3>1
    <3>4. a = b
      BY <1>1, <1>6, <3>2, <3>3
    <3>5. QED
      BY <1>1, <1>2, <2>2, <3>2, <3>3, <3>4
  <2>3. QED
    BY <2>1, <2>2
<1>7. \A k \in 1..(n + 1) : qs[k].id < next + 1
  BY <1>1, <1>5
<1>8. n + 1 \in 0..MaxPoints /\ qs \in [1..(n + 1) -> Points]
  BY <1>1, <1>3, LenProperties, HistoryAssumption
<1>9. qs \in Numbered(next + 1)
  BY <1>6, <1>8, <1>7, ListedPoints
<1>10. QED
  BY <1>9 DEF qs, e

\* The points in the other direction.
LEMMA PointsReversed ==
  ASSUME NEW next, NEW ps \in Numbered(next)
  PROVE  Reverse(ps) \in Numbered(next) /\ IdsOf(ps) \subseteq IdsOf(Reverse(ps))
<1> DEFINE n == Len(ps)
           f == [k \in 1..n |-> (n - k) + 1]
<1>1. n \in Nat /\ n \in 0..MaxPoints /\ \A k \in 1..n : ps[k] \in Points
  BY NumberedTypes
<1> HIDE DEF n
<1>2. \A k \in 1..n : f[k] = (n - k) + 1 /\ f[k] \in 1..n
  BY <1>1
<1>3. f \in [1..n -> 1..n]
  BY <1>2
<1>4. \A j, k \in 1..n : f[j] = f[k] => j = k
  BY <1>1, <1>2
<1> DEFINE qs == Reverse(ps)
<1>5. qs = [k \in 1..n |-> ps[(n - k) + 1]]
  BY DEF Reverse, n
<1> HIDE DEF f, qs
<1>6. \A k \in 1..n : qs[k] = ps[f[k]]
  BY <1>2, <1>5
<1>7. qs \in [1..n -> Points]
  BY <1>1, <1>2, <1>5
<1>8. \A k \in 1..n : f[k] \in 1..Len(ps) /\ qs[k] = ps[f[k]]
  BY <1>2, <1>6 DEF n
<1>9. qs \in Numbered(next)
  BY <1>1, <1>4, <1>7, <1>8, PointsRearranged
<1>10. \A i \in DOMAIN ps : \E k \in DOMAIN qs : qs[k] = ps[i]
  <2> TAKE i \in DOMAIN ps
  <2>1. i \in 1..n
    BY NumberedTypes DEF n
  <2>2. (n - i) + 1 \in 1..n /\ (n - ((n - i) + 1)) + 1 = i
    BY <1>1, <2>1
  <2>3. QED
    BY <1>5, <2>2
<1>11. QED
  BY <1>9, <1>10 DEF qs, IdsOf

\* One point taken out and put elsewhere.
LEMMA PointMoved ==
  ASSUME NEW next, NEW ps \in Numbered(next),
         NEW from \in 1..Len(ps), NEW to \in 1..Len(ps)
  PROVE  /\ InsertAt(RemoveAt(ps, from), to, ps[from]) \in Numbered(next)
         /\ IdsOf(ps) \subseteq IdsOf(InsertAt(RemoveAt(ps, from), to, ps[from]))
<1> DEFINE n == Len(ps)
           rest == RemoveAt(ps, from)
           qs == InsertAt(rest, to, ps[from])
           f == [k \in 1..n |-> IF k = to THEN from
                                ELSE IF k < to THEN (IF k < from THEN k ELSE k + 1)
                                ELSE (IF k - 1 < from THEN k - 1 ELSE k)]
<1>1. n \in Nat /\ n \in 0..MaxPoints /\ ps \in Seq(Points) /\ ps[from] \in Points
  BY NumberedTypes
<1>2. /\ rest \in Seq(Points) /\ Len(rest) = n - 1
      /\ \A k \in 1..(n - 1) : rest[k] = IF k < from THEN ps[k] ELSE ps[k + 1]
  BY <1>1, RemoveAtProperties
<1> HIDE DEF n
<1>3. from \in 1..n /\ to \in 1..n
  BY DEF n
<1> HIDE DEF rest
<1>4. /\ qs \in Seq(Points) /\ Len(qs) = n
      /\ \A k \in 1..n :
           qs[k] = IF k < to THEN rest[k] ELSE IF k = to THEN ps[from] ELSE rest[k - 1]
  <2>1. to \in 1..(Len(rest) + 1) /\ Len(rest) + 1 = n
    BY <1>1, <1>2, <1>3
  <2>2. rest \in Seq(Points) /\ ps[from] \in Points
    BY <1>1, <1>2
  <2>3. /\ InsertAt(rest, to, ps[from]) \in Seq(Points)
        /\ Len(InsertAt(rest, to, ps[from])) = Len(rest) + 1
        /\ \A k \in 1..(Len(rest) + 1) :
             InsertAt(rest, to, ps[from])[k] = IF k < to THEN rest[k]
                                               ELSE IF k = to THEN ps[from] ELSE rest[k - 1]
    <3> HIDE <1>2
    <3>1. QED
      BY <2>1, <2>2, InsertAtProperties, SMTT(20)
  <2>4. QED
    BY <2>1, <2>3
<1>5. \A k \in 1..n :
        f[k] = IF k = to THEN from
               ELSE IF k < to THEN (IF k < from THEN k ELSE k + 1)
               ELSE (IF k - 1 < from THEN k - 1 ELSE k)
  OBVIOUS
<1> HIDE DEF f, qs
<1>6. \A k \in 1..n : f[k] \in 1..n
  BY <1>1, <1>3, <1>5
<1>7. \A j, k \in 1..n : f[j] = f[k] => j = k
  BY <1>1, <1>3, <1>5
<1>8. \A k \in 1..n : qs[k] = ps[f[k]]
  <2> TAKE k \in 1..n
  <2>1. CASE k < to
    <3>1. k \in 1..(n - 1) /\ qs[k] = rest[k] /\ k # to
      BY <1>1, <1>3, <1>4, <2>1
    <3>2. f[k] = IF k < from THEN k ELSE k + 1
      BY <1>5, <2>1, <3>1
    <3>3. QED
      BY <1>2, <3>1, <3>2
  <2>2. CASE k = to
    <3>1. qs[k] = ps[from]
      BY <1>3, <1>4, <2>2
    <3>2. f[k] = from
      BY <1>3, <1>5, <2>2
    <3>3. QED
      BY <3>1, <3>2
  <2>3. CASE k > to
    <3>1. k - 1 \in 1..(n - 1) /\ k # to /\ ~(k < to) /\ (k - 1) + 1 = k
      BY <1>1, <1>3, <2>3
    <3>2. qs[k] = rest[k - 1]
      BY <1>4, <3>1
    <3>3. f[k] = IF k - 1 < from THEN k - 1 ELSE k
      BY <1>5, <3>1
    <3>4. rest[k - 1] = IF k - 1 < from THEN ps[k - 1] ELSE ps[k]
      BY <1>2, <3>1
    <3>5. QED
      BY <3>2, <3>3, <3>4
  <2>4. QED
    BY <1>3, <2>1, <2>2, <2>3
<1>9. qs \in [1..n -> Points]
  BY <1>4, LenProperties
<1>10. f \in [1..n -> 1..n]
  <2>1. f = [k \in 1..n |-> f[k]]
    BY DEF f
  <2>2. QED
    BY <1>6, <2>1
<1>11. qs \in Numbered(next)
  <2>1. n \in 0..MaxPoints
    BY <1>1
  <2>2. \A j, k \in 1..n : f[j] = f[k] => j = k
    BY <1>7
  <2>3. \A k \in 1..n : f[k] \in 1..Len(ps) /\ qs[k] = ps[f[k]]
    BY <1>6, <1>8 DEF n
  <2>4. QED
    BY <1>9, <2>1, <2>2, <2>3, PointsRearranged
<1>12. \A i \in DOMAIN ps : \E k \in DOMAIN qs : qs[k] = ps[i]
  <2> TAKE i \in DOMAIN ps
  <2>1. i \in 1..n /\ DOMAIN qs = 1..n
    BY <1>9, NumberedTypes DEF n
  <2>2. \E k \in 1..n : f[k] = i
    <3> DEFINE j == IF i < from THEN i ELSE i - 1
               k == IF i = from THEN to ELSE IF j < to THEN j ELSE j + 1
    <3>1. k \in 1..n
      BY <1>1, <1>3, <2>1
    <3>2. f[k] = IF k = to THEN from
               ELSE IF k < to THEN (IF k < from THEN k ELSE k + 1)
               ELSE (IF k - 1 < from THEN k - 1 ELSE k)
      BY <1>5, <3>1
    <3>3. f[k] = i
      BY <1>1, <1>3, <2>1, <3>1, <3>2
    <3>4. QED
      BY <3>1, <3>3
  <2>3. QED
    BY <1>8, <2>1, <2>2
<1>13. QED
  BY <1>11, <1>12 DEF qs, rest, IdsOf

\* One point placed elsewhere.
LEMMA PointEdited ==
  ASSUME NEW next, NEW ps \in Numbered(next), NEW i \in DOMAIN ps, NEW p \in Places
  PROVE  /\ [ps EXCEPT ![i].place = p] \in Numbered(next)
         /\ IdsOf(ps) \subseteq IdsOf([ps EXCEPT ![i].place = p])
<1> DEFINE n == Len(ps)
           qs == [ps EXCEPT ![i].place = p]
<1>1. /\ n \in 0..MaxPoints /\ DOMAIN ps = 1..n
      /\ \A k \in 1..n : ps[k] \in Points /\ ps[k].id < next
      /\ \A j, k \in 1..n : ps[j].id = ps[k].id => j = k
  BY NumberedTypes
<1>2. qs = [k \in 1..n |-> IF k = i THEN [ps[i] EXCEPT !.place = p] ELSE ps[k]]
  BY <1>1
<1>3. [ps[i] EXCEPT !.place = p] \in Points /\ [ps[i] EXCEPT !.place = p].id = ps[i].id
  BY <1>1 DEF Points
<1> HIDE DEF n, qs
<1>4. \A k \in 1..n : qs[k] \in Points /\ qs[k].id = ps[k].id
  BY <1>1, <1>2, <1>3
<1>5. qs \in [1..n -> Points]
  BY <1>2, <1>4
<1>6. qs \in Numbered(next)
  <2>1. \A k \in 1..n : qs[k].id < next
    BY <1>1, <1>4
  <2>2. \A j, k \in 1..n : qs[j].id = qs[k].id => j = k
    BY <1>1, <1>4
  <2>3. QED
    BY <1>1, <1>5, <2>1, <2>2, ListedPoints
<1>7. \A k \in DOMAIN ps : k \in DOMAIN qs /\ qs[k].id = ps[k].id
  BY <1>1, <1>4, <1>5
<1>8. QED
  BY <1>6, <1>7 DEF qs, IdsOf

\* The points that are kept.
LEMMA PointsFiltered ==
  ASSUME NEW next, NEW ps \in Numbered(next), NEW kept \in SUBSET (1..Len(ps))
  PROVE  /\ Filtered(ps, kept) \in Numbered(next)
         /\ \A i \in kept : ps[i].id \in IdsOf(Filtered(ps, kept))
<1> DEFINE n == Len(ps)
           c == Cardinality(kept)
           qs == Filtered(ps, kept)
<1>1. n \in Nat /\ n \in 0..MaxPoints
  BY NumberedTypes
<1>2. ps \in [1..n -> Points]
  <2>1. ps \in Seq(Points)
    BY NumberedTypes
  <2>2. QED
    BY <2>1, LenProperties
<1>3. /\ c \in 0..n
      /\ \A k \in 1..c : Position(kept, k) \in kept
      /\ \A j, k \in 1..c : Position(kept, j) = Position(kept, k) => j = k
      /\ \A i \in kept : \E k \in 1..c : Position(kept, k) = i
  <2>1. kept \in SUBSET (1..n)
    OBVIOUS
  <2>2. n \in Nat
    BY <1>1
  <2> HIDE DEF n
  <2>3. QED
    BY <2>1, <2>2, KeptPositions
<1>4. qs = [k \in 1..c |-> ps[Position(kept, k)]]
  BY DEF Filtered, Position
<1> HIDE DEF qs, c
<1>5. /\ qs \in [1..c -> Points]
       /\ \A k \in 1..c : qs[k] = ps[Position(kept, k)]
  BY <1>2, <1>3, <1>4
<1>6. c \in 0..MaxPoints
  BY <1>1, <1>3, HistoryAssumption
<1>7. /\ \A i \in kept : ps[i].id < next
      /\ \A i, j \in kept : ps[i].id = ps[j].id => i = j
  BY NumberedTypes
<1>8. \A k \in 1..c : qs[k].id < next
  BY <1>3, <1>5, <1>7
<1>9. ASSUME NEW j \in 1..c, NEW k \in 1..c, qs[j].id = qs[k].id PROVE j = k
  <2>1. /\ Position(kept, j) \in kept /\ Position(kept, k) \in kept
        /\ ps[Position(kept, j)].id = ps[Position(kept, k)].id
    BY <1>3, <1>5, <1>9
  <2>2. Position(kept, j) = Position(kept, k)
    BY <1>7, <2>1
  <2>3. QED
    BY <1>3, <2>2
<1>10. qs \in Numbered(next)
  BY <1>5, <1>6, <1>8, <1>9, ListedPoints
<1>11. ASSUME NEW i \in kept PROVE ps[i].id \in IdsOf(qs)
  <2>1. PICK k \in 1..c : Position(kept, k) = i
    BY <1>3
  <2>2. k \in DOMAIN qs /\ qs[k] = ps[i]
    BY <1>5, <2>1
  <2>3. QED
    BY <2>2 DEF IdsOf
<1>12. QED
  BY <1>10, <1>11 DEF qs

-----------------------------------------------------------------------------
(* The ids of a list that is read. *)

\* The new ids given before a point: more after each point that gets one.
LEMMA GivenBeforeGrows ==
  ASSUME NEW ps, NEW i \in Nat, NEW j \in Nat, 1 <= i, i <= j
  PROVE  /\ GivenBefore(ps, i) \in Nat /\ GivenBefore(ps, j) \in Nat
         /\ GivenBefore(ps, i) <= GivenBefore(ps, j)
         /\ i < j /\ i \notin KeptIds(ps) => GivenBefore(ps, i) < GivenBefore(ps, j)
<1> DEFINE A == 1..(i - 1) \ KeptIds(ps)
           B == 1..(j - 1) \ KeptIds(ps)
<1>1. IsFiniteSet(1..(j - 1))
  BY FS_Interval
<1>2. B \subseteq 1..(j - 1) /\ A \subseteq B
  OBVIOUS
<1>3. i < j /\ i \notin KeptIds(ps) => i \in B /\ i \notin A
  OBVIOUS
<1>4. GivenBefore(ps, i) = Cardinality(A) /\ GivenBefore(ps, j) = Cardinality(B)
  BY DEF GivenBefore
<1> HIDE DEF A, B
<1>5. IsFiniteSet(B)
  BY <1>1, <1>2, FS_Subset
<1>6. /\ IsFiniteSet(A) /\ Cardinality(A) <= Cardinality(B)
      /\ Cardinality(B) = Cardinality(A) => B = A
  BY <1>2, <1>5, FS_Subset
<1>7. Cardinality(A) \in Nat /\ Cardinality(B) \in Nat
  BY <1>5, <1>6, FS_CardinalityType
<1>8. QED
  BY <1>3, <1>4, <1>6, <1>7

\* Lists that are read are sequences within the bound.
LEMMA ReadListsAreSeq ==
  ASSUME NEW ps \in ReadLists
  PROVE  ps \in Seq(ReadPoints) /\ Len(ps) \in 0..MaxPoints
<1>1. PICK m \in 0..MaxPoints : ps \in [1..m -> ReadPoints]
  BY DEF ReadLists, BoundedSeq, SeqOf
<1>2. QED
  BY <1>1, HistoryAssumption

\* The first id given is beyond all that were read, and not below the counter.
LEMMA IdsFromIsFree ==
  ASSUME NEW ps \in ReadLists, NEW next \in 1..(MaxIds + 1)
  PROVE  /\ IdsFrom(ps, next) \in 1..(MaxIds + 1) /\ next <= IdsFrom(ps, next)
         /\ \A i \in 1..Len(ps) : ps[i].id < IdsFrom(ps, next)
<1> DEFINE ids == IdsOf(ps) \cup {next - 1}
<1>1. ps \in Seq(ReadPoints) /\ DOMAIN ps = 1..Len(ps)
  BY ReadListsAreSeq, LenProperties
<1>2. \A i \in 1..Len(ps) : ps[i] \in ReadPoints
  BY <1>1, ElementOfSeq
<1>3. \A i \in 1..Len(ps) : ps[i].id \in 0..MaxIds
  BY <1>2 DEF ReadPoints
<1>4. next - 1 \in 0..MaxIds
  BY HistoryAssumption
<1>5. ids \in SUBSET (0..MaxIds) /\ next - 1 \in ids
  BY <1>1, <1>3, <1>4 DEF IdsOf
<1>6. \A i \in 1..Len(ps) : ps[i].id \in ids
  BY <1>1 DEF IdsOf
<1> DEFINE top == Max(ids)
<1>7. IdsFrom(ps, next) = top + 1
  BY DEF IdsFrom
<1> HIDE DEF ids
<1>8. top \in ids /\ \A x \in ids : x <= top
  BY <1>5, MaxOfNaturals, HistoryAssumption
<1> HIDE DEF top
<1>9. top \in 0..MaxIds /\ next - 1 <= top
  BY <1>5, <1>8
<1>10. \A i \in 1..Len(ps) : ps[i].id \in Nat /\ ps[i].id <= top
  BY <1>3, <1>6, <1>8
<1>11. QED
  BY <1>7, <1>9, <1>10, HistoryAssumption

\* What normalizeIds makes of a list: ids that are all different, below the counter.
LEMMA PointsRead ==
  ASSUME NEW ps \in ReadLists, NEW next \in 1..(MaxIds + 1),
         NEW last, last = IdsFrom(ps, next) + GivenBefore(ps, Len(ps) + 1),
         last <= MaxIds + 1
  PROVE  /\ last \in 1..(MaxIds + 1)
         /\ [i \in DOMAIN ps |->
               IF i \in KeptIds(ps) THEN ps[i]
               ELSE [ps[i] EXCEPT !.id = IdsFrom(ps, next) + GivenBefore(ps, i)]]
              \in Numbered(last)
<1> DEFINE n == Len(ps)
           free == IdsFrom(ps, next)
           given(i) == GivenBefore(ps, i)
           qs == [i \in DOMAIN ps |->
                    IF i \in KeptIds(ps) THEN ps[i]
                    ELSE [ps[i] EXCEPT !.id = free + given(i)]]
<1>1. ps \in Seq(ReadPoints) /\ n \in 0..MaxPoints /\ n \in Nat /\ DOMAIN ps = 1..n
  BY ReadListsAreSeq, LenProperties
<1>2. \A i \in 1..n : ps[i] \in ReadPoints
  BY <1>1, ElementOfSeq
<1>3. free \in 1..(MaxIds + 1) /\ \A i \in 1..n : ps[i].id < free
  BY IdsFromIsFree
<1>4. \A i \in 1..n : given(i) \in Nat /\ given(n + 1) \in Nat
  BY <1>1, GivenBeforeGrows
<1>5. given(n + 1) \in Nat
  BY <1>1, GivenBeforeGrows
<1>6. \A i \in 1..n : i \notin KeptIds(ps) => given(i) < given(n + 1)
  BY <1>1, GivenBeforeGrows
<1>7. \A i, j \in 1..n : i < j /\ i \notin KeptIds(ps) => given(i) < given(j)
  BY <1>1, GivenBeforeGrows
<1>8. \A i \in KeptIds(ps) : /\ i \in 1..n /\ ps[i].id > 0
                             /\ \A j \in 1..(i - 1) : ps[j].id # ps[i].id
  BY <1>1 DEF KeptIds
<1>9. last = free + given(n + 1)
  OBVIOUS
<1>10. qs = [i \in 1..n |-> IF i \in KeptIds(ps) THEN ps[i]
                           ELSE [ps[i] EXCEPT !.id = free + given(i)]]
  BY <1>1
<1> HIDE DEF n, free, given, qs
<1>11. last \in 1..(MaxIds + 1) /\ free <= last
  BY <1>3, <1>5, <1>9, HistoryAssumption
<1>12. ASSUME NEW i \in 1..n, i \in KeptIds(ps)
       PROVE  qs[i] = ps[i] /\ qs[i] \in Points /\ qs[i].id < free
  <2>1. qs[i] = ps[i] /\ ps[i] \in ReadPoints /\ ps[i].id > 0 /\ ps[i].id < free
    BY <1>2, <1>3, <1>8, <1>10, <1>12
  <2>2. ps[i] \in Points
    BY <2>1, HistoryAssumption DEF ReadPoints, Points, Ids
  <2>3. QED
    BY <2>1, <2>2
<1>13. ASSUME NEW i \in 1..n, i \notin KeptIds(ps)
       PROVE  /\ qs[i] \in Points /\ qs[i].id = free + given(i)
              /\ free + given(i) < last /\ free <= free + given(i)
  <2>1. qs[i] = [ps[i] EXCEPT !.id = free + given(i)] /\ ps[i] \in ReadPoints
    BY <1>2, <1>10, <1>13
  <2>2. given(i) \in Nat /\ given(i) < given(n + 1)
    BY <1>4, <1>6, <1>13
  <2>3. free + given(i) \in Ids /\ free + given(i) < last /\ free <= free + given(i)
    BY <1>3, <1>5, <1>9, <2>2, HistoryAssumption DEF Ids
  <2>4. QED
    BY <2>1, <2>3 DEF ReadPoints, Points
<1>14. qs \in [1..n -> Points]
  BY <1>10, <1>12, <1>13
<1>15. \A i \in 1..n : qs[i].id < last
  <2> TAKE i \in 1..n
  <2>1. CASE i \in KeptIds(ps)
    <3>1. qs[i] \in Points /\ qs[i].id < free
      BY <1>12, <2>1
    <3>2. qs[i].id \in Nat
      BY <3>1, HistoryAssumption DEF Points, Ids
    <3>3. QED
      BY <1>3, <1>11, <3>1, <3>2
  <2>2. CASE i \notin KeptIds(ps)
    BY <1>13, <2>2
  <2>3. QED
    BY <2>1, <2>2
<1>16. ASSUME NEW i \in 1..n, NEW j \in 1..n, i < j PROVE qs[i].id # qs[j].id
  <2>1. CASE i \in KeptIds(ps) /\ j \in KeptIds(ps)
    <3>1. i \in 1..(j - 1)
      BY <1>1, <1>16
    <3>2. qs[i] = ps[i] /\ qs[j] = ps[j]
      BY <1>12, <2>1
    <3>3. QED
      BY <1>8, <2>1, <3>1, <3>2
  <2>2. CASE i \in KeptIds(ps) /\ j \notin KeptIds(ps)
    <3>1. qs[i] \in Points /\ qs[i].id < free /\ qs[j].id = free + given(j)
      BY <1>12, <1>13, <2>2
    <3>2. qs[i].id \in Nat /\ given(j) \in Nat
      BY <1>4, <3>1, HistoryAssumption DEF Points, Ids
    <3>3. QED
      BY <1>3, <3>1, <3>2
  <2>3. CASE i \notin KeptIds(ps) /\ j \in KeptIds(ps)
    <3>1. qs[j] \in Points /\ qs[j].id < free /\ qs[i].id = free + given(i)
      BY <1>12, <1>13, <2>3
    <3>2. qs[j].id \in Nat /\ given(i) \in Nat
      BY <1>4, <3>1, HistoryAssumption DEF Points, Ids
    <3>3. QED
      BY <1>3, <3>1, <3>2
  <2>4. CASE i \notin KeptIds(ps) /\ j \notin KeptIds(ps)
    <3>1. qs[i].id = free + given(i) /\ qs[j].id = free + given(j) /\ given(i) < given(j)
      BY <1>7, <1>13, <1>16, <2>4
    <3>2. given(i) \in Nat /\ given(j) \in Nat
      BY <1>4
    <3>3. QED
      BY <1>3, <3>1, <3>2
  <2>5. QED
    BY <2>1, <2>2, <2>3, <2>4
<1>17. \A i, j \in 1..n : qs[i].id = qs[j].id => i = j
  BY <1>16
<1>18. qs \in Numbered(last)
  BY <1>1, <1>14, <1>15, <1>17, ListedPoints
<1>19. QED
  BY <1>11, <1>18 DEF qs, free, given

-----------------------------------------------------------------------------
(* The invariant of the history. *)

\* Screens whose ids are all different, and have all been given out.
ScreensOf(next) == [waypoints : Numbered(next), avoidZones : SUBSET Zones]

\* The inductive invariant.  An id that a change may give is in no screen that
\* undo or redo may bring back, and a point is selected on screen only.
HistoryInv ==
  /\ zones \in SUBSET Zones
  /\ nextId \in 1..(MaxIds + 1)
  /\ selected \in IdsOf(points) \cup {0}
  /\ points \in Numbered(nextId)
  /\ past \in Seq(ScreensOf(nextId))
  /\ future \in Seq(ScreensOf(nextId))

\* An empty screen, and nothing to undo.
LEMMA InitHistory == Init => HistoryInv
<1> SUFFICES ASSUME Init PROVE HistoryInv
  OBVIOUS
<1>1. nextId \in 1..(MaxIds + 1)
  BY HistoryAssumption DEF Init
<1>2. points \in Numbered(nextId)
  BY NoPointsNumbered DEF Init
<1>3. past \in Seq(ScreensOf(nextId)) /\ future \in Seq(ScreensOf(nextId))
  BY EmptySeq DEF Init
<1>4. QED
  BY <1>1, <1>2, <1>3 DEF Init, HistoryInv

\* A higher counter takes no screen away.
LEMMA ScreensGrow ==
  ASSUME NEW a \in Nat, NEW b \in Nat, a <= b
  PROVE  ScreensOf(a) \subseteq ScreensOf(b) /\ Seq(ScreensOf(a)) \subseteq Seq(ScreensOf(b))
<1>1. Numbered(a) \subseteq Numbered(b)
  BY NumberedGrows
<1>2. ScreensOf(a) \subseteq ScreensOf(b)
  BY <1>1 DEF ScreensOf
<1>3. QED
  BY <1>2, SeqMonotonic

\* What a change pushes: the screen, as a screen.
LEMMA PushedScreens ==
  ASSUME HistoryInv
  PROVE  Now \in ScreensOf(nextId) /\ Pushed \in Seq(ScreensOf(nextId))
<1> DEFINE T == ScreensOf(nextId)
           longer == Append(past, Now)
<1>1. Now \in T
  BY DEF HistoryInv, ScreensOf, Now
<1>2. past \in Seq(T)
  BY DEF HistoryInv
<1> HIDE DEF T
<1>3. longer \in Seq(T) /\ longer # <<>>
  BY <1>1, <1>2, AppendProperties
<1>4. Tail(longer) \in Seq(T)
  BY <1>3, HeadTailProperties
<1>5. QED
  BY <1>1, <1>3, <1>4 DEF Pushed, T

\* What undo and redo take from a stack is on it.
LEMMA LastOfScreens ==
  ASSUME NEW S, NEW s \in Seq(S), s # <<>>
  PROVE  Last(s) \in S
<1>1. Len(s) \in Nat /\ Len(s) # 0
  BY LenProperties, EmptySeq
<1>2. Len(s) \in 1..Len(s)
  BY <1>1
<1>3. QED
  BY <1>2, ElementOfSeq DEF Last

\* Every change of points, zones or history keeps the invariant.
LEMMA StepHistory == HistoryInv /\ [Next]_vars => HistoryInv'
<1> SUFFICES ASSUME HistoryInv, [Next]_vars PROVE HistoryInv'
  OBVIOUS
<1>1. /\ zones \in SUBSET Zones /\ nextId \in 1..(MaxIds + 1) /\ nextId \in Nat
      /\ selected \in IdsOf(points) \cup {0} /\ points \in Numbered(nextId)
      /\ past \in Seq(ScreensOf(nextId)) /\ future \in Seq(ScreensOf(nextId))
  BY HistoryAssumption DEF HistoryInv
<1>2. /\ points \in Seq(Points) /\ Len(points) \in 0..MaxPoints /\ DOMAIN points = 1..Len(points)
      /\ \A i \in 1..Len(points) : points[i].id \in Ids
  BY <1>1, NumberedTypes
<1>3. Now \in ScreensOf(nextId) /\ Pushed \in Seq(ScreensOf(nextId))
  BY PushedScreens
<1>4. ASSUME Push, zones' \in SUBSET Zones, nextId' \in 1..(MaxIds + 1), nextId <= nextId',
             selected' \in IdsOf(points') \cup {0}, points' \in Numbered(nextId')
      PROVE  HistoryInv'
  <2>1. nextId' \in Nat
    BY <1>4, HistoryAssumption
  <2>2. Pushed \in Seq(ScreensOf(nextId'))
    BY <1>1, <1>3, <1>4, <2>1, ScreensGrow
  <2>3. past' \in Seq(ScreensOf(nextId')) /\ future' \in Seq(ScreensOf(nextId'))
    BY <1>4, <2>2, EmptySeq DEF Push
  <2>4. QED
    BY <1>4, <2>3 DEF HistoryInv
<1>5. ASSUME NEW ps \in ReadLists, NEW next \in 1..(MaxIds + 1), SetPointsSilently(ps, next),
             zones' \in SUBSET Zones
      PROVE  HistoryInv'
  <2> DEFINE last == IdsFrom(ps, next) + GivenBefore(ps, Len(ps) + 1)
  <2>1. /\ nextId' = last /\ last <= MaxIds + 1
        /\ points' = [i \in DOMAIN ps |->
               IF i \in KeptIds(ps) THEN ps[i]
               ELSE [ps[i] EXCEPT !.id = IdsFrom(ps, next) + GivenBefore(ps, i)]]
        /\ selected' = 0 /\ past' = <<>> /\ future' = <<>>
    BY <1>5 DEF SetPointsSilently
  <2>2. nextId' \in 1..(MaxIds + 1) /\ points' \in Numbered(nextId')
    BY <2>1, PointsRead
  <2>3. past' \in Seq(ScreensOf(nextId')) /\ future' \in Seq(ScreensOf(nextId'))
    BY <2>1, EmptySeq
  <2> HIDE DEF last
  <2>4. QED
    BY <1>5, <2>1, <2>2, <2>3 DEF HistoryInv
<1>6. CASE InsertPoint
  <2>1. PICK index \in 1..(Len(points) + 1), p \in Places :
          points' = InsertAt(points, index, [id |-> nextId, place |-> p])
    BY <1>6 DEF InsertPoint
  <2>2. /\ Len(points) < MaxPoints /\ nextId \in Ids /\ nextId' = nextId + 1 /\ selected' = 0
        /\ zones' = zones /\ Push
    BY <1>1, <1>6, HistoryAssumption DEF InsertPoint, Ids
  <2>3. points' \in Numbered(nextId')
    BY <1>1, <2>1, <2>2, PointInserted
  <2>4. nextId' \in 1..(MaxIds + 1) /\ nextId <= nextId'
    BY <1>1, <2>2, HistoryAssumption DEF Ids
  <2>5. QED
    BY <1>1, <1>4, <2>2, <2>3, <2>4
<1>7. CASE RemovePoint
  <2>1. PICK id \in IdsOf(points) :
          /\ Push
          /\ points' = Filtered(points, {i \in DOMAIN points : points[i].id # id})
          /\ selected' = IF selected = id THEN 0 ELSE selected
          /\ zones' = zones /\ nextId' = nextId
    BY <1>7 DEF RemovePoint
  <2> DEFINE kept == {i \in DOMAIN points : points[i].id # id}
  <2>2. kept \in SUBSET (1..Len(points))
    BY <1>2
  <2>3. ASSUME selected # id, selected # 0
        PROVE  \E i \in kept : selected = points[i].id
    BY <1>1, <2>3 DEF IdsOf
  <2> HIDE DEF kept
  <2>4. points' = Filtered(points, kept)
    BY <2>1 DEF kept
  <2>5. points' \in Numbered(nextId')
    BY <1>1, <2>1, <2>2, <2>4, PointsFiltered
  <2>6. \A i \in kept : points[i].id \in IdsOf(points')
    BY <1>1, <2>2, <2>4, PointsFiltered
  <2>7. selected' \in IdsOf(points') \cup {0}
    BY <2>1, <2>3, <2>6
  <2>8. QED
    BY <1>1, <1>4, <2>1, <2>5, <2>7
<1>8. CASE EditPoint
  <2>1. PICK i \in DOMAIN points, p \in Places : points' = [points EXCEPT ![i].place = p]
    BY <1>8 DEF EditPoint
  <2>2. Push /\ zones' = zones /\ nextId' = nextId /\ selected' = selected
    BY <1>8 DEF EditPoint
  <2>3. points' \in Numbered(nextId) /\ IdsOf(points) \subseteq IdsOf(points')
    BY <1>1, <2>1, PointEdited
  <2>4. QED
    BY <1>1, <1>4, <2>2, <2>3
<1>9. CASE ReverseAll
  <2>1. Push /\ points' = Reverse(points) /\ UNCHANGED <<zones, nextId, selected>>
    BY <1>9 DEF ReverseAll
  <2>2. points' \in Numbered(nextId) /\ IdsOf(points) \subseteq IdsOf(points')
    BY <1>1, <2>1, PointsReversed
  <2>3. QED
    BY <1>1, <1>4, <2>1, <2>2
<1>10. CASE Reorder
  <2>1. PICK from \in DOMAIN points, to \in DOMAIN points :
          points' = InsertAt(RemoveAt(points, from), to, points[from])
    BY <1>10 DEF Reorder
  <2>2. Push /\ zones' = zones /\ nextId' = nextId /\ selected' = selected
    BY <1>10 DEF Reorder
  <2>3. from \in 1..Len(points) /\ to \in 1..Len(points)
    BY <1>2
  <2>4. points' \in Numbered(nextId) /\ IdsOf(points) \subseteq IdsOf(points')
    BY <1>1, <2>1, <2>3, PointMoved
  <2>5. QED
    BY <1>1, <1>4, <2>2, <2>4
<1>11. CASE ReplacePoints
  <2>1. PICK places \in BoundedSeq(Places, MaxPoints) :
          /\ nextId + Len(places) <= MaxIds + 1
          /\ points' = [i \in DOMAIN places |-> [id |-> nextId + i - 1, place |-> places[i]]]
          /\ nextId' = nextId + Len(places)
    BY <1>11 DEF ReplacePoints
  <2>2. Push /\ selected' = 0 /\ zones' = zones
    BY <1>11 DEF ReplacePoints
  <2>3. PICK m \in 0..MaxPoints : places \in [1..m -> Places]
    BY DEF BoundedSeq, SeqOf
  <2>4. m \in Nat /\ DOMAIN places = 1..m /\ Len(places) = m
    BY <2>3, HistoryAssumption
  <2>5. nextId' \in 1..(MaxIds + 1) /\ nextId <= nextId' /\ nextId' = nextId + m
    BY <1>1, <2>1, <2>4, HistoryAssumption
  <2>6. \A i \in 1..m : /\ points'[i].id = nextId + i - 1 /\ points'[i] \in Points
                        /\ points'[i].id < nextId'
    <3> TAKE i \in 1..m
    <3>1. nextId + i - 1 \in Ids /\ nextId + i - 1 < nextId'
      BY <1>1, <2>1, <2>4, <2>5, HistoryAssumption DEF Ids
    <3>2. points'[i] = [id |-> nextId + i - 1, place |-> places[i]] /\ places[i] \in Places
      BY <2>1, <2>3, <2>4
    <3>3. QED
      BY <3>1, <3>2 DEF Points
  <2>7. ASSUME NEW i \in 1..m, NEW j \in 1..m, points'[i].id = points'[j].id PROVE i = j
    <3>1. nextId + i - 1 = nextId + j - 1
      BY <2>6, <2>7
    <3>2. i \in Nat /\ j \in Nat
      BY <2>4
    <3>3. QED
      BY <1>1, <3>1, <3>2
  <2>8. points' \in [1..m -> Points]
    BY <2>1, <2>4, <2>6
  <2>9. points' \in Numbered(nextId')
    BY <2>3, <2>6, <2>7, <2>8, ListedPoints
  <2>10. QED
    BY <1>1, <1>4, <2>2, <2>5, <2>9
<1>12. CASE ClearRoute
  <2>1. Push /\ points' = <<>> /\ zones' = {} /\ selected' = 0 /\ nextId' = nextId
    BY <1>12 DEF ClearRoute
  <2>2. points' \in Numbered(nextId)
    BY <2>1, NoPointsNumbered
  <2>3. QED
    BY <1>1, <1>4, <2>1, <2>2
<1>13. CASE Select
  <2>1. selected' \in IdsOf(points) /\ UNCHANGED <<points, zones, past, future, nextId>>
    BY <1>13 DEF Select
  <2>2. QED
    BY <1>1, <2>1 DEF HistoryInv
<1>14. CASE AddZone \/ RemoveZone
  <2>1. /\ Push /\ zones' \in SUBSET Zones
        /\ points' = points /\ nextId' = nextId /\ selected' = selected
    BY <1>1, <1>14 DEF AddZone, RemoveZone
  <2>2. QED
    BY <1>1, <1>4, <2>1
<1>15. ASSUME NEW s \in ScreensOf(nextId), ApplySnapshot(s),
              past' \in Seq(ScreensOf(nextId)), future' \in Seq(ScreensOf(nextId))
       PROVE  HistoryInv'
  <2>1. /\ points' = s.waypoints /\ zones' = s.avoidZones /\ selected' = 0 /\ nextId' = nextId
        /\ s.waypoints \in Numbered(nextId) /\ s.avoidZones \in SUBSET Zones
    BY <1>15 DEF ApplySnapshot, ScreensOf
  <2>2. QED
    BY <1>1, <1>15, <2>1 DEF HistoryInv
<1>16. CASE Undo
  <2>1. /\ past # <<>> /\ future' = Append(future, Now) /\ past' = Front(past)
        /\ ApplySnapshot(Last(past))
    BY <1>16 DEF Undo
  <2>2. Last(past) \in ScreensOf(nextId) /\ past' \in Seq(ScreensOf(nextId))
    BY <1>1, <2>1, LastOfScreens, FrontIsShorter
  <2>3. future' \in Seq(ScreensOf(nextId))
    BY <1>1, <1>3, <2>1, AppendProperties
  <2>4. QED
    BY <1>15, <2>1, <2>2, <2>3
<1>17. CASE Redo
  <2>1. /\ future # <<>> /\ past' = Pushed /\ future' = Front(future)
        /\ ApplySnapshot(Last(future))
    BY <1>17 DEF Redo
  <2>2. Last(future) \in ScreensOf(nextId) /\ future' \in Seq(ScreensOf(nextId))
    BY <1>1, <2>1, LastOfScreens, FrontIsShorter
  <2>3. QED
    BY <1>3, <1>15, <2>1, <2>2
<1>18. CASE OpenRoute
  <2>1. PICK places \in BoundedSeq(Places, MaxPoints) :
          SetPointsSilently([i \in DOMAIN places |-> [id |-> 0, place |-> places[i]]], nextId)
    BY <1>18 DEF OpenRoute
  <2>2. zones' \in SUBSET Zones
    BY <1>18 DEF OpenRoute
  <2> DEFINE ps == [i \in DOMAIN places |-> [id |-> 0, place |-> places[i]]]
  <2>3. PICK m \in 0..MaxPoints : places \in [1..m -> Places]
    BY DEF BoundedSeq, SeqOf
  <2>4. ps \in [1..m -> ReadPoints]
    BY <2>3, HistoryAssumption DEF ReadPoints
  <2>5. SetPointsSilently(ps, nextId)
    BY <2>1
  <2> HIDE DEF ps
  <2>6. ps \in ReadLists
    BY <2>4 DEF ReadLists, BoundedSeq, SeqOf
  <2>7. QED
    BY <1>1, <1>5, <2>2, <2>5, <2>6
<1>19. CASE Reload
  <2>1. PICK ps \in Drafts \cup {points} :
          \/ ps # <<>> /\ SetPointsSilently(ps, 1) /\ zones' \in SUBSET Zones
          \/ /\ ps = <<>>
             /\ points' = <<>> /\ zones' = {}
             /\ past' = <<>> /\ future' = <<>>
             /\ nextId' = 1 /\ selected' = 0
    BY <1>19 DEF Reload
  <2>2. ps \in ReadLists
    <3>1. points \in [1..Len(points) -> ReadPoints]
      <4>1. points \in [1..Len(points) -> Points]
        BY <1>2, LenProperties
      <4>2. Points \subseteq ReadPoints
        BY HistoryAssumption DEF Points, ReadPoints, Ids
      <4>3. QED
        BY <4>1, <4>2
    <3>2. points \in ReadLists
      BY <1>2, <3>1 DEF ReadLists, BoundedSeq, SeqOf
    <3>3. QED
      BY <3>2, DraftsAssumption
  <2>3. 1 \in 1..(MaxIds + 1)
    BY HistoryAssumption
  <2>4. CASE SetPointsSilently(ps, 1) /\ zones' \in SUBSET Zones
    BY <1>5, <2>2, <2>3, <2>4
  <2>5. CASE /\ points' = <<>> /\ zones' = {}
             /\ past' = <<>> /\ future' = <<>>
             /\ nextId' = 1 /\ selected' = 0
    <3>1. past' \in Seq(ScreensOf(nextId')) /\ future' \in Seq(ScreensOf(nextId'))
      BY <2>5, EmptySeq
    <3>2. points' \in Numbered(nextId')
      BY <2>5, NoPointsNumbered
    <3>3. QED
      BY <2>3, <2>5, <3>1, <3>2 DEF HistoryInv
  <2>6. QED
    BY <2>1, <2>4, <2>5
<1>20. CASE UNCHANGED vars
  BY <1>20 DEF HistoryInv, vars
<1>21. QED
  BY <1>6, <1>7, <1>8, <1>9, <1>10, <1>11, <1>12, <1>13, <1>14, <1>16, <1>17, <1>18, <1>19,
     <1>20 DEF Next

-----------------------------------------------------------------------------
(* What follows of it. *)

\* The screens of the invariant are those of the types.
LEMMA ScreensAreSnapshots ==
  \A next : ScreensOf(next) \subseteq Snapshots /\ Seq(ScreensOf(next)) \subseteq Seq(Snapshots)
<1> TAKE next
<1>1. ScreensOf(next) \subseteq Snapshots
  BY DEF ScreensOf, Snapshots, Numbered
<1>2. QED
  BY <1>1, SeqMonotonic

\* The types are part of the invariant.
LEMMA HistoryIsTyped == HistoryInv => TypeOK
<1> SUFFICES ASSUME HistoryInv PROVE TypeOK
  OBVIOUS
<1>1. past \in Seq(Snapshots) /\ future \in Seq(Snapshots)
  BY ScreensAreSnapshots DEF HistoryInv
<1>2. points \in PointLists
  BY DEF HistoryInv, Numbered
<1>3. QED
  BY <1>1, <1>2 DEF HistoryInv, TypeOK

\* As many ids as points, when they are all different.
LEMMA IdsAreCounted ==
  ASSUME NEW next, NEW ps \in Numbered(next)
  PROVE  Cardinality(IdsOf(ps)) = Len(ps)
<1> DEFINE n == Len(ps)
           f == [i \in 1..n |-> ps[i].id]
<1>1. /\ n \in Nat /\ DOMAIN ps = 1..n
      /\ \A i \in 1..n : ps[i].id \in IdsOf(ps)
      /\ \A i, j \in 1..n : ps[i].id = ps[j].id => i = j
  BY NumberedTypes
<1>2. \A id \in IdsOf(ps) : \E i \in 1..n : f[i] = id
  BY <1>1 DEF IdsOf
<1>3. f \in [1..n -> IdsOf(ps)] /\ \A i, j \in 1..n : f[i] = f[j] => i = j
  BY <1>1
<1> HIDE DEF n, f
<1>4. f \in Bijection(1..n, IdsOf(ps))
  BY <1>2, <1>3 DEF Bijection, Injection, Surjection, IsInjective
<1>5. IsFiniteSet(1..n) /\ Cardinality(1..n) = n
  BY <1>1, FS_Interval
<1>6. Cardinality(IdsOf(ps)) = n
  BY <1>4, <1>5, FS_Bijection DEF ExistsBijection
<1>7. QED
  BY <1>6 DEF n

\* Every screen of the invariant has as many ids as points.
LEMMA HistoryIdsUnique == HistoryInv => IdsUnique
<1> SUFFICES ASSUME HistoryInv, NEW s \in ToSet(past) \cup ToSet(future) \cup {Now}
             PROVE  Cardinality(IdsOf(s.waypoints)) = Len(s.waypoints)
  BY DEF IdsUnique
<1>1. /\ past \in Seq(ScreensOf(nextId)) /\ future \in Seq(ScreensOf(nextId))
      /\ Now \in ScreensOf(nextId)
  BY PushedScreens DEF HistoryInv
<1> DEFINE T == ScreensOf(nextId)
<1>2. s \in T
  <2>1. \A st \in Seq(T) : \A x \in ToSet(st) : x \in T
    <3> SUFFICES ASSUME NEW st \in Seq(T), NEW i \in DOMAIN st PROVE st[i] \in T
      BY DEF ToSet
    <3> HIDE DEF T
    <3>1. i \in 1..Len(st)
      BY LenProperties
    <3>2. QED
      BY <3>1, ElementOfSeq
  <2> HIDE DEF T
  <2>2. QED
    BY <1>1, <2>1 DEF T
<1>3. s.waypoints \in Numbered(nextId)
  BY <1>2 DEF ScreensOf
<1>4. QED
  BY <1>3, IdsAreCounted

\* Every state of the program is typed: the lists within their bounds, the stacks made
\* of whole screens, the selected point on screen (markers.js:77-81).
THEOREM HistoryTypesHold == Spec => []TypeOK
<1>1. QED
  BY InitHistory, StepHistory, HistoryIsTyped, PTL DEF Spec

\* No two points of a screen, shown or to come back, have the same id
\* (waypoint-ids.js:4-9).
THEOREM IdsAreUnique == Spec => []IdsUnique
<1>1. QED
  BY InitHistory, StepHistory, HistoryIdsUnique, PTL DEF Spec

-----------------------------------------------------------------------------
(* The bound. *)

\* The stacks are sequences of some screens, and within the bound.
StacksBounded ==
  /\ \E S : past \in Seq(S) /\ future \in Seq(S)
  /\ HistoryBounded

\* Two empty stacks are within the bound.
LEMMA InitStacks == Init => StacksBounded
<1> SUFFICES ASSUME Init PROVE StacksBounded
  OBVIOUS
<1>1. past \in Seq({}) /\ future \in Seq({}) /\ Len(past) = 0 /\ Len(future) = 0
  BY EmptySeq DEF Init
<1>2. QED
  BY <1>1, HistoryAssumption DEF StacksBounded, HistoryBounded

\* What is pushed is one screen more, up to the bound, at which the first one goes.
LEMMA PushedIsBounded ==
  ASSUME StacksBounded
  PROVE  \E S : /\ past \in Seq(S) /\ future \in Seq(S) /\ Pushed \in Seq(S) /\ Now \in S
                /\ Len(Pushed) = IF Len(past) < MaxHistory THEN Len(past) + 1 ELSE Len(past)
<1>1. PICK S : past \in Seq(S) /\ future \in Seq(S)
  BY DEF StacksBounded
<1> DEFINE T == S \cup {Now}
           longer == Append(past, Now)
<1>2. past \in Seq(T) /\ future \in Seq(T) /\ Now \in T
  BY <1>1, SeqMonotonic
<1>3. longer \in Seq(T) /\ longer # <<>> /\ Len(longer) = Len(past) + 1
  BY <1>2, AppendProperties
<1>4. Len(past) \in Nat /\ Len(future) \in Nat /\ Len(past) <= MaxHistory
  BY <1>2, LenProperties, HistoryAssumption DEF StacksBounded, HistoryBounded
<1>5. CASE Len(past) < MaxHistory
  <2>1. Pushed = longer
    BY <1>3, <1>4, <1>5, HistoryAssumption DEF Pushed
  <2>2. QED
    BY <1>2, <1>3, <1>5, <2>1
<1>6. CASE ~(Len(past) < MaxHistory)
  <2>1. Pushed = Tail(longer)
    BY <1>3, <1>4, <1>6, HistoryAssumption DEF Pushed
  <2>2. Tail(longer) \in Seq(T) /\ Len(Tail(longer)) = Len(longer) - 1
    BY <1>3, HeadTailProperties
  <2>3. QED
    BY <1>2, <1>3, <1>4, <1>6, <2>1, <2>2
<1>7. QED
  BY <1>5, <1>6

\* A change empties the other stack, an undo or a redo moves a screen between them.
LEMMA StepStacks == StacksBounded /\ [Next]_vars => StacksBounded'
<1> SUFFICES ASSUME StacksBounded, [Next]_vars PROVE StacksBounded'
  OBVIOUS
<1>1. PICK S : /\ past \in Seq(S) /\ future \in Seq(S) /\ Pushed \in Seq(S) /\ Now \in S
               /\ Len(Pushed) = IF Len(past) < MaxHistory THEN Len(past) + 1 ELSE Len(past)
  BY PushedIsBounded
<1>2. /\ Len(past) \in Nat /\ Len(future) \in Nat /\ MaxHistory \in Nat
      /\ Len(past) + Len(future) <= MaxHistory
  BY <1>1, LenProperties, HistoryAssumption DEF StacksBounded, HistoryBounded
<1>3. ASSUME Push PROVE StacksBounded'
  <2>1. past' \in Seq(S) /\ future' \in Seq(S) /\ Len(future') = 0 /\ Len(past') = Len(Pushed)
    BY <1>1, <1>3, EmptySeq DEF Push
  <2>2. QED
    BY <1>1, <1>2, <2>1 DEF StacksBounded, HistoryBounded
<1>4. ASSUME past' = <<>>, future' = <<>> PROVE StacksBounded'
  <2>1. past' \in Seq(S) /\ future' \in Seq(S) /\ Len(past') = 0 /\ Len(future') = 0
    BY <1>4, EmptySeq
  <2>2. QED
    BY <1>2, <2>1 DEF StacksBounded, HistoryBounded
<1>5. ASSUME UNCHANGED <<past, future>> PROVE StacksBounded'
  BY <1>1, <1>5 DEF StacksBounded, HistoryBounded
<1>6. CASE Undo
  <2>1. Front(past) \in Seq(S) /\ Len(Front(past)) = Len(past) - 1
    BY <1>1, <1>6, FrontIsShorter DEF Undo
  <2>2. Append(future, Now) \in Seq(S) /\ Len(Append(future, Now)) = Len(future) + 1
    BY <1>1, AppendProperties
  <2>3. past' = Front(past) /\ future' = Append(future, Now)
    BY <1>6 DEF Undo
  <2>4. QED
    BY <1>2, <2>1, <2>2, <2>3 DEF StacksBounded, HistoryBounded
<1>7. CASE Redo
  <2>1. /\ Front(future) \in Seq(S) /\ Len(Front(future)) = Len(future) - 1
        /\ Len(future) >= 1
    BY <1>1, <1>7, FrontIsShorter DEF Redo
  <2>2. past' = Pushed /\ future' = Front(future)
    BY <1>7 DEF Redo
  <2>3. Len(Pushed) = Len(past) + 1
    BY <1>1, <1>2, <2>1
  <2>4. QED
    BY <1>1, <1>2, <2>1, <2>2, <2>3 DEF StacksBounded, HistoryBounded
<1>8. CASE InsertPoint \/ RemovePoint \/ EditPoint \/ ReverseAll
  BY <1>3, <1>8 DEF InsertPoint, RemovePoint, EditPoint, ReverseAll
<1>9. CASE Reorder \/ ReplacePoints \/ ClearRoute \/ AddZone \/ RemoveZone
  BY <1>3, <1>9 DEF Reorder, ReplacePoints, ClearRoute, AddZone, RemoveZone
<1>10. CASE OpenRoute \/ Reload
  BY <1>4, <1>10 DEF OpenRoute, Reload, SetPointsSilently
<1>11. CASE Select
  BY <1>5, <1>11 DEF Select
<1>12. CASE UNCHANGED vars
  BY <1>5, <1>12 DEF vars
<1>13. QED
  BY <1>6, <1>7, <1>8, <1>9, <1>10, <1>11, <1>12 DEF Next

\* The two stacks together never hold more screens than the bound, so that a redo
\* drops none (state/history.js:20-43).
THEOREM StacksStayBounded == Spec => []HistoryBounded
<1>1. StacksBounded => HistoryBounded
  BY DEF StacksBounded
<1>2. QED
  BY InitStacks, StepStacks, <1>1, PTL DEF Spec

-----------------------------------------------------------------------------
(* The line of screens. *)

\* The screens before, the one shown, and those that a redo would bring.
Joined(before, s, after) == before \o << s >> \o Reverse(after)

\* The elements of a sequence in the other direction.
LEMMA ReverseElements ==
  ASSUME NEW S, NEW s \in Seq(S)
  PROVE  /\ Reverse(s) \in Seq(S) /\ Len(Reverse(s)) = Len(s)
         /\ \A k \in 1..Len(s) : Reverse(s)[k] = s[Len(s) - k + 1]
<1> DEFINE n == Len(s)
<1>1. n \in Nat /\ \A k \in 1..n : s[k] \in S
  BY LenProperties, ElementOfSeq
<1> DEFINE t == Reverse(s)
<1>2. t = [k \in 1..n |-> s[(n - k) + 1]]
  BY DEF Reverse
<1> HIDE DEF n, t
<1>3. t \in [1..n -> S]
  BY <1>1, <1>2
<1>4. t \in Seq(S) /\ Len(t) = n
  BY <1>1, <1>3
<1>5. QED
  BY <1>1, <1>2, <1>4 DEF n, t

\* The line of screens, element by element.
LEMMA JoinedElements ==
  ASSUME NEW S, NEW before \in Seq(S), NEW s \in S, NEW after \in Seq(S)
  PROVE  /\ Joined(before, s, after) \in Seq(S)
         /\ Len(Joined(before, s, after)) = Len(before) + 1 + Len(after)
         /\ \A k \in 1..(Len(before) + 1 + Len(after)) :
              Joined(before, s, after)[k] =
                IF k <= Len(before) THEN before[k]
                ELSE IF k = Len(before) + 1 THEN s
                ELSE after[Len(before) + 2 + Len(after) - k]
<1> DEFINE b == Len(before)
           a == Len(after)
<1>1. b \in Nat /\ a \in Nat
  BY LenProperties
<1> DEFINE first == before \o << s >>
           rest == Reverse(after)
           t == first \o rest
<1>2. << s >> \in Seq(S) /\ Len(<< s >>) = 1 /\ << s >>[1] = s
  OBVIOUS
<1>3. /\ first \in Seq(S) /\ Len(first) = b + 1
      /\ \A k \in 1..(b + 1) : first[k] = IF k <= b THEN before[k] ELSE << s >>[k - b]
  <2>1. /\ first \in Seq(S) /\ Len(first) = Len(before) + 1
        /\ \A k \in 1..(Len(before) + 1) :
             first[k] = IF k <= Len(before) THEN before[k] ELSE << s >>[k - Len(before)]
    BY <1>2, ConcatProperties
  <2> HIDE DEF first
  <2>2. QED
    BY <2>1
<1>4. /\ rest \in Seq(S) /\ Len(rest) = a
      /\ \A k \in 1..a : rest[k] = after[a - k + 1]
  BY ReverseElements
<1> HIDE DEF first, rest, a, b
<1>5. /\ t \in Seq(S) /\ Len(t) = b + 1 + a
      /\ \A k \in 1..(b + 1 + a) : t[k] = IF k <= b + 1 THEN first[k] ELSE rest[k - (b + 1)]
  <2>1. /\ t \in Seq(S) /\ Len(t) = (b + 1) + a
        /\ \A k \in 1..((b + 1) + a) : t[k] = IF k <= b + 1 THEN first[k] ELSE rest[k - (b + 1)]
    <3>1. /\ t \in Seq(S) /\ Len(t) = Len(first) + Len(rest)
          /\ \A k \in 1..(Len(first) + Len(rest)) :
               t[k] = IF k <= Len(first) THEN first[k] ELSE rest[k - Len(first)]
      <4>1. first \in Seq(S) /\ rest \in Seq(S)
        BY <1>3, <1>4
      <4>2. QED
        BY ONLY <4>1, ConcatProperties
    <3>2. Len(first) = b + 1 /\ Len(rest) = a
      BY <1>3, <1>4
    <3> HIDE DEF t
    <3>3. QED
      BY <3>1, <3>2
  <2>2. QED
    BY <2>1
<1>6. t = Joined(before, s, after)
  BY DEF Joined, first, rest
<1> HIDE DEF t
<1>7. a \in Nat /\ b \in Nat
  BY <1>1
<1>8. ASSUME NEW k \in 1..(b + 1 + a)
      PROVE  t[k] = IF k <= b THEN before[k] ELSE IF k = b + 1 THEN s ELSE after[b + 2 + a - k]
  <2>1. CASE k <= b
    BY <1>3, <1>5, <1>7, <2>1
  <2>2. CASE k = b + 1
    <3>1. k \in 1..(b + 1) /\ k <= b + 1 /\ ~(k <= b) /\ k - b = 1
      BY <1>7, <2>2
    <3>2. t[k] = first[k] /\ first[k] = << s >>[k - b]
      BY <1>3, <1>5, <3>1
    <3>3. QED
      BY <1>2, <2>2, <3>1, <3>2
  <2>3. CASE k > b + 1
    <3>1. /\ ~(k <= b + 1) /\ ~(k <= b) /\ k # b + 1 /\ k - (b + 1) \in 1..a
          /\ a - (k - (b + 1)) + 1 = b + 2 + a - k
      BY <1>7, <2>3
    <3>2. QED
      BY <1>4, <1>5, <3>1
  <2>4. QED
    BY <1>7, <2>1, <2>2, <2>3
<1>9. QED
  BY <1>5, <1>6, <1>8 DEF a, b

\* The screen shown may be read as the last of those after it, as an undo and a redo do.
LEMMA LineIsKept ==
  ASSUME NEW S, NEW before \in Seq(S), NEW s \in S, NEW after \in Seq(S), before # <<>>
  PROVE  Joined(Front(before), Last(before), Append(after, s)) = Joined(before, s, after)
<1> DEFINE b == Len(before)
           a == Len(after)
           l == Joined(before, s, after)
           m == Joined(Front(before), Last(before), Append(after, s))
<1>1. b \in Nat /\ b >= 1 /\ a \in Nat
  BY LenProperties, FrontIsShorter
<1>2. Front(before) \in Seq(S) /\ Len(Front(before)) = b - 1 /\ Last(before) = before[b]
  BY FrontIsShorter DEF Last
<1>3. \A k \in 1..(b - 1) : Front(before)[k] = before[k]
  <2>1. b - 1 \in 0..Len(before)
    BY <1>1
  <2>2. QED
    BY <2>1, PrefixProperties DEF Front
<1>4. /\ Append(after, s) \in Seq(S) /\ Len(Append(after, s)) = a + 1
      /\ \A k \in 1..a : Append(after, s)[k] = after[k]
      /\ Append(after, s)[a + 1] = s
  BY AppendProperties
<1>5. Last(before) \in S
  BY LastOfScreens
<1>6. /\ l \in Seq(S) /\ Len(l) = b + 1 + a
      /\ \A k \in 1..(b + 1 + a) :
           l[k] = IF k <= b THEN before[k] ELSE IF k = b + 1 THEN s ELSE after[b + 2 + a - k]
  BY JoinedElements
<1>7. /\ m \in Seq(S) /\ Len(m) = b + 1 + a
      /\ \A k \in 1..(b + 1 + a) :
           m[k] = IF k <= b THEN before[k] ELSE Append(after, s)[b + 2 + a - k]
  <2> DEFINE before2 == Front(before)
             last == Last(before)
             after2 == Append(after, s)
             b2 == Len(before2)
             a2 == Len(after2)
  <2>1. b2 = b - 1 /\ a2 = a + 1
    BY <1>1, <1>2, <1>4
  <2>2. before2 \in Seq(S) /\ after2 \in Seq(S) /\ last \in S
    BY <1>2, <1>4, <1>5
  <2>3. m = Joined(before2, last, after2)
    OBVIOUS
  <2> HIDE DEF before2, last, after2, m, a, b
  <2>4. /\ m \in Seq(S) /\ Len(m) = b2 + 1 + a2
        /\ \A k \in 1..(b2 + 1 + a2) :
             m[k] = IF k <= b2 THEN before2[k]
                    ELSE IF k = b2 + 1 THEN last ELSE after2[b2 + 2 + a2 - k]
    <3> DEFINE t == Joined(before2, last, after2)
    <3>1. t \in Seq(S) /\ Len(t) = b2 + 1 + a2
      BY <2>2, JoinedElements
    <3>2. \A k \in 1..(b2 + 1 + a2) :
            t[k] = IF k <= b2 THEN before2[k]
                   ELSE IF k = b2 + 1 THEN last ELSE after2[b2 + 2 + a2 - k]
      BY <2>2, JoinedElements
    <3> HIDE DEF t
    <3>3. m = t
      BY <2>3 DEF t
    <3>4. QED
      BY <3>1, <3>2, <3>3
  <2> HIDE DEF a2, b2
  <2>5. b2 + 1 + a2 = b + 1 + a
    BY <1>1, <2>1
  <2>6. ASSUME NEW k \in 1..(b + 1 + a)
        PROVE  m[k] = IF k <= b THEN before[k] ELSE after2[b + 2 + a - k]
    <3>1. CASE k <= b - 1
      <4>1. k <= b2 /\ k <= b /\ k \in 1..(b - 1)
        BY <1>1, <2>1, <3>1
      <4>2. m[k] = before2[k]
        BY <2>4, <2>5, <4>1
      <4>3. QED
        BY <1>3, <4>1, <4>2 DEF before2
    <3>2. CASE k = b
      <4>1. ~(k <= b2) /\ k <= b /\ k = b2 + 1
        BY <1>1, <2>1, <3>2
      <4>2. m[k] = last
        BY <2>4, <2>5, <4>1
      <4>3. QED
        BY <1>2, <3>2, <4>1, <4>2 DEF last
    <3>3. CASE k > b
      <4>1. ~(k <= b2) /\ ~(k <= b) /\ k # b2 + 1 /\ b2 + 2 + a2 - k = b + 2 + a - k
        BY <1>1, <2>1, <3>3
      <4>2. m[k] = after2[b2 + 2 + a2 - k]
        BY <2>4, <2>5, <4>1
      <4>3. QED
        BY <4>1, <4>2
    <3>4. QED
      BY <1>1, <3>1, <3>2, <3>3
  <2>7. QED
    BY <2>4, <2>5, <2>6 DEF after2
<1> HIDE DEF a, b, l, m
<1>8. Len(m) = Len(l)
  BY <1>6, <1>7
<1>9. ASSUME NEW k \in 1..Len(l) PROVE m[k] = l[k]
  <2>1. CASE k <= b
    BY <1>1, <1>6, <1>7, <2>1
  <2>2. CASE k = b + 1
    <3>1. ~(k <= b) /\ b + 2 + a - k = a + 1
      BY <1>1, <2>2
    <3>2. m[k] = Append(after, s)[b + 2 + a - k]
      BY <1>6, <1>7, <3>1
    <3>3. QED
      BY <1>4, <1>6, <2>2, <3>1, <3>2
  <2>3. CASE k > b + 1
    <3>1. ~(k <= b) /\ k # b + 1 /\ b + 2 + a - k \in 1..a
      BY <1>1, <1>6, <2>3
    <3>2. QED
      BY <1>4, <1>6, <1>7, <3>1
  <2>4. QED
    BY <1>1, <1>6, <2>1, <2>2, <2>3
<1>10. m = l
  BY <1>6, <1>7, <1>8, <1>9, SeqEqual
<1>11. QED
  BY <1>10 DEF l, m

\* A screen after which there is none.
LEMMA LineEnds ==
  ASSUME NEW S, NEW before \in Seq(S), NEW s \in S
  PROVE  Joined(before, s, <<>>) = Append(before, s)
<1>1. Reverse(<<>>) = <<>>
  <2>1. <<>> \in Seq(S) /\ Len(<<>>) = 0
    BY EmptySeq
  <2>2. Reverse(<<>>) \in Seq(S) /\ Len(Reverse(<<>>)) = 0
    BY <2>1, ReverseElements
  <2>3. QED
    BY <2>2, EmptySeq
<1>2. before \o << s >> = Append(before, s) /\ Append(before, s) \in Seq(S)
  BY AppendIsConcat, AppendProperties
<1>3. Append(before, s) \o <<>> = Append(before, s)
  BY <1>2, ConcatEmptySeq
<1>4. QED
  BY <1>1, <1>2, <1>3 DEF Joined

\* Where the line gives way to a change: the screens that are pushed.
LEMMA PushedIsOfTheLine ==
  ASSUME HistoryInv, HistoryBounded
  PROVE  /\ SubSeq(Joined(past, Now, future),
                   IF Len(past) + 1 > MaxHistory THEN (Len(past) + 1) - MaxHistory + 1 ELSE 1,
                   Len(past) + 1) = Pushed
         /\ Len(future) > 0 => Pushed = Append(past, Now)
<1> DEFINE S == ScreensOf(nextId)
           n == Len(past)
           line == Joined(past, Now, future)
           first == IF n + 1 > MaxHistory THEN (n + 1) - MaxHistory + 1 ELSE 1
           t == SubSeq(line, first, n + 1)
           longer == Append(past, Now)
<1>1. past \in Seq(S) /\ future \in Seq(S) /\ Now \in S
  BY PushedScreens DEF HistoryInv
<1>2. /\ n \in Nat /\ Len(future) \in Nat /\ MaxHistory \in Nat /\ MaxHistory >= 1
      /\ n + Len(future) <= MaxHistory
  BY <1>1, LenProperties, HistoryAssumption DEF HistoryBounded
<1> HIDE DEF S
<1>3. /\ line \in Seq(S) /\ Len(line) = n + 1 + Len(future)
      /\ \A k \in 1..(n + 1 + Len(future)) :
           line[k] = IF k <= n THEN past[k]
                     ELSE IF k = n + 1 THEN Now ELSE future[n + 2 + Len(future) - k]
  BY <1>1, JoinedElements
<1>4. /\ longer \in Seq(S) /\ longer # <<>> /\ Len(longer) = n + 1
      /\ \A k \in 1..n : longer[k] = past[k]
      /\ longer[n + 1] = Now
  BY <1>1, AppendProperties
<1>5. /\ Tail(longer) \in Seq(S) /\ Len(Tail(longer)) = n
      /\ \A k \in 1..n : Tail(longer)[k] = longer[k + 1]
  <2>1. /\ Tail(longer) \in Seq(S) /\ Len(Tail(longer)) = Len(longer) - 1
        /\ \A k \in 1..Len(Tail(longer)) : Tail(longer)[k] = longer[k + 1]
    BY <1>4, HeadTailProperties
  <2> HIDE DEF longer, n
  <2>2. Len(longer) - 1 = n
    BY <1>2, <1>4
  <2>3. QED
    BY <2>1, <2>2
<1>6. Pushed = IF n + 1 > MaxHistory THEN Tail(longer) ELSE longer
  BY <1>4 DEF Pushed
<1> HIDE DEF n, line, longer
<1>7. \A k \in 1..(n + 1) : line[k] = longer[k] /\ line[k] \in S
  <2>1. \A k \in 1..(n + 1) : line[k] = longer[k]
    BY <1>2, <1>3, <1>4
  <2>2. \A k \in 1..(n + 1) : line[k] \in S
    BY <1>2, <1>3, ElementOfSeq
  <2>3. QED
    BY <2>1, <2>2
<1>8. CASE n + 1 > MaxHistory
  <2>1. first = 2 /\ n = MaxHistory /\ Len(future) = 0
    BY <1>2, <1>8
  <2> HIDE DEF first
  <2> DEFINE e == n + 1
  <2>2. /\ t \in Seq(S) /\ Len(t) = IF 2 <= e THEN e - 2 + 1 ELSE 0
        /\ \A k \in 1..(e - 2 + 1) : t[k] = line[2 + k - 1]
    <3>1. \A k \in 2..e : line[k] \in S
      BY <1>2, <1>7
    <3>2. e \in Int /\ 2 \in Int
      BY <1>2
    <3>3. t = SubSeq(line, 2, e)
      BY <2>1
    <3> HIDE DEF t, e
    <3>4. QED
      BY <3>1, <3>2, <3>3, SubSeqProperties
  <2> HIDE DEF t
  <2>3. Len(t) = n /\ \A k \in 1..n : t[k] = line[k + 1]
    <3>1. e - 2 + 1 = n /\ 2 <= e
      BY <1>2, <2>1
    <3>2. \A k \in 1..n : 2 + k - 1 = k + 1
      BY <1>2
    <3>3. QED
      BY <2>2, <3>1, <3>2
  <2>4. \A k \in 1..n : t[k] = Tail(longer)[k]
    <3> TAKE k \in 1..n
    <3>1. k + 1 \in 1..(n + 1)
      BY <1>2
    <3>2. QED
      BY <1>5, <1>7, <2>3, <3>1
  <2>5. t = Tail(longer)
    BY <1>5, <2>2, <2>3, <2>4, SeqEqual
  <2>6. t = Pushed /\ ~(Len(future) > 0)
    BY <1>6, <1>8, <2>1, <2>5
  <2>7. QED
    BY <2>6 DEF t, first, line, n
<1>9. CASE ~(n + 1 > MaxHistory)
  <2>1. first = 1
    BY <1>9
  <2>2. t \in Seq(S) /\ Len(t) = n + 1 /\ \A k \in 1..(n + 1) : t[k] = line[k]
    <3>1. t = SubSeq(line, 1, n + 1)
      BY <2>1
    <3>2. n + 1 \in 0..Len(line)
      BY <1>2, <1>3
    <3> HIDE DEF t
    <3>3. QED
      BY <1>3, <3>1, <3>2, PrefixProperties
  <2> HIDE DEF t
  <2>3. \A k \in 1..(n + 1) : t[k] = longer[k]
    BY <1>7, <2>2
  <2>4. t = longer
    BY <1>4, <2>2, <2>3, SeqEqual
  <2>5. t = Pushed /\ Pushed = longer
    BY <1>6, <1>9, <2>4
  <2>6. QED
    BY <2>5 DEF t, first, line, n, longer
<1>10. QED
  BY <1>8, <1>9

\* A stack is what it was before its last push, and that push.
LEMMA FrontAndLast ==
  ASSUME NEW S, NEW s \in Seq(S), NEW e \in S
  PROVE  /\ Front(Append(s, e)) = s /\ Last(Append(s, e)) = e
         /\ s # <<>> => Append(Front(s), Last(s)) = s
<1> DEFINE t == Append(s, e)
           n == Len(s)
<1>1. n \in Nat
  BY LenProperties
<1>2. t \in Seq(S) /\ t # <<>> /\ Len(t) = n + 1 /\ t[n + 1] = e /\ \A k \in 1..n : t[k] = s[k]
  BY AppendProperties
<1> HIDE DEF t, n
<1>3. /\ Front(t) \in Seq(S) /\ Len(Front(t)) = n
      /\ \A k \in 1..n : Front(t)[k] = t[k]
  <2>1. n \in 0..Len(t) /\ Len(t) - 1 = n
    BY <1>1, <1>2
  <2>2. Front(t) = SubSeq(t, 1, n)
    BY <2>1 DEF Front
  <2>3. QED
    BY <1>2, <2>1, <2>2, PrefixProperties
<1>4. Front(t) = s
  <2>1. \A k \in 1..n : Front(t)[k] = s[k]
    BY <1>2, <1>3
  <2>2. Len(s) = n
    BY DEF n
  <2>3. QED
    BY <1>3, <2>1, <2>2, SeqEqual
<1>5. Last(t) = e
  BY <1>2 DEF Last
<1>6. ASSUME s # <<>> PROVE Append(Front(s), Last(s)) = s
  <2>1. Front(s) \in Seq(S) /\ Len(Front(s)) = n - 1 /\ n >= 1 /\ Last(s) \in S /\ Last(s) = s[n]
    BY <1>6, FrontIsShorter, LastOfScreens DEF n, Last
  <2>2. \A k \in 1..(n - 1) : Front(s)[k] = s[k]
    <3>1. n - 1 \in 0..Len(s)
      BY <1>1, <2>1 DEF n
    <3>2. QED
      BY <3>1, PrefixProperties DEF Front, n
  <2> DEFINE u == Append(Front(s), Last(s))
  <2>3. /\ u \in Seq(S) /\ Len(u) = (n - 1) + 1 /\ u[(n - 1) + 1] = Last(s)
        /\ \A k \in 1..(n - 1) : u[k] = Front(s)[k]
    BY <2>1, AppendProperties
  <2> HIDE DEF u
  <2>4. (n - 1) + 1 = n
    BY <1>1
  <2>5. \A k \in 1..n : u[k] = s[k]
    BY <1>1, <2>1, <2>2, <2>3, <2>4
  <2>6. u = s
    <3>1. Len(s) = n
      BY DEF n
    <3>2. QED
      BY <2>3, <2>4, <2>5, <3>1, SeqEqual
  <2>7. QED
    BY <2>6 DEF u
<1>7. QED
  BY <1>4, <1>5, <1>6 DEF t

\* The empty screen is a line of one screen.
LEMMA InitTimeline == Init => Timeline!Init
<1> SUFFICES ASSUME Init PROVE Timeline!Init
  OBVIOUS
<1>1. Now \in Snapshots
  BY InitHistory, PushedScreens, ScreensAreSnapshots
<1>2. past = <<>> /\ future = <<>> /\ past \in Seq(Snapshots) /\ Len(past) = 0
  BY EmptySeq DEF Init
<1>3. Joined(past, Now, future) = Append(<<>>, Now)
  BY <1>1, <1>2, LineEnds
<1>4. Append(<<>>, Now) = << Now >>
  OBVIOUS
<1>5. past \o << Now >> \o Reverse(future) = << Now >> /\ Len(past) + 1 = 1
  BY <1>2, <1>3, <1>4 DEF Joined
<1>6. QED
  BY <1>1, <1>5 DEF Timeline!Init

\* A change is a change of the line, undo and redo move on it, another route starts
\* it again, and a selection leaves it as it is.
LEMMA StepTimeline ==
  HistoryInv /\ HistoryBounded /\ HistoryInv' /\ [Next]_vars
    => [Timeline!Next]_(Timeline!timelineVars)
<1> SUFFICES ASSUME HistoryInv, HistoryBounded, HistoryInv', [Next]_vars
             PROVE  [Timeline!Next]_(Timeline!timelineVars)
  OBVIOUS
<1>1. /\ SubSeq(Joined(past, Now, future),
                IF Len(past) + 1 > MaxHistory THEN (Len(past) + 1) - MaxHistory + 1 ELSE 1,
                Len(past) + 1) = Pushed
      /\ Len(future) > 0 => Pushed = Append(past, Now)
  BY PushedIsOfTheLine
<1> DEFINE S == ScreensOf(nextId)
           line == Joined(past, Now, future)
           at == Len(past) + 1
<1>2. past \in Seq(S) /\ future \in Seq(S) /\ Now \in S /\ Pushed \in Seq(S) /\ Now' \in Snapshots
  <2>1. past \in Seq(S) /\ future \in Seq(S) /\ Now \in S /\ Pushed \in Seq(S)
    BY PushedScreens DEF HistoryInv
  <2>2. Now' \in Snapshots
    BY ScreensAreSnapshots DEF HistoryInv, Now, ScreensOf
  <2>3. QED
    BY <2>1, <2>2
<1>3. Pushed \in Seq(Snapshots)
  BY <1>2, ScreensAreSnapshots
<1>4. /\ line = past \o << Now >> \o Reverse(future)
      /\ line' = (past \o << Now >> \o Reverse(future))'
  BY DEF Joined
<1>5. Len(past) \in Nat /\ Len(future) \in Nat /\ Len(line) = Len(past) + 1 + Len(future)
  BY <1>2, LenProperties, JoinedElements
<1>6. ASSUME Push PROVE \E s \in Snapshots : Timeline!Change(s)
  <2>1. past' = Pushed /\ future' = <<>>
    BY <1>6 DEF Push
  <2>2. line' = Append(Pushed, Now')
    BY <1>2, <1>3, <2>1, LineEnds
  <2>3. Len(line') = Len(Pushed) + 1
    BY <1>2, <1>3, <2>2, AppendProperties
  <2>4. SubSeq(line, IF at > MaxHistory THEN at - MaxHistory + 1 ELSE 1, at) = Pushed
    BY <1>1
  <2>5. at' = Len(line')
    BY <2>1, <2>3
  <2>6. Timeline!Change(Now')
    BY <1>4, <2>2, <2>4, <2>5 DEF Timeline!Change, Joined
  <2>7. QED
    BY <1>2, <2>6
<1>7. ASSUME past' = <<>>, future' = <<>> PROVE \E s \in Snapshots : Timeline!Restart(s)
  <2>1. past' \in Seq(Snapshots) /\ Len(past') = 0
    BY <1>7, EmptySeq
  <2>2. line' = Append(<<>>, Now')
    BY <1>2, <1>7, <2>1, LineEnds
  <2>3. line' = << Now' >> /\ at' = 1
    BY <2>1, <2>2
  <2>4. Timeline!Restart(Now')
    BY <1>4, <2>3 DEF Timeline!Restart
  <2>5. QED
    BY <1>2, <2>4
<1>8. ASSUME NEW s \in S, ApplySnapshot(s) PROVE Now' = s
  BY <1>8 DEF ApplySnapshot, Now, ScreensOf
<1>9. CASE Undo
  <2>1. /\ past # <<>> /\ future' = Append(future, Now) /\ past' = Front(past)
        /\ ApplySnapshot(Last(past))
    BY <1>9 DEF Undo
  <2>2. Now' = Last(past)
    BY <1>2, <1>8, <2>1, LastOfScreens
  <2>3. line' = line
    BY <1>2, <2>1, <2>2, LineIsKept
  <2>4. Len(past') = Len(past) - 1 /\ Len(past) >= 1
    BY <1>2, <2>1, FrontIsShorter
  <2>5. at > 1 /\ at' = at - 1
    BY <1>5, <2>4
  <2>6. Timeline!Undo
    BY <1>4, <2>3, <2>5 DEF Timeline!Undo
  <2>7. QED
    BY <2>6 DEF Timeline!Next
<1>10. CASE Redo
  <2>1. /\ future # <<>> /\ past' = Pushed /\ future' = Front(future)
        /\ ApplySnapshot(Last(future))
    BY <1>10 DEF Redo
  <2>2. Now' = Last(future) /\ Last(future) \in S
    BY <1>2, <1>8, <2>1, LastOfScreens
  <2>3. Front(future) \in Seq(S) /\ Len(future) >= 1
    BY <1>2, <2>1, FrontIsShorter
  <2>4. Pushed = Append(past, Now)
    BY <1>5, <2>3, PushedIsOfTheLine
  <2>5. line' = line
    <3> DEFINE before == Append(past, Now)
               s == Last(future)
               after == Front(future)
    <3>1. before \in Seq(S) /\ before # <<>>
      BY <1>2, AppendProperties
    <3>2. before \in Seq(S) /\ before # <<>> /\ Front(before) = past /\ Last(before) = Now
      BY <1>2, <3>1, FrontAndLast
    <3>3. Append(after, s) = future /\ s \in S /\ after \in Seq(S)
      BY <1>2, <2>1, <2>2, <2>3, FrontAndLast
    <3>4. line' = Joined(before, s, after)
      BY <2>1, <2>2, <2>4
    <3> HIDE DEF before, s, after, S
    <3>5. Joined(Front(before), Last(before), Append(after, s)) = Joined(before, s, after)
      BY <3>2, <3>3, LineIsKept
    <3>6. QED
      BY <3>2, <3>3, <3>4, <3>5
  <2>6. Len(past') = Len(past) + 1
    BY <1>2, <2>1, <2>4, AppendProperties
  <2>7. at < Len(line) /\ at' = at + 1
    BY <1>5, <2>3, <2>6
  <2>8. Timeline!Redo
    BY <1>4, <2>5, <2>7 DEF Timeline!Redo
  <2>9. QED
    BY <2>8 DEF Timeline!Next
<1>11. CASE InsertPoint \/ RemovePoint \/ EditPoint \/ ReverseAll
  <2>1. Push
    BY <1>11 DEF InsertPoint, RemovePoint, EditPoint, ReverseAll
  <2>2. QED
    BY <1>6, <2>1 DEF Timeline!Next
<1>12. CASE Reorder \/ ReplacePoints \/ ClearRoute \/ AddZone \/ RemoveZone
  <2>1. Push
    BY <1>12 DEF Reorder, ReplacePoints, ClearRoute, AddZone, RemoveZone
  <2>2. QED
    BY <1>6, <2>1 DEF Timeline!Next
<1>13. CASE OpenRoute \/ Reload
  <2>1. past' = <<>> /\ future' = <<>>
    BY <1>13 DEF OpenRoute, Reload, SetPointsSilently
  <2>2. QED
    BY <1>7, <2>1 DEF Timeline!Next
<1>14. CASE Select \/ UNCHANGED vars
  <2>1. past' = past /\ future' = future /\ Now' = Now
    BY <1>14 DEF Select, vars, Now
  <2>2. UNCHANGED Timeline!timelineVars
    BY <2>1 DEF Timeline!timelineVars
  <2>3. QED
    BY <2>2
<1>15. QED
  BY <1>9, <1>10, <1>11, <1>12, <1>13, <1>14 DEF Next

\* Undo and redo move along one line of screens and alter none of them: the stacks
\* implement the timeline (state/history.js:7-8, 20-43).
THEOREM HistoryIsATimeline == Spec => ImplementsUndoTimeline
<1>1. HistoryInv /\ [Next]_vars => HistoryInv'
  BY StepHistory
<1>2. QED
  BY InitHistory, InitTimeline, StepHistory, StepTimeline, StacksStayBounded, PTL
    DEF Spec, ImplementsUndoTimeline, Timeline!Spec

=============================================================================
