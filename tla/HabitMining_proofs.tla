-------------------------- MODULE HabitMining_proofs --------------------------
(* Theorems about HabitMining, for any entities, settings, days and people:   *)
(*   - what event_pair rows say of confidence (the next lines);               *)
(*   - sums of squares, means, the day circle, runs and clusters: the lemmas, *)
(*     and what cluster_minutes computes;                                     *)
(*   - candidates and the rows they become: the type invariant, and what may  *)
(*     become of a row;                                                       *)
(*   - habits of narrow clusters: none is stored twice;                       *)
(*   - groups.                                                                *)
EXTENDS HabitMining, FiniteSetTheorems, WellFoundedInduction, TLAPS

(* A window of finitely many events: what makes counting meaningful. *)
WindowFinite == IsFiniteSet(window)

(* Mining's statistics are over finite sets: no day brings infinitely many    *)
(* events into the window (load_events).                                      *)
LEMMA WindowStaysFinite == Spec => []WindowFinite
<1> USE DEF WindowFinite
<1>1. Init => WindowFinite
  BY FS_EmptySet DEF Init
<1>2. WindowFinite /\ [Next]_vars => WindowFinite'
  <2> SUFFICES ASSUME WindowFinite, [Next]_vars PROVE WindowFinite'
    OBVIOUS
  <2>1. ASSUME NEW plan \in Plans, Day(plan) PROVE WindowFinite'
    <3> DEFINE events == {[day |-> today + 1, ent |-> a.ent, at |-> a.at, user |-> a.user]
                            : a \in plan}
               f == [a \in plan |->
                       [day |-> today + 1, ent |-> a.ent, at |-> a.at, user |-> a.user]]
    <3>1. IsFiniteSet(Recent(window, today + 1))
      BY FS_Subset DEF Recent
    <3>2. IsFiniteSet(events)
      <4>1. IsFiniteSet(plan)
        BY MiningAssumption DEF MiningAssumption
      <4>2. f \in Surjection(plan, events)
        BY DEF Surjection
      <4> HIDE DEF f, events
      <4> QED
        BY <4>1, <4>2, FS_Surjection
    <3> QED
      BY <2>1, <3>1, <3>2, FS_Union DEF Day
  <2>2. ASSUME Mine PROVE WindowFinite'
    BY <2>2 DEF Mine
  <2>3. ASSUME Propose PROVE WindowFinite'
    BY <2>3 DEF Propose
  <2>4. ASSUME UNCHANGED vars PROVE WindowFinite'
    BY <2>4 DEF vars
  <2> QED
    BY <2>1, <2>2, <2>3, <2>4 DEF Next
<1> QED
  BY <1>1, <1>2, PTL DEF Spec

(* The occurrences that are answered are among the occurrences, and each is   *)
(* counted once (the a_idx set of mine_event_pairs).                          *)
LEMMA HitsAreOccurrences ==
  ASSUME WindowFinite, NEW a, NEW b
  PROVE  /\ Cardinality(Of(a)) \in Nat /\ Hits(a, b) \in Nat
         /\ Hits(a, b) <= Cardinality(Of(a))
<1>1. IsFiniteSet(Of(a))
  BY FS_Subset DEF WindowFinite, Of
<1>2. Answered(a, b) \subseteq Of(a)
  BY DEF Answered
<1>3. /\ IsFiniteSet(Answered(a, b))
      /\ Cardinality(Answered(a, b)) <= Cardinality(Of(a))
  BY <1>1, <1>2, FS_Subset
<1> QED
  BY <1>1, <1>3, FS_CardinalityType DEF Hits

(* A night's event_pair rows are shares of the occurrences. *)
LEMMA MinedPairsAreShares ==
  ASSUME WindowFinite, NEW p \in DOMAIN PairRows
  PROVE  PairRows[p].hits \in 1..PairRows[p].of
<1> DEFINE acting == {e.ent : e \in window}
           hits == [q \in {r \in acting \X acting : r[1] # r[2]} |-> Hits(q[1], q[2])]
           mined == {q \in DOMAIN hits : hits[q] > 0 /\ Reliable(q[1], q[2], hits[q], Mining)}
<1>1. PairRows = [q \in mined |-> [hits |-> hits[q], of |-> Cardinality(Of(q[1])),
                                   fit |-> Reliable(q[1], q[2], hits[q], Gate)]]
  BY DEF PairRows
<1>2. p \in mined
  BY <1>1
<1>3. hits[p] = Hits(p[1], p[2]) /\ hits[p] > 0
  BY <1>2
<1>4. PairRows[p].hits = hits[p] /\ PairRows[p].of = Cardinality(Of(p[1]))
  BY <1>1, <1>2
<1>5. /\ Cardinality(Of(p[1])) \in Nat /\ Hits(p[1], p[2]) \in Nat
      /\ Hits(p[1], p[2]) <= Cardinality(Of(p[1]))
  BY HitsAreOccurrences
<1> HIDE DEF hits, mined, acting
<1> QED
  BY <1>3, <1>4, <1>5

(* Confidence is a share in every row that any number of nights leaves behind *)
(* (rows that are mined no more included), for all thresholds, windows and    *)
(* gaps of mine_event_pairs.                                                  *)
THEOREM ConfidenceIsShareProved == Spec => []ConfidenceIsShare
<1>1. Init => ConfidenceIsShare
  BY DEF Init, Empty, ConfidenceIsShare
<1>2. WindowFinite /\ ConfidenceIsShare /\ [Next]_vars => ConfidenceIsShare'
  <2> SUFFICES ASSUME WindowFinite, ConfidenceIsShare, [Next]_vars,
                      NEW p \in DOMAIN pairs'
               PROVE  pairs'[p].hits \in 1..pairs'[p].of
    BY DEF ConfidenceIsShare
  <2>1. CASE Mine
    <3>1. pairs' = Upsert(pairs, PairRows)
      BY <2>1 DEF Mine
    <3>2. CASE p \in DOMAIN PairRows
      <4>1. pairs'[p] = PairRows[p]
        BY <3>1, <3>2 DEF Upsert
      <4> QED
        BY <3>2, <4>1, MinedPairsAreShares
    <3>3. CASE p \notin DOMAIN PairRows
      <4>1. p \in DOMAIN pairs /\ pairs'[p] = pairs[p]
        BY <3>1, <3>3 DEF Upsert
      <4> QED
        BY <4>1 DEF ConfidenceIsShare
    <3> QED
      BY <3>2, <3>3
  <2>2. CASE pairs' = pairs
    BY <2>2 DEF ConfidenceIsShare
  <2> QED
    BY <2>1, <2>2 DEF Next, Day, Propose, vars
<1> QED
  BY <1>1, <1>2, WindowStaysFinite, PTL DEF Spec

------------------------------------------------------------------------------
\* Sums: what SquaresFrom computes is a natural number, and grows with what it
\* sums.

Pick(s) == CHOOSE x \in s : TRUE

\* What MapThenFoldSet folds with: the sums of count over the subsets in us.
Sums(count, us, h) ==
    h = [s \in us |-> IF s = {} THEN 0 ELSE count[Pick(s)] + h[s \ {Pick(s)}]]

LEMMA PickIn == ASSUME NEW s, s # {} PROVE Pick(s) \in s
BY DEF Pick

\* A nonempty set of naturals has a least element.
LEMMA Least ==
    ASSUME NEW bad \in SUBSET Nat, bad # {}
    PROVE  \E n \in bad : \A m \in Nat : m < n => m \notin bad
<1> DEFINE less == {ss \in Nat \X Nat : ss[1] < ss[2]}
<1>1. IsWellFoundedOn(less, Nat)
  BY NatLessThanWellFounded DEF OpToRel
<1>2. PICK n \in bad : \A m \in bad : <<m, n>> \notin less
  <2> HIDE DEF less
  <2> QED
    BY <1>1, WFMin
<1> QED
  BY <1>2

LEMMA MinIsLeast ==
    ASSUME NEW ns \in SUBSET Nat, ns # {}
    PROVE  Min(ns) \in ns /\ \A n \in ns : Min(ns) <= n
<1>1. PICK k \in ns : \A m \in Nat : m < k => m \notin ns
  BY Least
<1>2. \A m \in ns : k =< m
  BY <1>1
<1> QED
  BY <1>2 DEF Min

Small(S, n) == {s \in SUBSET S : Cardinality(s) <= n}

LEMMA SmallSets ==
    ASSUME NEW S, IsFiniteSet(S), NEW s \in SUBSET S
    PROVE  /\ IsFiniteSet(s) /\ Cardinality(s) \in Nat
           /\ Cardinality(s) = 0 <=> s = {}
           /\ s # {} => /\ s \ {Pick(s)} \in SUBSET S
                        /\ Cardinality(s \ {Pick(s)}) = Cardinality(s) - 1
<1>1. IsFiniteSet(s)
  BY FS_Subset
<1>2. Cardinality(s) \in Nat /\ (Cardinality(s) = 0 <=> s = {})
  BY <1>1, FS_CardinalityType, FS_EmptySet
<1>3. s # {} => Cardinality(s \ {Pick(s)}) = Cardinality(s) - 1
  BY <1>1, PickIn, FS_RemoveElement
<1> QED
  BY <1>1, <1>2, <1>3

\* The sums over the subsets of a finite set exist.
LEMMA SumsExist ==
    ASSUME NEW S, IsFiniteSet(S), NEW count
    PROVE  \E h : Sums(count, SUBSET S, h)
<1> DEFINE bad == {n \in Nat : ~ \E h : Sums(count, Small(S, n), h)}
<1>1. 0 \notin bad
  <2>1. ASSUME NEW s \in SUBSET S PROVE Cardinality(s) <= 0 <=> s = {}
    <3>1. Cardinality(s) \in Nat /\ (Cardinality(s) = 0 <=> s = {})
      BY SmallSets
    <3> QED
      BY <3>1
  <2>3. Small(S, 0) = {{}}
    BY <2>1 DEF Small
  <2>2. Sums(count, {{}}, [s \in {{}} |-> 0])
    BY DEF Sums
  <2> QED
    BY <2>2, <2>3
<1>2. ASSUME NEW n \in Nat, n \notin bad PROVE n + 1 \notin bad
  <2>1. PICK h : Sums(count, Small(S, n), h)
    BY <1>2
  <2> DEFINE g == [s \in Small(S, n + 1) |->
                     IF s = {} THEN 0 ELSE count[Pick(s)] + h[s \ {Pick(s)}]]
  <2>2. ASSUME NEW s \in Small(S, n) PROVE g[s] = h[s]
    <3>1. s \in SUBSET S /\ Cardinality(s) <= n
      BY <2>2 DEF Small
    <3>2. Cardinality(s) \in Nat
      BY <3>1, SmallSets
    <3>3. s \in Small(S, n + 1)
      BY <3>1, <3>2 DEF Small
    <3>4. h[s] = IF s = {} THEN 0 ELSE count[Pick(s)] + h[s \ {Pick(s)}]
      BY <2>1, <2>2 DEF Sums
    <3> QED
      BY <3>3, <3>4
  <2>3. ASSUME NEW s \in Small(S, n + 1), s # {} PROVE g[s \ {Pick(s)}] = h[s \ {Pick(s)}]
    <3>1. s \ {Pick(s)} \in Small(S, n)
      BY <2>3, SmallSets DEF Small
    <3> QED
      BY <2>2, <3>1
  <2>4. Sums(count, Small(S, n + 1), g)
    <3>1. ASSUME NEW s \in Small(S, n + 1)
          PROVE  (IF s = {} THEN 0 ELSE count[Pick(s)] + h[s \ {Pick(s)}])
                   = (IF s = {} THEN 0 ELSE count[Pick(s)] + g[s \ {Pick(s)}])
      BY <2>3
    <3>2. g = [s \in Small(S, n + 1) |->
                 IF s = {} THEN 0 ELSE count[Pick(s)] + g[s \ {Pick(s)}]]
      <4> HIDE DEF g
      <4> SUFFICES g = [s \in Small(S, n + 1) |->
                     IF s = {} THEN 0 ELSE count[Pick(s)] + h[s \ {Pick(s)}]]
        BY <3>1
      <4> QED
        BY DEF g
    <3> HIDE DEF g
    <3> QED
      BY <3>2 DEF Sums
  <2> HIDE DEF g
  <2> QED
    BY <2>4
<1>3. bad = {}
  <2> SUFFICES ASSUME bad # {} PROVE FALSE
    OBVIOUS
  <2>1. PICK n \in bad : \A m \in Nat : m < n => m \notin bad
    <3> HIDE DEF bad
    <3>1. bad \in SUBSET Nat
      BY DEF bad
    <3> QED
      BY <3>1, Least
  <2>2. n \in Nat
    OBVIOUS
  <2> HIDE DEF bad
  <2>3. n # 0
    BY <1>1, <2>1
  <2>4. n - 1 \in Nat /\ n - 1 < n /\ (n - 1) + 1 = n
    BY <2>2, <2>3
  <2>5. n - 1 \notin bad
    BY <2>1, <2>4
  <2>6. (n - 1) + 1 \notin bad
    BY <2>4, <2>5, <1>2
  <2> QED
    BY <2>1, <2>4, <2>6
<1>4. Small(S, Cardinality(S)) = SUBSET S /\ Cardinality(S) \in Nat
  BY FS_Subset, FS_CardinalityType, SmallSets DEF Small
<1>5. Cardinality(S) \notin bad
  BY <1>3
<1> QED
  BY <1>4, <1>5

\* Sums of naturals are naturals, and grow with what is summed; strictly, where
\* one of the summands does.
LEMMA SumsGrow ==
    ASSUME NEW S, IsFiniteSet(S), NEW c \in [S -> Nat], NEW d \in [S -> Nat],
           \A e \in S : c[e] <= d[e],
           NEW g, Sums(c, SUBSET S, g), NEW h, Sums(d, SUBSET S, h)
    PROVE  /\ g[S] \in Nat /\ h[S] \in Nat /\ g[S] <= h[S]
           /\ (\E e \in S : c[e] < d[e]) => g[S] < h[S]
<1> DEFINE Fine(s) == /\ g[s] \in Nat /\ h[s] \in Nat /\ g[s] <= h[s]
                      /\ (\E e \in s : c[e] < d[e]) => g[s] < h[s]
           bad == {n \in Nat : \E s \in SUBSET S : Cardinality(s) = n /\ ~Fine(s)}
<1>1. ASSUME NEW s \in SUBSET S
      PROVE  /\ g[s] = IF s = {} THEN 0 ELSE c[Pick(s)] + g[s \ {Pick(s)}]
             /\ h[s] = IF s = {} THEN 0 ELSE d[Pick(s)] + h[s \ {Pick(s)}]
  BY DEF Sums
<1>2. bad = {}
  <2> SUFFICES ASSUME bad # {} PROVE FALSE
    OBVIOUS
  <2>1. PICK n \in bad : \A m \in Nat : m < n => m \notin bad
    <3> HIDE DEF bad
    <3>1. bad \in SUBSET Nat
      BY DEF bad
    <3> QED
      BY <3>1, Least
  <2>2. PICK s \in SUBSET S : Cardinality(s) = n /\ ~Fine(s)
    OBVIOUS
  <2>3. ASSUME s = {} PROVE FALSE
    <3>1. g[s] = 0 /\ h[s] = 0
      BY <1>1, <2>3
    <3>2. Fine(s)
      <4>1. ~\E e \in s : c[e] < d[e]
        BY <2>3
      <4> QED
        BY <3>1, <4>1
    <3> QED
      BY <2>2, <3>2
  <2> DEFINE t == s \ {Pick(s)}
  <2>4. t \in SUBSET S /\ Cardinality(t) \in Nat /\ Cardinality(t) < n /\ Pick(s) \in S
    BY <2>2, <2>3, SmallSets, PickIn
  <2>5. Cardinality(t) \notin bad
    BY <2>1, <2>4
  <2>6. Fine(t)
    BY <2>4, <2>5
  <2>7. c[Pick(s)] \in Nat /\ d[Pick(s)] \in Nat /\ c[Pick(s)] <= d[Pick(s)]
    BY <2>4
  <2>8. g[s] = c[Pick(s)] + g[t] /\ h[s] = d[Pick(s)] + h[t]
    BY <1>1, <2>3
  <2>a. \A e \in s : e = Pick(s) \/ e \in t
    OBVIOUS
  <2> HIDE DEF t, bad
  <2>b. g[s] \in Nat /\ h[s] \in Nat /\ g[s] <= h[s]
    BY <2>6, <2>7, <2>8
  <2>c. ASSUME NEW e \in s, c[e] < d[e] PROVE g[s] < h[s]
    <3>1. CASE e = Pick(s)
      BY <2>6, <2>7, <2>8, <2>c, <3>1
    <3>2. CASE e \in t
      BY <2>6, <2>7, <2>8, <2>c, <3>2
    <3> QED
      BY <2>a, <3>1, <3>2
  <2>9. Fine(s)
    BY <2>b, <2>c
  <2> QED
    BY <2>2, <2>9
<1>3. Cardinality(S) \in Nat
  BY FS_CardinalityType
<1>4. Cardinality(S) \notin bad
  BY <1>2
<1> QED
  BY <1>3, <1>4

------------------------------------------------------------------------------
\* Means are minutes of the day.

\* The square that an event adds.
Square(e, m) == CircularDiff(e.at, m) * CircularDiff(e.at, m)

\* What SquaresFrom folds with.
SquareSums(m, us, h) ==
    h = [s \in us |-> IF s = {} THEN 0 ELSE Square(Pick(s), m) + h[s \ {Pick(s)}]]

\* Events of the model: at a minute of the day.
Timed(evs) == IsFiniteSet(evs) /\ \A e \in evs : e.at \in Minutes

LEMMA SquaresUnfold ==
    ASSUME NEW m, NEW evs
    PROVE  SquaresFrom(m, evs) = (CHOOSE h : SquareSums(m, SUBSET evs, h))[evs]
BY DEF SquaresFrom, MapThenSumSet, MapThenFoldSet, SquareSums, Square, Pick

LEMMA DiffIsInt ==
    ASSUME MiningAssumption, NEW a \in Minutes, NEW b \in Minutes
    PROVE  /\ CircularDiff(a, b) \in Int
           /\ CircularDiff(a, b) * CircularDiff(a, b) \in Nat
           /\ Distance(a, b) \in Nat
           /\ CircularDiff(a, b) * CircularDiff(a, b) = Distance(a, b) * Distance(a, b)
<1> DEFINE d == (a - b) % DayLen
<1>1. DayLen \in Nat \ {0} /\ a \in Int /\ b \in Int
  BY DEF MiningAssumption, Minutes
<1>2. d \in 0..(DayLen - 1)
  BY <1>1
<1> DEFINE c == CircularDiff(a, b)
<1>3. c \in Int
  <2> HIDE DEF d
  <2>1. c = IF 2 * d > DayLen THEN d - DayLen ELSE d
    BY DEF CircularDiff, d
  <2> HIDE DEF c
  <2> QED
    BY <1>1, <1>2, <2>1
<1>4. Distance(a, b) = IF c < 0 THEN -c ELSE c
  BY DEF Distance
<1> HIDE DEF c
<1>5. c * c \in Nat
  BY <1>3
<1>6. Distance(a, b) \in Nat /\ c * c = Distance(a, b) * Distance(a, b)
  BY <1>3, <1>4
<1> QED
  BY <1>3, <1>5, <1>6 DEF c

\* The sums of the squares from two minutes compare as the squares do.
LEMMA SquaresGrow ==
    ASSUME MiningAssumption, NEW evs, Timed(evs), NEW m \in Minutes, NEW n \in Minutes,
           \A e \in evs : Square(e, m) <= Square(e, n)
    PROVE  /\ SquaresFrom(m, evs) \in Nat /\ SquaresFrom(n, evs) \in Nat
           /\ SquaresFrom(m, evs) <= SquaresFrom(n, evs)
           /\ (\E e \in evs : Square(e, m) < Square(e, n)) =>
                SquaresFrom(m, evs) < SquaresFrom(n, evs)
<1> DEFINE count(k) == [e \in evs |-> Square(e, k)]
           sums(k) == CHOOSE h : SquareSums(k, SUBSET evs, h)
<1>1. ASSUME NEW k \in Minutes
      PROVE  /\ count(k) \in [evs -> Nat] /\ Sums(count(k), SUBSET evs, sums(k))
             /\ SquaresFrom(k, evs) = sums(k)[evs]
  <2>1. count(k) \in [evs -> Nat]
    BY DiffIsInt DEF Timed, Square
  <2>2. ASSUME NEW h PROVE Sums(count(k), SUBSET evs, h) <=> SquareSums(k, SUBSET evs, h)
    <3>1. \A s \in SUBSET evs : s # {} => count(k)[Pick(s)] = Square(Pick(s), k)
      BY PickIn
    <3> HIDE DEF count
    <3>2. ASSUME NEW s \in SUBSET evs
          PROVE  (IF s = {} THEN 0 ELSE count(k)[Pick(s)] + h[s \ {Pick(s)}])
                   = (IF s = {} THEN 0 ELSE Square(Pick(s), k) + h[s \ {Pick(s)}])
      BY <3>1
    <3> QED
      BY <3>2 DEF Sums, SquareSums
  <2>3. PICK g : Sums(count(k), SUBSET evs, g)
    BY SumsExist DEF Timed
  <2>4. SquareSums(k, SUBSET evs, sums(k))
    BY <2>2, <2>3
  <2> HIDE DEF count
  <2> QED
    BY <2>1, <2>2, <2>4, SquaresUnfold
<1>2. \A e \in evs : count(m)[e] = Square(e, m) /\ count(n)[e] = Square(e, n)
  OBVIOUS
<1> HIDE DEF count, sums
<1>3. \A e \in evs : count(m)[e] <= count(n)[e]
  BY <1>2
<1>4. /\ sums(m)[evs] \in Nat /\ sums(n)[evs] \in Nat /\ sums(m)[evs] <= sums(n)[evs]
      /\ (\E e \in evs : count(m)[e] < count(n)[e]) => sums(m)[evs] < sums(n)[evs]
  BY <1>1, <1>3, SumsGrow DEF Timed
<1> QED
  BY <1>1, <1>2, <1>4

\* The mean is a minute of the day, and none is nearer to all of them.
LEMMA MeanIsNearest ==
    ASSUME MiningAssumption, NEW evs, Timed(evs)
    PROVE  /\ CircularMean(evs) \in Minutes
           /\ \A m \in Minutes : SquaresFrom(CircularMean(evs), evs) <= SquaresFrom(m, evs)
<1> DEFINE squares == [m \in Minutes |-> SquaresFrom(m, evs)]
           values == {squares[m] : m \in Minutes}
           best == {m \in Minutes : squares[m] = Min(values)}
<1>1. CircularMean(evs) = Min(best)
  BY DEF CircularMean
<1>2. \A m \in Minutes : squares[m] \in Nat
  <2> SUFFICES ASSUME NEW m \in Minutes PROVE SquaresFrom(m, evs) \in Nat
    OBVIOUS
  <2>1. \A e \in evs : Square(e, m) <= Square(e, m)
    BY DiffIsInt DEF Timed, Square
  <2> QED
    BY <2>1, SquaresGrow
<1>3. Minutes \subseteq Nat /\ 0 \in Minutes
  BY DEF Minutes, MiningAssumption
<1>4. values \in SUBSET Nat /\ values # {}
  BY <1>2, <1>3
<1>5. Min(values) \in values /\ \A v \in values : Min(values) <= v
  <2> HIDE DEF values
  <2> QED
    BY <1>4, MinIsLeast
<1>6. best \in SUBSET Nat /\ best # {}
  BY <1>3, <1>5
<1>7. Min(best) \in best
  <2> HIDE DEF best
  <2> QED
    BY <1>6, MinIsLeast
<1>8. \A m \in Minutes : squares[m] = SquaresFrom(m, evs) /\ squares[m] \in values
  OBVIOUS
<1>9. Min(best) \in Minutes /\ squares[Min(best)] = Min(values)
  BY <1>7
<1> HIDE DEF squares, values, best
<1> QED
  BY <1>1, <1>5, <1>8, <1>9

------------------------------------------------------------------------------
\* The day circle, seen from one of its minutes.

\* How far x is after a.
Off(x, a) == IF a <= x THEN x - a ELSE x - a + DayLen

Apart(m, n) == IF m <= n THEN n - m ELSE m - n

\* The way around the other side may be shorter.
Short(n) == IF 2 * n <= DayLen THEN n ELSE DayLen - n

LEMMA DistanceIs ==
    ASSUME MiningAssumption, NEW a \in Minutes, NEW b \in Minutes
    PROVE  Distance(a, b) = Short(Apart(a, b))
<1>1. /\ DayLen \in Nat \ {0} /\ a \in Int /\ b \in Int
      /\ 0 <= a /\ a < DayLen /\ 0 <= b /\ b < DayLen
  BY DEF MiningAssumption, Minutes
<1> DEFINE d == (a - b) % DayLen
<1>2. d = IF b <= a THEN a - b ELSE a - b + DayLen
  BY <1>1
<1>3. CircularDiff(a, b) = IF 2 * d > DayLen THEN d - DayLen ELSE d
  BY DEF CircularDiff
<1> HIDE DEF d
<1> QED
  BY <1>1, <1>2, <1>3 DEF Distance, Short, Apart

LEMMA OffIs ==
    ASSUME MiningAssumption, NEW x \in Minutes, NEW a \in Minutes
    PROVE  Off(x, a) \in Minutes /\ (Off(x, a) = 0 <=> x = a)
BY DEF MiningAssumption, Minutes, Off

LEMMA DistanceByOff ==
    ASSUME MiningAssumption, NEW a \in Minutes, NEW x \in Minutes, NEW y \in Minutes
    PROVE  Distance(x, y) = Short(Apart(Off(x, a), Off(y, a)))
<1>1. Distance(x, y) = Short(Apart(x, y))
  BY DistanceIs
<1>2. /\ DayLen \in Nat \ {0} /\ a \in Int /\ x \in Int /\ y \in Int
      /\ 0 <= a /\ a < DayLen /\ 0 <= x /\ x < DayLen /\ 0 <= y /\ y < DayLen
  BY DEF MiningAssumption, Minutes
<1> QED
  BY <1>1, <1>2 DEF Short, Apart, Off

\* The minute that is n after a.
LEMMA MinuteAt ==
    ASSUME MiningAssumption, NEW a \in Minutes, NEW n \in Minutes
    PROVE  \E x \in Minutes : Off(x, a) = n
<1> DEFINE x == IF a + n < DayLen THEN a + n ELSE a + n - DayLen
<1>1. x \in Minutes /\ Off(x, a) = n
  BY DEF MiningAssumption, Minutes, Off
<1> HIDE DEF x
<1> QED
  BY <1>1

------------------------------------------------------------------------------
\* Runs and clusters.

LEMMA Greatest ==
    ASSUME MiningAssumption, NEW ns \in SUBSET Minutes, ns # {}
    PROVE  Max(ns) \in ns /\ \A n \in ns : n <= Max(ns)
<1>1. DayLen \in Nat /\ \A n \in ns : n \in Nat /\ n < DayLen
  BY DEF MiningAssumption, Minutes
<1> DEFINE backwards == {DayLen - n : n \in ns}
<1>2. backwards \in SUBSET Nat /\ backwards # {}
  BY <1>1
<1>3. PICK b \in backwards : \A m \in Nat : m < b => m \notin backwards
  <2> HIDE DEF backwards
  <2> QED
    BY <1>2, Least
<1>4. PICK k \in ns : b = DayLen - k
  OBVIOUS
<1>5. \A m \in ns : k >= m
  <2> SUFFICES ASSUME NEW m \in ns, ~(k >= m) PROVE FALSE
    OBVIOUS
  <2>1. DayLen - m \in backwards /\ DayLen - m \in Nat /\ DayLen - m < b
    BY <1>1, <1>4
  <2> QED
    BY <1>3, <2>1
<1> HIDE DEF backwards
<1>6. Max(ns) \in ns /\ \A m \in ns : Max(ns) >= m
  BY <1>5 DEF Max
<1> QED
  BY <1>1, <1>6

\* Every minute is in a run, and two runs are more than the gap apart.
LEMMA RunOf ==
    ASSUME MiningAssumption, NEW ms \in SUBSET Minutes, NEW gap \in Nat, NEW m \in ms
    PROVE  \E s \in Starts(ms, gap) : m \in RunFrom(s, ms, gap)
<1>1. \A n \in ms : n \in Nat
  BY DEF Minutes
<1>2. Min(ms) \in ms /\ \A n \in ms : Min(ms) <= n
  <2>1. ms \in SUBSET Nat /\ ms # {}
    BY <1>1
  <2> QED
    BY <2>1, MinIsLeast
<1>3. Min(ms) \in Starts(ms, gap)
  BY <1>1, <1>2 DEF Starts
<1> DEFINE before == {t \in Starts(ms, gap) : t <= m}
<1>4. before \in SUBSET Minutes /\ before # {}
  BY <1>2, <1>3 DEF Starts
<1>5. Max(before) \in before /\ \A t \in before : t <= Max(before)
  <2> HIDE DEF before
  <2> QED
    BY <1>4, Greatest
<1> QED
  BY <1>5 DEF RunFrom

LEMMA RunsApart ==
    ASSUME NEW ms \in SUBSET Minutes, NEW gap \in Nat, NEW s \in Starts(ms, gap),
           NEW t \in Starts(ms, gap), s < t,
           NEW x \in RunFrom(s, ms, gap), NEW y \in RunFrom(t, ms, gap)
    PROVE  t - x > gap /\ y - x > gap
<1>1. s \in Int /\ t \in Int /\ x \in Int /\ y \in Int /\ x \in ms /\ t <= y
  BY DEF Minutes, Starts, RunFrom
<1>2. ~(t <= x)
  BY <1>1 DEF RunFrom
<1>3. t - x > gap
  BY <1>1, <1>2 DEF Starts
<1> QED
  BY <1>1, <1>3

\* An arc of the day circle that leaves more than the gap to all other minutes
\* of ms on both sides.
Isolates(a, b, c, ms) ==
    /\ \A x \in c : Off(x, a) <= Off(b, a)
    /\ \A y \in ms \ c : Off(y, a) > Off(b, a) + ClusterGap
                         /\ Off(y, a) < DayLen - ClusterGap

Isolated(c, ms) == \E a, b \in c : Isolates(a, b, c, ms)

LEMMA RunIsolated ==
    ASSUME MiningAssumption, NEW ms \in SUBSET Minutes, NEW s \in Starts(ms, ClusterGap),
           \A t \in Starts(ms, ClusterGap) :
             \A x \in RunFrom(s, ms, ClusterGap), y \in RunFrom(t, ms, ClusterGap) :
               /\ t < s => y + DayLen - x > ClusterGap
               /\ s < t => x + DayLen - y > ClusterGap
    PROVE  /\ Isolated(RunFrom(s, ms, ClusterGap), ms)
           /\ s \in RunFrom(s, ms, ClusterGap) /\ RunFrom(s, ms, ClusterGap) \subseteq ms
<1> DEFINE c == RunFrom(s, ms, ClusterGap)
           b == Max(c)
<1>1. /\ DayLen \in Nat \ {0} /\ ClusterGap \in Nat
      /\ \A n \in ms : n \in Int /\ 0 <= n /\ n < DayLen
  BY DEF MiningAssumption, Minutes
<1>2. s \in c /\ c \subseteq ms /\ \A x \in c : s <= x
  BY <1>1 DEF Starts, RunFrom
<1>3. b \in c /\ \A x \in c : x <= b
  <2>1. c \in SUBSET Minutes /\ c # {}
    BY <1>2
  <2> HIDE DEF c
  <2> QED
    BY <2>1, Greatest
<1>4. \A x \in c : Off(x, s) <= Off(b, s)
  <2> HIDE DEF c, b
  <2> QED
    BY <1>1, <1>2, <1>3 DEF Off
<1>5. ASSUME NEW y \in ms, y \notin c
      PROVE  Off(y, s) > Off(b, s) + ClusterGap /\ Off(y, s) < DayLen - ClusterGap
  <2>1. PICK t \in Starts(ms, ClusterGap) : y \in RunFrom(t, ms, ClusterGap)
    BY <1>1, RunOf
  <2>2. t # s /\ t \in ms
    BY <1>5, <2>1 DEF Starts
  <2>3. CASE t < s
    <3>1. s - y > ClusterGap /\ y + DayLen - b > ClusterGap
      BY <1>1, <1>2, <1>3, <2>1, <2>3, RunsApart
    <3> HIDE DEF c, b
    <3> QED
      BY <1>1, <1>2, <1>3, <3>1 DEF Off
  <2>4. CASE s < t
    <3>1. y - b > ClusterGap /\ s + DayLen - y > ClusterGap
      BY <1>1, <1>2, <1>3, <2>1, <2>4, RunsApart
    <3> HIDE DEF c, b
    <3> QED
      BY <1>1, <1>2, <1>3, <3>1 DEF Off
  <2> QED
    BY <1>1, <1>2, <2>2, <2>3, <2>4
<1> HIDE DEF c, b
<1>6. Isolated(c, ms)
  BY <1>2, <1>3, <1>4, <1>5 DEF Isolated, Isolates
<1> QED
  BY <1>2, <1>6 DEF c

\* The clusters of cluster_minutes are isolated, midnight or not.
LEMMA ClustersIsolated ==
    ASSUME MiningAssumption, NEW ms \in SUBSET Minutes, ms # {}, NEW c \in Clusters(ms)
    PROVE  c \subseteq ms /\ c # {} /\ Isolated(c, ms)
<1> DEFINE Run(s) == RunFrom(s, ms, ClusterGap)
           starts == Starts(ms, ClusterGap)
           runs == {Run(s) : s \in starts}
           first == CHOOSE r \in runs : Min(ms) \in r
           last == CHOOSE r \in runs : Max(ms) \in r
           joined == first # last /\ Min(ms) + DayLen - Max(ms) <= ClusterGap
<1>1. Clusters(ms) = IF joined THEN (runs \ {first, last}) \cup {first \cup last} ELSE runs
  BY DEF Clusters
<1>2. /\ DayLen \in Nat \ {0} /\ ClusterGap \in Nat
      /\ \A n \in ms : n \in Int /\ 0 <= n /\ n < DayLen
      /\ starts \subseteq ms
  BY DEF MiningAssumption, Minutes, Starts
<1>3. /\ Min(ms) \in ms /\ \A n \in ms : Min(ms) <= n
      /\ Max(ms) \in ms /\ \A n \in ms : n <= Max(ms)
  <2>1. ms \in SUBSET Nat
    BY <1>2
  <2> QED
    BY <2>1, MinIsLeast, Greatest
<1>4. first \in runs /\ Min(ms) \in first
  <2>1. \E r \in runs : Min(ms) \in r
    BY <1>2, <1>3, RunOf
  <2> HIDE DEF runs
  <2> QED
    BY <2>1
<1>5. last \in runs /\ Max(ms) \in last
  <2>1. \E r \in runs : Max(ms) \in r
    BY <1>2, <1>3, RunOf
  <2> HIDE DEF runs
  <2> QED
    BY <2>1
<1>6. PICK f \in starts : first = Run(f)
  BY <1>4
<1>7. PICK l \in starts : last = Run(l)
  BY <1>5
<1> HIDE DEF first, last
<1>8. \A t \in starts : f <= t /\ t <= l
  <2>1. f <= Min(ms)
    BY <1>4, <1>6 DEF RunFrom
  <2>2. \A t \in starts : t <= Max(ms) => t <= l
    BY <1>5, <1>7 DEF RunFrom
  <2> QED
    BY <1>2, <1>3, <2>1, <2>2
<1>9. ASSUME NEW s \in starts, NEW t \in starts, s < t, NEW x \in Run(s), NEW y \in Run(t)
      PROVE  y - x > ClusterGap /\ t - x > ClusterGap
  BY <1>2, <1>9, RunsApart
<1>10. \A s \in starts : Run(s) \subseteq ms /\ s \in Run(s) /\ \A x \in Run(s) : s <= x
  BY <1>2 DEF RunFrom
<1> HIDE DEF Run, starts
<1>11. CASE ~joined
  <2>1. PICK s \in starts : c = Run(s)
    BY <1>1, <1>11
  <2>2. ASSUME f # l PROVE Min(ms) + DayLen - Max(ms) > ClusterGap
    <3>1. first # last
      <4>1. f < l
        BY <1>2, <1>8, <2>2
      <4>2. f \in Run(f) /\ l \in Run(l)
        BY <1>10
      <4>3. l \notin Run(f)
        <5> SUFFICES ASSUME l \in Run(f) PROVE FALSE
          OBVIOUS
        <5>1. l - l > ClusterGap
          BY <1>9, <4>1, <4>2
        <5> QED
          BY <1>2, <5>1
      <4> QED
        BY <1>6, <1>7, <4>2, <4>3
    <3> QED
      BY <1>2, <1>3, <1>11, <3>1
  <2>3. ASSUME NEW t \in starts, NEW x \in Run(s), NEW y \in Run(t)
        PROVE  /\ t < s => y + DayLen - x > ClusterGap
               /\ s < t => x + DayLen - y > ClusterGap
    <3>1. x \in ms /\ y \in ms /\ s \in ms /\ t \in ms /\ f \in ms /\ l \in ms
      BY <1>2, <1>10
    <3>2. t # s => f # l
      BY <1>2, <1>8, <3>1
    <3> QED
      BY <1>2, <1>3, <2>2, <3>1, <3>2
  <2> QED
    BY <1>2, <2>1, <2>3, RunIsolated DEF Run, starts
<1>12. ASSUME joined, NEW s \in starts, c = Run(s), c # first, c # last
       PROVE  c \subseteq ms /\ c # {} /\ Isolated(c, ms)
  <2>1. f < s /\ s < l
    BY <1>2, <1>6, <1>7, <1>8, <1>12
  <2>2. ASSUME NEW t \in starts, NEW x \in Run(s), NEW y \in Run(t)
        PROVE  /\ t < s => y + DayLen - x > ClusterGap
               /\ s < t => x + DayLen - y > ClusterGap
    <3>1. x \in ms /\ y \in ms /\ f \in ms /\ l \in ms
      BY <1>2, <1>10
    <3>2. l - x > ClusterGap /\ x - f > ClusterGap
      BY <1>9, <1>10, <2>1
    <3> QED
      BY <1>2, <3>1, <3>2
  <2> QED
    BY <1>2, <1>12, <2>2, RunIsolated DEF Run, starts
<1>13. ASSUME joined, c = first \cup last
       PROVE  c \subseteq ms /\ c # {} /\ Isolated(c, ms)
  <2> DEFINE b == Max(Run(f))
  <2>1. f < l
    BY <1>2, <1>6, <1>7, <1>8, <1>13
  <2>2. b \in Run(f) /\ \A x \in Run(f) : x <= b
    <3>1. Run(f) \in SUBSET Minutes /\ Run(f) # {}
      BY <1>10
    <3> QED
      BY <3>1, Greatest
  <2> HIDE DEF b
  <2>3. b \in c /\ l \in c /\ c \subseteq ms /\ b \in ms /\ l \in ms
    BY <1>6, <1>7, <1>10, <1>13, <2>2
  <2>4. l - b > ClusterGap
    BY <1>9, <1>10, <2>1, <2>2
  <2>5. ASSUME NEW x \in c PROVE Off(x, l) <= Off(b, l)
    <3>1. x \in ms /\ (x <= b \/ l <= x)
      BY <1>6, <1>7, <1>10, <1>13, <2>2
    <3> QED
      BY <1>2, <2>3, <2>4, <3>1 DEF Off
  <2>6. ASSUME NEW y \in ms, y \notin c
        PROVE  Off(y, l) > Off(b, l) + ClusterGap /\ Off(y, l) < DayLen - ClusterGap
    <3>1. PICK t \in starts : y \in Run(t)
      BY <1>2, RunOf DEF Run, starts
    <3>2. f < t /\ t < l
      <4>1. t # f /\ t # l
        BY <1>6, <1>7, <1>13, <2>6, <3>1
      <4>2. t \in Int /\ f \in Int /\ l \in Int
        BY <1>2
      <4> QED
        BY <1>8, <4>1, <4>2
    <3>3. y - b > ClusterGap /\ l - y > ClusterGap
      BY <1>9, <1>10, <2>2, <3>1, <3>2
    <3> QED
      BY <1>2, <2>3, <2>4, <3>3 DEF Off
  <2> QED
    BY <2>3, <2>5, <2>6 DEF Isolated, Isolates
<1> QED
  BY <1>1, <1>11, <1>12, <1>13

LEMMA ClustersDisjoint ==
    ASSUME MiningAssumption, NEW ms \in SUBSET Minutes, ms # {},
           NEW c \in Clusters(ms), NEW d \in Clusters(ms), c # d
    PROVE  c \cap d = {}
<1> DEFINE Run(s) == RunFrom(s, ms, ClusterGap)
           starts == Starts(ms, ClusterGap)
           runs == {Run(s) : s \in starts}
           first == CHOOSE r \in runs : Min(ms) \in r
           last == CHOOSE r \in runs : Max(ms) \in r
           joined == first # last /\ Min(ms) + DayLen - Max(ms) <= ClusterGap
<1>1. Clusters(ms) = IF joined THEN (runs \ {first, last}) \cup {first \cup last} ELSE runs
  BY DEF Clusters
<1>2. /\ ClusterGap \in Nat /\ \A n \in ms : n \in Int /\ n \in Minutes
      /\ starts \subseteq ms /\ \A s \in starts : Run(s) \subseteq ms
  BY DEF MiningAssumption, Minutes, Starts, RunFrom
<1>3. first \in runs /\ last \in runs
  <2>1. Min(ms) \in ms /\ Max(ms) \in ms
    <3>1. ms \in SUBSET Nat
      BY DEF Minutes
    <3> QED
      BY <3>1, MinIsLeast, Greatest
  <2>2. \E r \in runs : Min(ms) \in r
    BY <1>2, <2>1, RunOf
  <2>3. \E r \in runs : Max(ms) \in r
    BY <1>2, <2>1, RunOf
  <2> HIDE DEF runs
  <2> QED
    BY <2>2, <2>3
<1>4. ASSUME NEW r \in runs, NEW q \in runs, r # q PROVE r \cap q = {}
  <2>1. PICK s \in starts, t \in starts : r = Run(s) /\ q = Run(t)
    OBVIOUS
  <2>2. s # t /\ s \in Int /\ t \in Int
    BY <1>2, <1>4, <2>1
  <2>3. ASSUME NEW x \in Run(s), NEW y \in Run(t) PROVE x # y
    <3>1. x \in Int /\ y \in Int
      BY <1>2
    <3>2. CASE s < t
      BY <1>2, <3>1, <3>2, RunsApart
    <3>3. CASE t < s
      BY <1>2, <3>1, <3>3, RunsApart
    <3> QED
      BY <2>2, <3>2, <3>3
  <2> HIDE DEF Run
  <2> QED
    BY <2>1, <2>3
<1> HIDE DEF runs, first, last, joined
<1>5. CASE ~joined
  BY <1>1, <1>4, <1>5
<1>6. CASE joined
  <2>1. ASSUME NEW r \in runs \ {first, last}
        PROVE  r \cap (first \cup last) = {} /\ (first \cup last) \cap r = {}
    <3>1. r \cap first = {} /\ r \cap last = {}
      BY <1>3, <1>4
    <3> QED
      BY <3>1
  <2>2. \/ c \in runs \ {first, last} /\ d \in runs \ {first, last}
        \/ c \in runs \ {first, last} /\ d = first \cup last
        \/ c = first \cup last /\ d \in runs \ {first, last}
    <3> DEFINE others == runs \ {first, last}
               both == first \cup last
    <3>1. Clusters(ms) = others \cup {both}
      BY <1>1, <1>6
    <3> HIDE DEF others, both
    <3>2. (c \in others \/ c = both) /\ (d \in others \/ d = both)
      BY <3>1
    <3> QED
      BY <3>2 DEF others, both
  <2>3. CASE c \in runs \ {first, last} /\ d \in runs \ {first, last}
    BY <1>4, <2>3
  <2>4. CASE c \in runs \ {first, last} /\ d = first \cup last
    BY <2>1, <2>4
  <2>5. CASE c = first \cup last /\ d \in runs \ {first, last}
    BY <2>1, <2>5
  <2> QED
    BY <2>2, <2>3, <2>4, <2>5
<1> QED
  BY <1>5, <1>6

\* Times of two clusters are more than the gap apart, on either side of midnight.
LEMMA ClustersApart ==
    ASSUME MiningAssumption, NEW ms \in SUBSET Minutes, ms # {},
           NEW c \in Clusters(ms), NEW x \in c, NEW y \in ms \ c
    PROVE  Distance(x, y) > ClusterGap
<1>1. PICK a \in c, b \in c : Isolates(a, b, c, ms)
  BY ClustersIsolated DEF Isolated
<1>2. a \in Minutes /\ b \in Minutes /\ x \in Minutes /\ y \in Minutes
  BY ClustersIsolated
<1>3. /\ Off(x, a) <= Off(b, a) /\ Off(y, a) > Off(b, a) + ClusterGap
      /\ Off(y, a) < DayLen - ClusterGap
  BY <1>1 DEF Isolates
<1>4. Off(x, a) \in Minutes /\ Off(y, a) \in Minutes /\ Off(b, a) \in Minutes
  BY <1>2, OffIs
<1>5. Distance(x, y) = Short(Apart(Off(x, a), Off(y, a)))
  BY <1>2, DistanceByOff
<1> QED
  BY <1>3, <1>4, <1>5 DEF Short, Apart, Minutes, MiningAssumption

\* A part of the minutes that no gap cuts off from the rest.
Inseparable(c) ==
    \A d \in SUBSET c : d # {} /\ d # c =>
        \E x \in d, y \in c \ d : Distance(x, y) <= ClusterGap

LEMMA SymmetricDistance ==
    ASSUME MiningAssumption, NEW x \in Minutes, NEW y \in Minutes
    PROVE  /\ Distance(x, y) = Distance(y, x)
           /\ x <= y => Distance(x, y) <= y - x /\ Distance(x, y) <= x + DayLen - y
<1>1. Distance(x, y) = Short(Apart(x, y)) /\ Distance(y, x) = Short(Apart(y, x))
  BY DistanceIs
<1> QED
  BY <1>1 DEF Short, Apart, Minutes, MiningAssumption

\* In a run, the gap before each time but the first is no gap.
LEMMA RunInseparable ==
    ASSUME MiningAssumption, NEW ms \in SUBSET Minutes, NEW s \in Starts(ms, ClusterGap)
    PROVE  Inseparable(RunFrom(s, ms, ClusterGap))
<1> DEFINE c == RunFrom(s, ms, ClusterGap)
<1>1. /\ c \subseteq ms /\ s \in c /\ \A m \in ms : m \in Nat /\ m \in Minutes
      /\ ClusterGap \in Nat
  BY DEF MiningAssumption, Starts, RunFrom, Minutes
<1>2. ASSUME NEW y \in c, y # s PROVE \E k \in c : k < y /\ y - k <= ClusterGap
  <2>1. y \in ms /\ s <= y /\ \A t \in Starts(ms, ClusterGap) : t <= y => t <= s
    BY DEF RunFrom
  <2>2. y \notin Starts(ms, ClusterGap)
    BY <1>1, <1>2, <2>1
  <2>3. PICK k \in ms : k < y /\ ~(y - k > ClusterGap)
    BY <2>1, <2>2 DEF Starts
  <2>4. s <= k
    BY <1>1, <2>1, <2>3 DEF Starts
  <2>5. \A t \in Starts(ms, ClusterGap) : t \in ms
    BY DEF Starts
  <2>6. \A t \in Starts(ms, ClusterGap) : t <= k => t <= s
    BY <1>1, <2>1, <2>3, <2>5
  <2>7. k \in c
    BY <2>4, <2>6 DEF RunFrom
  <2> QED
    BY <1>1, <2>1, <2>3, <2>7
<1> HIDE DEF c
<1>3. ASSUME NEW o \in SUBSET c, o # {}, s \notin o
      PROVE  \E x \in c \ o, y \in o : Distance(x, y) <= ClusterGap
  <2>1. Min(o) \in o /\ \A n \in o : Min(o) <= n
    <3>1. o \in SUBSET Nat
      BY <1>1
    <3> QED
      BY <1>3, <3>1, MinIsLeast
  <2>2. PICK k \in c : k < Min(o) /\ Min(o) - k <= ClusterGap
    BY <1>2, <1>3, <2>1
  <2>3. k \notin o
    BY <1>1, <2>1, <2>2
  <2>4. Distance(k, Min(o)) <= Min(o) - k
    BY <1>1, <2>1, <2>2, SymmetricDistance
  <2>5. Distance(k, Min(o)) <= ClusterGap
    <3>1. Distance(k, Min(o)) \in Nat
      BY <1>1, <2>1, DiffIsInt
    <3> QED
      BY <1>1, <2>1, <2>2, <2>4, <3>1
  <2> QED
    BY <2>1, <2>3, <2>5
<1>4. ASSUME NEW d \in SUBSET c, d # {}, d # c
      PROVE  \E x \in d, y \in c \ d : Distance(x, y) <= ClusterGap
  <2>1. CASE s \notin d
    <3>1. PICK x \in c \ d, y \in d : Distance(x, y) <= ClusterGap
      BY <1>3, <1>4, <2>1
    <3>2. Distance(x, y) = Distance(y, x)
      BY <1>1, SymmetricDistance
    <3> QED
      BY <3>1, <3>2
  <2>2. CASE s \in d
    <3> DEFINE o == c \ d
    <3>1. o \in SUBSET c /\ o # {} /\ s \notin o /\ d = c \ o
      BY <1>4, <2>2
    <3> HIDE DEF o
    <3>2. PICK x \in c \ o, y \in o : Distance(x, y) <= ClusterGap
      BY <1>3, <3>1
    <3> QED
      BY <3>1, <3>2 DEF o
  <2> QED
    BY <2>1, <2>2
<1>5. Inseparable(c)
  BY <1>4 DEF Inseparable
<1> QED
  BY <1>5 DEF c

\* Two inseparable parts with times no gap apart are inseparable together.
LEMMA JoinInseparable ==
    ASSUME MiningAssumption, NEW p \in SUBSET Minutes, NEW q \in SUBSET Minutes,
           Inseparable(p), Inseparable(q),
           NEW u \in p, NEW v \in q, Distance(u, v) <= ClusterGap
    PROVE  Inseparable(p \cup q)
<1> SUFFICES ASSUME NEW d \in SUBSET (p \cup q), d # {}, d # p \cup q
             PROVE  \E x \in d, y \in (p \cup q) \ d : Distance(x, y) <= ClusterGap
  BY DEF Inseparable
<1>1. ASSUME NEW r \in SUBSET (p \cup q), Inseparable(r), NEW i \in r, i \in d,
             NEW o \in r, o \notin d
      PROVE  \E x \in d, y \in (p \cup q) \ d : Distance(x, y) <= ClusterGap
  <2> DEFINE e == d \cap r
  <2>1. e \in SUBSET r /\ e # {} /\ e # r
    BY <1>1
  <2> HIDE DEF e
  <2>2. PICK x \in e, y \in r \ e : Distance(x, y) <= ClusterGap
    BY <1>1, <2>1 DEF Inseparable
  <2> QED
    BY <2>2 DEF e
<1>2. Distance(v, u) <= ClusterGap
  <2>1. Distance(u, v) = Distance(v, u)
    BY SymmetricDistance
  <2> QED
    BY <2>1
<1>3. CASE \E i \in p, o \in p : i \in d /\ o \notin d
  BY <1>1, <1>3
<1>4. CASE \E i \in q, o \in q : i \in d /\ o \notin d
  BY <1>1, <1>4
<1>5. CASE p \subseteq d /\ q \cap d = {}
  BY <1>5
<1>6. CASE q \subseteq d /\ p \cap d = {}
  BY <1>2, <1>6
<1> QED
  BY <1>3, <1>4, <1>5, <1>6

\* What cluster_minutes is for: its clusters are the components of the times under
\* "no gap between them" on the day circle, wherever midnight cuts them.
THEOREM ClustersAreComponents ==
    ASSUME NEW ms \in SUBSET Minutes, ms # {}
    PROVE  /\ UNION Clusters(ms) = ms
           /\ \A c, d \in Clusters(ms) : c # d => c \cap d = {}
           /\ \A c \in Clusters(ms) :
                /\ c # {} /\ Inseparable(c)
                /\ \A x \in c, y \in ms \ c : Distance(x, y) > ClusterGap
<1> USE MiningAssumption
<1>1. \A c, d \in Clusters(ms) : c # d => c \cap d = {}
  BY ClustersDisjoint
<1>2. \A c \in Clusters(ms) : /\ c # {} /\ c \subseteq ms
                              /\ \A x \in c, y \in ms \ c : Distance(x, y) > ClusterGap
  BY ClustersIsolated, ClustersApart
<1> DEFINE Run(s) == RunFrom(s, ms, ClusterGap)
           starts == Starts(ms, ClusterGap)
           runs == {Run(s) : s \in starts}
           first == CHOOSE r \in runs : Min(ms) \in r
           last == CHOOSE r \in runs : Max(ms) \in r
           joined == first # last /\ Min(ms) + DayLen - Max(ms) <= ClusterGap
           split == runs \ {first, last}
<1>3. /\ joined => Clusters(ms) = split \cup {first \cup last}
      /\ ~joined => Clusters(ms) = runs
  BY DEF Clusters
<1>4. ClusterGap \in Nat /\ \A m \in ms : m \in Nat /\ m \in Minutes
  BY DEF MiningAssumption, Minutes
<1>5. /\ Min(ms) \in ms /\ Max(ms) \in ms /\ Min(ms) <= Max(ms)
  <2>1. ms \in SUBSET Nat
    BY <1>4
  <2> QED
    BY <2>1, MinIsLeast, Greatest
<1>6. \A m \in ms : \E r \in runs : m \in r
  BY <1>4, RunOf
<1>7. \A r \in runs : r \subseteq ms /\ Inseparable(r)
  BY RunInseparable DEF RunFrom
<1> HIDE DEF runs
<1>8. first \in runs /\ Min(ms) \in first /\ last \in runs /\ Max(ms) \in last
  BY <1>5, <1>6
<1> HIDE DEF first, last
<1>9. UNION Clusters(ms) = ms
  <2>1. \A m \in ms : \E c \in Clusters(ms) : m \in c
    <3>1. CASE ~joined
      BY <1>3, <1>6, <3>1
    <3>2. CASE joined
      <4> SUFFICES ASSUME NEW m \in ms PROVE \E c \in Clusters(ms) : m \in c
        OBVIOUS
      <4>1. PICK r \in runs : m \in r
        BY <1>6
      <4>2. CASE r \in split
        BY <1>3, <3>2, <4>1, <4>2
      <4>3. CASE r \notin split
        <5>1. m \in first \cup last
          BY <4>1, <4>3
        <5>2. first \cup last \in Clusters(ms)
          BY <1>3, <3>2
        <5> QED
          BY <5>1, <5>2
      <4> QED
        BY <4>2, <4>3
    <3> QED
      BY <3>1, <3>2
  <2> QED
    BY <1>2, <2>1
<1>10. ASSUME NEW c \in Clusters(ms) PROVE Inseparable(c)
  <2>1. CASE c \in runs
    BY <1>7, <2>1
  <2>2. CASE joined /\ c = first \cup last
    <3>1. Distance(Min(ms), Max(ms)) <= Min(ms) + DayLen - Max(ms)
      BY <1>4, <1>5, SymmetricDistance
    <3>2. Distance(Min(ms), Max(ms)) \in Nat /\ DayLen \in Nat
      BY <1>4, <1>5, DiffIsInt DEF MiningAssumption
    <3>3. Distance(Min(ms), Max(ms)) <= ClusterGap
      BY <1>4, <1>5, <2>2, <3>1, <3>2
    <3>4. first \in SUBSET Minutes /\ last \in SUBSET Minutes
      BY <1>4, <1>7, <1>8
    <3> QED
      BY <1>7, <1>8, <2>2, <3>3, <3>4, JoinInseparable
  <2>3. c \in runs \/ (joined /\ c = first \cup last)
    <3> HIDE DEF joined
    <3>1. CASE joined
      BY <1>3, <3>1
    <3>2. CASE ~joined
      BY <1>3, <3>2
    <3> QED
      BY <3>1, <3>2
  <2> QED
    BY <2>1, <2>2, <2>3
<1> QED
  BY <1>1, <1>2, <1>9, <1>10

------------------------------------------------------------------------------
\* Means of narrow clusters.

\* No minute is at least as near to every event as the mean is, and nearer to one.
LEMMA NoneNearer ==
    ASSUME MiningAssumption, NEW evs, Timed(evs), NEW m \in Minutes,
           \A e \in evs : Distance(e.at, m) <= Distance(e.at, CircularMean(evs)),
           NEW f \in evs, Distance(f.at, m) < Distance(f.at, CircularMean(evs))
    PROVE  FALSE
<1> DEFINE mean == CircularMean(evs)
<1>1. mean \in Minutes /\ SquaresFrom(mean, evs) <= SquaresFrom(m, evs)
  BY MeanIsNearest
<1> HIDE DEF mean
<1>2. \A p, q \in Nat : (p <= q => p * p <= q * q) /\ (p < q => p * p < q * q)
  <2> TAKE p, q \in Nat
  <2>1. ASSUME p <= q PROVE p * p <= p * q /\ p * q <= q * q
    BY <2>1
  <2>2. ASSUME p < q PROVE p * p <= p * q /\ p * q < q * q
    BY <2>2
  <2>3. p * p \in Nat /\ p * q \in Nat /\ q * q \in Nat
    OBVIOUS
  <2> QED
    BY <2>1, <2>2, <2>3
<1>3. ASSUME NEW e \in evs
      PROVE  /\ Square(e, m) = Distance(e.at, m) * Distance(e.at, m)
             /\ Square(e, mean) = Distance(e.at, mean) * Distance(e.at, mean)
             /\ Distance(e.at, m) \in Nat /\ Distance(e.at, mean) \in Nat
  BY <1>1, DiffIsInt DEF Timed, Square
<1>4. \A e \in evs : Square(e, m) <= Square(e, mean)
  BY <1>2, <1>3 DEF mean
<1>5. Square(f, m) < Square(f, mean)
  BY <1>2, <1>3 DEF mean
<1>6. /\ SquaresFrom(m, evs) \in Nat /\ SquaresFrom(mean, evs) \in Nat
      /\ SquaresFrom(m, evs) < SquaresFrom(mean, evs)
  BY <1>1, <1>4, <1>5, SquaresGrow
<1> QED
  BY <1>1, <1>6

\* The mean of events on an arc of less than half a day is on the arc.
LEMMA MeanInside ==
    ASSUME MiningAssumption, NEW evs, Timed(evs), NEW g \in evs, NEW f \in evs,
           \A e \in evs : Off(e.at, g.at) <= Off(f.at, g.at),
           2 * Off(f.at, g.at) < DayLen
    PROVE  Off(CircularMean(evs), g.at) <= Off(f.at, g.at)
<1> DEFINE mean == CircularMean(evs)
           a == g.at
           o == Off(mean, a)
           w == Off(f.at, a)
<1>1. mean \in Minutes /\ a \in Minutes /\ f.at \in Minutes /\ \A e \in evs : e.at \in Minutes
  BY MeanIsNearest DEF Timed
<1>2. o \in Minutes /\ w \in Minutes
  BY <1>1, OffIs
<1>3. \A e \in evs : Off(e.at, a) \in Minutes /\ Off(e.at, a) <= w
  BY <1>1, OffIs
<1>4. Off(a, a) = 0
  BY <1>1, OffIs
<1> DEFINE At(e, p) == Short(Apart(Off(e.at, a), p))
<1>5. ASSUME NEW p \in Minutes, \A e \in evs : At(e, p) <= At(e, o),
             NEW e \in evs, At(e, p) < At(e, o)
      PROVE  FALSE
  <2>1. PICK m \in Minutes : Off(m, a) = p
    BY <1>1, MinuteAt
  <2>2. \A d \in evs : Distance(d.at, m) = At(d, p) /\ Distance(d.at, mean) = At(d, o)
    BY <1>1, <2>1, DistanceByOff
  <2> HIDE DEF At
  <2> QED
    BY <1>5, <2>2, NoneNearer
<1> HIDE DEF mean, a, o, w
<1>6. 2 * w < DayLen
  BY DEF a, w
<1>7. DayLen \in Nat \ {0} /\ \A m \in Minutes : m \in Nat /\ m < DayLen
  BY DEF MiningAssumption, Minutes
<1> SUFFICES ASSUME o > w PROVE FALSE
  BY <1>2, <1>7 DEF o, w, mean, a
<1>8. CASE 2 * o <= DayLen
  <2>1. \A e \in evs : At(e, w) <= At(e, o)
    BY <1>2, <1>3, <1>6, <1>7, <1>8 DEF Short, Apart
  <2>2. At(f, w) < At(f, o)
    BY <1>2, <1>3, <1>6, <1>7, <1>8 DEF Short, Apart, w
  <2> QED
    BY <1>2, <1>5, <2>1, <2>2
<1>9. CASE 2 * (o - w) >= DayLen
  <2>1. \A e \in evs : At(e, 0) <= At(e, o)
    BY <1>2, <1>3, <1>6, <1>7, <1>9 DEF Short, Apart
  <2>2. At(g, 0) < At(g, o)
    BY <1>2, <1>3, <1>4, <1>6, <1>7, <1>9 DEF Short, Apart, a
  <2>3. 0 \in Minutes
    BY <1>7 DEF Minutes
  <2> QED
    BY <1>5, <2>1, <2>2, <2>3
<1>10. CASE 2 * o > DayLen /\ 2 * (o - w) < DayLen
  <2> DEFINE p == DayLen - o
  <2>1. p \in Minutes /\ p < o /\ 0 < p /\ p + o = DayLen
    BY <1>2, <1>7, <1>10 DEF Minutes
  <2> HIDE DEF p
  <2>2. \A e \in evs : At(e, p) <= At(e, o)
    BY <1>2, <1>3, <1>6, <1>7, <1>10, <2>1 DEF Short, Apart
  <2>3. At(f, p) < At(f, o)
    BY <1>2, <1>3, <1>6, <1>7, <1>10, <2>1 DEF Short, Apart, w
  <2> QED
    BY <1>5, <2>1, <2>2, <2>3
<1> QED
  BY <1>2, <1>7, <1>8, <1>9, <1>10

------------------------------------------------------------------------------
\* Candidates.

\* The window's part of the type invariant.
WindowTyped ==
    /\ WindowFinite
    /\ \A e \in window : e.ent \in Entities /\ e.at \in Minutes /\ e.user \in BOOLEAN

Times(ent) == {e.at : e \in Of(ent)}
InCluster(ent, c) == {e \in Of(ent) : e.at \in c}

\* cd is what mine_time_of_day makes of the cluster c of ent.
Makes(ent, c, cd) ==
    /\ Times(ent) \in SUBSET Minutes /\ Times(ent) # {}
    /\ c \in Clusters(Times(ent)) /\ c \subseteq Times(ent) /\ c # {}
    /\ Timed(InCluster(ent, c)) /\ {e.at : e \in InCluster(ent, c)} = c
    /\ IsFiniteSet(InCluster(ent, c)) /\ InCluster(ent, c) \subseteq window
    /\ cd = Candidate(ent, InCluster(ent, c))

LEMMA CandidateOfCluster ==
    ASSUME MiningAssumption, WindowTyped, NEW cd \in TodCandidates
    PROVE  \E ent \in Entities : \E c : Makes(ent, c, cd) /\ \E e \in window : e.ent = ent
<1>1. PICK ent \in {e.ent : e \in window} :
        \E c \in Clusters(Times(ent)) : cd = Candidate(ent, InCluster(ent, c))
  <2> DEFINE Found(ent) == {Candidate(ent, InCluster(ent, c)) : c \in Clusters(Times(ent))}
  <2>1. cd \in UNION {Found(ent) : ent \in {e.ent : e \in window}}
    BY DEF TodCandidates, Times, InCluster
  <2> HIDE DEF Found
  <2>2. PICK ent \in {e.ent : e \in window} : cd \in Found(ent)
    BY <2>1
  <2> QED
    BY <2>2 DEF Found
<1>a. PICK c \in Clusters(Times(ent)) : cd = Candidate(ent, InCluster(ent, c))
  BY <1>1
<1>2. ent \in Entities /\ (\E e \in window : e.ent = ent)
      /\ Times(ent) \in SUBSET Minutes /\ Times(ent) # {}
  BY DEF WindowTyped, Times, Of
<1>3. c \subseteq Times(ent) /\ c # {}
  BY <1>2, ClustersIsolated
<1>4. InCluster(ent, c) \subseteq window /\ \A e \in InCluster(ent, c) : e.at \in Minutes
  BY DEF InCluster, Of, WindowTyped
<1>5. IsFiniteSet(InCluster(ent, c))
  BY <1>4, FS_Subset DEF WindowTyped, WindowFinite
<1>6. {e.at : e \in InCluster(ent, c)} = c
  BY <1>3 DEF InCluster, Times
<1> QED
  BY <1>a, <1>2, <1>3, <1>4, <1>5, <1>6 DEF Makes, Timed

LEMMA CandidateTyped ==
    ASSUME MiningAssumption, WindowTyped, NEW ent \in Entities, NEW c, NEW cd, Makes(ent, c, cd)
    PROVE  /\ cd.ent = ent /\ cd.tod = CircularMean(InCluster(ent, c)) /\ cd.tod \in Minutes
           /\ cd.occurrences \in Nat /\ cd.occurrences <= Cardinality(window)
           /\ cd.sched \in BOOLEAN /\ cd.fit \in BOOLEAN
           /\ cd.rank \in Nat \cup {-1}
           /\ cd.rank # -1 => cd.rank \in c
           /\ cd.rank = -1 => \E x, y \in c : x - y >= DayLen - ClusterGap
<1> DEFINE evs == InCluster(ent, c)
<1>1. /\ Timed(evs) /\ IsFiniteSet(evs) /\ evs \subseteq window /\ {e.at : e \in evs} = c
      /\ c # {} /\ c \subseteq Minutes /\ cd = Candidate(ent, evs)
  BY DEF Makes
<1>2. CircularMean(evs) \in Minutes
  BY <1>1, MeanIsNearest
<1>3. /\ cd.ent = ent /\ cd.tod = CircularMean(evs) /\ cd.occurrences = Cardinality(evs)
      /\ cd.rank = IF \E e, f \in evs : e.at - f.at >= DayLen - ClusterGap
                   THEN -1 ELSE Min({e.at : e \in evs})
  BY <1>1 DEF Candidate
<1>4. cd.sched \in BOOLEAN /\ cd.fit \in BOOLEAN
  BY <1>1 DEF Candidate
<1>5. Cardinality(evs) \in Nat /\ Cardinality(evs) <= Cardinality(window)
  BY <1>1, FS_Subset, FS_CardinalityType DEF WindowTyped, WindowFinite
<1>6. Min(c) \in c /\ c \subseteq Nat
  <2>1. c \in SUBSET Nat
    BY <1>1 DEF Minutes
  <2> QED
    BY <1>1, <2>1, MinIsLeast
<1>7. CASE \E e, f \in evs : e.at - f.at >= DayLen - ClusterGap
  <2>1. cd.rank = -1
    BY <1>3, <1>7
  <2>2. \E x, y \in c : x - y >= DayLen - ClusterGap
    BY <1>1, <1>7
  <2> HIDE DEF evs
  <2> QED
    BY <1>2, <1>3, <1>4, <1>5, <2>1, <2>2 DEF evs
<1>8. CASE ~ \E e, f \in evs : e.at - f.at >= DayLen - ClusterGap
  <2>1. cd.rank = Min(c)
    BY <1>1, <1>3, <1>8
  <2> HIDE DEF evs
  <2>2. cd.rank \in Nat /\ cd.rank \in c
    BY <1>6, <2>1
  <2> QED
    BY <1>2, <1>3, <1>4, <1>5, <2>2 DEF evs
<1> QED
  BY <1>7, <1>8

\* An entity's candidates are never in one place of the list.
LEMMA RanksDiffer ==
    ASSUME MiningAssumption, WindowTyped, NEW cd \in TodCandidates, NEW ce \in TodCandidates,
           cd.ent = ce.ent, cd # ce
    PROVE  cd.rank # ce.rank
<1>1. PICK ent \in Entities : \E c : Makes(ent, c, cd)
  BY CandidateOfCluster
<1>2. PICK other \in Entities : \E d : Makes(other, d, ce)
  BY CandidateOfCluster
<1>3. PICK c : Makes(ent, c, cd)
  BY <1>1
<1>4. PICK d : Makes(other, d, ce)
  BY <1>2
<1>5. other = ent
  BY <1>3, <1>4, CandidateTyped
<1> DEFINE ms == Times(ent)
<1>6. /\ ms \in SUBSET Minutes /\ ms # {} /\ c \in Clusters(ms) /\ d \in Clusters(ms)
      /\ c \subseteq ms /\ d \subseteq ms /\ c # d
  BY <1>3, <1>4, <1>5 DEF Makes
<1>7. c \cap d = {}
  BY <1>6, ClustersDisjoint
<1>8. /\ cd.rank # -1 => cd.rank \in c
      /\ cd.rank = -1 => \E x, y \in c : x - y >= DayLen - ClusterGap
      /\ ce.rank # -1 => ce.rank \in d
      /\ ce.rank = -1 => \E x, y \in d : x - y >= DayLen - ClusterGap
  BY <1>3, <1>4, CandidateTyped
<1> HIDE DEF ms
<1>9. ASSUME cd.rank = -1, ce.rank = -1 PROVE FALSE
  <2>1. PICK x \in c, y \in c : x - y >= DayLen - ClusterGap
    BY <1>8, <1>9
  <2>2. PICK v \in d, w \in d : v - w >= DayLen - ClusterGap
    BY <1>8, <1>9
  <2>3. x \in ms \ d /\ y \in ms \ d /\ v \in ms \ c /\ w \in ms \ c
    BY <1>6, <1>7
  <2>4. Distance(v, y) > ClusterGap /\ Distance(x, w) > ClusterGap
    BY <1>6, <2>3, ClustersApart
  <2>5. x \in Minutes /\ y \in Minutes /\ v \in Minutes /\ w \in Minutes
    BY <1>6
  <2>6. Short(Apart(v, y)) > ClusterGap /\ Short(Apart(x, w)) > ClusterGap
    BY <2>4, <2>5, DistanceIs
  <2> QED
    BY <2>1, <2>2, <2>5, <2>6 DEF Short, Apart, Minutes, MiningAssumption
<1> QED
  BY <1>7, <1>8, <1>9

------------------------------------------------------------------------------
\* Which row a candidate becomes.

\* The type invariant's part about the rows.
RowsTyped ==
    /\ DOMAIN habits \subseteq Entities \X Buckets
    /\ \A k \in DOMAIN habits : habits[k].tod \in Minutes

LEMMA BucketOf ==
    ASSUME MiningAssumption, NEW m \in Minutes
    PROVE  m \div Bucket \in Buckets
<1>1. /\ DayLen \in Nat \ {0} /\ Bucket \in Nat \ {0} /\ m \in Nat /\ m <= DayLen - 1
      /\ DayLen - 1 \in Nat
  BY DEF MiningAssumption, Minutes
<1> DEFINE q == m \div Bucket
           p == (DayLen - 1) \div Bucket
<1>2. /\ q \in Nat /\ p \in Nat /\ m = Bucket * q + (m % Bucket) /\ m % Bucket \in 0..(Bucket - 1)
      /\ DayLen - 1 = Bucket * p + ((DayLen - 1) % Bucket)
      /\ (DayLen - 1) % Bucket \in 0..(Bucket - 1)
  BY <1>1
<1> HIDE DEF q, p
<1>3. q <= p
  <2> SUFFICES ASSUME q >= p + 1 PROVE FALSE
    BY <1>2
  <2>1. Bucket * q >= Bucket * (p + 1)
    BY <1>1, <1>2
  <2>2. Bucket * (p + 1) = Bucket * p + Bucket
    BY <1>1, <1>2
  <2> QED
    BY <1>1, <1>2, <2>1, <2>2
<1> QED
  BY <1>2, <1>3 DEF Buckets, q, p

\* An adopted row is of the candidate's entity and within the tolerance of it.
LEMMA AdoptedIsNear ==
    ASSUME NEW cs, NEW row \in Adoptions(cs), NEW c \in DOMAIN row
    PROVE  /\ c \in cs /\ row[c] \in Nearest(c) /\ row[c] \in DOMAIN habits
           /\ row[c][1] = c.ent /\ Distance(c.tod, habits[row[c]].tod) <= Tolerance
           /\ \A j \in DOMAIN habits :
                j[1] = c.ent /\ Distance(c.tod, habits[j].tod) <= Tolerance =>
                  Distance(c.tod, habits[row[c]].tod) <= Distance(c.tod, habits[j].tod)
<1>1. c \in cs /\ row[c] \in Nearest(c)
  BY DEF Adoptions
<1> QED
  BY <1>1 DEF Nearest

LEMMA KeyIsKey ==
    ASSUME MiningAssumption, WindowTyped, RowsTyped,
           NEW row \in Adoptions(TodCandidates), NEW c \in TodCandidates
    PROVE  Key(c, row) \in Entities \X Buckets /\ Key(c, row)[1] = c.ent
<1>1. c.ent \in Entities /\ c.tod \in Minutes
  BY CandidateOfCluster, CandidateTyped
<1>2. OwnKey(c) \in Entities \X Buckets /\ OwnKey(c)[1] = c.ent
  BY <1>1, BucketOf DEF OwnKey
<1>3. CASE Key(c, row) = OwnKey(c)
  BY <1>2, <1>3
<1>4. CASE c \in DOMAIN row /\ Key(c, row) = row[c]
  BY <1>4, AdoptedIsNear DEF RowsTyped
<1> QED
  BY <1>3, <1>4 DEF Key

\* The distance by which reconcile_keys sorts.
Score(x, row) ==
    IF x \in DOMAIN row THEN Distance(x.tod, habits[row[x]].tod) ELSE DayLen

LEMMA BeforeIs ==
    ASSUME NEW c, NEW d, NEW row
    PROVE  Before(c, d, row) <=> \/ Score(c, row) < Score(d, row)
                                 \/ Score(c, row) = Score(d, row) /\ c.rank < d.rank
BY DEF Before, Score

LEMMA ScoreIsNat ==
    ASSUME MiningAssumption, WindowTyped, RowsTyped,
           NEW row \in Adoptions(TodCandidates), NEW c \in TodCandidates
    PROVE  Score(c, row) \in Nat
<1>1. c.tod \in Minutes
  BY CandidateOfCluster, CandidateTyped
<1>2. CASE c \in DOMAIN row
  <2>1. habits[row[c]].tod \in Minutes
    BY <1>2, AdoptedIsNear DEF RowsTyped
  <2> QED
    BY <1>1, <1>2, <2>1, DiffIsInt DEF Score
<1>3. CASE c \notin DOMAIN row
  BY <1>3 DEF Score, MiningAssumption
<1> QED
  BY <1>2, <1>3

\* Of the candidates with one key, dedupe_candidates keeps one of them.
LEMMA WinnerIsOne ==
    ASSUME MiningAssumption, WindowTyped, RowsTyped,
           NEW row \in Adoptions(TodCandidates), NEW b \in TodCandidates
    PROVE  /\ Winner(TodCandidates, row, Key(b, row)) \in TodCandidates
           /\ Key(Winner(TodCandidates, row, Key(b, row)), row) = Key(b, row)
<1> DEFINE key == Key(b, row)
           same == {c \in TodCandidates : Key(c, row) = key}
           size == Cardinality(window)
           Beats(c, d) == \/ c.occurrences > d.occurrences
                          \/ c.occurrences = d.occurrences /\ Before(c, d, row)
<1>1. ASSUME NEW c \in same
      PROVE  /\ c \in TodCandidates /\ c.ent = b.ent
             /\ c.occurrences \in Nat /\ c.occurrences <= size
             /\ Score(c, row) \in Nat /\ c.rank \in Int /\ c.rank + 1 \in Nat
  <2>1. c \in TodCandidates /\ c.ent = b.ent
    BY KeyIsKey
  <2>2. /\ c.occurrences \in Nat /\ c.occurrences <= size
        /\ c.rank \in Int /\ c.rank + 1 \in Nat
    BY <2>1, CandidateOfCluster, CandidateTyped
  <2> QED
    BY <2>1, <2>2, ScoreIsNat
<1>2. b \in same /\ size \in Nat
  BY FS_CardinalityType DEF WindowTyped, WindowFinite
<1> HIDE DEF same, size, key
<1> DEFINE lacks == {size - c.occurrences : c \in same}
<1>3. lacks \in SUBSET Nat /\ lacks # {}
  BY <1>1, <1>2
<1>4. PICK n \in lacks : \A m \in Nat : m < n => m \notin lacks
  <2> HIDE DEF lacks
  <2> QED
    BY <1>3, Least
<1>5. PICK most \in same : n = size - most.occurrences
  OBVIOUS
<1>6. \A c \in same : c.occurrences <= most.occurrences
  <2> SUFFICES ASSUME NEW c \in same, ~(c.occurrences <= most.occurrences) PROVE FALSE
    OBVIOUS
  <2>1. size - c.occurrences \in lacks /\ size - c.occurrences \in Nat
    BY <1>1, <1>2
  <2> QED
    BY <1>1, <1>2, <1>4, <1>5, <2>1
<1> DEFINE top == {c \in same : c.occurrences = most.occurrences}
           scores == {Score(c, row) : c \in top}
<1>7. scores \in SUBSET Nat /\ scores # {}
  BY <1>1
<1>8. PICK low \in scores : \A m \in Nat : m < low => m \notin scores
  <2> HIDE DEF scores
  <2> QED
    BY <1>7, Least
<1>9. \A c \in top : low <= Score(c, row) /\ Score(c, row) \in Nat /\ low \in Nat
  <2> SUFFICES ASSUME NEW c \in top
               PROVE  low <= Score(c, row) /\ Score(c, row) \in Nat /\ low \in Nat
    OBVIOUS
  <2>1. Score(c, row) \in Nat /\ low \in Nat /\ Score(c, row) \in scores
    BY <1>1, <1>7
  <2> QED
    BY <1>8, <2>1
<1> DEFINE near == {c \in top : Score(c, row) = low}
           places == {c.rank + 1 : c \in near}
<1>10. places \in SUBSET Nat /\ places # {}
  <2>1. near # {}
    OBVIOUS
  <2> QED
    BY <1>1, <2>1
<1>11. PICK p \in places : \A m \in Nat : m < p => m \notin places
  <2> HIDE DEF places
  <2> QED
    BY <1>10, Least
<1>12. PICK w \in near : p = w.rank + 1
  OBVIOUS
<1>13. ASSUME NEW d \in same, d # w PROVE Beats(w, d)
  <2>0. w \in same /\ w \in top /\ w.occurrences = most.occurrences /\ Score(w, row) = low
    OBVIOUS
  <2>1. CASE d \notin top
    <3>1. d.occurrences # most.occurrences
      BY <2>1
    <3> HIDE DEF top, scores, near, places
    <3> QED
      BY <1>1, <1>6, <2>0, <3>1
  <2>2. CASE d \in top /\ d \notin near
    <3>1. Score(d, row) # low /\ d.occurrences = w.occurrences
      BY <2>2
    <3> HIDE DEF top, scores, near, places
    <3>2. Score(w, row) < Score(d, row)
      BY <1>9, <2>0, <2>2, <3>1
    <3> QED
      BY <3>1, <3>2, BeforeIs
  <2>3. CASE d \in near
    <3>1. Score(d, row) = low /\ d.occurrences = w.occurrences /\ d.rank + 1 \in places
      BY <2>3
    <3>2. d.rank # w.rank
      <4>1. d \in TodCandidates /\ w \in TodCandidates /\ d.ent = w.ent
        BY <1>1, <2>0
      <4> QED
        BY <1>13, <4>1, RanksDiffer
    <3> HIDE DEF top, scores, near, places
    <3>3. ~(d.rank + 1 < w.rank + 1)
      BY <1>1, <1>11, <1>12, <3>1
    <3>4. w.rank < d.rank
      BY <1>1, <2>0, <3>2, <3>3
    <3> QED
      BY <2>0, <3>1, <3>4, BeforeIs
  <2> QED
    BY <2>1, <2>2, <2>3
<1>14. w \in same
  OBVIOUS
<1> HIDE DEF lacks, top, scores, near, places, Beats
<1>15. (CHOOSE c \in same : \A d \in same \ {c} : Beats(c, d)) \in same
  BY <1>13, <1>14
<1>16. Winner(TodCandidates, row, key) \in same
  BY <1>15 DEF Winner, same, Beats
<1> QED
  BY <1>16 DEF same, key

LEMMA UpsertIs ==
    ASSUME NEW old, NEW new
    PROVE  /\ DOMAIN Upsert(old, new) = DOMAIN old \cup DOMAIN new
           /\ \A k \in DOMAIN new : Upsert(old, new)[k] = new[k]
           /\ \A k \in DOMAIN old : k \notin DOMAIN new => Upsert(old, new)[k] = old[k]
BY DEF Upsert

\* What a night writes into the time_of_day rows.
LEMMA RowsWritten ==
    ASSUME MiningAssumption, WindowTyped, RowsTyped,
           NEW row \in Adoptions(TodCandidates), NEW k \in DOMAIN TodRows(TodCandidates, row)
    PROVE  \E c \in TodCandidates : /\ Key(c, row) = k
                                    /\ TodRows(TodCandidates, row)[k] = HabitRow(c)
<1>1. TodRows(TodCandidates, row) =
        [j \in {Key(c, row) : c \in TodCandidates} |-> HabitRow(Winner(TodCandidates, row, j))]
  BY DEF TodRows
<1> DEFINE keys == {Key(c, row) : c \in TodCandidates}
<1>2. k \in keys /\ TodRows(TodCandidates, row)[k] = HabitRow(Winner(TodCandidates, row, k))
  BY <1>1
<1>3. PICK b \in TodCandidates : k = Key(b, row)
  BY <1>2
<1> HIDE DEF keys
<1> QED
  BY <1>2, <1>3, WinnerIsOne

------------------------------------------------------------------------------
\* The type invariant, with the shape of the proposals' rows.

Proposal == [sources : SUBSET (DOMAIN habits \cup DOMAIN pairs), seen : 0..today,
             status : {"shadowing", "stale"}]

TypeInv == TypeOK /\ WindowFinite /\ \A k \in DOMAIN proposals : proposals[k] \in Proposal

LEMMA TypesOfTypeInv == ASSUME MiningAssumption, TypeInv PROVE WindowTyped /\ RowsTyped
<1>1. ASSUME NEW e \in window
      PROVE  e.ent \in Entities /\ e.at \in Minutes /\ e.user \in BOOLEAN
  <2>1. [ent |-> e.ent, at |-> e.at, user |-> e.user] \in Act
    BY DEF TypeInv, TypeOK
  <2> QED
    BY <2>1 DEF Act
<1> QED
  BY <1>1 DEF TypeInv, TypeOK, WindowTyped, RowsTyped

LEMMA TypeInit == ASSUME MiningAssumption, Init PROVE TypeInv
<1>1. /\ today = 0 /\ window = {} /\ DOMAIN habits = {} /\ DOMAIN pairs = {}
      /\ DOMAIN proposals = {}
  BY DEF Init, Empty
<1>2. 0 \in 0..MaxDay
  BY DEF MiningAssumption
<1>3. TypeOK
  BY <1>1, <1>2 DEF TypeOK, DaysIn
<1> QED
  BY <1>1, <1>3, FS_EmptySet DEF TypeInv, WindowFinite

LEMMA TypeDay ==
    ASSUME MiningAssumption, TypeInv, NEW plan \in Plans, Day(plan), WindowFinite'
    PROVE  TypeInv'
<1>1. /\ today < MaxDay /\ today' = today + 1
      /\ window' = Recent(window, today + 1)
                     \cup {[day |-> today + 1, ent |-> a.ent, at |-> a.at, user |-> a.user]
                             : a \in plan}
      /\ habits' = habits /\ pairs' = pairs /\ proposals' = proposals
  BY DEF Day
<1>2. today \in 0..MaxDay /\ MaxDay \in Nat /\ Lookback \in Nat \ {0}
  BY DEF MiningAssumption, TypeInv, TypeOK
<1>3. ASSUME NEW e \in window'
      PROVE  /\ [ent |-> e.ent, at |-> e.at, user |-> e.user] \in Act
             /\ e.day \in 1..(today + 1) /\ e.day > (today + 1) - Lookback
  <2>1. CASE e \in Recent(window, today + 1)
    <3>1. e \in window /\ (today + 1) - e.day < Lookback
      BY <2>1 DEF Recent
    <3>2. [ent |-> e.ent, at |-> e.at, user |-> e.user] \in Act /\ e.day \in 1..today
      BY <3>1 DEF TypeInv, TypeOK, DaysIn
    <3> QED
      BY <1>2, <3>1, <3>2
  <2>2. ASSUME NEW a \in plan,
               e = [day |-> today + 1, ent |-> a.ent, at |-> a.at, user |-> a.user]
        PROVE  /\ [ent |-> e.ent, at |-> e.at, user |-> e.user] \in Act
               /\ e.day \in 1..(today + 1) /\ e.day > (today + 1) - Lookback
    <3>1. a \in Act
      BY DEF MiningAssumption
    <3>2. e.ent = a.ent /\ e.at = a.at /\ e.user = a.user /\ e.day = today + 1
      BY <2>2
    <3> QED
      BY <1>2, <3>1, <3>2 DEF Act
  <2> QED
    BY <1>1, <2>1, <2>2
<1>4. DaysIn(window)' \subseteq {d \in 1..(today + 1) : d > (today + 1) - Lookback}
  BY <1>3 DEF DaysIn
<1>5. \A n \in 1..today : n \in 1..(today + 1)
  BY <1>2
<1>6. \A n \in 0..today : n \in 0..(today + 1)
  BY <1>2
<1>7. today + 1 \in 0..MaxDay
  BY <1>1, <1>2
<1>8. ASSUME NEW k \in DOMAIN habits
      PROVE  habits[k] \in [tod : Minutes, sched : BOOLEAN, fit : BOOLEAN, mined : 1..(today + 1)]
  <2>1. habits[k] \in [tod : Minutes, sched : BOOLEAN, fit : BOOLEAN, mined : 1..today]
    BY DEF TypeInv, TypeOK
  <2> QED
    BY <1>5, <2>1
<1>9. ASSUME NEW k \in DOMAIN proposals
      PROVE  /\ proposals[k].status \in {"shadowing", "stale"}
             /\ proposals[k].sources \subseteq DOMAIN habits \cup DOMAIN pairs
             /\ proposals[k].seen \in 0..(today + 1) /\ proposals[k] \in Proposal'
  <2>1. proposals[k] \in Proposal
    BY DEF TypeInv
  <2> QED
    BY <1>1, <1>6, <2>1 DEF Proposal
<1>10. TypeOK'
  BY <1>1, <1>3, <1>4, <1>7, <1>8, <1>9 DEF TypeInv, TypeOK
<1> QED
  BY <1>1, <1>9, <1>10 DEF TypeInv

LEMMA PairRowsTyped ==
    ASSUME MiningAssumption, WindowTyped, NEW p \in DOMAIN PairRows
    PROVE  /\ p \in Entities \X Entities
           /\ PairRows[p] \in [hits : Nat, of : Nat, fit : BOOLEAN]
<1> DEFINE acting == {e.ent : e \in window}
           hits == [q \in {r \in acting \X acting : r[1] # r[2]} |-> Hits(q[1], q[2])]
           mined == {q \in DOMAIN hits : hits[q] > 0 /\ Reliable(q[1], q[2], hits[q], Mining)}
<1>1. PairRows = [q \in mined |-> [hits |-> hits[q], of |-> Cardinality(Of(q[1])),
                                   fit |-> Reliable(q[1], q[2], hits[q], Gate)]]
  BY DEF PairRows
<1>2. p \in mined
  BY <1>1
<1>3. p \in acting \X acting /\ hits[p] = Hits(p[1], p[2])
  BY <1>2
<1>4. PairRows[p] = [hits |-> hits[p], of |-> Cardinality(Of(p[1])),
                     fit |-> Reliable(p[1], p[2], hits[p], Gate)]
  BY <1>1, <1>2
<1>5. /\ Cardinality(Of(p[1])) \in Nat /\ Hits(p[1], p[2]) \in Nat
  BY HitsAreOccurrences DEF WindowTyped
<1>6. Reliable(p[1], p[2], hits[p], Gate) \in BOOLEAN
  BY DEF Reliable
<1>7. acting \subseteq Entities
  BY DEF WindowTyped
<1> HIDE DEF hits, mined, acting
<1> QED
  BY <1>3, <1>4, <1>5, <1>6, <1>7

LEMMA TypeMine == ASSUME MiningAssumption, TypeInv, Mine PROVE TypeInv'
<1>1. PICK row \in Adoptions(TodCandidates) :
        habits' = Upsert(habits, TodRows(TodCandidates, row))
  BY DEF Mine
<1> DEFINE new == TodRows(TodCandidates, row)
<1>2. /\ window # {} /\ pairs' = Upsert(pairs, PairRows)
      /\ today' = today /\ window' = window /\ proposals' = proposals
  BY DEF Mine
<1>3. WindowTyped /\ RowsTyped
  BY TypesOfTypeInv
<1>4. today \in 1..today
  <2>1. PICK e \in window : TRUE
    BY <1>2
  <2>2. e.day \in 1..today /\ today \in Int
    BY DEF TypeInv, TypeOK, DaysIn
  <2> QED
    BY <2>2
<1>5. ASSUME NEW k \in DOMAIN new
      PROVE  /\ k \in Entities \X Buckets
             /\ new[k] \in [tod : Minutes, sched : BOOLEAN, fit : BOOLEAN, mined : 1..today]
  <2>1. PICK c \in TodCandidates : Key(c, row) = k /\ new[k] = HabitRow(c)
    BY <1>3, RowsWritten
  <2>2. c.tod \in Minutes /\ c.sched \in BOOLEAN /\ c.fit \in BOOLEAN
    BY <1>3, CandidateOfCluster, CandidateTyped
  <2>3. k \in Entities \X Buckets
    BY <1>3, <2>1, KeyIsKey
  <2> HIDE DEF new
  <2> QED
    BY <1>4, <2>1, <2>2, <2>3 DEF HabitRow
<1> HIDE DEF new
<1>6. /\ DOMAIN habits' = DOMAIN habits \cup DOMAIN new
      /\ \A k \in DOMAIN new : habits'[k] = new[k]
      /\ \A k \in DOMAIN habits : k \notin DOMAIN new => habits'[k] = habits[k]
  <2> DEFINE after == Upsert(habits, new)
  <2>1. /\ DOMAIN after = DOMAIN habits \cup DOMAIN new
        /\ \A k \in DOMAIN new : after[k] = new[k]
        /\ \A k \in DOMAIN habits : k \notin DOMAIN new => after[k] = habits[k]
    BY UpsertIs
  <2>2. habits' = after
    BY <1>1 DEF new
  <2> HIDE DEF after
  <2> QED
    BY <2>1, <2>2
<1>7. /\ DOMAIN habits' \subseteq Entities \X Buckets
      /\ \A k \in DOMAIN habits' :
           habits'[k] \in [tod : Minutes, sched : BOOLEAN, fit : BOOLEAN, mined : 1..today]
  BY <1>5, <1>6 DEF TypeInv, TypeOK
<1>8. /\ DOMAIN pairs' = DOMAIN pairs \cup DOMAIN PairRows
      /\ \A p \in DOMAIN PairRows : pairs'[p] = PairRows[p]
      /\ \A p \in DOMAIN pairs : p \notin DOMAIN PairRows => pairs'[p] = pairs[p]
  <2> DEFINE after == Upsert(pairs, PairRows)
  <2>1. /\ DOMAIN after = DOMAIN pairs \cup DOMAIN PairRows
        /\ \A p \in DOMAIN PairRows : after[p] = PairRows[p]
        /\ \A p \in DOMAIN pairs : p \notin DOMAIN PairRows => after[p] = pairs[p]
    BY UpsertIs
  <2>2. pairs' = after
    BY <1>2
  <2> HIDE DEF after
  <2> QED
    BY <2>1, <2>2
<1>9. /\ DOMAIN pairs' \subseteq Entities \X Entities
      /\ \A p \in DOMAIN pairs' : pairs'[p] \in [hits : Nat, of : Nat, fit : BOOLEAN]
  BY <1>3, <1>8, PairRowsTyped DEF TypeInv, TypeOK
<1>10. ASSUME NEW k \in DOMAIN proposals
       PROVE  /\ proposals[k].status \in {"shadowing", "stale"}
              /\ proposals[k].sources \subseteq DOMAIN habits' \cup DOMAIN pairs'
              /\ proposals[k].seen \in 0..today /\ proposals[k] \in Proposal'
  <2>1. proposals[k] \in Proposal
    BY DEF TypeInv
  <2> QED
    BY <1>2, <1>6, <1>8, <2>1 DEF Proposal
<1>11. TypeOK'
  BY <1>2, <1>7, <1>9, <1>10 DEF TypeInv, TypeOK, DaysIn
<1> QED
  BY <1>2, <1>10, <1>11 DEF TypeInv, WindowFinite

LEMMA GroupsHaveRows ==
    ASSUME NEW g \in Groups PROVE g.sources \subseteq DOMAIN habits \cup DOMAIN pairs
<1>1. CASE \E p \in EligiblePairs : g = PairGroup(p[1])
  BY <1>1 DEF PairGroup, EligiblePairs
<1>2. CASE ~ \E p \in EligiblePairs : g = PairGroup(p[1])
  <2>1. \E ks \in SUBSET EligibleHabits : g = TodGroup(ks)
    <3> DEFINE tods == {habits[k].tod : k \in EligibleHabits}
               At(s) == {k \in EligibleHabits : habits[k].tod \in RunFrom(s, tods, GroupWindow)}
    <3>1. \E s \in Starts(tods, GroupWindow) : g = TodGroup(At(s))
      BY <1>2 DEF Groups
    <3> QED
      BY <3>1
  <2> QED
    BY <2>1 DEF TodGroup, EligibleHabits
<1> QED
  BY <1>1, <1>2

LEMMA TypePropose == ASSUME MiningAssumption, TypeInv, Propose PROVE TypeInv'
<1>1. PICK accepted \in SUBSET {g \in Groups : g.key \notin DOMAIN proposals} :
        proposals' = Stored(Groups, accepted)
  BY DEF Propose
<1> DEFINE keys == {g.key : g \in Groups}
           kept == [k \in DOMAIN proposals |->
                      IF k \in keys
                      THEN [proposals[k] EXCEPT !.seen = today, !.status = "shadowing"]
                      ELSE IF proposals[k].seen < today - StaleDays
                           THEN [proposals[k] EXCEPT !.status = "stale"]
                           ELSE proposals[k]]
           fresh == [k \in {g.key : g \in accepted} |->
                       [sources |-> (CHOOSE g \in accepted : g.key = k).sources,
                        seen |-> today, status |-> "shadowing"]]
<1>2. proposals' = Upsert(kept, fresh)
  BY <1>1 DEF Stored
<1>3. UNCHANGED <<today, window, habits, pairs>>
  BY DEF Propose
<1>4. today \in 0..today
  BY DEF TypeInv, TypeOK, MiningAssumption
<1>5. ASSUME NEW k \in DOMAIN kept PROVE kept[k] \in Proposal
  <2>1. proposals[k] \in Proposal
    BY DEF TypeInv
  <2>2. [proposals[k] EXCEPT !.seen = today, !.status = "shadowing"] \in Proposal
    BY <1>4, <2>1 DEF Proposal
  <2>3. [proposals[k] EXCEPT !.status = "stale"] \in Proposal
    BY <2>1 DEF Proposal
  <2> QED
    BY <2>1, <2>2, <2>3
<1>6. ASSUME NEW k \in DOMAIN fresh PROVE fresh[k] \in Proposal
  <2>1. \E g \in accepted : g.key = k
    OBVIOUS
  <2> DEFINE g == CHOOSE h \in accepted : h.key = k
  <2>2. g \in accepted
    BY <2>1
  <2>3. fresh[k] = [sources |-> g.sources, seen |-> today, status |-> "shadowing"]
    OBVIOUS
  <2> HIDE DEF g, fresh
  <2>4. g.sources \subseteq DOMAIN habits \cup DOMAIN pairs
    BY <2>2, GroupsHaveRows
  <2> QED
    BY <1>4, <2>3, <2>4 DEF Proposal
<1> HIDE DEF kept, fresh
<1>7. \A k \in DOMAIN proposals' : proposals'[k] \in Proposal
  <2> DEFINE after == Upsert(kept, fresh)
  <2>1. /\ DOMAIN after = DOMAIN kept \cup DOMAIN fresh
        /\ \A k \in DOMAIN fresh : after[k] = fresh[k]
        /\ \A k \in DOMAIN kept : k \notin DOMAIN fresh => after[k] = kept[k]
    BY UpsertIs
  <2> HIDE DEF after
  <2>2. ASSUME NEW k \in DOMAIN after PROVE after[k] \in Proposal
    <3>1. CASE k \in DOMAIN fresh
      BY <1>6, <2>1, <3>1
    <3>2. CASE k \notin DOMAIN fresh
      BY <1>5, <2>1, <3>2
    <3> QED
      BY <3>1, <3>2
  <2> QED
    BY <1>2, <2>2 DEF after
<1>8. Proposal' = Proposal
  BY <1>3 DEF Proposal
<1>9. \A k \in DOMAIN proposals' :
        /\ proposals'[k].status \in {"shadowing", "stale"}
        /\ proposals'[k].sources \subseteq DOMAIN habits \cup DOMAIN pairs
        /\ proposals'[k].seen \in 0..today
  BY <1>7 DEF Proposal
<1>10. TypeOK'
  BY <1>3, <1>9 DEF TypeInv, TypeOK, DaysIn
<1> QED
  BY <1>3, <1>7, <1>8, <1>10 DEF TypeInv, WindowFinite

LEMMA TypeNext ==
    ASSUME MiningAssumption, TypeInv, [Next]_vars, WindowFinite' PROVE TypeInv'
<1>1. ASSUME NEW plan \in Plans, Day(plan) PROVE TypeInv'
  BY <1>1, TypeDay
<1>2. CASE Mine
  BY <1>2, TypeMine
<1>3. CASE Propose
  BY <1>3, TypePropose
<1>4. CASE UNCHANGED vars
  <2>1. TypeOK'
    BY <1>4 DEF vars, TypeInv, TypeOK, DaysIn
  <2> QED
    BY <1>4, <2>1 DEF vars, TypeInv, WindowFinite, Proposal
<1> QED
  BY <1>1, <1>2, <1>3, <1>4 DEF Next

(* The shape of what the miner stores, whatever people do: above all that the *)
(* rows' keys are of known entities and of buckets of the day, and that every *)
(* key has exactly one candidate that dedupe_candidates keeps.                *)
THEOREM TypeInvHolds == Spec => []TypeInv
<1> USE MiningAssumption
<1> QED
  BY TypeInit, TypeNext, WindowStaysFinite, PTL DEF Spec

(* The type invariant of the runs. *)
THEOREM TypeCorrect == Spec => []TypeOK
<1>1. TypeInv => TypeOK
  BY DEF TypeInv
<1> QED
  BY <1>1, TypeInvHolds, PTL

------------------------------------------------------------------------------
\* The rows after a night: those of its candidates, and the others as they were.
Written(row) ==
    /\ DOMAIN habits \subseteq DOMAIN habits'
    /\ \A k \in DOMAIN habits' :
         \/ \E c \in TodCandidates : Key(c, row) = k /\ habits'[k] = HabitRow(c)
         \/ /\ k \in DOMAIN habits /\ habits'[k] = habits[k]
            /\ \A c \in TodCandidates : Key(c, row) # k

LEMMA MineWrites ==
    ASSUME MiningAssumption, TypeInv, Mine
    PROVE  \E row \in Adoptions(TodCandidates) : Written(row)
<1>1. PICK row \in Adoptions(TodCandidates) :
        habits' = Upsert(habits, TodRows(TodCandidates, row))
  BY DEF Mine
<1>2. WindowTyped /\ RowsTyped
  BY TypesOfTypeInv
<1> DEFINE new == TodRows(TodCandidates, row)
           after == Upsert(habits, new)
<1>3. /\ DOMAIN after = DOMAIN habits \cup DOMAIN new
      /\ \A k \in DOMAIN new : after[k] = new[k]
      /\ \A k \in DOMAIN habits : k \notin DOMAIN new => after[k] = habits[k]
  BY UpsertIs
<1>4. \A k \in DOMAIN new : \E c \in TodCandidates : Key(c, row) = k /\ new[k] = HabitRow(c)
  BY <1>2, RowsWritten
<1>5. DOMAIN new = {Key(c, row) : c \in TodCandidates}
  BY DEF TodRows
<1>6. habits' = after
  BY <1>1
<1> HIDE DEF new, after
<1>7. ASSUME NEW k \in DOMAIN habits'
      PROVE  \/ \E c \in TodCandidates : Key(c, row) = k /\ habits'[k] = HabitRow(c)
             \/ /\ k \in DOMAIN habits /\ habits'[k] = habits[k]
                /\ \A c \in TodCandidates : Key(c, row) # k
  <2>1. CASE k \in DOMAIN new
    BY <1>3, <1>4, <1>6, <2>1
  <2>2. CASE k \notin DOMAIN new
    BY <1>3, <1>5, <1>6, <2>2
  <2> QED
    BY <2>1, <2>2
<1> QED
  BY <1>3, <1>6, <1>7 DEF Written

------------------------------------------------------------------------------
\* Rows keep their place.

(* A row moves at most by the tolerance in a night, or back into the bucket   *)
(* of its key (reconcile_keys, upsert_patterns).                              *)
THEOREM RowKeepsItsPlaceProved == Spec => RowKeepsItsPlace
<1> DEFINE Kept == \A k \in DOMAIN habits :
             \/ Distance(habits'[k].tod, habits[k].tod) <= Tolerance
             \/ habits'[k].tod \div Bucket = k[2]
<1>1. TypeInv /\ [Next]_vars => [Kept]_vars
  <2> SUFFICES ASSUME TypeInv, Next PROVE Kept
    BY DEF vars
  <2>1. WindowTyped /\ RowsTyped
    BY MiningAssumption, TypesOfTypeInv
  <2>2. ASSUME NEW k \in DOMAIN habits, habits'[k] = habits[k]
        PROVE  Distance(habits'[k].tod, habits[k].tod) <= Tolerance
    <3>1. habits[k].tod \in Minutes
      BY <2>1 DEF RowsTyped
    <3>2. Distance(habits[k].tod, habits[k].tod) = Short(Apart(habits[k].tod, habits[k].tod))
      BY <3>1, MiningAssumption, DistanceIs
    <3> QED
      BY <2>2, <3>1, <3>2, MiningAssumption DEF Short, Apart, Minutes, MiningAssumption
  <2>3. CASE Mine
    <3>1. PICK row \in Adoptions(TodCandidates) : Written(row)
      BY <2>3, MiningAssumption, MineWrites
    <3> SUFFICES ASSUME NEW k \in DOMAIN habits
                 PROVE  \/ Distance(habits'[k].tod, habits[k].tod) <= Tolerance
                        \/ habits'[k].tod \div Bucket = k[2]
      OBVIOUS
    <3>2. ASSUME NEW c \in TodCandidates, Key(c, row) = k, habits'[k] = HabitRow(c)
          PROVE  \/ Distance(habits'[k].tod, habits[k].tod) <= Tolerance
                 \/ habits'[k].tod \div Bucket = k[2]
      <4>1. habits'[k].tod = c.tod
        BY <3>2 DEF HabitRow
      <4>2. CASE k = OwnKey(c)
        BY <4>1, <4>2 DEF OwnKey
      <4>3. CASE c \in DOMAIN row /\ k = row[c]
        BY <4>1, <4>3, AdoptedIsNear
      <4> QED
        BY <3>2, <4>2, <4>3 DEF Key
    <3>3. k \in DOMAIN habits'
      BY <3>1 DEF Written
    <3> QED
      BY <2>2, <3>1, <3>2, <3>3 DEF Written
  <2>4. CASE habits' = habits
    BY <2>2, <2>4
  <2> QED
    BY <2>3, <2>4 DEF Next, Day, Propose
<1> QED
  BY <1>1, TypeInvHolds, PTL DEF Spec, RowKeepsItsPlace

------------------------------------------------------------------------------
\* Habits of narrow clusters.

\* The clusters of an entity that has several of them cover less than half a day
\* each.  (The mean of a wider one can be anywhere, in another cluster as well.)
NarrowClusters ==
    \A ent \in {e.ent : e \in window} : \A c \in Clusters(Times(ent)) :
        c # Times(ent) =>
            \A a, b \in c : Isolates(a, b, c, Times(ent)) => 2 * Off(b, a) < DayLen

LEMMA MeanOfCluster ==
    ASSUME MiningAssumption, WindowTyped, NarrowClusters, NEW ent \in {e.ent : e \in window},
           NEW c, NEW cd, Makes(ent, c, cd), c # Times(ent)
    PROVE  /\ cd.tod \in Minutes
           /\ \E a, b \in c : /\ Isolates(a, b, c, Times(ent))
                              /\ Off(cd.tod, a) <= Off(b, a)
<1> DEFINE evs == InCluster(ent, c)
<1>1. /\ Timed(evs) /\ {e.at : e \in evs} = c /\ c \in Clusters(Times(ent))
      /\ Times(ent) \in SUBSET Minutes /\ Times(ent) # {} /\ c \subseteq Minutes
  BY DEF Makes
<1>2. PICK a \in c, b \in c : Isolates(a, b, c, Times(ent))
  BY <1>1, ClustersIsolated DEF Isolated
<1>3. 2 * Off(b, a) < DayLen
  BY <1>1, <1>2 DEF NarrowClusters
<1>4. PICK g \in evs, f \in evs : g.at = a /\ f.at = b
  BY <1>1
<1>5. cd.tod = CircularMean(evs) /\ cd.tod \in Minutes
  BY CandidateTyped DEF WindowTyped
<1> HIDE DEF evs
<1>6. \A e \in evs : Off(e.at, g.at) <= Off(f.at, g.at)
  BY <1>1, <1>2, <1>4 DEF Isolates
<1>7. Off(CircularMean(evs), a) <= Off(b, a)
  BY <1>1, <1>3, <1>4, <1>6, MeanInside
<1> QED
  BY <1>2, <1>5, <1>7

\* Two arcs that leave the gap to each other are apart, wherever one looks.
LEMMA ArcsApart ==
    ASSUME MiningAssumption, NEW a \in Minutes, NEW b \in Minutes, NEW p \in Minutes,
           NEW q \in Minutes, NEW x \in Minutes, NEW y \in Minutes,
           Off(p, a) > Off(b, a) + ClusterGap, Off(p, a) < DayLen - ClusterGap,
           Off(q, a) > Off(b, a) + ClusterGap, Off(q, a) < DayLen - ClusterGap,
           Off(a, p) > Off(q, p) + ClusterGap, Off(a, p) < DayLen - ClusterGap,
           Off(x, a) <= Off(b, a), Off(y, p) <= Off(q, p)
    PROVE  Distance(x, y) > ClusterGap
<1>1. /\ DayLen \in Nat \ {0} /\ ClusterGap \in Nat
      /\ \A m \in Minutes : m \in Int /\ 0 <= m /\ m < DayLen
  BY DEF MiningAssumption, Minutes
<1>2. Off(p, a) <= Off(y, a) /\ Off(y, a) <= Off(q, a)
  BY <1>1 DEF Off
<1>3. /\ Off(x, a) \in Minutes /\ Off(y, a) \in Minutes /\ Off(b, a) \in Minutes
      /\ Off(p, a) \in Minutes /\ Off(q, a) \in Minutes
  BY OffIs
<1>4. Distance(x, y) = Short(Apart(Off(x, a), Off(y, a)))
  BY DistanceByOff
<1> QED
  BY <1>1, <1>2, <1>3, <1>4 DEF Short, Apart

\* Two habits of an entity are more than the clusters' gap apart.
LEMMA MeansApart ==
    ASSUME MiningAssumption, WindowTyped, NarrowClusters,
           NEW cd \in TodCandidates, NEW ce \in TodCandidates, cd.ent = ce.ent, cd # ce
    PROVE  Distance(cd.tod, ce.tod) > ClusterGap
<1>1. PICK ent \in Entities : \E c : Makes(ent, c, cd) /\ \E e \in window : e.ent = ent
  BY CandidateOfCluster
<1>2. PICK other \in Entities : \E d : Makes(other, d, ce)
  BY CandidateOfCluster
<1>3. PICK c : Makes(ent, c, cd) /\ \E e \in window : e.ent = ent
  BY <1>1
<1>4. PICK d : Makes(other, d, ce)
  BY <1>2
<1>5. other = ent /\ ent \in {e.ent : e \in window}
  BY <1>3, <1>4, CandidateTyped
<1> DEFINE ms == Times(ent)
<1>6. /\ ms \in SUBSET Minutes /\ ms # {} /\ c \in Clusters(ms) /\ d \in Clusters(ms)
      /\ c \subseteq ms /\ d \subseteq ms /\ c # {} /\ d # {} /\ c # d
  BY <1>3, <1>4, <1>5 DEF Makes
<1>7. c \cap d = {}
  BY <1>6, ClustersDisjoint
<1>8. c # ms /\ d # ms
  BY <1>6, <1>7
<1>9. PICK a \in c, b \in c : Isolates(a, b, c, ms) /\ Off(cd.tod, a) <= Off(b, a)
  BY <1>3, <1>5, <1>8, MeanOfCluster
<1>10. PICK p \in d, q \in d : Isolates(p, q, d, ms) /\ Off(ce.tod, p) <= Off(q, p)
  BY <1>4, <1>5, <1>8, MeanOfCluster
<1>11. cd.tod \in Minutes /\ ce.tod \in Minutes
  BY <1>3, <1>4, <1>5, <1>8, MeanOfCluster
<1> HIDE DEF ms
<1>12. p \in ms \ c /\ q \in ms \ c /\ a \in ms \ d
  BY <1>6, <1>7
<1>13. /\ Off(p, a) > Off(b, a) + ClusterGap /\ Off(p, a) < DayLen - ClusterGap
       /\ Off(q, a) > Off(b, a) + ClusterGap /\ Off(q, a) < DayLen - ClusterGap
       /\ Off(a, p) > Off(q, p) + ClusterGap /\ Off(a, p) < DayLen - ClusterGap
  BY <1>9, <1>10, <1>12 DEF Isolates
<1>14. a \in Minutes /\ b \in Minutes /\ p \in Minutes /\ q \in Minutes
  BY <1>6
<1> QED
  BY <1>9, <1>10, <1>11, <1>13, <1>14, ArcsApart

LEMMA Triangle ==
    ASSUME MiningAssumption, NEW x \in Minutes, NEW y \in Minutes, NEW z \in Minutes
    PROVE  /\ Distance(x, y) <= Distance(x, z) + Distance(y, z)
           /\ Distance(x, y) = Distance(y, x)
           /\ Distance(x, y) = 0 <=> x = y
<1>1. /\ Distance(x, y) = Short(Apart(x, y)) /\ Distance(y, x) = Short(Apart(y, x))
      /\ Distance(x, z) = Short(Apart(x, z)) /\ Distance(y, z) = Short(Apart(y, z))
  BY DistanceIs
<1> QED
  BY <1>1 DEF Short, Apart, Minutes, MiningAssumption

\* No two candidates contest a row: who has one within the tolerance gets the
\* nearest.
LEMMA NoContest ==
    ASSUME MiningAssumption, WindowTyped, RowsTyped, NarrowClusters,
           NEW row \in Adoptions(TodCandidates), NEW c \in TodCandidates
    PROVE  Key(c, row) = IF c \in DOMAIN row THEN row[c] ELSE OwnKey(c)
<1> SUFFICES ASSUME c \in DOMAIN row PROVE Key(c, row) = row[c]
  BY DEF Key
<1>1. ASSUME NEW d \in DOMAIN row, row[d] = row[c] PROVE d = c
  <2> SUFFICES ASSUME d # c PROVE FALSE
    OBVIOUS
  <2> DEFINE at == habits[row[c]].tod
  <2>1. /\ d \in TodCandidates /\ d.ent = c.ent
        /\ Distance(c.tod, at) <= Tolerance /\ Distance(d.tod, at) <= Tolerance
        /\ row[c] \in DOMAIN habits
    BY <1>1, AdoptedIsNear
  <2>2. at \in Minutes
    BY <2>1 DEF RowsTyped
  <2> HIDE DEF at
  <2>3. c.tod \in Minutes /\ d.tod \in Minutes
    BY <2>1, CandidateOfCluster, CandidateTyped
  <2>4. Distance(c.tod, d.tod) > ClusterGap
    BY <2>1, MeansApart
  <2>5. Distance(c.tod, d.tod) <= Distance(c.tod, at) + Distance(d.tod, at)
    BY <2>2, <2>3, Triangle
  <2>6. /\ Distance(c.tod, d.tod) \in Nat /\ Distance(c.tod, at) \in Nat
        /\ Distance(d.tod, at) \in Nat
    BY <2>2, <2>3, DiffIsInt
  <2> QED
    BY <2>1, <2>4, <2>5, <2>6 DEF MiningAssumption
<1>2. ~Before(c, c, row)
  <2>1. Score(c, row) \in Nat /\ c.rank \in Int
    BY ScoreIsNat, CandidateOfCluster, CandidateTyped
  <2> QED
    BY <2>1, BeforeIs
<1>3. \A d \in DOMAIN row : row[d] = row[c] => ~Before(d, c, row)
  BY <1>1, <1>2
<1> QED
  BY <1>3 DEF Key

\* Who adopts none has none within the tolerance.
LEMMA NoneNear ==
    ASSUME MiningAssumption, WindowTyped, RowsTyped,
           NEW row \in Adoptions(TodCandidates), NEW c \in TodCandidates, c \notin DOMAIN row,
           NEW j \in DOMAIN habits, j[1] = c.ent
    PROVE  Distance(c.tod, habits[j].tod) > Tolerance
<1> DEFINE Dist(k) == Distance(c.tod, habits[k].tod)
           near == {k \in DOMAIN habits : k[1] = c.ent /\ Dist(k) <= Tolerance}
           dists == {Dist(k) : k \in near}
<1>1. c.tod \in Minutes /\ Tolerance \in Nat
  BY CandidateOfCluster, CandidateTyped DEF MiningAssumption
<1>2. \A k \in DOMAIN habits : Dist(k) \in Nat
  BY <1>1, DiffIsInt DEF RowsTyped
<1>3. Nearest(c) = {}
  BY DEF Adoptions
<1>4. Nearest(c) = {k \in near : \A i \in near : Dist(k) <= Dist(i)}
  BY DEF Nearest
<1> HIDE DEF Dist
<1>5. CASE near # {}
  <2>1. dists \in SUBSET Nat /\ dists # {}
    BY <1>2, <1>5
  <2>2. PICK n \in dists : \A m \in Nat : m < n => m \notin dists
    <3> HIDE DEF dists
    <3> QED
      BY <2>1, Least
  <2>3. PICK k \in near : n = Dist(k)
    OBVIOUS
  <2>4. ASSUME NEW i \in near PROVE Dist(k) <= Dist(i)
    <3>1. Dist(i) \in dists /\ Dist(i) \in Nat /\ Dist(k) \in Nat
      BY <1>2
    <3> HIDE DEF dists, near
    <3> QED
      BY <2>2, <2>3, <3>1
  <2> HIDE DEF near, dists
  <2> QED
    BY <1>3, <1>4, <2>3, <2>4
<1>6. CASE near = {}
  <2>1. ~(Dist(j) <= Tolerance)
    BY <1>6
  <2> QED
    BY <1>1, <1>2, <2>1 DEF Dist
<1> QED
  BY <1>5, <1>6

(* A drifting habit is never stored twice, as reconcile_keys promises, by any *)
(* number of nights, wherever habits and rows are, as long as the entity's    *)
(* clusters are narrow.                                                       *)
THEOREM NewRowIsNewHabitProved == Spec /\ []NarrowClusters => NewRowIsNewHabit
<1> DEFINE New == \A k \in DOMAIN habits' \ DOMAIN habits, j \in DOMAIN habits :
             j[1] = k[1] => Distance(habits'[k].tod, habits[j].tod) > Tolerance
<1>1. TypeInv /\ NarrowClusters /\ [Next]_vars => [New]_vars
  <2> SUFFICES ASSUME TypeInv, NarrowClusters, Next,
                      NEW k \in DOMAIN habits' \ DOMAIN habits, NEW j \in DOMAIN habits,
                      j[1] = k[1]
               PROVE  Distance(habits'[k].tod, habits[j].tod) > Tolerance
    OBVIOUS
  <2>1. WindowTyped /\ RowsTyped
    BY MiningAssumption, TypesOfTypeInv
  <2>2. CASE Mine
    <3>1. PICK row \in Adoptions(TodCandidates) : Written(row)
      BY <2>2, MiningAssumption, MineWrites
    <3>2. PICK c \in TodCandidates : Key(c, row) = k /\ habits'[k] = HabitRow(c)
      BY <3>1 DEF Written
    <3>3. habits'[k].tod = c.tod
      BY <3>2 DEF HabitRow
    <3>4. c \notin DOMAIN row
      <4> SUFFICES ASSUME c \in DOMAIN row PROVE FALSE
        OBVIOUS
      <4>1. Key(c, row) = row[c] /\ row[c] \in DOMAIN habits
        BY <2>1, MiningAssumption, NoContest, AdoptedIsNear
      <4> QED
        BY <3>2, <4>1
    <3>5. k[1] = c.ent
      BY <2>1, <3>2, MiningAssumption, KeyIsKey
    <3> QED
      BY <2>1, <3>3, <3>4, <3>5, MiningAssumption, NoneNear
  <2>3. CASE habits' = habits
    BY <2>3
  <2> QED
    BY <2>2, <2>3 DEF Next, Day, Propose
<1> QED
  BY <1>1, TypeInvHolds, PTL DEF Spec, NewRowIsNewHabit

------------------------------------------------------------------------------
\* The rows of one night.

DistinctRows ==
    \A j, k \in DOMAIN habits : j # k /\ j[1] = k[1] => habits[j].tod # habits[k].tod

\* What was mined today was mined from today's window.
FreshRows ==
    \A k \in DOMAIN habits : habits[k].mined = today =>
        \E c \in TodCandidates : c.ent = k[1] /\ c.tod = habits[k].tod

ApartInv == FreshRowsApart /\ DistinctRows /\ FreshRows

LEMMA SameCandidates == ASSUME UNCHANGED window PROVE TodCandidates' = TodCandidates
BY DEF TodCandidates, Candidate, Of, DaysIn

LEMMA ApartMine ==
    ASSUME MiningAssumption, TypeInv, NarrowClusters, ApartInv, Mine
    PROVE  ApartInv'
<1>1. PICK row \in Adoptions(TodCandidates) : Written(row)
  BY MineWrites
<1>2. WindowTyped /\ RowsTyped
  BY TypesOfTypeInv
<1>3. today' = today /\ window' = window
  BY DEF Mine
<1> DEFINE New(k, c) == /\ c \in TodCandidates /\ Key(c, row) = k
                        /\ habits'[k].tod = c.tod /\ habits'[k].mined = today
           Old(k) == /\ k \in DOMAIN habits /\ habits'[k] = habits[k]
                     /\ \A c \in TodCandidates : Key(c, row) # k
<1>4. ASSUME NEW k \in DOMAIN habits' PROVE (\E c \in TodCandidates : New(k, c)) \/ Old(k)
  <2>1. ASSUME NEW c \in TodCandidates, Key(c, row) = k, habits'[k] = HabitRow(c)
        PROVE  New(k, c)
    BY <2>1 DEF HabitRow
  <2> HIDE DEF New
  <2> QED
    BY <1>1, <2>1 DEF Written
<1>5. ASSUME NEW k, NEW c, New(k, c)
      PROVE  c.ent = k[1] /\ c.tod \in Minutes
  BY <1>2, <1>5, KeyIsKey, CandidateOfCluster, CandidateTyped
<1>6. ASSUME NEW j \in DOMAIN habits', NEW k \in DOMAIN habits', j # k, j[1] = k[1],
             NEW c, New(k, c)
      PROVE  habits'[j].tod # habits'[k].tod
  <2>1. CASE Old(j)
    <3> SUFFICES ASSUME habits[j].tod = c.tod PROVE FALSE
      BY <1>6, <2>1
    <3>1. j \in DOMAIN habits /\ habits[j].tod \in Minutes /\ j[1] = c.ent
          /\ Distance(c.tod, habits[j].tod) = 0
      BY <1>2, <1>5, <1>6, <2>1, Triangle DEF RowsTyped
    <3>2. c \in DOMAIN row
      <4> SUFFICES ASSUME c \notin DOMAIN row PROVE FALSE
        OBVIOUS
      <4>1. Distance(c.tod, habits[j].tod) > Tolerance
        BY <1>2, <1>6, <3>1, NoneNear
      <4> QED
        BY <3>1, <4>1 DEF MiningAssumption
    <3>3. k = row[c] /\ k \in DOMAIN habits
      BY <1>2, <1>6, <3>2, NoContest, AdoptedIsNear
    <3>4. Distance(c.tod, habits[k].tod) <= 0 /\ habits[k].tod \in Minutes
      <4>1. 0 <= Tolerance
        BY DEF MiningAssumption
      <4> QED
        BY <1>2, <3>1, <3>2, <3>3, <4>1, AdoptedIsNear DEF RowsTyped
    <3>5. habits[k].tod = c.tod
      <4>1. c.tod \in Minutes
        BY <1>5, <1>6
      <4>2. Distance(c.tod, habits[k].tod) \in Nat
        BY <3>4, <4>1, DiffIsInt
      <4>3. Distance(c.tod, habits[k].tod) = 0
        BY <3>4, <4>2
      <4> QED
        BY <3>4, <4>1, <4>3, Triangle
    <3> QED
      BY <1>6, <3>1, <3>3, <3>5 DEF ApartInv, DistinctRows
  <2>2. ASSUME NEW d \in TodCandidates, New(j, d) PROVE habits'[j].tod # habits'[k].tod
    <3>1. d # c /\ d.ent = c.ent
      BY <1>5, <1>6, <2>2
    <3>2. Distance(d.tod, c.tod) > ClusterGap
      BY <1>2, <1>6, <3>1, MeansApart
    <3>3. d.tod # c.tod
      <4>1. Distance(c.tod, c.tod) = 0
        BY <1>5, <1>6, Triangle
      <4> QED
        BY <3>2, <4>1 DEF MiningAssumption
    <3> QED
      BY <1>6, <2>2, <3>3
  <2> QED
    BY <1>4, <2>1, <2>2
<1>7. DistinctRows'
  <2> SUFFICES ASSUME NEW j \in DOMAIN habits', NEW k \in DOMAIN habits', j # k, j[1] = k[1]
               PROVE  habits'[j].tod # habits'[k].tod
    BY DEF DistinctRows
  <2>1. CASE Old(j) /\ Old(k)
    BY <2>1 DEF ApartInv, DistinctRows
  <2>2. ASSUME NEW c \in TodCandidates, New(k, c) PROVE habits'[j].tod # habits'[k].tod
    BY <1>6, <2>2
  <2>3. ASSUME NEW c \in TodCandidates, New(j, c) PROVE habits'[j].tod # habits'[k].tod
    BY <1>6, <2>3
  <2> QED
    BY <1>4, <2>1, <2>2, <2>3
<1>8. FreshRows'
  <2>1. TodCandidates' = TodCandidates
    BY <1>3, SameCandidates
  <2> SUFFICES ASSUME NEW k \in DOMAIN habits', habits'[k].mined = today
               PROVE  \E c \in TodCandidates : c.ent = k[1] /\ c.tod = habits'[k].tod
    BY <1>3, <2>1 DEF FreshRows
  <2>2. CASE Old(k)
    BY <2>2 DEF ApartInv, FreshRows
  <2>3. ASSUME NEW c \in TodCandidates, New(k, c)
        PROVE  c.ent = k[1] /\ c.tod = habits'[k].tod
    BY <1>5, <2>3
  <2> QED
    BY <1>4, <2>2, <2>3
<1>9. FreshRowsApart'
  <2> SUFFICES ASSUME NEW j \in DOMAIN habits', NEW k \in DOMAIN habits', j # k, j[1] = k[1],
                      habits'[j].mined = habits'[k].mined
               PROVE  Distance(habits'[j].tod, habits'[k].tod) > ClusterGap
    BY DEF FreshRowsApart
  <2>1. CASE habits'[k].mined = today
    <3>1. TodCandidates' = TodCandidates
      BY <1>3, SameCandidates
    <3>2. PICK c \in TodCandidates : c.ent = k[1] /\ c.tod = habits'[k].tod
      BY <1>3, <1>8, <2>1, <3>1 DEF FreshRows
    <3>3. PICK d \in TodCandidates : d.ent = j[1] /\ d.tod = habits'[j].tod
      BY <1>3, <1>8, <2>1, <3>1 DEF FreshRows
    <3>4. c # d
      BY <1>7, <3>2, <3>3 DEF DistinctRows
    <3> QED
      BY <1>2, <3>2, <3>3, <3>4, MeansApart
  <2>2. CASE habits'[k].mined # today
    <3>1. Old(j) /\ Old(k)
      BY <1>4, <2>2
    <3> QED
      BY <3>1 DEF ApartInv, FreshRowsApart
  <2> QED
    BY <2>1, <2>2
<1> QED
  BY <1>7, <1>8, <1>9 DEF ApartInv

LEMMA ApartNext ==
    ASSUME MiningAssumption, TypeInv, NarrowClusters, ApartInv, [Next]_vars
    PROVE  ApartInv'
<1>1. ASSUME NEW plan \in Plans, Day(plan) PROVE ApartInv'
  <2>1. habits' = habits /\ today' = today + 1 /\ today \in Int
    BY <1>1 DEF Day, TypeInv, TypeOK
  <2>2. \A k \in DOMAIN habits : habits[k].mined \in 1..today
    BY DEF TypeInv, TypeOK
  <2>3. \A k \in DOMAIN habits : habits[k].mined # today + 1
    BY <2>1, <2>2
  <2> QED
    BY <2>1, <2>3 DEF ApartInv, FreshRowsApart, DistinctRows, FreshRows
<1>2. CASE Mine
  BY <1>2, ApartMine
<1>3. CASE UNCHANGED <<today, window, habits>>
  <2>1. TodCandidates' = TodCandidates
    BY <1>3, SameCandidates
  <2> QED
    BY <1>3, <2>1 DEF ApartInv, FreshRowsApart, DistinctRows, FreshRows
<1> QED
  BY <1>1, <1>2, <1>3 DEF Next, Propose, vars

(* The rows of one night are different habits, more than the clusters' gap    *)
(* apart on either side of midnight, and rows are never confounded later, as  *)
(* long as the clusters are narrow.                                           *)
THEOREM FreshRowsApartProved == Spec /\ []NarrowClusters => []FreshRowsApart
<1> USE MiningAssumption
<1>1. Init => ApartInv
  BY DEF Init, Empty, ApartInv, FreshRowsApart, DistinctRows, FreshRows
<1>2. TypeInv /\ NarrowClusters /\ ApartInv /\ [Next]_vars => ApartInv'
  BY ApartNext
<1>3. ApartInv => FreshRowsApart
  BY DEF ApartInv
<1> QED
  BY <1>1, <1>2, <1>3, TypeInvHolds, PTL DEF Spec

------------------------------------------------------------------------------
\* Groups.

\* Every eligible pattern is in one group of its kind.
GroupedOnce ==
    /\ \A k \in EligibleHabits :
         \E g \in Groups : g.key.kind = "time_of_day" /\ k \in g.sources
    /\ \A p \in EligiblePairs :
         \E g \in Groups : g.key.kind = "event_pair" /\ p \in g.sources
    /\ \A g, h \in Groups :
         g.key.kind = h.key.kind /\ g.sources \cap h.sources # {} => g = h

LEMMA GroupsAre ==
    ASSUME NEW tods, tods = {habits[k].tod : k \in EligibleHabits}, NEW g
    PROVE  g \in Groups <=>
             \/ \E s \in Starts(tods, GroupWindow) :
                  g = TodGroup({k \in EligibleHabits :
                                  habits[k].tod \in RunFrom(s, tods, GroupWindow)})
             \/ \E p \in EligiblePairs : g = PairGroup(p[1])
BY DEF Groups

LEMMA GroupedFromTypes == ASSUME MiningAssumption, RowsTyped PROVE GroupedOnce
<1> DEFINE tods == {habits[k].tod : k \in EligibleHabits}
           starts == Starts(tods, GroupWindow)
           At(s) == {k \in EligibleHabits : habits[k].tod \in RunFrom(s, tods, GroupWindow)}
<1>1. \A g : g \in Groups <=> \/ \E s \in starts : g = TodGroup(At(s))
                              \/ \E p \in EligiblePairs : g = PairGroup(p[1])
  BY GroupsAre
<1>2. \A ks : TodGroup(ks).key.kind = "time_of_day" /\ TodGroup(ks).sources = ks
  BY DEF TodGroup
<1>3. \A t : /\ PairGroup(t).key.kind = "event_pair"
             /\ PairGroup(t).sources = {p \in EligiblePairs : p[1] = t}
  BY DEF PairGroup
<1>4. tods \in SUBSET Minutes /\ GroupWindow \in Nat
  BY DEF EligibleHabits, RowsTyped, MiningAssumption
<1>5. ASSUME NEW k \in EligibleHabits
      PROVE  \E g \in Groups : g.key.kind = "time_of_day" /\ k \in g.sources
  <2>1. PICK s \in starts : habits[k].tod \in RunFrom(s, tods, GroupWindow)
    BY <1>4, RunOf
  <2>2. k \in At(s)
    BY <2>1
  <2> HIDE DEF At, starts, tods
  <2> QED
    BY <1>1, <1>2, <2>1, <2>2
<1>6. ASSUME NEW p \in EligiblePairs
      PROVE  \E g \in Groups : g.key.kind = "event_pair" /\ p \in g.sources
  <2> HIDE DEF At, starts, tods
  <2> QED
    BY <1>1, <1>3
<1>7. ASSUME NEW g \in Groups, NEW h \in Groups, g.key.kind = h.key.kind,
             g.sources \cap h.sources # {}
      PROVE  g = h
  <2>1. ASSUME NEW s \in starts, NEW t \in starts, s # t PROVE At(s) \cap At(t) = {}
    <3>0. s \in Starts(tods, GroupWindow) /\ t \in Starts(tods, GroupWindow)
      OBVIOUS
    <3> HIDE DEF tods, starts
    <3> SUFFICES ASSUME NEW k \in At(s), k \in At(t) PROVE FALSE
      OBVIOUS
    <3> DEFINE x == habits[k].tod
    <3>1. x \in RunFrom(s, tods, GroupWindow) /\ x \in RunFrom(t, tods, GroupWindow)
      OBVIOUS
    <3>2. x \in Int /\ s \in Int /\ t \in Int
      BY <1>4, <3>0, <3>1 DEF RunFrom, Starts, Minutes
    <3> HIDE DEF x, At
    <3>3. CASE s < t
      BY <1>4, <3>0, <3>1, <3>2, <3>3, RunsApart
    <3>4. CASE t < s
      BY <1>4, <3>0, <3>1, <3>2, <3>4, RunsApart
    <3> QED
      BY <2>1, <3>2, <3>3, <3>4
  <2> HIDE DEF At, starts, tods
  <2>2. CASE g.key.kind = "time_of_day"
    <3>1. PICK s \in starts : g = TodGroup(At(s))
      BY <1>1, <1>3, <2>2
    <3>2. PICK t \in starts : h = TodGroup(At(t))
      <4>1. h.key.kind = "time_of_day"
        BY <1>7, <2>2
      <4>2. ~ \E p \in EligiblePairs : h = PairGroup(p[1])
        BY <1>3, <4>1
      <4>3. h \in Groups
        OBVIOUS
      <4> QED
        BY <1>1, <4>2, <4>3
    <3> QED
      BY <1>2, <1>7, <2>1, <3>1, <3>2
  <2>3. CASE g.key.kind # "time_of_day"
    <3>1. PICK p \in EligiblePairs : g = PairGroup(p[1])
      BY <1>1, <1>2, <2>3
    <3>2. PICK q \in EligiblePairs : h = PairGroup(q[1])
      BY <1>1, <1>2, <1>7, <2>3
    <3> QED
      BY <1>3, <1>7, <3>1, <3>2
  <2> QED
    BY <2>2, <2>3
<1> HIDE DEF At, starts, tods
<1> QED
  BY <1>5, <1>6, <1>7 DEF GroupedOnce

(* build_groups puts every pattern that passes the gates into exactly one     *)
(* group of its kind: it is proposed, and not by two proposals of one night.  *)
THEOREM HabitsGroupedOnce == Spec => []GroupedOnce
<1>1. TypeInv => GroupedOnce
  BY MiningAssumption, TypesOfTypeInv, GroupedFromTypes
<1> QED
  BY <1>1, TypeInvHolds, PTL
==============================================================================
