-------------------------- MODULE ShadowEval_proofs --------------------------
(* Theorems about ShadowEval, for any proposals, automations, lookback, runs  *)
(* and times.                                                                 *)
EXTENDS ShadowEval, FiniteSetTheorems, WellFoundedInduction, TLAPS

\* The part of the type invariant that the argument needs.
Typed ==
    /\ clock \in Nat
    /\ live \subseteq Proposals
    /\ \A p \in live : created[p] # -1
    /\ created \in [Proposals -> Int]
    /\ pc \in [Runs -> {"idle", "events", "insert"}]
    /\ today \in [Runs -> Int]
    /\ batch \in [Runs -> SUBSET Proposals]
    /\ todo \in [Runs -> SUBSET (Proposals \X Int)]
    /\ out = [r \in Runs |-> out[r]]

\* A run plans every day it needs that nobody had scored, and nothing it did not
\* plan can lose its score.
PlanCovers ==
    \A r \in Runs : pc[r] # "idle" =>
        \A p \in batch[r] :
            /\ created[p] # -1
            /\ \A d \in Needed(p, today[r]) : <<p, d>> \in todo[r] \/ Scored(p, d)

\* What it is about to insert has a row for every planned day it can score.
RowsCover ==
    \A r \in Runs : pc[r] = "insert" =>
        \A t \in todo[r] :
            Unscorable(t[1], t[2]) \/ \E o \in out[r] : o.p = t[1] /\ o.day = t[2]

PlanInv == Typed /\ PlanCovers /\ RowsCover

LEMMA DayOfIsNat == ASSUME ShadowAssumption, NEW t \in Nat PROVE DayOf(t) \in Nat
<1>1. DayLen \in Nat \ {0}
  BY DEF ShadowAssumption
<1>2. t \div DayLen \in Nat
  BY <1>1
<1> QED
  BY <1>2 DEF DayOf

LEMMA PlanInit == Init => PlanInv
  BY DEF Init, PlanInv, Typed, PlanCovers, RowsCover

(* A step that leaves the run alone, keeps the results and only creates what  *)
(* was not there disturbs no plan.                                            *)
LEMMA PlanKept ==
    ASSUME PlanInv, Typed', UNCHANGED run, results \subseteq results',
           \A p \in Proposals : created[p] # -1 => created'[p] = created[p]
    PROVE  PlanInv'
<1>1. pc' = pc /\ today' = today /\ batch' = batch /\ todo' = todo /\ out' = out
  BY DEF run
<1>2. PlanCovers'
  <2> SUFFICES ASSUME NEW r \in Runs, pc[r] # "idle", NEW p \in batch[r]
               PROVE  /\ created'[p] # -1
                      /\ \A d \in Needed(p, today[r])' : <<p, d>> \in todo[r] \/ Scored(p, d)'
    BY <1>1 DEF PlanCovers
  <2>1. p \in Proposals /\ created[p] # -1 /\ created'[p] = created[p]
    BY DEF PlanInv, PlanCovers, Typed
  <2>2. Needed(p, today[r])' = Needed(p, today[r])
    BY <1>1, <2>1 DEF Needed, FirstDay
  <2>3. \A d : Scored(p, d) => Scored(p, d)'
    BY DEF Scored
  <2> QED
    BY <2>1, <2>2, <2>3 DEF PlanInv, PlanCovers
<1>3. RowsCover'
  BY <1>1 DEF PlanInv, RowsCover, Unscorable
<1> QED
  BY <1>2, <1>3 DEF PlanInv

LEMMA StartStep ==
    ASSUME ShadowAssumption, PlanInv, NEW r \in Runs, Start(r)
    PROVE  PlanInv'
<1> DEFINE now == DayOf(clock)
           plan == UNION {{<<p, d>> : d \in {n \in Needed(p, now) : ~Scored(p, n)}} : p \in live}
<1>1. /\ Typed /\ PlanCovers /\ RowsCover
      /\ pc' = [pc EXCEPT ![r] = "events"]
      /\ today' = [today EXCEPT ![r] = now]
      /\ batch' = [batch EXCEPT ![r] = live]
      /\ todo' = [todo EXCEPT ![r] = plan]
      /\ UNCHANGED <<clock, events, live, created, results, out>>
  BY DEF PlanInv, Start, Statement
<1>2. now \in Int
  BY <1>1, DayOfIsNat DEF Typed
<1>3. plan \subseteq Proposals \X Int
  <2> SUFFICES ASSUME NEW p \in live, NEW d \in Needed(p, now)
               PROVE  <<p, d>> \in Proposals \X Int
    OBVIOUS
  <2> QED
    BY <1>1 DEF Typed, Needed
<1> HIDE DEF now, plan
<1>4. Typed'
  BY <1>1, <1>2, <1>3 DEF Typed
<1>5. ASSUME NEW q \in Runs
      PROVE  /\ q = r => /\ pc'[q] = "events" /\ today'[q] = now
                         /\ batch'[q] = live /\ todo'[q] = plan
             /\ q # r => /\ pc'[q] = pc[q] /\ today'[q] = today[q]
                         /\ batch'[q] = batch[q] /\ todo'[q] = todo[q]
  BY <1>1 DEF Typed
<1>6. PlanCovers'
  <2> SUFFICES ASSUME NEW q \in Runs, pc'[q] # "idle", NEW p \in batch'[q]
               PROVE  /\ created[p] # -1
                      /\ \A d \in Needed(p, today'[q]) : <<p, d>> \in todo'[q] \/ Scored(p, d)
    BY <1>1 DEF PlanCovers, Needed, FirstDay, Scored
  <2>1. CASE q = r
    <3>1. p \in live /\ created[p] # -1 /\ today'[q] = now /\ todo'[q] = plan
      BY <1>1, <1>5, <2>1 DEF Typed
    <3>2. ASSUME NEW d \in Needed(p, now), ~Scored(p, d) PROVE <<p, d>> \in plan
      BY <3>1, <3>2 DEF plan
    <3> QED
      BY <3>1, <3>2
  <2>2. CASE q # r
    BY <1>1, <1>5, <2>2 DEF PlanCovers
  <2> QED
    BY <2>1, <2>2
<1>7. RowsCover'
  BY <1>1, <1>5 DEF RowsCover, Unscorable
<1> QED
  BY <1>4, <1>6, <1>7 DEF PlanInv

LEMMA ReadEventsStep ==
    ASSUME PlanInv, NEW r \in Runs, ReadEvents(r)
    PROVE  PlanInv'
<1> DEFINE rows == {Score(t[1], t[2], Fetched(todo[r], today[r]))
                      : t \in {u \in todo[r] : ~Unscorable(u[1], u[2])}}
<1>1. /\ Typed /\ PlanCovers /\ RowsCover /\ pc[r] = "events"
      /\ pc' = [pc EXCEPT ![r] = "insert"]
      /\ out' = [out EXCEPT ![r] = rows]
      /\ UNCHANGED <<clock, events, live, created, results, today, batch, todo>>
  BY DEF PlanInv, ReadEvents, Statement
<1>2. ASSUME NEW t \in todo[r], ~Unscorable(t[1], t[2])
      PROVE  \E o \in rows : o.p = t[1] /\ o.day = t[2]
  <2> DEFINE o == Score(t[1], t[2], Fetched(todo[r], today[r]))
  <2>1. o \in rows
    BY <1>2
  <2>2. o.p = t[1] /\ o.day = t[2]
    BY DEF Score
  <2> HIDE DEF o
  <2> QED
    BY <2>1, <2>2
<1> HIDE DEF rows
<1>3. Typed'
  BY <1>1 DEF Typed
<1>4. PlanCovers'
  <2>1. \A q \in Runs : pc'[q] # "idle" => pc[q] # "idle"
    BY <1>1 DEF Typed
  <2> QED
    BY <1>1, <2>1 DEF PlanCovers, Needed, FirstDay, Scored
<1>5. RowsCover'
  <2> SUFFICES ASSUME NEW q \in Runs, pc'[q] = "insert", NEW t \in todo[q]
               PROVE  Unscorable(t[1], t[2]) \/ \E o \in out'[q] : o.p = t[1] /\ o.day = t[2]
    BY <1>1 DEF RowsCover, Unscorable
  <2>1. CASE q = r
    <3>1. out'[q] = rows
      BY <1>1, <2>1 DEF Typed
    <3> QED
      BY <1>2, <2>1, <3>1
  <2>2. CASE q # r
    <3>1. out'[q] = out[q] /\ pc[q] = "insert"
      BY <1>1, <2>2 DEF Typed
    <3> QED
      BY <1>1, <3>1 DEF RowsCover
  <2> QED
    BY <2>1, <2>2
<1> QED
  BY <1>3, <1>4, <1>5 DEF PlanInv

(* A run that ends, by its commit or otherwise.                               *)
LEMMA ForgetStep ==
    ASSUME PlanInv, NEW r \in Runs, Forget(r), UNCHANGED <<clock, events, live, created>>,
           results \subseteq results'
    PROVE  PlanInv'
<1>1. /\ Typed /\ PlanCovers /\ RowsCover
      /\ pc' = [pc EXCEPT ![r] = "idle"] /\ today' = [today EXCEPT ![r] = 0]
      /\ batch' = [batch EXCEPT ![r] = {}] /\ todo' = [todo EXCEPT ![r] = {}]
      /\ out' = [out EXCEPT ![r] = {}]
  BY DEF PlanInv, Forget
<1>2. Typed'
  <2>1. /\ pc' \in [Runs -> {"idle", "events", "insert"}] /\ today' \in [Runs -> Int]
        /\ batch' \in [Runs -> SUBSET Proposals]
        /\ todo' \in [Runs -> SUBSET (Proposals \X Int)]
    BY <1>1 DEF Typed
  <2>2. out' = [q \in Runs |-> out'[q]]
    BY <1>1 DEF Typed
  <2> QED
    BY <1>1, <2>1, <2>2 DEF Typed
<1>3. \A q \in Runs : pc'[q] # "idle" =>
        /\ pc'[q] = pc[q] /\ today'[q] = today[q] /\ batch'[q] = batch[q]
        /\ todo'[q] = todo[q] /\ out'[q] = out[q]
  <2> SUFFICES ASSUME NEW q \in Runs, pc'[q] # "idle"
               PROVE  /\ pc'[q] = pc[q] /\ today'[q] = today[q] /\ batch'[q] = batch[q]
                      /\ todo'[q] = todo[q] /\ out'[q] = out[q]
    OBVIOUS
  <2>1. q # r
    BY <1>1 DEF Typed
  <2> QED
    BY <1>1, <2>1 DEF Typed
<1>4. PlanCovers'
  <2> SUFFICES ASSUME NEW q \in Runs, pc'[q] # "idle", NEW p \in batch'[q]
               PROVE  /\ created[p] # -1
                      /\ \A d \in Needed(p, today'[q]) : <<p, d>> \in todo'[q] \/ Scored(p, d)'
    BY DEF PlanCovers, Needed, FirstDay
  <2>1. \A d : Scored(p, d) => Scored(p, d)'
    BY DEF Scored
  <2> QED
    BY <1>1, <1>3, <2>1 DEF PlanCovers
<1>5. RowsCover'
  <2> SUFFICES ASSUME NEW q \in Runs, pc'[q] = "insert", NEW t \in todo'[q]
               PROVE  Unscorable(t[1], t[2]) \/ \E o \in out'[q] : o.p = t[1] /\ o.day = t[2]
    BY DEF RowsCover, Unscorable
  <2> QED
    BY <1>1, <1>3 DEF RowsCover
<1> QED
  BY <1>2, <1>4, <1>5 DEF PlanInv

LEMMA PlanNext == ASSUME ShadowAssumption, PlanInv, [Next]_vars PROVE PlanInv'
<1>1. Typed
  BY DEF PlanInv
<1>2. CASE Tick
  <2>1. Typed'
    BY <1>1, <1>2 DEF Tick, Typed, run
  <2> QED
    BY <1>2, <2>1, PlanKept DEF Tick
<1>3. ASSUME NEW e, Happen(e) PROVE PlanInv'
  <2>1. Typed'
    BY <1>1, <1>3 DEF Happen, Typed, run
  <2> QED
    BY <1>3, <2>1, PlanKept DEF Happen
<1>4. ASSUME NEW p \in Proposals, Create(p) PROVE PlanInv'
  <2>1. DayOf(clock) \in Nat
    BY <1>1, DayOfIsNat DEF Typed
  <2>2. /\ created[p] = -1 /\ created' = [created EXCEPT ![p] = DayOf(clock)]
        /\ live' = live \cup {p}
        /\ UNCHANGED <<clock, events, results, run>>
    BY <1>4 DEF Create
  <2>3. /\ created' \in [Proposals -> Int] /\ created'[p] # -1
        /\ \A q \in Proposals : q # p => created'[q] = created[q]
    BY <1>1, <2>1, <2>2 DEF Typed
  <2>4. Typed'
    <3>1. live' \subseteq Proposals /\ \A q \in live' : created'[q] # -1
      BY <1>1, <2>2, <2>3 DEF Typed
    <3> QED
      BY <1>1, <2>2, <2>3, <3>1 DEF Typed, run
  <2>5. \A q \in Proposals : created[q] # -1 => created'[q] = created[q]
    BY <2>2, <2>3
  <2> QED
    BY <2>2, <2>4, <2>5, PlanKept
<1>5. ASSUME NEW p \in Proposals, Switch(p) PROVE PlanInv'
  <2>1. /\ created[p] # -1 /\ live' \in {live \cup {p}, live \ {p}}
        /\ UNCHANGED <<clock, events, created, results, run>>
    BY <1>5 DEF Switch
  <2>2. Typed'
    BY <1>1, <2>1 DEF Typed, run
  <2> QED
    BY <2>1, <2>2, PlanKept
<1>6. ASSUME NEW r \in Runs, Start(r) \/ ReadEvents(r) PROVE PlanInv'
  BY <1>6, StartStep, ReadEventsStep
<1>7. ASSUME NEW r \in Runs, Commit(r) \/ Abort(r) PROVE PlanInv'
  <2>1. Forget(r) /\ UNCHANGED <<clock, events, live, created>> /\ results \subseteq results'
    BY <1>7 DEF Commit, Abort
  <2> QED
    BY <2>1, ForgetStep
<1>8. CASE UNCHANGED vars
  <2>1. Typed' /\ UNCHANGED run /\ results' = results /\ created' = created
    BY <1>1, <1>8 DEF vars, run, Typed
  <2> QED
    BY <2>1, PlanKept
<1> QED
  BY <1>2, <1>3, <1>4, <1>5, <1>6, <1>7, <1>8 DEF Next

------------------------------------------------------------------------------
\* A run's plan covers all that it needs and is not scored, and what it inserts
\* covers its plan, whatever is created, switched, scored or killed meanwhile.
THEOREM PlansCover == Spec => []PlanInv
<1> USE ShadowAssumption
<1> QED
  BY PlanInit, PlanNext, PTL DEF Spec

\* A missed night heals: the commit of a run leaves no day of its proposals that
\* can be scored without its score (shadow/service.py: plan, then evaluate).
THEOREM CommitLeavesNoGapProved == Spec => CommitLeavesNoGap
<1> DEFINE NoGap == \A r \in Runs : Commit(r) =>
             \A p \in batch[r], d \in (today[r] - Lookback)..(today[r] - 1) :
                 \/ d < created[p]
                 \/ Unscorable(p, d)
                 \/ \E row \in results' : row.p = p /\ row.day = d
<1>1. PlanInv /\ [Next]_vars => [NoGap]_vars
  <2> SUFFICES ASSUME PlanInv, NEW r \in Runs, Commit(r), NEW p \in batch[r],
                      NEW d \in (today[r] - Lookback)..(today[r] - 1),
                      ~(d < created[p]), ~Unscorable(p, d)
               PROVE  \E row \in results' : row.p = p /\ row.day = d
    OBVIOUS
  <2>1. pc[r] = "insert" /\ results' = results \cup out[r]
    BY DEF Commit
  <2>2. /\ today[r] \in Int /\ p \in Proposals /\ created[p] \in Int
        /\ Lookback \in Nat
    BY ShadowAssumption DEF PlanInv, Typed, ShadowAssumption
  <2>3. d \in Needed(p, today[r])
    BY <2>2 DEF Needed, FirstDay
  <2>4. CASE Scored(p, d)
    BY <2>1, <2>4 DEF Scored
  <2>5. CASE <<p, d>> \in todo[r]
    <3>1. \E o \in out[r] : o.p = <<p, d>>[1] /\ o.day = <<p, d>>[2]
      <4>1. Unscorable(<<p, d>>[1], <<p, d>>[2]) <=> Unscorable(p, d)
        OBVIOUS
      <4> QED
        BY <2>1, <2>5, <4>1 DEF PlanInv, RowsCover
    <3> QED
      BY <2>1, <3>1
  <2> QED
    BY <2>1, <2>3, <2>4, <2>5 DEF PlanInv, PlanCovers
<1> QED
  BY <1>1, PlansCover, PTL DEF Spec, CommitLeavesNoGap

------------------------------------------------------------------------------
\* Sums: what Total computes is a natural number, and grows with what it sums.

Pick(s) == CHOOSE x \in s : TRUE

\* What MapThenFoldSet folds with: the sums of count over the subsets in us.
Sums(count, us, h) ==
    h = [s \in us |-> IF s = {} THEN 0 ELSE count[Pick(s)] + h[s \ {Pick(s)}]]

LEMMA TotalUnfolds ==
    ASSUME NEW count
    PROVE  Total(count) =
             (CHOOSE h : Sums(count, SUBSET DOMAIN count, h))[DOMAIN count]
BY DEF Total, MapThenSumSet, MapThenFoldSet, Sums, Pick

LEMMA PickIn == ASSUME NEW s, s # {} PROVE Pick(s) \in s
BY DEF Pick

\* A nonempty set of naturals has a least element.
LEMMA Least ==
    ASSUME NEW bad \in SUBSET Nat, bad # {}
    PROVE  \E n \in bad : \A m \in Nat : m < n => m \notin bad
<1> DEFINE less == {ss \in Nat \X Nat : ss[1] < ss[2]}
<1>1. IsWellFoundedOn(less, Nat)
  BY NatLessThanWellFounded DEF OpToRel
<1>2. PICK n \in bad : \A m \in bad : <<m, n>> \notin less
  <2> HIDE DEF less
  <2> QED
    BY <1>1, WFMin
<1> QED
  BY <1>2

Small(S, n) == {s \in SUBSET S : Cardinality(s) <= n}

LEMMA SmallSets ==
    ASSUME NEW S, IsFiniteSet(S), NEW s \in SUBSET S
    PROVE  /\ IsFiniteSet(s) /\ Cardinality(s) \in Nat
           /\ Cardinality(s) = 0 <=> s = {}
           /\ s # {} => /\ s \ {Pick(s)} \in SUBSET S
                        /\ Cardinality(s \ {Pick(s)}) = Cardinality(s) - 1
<1>1. IsFiniteSet(s)
  BY FS_Subset
<1>2. Cardinality(s) \in Nat /\ (Cardinality(s) = 0 <=> s = {})
  BY <1>1, FS_CardinalityType, FS_EmptySet
<1>3. s # {} => Cardinality(s \ {Pick(s)}) = Cardinality(s) - 1
  BY <1>1, PickIn, FS_RemoveElement
<1> QED
  BY <1>1, <1>2, <1>3

\* The sums over the subsets of a finite set exist.
LEMMA SumsExist ==
    ASSUME NEW S, IsFiniteSet(S), NEW count
    PROVE  \E h : Sums(count, SUBSET S, h)
<1> DEFINE bad == {n \in Nat : ~ \E h : Sums(count, Small(S, n), h)}
<1>1. 0 \notin bad
  <2>1. ASSUME NEW s \in SUBSET S PROVE Cardinality(s) <= 0 <=> s = {}
    <3>1. Cardinality(s) \in Nat /\ (Cardinality(s) = 0 <=> s = {})
      BY SmallSets
    <3> QED
      BY <3>1
  <2>3. Small(S, 0) = {{}}
    BY <2>1 DEF Small
  <2>2. Sums(count, {{}}, [s \in {{}} |-> 0])
    BY DEF Sums
  <2> QED
    BY <2>2, <2>3
<1>2. ASSUME NEW n \in Nat, n \notin bad PROVE n + 1 \notin bad
  <2>1. PICK h : Sums(count, Small(S, n), h)
    BY <1>2
  <2> DEFINE g == [s \in Small(S, n + 1) |->
                     IF s = {} THEN 0 ELSE count[Pick(s)] + h[s \ {Pick(s)}]]
  <2>2. ASSUME NEW s \in Small(S, n) PROVE g[s] = h[s]
    <3>1. s \in SUBSET S /\ Cardinality(s) <= n
      BY <2>2 DEF Small
    <3>2. Cardinality(s) \in Nat
      BY <3>1, SmallSets
    <3>3. s \in Small(S, n + 1)
      BY <3>1, <3>2 DEF Small
    <3> QED
      BY <2>1, <2>2, <3>3 DEF Sums
  <2>3. ASSUME NEW s \in Small(S, n + 1), s # {} PROVE g[s \ {Pick(s)}] = h[s \ {Pick(s)}]
    <3>1. s \ {Pick(s)} \in Small(S, n)
      BY <2>3, SmallSets DEF Small
    <3> QED
      BY <2>2, <3>1
  <2>4. Sums(count, Small(S, n + 1), g)
    <3>1. ASSUME NEW s \in Small(S, n + 1)
          PROVE  (IF s = {} THEN 0 ELSE count[Pick(s)] + h[s \ {Pick(s)}])
                   = (IF s = {} THEN 0 ELSE count[Pick(s)] + g[s \ {Pick(s)}])
      BY <2>3
    <3>2. g = [s \in Small(S, n + 1) |->
                 IF s = {} THEN 0 ELSE count[Pick(s)] + g[s \ {Pick(s)}]]
      <4> HIDE DEF g
      <4> SUFFICES g = [s \in Small(S, n + 1) |->
                     IF s = {} THEN 0 ELSE count[Pick(s)] + h[s \ {Pick(s)}]]
        BY <3>1
      <4> QED
        BY DEF g
    <3> HIDE DEF g
    <3> QED
      BY <3>2 DEF Sums
  <2> HIDE DEF g
  <2> QED
    BY <2>4
<1>3. bad = {}
  <2> SUFFICES ASSUME bad # {} PROVE FALSE
    OBVIOUS
  <2>1. PICK n \in bad : \A m \in Nat : m < n => m \notin bad
    <3> HIDE DEF bad
    <3>1. bad \in SUBSET Nat
      BY DEF bad
    <3> QED
      BY <3>1, Least
  <2>2. n \in Nat
    OBVIOUS
  <2> HIDE DEF bad
  <2>3. n # 0
    BY <1>1, <2>1
  <2>4. n - 1 \in Nat /\ n - 1 < n /\ (n - 1) + 1 = n
    BY <2>2, <2>3
  <2>5. n - 1 \notin bad
    BY <2>1, <2>4
  <2>6. (n - 1) + 1 \notin bad
    BY <2>4, <2>5, <1>2
  <2> QED
    BY <2>1, <2>4, <2>6
<1>4. Small(S, Cardinality(S)) = SUBSET S /\ Cardinality(S) \in Nat
  BY FS_Subset, FS_CardinalityType, SmallSets DEF Small
<1>5. Cardinality(S) \notin bad
  BY <1>3
<1> QED
  BY <1>4, <1>5

\* Sums of naturals are naturals, and grow with what is summed.
LEMMA SumsGrow ==
    ASSUME NEW S, IsFiniteSet(S), NEW c \in [S -> Nat], NEW d \in [S -> Nat],
           \A e \in S : c[e] <= d[e],
           NEW g, Sums(c, SUBSET S, g), NEW h, Sums(d, SUBSET S, h)
    PROVE  g[S] \in Nat /\ h[S] \in Nat /\ g[S] <= h[S]
<1> DEFINE Fine(s) == g[s] \in Nat /\ h[s] \in Nat /\ g[s] <= h[s]
           bad == {n \in Nat : \E s \in SUBSET S : Cardinality(s) = n /\ ~Fine(s)}
<1>1. ASSUME NEW s \in SUBSET S
      PROVE  /\ g[s] = IF s = {} THEN 0 ELSE c[Pick(s)] + g[s \ {Pick(s)}]
             /\ h[s] = IF s = {} THEN 0 ELSE d[Pick(s)] + h[s \ {Pick(s)}]
  BY DEF Sums
<1>2. bad = {}
  <2> SUFFICES ASSUME bad # {} PROVE FALSE
    OBVIOUS
  <2>1. PICK n \in bad : \A m \in Nat : m < n => m \notin bad
    <3> HIDE DEF bad
    <3>1. bad \in SUBSET Nat
      BY DEF bad
    <3> QED
      BY <3>1, Least
  <2>2. PICK s \in SUBSET S : Cardinality(s) = n /\ ~Fine(s)
    OBVIOUS
  <2>3. ASSUME s = {} PROVE FALSE
    <3>1. g[s] = 0 /\ h[s] = 0
      BY <1>1, <2>3
    <3> QED
      BY <2>2, <3>1
  <2> DEFINE t == s \ {Pick(s)}
  <2>4. t \in SUBSET S /\ Cardinality(t) \in Nat /\ Cardinality(t) < n /\ Pick(s) \in S
    BY <2>2, <2>3, SmallSets, PickIn
  <2>5. Cardinality(t) \notin bad
    BY <2>1, <2>4
  <2>6. Fine(t)
    BY <2>4, <2>5
  <2>7. c[Pick(s)] \in Nat /\ d[Pick(s)] \in Nat /\ c[Pick(s)] <= d[Pick(s)]
    BY <2>4
  <2>8. g[s] = c[Pick(s)] + g[t] /\ h[s] = d[Pick(s)] + h[t]
    BY <1>1, <2>3
  <2> HIDE DEF t, bad
  <2>9. Fine(s)
    BY <2>6, <2>7, <2>8
  <2> QED
    BY <2>2, <2>9
<1>3. Cardinality(S) \in Nat
  BY FS_CardinalityType
<1>4. Cardinality(S) \notin bad
  BY <1>2
<1> QED
  BY <1>3, <1>4

LEMMA TotalGrows ==
    ASSUME NEW S, IsFiniteSet(S), NEW c \in [S -> Nat], NEW d \in [S -> Nat],
           \A e \in S : c[e] <= d[e]
    PROVE  Total(c) \in Nat /\ Total(d) \in Nat /\ Total(c) <= Total(d)
<1> DEFINE g == CHOOSE h : Sums(c, SUBSET S, h)
           h == CHOOSE k : Sums(d, SUBSET S, k)
<1>1. Sums(c, SUBSET S, g) /\ Sums(d, SUBSET S, h)
  BY SumsExist
<1>2. DOMAIN c = S /\ DOMAIN d = S
  OBVIOUS
<1>3. Total(c) = g[S] /\ Total(d) = h[S]
  BY <1>2, TotalUnfolds
<1> HIDE DEF g, h
<1>4. g[S] \in Nat /\ h[S] \in Nat /\ g[S] <= h[S]
  BY <1>1, SumsGrow
<1> QED
  BY <1>3, <1>4

------------------------------------------------------------------------------
\* Days and minutes.

LEMMA DivMod ==
    ASSUME NEW n \in Nat \ {0}, NEW a \in Int
    PROVE  /\ a \div n \in Int /\ a % n \in 0..(n - 1)
           /\ a = (a \div n) * n + (a % n)
OBVIOUS

LEMMA Apart ==
    ASSUME NEW n \in Nat \ {0}, NEW c \in Int, NEW d \in Int, c < d
    PROVE  c * n + n <= d * n
<1>1. d - c - 1 \in Nat
  OBVIOUS
<1>2. (d - c - 1) * n >= 0
  BY <1>1
<1>3. (d - c - 1) * n = d * n - c * n - n
  OBVIOUS
<1>4. c * n \in Int /\ d * n \in Int
  OBVIOUS
<1> QED
  BY <1>2, <1>3, <1>4

\* A day is the minutes from its midnight to the next.
LEMMA DayIs ==
    ASSUME ShadowAssumption, NEW a \in Int, NEW d \in Int
    PROVE  /\ DayOf(a) \in Int /\ MinuteOf(a) \in 0..(DayLen - 1)
           /\ MinuteOf(a) = a - DayOf(a) * DayLen
           /\ DayOf(a) = d <=> d * DayLen <= a /\ a < d * DayLen + DayLen
           /\ DayOf(a) < d <=> a < d * DayLen
           /\ d * DayLen \in Int /\ DayOf(a) * DayLen \in Int
<1>1. DayLen \in Nat \ {0}
  BY DEF ShadowAssumption
<1> DEFINE q == DayOf(a)
<1>2. q \in Int /\ MinuteOf(a) \in 0..(DayLen - 1) /\ a = q * DayLen + MinuteOf(a)
  BY <1>1, DivMod DEF DayOf, MinuteOf
<1> HIDE DEF q
<1>3. q * DayLen \in Int /\ d * DayLen \in Int
  BY <1>1, <1>2
<1>4. CASE q < d
  <2>1. q * DayLen + DayLen <= d * DayLen
    BY <1>1, <1>2, <1>4, Apart
  <2> QED
    BY <1>1, <1>2, <1>3, <1>4, <2>1 DEF q
<1>5. CASE q > d
  <2>1. d * DayLen + DayLen <= q * DayLen
    BY <1>1, <1>2, <1>5, Apart
  <2> QED
    BY <1>1, <1>2, <1>3, <1>5, <2>1 DEF q
<1>6. CASE q = d
  BY <1>1, <1>2, <1>3, <1>6 DEF q
<1> QED
  BY <1>2, <1>4, <1>5, <1>6

\* The circular distance of two minutes that lie close is their distance.
LEMMA CloseIsClose ==
    ASSUME ShadowAssumption, NEW a \in Int, NEW b \in Int, AbsVal(a - b) <= Tolerance
    PROVE  AbsVal(CircularDiff(a, b)) <= Tolerance
<1> DEFINE x == a - b
           m == x % DayLen
           q == x \div DayLen
<1>1. DayLen \in Nat \ {0} /\ Tolerance \in Nat /\ 2 * Tolerance <= DayLen
  BY DEF ShadowAssumption
<1>9. x \in Int
  OBVIOUS
<1>2. q \in Int /\ m \in 0..(DayLen - 1) /\ x = q * DayLen + m /\ x \in Int
  <2> HIDE DEF x
  <2> QED
    BY <1>1, <1>9, DivMod
<1>3. -Tolerance <= x /\ x <= Tolerance
  BY <1>1 DEF AbsVal
<1>4. CircularDiff(a, b) = IF 2 * m > DayLen THEN m - DayLen ELSE m
  BY DEF CircularDiff
<1> HIDE DEF x, m, q
<1>5. CASE q = 0
  BY <1>1, <1>2, <1>3, <1>4, <1>5 DEF AbsVal
<1>6. CASE q = -1
  <2>1. q * DayLen = -DayLen
    BY <1>1, <1>6
  <2> QED
    BY <1>1, <1>2, <1>3, <1>4, <2>1 DEF AbsVal
<1>7. CASE q > 0
  <2>1. 0 * DayLen + DayLen <= q * DayLen
    BY <1>1, <1>2, <1>7, Apart
  <2>2. q * DayLen \in Int /\ 0 * DayLen = 0
    BY <1>1, <1>2
  <2>3. m = 0 /\ x = DayLen
    BY <1>1, <1>2, <1>3, <2>1, <2>2
  <2>4. DayLen <= Tolerance
    BY <1>3, <2>3
  <2> QED
    BY <1>1, <1>4, <2>3, <2>4 DEF AbsVal
<1>8. CASE q < -1
  <2>1. q * DayLen + DayLen <= (-1) * DayLen
    BY <1>1, <1>2, <1>8, Apart
  <2>2. q * DayLen \in Int /\ (-1) * DayLen = -DayLen
    BY <1>1, <1>2
  <2> QED
    BY <1>1, <1>2, <1>3, <2>1, <2>2
<1> QED
  BY <1>2, <1>5, <1>6, <1>7, <1>8

\* A set of minutes keeps its size when the clock is read from another midnight.
LEMMA Shifted ==
    ASSUME NEW S, IsFiniteSet(S), S \subseteq Int, NEW k \in Int
    PROVE  /\ IsFiniteSet({k + f : f \in S})
           /\ Cardinality({k + f : f \in S}) = Cardinality(S)
<1> DEFINE T == {k + f : f \in S}
           g == [f \in S |-> k + f]
<1>1. g \in Surjection(S, T)
  BY DEF Surjection
<1>2. g \in Injection(S, T)
  BY DEF Injection, IsInjective
<1> HIDE DEF T, g
<1>3. IsFiniteSet(T) /\ Cardinality(T) = Cardinality(S)
  BY <1>1, <1>2, FS_Surjection
<1> QED
  BY <1>3 DEF T

From(S, k) == {e.at - k : e \in S}

LEMMA FiniteTimes ==
    ASSUME NEW S, IsFiniteSet(S), NEW k
    PROVE  IsFiniteSet(From(S, k))
<1> DEFINE g == [e \in S |-> e.at - k]
<1>1. g \in Surjection(S, From(S, k))
  BY DEF Surjection, From
<1> HIDE DEF g
<1> QED
  BY <1>1, FS_Surjection

------------------------------------------------------------------------------
\* What the scores of a day are made of.

LEMMA FiniteParts ==
    ASSUME ShadowAssumption, NEW p \in Proposals, NEW d \in Days,
           NEW evs, IsFiniteSet(evs), \A e \in evs : e.at \in Int, NEW ent
    PROVE  /\ IsFiniteSet(OnDay(evs, d))
           /\ IsFiniteSet(FireMinutes(p, d, evs))
           /\ IsFiniteSet(RealFires(p, d, evs))
           /\ IsFiniteSet(ByHand(OnDay(evs, d), ent))
<1>1. IsFiniteSet(OnDay(evs, d))
  BY FS_Subset DEF OnDay
<1>2. IsFiniteSet(ByHand(OnDay(evs, d), ent))
  BY <1>1, FS_Subset DEF ByHand
<1> DEFINE sparks == {v \in OnDay(evs, d) : v.ent = Automation[p].trigger}
<1>3. IsFiniteSet(sparks)
  BY <1>1, FS_Subset
<1>4. /\ Automation[p].fires[d] \subseteq (1 - DayLen)..(2 * DayLen - 2)
      /\ DayLen \in Int /\ d * DayLen \in Int
  BY DEF ShadowAssumption, Days
<1>5. IsFiniteSet(Automation[p].fires[d])
  <2>1. IsFiniteSet((1 - DayLen)..(2 * DayLen - 2))
    BY <1>4, FS_Interval
  <2> QED
    BY <1>4, <2>1, FS_Subset
<1>6. CASE Automation[p].kind = "time_of_day"
  <2>1. Automation[p].fires[d] \subseteq Int
    BY <1>4
  <2>2. IsFiniteSet({d * DayLen + f : f \in Automation[p].fires[d]})
    BY <1>4, <1>5, <2>1, Shifted
  <2> QED
    BY <1>1, <1>2, <1>5, <1>6, <2>2 DEF FireMinutes, RealFires
<1>7. CASE Automation[p].kind # "time_of_day"
  <2> HIDE DEF sparks
  <2>1. FireMinutes(p, d, evs) = From(sparks, d * DayLen)
    BY <1>7 DEF FireMinutes, Relative, From, sparks
  <2>2. RealFires(p, d, evs) \in SUBSET From(sparks, 0)
    <3>1. \A e \in sparks : e.at - 0 = e.at
      BY DEF sparks, OnDay
    <3> QED
      BY <1>7, <3>1 DEF RealFires, From, sparks
  <2>3. IsFiniteSet(From(sparks, d * DayLen)) /\ IsFiniteSet(From(sparks, 0))
    BY <1>3, FiniteTimes
  <2>4. IsFiniteSet(RealFires(p, d, evs))
    BY <2>2, <2>3, FS_Subset
  <2> QED
    BY <1>1, <1>2, <2>1, <2>3, <2>4
<1> QED
  BY <1>6, <1>7

\* The fires of evaluate_day are the real ones, read from the day's midnight.
LEMMA FiresShift ==
    ASSUME ShadowAssumption, NEW p \in Proposals, NEW d \in Days,
           NEW evs, \A e \in evs : e.at \in Int
    PROVE  /\ RealFires(p, d, evs) = {d * DayLen + f : f \in FireMinutes(p, d, evs)}
           /\ FireMinutes(p, d, evs) \subseteq (1 - DayLen)..(2 * DayLen - 2)
           /\ WithinReach(p, d) => FireMinutes(p, d, evs) \subseteq 0..(DayLen - 1)
<1>1. d * DayLen \in Int /\ d \in Int /\ DayLen \in Int
  BY DEF ShadowAssumption, Days
<1>2. CASE Automation[p].kind = "time_of_day"
  BY <1>2 DEF FireMinutes, RealFires, ShadowAssumption, WithinReach
<1>3. CASE Automation[p].kind # "time_of_day"
  <2> DEFINE sparks == {v \in OnDay(evs, d) : v.ent = Automation[p].trigger}
  <2>1. \A e \in sparks : /\ e.at \in Int /\ Relative(e, d) \in 0..(DayLen - 1)
                          /\ d * DayLen + Relative(e, d) = e.at
    <3> TAKE e \in sparks
    <3>1. e.at \in Int /\ DayOf(e.at) = d
      BY DEF OnDay
    <3>2. d * DayLen <= e.at /\ e.at < d * DayLen + DayLen
      BY <1>1, <3>1, DayIs
    <3> QED
      BY <1>1, <3>1, <3>2 DEF Relative
  <2>2. /\ RealFires(p, d, evs) = {e.at : e \in sparks}
        /\ FireMinutes(p, d, evs) = {Relative(e, d) : e \in sparks}
    BY <1>3 DEF FireMinutes, RealFires
  <2> HIDE DEF sparks
  <2>3. FireMinutes(p, d, evs) \subseteq 0..(DayLen - 1)
    BY <2>1, <2>2
  <2>4. 0..(DayLen - 1) \subseteq (1 - DayLen)..(2 * DayLen - 2)
    BY DEF ShadowAssumption
  <2> QED
    BY <2>1, <2>2, <2>3, <2>4
<1> QED
  BY <1>2, <1>3

\* What a run that plans <<p, d>> today reads of one entity for that day, if it
\* answers a fire of the day: everything.
LEMMA AnswersAreRead ==
    ASSUME ShadowAssumption, NEW p \in Proposals, NEW d \in Days,
           NEW plan \in SUBSET (Proposals \X Days), NEW now \in Nat,
           \A t \in plan : t[2] < now,
           <<p, d>> \in plan, NEW e \in events, e.at \in Int,
           e.ent \in Automation[p].actions
              \/ (Automation[p].kind = "event_pair" /\ e.ent = Automation[p].trigger),
           d * DayLen - Tolerance <= e.at, e.at < d * DayLen + DayLen + Tolerance
    PROVE  /\ e \in Fetched(plan, now)
           /\ e \in OnDay(Fetched(plan, now), d) \cup Adjacent(Fetched(plan, now), d)
<1> DEFINE days == {t[2] : t \in plan}
<1>1. d \in days /\ days \subseteq Nat /\ d < now
  BY DEF Days
<1>2. PICK m \in days : \A n \in Nat : n < m => n \notin days
  <2> HIDE DEF days
  <2> QED
    BY <1>1, Least
<1>3. \A n \in days : m <= n
  <2> HIDE DEF days
  <2> QED
    BY <1>1, <1>2
<1>4. Min(days) \in days /\ \A n \in days : Min(days) <= n
  <2> HIDE DEF days
  <2> QED
    BY <1>2, <1>3 DEF Min
<1> DEFINE first == Min(days)
<1>5. first \in Nat /\ first <= d
  BY <1>1, <1>4
<1> HIDE DEF first, days
<1>6. DayLen \in Nat \ {0} /\ Tolerance \in Nat /\ 2 * Tolerance <= DayLen /\ d \in Nat
  BY DEF ShadowAssumption, Days
<1>7. /\ first * DayLen \in Int /\ d * DayLen \in Int /\ now * DayLen \in Int
      /\ (d + 1) * DayLen = d * DayLen + DayLen /\ (d - 1) * DayLen = d * DayLen - DayLen
  BY <1>5, <1>6
<1>8. first * DayLen <= d * DayLen
  <2>1. CASE first = d
    BY <2>1, <1>7
  <2>2. CASE first < d
    BY <2>2, <1>5, <1>6, <1>7, Apart
  <2> QED
    BY <2>1, <2>2, <1>5, <1>6
<1>9. d * DayLen + DayLen <= now * DayLen
  BY <1>1, <1>6, Apart
<1>10. e.at \in EventWindow(first, now)
  <2> DEFINE from == first * DayLen
             midnight == d * DayLen
             upto == now * DayLen
  <2>1. /\ from \in Int /\ midnight \in Int /\ upto \in Int
        /\ from <= midnight /\ midnight + DayLen <= upto
        /\ midnight - Tolerance <= e.at /\ e.at < midnight + DayLen + Tolerance
    BY <1>7, <1>8, <1>9
  <2> HIDE DEF from, midnight, upto
  <2>2. e.at \in (from - Tolerance)..(upto + Tolerance - 1)
    BY <1>6, <2>1
  <2> QED
    BY <2>2 DEF EventWindow, from, upto
<1>11. e.ent \in InvolvedEntities({t[1] : t \in plan})
  <2>1. p \in {t[1] : t \in plan}
    OBVIOUS
  <2> QED
    BY <2>1 DEF InvolvedEntities
<1>12. e \in Fetched(plan, now)
  BY <1>10, <1>11 DEF Fetched, first, days
<1>13. DayOf(e.at) \in {d - 1, d, d + 1}
  <2>1. ASSUME NEW c \in Int, c * DayLen <= e.at, e.at < c * DayLen + DayLen
        PROVE  DayOf(e.at) = c
    BY <2>1, DayIs
  <2>2. d - 1 \in Int /\ d \in Int /\ d + 1 \in Int
    BY <1>6
  <2> QED
    BY <1>6, <1>7, <2>1, <2>2
<1>14. MinuteOf(e.at) = e.at - DayOf(e.at) * DayLen
  BY <1>6, DayIs
<1>15. CASE DayOf(e.at) = d
  BY <1>12, <1>15 DEF OnDay
<1>16. CASE DayOf(e.at) = d - 1
  <2>1. MinuteOf(e.at) >= DayLen - Tolerance
    BY <1>6, <1>7, <1>14, <1>16
  <2> QED
    BY <1>12, <1>16, <2>1 DEF OnDay, Adjacent
<1>17. CASE DayOf(e.at) = d + 1
  <2>1. MinuteOf(e.at) <= Tolerance
    BY <1>6, <1>7, <1>14, <1>17
  <2> QED
    BY <1>12, <1>17, <2>1 DEF OnDay, Adjacent
<1> QED
  BY <1>12, <1>13, <1>15, <1>16, <1>17

\* The events of other entities and days make no difference to a score.
LEMMA DayIsRead ==
    ASSUME ShadowAssumption, NEW p \in Proposals, NEW d \in Days,
           NEW plan \in SUBSET (Proposals \X Days), NEW now \in Nat,
           \A t \in plan : t[2] < now,
           <<p, d>> \in plan, \A e \in events : e.at \in Int
    PROVE  /\ FireMinutes(p, d, Fetched(plan, now)) = FireMinutes(p, d, events)
           /\ \A ent \in Automation[p].actions :
                 ByHand(OnDay(Fetched(plan, now), d), ent) = ByHand(OnDay(events, d), ent)
<1> DEFINE evs == Fetched(plan, now)
<1>1. evs \subseteq events
  BY DEF Fetched
<1>2. Tolerance \in Nat /\ d * DayLen \in Int /\ DayLen \in Int /\ d \in Int
  BY DEF ShadowAssumption, Days
<1>3. ASSUME NEW e \in OnDay(events, d),
             e.ent \in Automation[p].actions
               \/ (Automation[p].kind = "event_pair" /\ e.ent = Automation[p].trigger)
      PROVE  e \in OnDay(evs, d)
  <2>1. e \in events /\ e.at \in Int /\ DayOf(e.at) = d
    BY DEF OnDay
  <2>2. d * DayLen <= e.at /\ e.at < d * DayLen + DayLen
    BY <1>2, <2>1, DayIs
  <2>3. d * DayLen - Tolerance <= e.at /\ e.at < d * DayLen + DayLen + Tolerance
    BY <1>2, <2>1, <2>2
  <2>4. e \in evs
    BY <1>3, <2>1, <2>3, AnswersAreRead
  <2> QED
    BY <2>1, <2>4 DEF OnDay
<1> HIDE DEF evs
<1>4. OnDay(evs, d) \subseteq OnDay(events, d)
  BY <1>1 DEF OnDay
<1>5. FireMinutes(p, d, evs) = FireMinutes(p, d, events)
  <2>1. CASE Automation[p].kind = "time_of_day"
    BY <2>1 DEF FireMinutes
  <2>2. CASE Automation[p].kind # "time_of_day"
    <3>1. Automation[p].kind = "event_pair"
      BY <2>2 DEF ShadowAssumption
    <3>2. {v \in OnDay(evs, d) : v.ent = Automation[p].trigger}
            = {v \in OnDay(events, d) : v.ent = Automation[p].trigger}
      BY <1>3, <1>4, <3>1
    <3> QED
      BY <2>2, <3>2 DEF FireMinutes
  <2> QED
    BY <2>1, <2>2
<1>6. ASSUME NEW ent \in Automation[p].actions
      PROVE  ByHand(OnDay(evs, d), ent) = ByHand(OnDay(events, d), ent)
  BY <1>3, <1>4 DEF ByHand
<1> QED
  BY <1>5, <1>6 DEF evs

\* What a score hears includes the day.
LEMMA HeardIsDay ==
    ASSUME ShadowAssumption, NEW d \in Days, NEW evs, \A e \in evs : e.at \in Int
    PROVE  /\ OnDay(Heard(d, evs), d) = OnDay(evs, d) /\ Heard(d, evs) \subseteq evs
           /\ OnDay(Around(d, evs), d) = OnDay(evs, d) /\ Around(d, evs) \subseteq evs
<1>1. d \in Int /\ d * DayLen \in Int /\ DayLen \in Nat \ {0} /\ Tolerance \in Nat
  BY DEF ShadowAssumption, Days
<1>2. ASSUME NEW e \in evs, DayOf(e.at) = d PROVE e \in Heard(d, evs) /\ e \in Around(d, evs)
  <2>1. d * DayLen <= e.at /\ e.at < d * DayLen + DayLen
    BY <1>1, <1>2, DayIs
  <2>2. /\ Relative(e, d) \in -Tolerance..(DayLen + Tolerance - 1)
        /\ Relative(e, d) \in -Tolerance..(DayLen + Tolerance)
    BY <1>1, <2>1 DEF Relative
  <2> QED
    BY <2>2 DEF Heard, Around
<1>3. Heard(d, evs) \subseteq evs /\ Around(d, evs) \subseteq evs
  BY DEF Heard, Around
<1> QED
  BY <1>2, <1>3 DEF OnDay

\* Every fire whose answer could be heard is matched by the run.
LEMMA AnsweredAreMatched ==
    ASSUME ShadowAssumption, NEW p \in Proposals, NEW d \in Days,
           NEW plan \in SUBSET (Proposals \X Days), NEW now \in Nat,
           \A t \in plan : t[2] < now,
           <<p, d>> \in plan, \A e \in events : e.at \in Int,
           NEW ent \in Automation[p].actions
    PROVE  Answered(p, d, Heard(d, events), ent)
             \subseteq {d * DayLen + f : f \in MatchedFires(p, d, Fetched(plan, now), ent)}
<1> DEFINE evs == Fetched(plan, now)
           kind == Automation[p].kind
           read == ByHand(OnDay(evs, d) \cup Adjacent(evs, d), ent)
<1>1. d * DayLen \in Int /\ d \in Int /\ DayLen \in Int /\ Tolerance \in Nat
  BY DEF ShadowAssumption, Days
<1>2. FireMinutes(p, d, evs) = FireMinutes(p, d, events)
  BY DayIsRead
<1>3. /\ RealFires(p, d, events) = {d * DayLen + f : f \in FireMinutes(p, d, events)}
      /\ FireMinutes(p, d, events) \subseteq Int
  BY FiresShift
<1>4. RealFires(p, d, Heard(d, events)) = RealFires(p, d, events)
  BY HeardIsDay DEF RealFires
<1>5. ASSUME NEW t \in Answered(p, d, Heard(d, events), ent)
      PROVE  \E f \in MatchedFires(p, d, evs, ent) : t = d * DayLen + f
  <2>1. PICK h \in ByHand(Heard(d, events), ent) : Answers(kind, h.at, t)
    BY DEF Answered
  <2>2. PICK f \in FireMinutes(p, d, events) : t = d * DayLen + f
    BY <1>3, <1>4 DEF Answered
  <2>3. f \in Int
    BY <1>3
  <2>4. /\ h \in events /\ h.at \in Int /\ h.ent = ent /\ h.by = "manual"
        /\ Relative(h, d) \in -Tolerance..(DayLen + Tolerance - 1)
    BY DEF ByHand, Heard
  <2>5. d * DayLen - Tolerance <= h.at /\ h.at < d * DayLen + DayLen + Tolerance
    BY <1>1, <2>4 DEF Relative
  <2>6. h \in OnDay(evs, d) \cup Adjacent(evs, d)
    BY <2>4, <2>5, AnswersAreRead
  <2>7. h \in read
    BY <2>4, <2>6 DEF ByHand
  <2>8. Relative(h, d) \in Int /\ Relative(h, d) - f = h.at - t
    BY <1>1, <2>2, <2>3, <2>4 DEF Relative
  <2>9. InWindow(kind, Relative(h, d), f)
    <3>1. CASE kind = "event_pair"
      BY <2>1, <2>8, <3>1 DEF InWindow, Answers
    <3>2. CASE kind # "event_pair"
      <4>1. AbsVal(Relative(h, d) - f) <= Tolerance
        BY <2>1, <2>8, <3>2 DEF Answers
      <4>2. AbsVal(CircularDiff(Relative(h, d), f)) <= Tolerance
        BY <2>3, <2>8, <4>1, CloseIsClose
      <4> QED
        BY <3>2, <4>2 DEF InWindow
    <3> QED
      BY <3>1, <3>2
  <2> QED
    BY <1>2, <2>2, <2>7, <2>9 DEF MatchedFires
<1> HIDE DEF evs
<1> QED
  BY <1>5 DEF evs

\* What the circle calls near is near on the same or another day.
LEMMA CircleEchoes ==
    ASSUME ShadowAssumption, NEW a \in Int, NEW b \in Int,
           -(3 * DayLen) <= a - b, a - b < 3 * DayLen,
           AbsVal(CircularDiff(a, b)) <= Tolerance
    PROVE  \E k \in -3..3 : AbsVal((a - k * DayLen) - b) <= Tolerance
<1> DEFINE x == a - b
           m == x % DayLen
           q == x \div DayLen
<1>1. DayLen \in Nat \ {0} /\ Tolerance \in Nat
  BY DEF ShadowAssumption
<1>9. x \in Int /\ -(3 * DayLen) <= x /\ x < 3 * DayLen
  OBVIOUS
<1>2. q \in Int /\ m \in 0..(DayLen - 1) /\ x = q * DayLen + m
  <2> HIDE DEF x
  <2> QED
    BY <1>1, <1>9, DivMod
<1>3. CircularDiff(a, b) = IF 2 * m > DayLen THEN m - DayLen ELSE m
  BY DEF CircularDiff
<1>4. \A k \in Int : k * DayLen \in Int /\ (a - k * DayLen) - b = x - k * DayLen
  BY <1>1
<1> HIDE DEF x, m, q
<1>5. q \in -3..2
  <2>1. CASE q > 2
    <3>1. 2 * DayLen + DayLen <= q * DayLen
      BY <1>1, <1>2, <2>1, Apart
    <3>2. q * DayLen \in Int
      BY <1>1, <1>2
    <3> QED
      BY <1>1, <1>2, <1>9, <3>1, <3>2
  <2>2. CASE q < -3
    <3>1. q * DayLen + DayLen <= (-3) * DayLen
      BY <1>1, <1>2, <2>2, Apart
    <3>2. q * DayLen \in Int /\ (-3) * DayLen = -(3 * DayLen)
      BY <1>1, <1>2
    <3> QED
      BY <1>1, <1>2, <1>9, <3>1, <3>2
  <2> QED
    BY <1>2, <2>1, <2>2
<1>6. q * DayLen \in Int /\ (q + 1) * DayLen = q * DayLen + DayLen
  BY <1>1, <1>2
<1>7. CASE 2 * m > DayLen
  <2>1. x - (q + 1) * DayLen = m - DayLen
    BY <1>1, <1>2, <1>6
  <2>2. (a - (q + 1) * DayLen) - b = m - DayLen /\ q + 1 \in -3..3
    BY <1>2, <1>4, <1>5, <2>1
  <2>3. AbsVal((a - (q + 1) * DayLen) - b) <= Tolerance
    BY <1>3, <1>7, <2>2
  <2> QED
    BY <2>2, <2>3
<1>8. CASE ~(2 * m > DayLen)
  <2>1. x - q * DayLen = m
    BY <1>1, <1>2, <1>6
  <2>2. (a - q * DayLen) - b = m /\ q \in -3..3
    BY <1>2, <1>4, <1>5, <2>1
  <2>3. AbsVal((a - q * DayLen) - b) <= Tolerance
    BY <1>3, <1>8, <2>2
  <2> QED
    BY <2>2, <2>3
<1> QED
  BY <1>7, <1>8

\* Whatever the run matches is a real fire with an answer near the day.
LEMMA MatchedAreEchoed ==
    ASSUME ShadowAssumption, NEW p \in Proposals, NEW d \in Days,
           NEW plan \in SUBSET (Proposals \X Days), NEW now \in Nat,
           \A t \in plan : t[2] < now,
           <<p, d>> \in plan, \A e \in events : e.at \in Int,
           NEW ent \in Automation[p].actions,
           NEW f \in MatchedFires(p, d, Fetched(plan, now), ent)
    PROVE  /\ f \in Int /\ d * DayLen + f \in RealFires(p, d, events)
           /\ \E h \in ByHand(Around(d, events), ent) :
                 Echoes(Automation[p].kind, h.at, d * DayLen + f)
<1> DEFINE evs == Fetched(plan, now)
           kind == Automation[p].kind
<1>1. /\ d * DayLen \in Int /\ d \in Int /\ DayLen \in Nat \ {0} /\ Tolerance \in Nat
      /\ 2 * Tolerance <= DayLen
      /\ (d + 1) * DayLen = d * DayLen + DayLen /\ (d - 1) * DayLen = d * DayLen - DayLen
  BY DEF ShadowAssumption, Days
<1>2. f \in FireMinutes(p, d, events)
  BY DayIsRead DEF MatchedFires
<1>3. f \in (1 - DayLen)..(2 * DayLen - 2) /\ d * DayLen + f \in RealFires(p, d, events)
  BY <1>2, FiresShift
<1>4. PICK h \in ByHand(OnDay(evs, d) \cup Adjacent(evs, d), ent) :
        InWindow(kind, Relative(h, d), f)
  BY DEF MatchedFires
<1>5. /\ h \in events /\ h.at \in Int /\ h.ent = ent /\ h.by = "manual"
      /\ \/ DayOf(h.at) = d
         \/ DayOf(h.at) = d - 1 /\ MinuteOf(h.at) >= DayLen - Tolerance
         \/ DayOf(h.at) = d + 1 /\ MinuteOf(h.at) <= Tolerance
  BY DEF ByHand, OnDay, Adjacent, Fetched
<1>6. MinuteOf(h.at) \in 0..(DayLen - 1) /\ MinuteOf(h.at) = h.at - DayOf(h.at) * DayLen
  BY <1>1, <1>5, DayIs
<1>7. Relative(h, d) \in -Tolerance..(DayLen + Tolerance)
  <2>1. CASE DayOf(h.at) = d
    BY <1>1, <1>5, <1>6, <2>1 DEF Relative
  <2>2. CASE DayOf(h.at) = d - 1 /\ MinuteOf(h.at) >= DayLen - Tolerance
    <3>1. MinuteOf(h.at) = h.at - (d * DayLen - DayLen)
      BY <1>1, <1>6, <2>2
    <3> QED
      BY <1>1, <1>5, <1>6, <2>2, <3>1 DEF Relative
  <2>3. CASE DayOf(h.at) = d + 1 /\ MinuteOf(h.at) <= Tolerance
    <3>1. MinuteOf(h.at) = h.at - (d * DayLen + DayLen)
      BY <1>1, <1>6, <2>3
    <3> QED
      BY <1>1, <1>5, <1>6, <2>3, <3>1 DEF Relative
  <2> QED
    BY <1>5, <2>1, <2>2, <2>3
<1>8. h \in ByHand(Around(d, events), ent)
  BY <1>5, <1>7 DEF ByHand, Around
<1> DEFINE a == Relative(h, d)
           t == d * DayLen + f
<1>9. a \in Int /\ f \in Int /\ a - f = h.at - t
  BY <1>1, <1>3, <1>5 DEF Relative
<1>10. Echoes(kind, h.at, t)
  <2>1. CASE kind = "event_pair"
    BY <1>4, <1>9, <2>1 DEF InWindow, Echoes, Answers
  <2>2. CASE kind # "event_pair"
    <3>1. -(3 * DayLen) <= a - f /\ a - f < 3 * DayLen
      <4> HIDE DEF a
      <4>1. a \in -Tolerance..(DayLen + Tolerance)
        BY <1>7 DEF a
      <4> QED
        BY <1>1, <1>3, <4>1
    <3>2. AbsVal(CircularDiff(a, f)) <= Tolerance
      BY <1>4, <2>2 DEF InWindow
    <3>3. PICK k \in -3..3 : AbsVal((a - k * DayLen) - f) <= Tolerance
      <4> HIDE DEF a
      <4> QED
        BY <1>9, <3>1, <3>2, CircleEchoes
    <3>4. (h.at - k * DayLen) - t = (a - k * DayLen) - f
      <4> DEFINE back == k * DayLen
      <4>1. back \in Int
        BY <1>1
      <4>2. t \in Int
        BY <1>1, <1>9
      <4>3. h.at \in Int /\ a \in Int /\ f \in Int /\ a - f = h.at - t
        BY <1>5, <1>9
      <4> HIDE DEF a, t, back
      <4>4. ASSUME NEW x \in Int, a - f = x - t PROVE (x - back) - t = (a - back) - f
        BY <4>1, <4>2, <4>3, <4>4
      <4>5. (h.at - back) - t = (a - back) - f
        BY <4>3, <4>4
      <4> QED
        BY <4>5 DEF back
    <3> QED
      BY <2>2, <3>3, <3>4 DEF Echoes, Answers
  <2> QED
    BY <2>1, <2>2
<1> QED
  BY <1>3, <1>8, <1>9, <1>10

------------------------------------------------------------------------------
\* Scores and history.

\* Stored rows, and those a run will store.
AllRows == results \cup UNION {out[r] : r \in Runs}

Before(d) == {e \in events : DayOf(e.at) <= d}

AnsweredTotal(p, d, evs) ==
    Total([ent \in Automation[p].actions |-> Cardinality(Answered(p, d, evs, ent))])

EchoedTotal(p, d, evs) ==
    Total([ent \in Automation[p].actions |-> Cardinality(Echoed(p, d, evs, ent))])

\* A row is of a day that is over, and says of it what the history says and will
\* say.
RowFits(row) ==
    LET p == row.p
        d == row.day
        ents == Automation[p].actions
    IN  /\ created[p] \in 0..d
        /\ d < DayOf(clock)
        /\ ~row.hasty => (d + 1) * DayLen + Tolerance <= clock
        /\ row.fires = Total([ent \in ents |-> Cardinality(RealFires(p, d, events))])
        /\ row.total = Total([ent \in ents |-> Cardinality(ByHand(OnDay(events, d), ent))])
        /\ row.matches <= row.fires
        /\ AnsweredTotal(p, d, Heard(d, Before(d))) <= row.matches
        /\ ~row.hasty => AnsweredTotal(p, d, Heard(d, events)) <= row.matches
        /\ row.matches <= EchoedTotal(p, d, Around(d, events))
        /\ row.matches > row.total => Excess(p, d, events)

\* Events are of the past; runs plan days before their own, on which there was the
\* proposal.
HistoryInv ==
    /\ TypeOK
    /\ IsFiniteSet(events) /\ \A e \in events : e.at <= clock
    /\ clock <= MaxDay * DayLen + StartAt
    /\ \A r \in Runs :
          /\ today[r] <= DayOf(clock)
          /\ \A t \in todo[r] : t[2] < today[r] /\ created[t[1]] \in 0..t[2]
    /\ \A row \in AllRows : RowFits(row)

\* Sums of counts over an automation's actions.
LEMMA CountsGrow ==
    ASSUME ShadowAssumption, NEW p \in Proposals,
           NEW f, NEW g,
           f \in [Automation[p].actions -> Nat], g \in [Automation[p].actions -> Nat],
           \A ent \in Automation[p].actions : f[ent] <= g[ent]
    PROVE  Total(f) \in Nat /\ Total(g) \in Nat /\ Total(f) <= Total(g)
<1>1. IsFiniteSet(Automation[p].actions)
  BY DEF ShadowAssumption
<1> QED
  BY <1>1, TotalGrows

LEMMA SmallerSet ==
    ASSUME NEW S, NEW T, IsFiniteSet(T), S \subseteq T
    PROVE  /\ IsFiniteSet(S) /\ Cardinality(S) \in Nat /\ Cardinality(T) \in Nat
           /\ Cardinality(S) <= Cardinality(T)
BY FS_Subset, FS_CardinalityType

\* More events, more answers and echoes, as long as the fires are the same.
LEMMA MoreAnswers ==
    ASSUME ShadowAssumption, NEW p \in Proposals, NEW d \in Days,
           NEW evs, NEW more, IsFiniteSet(more), evs \subseteq more,
           \A e \in more : e.at \in Int,
           OnDay(evs, d) = OnDay(more, d)
    PROVE  /\ AnsweredTotal(p, d, evs) \in Nat /\ AnsweredTotal(p, d, more) \in Nat
           /\ AnsweredTotal(p, d, evs) <= AnsweredTotal(p, d, more)
           /\ EchoedTotal(p, d, evs) \in Nat /\ EchoedTotal(p, d, more) \in Nat
           /\ EchoedTotal(p, d, evs) <= EchoedTotal(p, d, more)
<1>1. IsFiniteSet(RealFires(p, d, more))
  BY FiniteParts
<1>2. RealFires(p, d, evs) = RealFires(p, d, more)
  BY DEF RealFires
<1>3. \A ent : ByHand(evs, ent) \subseteq ByHand(more, ent)
  BY DEF ByHand
<1> DEFINE f == [ent \in Automation[p].actions |-> Cardinality(Answered(p, d, evs, ent))]
           g == [ent \in Automation[p].actions |-> Cardinality(Answered(p, d, more, ent))]
           x == [ent \in Automation[p].actions |-> Cardinality(Echoed(p, d, evs, ent))]
           y == [ent \in Automation[p].actions |-> Cardinality(Echoed(p, d, more, ent))]
<1>4. ASSUME NEW ent \in Automation[p].actions
      PROVE  /\ Cardinality(Answered(p, d, evs, ent)) \in Nat
             /\ Cardinality(Answered(p, d, more, ent)) \in Nat
             /\ Cardinality(Answered(p, d, evs, ent)) <= Cardinality(Answered(p, d, more, ent))
  <2>1. IsFiniteSet(Answered(p, d, more, ent))
    BY <1>1, SmallerSet DEF Answered
  <2>2. Answered(p, d, evs, ent) \subseteq Answered(p, d, more, ent)
    BY <1>2, <1>3 DEF Answered
  <2> QED
    BY <2>1, <2>2, SmallerSet
<1>5. ASSUME NEW ent \in Automation[p].actions
      PROVE  /\ Cardinality(Echoed(p, d, evs, ent)) \in Nat
             /\ Cardinality(Echoed(p, d, more, ent)) \in Nat
             /\ Cardinality(Echoed(p, d, evs, ent)) <= Cardinality(Echoed(p, d, more, ent))
  <2>1. IsFiniteSet(Echoed(p, d, more, ent))
    BY <1>1, SmallerSet DEF Echoed
  <2>2. Echoed(p, d, evs, ent) \subseteq Echoed(p, d, more, ent)
    BY <1>2, <1>3 DEF Echoed
  <2> QED
    BY <2>1, <2>2, SmallerSet
<1>6. /\ f \in [Automation[p].actions -> Nat] /\ g \in [Automation[p].actions -> Nat]
      /\ \A ent \in Automation[p].actions : f[ent] <= g[ent]
  BY <1>4
<1>7. /\ x \in [Automation[p].actions -> Nat] /\ y \in [Automation[p].actions -> Nat]
      /\ \A ent \in Automation[p].actions : x[ent] <= y[ent]
  BY <1>5
<1> HIDE DEF f, g, x, y
<1>8. Total(f) \in Nat /\ Total(g) \in Nat /\ Total(f) <= Total(g)
  BY <1>6, CountsGrow
<1>9. Total(x) \in Nat /\ Total(y) \in Nat /\ Total(x) <= Total(y)
  BY <1>7, CountsGrow
<1> QED
  BY <1>8, <1>9 DEF AnsweredTotal, EchoedTotal, f, g, x, y

\* Without an answer across midnight or an answer of two fires, every matched fire
\* has a human event of the day for itself.
LEMMA MatchesTakeTurns ==
    ASSUME ShadowAssumption, NEW p \in Proposals, NEW d \in Days,
           NEW plan \in SUBSET (Proposals \X Days), NEW now \in Nat,
           \A t \in plan : t[2] < now,
           <<p, d>> \in plan, IsFiniteSet(events), \A e \in events : e.at \in Int,
           NEW ent \in Automation[p].actions, ~Excess(p, d, events)
    PROVE  Cardinality(MatchedFires(p, d, Fetched(plan, now), ent))
             <= Cardinality(ByHand(OnDay(events, d), ent))
<1> DEFINE matched == MatchedFires(p, d, Fetched(plan, now), ent)
           hands == ByHand(OnDay(events, d), ent)
           k == d * DayLen
           answer(f) == CHOOSE h \in ByHand(Around(d, events), ent) :
                          Echoes(Automation[p].kind, h.at, k + f)
           g == [f \in matched |-> answer(f)]
<1>1. ASSUME NEW f \in matched
      PROVE  /\ f \in Int /\ k + f \in RealFires(p, d, events)
             /\ answer(f) \in ByHand(Around(d, events), ent)
             /\ Echoes(Automation[p].kind, answer(f).at, k + f)
  <2>1. /\ f \in Int /\ k + f \in RealFires(p, d, events)
        /\ \E h \in ByHand(Around(d, events), ent) : Echoes(Automation[p].kind, h.at, k + f)
    BY MatchedAreEchoed
  <2> HIDE DEF k
  <2> QED
    BY <2>1
<1>2. k \in Int
  BY DEF ShadowAssumption, Days
<1>3. ASSUME NEW h \in ByHand(Around(d, events), ent), NEW t \in RealFires(p, d, events),
             Echoes(Automation[p].kind, h.at, t)
      PROVE  /\ DayOf(h.at) = d
             /\ \A u \in RealFires(p, d, events) : Echoes(Automation[p].kind, h.at, u) => u = t
  BY <1>3, Zenon DEF Excess
<1> HIDE DEF answer, matched, k
<1>4. ASSUME NEW f \in matched PROVE answer(f) \in hands
  <2>1. DayOf(answer(f).at) = d
    BY <1>1, <1>3
  <2> QED
    BY <1>1, <2>1 DEF ByHand, OnDay, Around
<1>5. ASSUME NEW f \in matched, NEW f2 \in matched, answer(f) = answer(f2) PROVE f = f2
  <2>1. k + f = k + f2
    BY <1>1, <1>3, <1>5
  <2>2. f \in Int /\ f2 \in Int
    BY <1>1
  <2> QED
    BY <1>2, <2>1, <2>2
<1>6. g \in Injection(matched, hands)
  BY <1>4, <1>5 DEF Injection, IsInjective
<1>7. IsFiniteSet(hands)
  BY FiniteParts
<1> HIDE DEF g, hands
<1>8. Cardinality(matched) <= Cardinality(hands)
  BY <1>6, <1>7, FS_Injection
<1> QED
  BY <1>8 DEF matched, hands

\* A new score fits.
LEMMA ScoreFits ==
    ASSUME ShadowAssumption, NEW p \in Proposals, NEW d \in Days,
           NEW plan \in SUBSET (Proposals \X Days), NEW now \in Nat,
           \A t \in plan : t[2] < now, now <= DayOf(clock), clock \in Nat,
           <<p, d>> \in plan, created[p] \in 0..d,
           IsFiniteSet(events), \A e \in events : e.at \in Int
    PROVE  /\ Score(p, d, Fetched(plan, now)) \in Result
           /\ RowFits(Score(p, d, Fetched(plan, now)))
<1> DEFINE evs == Fetched(plan, now)
           ents == Automation[p].actions
           k == d * DayLen
           matched(ent) == MatchedFires(p, d, evs, ent)
           F == [ent \in ents |-> Cardinality(FireMinutes(p, d, evs))]
           M == [ent \in ents |-> Cardinality(matched(ent))]
           T == [ent \in ents |-> Cardinality(ByHand(OnDay(evs, d), ent))]
           A == [ent \in ents |-> Cardinality(Answered(p, d, Heard(d, events), ent))]
           E == [ent \in ents |-> Cardinality(Echoed(p, d, Around(d, events), ent))]
<1>0. k \in Int /\ d \in Int /\ DayLen \in Int /\ Tolerance \in Int
  BY DEF ShadowAssumption, Days
<1>1. /\ IsFiniteSet(FireMinutes(p, d, events)) /\ FireMinutes(p, d, events) \subseteq Int
      /\ IsFiniteSet(RealFires(p, d, events))
      /\ \A ent : IsFiniteSet(ByHand(OnDay(events, d), ent))
  <2>1. FireMinutes(p, d, events) \subseteq Int
    BY FiresShift
  <2> QED
    BY <2>1, FiniteParts
<1>2. /\ FireMinutes(p, d, evs) = FireMinutes(p, d, events)
      /\ \A ent \in ents : ByHand(OnDay(evs, d), ent) = ByHand(OnDay(events, d), ent)
  BY DayIsRead
<1>3. Cardinality(RealFires(p, d, events)) = Cardinality(FireMinutes(p, d, evs))
  <2> DEFINE S == FireMinutes(p, d, events)
  <2>1. RealFires(p, d, events) = {k + f : f \in S}
    BY FiresShift
  <2>2. Cardinality({k + f : f \in S}) = Cardinality(S)
    <3> HIDE DEF k, S
    <3>1. IsFiniteSet(S) /\ S \subseteq Int
      BY <1>1 DEF S
    <3> QED
      BY <1>0, <3>1, Shifted
  <2> QED
    BY <1>2, <2>1, <2>2
<1>4. /\ RealFires(p, d, Heard(d, events)) = RealFires(p, d, events)
      /\ RealFires(p, d, Around(d, events)) = RealFires(p, d, events)
  BY HeardIsDay DEF RealFires
<1>5. ASSUME NEW ent \in ents
      PROVE  /\ F[ent] \in Nat /\ M[ent] \in Nat /\ T[ent] \in Nat /\ A[ent] \in Nat
             /\ E[ent] \in Nat
             /\ M[ent] <= F[ent] /\ A[ent] <= M[ent] /\ M[ent] <= E[ent]
             /\ M[ent] > T[ent] => Excess(p, d, events)
  <2> DEFINE m == {k + f : f \in matched(ent)}
             a == Answered(p, d, Heard(d, events), ent)
             x == Echoed(p, d, Around(d, events), ent)
             hands == ByHand(OnDay(events, d), ent)
  <2>1. matched(ent) \subseteq FireMinutes(p, d, evs)
    BY DEF MatchedFires
  <2>2. /\ IsFiniteSet(matched(ent)) /\ matched(ent) \subseteq Int
        /\ Cardinality(matched(ent)) \in Nat /\ Cardinality(FireMinutes(p, d, evs)) \in Nat
        /\ Cardinality(matched(ent)) <= Cardinality(FireMinutes(p, d, evs))
    BY <1>1, <1>2, <2>1, SmallerSet
  <2>3. IsFiniteSet(m) /\ Cardinality(m) = Cardinality(matched(ent))
    <3> HIDE DEF k, matched
    <3> QED
      BY <1>0, <2>2, Shifted
  <2>4. a \subseteq m
    BY AnsweredAreMatched
  <2>5. m \subseteq x
    <3> SUFFICES ASSUME NEW f \in matched(ent) PROVE k + f \in x
      OBVIOUS
    <3>1. /\ k + f \in RealFires(p, d, events)
          /\ \E h \in ByHand(Around(d, events), ent) : Echoes(Automation[p].kind, h.at, k + f)
      BY MatchedAreEchoed
    <3> QED
      BY <1>4, <3>1, Zenon DEF Echoed
  <2>6. IsFiniteSet(x)
    BY <1>1, <1>4, SmallerSet DEF Echoed
  <2>7. Cardinality(matched(ent)) > Cardinality(hands) => Excess(p, d, events)
    <3>1. Cardinality(hands) \in Nat
      BY <1>1, FS_CardinalityType
    <3>2. ~Excess(p, d, events) => Cardinality(matched(ent)) <= Cardinality(hands)
      BY MatchesTakeTurns
    <3> HIDE DEF matched, hands
    <3> QED
      BY <2>2, <3>1, <3>2
  <2>8. ByHand(OnDay(evs, d), ent) = hands /\ Cardinality(hands) \in Nat
    BY <1>1, <1>2, FS_CardinalityType
  <2> HIDE DEF matched, evs, m, a, x, hands
  <2>9. /\ Cardinality(a) \in Nat /\ Cardinality(x) \in Nat
        /\ Cardinality(a) <= Cardinality(m) /\ Cardinality(m) <= Cardinality(x)
    BY <2>3, <2>4, <2>5, <2>6, SmallerSet
  <2>10. /\ F[ent] = Cardinality(FireMinutes(p, d, evs)) /\ M[ent] = Cardinality(matched(ent))
         /\ T[ent] = Cardinality(hands) /\ A[ent] = Cardinality(a) /\ E[ent] = Cardinality(x)
    BY <2>8 DEF a, x
  <2> HIDE DEF F, M, T, A, E
  <2> QED
    BY <2>2, <2>3, <2>7, <2>8, <2>9, <2>10
<1>6. /\ F \in [ents -> Nat] /\ M \in [ents -> Nat] /\ T \in [ents -> Nat] /\ A \in [ents -> Nat]
      /\ E \in [ents -> Nat]
      /\ \A ent \in ents : M[ent] <= F[ent] /\ A[ent] <= M[ent] /\ M[ent] <= E[ent]
      /\ ~Excess(p, d, events) => \A ent \in ents : M[ent] <= T[ent]
  <2>1. /\ F = [ent \in ents |-> F[ent]] /\ M = [ent \in ents |-> M[ent]]
        /\ T = [ent \in ents |-> T[ent]] /\ A = [ent \in ents |-> A[ent]]
        /\ E = [ent \in ents |-> E[ent]]
    OBVIOUS
  <2> HIDE DEF F, M, T, A, E
  <2>2. /\ F \in [ents -> Nat] /\ M \in [ents -> Nat]
        /\ T \in [ents -> Nat] /\ A \in [ents -> Nat] /\ E \in [ents -> Nat]
    BY <1>5, <2>1
  <2>3. ~Excess(p, d, events) => \A ent \in ents : M[ent] <= T[ent]
    BY <1>5
  <2> QED
    BY <1>5, <2>2, <2>3
<1>7. /\ F = [ent \in ents |-> Cardinality(RealFires(p, d, events))]
      /\ T = [ent \in ents |-> Cardinality(ByHand(OnDay(events, d), ent))]
  BY <1>2, <1>3
<1>8. /\ Total(F) \in Nat /\ Total(M) \in Nat /\ Total(T) \in Nat
      /\ Total(A) \in Nat /\ Total(E) \in Nat
      /\ Total(M) <= Total(F) /\ Total(A) <= Total(M) /\ Total(M) <= Total(E)
      /\ ~Excess(p, d, events) => Total(M) <= Total(T)
  <2> HIDE DEF F, M, T, A, E
  <2>1. Total(M) \in Nat /\ Total(F) \in Nat /\ Total(M) <= Total(F)
    BY <1>6, CountsGrow
  <2>2. Total(A) \in Nat /\ Total(A) <= Total(M)
    BY <1>6, CountsGrow
  <2>3. Total(E) \in Nat /\ Total(M) <= Total(E)
    BY <1>6, CountsGrow
  <2>4. Total(T) \in Nat
    <3>1. \A ent \in ents : T[ent] <= T[ent]
      BY <1>6
    <3> QED
      BY <1>6, <3>1, CountsGrow
  <2>5. ~Excess(p, d, events) => Total(M) <= Total(T)
    BY <1>6, CountsGrow
  <2> QED
    BY <2>1, <2>2, <2>3, <2>4, <2>5
<1>9. /\ AnsweredTotal(p, d, Heard(d, Before(d))) \in Nat
      /\ AnsweredTotal(p, d, Heard(d, Before(d))) <= Total(A)
  <2>1. /\ Heard(d, Before(d)) \subseteq Heard(d, events) /\ Heard(d, events) \subseteq events
        /\ \A e \in Before(d) : e.at \in Int
    BY DEF Heard, Before
  <2>2. OnDay(Heard(d, Before(d)), d) = OnDay(Heard(d, events), d)
    <3>1. OnDay(Before(d), d) = OnDay(events, d)
      BY <1>0, DayIs DEF Before, OnDay
    <3> QED
      BY <2>1, <3>1, HeardIsDay
  <2>3. IsFiniteSet(Heard(d, events)) /\ \A e \in Heard(d, events) : e.at \in Int
    BY <2>1, FS_Subset
  <2>4. AnsweredTotal(p, d, Heard(d, events)) = Total(A)
    BY DEF AnsweredTotal
  <2> HIDE DEF A
  <2> QED
    BY <2>1, <2>2, <2>3, <2>4, MoreAnswers
<1> DEFINE row == Score(p, d, evs)
<1>10. /\ row.p = p /\ row.day = d /\ row.fires = Total(F) /\ row.matches = Total(M)
       /\ row.total = Total(T) /\ row.hasty = (clock < (d + 1) * DayLen + Tolerance)
       /\ row = [p |-> p, day |-> d, fires |-> Total(F), matches |-> Total(M),
                 total |-> Total(T), hasty |-> clock < (d + 1) * DayLen + Tolerance]
  BY DEF Score
<1>11. /\ AnsweredTotal(p, d, Heard(d, events)) = Total(A)
       /\ EchoedTotal(p, d, Around(d, events)) = Total(E)
  BY DEF AnsweredTotal, EchoedTotal
<1> HIDE DEF F, M, T, A, E, evs, row
<1>12. row \in Result
  BY <1>8, <1>10 DEF Result
<1>13. d < DayOf(clock)
  <2>1. d < now
    OBVIOUS
  <2>2. DayOf(clock) \in Int
    BY <1>0, DayIs
  <2> QED
    BY <1>0, <2>1, <2>2
<1>14. ~row.hasty => (d + 1) * DayLen + Tolerance <= clock
  <2> DEFINE answered == (d + 1) * DayLen + Tolerance
  <2>1. answered \in Int
    BY <1>0
  <2>2. ~row.hasty => ~(clock < answered)
    BY <1>10, Zenon
  <2> HIDE DEF answered
  <2>3. ~row.hasty => answered <= clock
    BY <2>1, <2>2
  <2> QED
    BY <2>3 DEF answered
<1>15. Total(M) > Total(T) => Excess(p, d, events)
  BY <1>8
<1>16. AnsweredTotal(p, d, Heard(d, Before(d))) <= Total(M)
  BY <1>8, <1>9
<1>17. RowFits(row)
  BY <1>7, <1>8, <1>10, <1>11, <1>13, <1>14, <1>15, <1>16 DEF RowFits
<1> QED
  BY <1>12, <1>17 DEF row, evs

\* With more human events, and the same fires, an excess stays one.
LEMMA ExcessStays ==
    ASSUME NEW p, NEW d, NEW evs, NEW more, evs \subseteq more,
           RealFires(p, d, evs) = RealFires(p, d, more), Excess(p, d, evs)
    PROVE  Excess(p, d, more)
<1>1. \A ent : ByHand(Around(d, evs), ent) \subseteq ByHand(Around(d, more), ent)
  BY DEF ByHand, Around
<1> QED
  BY <1>1 DEF Excess

\* An event of now changes no score of a day that is over.
LEMMA FitsWhenEvent ==
    ASSUME ShadowAssumption, HistoryInv, NEW row \in Result, RowFits(row),
           NEW e, Happen(e)
    PROVE  RowFits(row)'
<1> DEFINE p == row.p
           d == row.day
           now == events \cup {e}
<1>1. p \in Proposals /\ d \in Days /\ d \in Int /\ d * DayLen \in Int
      /\ DayLen \in Nat \ {0} /\ Tolerance \in Nat
      /\ (d + 1) * DayLen = d * DayLen + DayLen
  BY DEF Result, ShadowAssumption, Days
<1>2. /\ events' = now /\ clock' = clock /\ created' = created
      /\ e.at = clock /\ clock \in Nat /\ clock \in Int
  BY DEF Happen, HistoryInv, TypeOK
<1>3. /\ IsFiniteSet(now) /\ \A v \in now : v.at \in Int
      /\ IsFiniteSet(events) /\ \A v \in events : v.at \in Int
  <2>1. IsFiniteSet(now)
    BY FS_AddElement DEF HistoryInv
  <2>2. \A v \in events : v.at \in Int
    BY DEF HistoryInv, TypeOK, Event
  <2> QED
    BY <1>2, <2>1, <2>2 DEF HistoryInv
<1>4. d < DayOf(clock) /\ DayOf(clock) \in Int
  BY <1>2, <1>1, DayIs DEF RowFits
<1>5. OnDay(now, d) = OnDay(events, d) /\ Before(d)' = Before(d)
  BY <1>1, <1>2, <1>4 DEF OnDay, Before
<1>6. RealFires(p, d, now) = RealFires(p, d, events)
  BY <1>5 DEF RealFires
<1> HIDE DEF p, d, now
\* It comes too late to be heard, but for a score that was hasty.
<1>7. ASSUME ~row.hasty PROVE Heard(d, now) = Heard(d, events)
  <2>1. (d + 1) * DayLen + Tolerance <= e.at
    BY <1>2, <1>7 DEF RowFits, d
  <2>2. Relative(e, d) \notin -Tolerance..(DayLen + Tolerance - 1)
    BY <1>1, <1>2, <2>1 DEF Relative
  <2> QED
    BY <2>2 DEF Heard, now
<1>8. /\ EchoedTotal(p, d, Around(d, events)) \in Nat
      /\ EchoedTotal(p, d, Around(d, now)) \in Nat
      /\ EchoedTotal(p, d, Around(d, events)) <= EchoedTotal(p, d, Around(d, now))
  <2>1. Around(d, events) \subseteq Around(d, now) /\ Around(d, now) \subseteq now
    BY DEF Around, now
  <2>2. IsFiniteSet(Around(d, now)) /\ \A v \in Around(d, now) : v.at \in Int
    BY <1>3, <2>1, FS_Subset
  <2>3. OnDay(Around(d, events), d) = OnDay(Around(d, now), d)
    BY <1>1, <1>3, <1>5, HeardIsDay
  <2> QED
    BY <1>1, <2>1, <2>2, <2>3, MoreAnswers
<1>9. Excess(p, d, events) => Excess(p, d, now)
  <2>1. events \subseteq now
    BY DEF now
  <2> QED
    BY <1>6, <2>1, ExcessStays
<1>10. /\ created'[p] \in 0..d
       /\ d < DayOf(clock')
       /\ ~row.hasty => (d + 1) * DayLen + Tolerance <= clock'
       /\ row.fires = Total([ent \in Automation[p].actions |-> Cardinality(RealFires(p, d, events'))])
       /\ row.total = Total([ent \in Automation[p].actions |->
                               Cardinality(ByHand(OnDay(events', d), ent))])
       /\ row.matches <= row.fires
       /\ AnsweredTotal(p, d, Heard(d, Before(d)')) <= row.matches
  BY <1>2, <1>5, <1>6 DEF RowFits, p, d
<1>11. ~row.hasty => AnsweredTotal(p, d, Heard(d, events')) <= row.matches
  BY <1>2, <1>7 DEF RowFits, p, d
<1>12. row.matches <= EchoedTotal(p, d, Around(d, events'))
  <2>1. row.matches \in Nat
    BY DEF Result
  <2>2. row.matches <= EchoedTotal(p, d, Around(d, events))
    BY DEF RowFits, p, d
  <2> QED
    BY <1>2, <1>8, <2>1, <2>2
<1>13. row.matches > row.total => Excess(p, d, events')
  BY <1>2, <1>9 DEF RowFits, p, d
<1> QED
  BY <1>10, <1>11, <1>12, <1>13
  DEF RowFits, p, d, AnsweredTotal, EchoedTotal, Answered, Echoed, Excess, Heard, Around,
      RealFires, Relative

LEMMA FitsWhenTick ==
    ASSUME ShadowAssumption, NEW row \in Result, RowFits(row), clock \in Nat, Tick
    PROVE  RowFits(row)'
<1> DEFINE d == row.day
<1>1. /\ d \in Int /\ clock' = clock + 1 /\ events' = events
      /\ Tolerance \in Int /\ DayLen \in Int /\ (d + 1) * DayLen \in Int
  BY DEF Result, Days, Tick, ShadowAssumption
<1>2. d < DayOf(clock')
  <2>1. ASSUME NEW a \in Int PROVE d < DayOf(a) <=> (d + 1) * DayLen <= a
    <3> DEFINE next == d + 1
               midnight == next * DayLen
               q == DayOf(a)
    <3>1. next \in Int /\ midnight \in Int
      BY <1>1
    <3>2. q \in Int /\ (q < next <=> a < midnight)
      <4> HIDE DEF next
      <4> QED
        BY <3>1, DayIs
    <3> HIDE DEF midnight, q
    <3>3. d < q <=> midnight <= a
      BY <1>1, <3>1, <3>2
    <3> QED
      BY <3>3 DEF midnight, q
  <2>2. d < DayOf(clock)
    BY DEF RowFits
  <2> QED
    BY <1>1, <2>1, <2>2
<1>3. ~row.hasty => (d + 1) * DayLen + Tolerance <= clock'
  BY <1>1 DEF RowFits
<1>4. created' = created
  BY DEF Tick
<1> QED
  BY <1>1, <1>2, <1>3, <1>4 DEF RowFits, AnsweredTotal, EchoedTotal, Before, Excess

LEMMA FitsKept ==
    ASSUME NEW row, RowFits(row), UNCHANGED <<clock, events>>,
           created[row.p] # -1 => created'[row.p] = created[row.p]
    PROVE  RowFits(row)'
<1>1. created'[row.p] = created[row.p]
  BY DEF RowFits
<1> QED
  BY <1>1 DEF RowFits, AnsweredTotal, EchoedTotal, Before, Excess

LEMMA HistoryInit == ASSUME ShadowAssumption, Init PROVE HistoryInv
<1> DEFINE last == MaxDay * DayLen
           end == (MaxDay + 1) * DayLen
<1>1. /\ DayLen \in Nat \ {0} /\ MaxDay \in Nat /\ StartAt \in Nat
      /\ last \in Nat /\ end = last + DayLen
      /\ 0 \in Days
  BY DEF ShadowAssumption, Days
<1> HIDE DEF last, end
<1>2. AllRows = {}
  BY DEF Init, AllRows
<1>3. TypeOK
  <2>1. clock \in 0..(end - 1)
    BY <1>1 DEF Init
  <2>2. \A row \in results \cup UNION {out[r] : r \in Runs} : row \in Result
    BY <1>2 DEF AllRows
  <2>3. /\ events \subseteq Event /\ live \subseteq {p \in Proposals : created[p] # -1}
        /\ created \in [Proposals -> Days \cup {-1}]
        /\ pc \in [Runs -> {"idle", "events", "insert"}] /\ today \in [Runs -> Days]
        /\ batch \in [Runs -> SUBSET Proposals]
        /\ todo \in [Runs -> SUBSET (Proposals \X Days)]
    BY <1>1 DEF Init
  <2> QED
    BY <2>1, <2>2, <2>3 DEF TypeOK, end
<1>4. DayOf(0) = 0
  BY <1>1, DayIs
<1>5. clock <= last + StartAt
  BY <1>1 DEF Init
<1>6. \A r \in Runs : today[r] <= DayOf(clock) /\ todo[r] = {}
  BY <1>4 DEF Init
<1>7. IsFiniteSet(events) /\ events = {}
  BY FS_EmptySet DEF Init
<1> QED
  BY <1>2, <1>3, <1>5, <1>6, <1>7 DEF HistoryInv, last

LEMMA RowsAreResults == ASSUME HistoryInv PROVE \A row \in AllRows : row \in Result /\ RowFits(row)
BY DEF HistoryInv, TypeOK, AllRows

\* What the steps that concern no run's plan and no row keep.
LEMMA HistoryKept ==
    ASSUME HistoryInv, UNCHANGED <<clock, events, results, run>>,
           live' \subseteq {p \in Proposals : created'[p] # -1},
           created' \in [Proposals -> Days \cup {-1}],
           \A p \in Proposals : created[p] # -1 => created'[p] = created[p]
    PROVE  HistoryInv'
<1>1. TypeOK'
  BY DEF HistoryInv, TypeOK, run
<1>2. AllRows' = AllRows
  BY DEF AllRows, run
<1>3. \A row \in AllRows' : RowFits(row)'
  <2> SUFFICES ASSUME NEW row \in AllRows PROVE RowFits(row)'
    BY <1>2
  <2>1. RowFits(row) /\ row.p \in Proposals
    BY RowsAreResults DEF Result
  <2> QED
    BY <2>1, FitsKept
<1>4. \A r \in Runs : \A t \in todo[r] : t[2] < today[r] /\ created'[t[1]] \in 0..t[2]
  <2> SUFFICES ASSUME NEW r \in Runs, NEW t \in todo[r]
               PROVE  t[2] < today[r] /\ created'[t[1]] \in 0..t[2]
    OBVIOUS
  <2>1. t[1] \in Proposals /\ t[2] < today[r] /\ created[t[1]] \in 0..t[2]
    BY DEF HistoryInv, TypeOK
  <2>2. created'[t[1]] = created[t[1]]
    BY <2>1
  <2> QED
    BY <2>1, <2>2
<1> QED
  BY <1>1, <1>3, <1>4 DEF HistoryInv, run

LEMMA HistoryTick == ASSUME ShadowAssumption, HistoryInv, Tick PROVE HistoryInv'
<1>1. /\ clock' = clock + 1 /\ clock < MaxDay * DayLen + StartAt
      /\ UNCHANGED <<events, live, created, results, pc, today, batch, todo, out>>
  BY DEF Tick, run
<1>2. /\ DayLen \in Nat \ {0} /\ MaxDay \in Nat /\ StartAt \in 0..(DayLen - 1)
      /\ MaxDay * DayLen \in Nat /\ (MaxDay + 1) * DayLen = MaxDay * DayLen + DayLen
      /\ clock \in Nat
  BY DEF ShadowAssumption, HistoryInv, TypeOK
<1>3. clock' <= MaxDay * DayLen + StartAt /\ clock' \in 0..((MaxDay + 1) * DayLen - 1)
  BY <1>1, <1>2
<1>4. TypeOK'
  BY <1>1, <1>3 DEF HistoryInv, TypeOK
<1>5. AllRows' = AllRows
  BY <1>1 DEF AllRows
<1>6. \A row \in AllRows' : RowFits(row)'
  BY <1>2, <1>5, RowsAreResults, FitsWhenTick
<1>7. DayOf(clock) <= DayOf(clock') /\ DayOf(clock) \in Int /\ DayOf(clock') \in Int
  <2> DEFINE q == DayOf(clock)
  <2>1. q \in Int /\ q * DayLen <= clock /\ q * DayLen \in Int
    <3>1. clock \in Int /\ q \in Int
      BY <1>2, DayIs
    <3> QED
      BY <3>1, DayIs
  <2>2. clock' \in Int /\ q * DayLen <= clock'
    BY <1>1, <1>2, <2>1
  <2> HIDE DEF q
  <2>3. DayOf(clock') \in Int /\ ~(DayOf(clock') < q)
    BY <2>1, <2>2, DayIs
  <2>4. q <= DayOf(clock')
    BY <2>1, <2>3
  <2> QED
    BY <2>1, <2>3, <2>4 DEF q
<1>8. \A e \in events' : e.at <= clock'
  <2>1. \A e \in events : e.at \in Nat /\ e.at <= clock
    BY <1>2 DEF HistoryInv, TypeOK, Event
  <2> QED
    BY <1>1, <1>2, <2>1
<1>9. \A r \in Runs :
        /\ today'[r] <= DayOf(clock')
        /\ \A t \in todo'[r] : t[2] < today'[r] /\ created'[t[1]] \in 0..t[2]
  <2>1. \A r \in Runs : today[r] \in Int
    BY DEF HistoryInv, TypeOK, Days
  <2> QED
    BY <1>1, <1>7, <2>1 DEF HistoryInv
<1> QED
  BY <1>1, <1>3, <1>4, <1>6, <1>8, <1>9 DEF HistoryInv

LEMMA HistoryHappen ==
    ASSUME ShadowAssumption, HistoryInv, NEW act \in Acts,
           Happen([at |-> clock, ent |-> act.ent, by |-> act.by])
    PROVE  HistoryInv'
<1> DEFINE e == [at |-> clock, ent |-> act.ent, by |-> act.by]
<1>1. /\ events' = events \cup {e}
      /\ UNCHANGED <<clock, live, created, results, pc, today, batch, todo, out>>
  BY DEF Happen, run
<1>2. e \in Event
  <2>1. act.ent \in Entities /\ act.by \in Actors
    BY DEF ShadowAssumption
  <2>2. clock \in 0..((MaxDay + 1) * DayLen)
    <3>1. (MaxDay + 1) * DayLen \in Int
      BY DEF ShadowAssumption
    <3> QED
      BY <3>1 DEF HistoryInv, TypeOK
  <2> QED
    BY <2>1, <2>2 DEF Event
<1>3. e.at = clock /\ clock \in Nat
  BY DEF HistoryInv, TypeOK
<1>4. \A row \in AllRows : RowFits(row)'
  BY RowsAreResults, FitsWhenEvent
<1> HIDE DEF e
<1>5. TypeOK'
  BY <1>1, <1>2 DEF HistoryInv, TypeOK
<1>6. AllRows' = AllRows
  BY <1>1 DEF AllRows
<1>7. IsFiniteSet(events') /\ \A v \in events' : v.at <= clock'
  BY <1>1, <1>3, FS_AddElement DEF HistoryInv
<1> QED
  BY <1>1, <1>4, <1>5, <1>6, <1>7 DEF HistoryInv

LEMMA HistoryStart ==
    ASSUME ShadowAssumption, HistoryInv, NEW r \in Runs, Start(r)
    PROVE  HistoryInv'
<1> DEFINE now == DayOf(clock)
           plan == UNION {{<<p, d>> : d \in {n \in Needed(p, now) : ~Scored(p, n)}} : p \in live}
<1>1. /\ pc' = [pc EXCEPT ![r] = "events"]
      /\ today' = [today EXCEPT ![r] = now]
      /\ batch' = [batch EXCEPT ![r] = live]
      /\ todo' = [todo EXCEPT ![r] = plan]
      /\ UNCHANGED <<clock, events, live, created, results, out>>
  BY DEF Start, Statement
<1>2. now \in Days
  <2>1. /\ DayLen \in Nat \ {0} /\ MaxDay \in Nat /\ StartAt \in 0..(DayLen - 1)
        /\ MaxDay * DayLen \in Nat /\ (MaxDay + 1) * DayLen = MaxDay * DayLen + DayLen
        /\ clock \in Nat /\ clock <= MaxDay * DayLen + StartAt
    BY DEF ShadowAssumption, HistoryInv, TypeOK
  <2>2. now \in Int
    BY <2>1, DayIs
  <2>3. now < MaxDay + 1
    <3> DEFINE last == MaxDay + 1
    <3>1. last \in Int /\ clock < last * DayLen
      BY <2>1
    <3> HIDE DEF last
    <3>2. now < last
      BY <2>1, <3>1, DayIs
    <3> QED
      BY <3>2 DEF last
  <2>4. ~(now < 0)
    BY <2>1, DayIs
  <2> QED
    BY <2>1, <2>2, <2>3, <2>4 DEF Days
<1>3. ASSUME NEW p \in live, NEW d \in Needed(p, now)
      PROVE  p \in Proposals /\ d \in Days /\ d < now /\ created[p] \in 0..d
  <2>1. p \in Proposals /\ created[p] \in Days
    BY DEF HistoryInv, TypeOK
  <2>2. Lookback \in Nat /\ MaxDay \in Nat
    BY DEF ShadowAssumption
  <2> QED
    BY <1>2, <2>1, <2>2 DEF Needed, FirstDay, Days
<1>4. \A t \in plan : t \in Proposals \X Days /\ t[2] < now /\ created[t[1]] \in 0..t[2]
  <2> SUFFICES ASSUME NEW p \in live, NEW d \in Needed(p, now)
               PROVE  /\ <<p, d>> \in Proposals \X Days
                      /\ <<p, d>>[2] < now /\ created[<<p, d>>[1]] \in 0..<<p, d>>[2]
    OBVIOUS
  <2> QED
    BY <1>3
<1> HIDE DEF now, plan
<1>5. TypeOK'
  BY <1>1, <1>2, <1>4 DEF HistoryInv, TypeOK
<1>6. AllRows' = AllRows
  BY <1>1 DEF AllRows
<1>7. \A row \in AllRows' : RowFits(row)'
  BY <1>1, <1>6, FitsKept DEF HistoryInv
<1>8. \A q \in Runs :
        /\ today'[q] <= DayOf(clock')
        /\ \A t \in todo'[q] : t[2] < today'[q] /\ created'[t[1]] \in 0..t[2]
  <2>1. now <= DayOf(clock')
    BY <1>1, <1>2 DEF now, Days
  <2> QED
    BY <1>1, <1>4, <2>1 DEF HistoryInv, TypeOK
<1> QED
  BY <1>1, <1>5, <1>7, <1>8 DEF HistoryInv

LEMMA HistoryReadEvents ==
    ASSUME ShadowAssumption, HistoryInv, NEW r \in Runs, ReadEvents(r)
    PROVE  HistoryInv'
<1> DEFINE rows == {Score(t[1], t[2], Fetched(todo[r], today[r]))
                      : t \in {u \in todo[r] : ~Unscorable(u[1], u[2])}}
<1>1. /\ pc' = [pc EXCEPT ![r] = "insert"]
      /\ out' = [out EXCEPT ![r] = rows]
      /\ UNCHANGED <<clock, events, live, created, results, today, batch, todo>>
  BY DEF ReadEvents, Statement
<1>2. ASSUME NEW row \in rows PROVE row \in Result /\ RowFits(row)
  <2>1. PICK t \in todo[r] : row = Score(t[1], t[2], Fetched(todo[r], today[r]))
    OBVIOUS
  <2>2. /\ todo[r] \in SUBSET (Proposals \X Days) /\ today[r] \in Nat
        /\ \A u \in todo[r] : u[2] < today[r] /\ created[u[1]] \in 0..u[2]
        /\ today[r] <= DayOf(clock) /\ clock \in Nat
        /\ IsFiniteSet(events) /\ \A e \in events : e.at \in Int
    <3>1. /\ todo[r] \in SUBSET (Proposals \X Days) /\ today[r] \in Nat /\ clock \in Nat
      BY DEF HistoryInv, TypeOK, Days
    <3>2. \A e \in events : e.at \in Int
      BY DEF HistoryInv, TypeOK, Event
    <3> QED
      BY <3>1, <3>2 DEF HistoryInv
  <2>3. t[1] \in Proposals /\ t[2] \in Days /\ <<t[1], t[2]>> \in todo[r]
    <3>1. t \in Proposals \X Days
      BY <2>2
    <3>2. t[1] \in Proposals /\ t[2] \in Days /\ t = <<t[1], t[2]>>
      BY <3>1
    <3> QED
      BY <3>2
  <2> QED
    BY <2>1, <2>2, <2>3, ScoreFits
<1> HIDE DEF rows
<1>3. AllRows' \subseteq AllRows \cup rows
  BY <1>1 DEF AllRows
<1>4. \A row \in AllRows' : row \in Result /\ RowFits(row)'
  BY <1>1, <1>2, <1>3, RowsAreResults, FitsKept
<1>5. TypeOK'
  BY <1>1, <1>4 DEF HistoryInv, TypeOK, AllRows
<1> QED
  BY <1>1, <1>4, <1>5 DEF HistoryInv

LEMMA HistoryForget ==
    ASSUME ShadowAssumption, HistoryInv, NEW r \in Runs, Forget(r),
           UNCHANGED <<clock, events, live, created>>,
           results' \subseteq results \cup out[r]
    PROVE  HistoryInv'
<1>1. /\ pc' = [pc EXCEPT ![r] = "idle"] /\ today' = [today EXCEPT ![r] = 0]
      /\ batch' = [batch EXCEPT ![r] = {}] /\ todo' = [todo EXCEPT ![r] = {}]
      /\ out' = [out EXCEPT ![r] = {}]
  BY DEF Forget
<1>2. AllRows' \subseteq AllRows
  <2>1. \A q \in Runs : out'[q] \subseteq UNION {out[s] : s \in Runs}
    BY <1>1
  <2> QED
    BY <2>1 DEF AllRows
<1>3. \A row \in AllRows' : row \in Result /\ RowFits(row)'
  BY <1>2, RowsAreResults, FitsKept
<1>4. 0 \in Days
  BY DEF Days, ShadowAssumption
<1>5. TypeOK'
  BY <1>1, <1>3, <1>4 DEF HistoryInv, TypeOK, AllRows
<1>6. 0 <= DayOf(clock)
  <2>1. clock \in Nat /\ DayLen \in Nat
    BY DEF HistoryInv, TypeOK, ShadowAssumption
  <2>2. DayOf(clock) \in Nat
    BY <2>1, DayOfIsNat
  <2> QED
    BY <2>2
<1>7. \A q \in Runs :
        /\ today'[q] <= DayOf(clock')
        /\ \A t \in todo'[q] : t[2] < today'[q] /\ created'[t[1]] \in 0..t[2]
  BY <1>1, <1>6 DEF HistoryInv, TypeOK
<1> QED
  BY <1>3, <1>5, <1>7 DEF HistoryInv

LEMMA HistoryNext == ASSUME ShadowAssumption, HistoryInv, [Next]_vars PROVE HistoryInv'
<1>1. CASE Tick
  BY <1>1, HistoryTick
<1>2. ASSUME NEW act \in Acts, Happen([at |-> clock, ent |-> act.ent, by |-> act.by])
      PROVE  HistoryInv'
  BY <1>2, HistoryHappen
<1>3. ASSUME NEW p \in Proposals, Create(p) PROVE HistoryInv'
  <2>1. /\ created[p] = -1
        /\ created' = [created EXCEPT ![p] = DayOf(clock)] /\ live' = live \cup {p}
        /\ UNCHANGED <<clock, events, results, run>> /\ DayOf(clock) < MaxDay
    BY <1>3 DEF Create
  <2>2. DayOf(clock) \in Days /\ DayOf(clock) # -1
    <3>1. clock \in Nat /\ MaxDay \in Nat
      BY DEF HistoryInv, TypeOK, ShadowAssumption
    <3>2. DayOf(clock) \in Nat
      BY <3>1, DayOfIsNat
    <3> QED
      BY <2>1, <3>1, <3>2 DEF Days
  <2>3. /\ created' \in [Proposals -> Days \cup {-1}]
        /\ live' \subseteq {q \in Proposals : created'[q] # -1}
        /\ \A q \in Proposals : created[q] # -1 => created'[q] = created[q]
    BY <2>1, <2>2 DEF HistoryInv, TypeOK
  <2> QED
    BY <2>1, <2>3, HistoryKept
<1>4. ASSUME NEW p \in Proposals, Switch(p) PROVE HistoryInv'
  <2>1. /\ created[p] # -1 /\ live' \in {live \cup {p}, live \ {p}}
        /\ UNCHANGED <<clock, events, created, results, run>>
    BY <1>4 DEF Switch
  <2>2. /\ created' \in [Proposals -> Days \cup {-1}] /\ created' = created
        /\ live' \subseteq {q \in Proposals : created'[q] # -1}
    BY <2>1 DEF HistoryInv, TypeOK
  <2> QED
    BY <2>1, <2>2, HistoryKept
<1>5. ASSUME NEW r \in Runs, Start(r) \/ ReadEvents(r) PROVE HistoryInv'
  BY <1>5, HistoryStart, HistoryReadEvents
<1>6. ASSUME NEW r \in Runs, Commit(r) \/ Abort(r) PROVE HistoryInv'
  <2>1. /\ Forget(r) /\ UNCHANGED <<clock, events, live, created>>
        /\ results' \subseteq results \cup out[r]
    BY <1>6 DEF Commit, Abort
  <2> QED
    BY <2>1, HistoryForget
<1>7. CASE UNCHANGED vars
  <2>1. UNCHANGED <<clock, events, live, created, results, run>>
    BY <1>7 DEF vars
  <2>2. /\ created' \in [Proposals -> Days \cup {-1}] /\ created' = created
        /\ live' \subseteq {q \in Proposals : created'[q] # -1}
    BY <2>1 DEF HistoryInv, TypeOK
  <2> QED
    BY <2>1, <2>2, HistoryKept
<1> QED
  BY <1>1, <1>2, <1>3, <1>4, <1>5, <1>6, <1>7 DEF Next

\* Theorem: at any time, every score stored or about to be stored is of a day that is
\* over, and is what the history says of that day and will always say, whatever
\* happens, ticks, or is scored by other runs later.
THEOREM ScoresKeptTrue == Spec => []HistoryInv
<1> USE ShadowAssumption
<1> QED
  BY HistoryInit, HistoryNext, PTL DEF Spec

\* Theorem: every variable keeps its shape, the days that runs plan are days of the
\* model, and what they count is a number.
THEOREM TypeCorrect == Spec => []TypeOK
<1>1. HistoryInv => TypeOK
  BY DEF HistoryInv
<1> QED
  BY <1>1, ScoresKeptTrue, PTL

\* Within reach, whoever answers a fire is heard.
LEMMA ReachIsHeard ==
    ASSUME ShadowAssumption, NEW p \in Proposals, NEW d \in Days, WithinReach(p, d),
           NEW evs, \A e \in evs : e.at \in Int
    PROVE  AnsweredTotal(p, d, evs) = AnsweredTotal(p, d, Heard(d, evs))
<1>1. /\ d * DayLen \in Int /\ DayLen \in Nat \ {0} /\ Tolerance \in Nat /\ PairWindow \in Nat
  BY DEF ShadowAssumption, Days
<1>2. /\ Heard(d, evs) \subseteq evs
      /\ RealFires(p, d, Heard(d, evs)) = RealFires(p, d, evs)
  BY HeardIsDay DEF RealFires
<1>3. ASSUME NEW t \in RealFires(p, d, evs), NEW h \in evs,
             Answers(Automation[p].kind, h.at, t)
      PROVE  h \in Heard(d, evs)
  <2>1. PICK f \in FireMinutes(p, d, evs) : t = d * DayLen + f
    BY FiresShift
  <2>2. f \in 0..(DayLen - 1) /\ h.at \in Int
    BY FiresShift
  <2>3. -Tolerance <= h.at - t /\ h.at - t <= Tolerance
    BY <1>1, <1>3, <2>1, <2>2 DEF Answers, AbsVal, WithinReach
  <2>4. Relative(h, d) \in -Tolerance..(DayLen + Tolerance - 1)
    BY <1>1, <2>1, <2>2, <2>3 DEF Relative
  <2> QED
    BY <2>4 DEF Heard
<1>4. \A ent : Answered(p, d, evs, ent) = Answered(p, d, Heard(d, evs), ent)
  <2> TAKE ent
  <2>1. ByHand(Heard(d, evs), ent) \subseteq ByHand(evs, ent)
    BY <1>2 DEF ByHand
  <2>2. \A t \in RealFires(p, d, evs), h \in ByHand(evs, ent) :
           Answers(Automation[p].kind, h.at, t) => h \in ByHand(Heard(d, evs), ent)
    BY <1>3 DEF ByHand
  <2> QED
    BY <1>2, <2>1, <2>2 DEF Answered
<1> QED
  BY <1>4 DEF AnsweredTotal

\* Theorem: evaluate_day's scores match the whole history although the run fetched
\* one window of the involved entities' events, whatever the offsets of the sun
\* triggers and the two settings for time: a score is of a day with a proposal, its
\* fires and human events are exact, no fire counts twice, every answer that is heard
\* counts (all answers, if they are within reach) but for a hasty run, nothing counts
\* that no human event echoes, and coverage is above 1 only across midnight or by an
\* answer of two fires.
THEOREM ScoresMatchHistoryProved == Spec => []ScoresMatchHistory
<1>1. HistoryInv => ScoresMatchHistory
  <2> SUFFICES ASSUME HistoryInv, NEW row \in results
               PROVE  LET p == row.p
                          d == row.day
                          ents == Automation[p].actions
                          known == {e \in events : row.hasty => DayOf(e.at) <= d}
                      IN  /\ created[p] \in 0..d
                          /\ row.fires =
                                Total([ent \in ents |-> Cardinality(RealFires(p, d, events))])
                          /\ row.total =
                                Total([ent \in ents |-> Cardinality(ByHand(OnDay(events, d), ent))])
                          /\ row.matches <= row.fires
                          /\ AnsweredTotal(p, d, Heard(d, known)) <= row.matches
                          /\ WithinReach(p, d) => AnsweredTotal(p, d, known) <= row.matches
                          /\ row.matches <= EchoedTotal(p, d, Around(d, events))
                          /\ row.matches > row.total => Excess(p, d, events)
    BY DEF ScoresMatchHistory, AnsweredTotal, EchoedTotal
  <2> DEFINE p == row.p
             d == row.day
             known == {e \in events : row.hasty => DayOf(e.at) <= d}
  <2>1. RowFits(row) /\ p \in Proposals /\ d \in Days /\ row.hasty \in BOOLEAN
    BY RowsAreResults DEF AllRows, Result
  <2>2. known = IF row.hasty THEN Before(d) ELSE events
    BY <2>1 DEF Before
  <2>3. \A e \in known : e.at \in Int
    BY DEF HistoryInv, TypeOK, Event
  <2> HIDE DEF known
  <2>4. AnsweredTotal(p, d, Heard(d, known)) <= row.matches
    BY <2>1, <2>2 DEF RowFits
  <2>5. WithinReach(p, d) => AnsweredTotal(p, d, known) <= row.matches
    <3> HIDE DEF p, d
    <3>1. ASSUME WithinReach(p, d)
          PROVE  AnsweredTotal(p, d, known) = AnsweredTotal(p, d, Heard(d, known))
      BY <2>1, <2>3, <3>1, ReachIsHeard, ShadowAssumption
    <3> QED
      BY <2>4, <3>1
  <2> QED
    BY <2>1, <2>4, <2>5 DEF RowFits, known
<1> QED
  BY <1>1, ScoresKeptTrue, PTL
==============================================================================
