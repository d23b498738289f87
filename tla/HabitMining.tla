----------------------------- MODULE HabitMining -----------------------------
(***************************************************************************)
(* The pattern miner (src/pae/miner) over many nights, and what of the     *)
(* proposer gives its rows an identity (proposer/gates.py, grouping.py).   *)
(*                                                                         *)
(* A night's mining reads a window of days of events and finds habits: an  *)
(* entity changed by hand at about the same time of the day, or soon after *)
(* another entity.  A habit's row is found again by its pattern_key, in    *)
(* which a time of day has a bucket, and its proposal by a group_key with  *)
(* another bucket; habits drift.  Each entity has one action and all days  *)
(* are of one day_type: no step ever compares two of different ones.       *)
(* Patterns are not rejected here: see ProposalLifecycle.                  *)
(***************************************************************************)
EXTENDS Integers, FiniteSetsExt

CONSTANTS
    Entities,
    DayLen,      \* minutes in a day (a minute of the model is a few real ones)
    Bucket,      \* 30 minutes, of pattern_key and of group_key
    Tolerance,   \* settings.miner_tod_tolerance_minutes, 45
    ClusterGap,  \* cluster_gap_minutes, 90
    GroupWindow, \* settings.proposer_group_window_minutes, 20
    PairWindow,  \* settings.miner_pair_window_minutes
    MinGap,      \* min_gap_seconds of mine_event_pairs
    Lookback,    \* settings.miner_lookback_days
    StaleDays,   \* settings.proposer_stale_days
    Mining,      \* the miner's thresholds
    Gate,        \* the proposer's
    Plans,       \* bound: what can happen in a day, sets of [ent, at, user]
    MaxDay       \* bound: the last day of the model

Minutes == 0..(DayLen - 1)
Buckets == 0..((DayLen - 1) \div Bucket)
Act == [ent : Entities, at : Minutes, user : BOOLEAN]

\* Thresholds; percentages where the code has fractions.
MinerThresholds == [occurrences : Nat \ {0}, support : Nat, std : Nat,
                    confidence : Nat, lift : Nat]
GateThresholds == [occurrences : Nat, support : Nat, days : Nat, consistency : Nat,
                   std : Nat, confidence : Nat, lift : Nat]

\* All events are manual and by entities of ACTIONABLE_DOMAINS (the others can
\* only trigger a pair).  The gap is at least two tolerances, as with the defaults
\* of config.py and tod.py.
ASSUME MiningAssumption ==
    /\ {DayLen, Bucket, Lookback} \subseteq Nat \ {0}
    /\ {GroupWindow, PairWindow, MinGap, StaleDays, MaxDay} \subseteq Nat
    /\ Tolerance \in Nat /\ ClusterGap \in Nat /\ 2 * Tolerance <= ClusterGap
    /\ Mining \in MinerThresholds /\ Gate \in GateThresholds
    /\ Plans \subseteq SUBSET Act /\ \A plan \in Plans : IsFiniteSet(plan)

VARIABLES
    today,
    window,    \* the events of the last Lookback days
    habits,    \* time_of_day rows of `patterns`, by <<entity, bucket>> (pattern_key)
    pairs,     \* event_pair rows of `patterns`, by <<trigger, entity>>
    proposals  \* rows of `proposals`, by group_key

vars == <<today, window, habits, pairs, proposals>>

------------------------------------------------------------------------------
\* Time on the day circle (stats.py).

CircularDiff(a, b) ==
    LET d == (a - b) % DayLen IN IF 2 * d > DayLen THEN d - DayLen ELSE d

Distance(a, b) == IF CircularDiff(a, b) < 0 THEN -CircularDiff(a, b) ELSE CircularDiff(a, b)

SquaresFrom(m, evs) ==
    MapThenSumSet(LAMBDA e : CircularDiff(e.at, m) * CircularDiff(e.at, m), evs)

\* The point of the circle nearest to all of them, to the minute.
CircularMean(evs) ==
    LET squares == [m \in Minutes |-> SquaresFrom(m, evs)]
        least == Min({squares[m] : m \in Minutes})
    IN  Min({m \in Minutes : squares[m] = least})

\* The first minutes of the runs of ms that no gap interrupts.
Starts(ms, gap) == {m \in ms : \A k \in ms : k < m => m - k > gap}

RunFrom(s, ms, gap) ==
    {m \in ms : s <= m /\ \A t \in Starts(ms, gap) : t <= m => t <= s}

\* cluster_minutes: the last run joins the first across midnight.
Clusters_Cut(ms) ==  \* Mutant: without the last step.
    {RunFrom(s, ms, ClusterGap) : s \in Starts(ms, ClusterGap)}

Clusters(ms) ==
    LET runs == {RunFrom(s, ms, ClusterGap) : s \in Starts(ms, ClusterGap)}
        first == CHOOSE r \in runs : Min(ms) \in r
        last == CHOOSE r \in runs : Max(ms) \in r
    IN  IF first # last /\ Min(ms) + DayLen - Max(ms) <= ClusterGap
        THEN (runs \ {first, last}) \cup {first \cup last}
        ELSE runs

------------------------------------------------------------------------------
\* mine_time_of_day: the candidates of the window.

Of(ent) == {e \in window : e.ent = ent}
DaysIn(evs) == {e.day : e \in evs}

Candidate(ent, evs) ==
    LET mean == CircularMean(evs)
        days == Cardinality(DaysIn(evs))
        observed == Cardinality(DaysIn(window))
        near == {e \in evs : Distance(e.at, mean) <= Tolerance}
        stdAtMost(n) == SquaresFrom(mean, evs) <= n * n * Cardinality(evs)
    IN  [ent |-> ent, tod |-> mean, occurrences |-> Cardinality(evs),
         \* the order of the clusters in the list
         rank |-> IF \E e, f \in evs : e.at - f.at >= DayLen - ClusterGap
                  THEN -1 ELSE Min({e.at : e \in evs}),
         mined |-> 100 * days >= Mining.support * observed,
         sched |-> stdAtMost(Mining.std) /\ \A e \in evs : ~e.user,
         fit |-> /\ Cardinality(evs) >= Gate.occurrences
                 /\ 100 * Cardinality(near) >= Gate.consistency * Cardinality(evs)
                 /\ stdAtMost(Gate.std)
                 /\ 100 * days >= Gate.support * observed
                 /\ observed >= Gate.days]

TodCandidates ==
    LET found == UNION {{Candidate(ent, {e \in Of(ent) : e.at \in c}) :
                           c \in Clusters({e.at : e \in Of(ent)})} :
                          ent \in {e.ent : e \in window}}
    IN  {c \in found : c.mined /\ c.occurrences >= Mining.occurrences}

------------------------------------------------------------------------------
\* reconcile_keys and dedupe_candidates: which row a candidate becomes.

OwnKey(c) == <<c.ent, c.tod \div Bucket>>

\* The rows that are nearest to c; the last that the SELECT returns is taken,
\* and the SELECT has no order.
Nearest_None(c) == {}  \* Mutant: candidates keep the key of their bucket.

Nearest_Far(c) ==  \* Mutant: however far.
    {k \in DOMAIN habits : k[1] = c.ent}

Nearest(c) ==
    LET dist(k) == Distance(c.tod, habits[k].tod)
        near == {k \in DOMAIN habits : k[1] = c.ent /\ dist(k) <= Tolerance}
    IN  {k \in near : \A j \in near : dist(k) <= dist(j)}

\* The choice of a nearest row for each candidate that has one.
Adoptions(cs) ==
    LET matched == {c \in cs : Nearest(c) # {}}
    IN  {f \in [matched -> DOMAIN habits] : \A c \in matched : f[c] \in Nearest(c)}

\* The order in which reconcile_keys serves them, and returns them.
Before(c, d, row) ==
    LET score(x) == IF x \in DOMAIN row THEN Distance(x.tod, habits[row[x]].tod) ELSE DayLen
    IN  score(c) < score(d) \/ (score(c) = score(d) /\ c.rank < d.rank)

\* A key is claimed once; who comes later keeps its own.
Key(c, row) ==
    IF c \in DOMAIN row /\ \A d \in DOMAIN row : row[d] = row[c] => ~Before(d, c, row)
    THEN row[c] ELSE OwnKey(c)

\* Of the candidates with one key, the one with more occurrences, or the first.
Winner(cs, row, k) ==
    LET same == {c \in cs : Key(c, row) = k}
    IN  CHOOSE c \in same : \A d \in same \ {c} :
            \/ c.occurrences > d.occurrences
            \/ c.occurrences = d.occurrences /\ Before(c, d, row)

\* upsert_patterns: no row is ever deleted.
Upsert(old, new) ==
    [k \in DOMAIN old \cup DOMAIN new |-> IF k \in DOMAIN new THEN new[k] ELSE old[k]]

HabitRow(c) == [tod |-> c.tod, sched |-> c.sched, fit |-> c.fit, mined |-> today]

TodRows(cs, row) ==
    [k \in {Key(c, row) : c \in cs} |-> HabitRow(Winner(cs, row, k))]

------------------------------------------------------------------------------
\* mine_event_pairs: who follows whom.

Instant(e) == e.day * DayLen + e.at

\* The occurrences of a that b's change follows: the last before each of them.
Answered(a, b) ==
    LET follows(x, y) == Instant(y) - Instant(x) \in MinGap..PairWindow
    IN  {x \in Of(a) : \E y \in Of(b) :
           follows(x, y) /\ \A z \in Of(a) : follows(z, y) => Instant(z) <= Instant(x)}

Hits_PerAnswer(a, b) ==  \* Mutant: every answer counts.
    Cardinality({p \in Of(a) \X Of(b) : Instant(p[2]) - Instant(p[1]) \in MinGap..PairWindow})

Hits(a, b) == Cardinality(Answered(a, b))

Span ==
    LET at == {Instant(e) : e \in window} IN Max({1, Max(at) - Min(at)})

\* confidence and lift, against thresholds (lift is confidence by the chance
\* that b falls into a random window).
Reliable(a, b, hits, t) ==
    /\ hits >= t.occurrences
    /\ 100 * hits >= t.confidence * Cardinality(Of(a))
    /\ hits * Span >= t.lift * Cardinality(Of(a)) * Cardinality(Of(b)) * PairWindow

PairRows ==
    LET acting == {e.ent : e \in window}
        hits == [p \in {q \in acting \X acting : q[1] # q[2]} |-> Hits(p[1], p[2])]
        mined == {p \in DOMAIN hits : hits[p] > 0 /\ Reliable(p[1], p[2], hits[p], Mining)}
    IN  [p \in mined |-> [hits |-> hits[p], of |-> Cardinality(Of(p[1])),
                          fit |-> Reliable(p[1], p[2], hits[p], Gate)]]

------------------------------------------------------------------------------
\* eligible_patterns and build_groups.

Flagged == {k[1] : k \in {j \in DOMAIN habits : habits[j].sched}}

EligibleHabits ==
    LET flagged == Flagged IN {k \in DOMAIN habits : habits[k].fit /\ k[1] \notin flagged}

EligiblePairs ==
    LET flagged == Flagged
    IN  {p \in DOMAIN pairs : pairs[p].fit /\ {p[1], p[2]} \cap flagged = {}}

\* A group's key has its bucket (or trigger) and the digest of its members.
TodGroup(ks) ==
    [key |-> [kind |-> "time_of_day",
              at |-> CircularMean({[row |-> k, at |-> habits[k].tod] : k \in ks}) \div Bucket,
              ents |-> {k[1] : k \in ks}],
     sources |-> ks]

PairGroup(trigger) ==
    LET ps == {p \in EligiblePairs : p[1] = trigger}
    IN  [key |-> [kind |-> "event_pair", at |-> trigger, ents |-> {p[2] : p \in ps}],
         sources |-> ps]

\* Cut on a line from midnight to midnight, where the next is too far.
Groups ==
    LET fit == EligibleHabits
        tods == {habits[k].tod : k \in fit}
        at(r) == {k \in fit : habits[k].tod \in r}
    IN  {TodGroup(at(RunFrom(s, tods, GroupWindow))) : s \in Starts(tods, GroupWindow)}
          \cup {PairGroup(p[1]) : p \in EligiblePairs}

------------------------------------------------------------------------------
Empty == [k \in {} |-> {}]

Init ==
    /\ today = 0
    /\ window = {}
    /\ habits = Empty
    /\ pairs = Empty
    /\ proposals = Empty

\* load_events: the days that the next night can read.
Recent_Longer(evs, day) == {e \in evs : day - e.day <= Lookback}  \* Mutant.

Recent(evs, day) == {e \in evs : day - e.day < Lookback}

\* A day of events.
Day(plan) ==
    /\ today < MaxDay
    /\ today' = today + 1
    /\ window' = Recent(window, today + 1)
                   \cup {[day |-> today + 1, ent |-> a.ent, at |-> a.at, user |-> a.user]
                           : a \in plan}
    /\ UNCHANGED <<habits, pairs, proposals>>

\* run_mining: one transaction.  Without events it returns at once.
Mine ==
    /\ window # {}
    /\ LET cs == TodCandidates
       IN  \E row \in Adoptions(cs) : habits' = Upsert(habits, TodRows(cs, row))
    /\ pairs' = Upsert(pairs, PairRows)
    /\ UNCHANGED <<today, window, proposals>>

\* run_proposing: groups that have a proposal keep it alive or revive it; of the
\* others the LLM accepts some.  Two of them with one key break the unique index
\* on group_key, and the transaction is rolled back.
Stored(found, accepted) ==
    LET keys == {g.key : g \in found}
        kept == [k \in DOMAIN proposals |->
                   IF k \in keys
                   THEN [proposals[k] EXCEPT !.seen = today, !.status = "shadowing"]
                   ELSE IF proposals[k].seen < today - StaleDays
                        THEN [proposals[k] EXCEPT !.status = "stale"]
                        ELSE proposals[k]]
        fresh == [k \in {g.key : g \in accepted} |->
                    [sources |-> (CHOOSE g \in accepted : g.key = k).sources,
                     seen |-> today, status |-> "shadowing"]]
    IN  Upsert(kept, fresh)

Propose ==
    /\ LET found == Groups
       IN  \E accepted \in SUBSET {g \in found : g.key \notin DOMAIN proposals} :
             /\ \A g, h \in accepted : g.key = h.key => g = h
             /\ proposals' = Stored(found, accepted)
    /\ UNCHANGED <<today, window, habits, pairs>>

Next == (\E plan \in Plans : Day(plan)) \/ Mine \/ Propose

Spec == Init /\ [][Next]_vars

------------------------------------------------------------------------------
\* Type invariant: the window has the last days, and keys name buckets.
TypeOK ==
    /\ today \in 0..MaxDay
    /\ \A e \in window : [ent |-> e.ent, at |-> e.at, user |-> e.user] \in Act
    /\ DaysIn(window) \subseteq {d \in 1..today : d > today - Lookback}
    /\ DOMAIN habits \subseteq Entities \X Buckets
    /\ \A k \in DOMAIN habits :
         habits[k] \in [tod : Minutes, sched : BOOLEAN, fit : BOOLEAN, mined : 1..today]
    /\ DOMAIN pairs \subseteq Entities \X Entities
    /\ \A p \in DOMAIN pairs : pairs[p] \in [hits : Nat, of : Nat, fit : BOOLEAN]
    /\ \A k \in DOMAIN proposals :
         /\ proposals[k].status \in {"shadowing", "stale"}
         /\ proposals[k].sources \subseteq DOMAIN habits \cup DOMAIN pairs
         /\ proposals[k].seen \in 0..today

\* A drifting habit is not stored twice ("without this, a habit drifting across
\* a bucket boundary between nightly runs would insert a duplicate row and
\* orphan its status lifecycle", reconcile_keys): a row is new only when no row
\* of the entity is within the tolerance of it, on either side of midnight.
NewRowIsNewHabit ==
    [][\A k \in DOMAIN habits' \ DOMAIN habits, j \in DOMAIN habits :
         j[1] = k[1] => Distance(habits'[k].tod, habits[j].tod) > Tolerance]_vars

\* The rows of one night are different habits: no two of an entity are within a
\* cluster's gap of each other, so none is half of a habit around midnight, and
\* no candidate went into two rows.
FreshRowsApart ==
    \A j, k \in DOMAIN habits :
        j # k /\ j[1] = k[1] /\ habits[j].mined = habits[k].mined =>
            Distance(habits[j].tod, habits[k].tod) > ClusterGap

\* A row, with the status that people gave it, moves at most by the tolerance in
\* a night, or back into the bucket of its key.
RowKeepsItsPlace ==
    [][\A k \in DOMAIN habits :
         \/ Distance(habits'[k].tod, habits[k].tod) <= Tolerance
         \/ habits'[k].tod \div Bucket = k[2]]_vars

\* confidence is a share: "distinct A occurrences followed by B / all A
\* occurrences" (pairs.py), however many answers an occurrence has.
ConfidenceIsShare == \A p \in DOMAIN pairs : pairs[p].hits \in 1..pairs[p].of

\* "group_key is stable across nights so proposals never duplicate"
\* (grouping.py): no two live proposals are about the same patterns.
ProposalsNeverDuplicate ==
    \A g, h \in DOMAIN proposals :
        /\ proposals[g].status = "shadowing" /\ proposals[h].status = "shadowing"
        /\ proposals[g].sources = proposals[h].sources
        => g = h
==============================================================================
