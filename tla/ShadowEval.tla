------------------------------ MODULE ShadowEval ------------------------------
(***************************************************************************)
(* The shadow evaluator (src/pae/shadow/service.py): a run scores, for     *)
(* each proposal under evaluation and past day not yet scored, what its    *)
(* automation would have done against what a human did.                    *)
(*                                                                         *)
(* Time is wall-clock minutes, numbered through the days; a day has DayLen *)
(* of them.  Events reach the database as they happen, the proposer and    *)
(* the review page switch proposals on and off, and runs (the nightly job, *)
(* `pae shadow`) can overlap.  A run is one READ COMMITTED transaction:    *)
(* its statements are actions.  No daylight saving time.                   *)
(***************************************************************************)
EXTENDS Integers, FiniteSetsExt

CONSTANTS
    Proposals,
    Automation,  \* of each proposal: [kind, trigger, fires, dark, actions]
    Entities,
    DayLen,      \* minutes in a day
    Tolerance,   \* settings.shadow_tolerance_minutes
    PairWindow,  \* settings.miner_pair_window_minutes
    Lookback,    \* settings.shadow_lookback_days
    StartAt,     \* the minute of the day of the nightly run, and of what people do
    HandAt,      \* the minutes of the day at which `pae shadow` is run by hand
    Switchable,  \* bound: proposals whose status changes after their creation
    Acts,        \* bound: the kinds of event, [ent, by]
    ActAt,       \* bound: the minutes of the day at which events happen
    MaxDay,      \* bound: the last day of the model, up to StartAt
    MaxEvents,   \* bound: events in a behaviour
    Runs         \* runs that can overlap

Days == 0..MaxDay
Actors == {"manual", "automation"}
Event == [at : 0..((MaxDay + 1) * DayLen), ent : Entities, by : Actors]
Result == [p : Proposals, day : Days, fires : Nat, matches : Nat, total : Nat,
           hasty : BOOLEAN]  \* history: scored before the answers of the day were over

\* An event_pair automation has a state trigger: the entity `trigger`.  A
\* time_of_day automation has a time or sun trigger and a weekday condition:
\* the minutes fires[d] that belong to day d, and the days on which the sun's
\* time is unknown.  (validate_proposal, proposer/schema.py, lets no other pass.)
\* They are counted from midnight of d and need not be of that day: the sun's
\* minute plus an offset of less than a day is not reduced.  Beyond half a day
\* of tolerance everything would be near everything.
ASSUME ShadowAssumption ==
    /\ DayLen \in Nat \ {0} /\ MaxDay \in Nat /\ MaxEvents \in Nat
    /\ Lookback \in Nat
    /\ Acts \subseteq [ent : Entities, by : Actors]
    /\ Tolerance \in 0..(DayLen \div 2) /\ PairWindow \in Nat
    /\ StartAt \in 0..(DayLen - 1)
    /\ HandAt \subseteq 0..StartAt
    /\ Automation \in [Proposals ->
                         [kind : {"event_pair", "time_of_day"},
                          trigger : Entities,
                          fires : [Days -> SUBSET ((1 - DayLen)..(2 * DayLen - 2))],
                          dark : SUBSET Days,
                          actions : SUBSET Entities]]
    /\ \A p \in Proposals : IsFiniteSet(Automation[p].actions)

VARIABLES
    clock,    \* now, in minutes
    events,   \* rows of `events` (those that put an entity into the state the
              \* automations ask for)
    live,     \* proposals whose status is shadowing or approved
    created,  \* the day of created_at, -1 before there is a proposal
    results,  \* rows of `shadow_results`
    pc,       \* the next statement of each run
    today,    \* the run's local date
    batch,    \* the proposals it evaluates
    todo,     \* the (proposal, day) pairs it plans to score
    out       \* the rows it inserts

run  == <<pc, today, batch, todo, out>>
vars == <<clock, events, live, created, results, run>>

DayOf(t) == t \div DayLen
MinuteOf(t) == t % DayLen

------------------------------------------------------------------------------
\* Scoring: evaluate_day and what it calls.

\* Signed minimal distance on the day circle.
CircularDiff(a, b) ==
    LET d == (a - b) % DayLen IN IF 2 * d > DayLen THEN d - DayLen ELSE d

AbsVal(n) == IF n < 0 THEN -n ELSE n

InWindow(kind, h, f) ==
    IF kind = "event_pair" THEN h - f \in 0..PairWindow
                           ELSE AbsVal(CircularDiff(h, f)) <= Tolerance

\* Minutes of e on an axis that starts at midnight of day d.
Relative(e, d) == e.at - d * DayLen

OnDay(evs, d) == {e \in evs : DayOf(e.at) = d}

\* The tail of the day before and the head of the day after.
Adjacent(evs, d) ==
    {e \in OnDay(evs, d - 1) : MinuteOf(e.at) >= DayLen - Tolerance}
      \cup {e \in OnDay(evs, d + 1) : MinuteOf(e.at) <= Tolerance}

FireMinutes(p, d, evs) ==
    IF Automation[p].kind = "time_of_day" THEN Automation[p].fires[d]
    ELSE {Relative(e, d) : e \in {v \in OnDay(evs, d) : v.ent = Automation[p].trigger}}

ByHand(evs, ent) == {e \in evs : e.ent = ent /\ e.by = "manual"}

MatchedFires(p, d, evs, ent) ==
    {f \in FireMinutes(p, d, evs) :
       \E h \in ByHand(OnDay(evs, d) \cup Adjacent(evs, d), ent) :
          InWindow(Automation[p].kind, Relative(h, d), f)}

\* Sums over the entities of the automation's actions.
Total(count) == MapThenSumSet(LAMBDA ent : count[ent], DOMAIN count)

Score(p, d, evs) ==
    LET ents == Automation[p].actions
    IN  [p |-> p, day |-> d,
         fires |-> Total([ent \in ents |-> Cardinality(FireMinutes(p, d, evs))]),
         matches |-> Total([ent \in ents |-> Cardinality(MatchedFires(p, d, evs, ent))]),
         total |-> Total([ent \in ents |-> Cardinality(ByHand(OnDay(evs, d), ent))]),
         hasty |-> clock < (d + 1) * DayLen + Tolerance]

\* evaluate_day returns None.
Unscorable(p, d) == Automation[p].kind = "time_of_day" /\ d \in Automation[p].dark

------------------------------------------------------------------------------
\* Which days a run scores, and which events it reads for them.

Scored(p, d) == \E r \in results : r.p = p /\ r.day = d

FirstDay_Yesterday(p, now) ==  \* Mutant: only last night is scored.
    IF created[p] > now - 1 THEN created[p] ELSE now - 1

FirstDay_Lookback(p, now) == now - Lookback  \* Mutant: older than the proposal.

FirstDay(p, now) == IF created[p] > now - Lookback THEN created[p]
                                                   ELSE now - Lookback

Needed(p, now) == FirstDay(p, now)..(now - 1)

InvolvedEntities(ps) ==
    (UNION {Automation[p].actions : p \in ps})
      \cup {Automation[p].trigger : p \in {q \in ps : Automation[q].kind = "event_pair"}}

EventWindow_ToMidnight(earliest, now) ==  \* Mutant: without the tolerance.
    (earliest * DayLen)..(now * DayLen - 1)

EventWindow(earliest, now) ==
    (earliest * DayLen - Tolerance)..(now * DayLen + Tolerance - 1)

Fetched(plan, now) ==
    {e \in events :
       /\ e.at \in EventWindow(Min({t[2] : t \in plan}), now)
       /\ e.ent \in InvolvedEntities({t[1] : t \in plan})}

------------------------------------------------------------------------------
Init ==
    /\ clock = 0
    /\ events = {}
    /\ live = {}
    /\ created = [p \in Proposals |-> -1]
    /\ results = {}
    /\ pc = [r \in Runs |-> "idle"]
    /\ today = [r \in Runs |-> 0]
    /\ batch = [r \in Runs |-> {}]
    /\ todo = [r \in Runs |-> {}]
    /\ out = [r \in Runs |-> {}]

Statement(r, at, next) == pc[r] = at /\ pc' = [pc EXCEPT ![r] = next]

\* SELECT the proposals; without any the run returns.  SELECT the (proposal,
\* day) pairs that have a result; plan the others.  (What commits between the
\* two statements might as well have committed before the first.)
Start(r) ==
    /\ MinuteOf(clock) \in HandAt \cup {StartAt}
    /\ live # {}
    /\ Statement(r, "idle", "events")
    /\ today' = [today EXCEPT ![r] = DayOf(clock)]
    /\ batch' = [batch EXCEPT ![r] = live]
    /\ todo' = [todo EXCEPT ![r] =
                  UNION {{<<p, d>> : d \in {n \in Needed(p, DayOf(clock)) : ~Scored(p, n)}}
                           : p \in live}]
    /\ todo'[r] # {}  \* or it returns too
    /\ UNCHANGED <<clock, events, live, created, results, out>>

\* One SELECT of events for all of them; score.
ReadEvents(r) ==
    /\ Statement(r, "events", "insert")
    /\ out' = [out EXCEPT ![r] =
                 {Score(t[1], t[2], Fetched(todo[r], today[r]))
                    : t \in {u \in todo[r] : ~Unscorable(u[1], u[2])}}]
    /\ UNCHANGED <<clock, events, live, created, results, today, batch, todo>>

Forget(r) ==
    /\ pc' = [pc EXCEPT ![r] = "idle"]
    /\ today' = [today EXCEPT ![r] = 0]
    /\ batch' = [batch EXCEPT ![r] = {}]
    /\ todo' = [todo EXCEPT ![r] = {}]
    /\ out' = [out EXCEPT ![r] = {}]

\* Plain INSERTs, and the commit.  A row that another run has inserted is waited
\* for; one that is committed breaks the unique index ux_shadow_proposal_day.
Commit(r) ==
    /\ pc[r] = "insert"
    /\ \A o \in out[r] : ~Scored(o.p, o.day)
    /\ results' = results \cup out[r]
    /\ Forget(r)
    /\ UNCHANGED <<clock, events, live, created>>

\* The IntegrityError, or the job is killed at any point: everything it has
\* inserted is rolled back.
Abort(r) ==
    /\ pc[r] # "idle"
    /\ Forget(r)
    /\ UNCHANGED <<clock, events, live, created, results>>

------------------------------------------------------------------------------
\* The ingester stores an event of this minute (at once: the writer's delay of
\* seconds is BatchWriter's).
Happen(e) ==
    /\ e.at = clock /\ MinuteOf(clock) \in ActAt
    /\ Cardinality(events) < MaxEvents
    /\ \A v \in events : v.at = e.at => v.ent # e.ent
    /\ events' = events \cup {e}
    /\ UNCHANGED <<clock, live, created, results, run>>

Tick ==
    /\ clock < MaxDay * DayLen + StartAt
    /\ clock' = clock + 1
    /\ UNCHANGED <<events, live, created, results, run>>

\* The proposer stores a proposal; it or the review page changes its status.
Create(p) ==
    /\ MinuteOf(clock) = StartAt
    /\ created[p] = -1 /\ DayOf(clock) < MaxDay
    /\ created' = [created EXCEPT ![p] = DayOf(clock)]
    /\ live' = live \cup {p}
    /\ UNCHANGED <<clock, events, results, run>>

Switch(p) ==
    /\ MinuteOf(clock) = StartAt
    /\ p \in Switchable /\ created[p] # -1
    /\ live' = IF p \in live THEN live \ {p} ELSE live \cup {p}
    /\ UNCHANGED <<clock, events, created, results, run>>

Next ==
    \/ Tick
    \/ \E act \in Acts : Happen([at |-> clock, ent |-> act.ent, by |-> act.by])
    \/ \E p \in Proposals : Create(p) \/ Switch(p)
    \/ \E r \in Runs : \/ Start(r) \/ ReadEvents(r) \/ Commit(r) \/ Abort(r)

Spec == Init /\ [][Next]_vars

------------------------------------------------------------------------------
\* Type invariant: runs plan days of the model, and rows of results count.
TypeOK ==
    /\ clock \in 0..((MaxDay + 1) * DayLen - 1)
    /\ events \subseteq Event
    /\ live \subseteq {p \in Proposals : created[p] # -1}
    /\ created \in [Proposals -> Days \cup {-1}]
    /\ \A row \in results \cup UNION {out[r] : r \in Runs} : row \in Result
    /\ pc \in [Runs -> {"idle", "events", "insert"}]
    /\ today \in [Runs -> Days]
    /\ batch \in [Runs -> SUBSET Proposals]
    /\ todo \in [Runs -> SUBSET (Proposals \X Days)]

\* The reference: what happened, by the events of a history and in absolute time.
RealFires(p, d, evs) ==
    IF Automation[p].kind = "time_of_day"
    THEN {d * DayLen + f : f \in Automation[p].fires[d]}
    ELSE {e.at : e \in {v \in OnDay(evs, d) : v.ent = Automation[p].trigger}}

Answers(kind, h, t) ==
    IF kind = "event_pair" THEN h - t \in 0..PairWindow ELSE AbsVal(h - t) <= Tolerance

Answered(p, d, evs, ent) ==
    {t \in RealFires(p, d, evs) :
       \E h \in ByHand(evs, ent) : Answers(Automation[p].kind, h.at, t)}

\* For a time_of_day habit the same time of any other day is an answer too.  (A
\* fire and what a score hears lie less than three days apart.)
Echoes(kind, h, t) ==
    IF kind = "event_pair" THEN Answers(kind, h, t)
    ELSE \E k \in -3..3 : Answers(kind, h - k * DayLen, t)

Echoed(p, d, evs, ent) ==
    {t \in RealFires(p, d, evs) :
       \E h \in ByHand(evs, ent) : Echoes(Automation[p].kind, h.at, t)}

\* What a score of day d hears: the day, and Tolerance minutes on either side of
\* it.  The minute after that is heard only by a run of a later night.
Heard(d, evs)  == {e \in evs : Relative(e, d) \in -Tolerance..(DayLen + Tolerance - 1)}
Around(d, evs) == {e \in evs : Relative(e, d) \in -Tolerance..(DayLen + Tolerance)}

\* All answers to the fires of day d are heard.
WithinReach(p, d) ==
    IF Automation[p].kind = "event_pair" THEN PairWindow <= Tolerance
    ELSE Automation[p].fires[d] \subseteq 0..(DayLen - 1)

\* What can make a day's matches outnumber its human events: an answer on the
\* other side of midnight, or one answer of two fires.
Excess(p, d, evs) ==
    LET kind == Automation[p].kind
    IN  \E ent \in Automation[p].actions :
          \E h \in ByHand(Around(d, evs), ent), t \in RealFires(p, d, evs) :
             /\ Echoes(kind, h.at, t)
             /\ \/ DayOf(h.at) # d
                \/ \E u \in RealFires(p, d, evs) \ {t} : Echoes(kind, h.at, u)

\* A stored score never changes its mind: it is what the whole history says,
\* although the run read one window of events, of the involved entities, before
\* the following day was over.  It is of a day on which there was a proposal.
\* Fires and human events are exact, and no fire counts twice (precision is at
\* most 1).  Every fire that was answered no more than Tolerance from its day
\* counts, unless a hasty run could not know; so no answer across midnight is
\* missed, except to a sun trigger whose offset leads out of the day, or behind
\* a pair window longer than the tolerance.  No other fire counts, but for
\* answers at the same time of another day.  And coverage is above 1 only if an
\* answer is on the other side of midnight or is the answer of two fires
\* (shadow/service.py says that it never is).
ScoresMatchHistory ==
    \A row \in results :
        LET p == row.p
            d == row.day
            ents == Automation[p].actions
            answered(evs) == Total([ent \in ents |-> Cardinality(Answered(p, d, evs, ent))])
            echoed(evs) == Total([ent \in ents |-> Cardinality(Echoed(p, d, evs, ent))])
            known == {e \in events : row.hasty => DayOf(e.at) <= d}
        IN  /\ created[p] \in 0..d
            /\ row.fires = Total([ent \in ents |-> Cardinality(RealFires(p, d, events))])
            /\ row.total = Total([ent \in ents |-> Cardinality(ByHand(OnDay(events, d), ent))])
            /\ row.matches <= row.fires
            /\ answered(Heard(d, known)) <= row.matches
            /\ WithinReach(p, d) => answered(known) <= row.matches
            /\ row.matches <= echoed(Around(d, events))
            /\ row.matches > row.total => Excess(p, d, events)

\* A missed night heals: when a run commits, every day of every proposal it
\* evaluates, from its creation or the lookback to last night, has its score,
\* whatever other runs committed, failed or were killed before or meanwhile.
CommitLeavesNoGap ==
    [][\A r \in Runs : Commit(r) =>
         \A p \in batch[r], d \in (today[r] - Lookback)..(today[r] - 1) :
             \/ d < created[p]
             \/ Unscorable(p, d)
             \/ \E row \in results' : row.p = p /\ row.day = d]_vars
==============================================================================
