# PAE: a TLA+ verification of its core

PAE watches a Home Assistant (HA) installation, mines people's habits from the
events, lets a local language model write automations for them, evaluates each
automation "in the shadow" against what people really do, and asks an operator
to approve or reject it.  This directory holds TLA+ modules of the parts where
order, failure and concurrency decide, TLC runs over small instances, and proofs
that TLAPS checks for all instances.  Paths below are relative to the repository
root.

    tlc -workers 2 -config MC_Lifecycle_review.cfg MCProposalLifecycle
    tlapm ProposalLifecycle_proofs.tla

`PROJECT.json` lists the runs, the source lines behind every definition (`map`),
a mutant for each property (a plausible bug that the property catches), the
findings, the hazards and the theorems.

## 1. Inventory

Three processes (docker compose, `restart: unless-stopped`), one PostgreSQL /
TimescaleDB, one Redis, and Home Assistant.

| component | state | operations | interacts with |
|---|---|---|---|
| **Ingester**: `ingest/service.py`, `ingest/writer.py` | row buffers per table, an asyncio lock | add, flush (by size, by time, at the end) | tasks of one event loop; the database |
| **Attribution**: `ingest/attribution.py` | context ids with an expiry | add, get, prune, attribute | announcements and changes on one connection |
| **WebSocket client**: `ha/client.py` | connection, `_pending` futures, `_active_subs`, backoff | dial, authenticate, resubscribe, dispatch, send a command, stop | HA; the registry loop |
| REST client: `ha/client.py` | none | read-only GETs | context frames |
| filters, presence, context, registry: `ingest/*.py` | none | one row from one event | the writer |
| **Miner**: `miner/*.py` | table `patterns` (numbers) | load, count pairs and times of day, reconcile keys, upsert | `events`; the proposer |
| **Gates and grouping**: `proposer/gates.py`, `grouping.py` | none | filter patterns, form groups and their `group_key` | the proposer |
| **Proposer**: `proposer/service.py` | table `proposals`, `patterns.status` | one transaction per night: ask, insert, refresh, revive, mark, sweep | the LLM; the review page |
| **Review**: `proposer/repo.py`, `api/proposals.py` | the same tables | approve, reject, list, detail, ready | the proposer |
| LLM client, prompt, schema: `llm/*.py`, `proposer/schema.py` | none | one chat, one retry, validation | the proposer |
| **Shadow evaluator**: `shadow/service.py` | table `shadow_results` | plan the missing days, score, insert | `events`, `proposals` |
| **Scheduler and worker**: `worker/*.py` | a thread; RQ's queue in Redis | enqueue mine -> propose -> shadow at HH:00 UTC | RQ |
| API, views, CLI, smoke test, config, metrics | none of their own | entry points and rendering | all |
| **Row slider**: `ha/basement_tablet/helpers.py`, `entities.py` | an `input_number`, two automations in mode restart | slide, All Off, apply row by row, sync after a second | lights, through HA |
| other HA dashboards and discovery: `ha/*` | none at run time | generate configuration | HA |

What is hard about it, and what makes each part correct:

* **Proposer against review.**  A run is *one* READ COMMITTED transaction that
  stays open across minutes of LLM calls while operators decide and, sometimes, a
  second run overlaps.  Correct means: decisions are never undone, pattern and
  proposal statuses agree, transactions do not deadlock, and a run ends.
* **Write path.**  A flush awaits the database while other tasks add rows; the
  database refuses, disappears, or stores a batch without the client learning of
  it; the process is cancelled or killed.  Correct means: no row is lost,
  duplicated, reordered or stuck.
* **WebSocket client.**  Connections end at any await, with answers and timeouts
  racing.  Correct means: the client supervises for ever, no command hangs, and
  no event arrives without a callback.
* **Attribution.**  A change is classified by what was heard *before* it, over a
  connection that loses things.  Correct means: runs of automations are never
  taken for people.
* **Shadow evaluator.**  A day is scored once and for good, from a window of
  events, possibly by overlapping runs and after missed nights.  Correct means:
  the scores are complete, final, and what really happened.
* **Miner, grouping.**  Statistics on a day circle, and keys with 30-minute buckets
  that must identify a drifting habit from night to night.  Correct means: a habit
  has one row and one proposal, and a row keeps standing for the same habit.
* **Language model.**  It may answer anything, late or never.  Correct means: what is
  stored is an automation of the habit it was asked about.
* **Scheduler, worker.**  A thread, a queue that outlives the process, and jobs that
  depend on each other.  Correct means: jobs in order, twice does no harm, and a lost
  night stays the only one.
* **Row slider.**  Two automations trigger each other through lights that answer late
  or never, and each new trigger throws the run under way away.  Correct means: the
  pair comes to rest, the slider then tells the truth, and a slide is not undone.

## 2. Modules

| module | models | kind |
|---|---|---|
| `ReviewLedger` | what proposer and review promise about the committed tables | abstract specification |
| `ProposalLifecycle` | run and review, statement by statement, with row locks | refines `ReviewLedger` |
| `ProposalLifecycle_proofs` | nine theorems | proofs |
| `MCProposalLifecycle` | instances | TLC |
| `BatchWriter` | the ingester's tasks around the writer | |
| `BatchWriter_proofs` | four theorems | proofs |
| `WsClient` | `run()`, commands, subscriptions, the registry loop | |
| `WsClient_proofs` | four theorems | proofs |
| `Attribution` | the context cache and the event handlers, over the connection | |
| `Attribution_proofs` | four theorems | proofs |
| `MCAttribution` | instance | TLC |
| `ShadowEval` | the shadow run, its planning and its scoring | |
| `ShadowEval_proofs` | five theorems | proofs |
| `MCShadowEval` | instance | TLC |
| `HabitMining` | both miners, reconciliation, upsert, gates, grouping, over many nights | |
| `HabitMining_proofs` | eight theorems | proofs |
| `MCHabitMining` | instances | TLC |
| `Conversation` | the talk with the language model, and `validate_proposal` | used by `NightlyChain` |
| `NightlyChain` | scheduler thread, RQ's queue, worker, the three jobs | |
| `NightlyChain_proofs` | five theorems | proofs |
| `MCNightlyChain` | instance | TLC |
| `RowSlider` | the slider of the basement tablet and its two automations | |
| `RowSlider_proofs` | three theorems | proofs |
| `MCRowSlider` | instance | TLC |

### ProposalLifecycle

A proposal is known by its `group_key` (unique in the code), a day is the unit of
time.  `props` and `pats` are what is committed.  `pc`, `now`, `groups`,
`existing`, `fresh`, `marks`, `gone` are the locals of each run, and `rowLock`,
`rowNew`, `patLock`, `patNew` what it has written and not committed: a statement
reads the committed table overlaid with its own writes (`Row`, `Pat`), waits for
rows others have written (`RowFree`, `PatFree`), re-evaluates its WHERE clause
then, and `Commit` publishes everything.  A statement takes all its row locks in one
step, and a request's UPDATE of the patterns is one step with its commit; PostgreSQL
locks row by row, so that two UPDATEs of many rows could wait for each other, and it
would abort one of them.  Such cycles within two statements are outside the model;
its aborted transaction is `Abort`.

| code (`run_proposing`) | action |
|---|---|
| eligible patterns, `build_groups`, `existing` | `Start`, `ReadExisting` |
| `_process_groups` | `ProcessGroups`: any subset of the groups without a proposal is accepted |
| refresh `last_eligible_at` | `TouchLive` |
| guarded revival | `Revive` |
| INSERT, its IntegrityError | `Insert`, `InsertFails` |
| patterns to `proposed` | `MarkProposed` |
| sweep: SELECT, UPDATE by id, patterns back | `SweepSelect`, `SweepUpdate`, `RevertPatterns` |
| `engine.begin()` ends | `Commit`, `Abort` |

`set_status` is `Decide` (the guarded UPDATE, which takes the row), `Finish` (a
rejection's UPDATE of the patterns, and the commit) and `Drop` (the api process
dies).  The groups the miner's data form on a night are any disjoint subset of
the constant `Candidates`.

`ReviewLedger` says the same of the committed tables alone, in three actions:
`Pick`, `Night`, `Review`.  `ImplementsLedger` is the refinement, with `status`
taken from `props` and `picked` from the sweeps of open runs.

### BatchWriter

`buf` is `_buffers`, `tables` its insertion order (the order of a flush), `stage`
the await each task is suspended on, `at` and `size` the dictionary iteration
(Python's "changed size during iteration" included), `sent` the INSERT's
parameters, `db` the tables.  An action is what happens between two awaits.
`ServerCommit` and `Committed` are apart, so a commit's answer can be lost.
`Close` is the finally clause, which cancels a flush under way and flushes again.

### WsClient

`phase` is where `run()` is suspended, `future` each command's future, `pending`
and `active` the client's dictionaries, `asked` and `serving` HA's side.
`Run` has the supervisor's steps, `Refresh` the registry loop's, and `Result`,
`Drop`, `Age`, `Stop` what happens to them.

### Attribution

`wire` is what HA has sent and no handler has seen; `subs` how many of the three
subscriptions HA has processed since the connection was made; `cache` the
`ContextCache`.  `HandleAnnouncement` and `HandleChange` are the two callbacks,
in the order of arrival, because `_listen` awaits each.  `heard` and the field
`excused` of a row are history: when this process handled an announcement, and
whether a row's announcement had been lost or had expired.  `Drop` keeps the
cache, `Restart` does not.  Filters, presence rows and the flush of
`on_state_changed` are not here: the filtered-out event does nothing, the
rows are `BatchWriter`'s, and the waiting appears as `Tick` with a full `wire`.
`pae` is never an answer: the set of PAE automations is empty in the code.

### ShadowEval

Time is wall-clock minutes.  `Start` is the two SELECTs that plan, `ReadEvents`
the one SELECT of events and `evaluate_day` for every planned day, `Commit` the
INSERTs (refused by the unique index if another run was first) and the commit,
`Abort` a failure at any point.  Scoring is written as the code does it
(`FireMinutes`, `Adjacent`, `InWindow` on the day circle, `EventWindow`), and
`ScoresMatchHistory` compares it with a reference in absolute time over all
events.  An event is a row that puts an entity into the state the automation
asks for; it is in the database at once, as the writer's delay of seconds is
`BatchWriter`'s.  The minutes `fires` at which a sun trigger fires are counted from
midnight of its day and need not be of that day, since `_fire_minutes` does not
reduce the sun's minute plus an offset, and `PairWindow` and `Tolerance` are two
settings that nothing relates.  Runs start at night, at `StartAt`, or by hand at one
of `HandAt`; a score is `hasty` (history) if its run read the events before the day's
last fires could be answered.

### HabitMining

`window` is what `load_events` returns, `habits` and `pairs` the two kinds of rows
of `patterns` by their `pattern_key`, `proposals` the rows of `proposals` by
`group_key`.  `Day` brings a day's events; `Mine` is `run_mining`, one
transaction; `Propose` is `run_proposing` without the review (patterns are never
rejected here) and with any subset of new groups accepted.  Jobs may be skipped,
repeated, or run in any order after a day, as the queue and the command line allow.

| code | definition |
|---|---|
| `cluster_minutes` | `Starts`, `RunFrom`, `Clusters` (the join across midnight) |
| `mine_time_of_day` | `Candidate`, `TodCandidates` |
| `reconcile_keys` | `Nearest`, `Adoptions`, `Before`, `Key` |
| `dedupe_candidates`, `upsert_patterns` | `Winner`, `TodRows`, `Upsert` |
| `mine_event_pairs` | `Answered`, `Hits`, `Reliable`, `PairRows` |
| `sched_flagged_entities`, `eligible_patterns` | `Flagged`, `EligibleHabits`, `EligiblePairs` |
| `build_groups`, `_close_tod` | `Groups`, `TodGroup`, `PairGroup` |

The circular mean is the whole minute with the least sum of squared circular
distances (the vector mean of the code is that, up to rounding, for clusters much
narrower than half a day); the standard deviation is taken from the same squares.
The SELECT of `reconcile_keys` has no order, so between rows at the same distance
`Adoptions` leaves the choice open.  Each entity has one action, all days are of
one type, all entities are registered, and `sun` is `None`, the default: the code
never compares two actions or day types.

### Conversation, NightlyChain

`Conversation` is the body of `_process_groups`, one group (`turn`) after the
other, without the bookkeeping that `ProposalLifecycle` has: `Skip` (the group has
a proposal), `Answer` (decline, draft, ask again, give up) and `RequestFails` (next
attempt, next host, next group).  `Valid` is `validate_proposal`, check by check; an
automation is a record of what the checks look at, and everything that only the
pydantic models see is the flag `junk`.  What is not junk has a trigger that
`_parse_hms` and `_parse_offset` accept (`IsTrigger`): a time of the day, and an
offset of less than a day.  `drafts` is `inserts`.

`NightlyChain` runs it as the second of three jobs.  `thread` is where `run_daily`
and `enqueue_nightly_chain` are, `status` the status in each job's hash, `waits`
RQ's dependents, `queue` the queue, `busy` the job of the worker.

| code | action |
|---|---|
| `stop.wait` ends at HH:00, or too early | `HourComes`, `RingsAgain` |
| one `queue.enqueue`, with `depends_on` | `Enqueue`, `EnqueueFails` |
| `SimpleWorker.work` (RQ) | `Start`, `Finish`, `JobFails`, `TimedOut` |
| `_process_groups` | `Talk`, `RequestHangs` |
| the process | `Crash`, `Restart` |

A day starts at HH:00; the date in the job ids is that day.  `Finish` stores the
drafts, as the transaction commits at the end; all other ends lose them.  A job that
was started when the process died is not taken up again.  The jobs of the miner and
of the evaluator have no inside here: they are `HabitMining` and `ShadowEval`.

### RowSlider

Apart from the program, and the only code of `ha/` that does something at run time.
`slider` is the `input_number`, `lit` the lights, `flight` the calls each light has
not carried out, `apply` and `sync` the two runs (a number each, as both automations
are in mode restart and a trigger replaces the run).

| code | action |
|---|---|
| `rows_column`, `all_off_tile` | `Slide`, `AllOff` |
| `apply_automation`: one `choose` per row, front first | `ApplyRow`, started by `SetSlider` |
| `sync_automation`: delay, then `set_value` | `SyncSets`, started by `SetLight` |
| `row_is_on`, `row_on_jinja`, `value_jinja` | `RowIsOn`, `RowLit`, `Value` |
| the lights (external) | `Obey` within `Lag`, `Elsewhere` |

A template that counts an unavailable light as dark is what the code has; a call of
such a light is lost.  `Tick` is time, which passes when nothing is due.  `wish` is
history: the last slide, if nothing has interfered with it.

## 3. Runs

| run | instance | distinct states | shows |
|---|---|---|---|
| `review` | a run, a request, four days, two habits sharing a pattern | 357 000 | seven properties: see below |
| `overlap` | two runs, a request, one habit | 1 040 000 | with a second run: the inductive invariant, from which the other properties are proved, and the refinement |
| `terminal` | as `review`, separate habits | violated | a rejection is overwritten by a sweep (finding) |
| `writer` | three rows, three tables, flush size 2, one lost answer, all faults | 13 000 | rows, order, liveness |
| `writer_kept` | the same, outages only | violated | a row added during its own table's INSERT is dropped (finding) |
| `ws` | two subscriptions, two commands, seven ids | 144 000 | commands, subscriptions, authentication, liveness |
| `ws_forever` | the same | violated | HA closes the connection during the handshake, which ends a client that nobody stops (finding) |
| `attribution` | five contexts, ttl 1, pruning from one entry on, two events in flight | 2 780 000 | the exact set of mistakes; the bounded cache |
| `shadow` | two runs, nightly or just after midnight, two proposals, two scored days, two events | 2 219 000 | final and complete scores, and which answers they miss |
| `habits` | a lamp with ten kinds of day, a scheduled pump, three days, window of two | 57 000 | one row for one habit, and one habit for one row |
| `night` | two groups, six answers, three nights of which one is faulty | 360 000 | sound drafts, jobs in order, later nights recover |
| `sliders` | rows of two lights and of one, four hands, delay 2, lights' lag 1 | 726 000 | truth at rest, slides hold, rest is reached |

**review, overlap.**  `NoDeadlock`: run and request take locks in opposite order,
and only the status guards of the two pattern UPDATEs keep them apart.
`ProposedHasProposal`: no pattern is stuck in `proposed` without a proposal.
`ApprovalEndsOnlyUnseen`: an approval ends only for what was out of the data for
`StaleDays`, and is out of that run's data too; the one exception is an approval
given to what the run has already read as stale.  `RejectedPatternsStay`: a rejection
is final for the patterns.  `RejectionUndoneOnlyBySweep`: the one hole, and no other.
`RunEnds`; in `overlap`, `ImplementsLedger` and `TransactionInv`.

**writer.**  `RowsKeptOrLate`: a row leaves its buffer only into the database, or if
it was added while its table's own batch was being stored.  `StoredInOrder`: once
and in order while commits are acknowledged.  `CallbackReturns`, `RowsLeaveBuffers`: nothing
waits for ever.

**ws.**  `NoOrphanedCommand`: nobody waits on a command of a dead connection.
`SubscriptionsRouted`: HA delivers nothing without a callback, and a listening
client has asked for everything.  `NothingSentBeforeAuth`: no command can be taken
for a login.  `RefreshEnds`.

**attribution.**  `OnlyGapsCreditRuns`: a run is taken for a person exactly if it
has no parent context and its announcement was lost or is older than the ttl.
`CacheIsHistory`, `CacheBounded`: pruning loses nothing that is needed, and bounds
the cache.

**shadow.**  `ScoresMatchHistory`: a stored score is what all events ever say,
although the run read one window before the next day was over.  Fires and human
events are exact, precision is at most 1, and the day is one on which there was the
proposal.  Every answer counts that happened no more than the tolerance from the day
(`Heard`; for a hasty run: those of the day itself).  So no answer across midnight is
missed (`WithinReach`), except to a fire outside its day and behind a pair window
longer than the tolerance, as the code misses them (section 5).  No other fire counts,
but for the echoes of the circular window: the same time of another day.  And coverage
exceeds 1 only by an answer across midnight or by one answer of two fires
(`Excess`).  `CommitLeavesNoGap`: whatever failed before or ran
beside it, a run that commits leaves no day of its proposals without a score.

**habits.**  `NewRowIsNewHabit`: a drifting habit is never stored twice, whichever
bucket edge or midnight it crosses and whatever old rows lie around it; it needs
the clusters to be separated by twice the tolerance, which `MiningAssumption` names
(45 and 90 minutes by default; only the tolerance can be configured) and clusters
narrower than half a day.  `FreshRowsApart`: a habit around midnight is one row.
`RowKeepsItsPlace`: a row moves by the tolerance, or back to its key's bucket: the
second case is another habit that takes over the row of one that has drifted away,
with its status.  `ConfidenceIsShare`.

**night.**  `DraftsFitTheirHabit`: whatever the model says, first or on retry, a draft
acts on its own habit's entities, through their own domain, at the habit's time.
`NothingDraftedTwice`: a date that is rung twice, and a chain taken up after faults,
finds what has been stored.  `JobsInOrder`: `depends_on`, with every overwriting of
a status by a second enqueue.  `QuietNightsComplete`: after a day without faults, the
next night's evaluator finishes, whatever the night before left in the queue.

**sliders.**  `SliderTruthful`: at rest the slider shows what is lit, or is held up by
an unavailable light of a row it has on.  `SlideHolds`: what was slid is not undone by
a sync, unless one was about to end.  `Settles`: no endless round of apply and sync.
Both of the last two need `Lag < Debounce`.

### Bounds

* Days: `StaleDays` = 1 and `MaxDay` = 3 give time to be proposed, to fall out of
  the data, to become stale, and to be revived.  Two keys sharing a pattern are
  what interferes; a third adds no new kind of pair.  Two runs and a request are
  checked with one key, where they collide.
* Three rows fill a buffer (`FlushSize` = 2), start a flush and add behind it; one
  lost answer is enough for a duplicate and for a poisoned batch.
* Seven ids are two connections with a refresh on each.  `Overflow` = 2 stands for
  1024 failed attempts.
* ttl 1 of a clock to 3, and pruning from one entry on: the thresholds are crossed
  in both directions.
* A shadow day has four minutes, with tolerance 1: "just before", "just after" and
  "far from" midnight are different minutes, and events happen in each kind (`ActAt`).
  The sun trigger fires in the last minute of day 0, where answers across midnight
  must be found, and, for day 1, in the third of day 2, where they are missed; the
  pair window of 2 reaches a minute beyond the tolerance.  Two events make a
  trigger and its answer; that one answer serves two fires needs three, and is left to
  the proof, as are days without a sun (`dark`).  Runs start, and statuses change, at
  one minute of the day, or, by hand, in its first, because only the day of either is
  ever read and only the first minutes are too early; a run's later statements may
  come at any time.  Two runs are symmetric.
* A day of `HabitMining` has 32 minutes of 7.5 real ones each, at the default
  proportions: bucket 4, tolerance 6, cluster gap 12, group window 2.  The lamp's
  times are around midnight, in two neighbouring buckets, in two clusters of one
  day, and twice within the pump's pair window.  Three days and a window of two let
  a mean drift, a row go stale and another habit meet it, and a flag come and go.
  `StaleDays` is 0 in `habits`, so that proposals become stale and are revived
  within the three days.

* A night's day has twelve minutes and a grace of two; the lamp's mean is a minute
  past midnight, so that answers before midnight must be accepted.  The answers hold
  sound automations for both groups (each is a near miss for the other), one of a
  foreign entity, a decline, and junk.  `JobTimeout` = 2 hung requests stands for
  3600 s of 120 s each.  Faults (failed enqueues, jobs and processes, hung requests,
  a second ring) happen on day 1, so that day 2 inherits them and day 3 must be
  complete; answers and refused requests are never restricted.
* Two rows are the least with an order, and two lights the least row that can be half
  lit.  Four hands are a slide into the middle of what three others began.  A delay of
  2 and a lag of 1 let a light answer before, at and after every other thing and still
  within the delay, as the second of `sync_automation` intends.

### Fairness

`ProposalLifecycle`: strong fairness of every statement of a started run and of
`Finish`: PostgreSQL's lock queues are first come, first served, and every LLM
call has a timeout.  Nothing obliges a run to start.  `BatchWriter`: asyncio runs
ready tasks (weak), its lock is fair and an outage ends (strong `Acquire`,
`Connect`, `ServerCommit`), docker restarts the process.  `WsClient`: `run()` and
the registry loop run when ready, and `wait_for` times out.  `ShadowEval`,
`Attribution` and `HabitMining` state safety only.  `NightlyChain` (weak): time
passes, docker restarts the worker, its two threads run when they can, and a request
is answered, refused or timed out; nothing is assumed of *what* is answered.
`RowSlider` (weak): HA runs what is triggered, lights obey, and time passes.

Deadlock is not checked in the shadow, attribution, habits, night, slider and
WebSocket runs: their clocks, ids, contexts and hands are bounded, and the client may
end.

## 4. Proofs

From the constants' named assumptions, for any number of proposals, patterns, runs,
requests, contexts, days, and for any settings.  Where a theorem needs more, it says so
in its statement: there are five such theorems, discussed below.  Every invariant and
every action property of the runs that pass has a theorem.

**Types.**  `TypeCorrect`: `Spec => []TypeOK`, of every component.

**ProposalLifecycle.**

* `TransactionsIsolated`: `Spec => []TransactionInv`.  None of the safety
  properties is inductive: they speak of committed tables, and what a commit does
  was decided many statements before.  `TransactionInv` states what open
  transactions may rely on until they end: `LocksExclusive` (nobody writes a row
  another has written), `HeldUndecided` (a request's row is as it found it),
  `RowMoves` and `PatMoves` (what an uncommitted row or pattern may become, given
  what is committed *now*), `SweepOrder` (refreshes come before the sweep, and what
  it selected is what it writes).
* `RejectedPatternsStayRejected`, `RejectionUndoneOnlyBySweepProved`: from
  `RowMoves` and `PatMoves` at `Commit`, and `HeldUndecided` at `Finish`.
* `FoundLiveIsNotSweptProved` (no run sweeps what it read as live and found): from
  `SweepOrder`.
* `NeverDeadlocked`: a waiting request would need a committed `proposed` pattern
  that an open run holds, which `PatMoves` allows only after its last wait.
* `ProposedHasProposalProved`, for any number of overlapping runs: from `BackedInv`.
  Rows come and never go, so what a run has read of a proposal is still there
  (`RowsStay`); what it will mark is of a group that has a proposal or will get one in
  the same transaction (`MarksBacked`), and what it has marked is of a group whose
  proposal it sees (`MarkedBacked`).
* `ApprovalEndsOnlyUnseenProved`, for one run at a time beside any number of requests:
  from `UnseenInv`.  What the sweep has selected was refreshed too long ago and is not
  refreshed since, and a proposal that was missing or rejected when the run read
  `existing` still is.  The second half needs that nobody else inserts.  With two
  overlapping runs the property is false (section 5), so the hypothesis stays.
* `LifecycleImplementsLedger`: the refinement.  `SweepSelect` is `Pick`, `Commit`
  is `Night`, `Finish` is `Review`, the end of a run lets go of its picks, and all
  other statements stutter.

**BatchWriter.**  `RowsKeptOrLateProved` and `StoredInOrderProved` rest on
`OneFlushAtATime`: who is between connecting and the commit's answer holds the lock
(`OneFlusher`), tasks live in the modes they belong to (`Alive`), a batch in flight is
the front of its table's buffer, and stored once the server says so (`InFlight`),
buffers keep the order of the adds (`Buffered`), and what is stored was added before
what waits, but for a batch whose answer is under way (`Ordered`).

**WsClient.**  Ids that were given out bound all dictionaries (`IdsLeft`); between
connections nobody sends and nothing is asked (`Quiet`); who waits is in `_pending`
and can be settled (`Waiting`); a subscription that HA has been asked for, serves or
has refused has its callback (`Routed`).  The three properties follow.

**Attribution.**  `AttributionIsExact`, `CacheIsBounded`: by `CacheIsHistory` (a cached
expiry is the hearing time plus the ttl; what is not cached has expired), which neither
pruning, nor reconnects, nor time can break; finiteness of the cache for the bound.

**ShadowEval.**

* `CommitLeavesNoGapProved`, from `PlansCover`: every day a run needs is in its plan or
  has a score, and every planned day that can be scored is in what it is about to
  insert.  Scores are never deleted, so what others commit meanwhile helps.
* `ScoresMatchHistoryProved`, from `ScoresKeptTrue`, for fires at any minute of the day
  before to the day after and any pair window.  A score is true of the events
  there were when it was made, so the invariant (`RowFits`) has to say what later
  events cannot change: a scored day is over, nothing happens in the past, and
  what a run of the usual hour has not heard is too late to be heard.  The work
  is in the one window of events that a run fetches.  From below: its edges cut off
  nothing that is `Heard`, and what is near is near on the circle
  (`AnsweredAreMatched`).  From above: what is near on the circle is near on one
  of the days around (`CircleEchoes`, `MatchedAreEchoed`).  Without an `Excess` the
  answer of each matched fire is a human event of the day and of no other fire, so there
  are as many (`MatchesTakeTurns`).  `ReachIsHeard` is the case in which all answers
  are heard.  Sums over an automation's actions need no induction: an action is
  taken out of the set and compared, on the smallest set that would be an exception.

**HabitMining.**

* `ConfidenceIsShareProved`: the answered occurrences are a subset of a finite set
  of occurrences (`WindowStaysFinite`), and rows that are mined no more keep what
  they had.
* `ClustersAreComponents`: what `cluster_minutes` returns, with its runs and its join
  across midnight, are the connected components of the times under "no gap between
  them" on the day circle.  The circle is cut at any point by `Off`, the minutes from one
  time on to another.
* `TypeInvHolds`, and from it `TypeCorrect`: sums of squares are numbers, means are
  times of the day, and of the candidates that have one key exactly one is kept
  (`Winner`), for any number of them.
* `RowKeepsItsPlaceProved`: a candidate adopts a row within the tolerance, or has the
  key of its own bucket.
* `NewRowIsNewHabitProved`, `FreshRowsApartProved`, for behaviours in which clusters
  are narrow (`NarrowClusters`): if an entity has several clusters, each covers less
  than half a day.  Then a mean lies within its cluster (`MeanOfCluster`), so two
  means are more than the gap apart (`MeansApart`), and a row within the tolerance of
  one candidate is adopted by no other.  `FreshRowsApart` needs two more
  conjuncts (`ApartInv`): no two rows of an entity ever have one mean, and what was mined
  today is of today's candidates.  Without the hypothesis both are false (section 5).
  In `habits` the hypothesis holds in every state.
* `HabitsGroupedOnce`: `build_groups` loses no pattern that passes the gates, and puts
  none into two groups.

**NightlyChain.**

* `JobsInOrderProved`, since whatever is queued, performed or done is
  `Ready` (what it depends on has finished at least once), and a status `finished` is
  deserved.  Deferred jobs need not be ready: `Finish` releases the one whose only
  missing dependency has just finished.
* `NothingDraftedTwiceProved`, from `DraftInv`: drafts are of groups that the talk has
  left behind and that have no proposal.  `OnlyAcceptedStored`: with it goes that
  whatever is drafted or stored is `Valid`.
* `DraftsFitTheirHabitProved`: what is `Valid` fits.  `validate_proposal` compares
  times on the circle, the property compares moments on the line: `DistanceOnDays`
  relates the two, within two days on either side, because an offset may be almost a
  day.  The theorem assumes that the sun rises and sets (or that no coordinates are
  configured): on a polar day a sun trigger is compared with nothing (section 5).

**RowSlider.**  `SliderTruthfulProved` for any delays: without a run of sync, the slider
is `Value`, or every light that apply has called comes to what the slider says or is
unavailable (`Truth`).  That `Value` exists and is unique is a lemma, by the least row
from the rear that is not lit.  `SlideHoldsProved` assumes `Lag < Debounce`: everything
under way ends before sync does, and the last call of each light is the wish (`Wish`).

**Model-checked only.**  Liveness (`RunEnds`, `CallbackReturns`, `RowsLeaveBuffers`,
`RefreshEnds`, `QuietNightsComplete`, `Settles`), which depends on fairness and ENABLED,
out of the prover's reach.  The three properties of section 5 that runs refute have no
theorem, of course.

## 5. What was found

Shown by runs (kind, line and quotation in `PROJECT.json`):

1. A rejection that commits between the sweep's SELECT and its UPDATE by id becomes
   `stale`, and can be revived (`terminal`).
2. A row added during its table's INSERT is dropped with the batch when it arrives
   after the INSERT was compiled (`writer_kept`).
3. A connection closed during the handshake raises an exception that `run()` does
   not handle (`ws_forever`; nobody has called `stop()` in the trace).

Seen while modelling, without a run:

* The mean of a cluster that is wider than half a day can lie in another cluster.
  Fourteen days with 0:00, 13:30 and 18:45, and one with a chain of times from 1:30 to
  12:00, are two clusters for `cluster_minutes`: 0:00 to 13:30, whose `circular_mean` is
  18:45, and 18:45 itself.  Two rows of one night then stand at one time, and a row can
  be adopted by the wrong habit.  The proof of `FreshRowsApart` asks for the hypothesis
  `NarrowClusters`; TLC violates the property without it, on a day of 32 minutes.
* With two overlapping runs an approval can end although its group is there: a run
  reads that there is no proposal, the other inserts it, an operator approves it, and the
  first, whose group the model has declined, sweeps it.  The other run must have begun
  more than `proposer_stale_days` before the first: seven days by default, but the
  setting may be 0.  `ApprovalEndsOnlyUnseen` is proved, and checked, for one run at a
  time, as the queue has it.
* `group_key` follows the mean of a habit from bucket to bucket, so that the same
  pattern row gets a second live proposal, which `proposer/grouping.py:5` excludes.
  TLC finds it within the three days of `habits`.
* Lights that answer later than sync's second make the two automations of the slider
  trigger each other without end: with `Lag` not below `Debounce`, TLC finds a loop
  against `Settles`.  `ha/basement_tablet/helpers.py:10-11` and `:89-90` say that the
  delay excludes it.
* A slide in the last moments of sync's second is undone by that sync (`SlideHolds`
  leaves it out), and one rear light that is switched off elsewhere makes the slider 0
  and so darkens the whole room: rows count from the rear.
* The evaluator's coverage can exceed 1 (`shadow/service.py:7-8` and
  `db/models.py:149-151` say it cannot): the answer of 00:00 to a fire of 23:59 is a
  match of yesterday, and a human event of today; and one human event can be the
  answer of two fires.  `ScoresMatchHistory` shows that there is no third way.
* A sun trigger whose offset leads out of the day misses its answers.  With the sunset
  at 20:30 and `+04:10`, `_fire_minutes` (`shadow/service.py:99-101`) returns minute
  1480, and a human who acts at 00:50 is on the next day, beyond the tolerance that
  `_adjacent_events` and `_event_window` read.  `validate_proposal` accepts the
  offset, because it compares on the circle (`proposer/schema.py:206`, `:211`).  A pair window
  longer than the tolerance (`config.py:56`, `:73`) loses late answers in the same
  way.  TLC shows both without `WithinReach`.
* A draft that the model withdraws on the retry (`propose: false` beside an automation
  that is valid by now) is stored: `propose` is read from the first answer only.
* With coordinates, on a polar day, a sun trigger is accepted at any offset.
* `validate_proposal` does not compare the service with the mined action: an
  automation may turn off what people turn on.  The evaluator then finds no match.
* 3600 s are thirty hung requests; four groups with a hanging model can need
  thirty-two.  RQ then kills the job, all its drafts are lost, the evaluator does not
  run, and the next night starts with the same groups.  The comment at
  `worker/scheduler.py:37-40` raises the limit to avoid just this.
* `chat_json` does not catch `http.client.HTTPException` (an answer cut short):
  one such request ends the run with all its drafts.
* A pattern that is mined no more keeps its row and its numbers, and
  `run_proposing` reads all rows: its proposal is refreshed every night and never
  becomes `stale`.  The design document (phase 3, line 81) says that it does when
  its patterns are "absent from mining".
* A stale proposal that an operator approves while a run asks the LLM is missed by
  that run's guarded revival, keeps its old `last_eligible_at`, and is swept by the
  same run although its group is eligible: the exception in `ApprovalEndsOnlyUnseen`.
* An automation without a parent context whose announcement was missed or has
  expired is stored as manual: exactly what `OnlyGapsCreditRuns` allows.
* Mining twice in a night is not always mining once: of two candidates with one
  key, the one that was dropped the first time can get a row the second time.
* Rejecting a `stale` proposal leaves its patterns `candidate` (they are no longer
  `proposed`), while `docs/superpowers/specs/2026-07-28-phase3-llm-proposals-design.md`
  says that a rejection rejects its patterns.  Only the `group_key` protects it.
* Patterns of a `stale` proposal are marked `proposed` even if its revival was
  skipped (`src/pae/proposer/service.py:276`).
* Two overlapping runs, or two shadow runs, lose the whole transaction of the
  second to a unique index; `worker/scheduler.py:4-7` calls overlap harmless.
* A lost commit answer poisons the batch of `context_frames`, whose key is the time:
  it is refused for ever and the rows behind it wait.
* `next_delay` overflows a float at attempt 1024; a refused subscription goes
  unnoticed; `stop()` during a dial is overlooked (only `pae smoke` calls it, when
  connected); `_pending` grows by one future per subscription and reconnect.
* `pae shadow` run in the first `shadow_tolerance_minutes` of a day scores last
  night for good before its last answers (`hasty` in `ShadowEval`).

## 6. Not modelled

Schedules that follow the sun are planned (below).  The REST client, filters, presence,
context frames and registry rows are pure functions that unit tests cover.  API
views, CLI, metrics and configuration render or start what is modelled.  Prompt
text, metrics and logs are left out everywhere.  HA, PostgreSQL, Redis/RQ and the
LLM are external, and appear as far as the code uses them.  The rest of `ha/`
holds generators of static configuration.  Daylight saving time, and how the sun's time is
computed, are outside `ShadowEval`; two UPDATEs that lock the same rows in opposite
orders are outside `ProposalLifecycle` (section 2).  `NightlyChain` has one worker.

## 7. Plan

Done, in this order: `ProposalLifecycle` (the state that operators see),
`BatchWriter`, `WsClient`, `ShadowEval`, `Attribution`, `HabitMining`,
`Conversation` and `NightlyChain`, `RowSlider`; then the proofs of all safety and action
properties that the runs check.

Next:

1. The ingester's path from an event to its rows (filters, presence, context frames,
   registry rows), between `Attribution` and `BatchWriter`.
2. Two workers at a deploy in `NightlyChain`: the queue they share, and two talks at a
   time.
3. Rejected patterns in `HabitMining`: which habit a rejection follows.
4. Schedules that follow the sun in `HabitMining`, and days of unequal length in
   `ShadowEval`.

Proofs next: what else of the code's promises can be said of every instance: which
overlaps of two runs keep an approval, when two nights of mining are one, and how far a
group's key can drift from its patterns.
