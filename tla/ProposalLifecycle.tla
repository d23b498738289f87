-------------------------- MODULE ProposalLifecycle --------------------------
(***************************************************************************)
(* The life of an automation proposal: the nightly proposer run            *)
(* (src/pae/proposer/service.py) against the review page's approve and     *)
(* reject (src/pae/proposer/repo.py, src/pae/api/proposals.py).            *)
(*                                                                         *)
(* Both work on the tables `proposals` and `patterns` of one PostgreSQL    *)
(* database at its default isolation, READ COMMITTED.  A run is a single   *)
(* transaction that stays open across every LLM call, so each of its       *)
(* statements is an action of its own here: a statement reads what is      *)
(* committed, overlaid with what its own transaction wrote; it waits for   *)
(* a row another transaction has written; and nothing it wrote is visible  *)
(* to others before Commit.  A proposal is known by its group_key.         *)
(*                                                                         *)
(* Which patterns pass the gates tonight is the miner's business: a run    *)
(* finds any set of disjoint groups among Candidates.  Time counts days.   *)
(***************************************************************************)
EXTENDS Integers, FiniteSets

CONSTANTS
    Keys,        \* group keys
    Patterns,    \* pattern keys
    Candidates,  \* the groups the miner's data can form: [key, pats] records
    Proposers,   \* proposer runs that can overlap (worker job, `pae propose`)
    Operators,   \* review requests that can be in flight at once
    StaleDays,   \* settings.proposer_stale_days
    MaxDay       \* bound: the last day of the model

LiveStatuses == {"shadowing", "approved"}
FromStatuses == {"shadowing", "stale"}
Verdicts     == {"approved", "rejected"}
RowStatuses  == {"none", "shadowing", "approved", "rejected", "stale"}
PatStatuses  == {"candidate", "proposed", "rejected"}

\* A row of `proposals`; seen is last_eligible_at, srcs source_pattern_keys.
Rows  == [status : RowStatuses, seen : 0..MaxDay, srcs : SUBSET Patterns]
NoRow == [status |-> "none", seen |-> 0, srcs |-> {}]

ASSUME LifecycleAssumption ==
    /\ StaleDays \in Nat
    /\ MaxDay \in Nat
    /\ Candidates \subseteq [key : Keys, pats : SUBSET Patterns]

VARIABLES
    day,       \* today
    props,     \* committed rows of `proposals`, by group key
    pats,      \* committed patterns.status, by pattern key
    pc,        \* the next statement of each proposer run
    now,       \* the run's own clock reading, taken when it starts
    groups,    \* the groups it built
    existing,  \* the group_key -> status map it read
    fresh,     \* the groups it will insert a proposal for
    marks,     \* the patterns it will mark proposed
    gone,      \* the keys its sweep selected
    rowLock, rowNew,  \* the proposal rows it has written, and their new value
    patLock, patNew,  \* the patterns it has written, and their new status
    held,      \* the proposal row a review request has flipped, not committed
    verdict    \* what that request decides

db      == <<props, pats>>
plan    == <<now, groups, existing, fresh, marks, gone>>
writes  == <<rowLock, rowNew, patLock, patNew>>
reviews == <<held, verdict>>
vars    == <<day, db, pc, plan, writes, reviews>>

------------------------------------------------------------------------------
\* What transactions see of, and hold against, each other.

Row(p, k) == IF k \in rowLock[p] THEN rowNew[p][k] ELSE props[k]
Pat(p, x) == IF x \in patLock[p] THEN patNew[p][x] ELSE pats[x]

RowFree(p, k) ==
    /\ \A q \in Proposers \ {p} : k \notin rowLock[q]
    /\ \A o \in Operators : k \notin held[o]

PatFree(p, x) == \A q \in Proposers \ {p} : x \notin patLock[q]

\* UPDATE proposals ... WHERE group_key IN ks: each row becomes new[k].
WriteRows(p, ks, new) ==
    /\ \A k \in ks : RowFree(p, k)
    /\ rowLock' = [rowLock EXCEPT ![p] = @ \cup ks]
    /\ rowNew' = [rowNew EXCEPT ![p] =
                    [k \in Keys |-> IF k \in ks THEN new[k] ELSE @[k]]]

\* Mutant: the UPDATE without its status condition.
WritePats_Unguarded(p, xs, from, to) ==
    /\ \A x \in xs : PatFree(p, x)
    /\ patLock' = [patLock EXCEPT ![p] = @ \cup xs]
    /\ patNew' = [patNew EXCEPT ![p] =
                    [x \in Patterns |-> IF x \in xs THEN to ELSE @[x]]]

\* UPDATE patterns SET status = to WHERE pattern_key IN xs AND status = from.
WritePats(p, xs, from, to) ==
    LET hit == {x \in xs : Pat(p, x) = from}
    IN  /\ \A x \in hit : PatFree(p, x)
        /\ patLock' = [patLock EXCEPT ![p] = @ \cup hit]
        /\ patNew' = [patNew EXCEPT ![p] =
                        [x \in Patterns |-> IF x \in hit THEN to ELSE @[x]]]

Statement(p, at, next) == pc[p] = at /\ pc' = [pc EXCEPT ![p] = next]

\* The end of a transaction, either way: its locks and its locals go.
Forget(p) ==
    /\ pc'       = [pc EXCEPT ![p] = "idle"]
    /\ now'      = [now EXCEPT ![p] = 0]
    /\ groups'   = [groups EXCEPT ![p] = {}]
    /\ existing' = [existing EXCEPT ![p] = [k \in Keys |-> "none"]]
    /\ fresh'    = [fresh EXCEPT ![p] = {}]
    /\ marks'    = [marks EXCEPT ![p] = {}]
    /\ gone'     = [gone EXCEPT ![p] = {}]
    /\ rowLock'  = [rowLock EXCEPT ![p] = {}]
    /\ rowNew'   = [rowNew EXCEPT ![p] = [k \in Keys |-> NoRow]]
    /\ patLock'  = [patLock EXCEPT ![p] = {}]
    /\ patNew'   = [patNew EXCEPT ![p] = [x \in Patterns |-> "candidate"]]

------------------------------------------------------------------------------
Init ==
    /\ day = 0
    /\ props = [k \in Keys |-> NoRow]
    /\ pats = [x \in Patterns |-> "candidate"]
    /\ pc = [p \in Proposers |-> "idle"]
    /\ now = [p \in Proposers |-> 0]
    /\ groups = [p \in Proposers |-> {}]
    /\ existing = [p \in Proposers |-> [k \in Keys |-> "none"]]
    /\ fresh = [p \in Proposers |-> {}]
    /\ marks = [p \in Proposers |-> {}]
    /\ gone = [p \in Proposers |-> {}]
    /\ rowLock = [p \in Proposers |-> {}]
    /\ rowNew = [p \in Proposers |-> [k \in Keys |-> NoRow]]
    /\ patLock = [p \in Proposers |-> {}]
    /\ patNew = [p \in Proposers |-> [x \in Patterns |-> "candidate"]]
    /\ held = [o \in Operators |-> {}]
    /\ verdict = [o \in Operators |-> "none"]

\* eligible_patterns and build_groups: every pattern is in at most one group,
\* and a rejected pattern is in none.
FormedGroups(gs) ==
    /\ \A g \in gs : g.pats # {} /\ \A x \in g.pats : pats[x] # "rejected"
    /\ \A g, h \in gs : g # h => g.pats \cap h.pats = {}

\* SELECT patterns; the gates and the grouping are computed from it.
Begin(p) ==
    /\ Statement(p, "idle", "existing")
    /\ \E gs \in SUBSET Candidates :
         /\ FormedGroups(gs)
         /\ groups' = [groups EXCEPT ![p] = gs]
    /\ now' = [now EXCEPT ![p] = day]
    /\ UNCHANGED <<day, db, existing, fresh, marks, gone, writes, reviews>>

\* SELECT group_key, status FROM proposals.
ReadExisting(p) ==
    /\ Statement(p, "existing", "llm")
    /\ existing' = [existing EXCEPT ![p] = [k \in Keys |-> props[k].status]]
    /\ UNCHANGED <<day, db, now, groups, fresh, marks, gone, writes, reviews>>

GroupsAt(p, statuses) == {g \in groups[p] : existing[p][g.key] \in statuses}
KeysOf(gs) == {g.key : g \in gs}
PatsOf(gs) == UNION {g.pats : g \in gs}

\* Mutant: every group asked about is marked, declined or not.
ProcessGroups_MarkAsked(p) ==
    /\ Statement(p, "llm", "touch")
    /\ \E accepted \in SUBSET GroupsAt(p, {"none"}) :
         /\ fresh' = [fresh EXCEPT ![p] = accepted]
         /\ marks' = [marks EXCEPT ![p] = PatsOf(GroupsAt(p, {"none", "stale"}))]
    /\ UNCHANGED <<day, db, now, groups, existing, gone, writes, reviews>>

\* _process_groups: the model is asked about each group without a proposal and
\* the answers that survive validation become inserts (the
\* conversation itself is left out); a stale proposal's group is put up for revival unasked.
ProcessGroups(p) ==
    /\ Statement(p, "llm", "touch")
    /\ \E accepted \in SUBSET GroupsAt(p, {"none"}) :
         /\ fresh' = [fresh EXCEPT ![p] = accepted]
         /\ marks' = [marks EXCEPT ![p] =
                        PatsOf(accepted \cup GroupsAt(p, {"stale"}))]
    /\ UNCHANGED <<day, db, now, groups, existing, gone, writes, reviews>>

\* Mutant: only proposals under evaluation are refreshed.
TouchLive_ShadowingOnly(p) ==
    /\ Statement(p, "touch", "revive")
    /\ WriteRows(p, KeysOf(GroupsAt(p, {"shadowing"})),
                 [k \in Keys |-> [Row(p, k) EXCEPT !.seen = now[p]]])
    /\ UNCHANGED <<day, db, plan, patLock, patNew, reviews>>

\* UPDATE of the live proposals whose group is still there: last_eligible_at.
TouchLive(p) ==
    /\ Statement(p, "touch", "revive")
    /\ WriteRows(p, KeysOf(GroupsAt(p, LiveStatuses)),
                 [k \in Keys |-> [Row(p, k) EXCEPT !.seen = now[p]]])
    /\ UNCHANGED <<day, db, plan, patLock, patNew, reviews>>

\* Mutant: the revival trusts the status read at the start of the run.
Revive_NoRecheck(p) ==
    /\ Statement(p, "revive", "insert")
    /\ WriteRows(p, KeysOf(GroupsAt(p, {"stale"})),
                 [k \in Keys |-> [Row(p, k) EXCEPT !.seen = now[p],
                                                   !.status = "shadowing"]])
    /\ UNCHANGED <<day, db, plan, patLock, patNew, reviews>>

\* UPDATE of the stale ones back to shadowing, if they still are stale.
Revive(p) ==
    LET ks == {k \in KeysOf(GroupsAt(p, {"stale"})) : Row(p, k).status = "stale"}
    IN  /\ Statement(p, "revive", "insert")
        /\ WriteRows(p, ks, [k \in Keys |-> [Row(p, k) EXCEPT !.seen = now[p],
                                                     !.status = "shadowing"]])
        /\ UNCHANGED <<day, db, plan, patLock, patNew, reviews>>

\* Mutant: INSERT ... ON CONFLICT DO UPDATE.
Duplicate_Upsert(p) == \E g, h \in fresh[p] : g # h /\ g.key = h.key

\* The unique index ux_proposals_group_key rejects the INSERT.
Duplicate(p) ==
    \/ \E g, h \in fresh[p] : g # h /\ g.key = h.key
    \/ \E g \in fresh[p] : Row(p, g.key).status # "none"

\* Mutant: the row is stored with a pattern's status.
NewRow_PatternStatus(p, k) ==
    [status |-> "proposed", seen |-> now[p],
     srcs |-> PatsOf({g \in fresh[p] : g.key = k})]

NewRow(p, k) ==
    [status |-> "shadowing", seen |-> now[p],
     srcs |-> PatsOf({g \in fresh[p] : g.key = k})]

\* INSERT; an uncommitted insert of the same key by another run is waited for.
Insert(p) ==
    /\ Statement(p, "insert", "mark")
    /\ ~Duplicate(p)
    /\ WriteRows(p, KeysOf(fresh[p]), [k \in Keys |-> NewRow(p, k)])
    /\ UNCHANGED <<day, db, plan, patLock, patNew, reviews>>

InsertFails(p) ==
    /\ pc[p] = "insert"
    /\ Duplicate(p)
    /\ \A k \in KeysOf(fresh[p]) : RowFree(p, k)
    /\ Forget(p)
    /\ UNCHANGED <<day, db, reviews>>

MarkProposed(p) ==
    /\ Statement(p, "mark", "select")
    /\ WritePats(p, marks[p], "candidate", "proposed")
    /\ UNCHANGED <<day, db, plan, rowLock, rowNew, reviews>>

\* The sweep's SELECT: it locks nothing.
SweepSelect(p) ==
    LET old == {k \in Keys : /\ Row(p, k).status \in LiveStatuses
                             /\ Row(p, k).seen < now[p] - StaleDays}
    IN  /\ Statement(p, "select", IF old = {} THEN "commit" ELSE "sweep")
        /\ gone' = [gone EXCEPT ![p] = old]
        /\ UNCHANGED <<day, db, now, groups, existing, fresh, marks, writes,
                       reviews>>

\* The sweep's UPDATE goes by id: it does not look at the status again.
SweepUpdate(p) ==
    /\ Statement(p, "sweep", "revert")
    /\ WriteRows(p, gone[p],
                 [k \in Keys |-> [Row(p, k) EXCEPT !.status = "stale"]])
    /\ UNCHANGED <<day, db, plan, patLock, patNew, reviews>>

RevertPatterns(p) ==
    /\ Statement(p, "revert", "commit")
    /\ WritePats(p, UNION {Row(p, k).srcs : k \in gone[p]},
                 "proposed", "candidate")
    /\ UNCHANGED <<day, db, plan, rowLock, rowNew, reviews>>

Commit(p) ==
    /\ pc[p] = "commit"
    /\ props' = [k \in Keys |-> Row(p, k)]
    /\ pats' = [x \in Patterns |-> Pat(p, x)]
    /\ Forget(p)
    /\ UNCHANGED <<day, reviews>>

\* The worker is killed, the job times out, the database refuses a statement or
\* breaks a deadlock: engine.begin() rolls back.
Abort(p) ==
    /\ pc[p] # "idle"
    /\ Forget(p)
    /\ UNCHANGED <<day, db, reviews>>

------------------------------------------------------------------------------
\* set_status: the guarded UPDATE takes the row ...
Decide(o, k, v) ==
    /\ verdict[o] = "none"
    /\ props[k].status \in FromStatuses
    /\ \A p \in Proposers : k \notin rowLock[p]
    /\ \A a \in Operators : k \notin held[a]
    /\ held' = [held EXCEPT ![o] = {k}]
    /\ verdict' = [verdict EXCEPT ![o] = v]
    /\ UNCHANGED <<day, db, pc, plan, writes>>

\* Mutant: the patterns are flipped whatever their status.
FlippedBy_AnyStatus(o) ==
    IF verdict[o] = "rejected" THEN UNION {props[k].srcs : k \in held[o]} ELSE {}

\* ... a rejection then flips the source patterns that are 'proposed' ...
FlippedBy(o) ==
    IF verdict[o] = "rejected"
    THEN {x \in UNION {props[k].srcs : k \in held[o]} : pats[x] = "proposed"}
    ELSE {}

\* ... and the transaction commits.
Finish(o) ==
    /\ verdict[o] # "none"
    /\ \A x \in FlippedBy(o), p \in Proposers : x \notin patLock[p]
    /\ props' = [k \in Keys |-> IF k \in held[o]
                                THEN [props[k] EXCEPT !.status = verdict[o]]
                                ELSE props[k]]
    /\ pats' = [x \in Patterns |-> IF x \in FlippedBy(o) THEN "rejected"
                                                         ELSE pats[x]]
    /\ held' = [held EXCEPT ![o] = {}]
    /\ verdict' = [verdict EXCEPT ![o] = "none"]
    /\ UNCHANGED <<day, pc, plan, writes>>

\* The api process dies before the commit.
Drop(o) ==
    /\ verdict[o] # "none"
    /\ held' = [held EXCEPT ![o] = {}]
    /\ verdict' = [verdict EXCEPT ![o] = "none"]
    /\ UNCHANGED <<day, db, pc, plan, writes>>

NextDay ==
    /\ day < MaxDay
    /\ day' = day + 1
    /\ UNCHANGED <<db, pc, plan, writes, reviews>>

------------------------------------------------------------------------------
Step(p) ==
    \/ ReadExisting(p) \/ ProcessGroups(p) \/ TouchLive(p) \/ Revive(p)
    \/ Insert(p) \/ InsertFails(p) \/ MarkProposed(p) \/ SweepSelect(p)
    \/ SweepUpdate(p) \/ RevertPatterns(p) \/ Commit(p)

Next ==
    \/ NextDay
    \/ \E p \in Proposers : Begin(p) \/ Step(p) \/ Abort(p)
    \/ \E o \in Operators :
         \/ \E k \in Keys, v \in Verdicts : Decide(o, k, v)
         \/ Finish(o) \/ Drop(o)

Spec == Init /\ [][Next]_vars

\* The database's lock queues are first come, first served, so a statement that
\* is again and again free to run does run; the LLM client's calls return or
\* time out.  Nothing obliges a run to start, or makes it abort.
Fairness ==
    /\ \A p \in Proposers : SF_vars(Step(p))
    /\ \A o \in Operators : SF_vars(Finish(o))

FairSpec == Spec /\ Fairness

------------------------------------------------------------------------------
\* Type invariant: every variable keeps its shape, and the locks a transaction
\* holds are on rows and patterns that exist.
TypeOK ==
    /\ day \in 0..MaxDay
    /\ props \in [Keys -> Rows]
    /\ pats \in [Patterns -> PatStatuses]
    /\ pc \in [Proposers -> {"idle", "existing", "llm", "touch", "revive",
                             "insert", "mark", "select", "sweep", "revert",
                             "commit"}]
    /\ now \in [Proposers -> 0..MaxDay]
    /\ groups \in [Proposers -> SUBSET Candidates]
    /\ existing \in [Proposers -> [Keys -> RowStatuses]]
    /\ fresh \in [Proposers -> SUBSET Candidates]
    /\ marks \in [Proposers -> SUBSET Patterns]
    /\ gone \in [Proposers -> SUBSET Keys]
    /\ rowLock \in [Proposers -> SUBSET Keys]
    /\ rowNew \in [Proposers -> [Keys -> Rows]]
    /\ patLock \in [Proposers -> SUBSET Patterns]
    /\ patNew \in [Proposers -> [Patterns -> PatStatuses]]
    /\ held \in [Operators -> SUBSET Keys]
    /\ verdict \in [Operators -> Verdicts \cup {"none"}]

\* A request waits for a pattern row that proposer p has written.
WaitsForRun(o, p) ==
    /\ verdict[o] # "none"
    /\ \E x \in FlippedBy(o) : x \in patLock[p]

\* Proposer p's next statement waits for the proposal row request o has
\* flipped.
WaitsForReview(p, o) ==
    \E k \in held[o] :
        \/ pc[p] = "touch" /\ k \in KeysOf(GroupsAt(p, LiveStatuses))
        \/ /\ pc[p] = "revive"
           /\ k \in KeysOf(GroupsAt(p, {"stale"})) /\ Row(p, k).status = "stale"
        \/ pc[p] = "sweep" /\ k \in gone[p]

\* A review request and a proposer run never wait for each other: although the
\* run takes pattern locks before proposal locks and the request takes them
\* the other way round, the status guards of the two pattern UPDATEs keep a
\* request away from the patterns a run has only just marked.  (An UPDATE of many
\* rows locks them in one step here.  PostgreSQL locks them one by one, so two
\* such UPDATEs could meet in opposite orders; it would abort one of them.)
NoDeadlock ==
    \A p \in Proposers, o \in Operators :
        ~(WaitsForRun(o, p) /\ WaitsForReview(p, o))

\* A pattern is 'proposed' only if a proposal was stored for a group it can be
\* part of: marking and inserting commit together, and a group the model
\* declined marks nothing (_process_groups, run_proposing's two writes).
ProposedHasProposal ==
    \A x \in Patterns : pats[x] = "proposed" =>
        \E g \in Candidates : x \in g.pats /\ props[g.key].status # "none"

\* Rejecting is final for the source patterns: no run, not even one that read
\* them before the rejection, makes a rejected pattern eligible again.
RejectedPatternsStay ==
    [][\A x \in Patterns : pats[x] = "rejected" => pats'[x] = "rejected"]_vars

\* A rejected proposal is only ever disturbed by a run whose sweep selected it
\* before the rejection was committed; revival, which reads a status just as
\* old, leaves it alone (the re-check of service.py's comment).
RejectionUndoneOnlyBySweep ==
    [][\A k \in Keys :
         props[k].status = "rejected" /\ props'[k].status # "rejected" =>
            /\ props'[k].status = "stale"
            /\ \E p \in Proposers : pc[p] = "commit" /\ k \in gone[p]]_vars

\* An approval ends only by the sweep of a run, for a proposal whose group was in
\* no run's data for more than StaleDays, and not in that run's data either: but
\* for one that the run read as stale and the operator approved before the run
\* could revive it, which is swept although its group is there.
ApprovalEndsOnlyUnseen ==
    [][\A k \in Keys :
         props[k].status = "approved" /\ props'[k].status # "approved" =>
            /\ props'[k].status = "stale"
            /\ props[k].seen + StaleDays < day
            /\ \E p \in Proposers :
                 /\ pc[p] = "commit" /\ k \in gone[p]
                 /\ k \in KeysOf(groups[p]) => existing[p][k] = "stale"]_vars

\* A proposal that is live when a run reads `existing`, and whose group the run
\* has found, is not swept by that run: last_eligible_at is refreshed before the
\* sweep selects, and the sweep sees the run's own refresh.
FoundLiveIsNotSwept ==
    \A p \in Proposers : gone[p] \cap KeysOf(GroupsAt(p, LiveStatuses)) = {}

\* A run that has started ends, by commit or rollback: the locks it waits for
\* are all released.
RunEnds == \A p \in Proposers : pc[p] # "idle" ~> pc[p] = "idle"

\* No row is written by two transactions at once.
LocksExclusive ==
    /\ \A p, q \in Proposers : p # q => /\ rowLock[p] \cap rowLock[q] = {}
                                       /\ patLock[p] \cap patLock[q] = {}
    /\ \A p \in Proposers, o \in Operators : rowLock[p] \cap held[o] = {}
    /\ \A a, b \in Operators : a # b => held[a] \cap held[b] = {}

\* What a request has flipped is one row, still committed as it found it.
HeldUndecided ==
    \A o \in Operators : \A k \in held[o] :
        /\ held[o] = {k}
        /\ verdict[o] \in Verdicts /\ props[k].status \in FromStatuses

\* A run's uncommitted row keeps the committed status, revives or is born, or is
\* a victim of its sweep.
RowMoves ==
    \A p \in Proposers : \A k \in rowLock[p] :
        LET old == props[k].status
            new == rowNew[p][k].status
        IN  \/ new = old
            \/ old \in {"none", "stale"} /\ new = "shadowing"
            \/ k \in gone[p] /\ new = "stale"

\* A run's uncommitted pattern was not committed as rejected; one committed as
\* proposed goes back to candidate, in the last statement of a run that sweeps.
PatMoves ==
    \A p \in Proposers : \A x \in patLock[p] :
        \/ pats[x] = "candidate" /\ patNew[p][x] \in {"candidate", "proposed"}
        \/ /\ pats[x] = "proposed" /\ patNew[p][x] = "candidate"
           /\ pc[p] = "commit" /\ gone[p] # {}

\* A run that is not open has written nothing.  Everything an open one writes
\* before its sweep is refreshed to its own time, the live proposals of its
\* groups among it, and the sweep writes what it selected.
SweepOrder ==
    \A p \in Proposers :
        /\ pc[p] = "idle" => rowLock[p] = {}
        /\ pc[p] \notin {"sweep", "revert", "commit"} =>
             /\ gone[p] = {}
             /\ \A k \in rowLock[p] : rowNew[p][k].seen = now[p]
        /\ pc[p] \in {"revive", "insert", "mark", "select"} =>
             KeysOf(GroupsAt(p, LiveStatuses)) \subseteq rowLock[p]
        /\ pc[p] \in {"revert", "commit"} => \A k \in gone[p] :
             k \in rowLock[p] /\ rowNew[p][k].status = "stale"

\* What open transactions may assume of each other and of the committed tables,
\* for as long as they are open: the inductive invariant behind the theorems of
\* ProposalLifecycle_proofs.
TransactionInv ==
    LocksExclusive /\ HeldUndecided /\ RowMoves /\ PatMoves /\ SweepOrder

\* The committed tables move only as the ledger allows: one run's commit or one
\* operator's decision at a time, whatever runs and requests interleave.
Ledger == INSTANCE ReviewLedger WITH
              status <- [k \in Keys |-> props[k].status],
              picked <- UNION {gone[p] : p \in Proposers}

ImplementsLedger == Ledger!Spec

\* "`rejected` is terminal" (design doc 79-80, db/models.py 122): what the
\* documents say of a rejected proposal.
RejectedIsTerminal ==
    [][\A k \in Keys : props[k].status = "rejected" =>
                       props'[k].status = "rejected"]_vars

==============================================================================
