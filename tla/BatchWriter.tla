----------------------------- MODULE BatchWriter -----------------------------
(***************************************************************************)
(* The ingester's write path: BatchWriter (src/pae/ingest/writer.py) under *)
(* the tasks of IngestService (src/pae/ingest/service.py).                 *)
(*                                                                         *)
(* The process is one asyncio event loop, so an action is what a task does *)
(* between two awaits.  Three tasks add rows or flush: "ws", the listen    *)
(* loop, which awaits each event callback before it reads the next frame;  *)
(* "loop", _flush_loop; and "frame", _context_frame_loop, which only adds. *)
(* "final" is the flush of run()'s finally clause.                         *)
(*                                                                         *)
(* The database is external: a batch is sent, then stored or refused, and  *)
(* the answer to a commit can be lost.  Rows are numbered in the order     *)
(* they are added.                                                         *)
(***************************************************************************)
EXTENDS Integers, Sequences, Functions

CONSTANTS
    FlushSize,  \* settings.ingest_flush_size
    MaxRows,    \* bound: rows added in a behaviour
    MaxLost,    \* bound: commits whose answer the client does not get
    Faults      \* which of "outage", "fatal", "kill" can happen

Tables == {"events", "presence", "frames"}
Unique == {"frames"}  \* context_frames has no surrogate key: time is its key
Tasks  == {"ws", "loop", "final"}
Stages == {"away", "lock", "connect", "sent", "stored", "dead"}

ASSUME WriterAssumption ==
    /\ FlushSize \in Nat \ {0}
    /\ MaxRows \in Nat
    /\ MaxLost \in Nat
    /\ Faults \subseteq {"outage", "fatal", "kill"}

VARIABLES
    mode,    \* the process: running, closing (the finally clause), exited (that
             \* clause is done), or killed
    tables,  \* the keys of _buffers, in insertion order
    buf,     \* _buffers: the rows waiting for each table
    added,   \* rows added so far
    stage,   \* what each task is suspended on
    at,      \* position in tables of a flushing task's iteration
    size,    \* len(_buffers) when that iteration began
    sent,    \* the parameters of the INSERT it has in flight
    db,      \* rows in each database table, in insertion order
    lost     \* commits so far whose answer was lost

flush == <<stage, at, size, sent>>
vars  == <<mode, tables, buf, added, flush, db, lost>>

Row == 1..MaxRows

Down == {"exited", "killed"}

Holders == {w \in Tasks : stage[w] \in {"connect", "sent", "stored"}}

Init ==
    /\ mode = "running"
    /\ tables = <<>>
    /\ buf = [t \in Tables |-> <<>>]
    /\ added = 0
    /\ stage = [w \in Tasks |-> "away"]
    /\ at = [w \in Tasks |-> 0]
    /\ size = [w \in Tasks |-> 0]
    /\ sent = [w \in Tasks |-> <<>>]
    /\ db = [t \in Tables |-> <<>>]
    /\ lost = 0

------------------------------------------------------------------------------
\* BatchWriter.add, for one row or for two rows of one event.
Key(ts, t) == IF t \in Range(ts) THEN ts ELSE Append(ts, t)

Pending(b) == Len(b["events"]) + Len(b["presence"]) + Len(b["frames"])

AddOne(t) ==
    /\ added < MaxRows
    /\ added' = added + 1
    /\ tables' = Key(tables, t)
    /\ buf' = [buf EXCEPT ![t] = Append(@, added + 1)]

\* A person or a person detection: an event row and a presence row.
AddBoth ==
    /\ added + 1 < MaxRows
    /\ added' = added + 2
    /\ tables' = Key(Key(tables, "events"), "presence")
    /\ buf' = [buf EXCEPT !["events"] = Append(@, added + 1),
                          !["presence"] = Append(@, added + 2)]

\* on_state_changed, for a change that passes its filters.
OnStateChanged ==
    /\ mode = "running" /\ stage["ws"] = "away"
    /\ AddOne("events") \/ AddBoth
    /\ stage' = [stage EXCEPT !["ws"] =
                   IF Pending(buf') >= FlushSize THEN "lock" ELSE "away"]
    /\ UNCHANGED <<mode, at, size, sent, db, lost>>

\* _write_context_frame, once its REST calls have returned.
WriteContextFrame ==
    /\ mode = "running"
    /\ AddOne("frames")
    /\ UNCHANGED <<mode, flush, db, lost>>

\* _flush_loop wakes up.
FlushTick ==
    /\ mode = "running" /\ stage["loop"] = "away"
    /\ stage' = [stage EXCEPT !["loop"] = "lock"]
    /\ UNCHANGED <<mode, tables, buf, added, at, size, sent, db, lost>>

------------------------------------------------------------------------------
\* The loop over _buffers, from position i to its next await.  The iterator
\* raises when a key was added since it was made, or else the flush stops at
\* the next table with rows, or is done.
NextAt_PastEnd(i, b) ==  \* Mutant: the position after the last, for "done".
    LET full == {j \in i..Len(tables) : b[tables[j]] # <<>>}
    IN  IF full = {} THEN Len(tables) + 1
                     ELSE CHOOSE j \in full : \A k \in full : j <= k

NextAt_Break(i, b) ==  \* Mutant: break, for continue, at a table without rows.
    IF i <= Len(tables) /\ b[tables[i]] # <<>> THEN i ELSE 0

NextAt(i, b) ==
    LET full == {j \in i..Len(tables) : b[tables[j]] # <<>>}
    IN  IF full = {} THEN 0 ELSE CHOOSE j \in full : \A k \in full : j <= k

\* A flush that raises ends its task, except under _dispatch, which swallows it.
AfterRaise(w) == IF w = "ws" THEN "away" ELSE "dead"

Resume(w, i, n, b) ==
    LET j == NextAt(i, b)
    IN  /\ at' = [at EXCEPT ![w] = IF n # Len(tables) THEN 0 ELSE j]
        /\ size' = [size EXCEPT ![w] = IF n # Len(tables) \/ j = 0 THEN 0 ELSE n]
        /\ sent' = [sent EXCEPT ![w] = <<>>]
        /\ stage' = [stage EXCEPT ![w] =
             IF n # Len(tables) THEN AfterRaise(w)
             ELSE IF j # 0 THEN "connect" ELSE "away"]
        /\ mode' = IF w = "final" /\ (j = 0 \/ n # Len(tables)) THEN "exited"
                                                               ELSE mode

Acquire_NoLock(w) ==  \* Mutant: flush without its lock.
    /\ stage[w] = "lock"
    /\ Resume(w, 1, Len(tables), buf)
    /\ UNCHANGED <<tables, buf, added, db, lost>>

\* flush() gets the lock.
Acquire(w) ==
    /\ stage[w] = "lock"
    /\ Holders = {}
    /\ Resume(w, 1, Len(tables), buf)
    /\ UNCHANGED <<tables, buf, added, db, lost>>

\* engine.begin() has a connection; execute() compiles the rows there are now.
Connect(w) ==
    /\ stage[w] = "connect"
    /\ sent' = [sent EXCEPT ![w] = buf[tables[at[w]]]]
    /\ stage' = [stage EXCEPT ![w] = "sent"]
    /\ UNCHANGED <<mode, tables, buf, added, at, size, db, lost>>

\* The server stores the batch, unless one of its rows breaks a primary key.
Poisoned(t, rows) == t \in Unique /\ Range(rows) \cap Range(db[t]) # {}

ServerCommit(w) ==
    LET t == tables[at[w]]
    IN  /\ stage[w] = "sent"
        /\ ~Poisoned(t, sent[w])
        /\ db' = [db EXCEPT ![t] = @ \o sent[w]]
        /\ stage' = [stage EXCEPT ![w] = "stored"]
        /\ UNCHANGED <<mode, tables, buf, added, at, size, sent, lost>>

\* The commit returns: the table gets a new, empty buffer.
Committed(w) ==
    LET b == [buf EXCEPT ![tables[at[w]]] = <<>>]
    IN  /\ stage[w] = "stored"
        /\ buf' = b
        /\ Resume(w, at[w] + 1, size[w], b)
        /\ UNCHANGED <<tables, added, db, lost>>

\* An exception: no connection, a refused batch, or a commit whose answer is
\* lost.
Failure(w) ==
    \/ stage[w] \in {"connect", "sent"} /\ "outage" \in Faults
    \/ stage[w] = "sent" /\ Poisoned(tables[at[w]], sent[w])
    \/ stage[w] = "stored" /\ lost < MaxLost

FlushFailed_Drops(w) ==  \* Mutant: the buffer is reset on failure, too.
    LET b == [buf EXCEPT ![tables[at[w]]] = <<>>]
    IN  /\ Failure(w)
        /\ lost' = IF stage[w] = "stored" THEN lost + 1 ELSE lost
        /\ buf' = b
        /\ Resume(w, at[w] + 1, size[w], b)
        /\ UNCHANGED <<tables, added, db>>

FlushFailed_Again(w) ==  \* Mutant: the same table again, until it succeeds.
    /\ Failure(w)
    /\ lost' = IF stage[w] = "stored" THEN lost + 1 ELSE lost
    /\ Resume(w, at[w], size[w], buf)
    /\ UNCHANGED <<tables, buf, added, db>>

\* The rows stay and the loop goes on with the next table.
FlushFailed(w) ==
    /\ Failure(w)
    /\ lost' = IF stage[w] = "stored" THEN lost + 1 ELSE lost
    /\ Resume(w, at[w] + 1, size[w], buf)
    /\ UNCHANGED <<tables, buf, added, db>>

------------------------------------------------------------------------------
\* run() leaves asyncio.wait because the flush loop raised or the WebSocket
\* task did: every task is cancelled, which rolls back a flush in progress, or
\* makes it miss the answer to its commit, and frees the lock; the final flush
\* begins.
Close ==
    LET unanswered == \E w \in Tasks : stage[w] = "stored"
    IN  /\ mode = "running"
        /\ stage["loop"] = "dead" \/ "fatal" \in Faults
        /\ unanswered => lost < MaxLost
        /\ lost' = IF unanswered THEN lost + 1 ELSE lost
        /\ mode' = "closing"
        /\ stage' = [w \in Tasks |-> IF w = "final" THEN "lock" ELSE "away"]
        /\ at' = [w \in Tasks |-> 0]
        /\ size' = [w \in Tasks |-> 0]
        /\ sent' = [w \in Tasks |-> <<>>]
        /\ UNCHANGED <<tables, buf, added, db>>

\* SIGKILL, SIGTERM (no handler runs the finally clause), a power cut.
Kill ==
    /\ "kill" \in Faults
    /\ mode \notin Down
    /\ mode' = "killed"
    /\ stage' = [w \in Tasks |-> "away"]
    /\ at' = [w \in Tasks |-> 0]
    /\ size' = [w \in Tasks |-> 0]
    /\ sent' = [w \in Tasks |-> <<>>]
    /\ UNCHANGED <<tables, buf, added, db, lost>>

\* docker starts the container again: a new, empty BatchWriter.
Restart ==
    /\ mode \in Down
    /\ mode' = "running"
    /\ tables' = <<>>
    /\ buf' = [t \in Tables |-> <<>>]
    /\ stage' = [w \in Tasks |-> "away"]
    /\ UNCHANGED <<added, at, size, sent, db, lost>>

------------------------------------------------------------------------------
Flusher(w) ==
    Acquire(w) \/ Connect(w) \/ ServerCommit(w) \/ Committed(w) \/ FlushFailed(w)

Next ==
    \/ OnStateChanged \/ WriteContextFrame \/ FlushTick
    \/ \E w \in Tasks : Flusher(w)
    \/ Close \/ Kill \/ Restart

Spec == Init /\ [][Next]_vars

\* The event loop runs every task that is ready, asyncio.Lock wakes its waiters
\* in turn, docker restarts the process, and an outage does not last: a batch
\* that is sent again and again is in the end stored, if the table can take it.
Fairness ==
    /\ WF_vars(FlushTick) /\ WF_vars(Restart)
    /\ WF_vars(stage["loop"] = "dead" /\ Close)
    /\ \A w \in {"ws", "loop"} :
         /\ SF_vars(Acquire(w)) /\ SF_vars(Connect(w)) /\ SF_vars(ServerCommit(w))
    /\ \A w \in Tasks : WF_vars(Flusher(w))

FairSpec == Spec /\ Fairness

------------------------------------------------------------------------------
\* Type invariant: rows are numbers handed out so far, positions are positions
\* of tables, and a batch in flight is a batch only of a task that flushes.
TypeOK ==
    /\ mode \in {"running", "closing"} \cup Down
    /\ tables \in Seq(Tables)
    /\ buf \in [Tables -> Seq(Row)]
    /\ added \in 0..MaxRows
    /\ stage \in [Tasks -> Stages]
    /\ at \in [Tasks -> 0..Len(tables)]
    /\ size \in [Tasks -> 0..Len(tables)]
    /\ sent \in [Tasks -> Seq(Row)]
    /\ db \in [Tables -> Seq(Row)]
    /\ lost \in 0..MaxLost

\* Row r of table t was added after the batch now being stored was compiled.
Late(t, r) ==
    \E w \in Tasks : /\ stage[w] = "stored" /\ tables[at[w]] = t
                     /\ r \notin Range(sent[w])

\* As long as the process lives, a row leaves its buffer only for the database,
\* whatever fails and however the flushes and the adders interleave; the one
\* exception is a row added while its own table's batch was under way.
RowsKeptOrLate ==
    [][\A t \in Tables : \A r \in Range(buf[t]) \ Range(buf'[t]) :
         r \in Range(db'[t]) \/ Late(t, r) \/ mode \in Down]_vars

\* The rows of a table are stored once, and in the order they were added, as
\* long as commits are acknowledged: flushes of one table never overlap or
\* overtake, not even when an exit cancels one half-way.
StoredInOrder ==
    lost = 0 =>
      \A t \in Tables : \A i, j \in DOMAIN db[t] : i < j => db[t][i] < db[t][j]

\* Back-pressure ends: the event callback that found the buffer full, and with
\* it the listen loop, always gets the lock, flushes and returns, also while
\* the database refuses a batch for ever.
CallbackReturns == stage["ws"] # "away" ~> stage["ws"] = "away"

\* While outages end and commits are acknowledged, no row waits for ever.
RowsLeaveBuffers ==
    \A r \in Row :
        (\E t \in Tables : r \in Range(buf[t]))
            ~> (lost > 0 \/ \A t \in Tables : r \notin Range(buf[t]))

\* "On flush failure rows stay buffered and are retried on the next flush, so a
\* brief database outage loses nothing" (writer.py 16-17): a row leaves its
\* buffer only for the database.
RowsKept ==
    [][\A t \in Tables : \A r \in Range(buf[t]) \ Range(buf'[t]) :
         r \in Range(db'[t]) \/ mode \in Down]_vars
==============================================================================
