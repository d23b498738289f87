----------------------------- MODULE Attribution -----------------------------
(***************************************************************************)
(* Who did it: the ingester's triggered_by (src/pae/ingest/attribution.py), *)
(* with the stream of Home Assistant events it is computed from.           *)
(*                                                                         *)
(* Home Assistant announces each automation or script that runs, under the *)
(* context of the run, and then reports state changes under that context   *)
(* or a child of it.  The ingester remembers announced contexts for a time *)
(* and looks each change's context up.  One connection carries announce-   *)
(* ments and changes in order, to a client that handles them one by one;   *)
(* module WsClient has the client's side of the connection, BatchWriter    *)
(* what becomes of the rows.                                               *)
(***************************************************************************)
EXTENDS Integers, Sequences, FiniteSets, Functions

CONSTANTS
    Contexts,
    Origin,   \* of each context: a person, an automation's or a script's run,
              \* or a child that such a run opened
    Parent,   \* its parent_id, or NoContext
    NoContext,
    TTL,      \* ContextCache's ttl_seconds
    PruneAt,  \* the size at which it looks for expired entries
    MaxTime,  \* bound: the clock
    MaxWire   \* bound: events in flight

\* The event types subscribed to, in the order of IngestService.run.
EventTypes == <<"state_changed", "automation_triggered", "script_started">>

Announcement == [automation |-> "automation_triggered", script |-> "script_started"]

IsRun(c) == Origin[c] \in DOMAIN Announcement

\* A person's context has no parent (attribution.py:8-11); a child has.
ASSUME AttributionAssumption ==
    /\ NoContext \notin Contexts
    /\ Origin \in [Contexts -> {"person", "automation", "script", "child"}]
    /\ Parent \in [Contexts -> Contexts \cup {NoContext}]
    /\ \A c \in Contexts : /\ Origin[c] = "person" => Parent[c] = NoContext
                           /\ Origin[c] = "child" => Parent[c] # NoContext
    /\ TTL \in Nat /\ PruneAt \in Nat /\ MaxTime \in Nat /\ MaxWire \in Nat \ {0}

VARIABLES
    now,    \* the monotonic clock
    begun,  \* contexts of the runs that have started
    subs,   \* how many EventTypes HA has subscribed, -1 without a connection
    wire,   \* events on their way to a handler, oldest first
    cache,  \* ContextCache._entries: announced context -> expiry
    rows,   \* what is handed to the writer; `excused` is history, see Excused
    heard   \* history: when each announcement was handled, in this process

vars == <<now, begun, subs, wire, cache, rows, heard>>

Msg == [type : Range(EventTypes), ctx : Contexts]
Row == [ctx : Contexts, by : {"manual", "automation"}, excused : BOOLEAN]

------------------------------------------------------------------------------
\* ContextCache and attribute().

Known(c) == c \in DOMAIN cache /\ cache[c] >= now

Attribute_NoParentRule(c) ==  \* Mutant: an unseen parent says nothing.
    IF Known(c) \/ Known(Parent[c]) THEN "automation" ELSE "manual"

Attribute(c) ==
    IF Known(c) \/ Known(Parent[c]) \/ Parent[c] # NoContext THEN "automation"
                                                             ELSE "manual"

Pruned_Never == cache  \* Mutant: a cache that only grows.

Pruned_All ==  \* Mutant: a full cache is emptied.
    IF Cardinality(DOMAIN cache) < PruneAt THEN cache ELSE [c \in {} |-> 0]

Pruned == IF Cardinality(DOMAIN cache) < PruneAt THEN cache
          ELSE Restrict(cache, {c \in DOMAIN cache : cache[c] >= now})

Expiry_Twice == now + 2 * TTL + 1  \* Mutant: kept for longer than the ttl.

Expiry == now + TTL

Add(c) == [k \in DOMAIN Pruned \cup {c} |-> IF k = c THEN Expiry ELSE Pruned[k]]

\* History: the announcement of c's run has not reached this process, or the
\* ttl has passed since.
Excused(c) == c \notin DOMAIN heard \/ heard[c] + TTL < now

------------------------------------------------------------------------------
Empty == [c \in {} |-> 0]

Init ==
    /\ now = 0
    /\ begun = {}
    /\ subs = -1
    /\ wire = <<>>
    /\ cache = Empty
    /\ rows = {}
    /\ heard = Empty

\* HA sends an event to a client that has subscribed to its type.
Emit(type, c) ==
    IF \E i \in 1..subs : EventTypes[i] = type
    THEN Len(wire) < MaxWire /\ wire' = Append(wire, [type |-> type, ctx |-> c])
    ELSE UNCHANGED wire

RunStarts(c) ==
    /\ IsRun(c) /\ c \notin begun
    /\ \A p \in Contexts : p = Parent[c] /\ IsRun(p) => p \in begun
    /\ begun' = begun \cup {c}
    /\ Emit(Announcement[Origin[c]], c)
    /\ UNCHANGED <<now, subs, cache, rows, heard>>

StateChanges(c) ==
    /\ IsRun(c) => c \in begun
    /\ Origin[c] = "child" => Parent[c] \in begun
    /\ Emit("state_changed", c)
    /\ UNCHANGED <<now, begun, subs, cache, rows, heard>>

\* The client reconnects once what it had read is handled.
Connect ==
    /\ subs = -1 /\ wire = <<>>
    /\ subs' = 0
    /\ UNCHANGED <<now, begun, wire, cache, rows, heard>>

\* HA takes the next of _resubscribe's requests.
Subscribe ==
    /\ subs \in 0..(Len(EventTypes) - 1)
    /\ subs' = subs + 1
    /\ UNCHANGED <<now, begun, wire, cache, rows, heard>>

\* The connection is lost with a part of what was in flight; the cache stays.
Drop_EmptiesCache ==  \* Mutant: each connection starts with an empty cache.
    /\ subs # -1
    /\ subs' = -1
    /\ \E n \in 0..Len(wire) : wire' = SubSeq(wire, 1, n)
    /\ cache' = Empty
    /\ UNCHANGED <<now, begun, rows, heard>>

Drop ==
    /\ subs # -1
    /\ subs' = -1
    /\ \E n \in 0..Len(wire) : wire' = SubSeq(wire, 1, n)
    /\ UNCHANGED <<now, begun, cache, rows, heard>>

\* on_automation_activity
HandleAnnouncement ==
    /\ wire # <<>> /\ Head(wire).type # "state_changed"
    /\ wire' = Tail(wire)
    /\ cache' = Add(Head(wire).ctx)
    /\ heard' = [c \in DOMAIN heard \cup {Head(wire).ctx} |->
                   IF c = Head(wire).ctx THEN now ELSE heard[c]]
    /\ UNCHANGED <<now, begun, subs, rows>>

\* on_state_changed, of a change that the filters let through.
HandleChange ==
    /\ wire # <<>> /\ Head(wire).type = "state_changed"
    /\ wire' = Tail(wire)
    /\ LET c == Head(wire).ctx
       IN  rows' = rows \cup {[ctx |-> c, by |-> Attribute(c), excused |-> Excused(c)]}
    /\ UNCHANGED <<now, begun, subs, cache, heard>>

\* Time passes; also while the client waits for the database in a handler.
Tick ==
    /\ now < MaxTime
    /\ now' = now + 1
    /\ UNCHANGED <<begun, subs, wire, cache, rows, heard>>

\* The process dies and is started again.
Restart ==
    /\ subs' = -1 /\ wire' = <<>> /\ cache' = Empty /\ heard' = Empty
    /\ UNCHANGED <<now, begun, rows>>

Next ==
    \/ \E c \in Contexts : RunStarts(c) \/ StateChanges(c)
    \/ Connect \/ Subscribe \/ Drop
    \/ HandleAnnouncement \/ HandleChange
    \/ Tick \/ Restart

Spec == Init /\ [][Next]_vars

------------------------------------------------------------------------------
\* Type invariant: announcements are of runs that have begun, only those are
\* cached, and no entry outlives the ttl from now.
TypeOK ==
    /\ now \in 0..MaxTime
    /\ begun \subseteq {c \in Contexts : IsRun(c)}
    /\ subs \in -1..Len(EventTypes)
    /\ wire \in Seq(Msg) /\ Len(wire) <= MaxWire
    /\ \A i \in DOMAIN wire : wire[i].type # "state_changed" => wire[i].ctx \in begun
    /\ \A c \in DOMAIN cache : c \in begun /\ cache[c] \in TTL..(now + TTL)
    /\ rows \subseteq Row
    /\ \A c \in DOMAIN heard : c \in begun /\ heard[c] \in 0..now

\* The cache forgets nothing that it needs: what it has is what this process has
\* heard, and what it has not is older than the ttl.
CacheIsHistory ==
    /\ \A c \in DOMAIN cache : c \in DOMAIN heard /\ cache[c] = heard[c] + TTL
    /\ \A c \in DOMAIN heard \ DOMAIN cache : heard[c] + TTL < now

\* A person is always credited and a run with a parent, or a child of a run, never
\* is; a run without one is credited with a person's change exactly when its
\* announcement was lost or is older than the ttl: neither pruning, nor a
\* reconnect, nor the order of arrival makes another mistake.
OnlyGapsCreditRuns ==
    \A row \in rows :
        row.by = "manual" <=> /\ Parent[row.ctx] = NoContext
                              /\ Origin[row.ctx] = "person" \/ row.excused

\* The cache cannot grow without end: an add leaves at most PruneAt entries, or
\* only entries that are still needed.
CacheBounded ==
    [][DOMAIN cache' # DOMAIN cache =>
         \/ Cardinality(DOMAIN cache') <= PruneAt
         \/ \A c \in DOMAIN cache' : cache'[c] >= now]_vars
==============================================================================
