-------------------------- MODULE Attribution_proofs --------------------------
(* Theorems about Attribution, for all contexts, times and sizes.             *)
EXTENDS Attribution, FiniteSetTheorems, TLAPS

(* Pruning keeps every entry that has not expired, as it was. *)
LEMMA PrunedCache ==
    /\ DOMAIN Pruned \subseteq DOMAIN cache
    /\ \A c \in DOMAIN Pruned : Pruned[c] = cache[c]
    /\ \A c \in DOMAIN cache : cache[c] >= now => c \in DOMAIN Pruned
BY DEF Pruned, Restrict

(* The cache after an add: the new entry, and some of the old ones, among them *)
(* all that have not expired.                                                  *)
LEMMA AddedCache ==
    ASSUME NEW c
    PROVE  /\ c \in DOMAIN Add(c)
           /\ \A k \in DOMAIN Add(c) : \/ k = c /\ Add(c)[k] = Expiry
                                       \/ k # c /\ k \in DOMAIN cache /\ Add(c)[k] = cache[k]
           /\ \A k \in DOMAIN cache : cache[k] >= now => k \in DOMAIN Add(c)
<1>1. DOMAIN Add(c) = DOMAIN Pruned \cup {c}
  BY DEF Add
<1>2. \A k \in DOMAIN Add(c) : Add(c)[k] = IF k = c THEN Expiry ELSE Pruned[k]
  BY DEF Add
<1> QED
  BY <1>1, <1>2, PrunedCache

(* Sending an event keeps the shape of what is in flight, if an announcement is *)
(* of a run that has begun.                                                     *)
LEMMA EmitKeepsWire ==
    ASSUME AttributionAssumption, TypeOK,
           NEW type \in Range(EventTypes), NEW c \in Contexts, Emit(type, c),
           NEW started, begun \subseteq started, type # "state_changed" => c \in started
    PROVE  /\ wire' \in Seq(Msg) /\ Len(wire') <= MaxWire
           /\ \A i \in DOMAIN wire' : wire'[i].type # "state_changed" => wire'[i].ctx \in started
<1> DEFINE e == [type |-> type, ctx |-> c]
<1>1. e \in Msg
  BY DEF Msg
<1>2. CASE wire' = wire
  BY <1>2 DEF TypeOK
<1>3. CASE Len(wire) < MaxWire /\ wire' = Append(wire, e)
  <2>1. wire \in Seq(Msg) /\ MaxWire \in Nat
    BY DEF TypeOK, AttributionAssumption
  <2>2. wire' \in Seq(Msg) /\ Len(wire') = Len(wire) + 1
    BY <1>1, <1>3, <2>1
  <2>3. \A i \in DOMAIN wire' : IF i = Len(wire) + 1 THEN wire'[i] = e
                                                    ELSE i \in DOMAIN wire /\ wire'[i] = wire[i]
    BY <1>1, <1>3, <2>1
  <2>4. \A i \in DOMAIN wire' : wire'[i].type # "state_changed" => wire'[i].ctx \in started
    BY <2>3 DEF TypeOK
  <2> QED
    BY <1>3, <2>1, <2>2, <2>4
<1> QED
  BY <1>2, <1>3 DEF Emit

(* The rest of what is in flight, after the first event is handled. *)
LEMMA TailKeepsWire ==
    ASSUME TypeOK, wire # <<>>
    PROVE  /\ Head(wire) \in Msg
           /\ Head(wire).type # "state_changed" => Head(wire).ctx \in begun
           /\ Tail(wire) \in Seq(Msg) /\ Len(Tail(wire)) <= MaxWire
           /\ \A i \in DOMAIN Tail(wire) :
                Tail(wire)[i].type # "state_changed" => Tail(wire)[i].ctx \in begun
<1>1. wire \in Seq(Msg) /\ Len(wire) <= MaxWire
  BY DEF TypeOK
<1>2. Head(wire) = wire[1] /\ 1 \in DOMAIN wire /\ Head(wire) \in Msg
  BY <1>1
<1>3. Tail(wire) \in Seq(Msg) /\ Len(Tail(wire)) = Len(wire) - 1 /\ Len(wire) \in Nat
  BY <1>1
<1>4. \A i \in DOMAIN Tail(wire) : i + 1 \in DOMAIN wire /\ Tail(wire)[i] = wire[i + 1]
  BY <1>1
<1>5. \A i \in DOMAIN wire : wire[i].type # "state_changed" => wire[i].ctx \in begun
  BY DEF TypeOK
<1>6. Len(Tail(wire)) <= MaxWire
  BY <1>1, <1>3, Len(wire) <= MaxWire, AttributionAssumption DEF AttributionAssumption
<1> QED
  BY <1>2, <1>3, <1>4, <1>5, <1>6

(* A connection that is lost keeps a beginning of what was in flight. *)
LEMMA DropKeepsWire ==
    ASSUME TypeOK, NEW n \in 0..Len(wire)
    PROVE  /\ SubSeq(wire, 1, n) \in Seq(Msg) /\ Len(SubSeq(wire, 1, n)) <= MaxWire
           /\ \A i \in DOMAIN SubSeq(wire, 1, n) :
                SubSeq(wire, 1, n)[i].type # "state_changed" => SubSeq(wire, 1, n)[i].ctx \in begun
<1>1. wire \in Seq(Msg) /\ Len(wire) <= MaxWire /\ MaxWire \in Nat
  BY AttributionAssumption DEF TypeOK, AttributionAssumption
<1>2. SubSeq(wire, 1, n) \in Seq(Msg) /\ Len(SubSeq(wire, 1, n)) = n
  BY <1>1
<1>3. \A i \in DOMAIN SubSeq(wire, 1, n) : i \in DOMAIN wire /\ SubSeq(wire, 1, n)[i] = wire[i]
  BY <1>1
<1>4. Len(SubSeq(wire, 1, n)) <= MaxWire
  BY <1>1, <1>2
<1> QED
  BY <1>2, <1>3, <1>4 DEF TypeOK

LEMMA EventTypesAre ==
    Range(EventTypes) = {"state_changed", "automation_triggered", "script_started"}
<1>1. DOMAIN EventTypes = {1, 2, 3}
  BY DEF EventTypes
<1>2. EventTypes[1] = "state_changed" /\ EventTypes[2] = "automation_triggered"
      /\ EventTypes[3] = "script_started"
  BY DEF EventTypes
<1> QED
  BY <1>1, <1>2 DEF Range

------------------------------------------------------------------------------
Inv == TypeOK /\ CacheIsHistory /\ OnlyGapsCreditRuns

LEMMA InvInit == ASSUME AttributionAssumption, Init PROVE Inv
<1>1. TypeOK
  BY EventTypesAre DEF AttributionAssumption, Init, TypeOK, Empty, EventTypes
<1>2. CacheIsHistory /\ OnlyGapsCreditRuns
  BY DEF Init, Empty, CacheIsHistory, OnlyGapsCreditRuns
<1> QED
  BY <1>1, <1>2 DEF Inv

(* An entry of the cache, and only such an entry, is of a run that was heard no *)
(* more than the ttl ago: what a change is looked up for.                       *)
LEMMA KnownIsHeard ==
    ASSUME AttributionAssumption, TypeOK, CacheIsHistory, NEW c \in Contexts
    PROVE  Known(c) <=> ~Excused(c)
<1>1. now \in Nat /\ TTL \in Nat
  BY DEF AttributionAssumption, TypeOK
<1>2. CASE c \in DOMAIN cache
  <2>1. c \in DOMAIN heard /\ cache[c] = heard[c] + TTL /\ heard[c] \in Nat
    BY <1>2 DEF CacheIsHistory, TypeOK
  <2> QED
    BY <1>1, <1>2, <2>1 DEF Known, Excused
<1>3. CASE c \notin DOMAIN cache
  BY <1>3 DEF Known, Excused, CacheIsHistory
<1> QED
  BY <1>2, <1>3

(* What attribute() answers, said of what the process has heard.                *)
LEMMA AttributeIsExact ==
    ASSUME AttributionAssumption, TypeOK, CacheIsHistory, NEW c \in Contexts
    PROVE  /\ Attribute(c) \in {"manual", "automation"}
           /\ Attribute(c) = "manual" <=> /\ Parent[c] = NoContext
                                          /\ Origin[c] = "person" \/ Excused(c)
<1>1. ~Known(NoContext)
  BY DEF AttributionAssumption, TypeOK, Known
<1>2. Origin[c] = "person" => Parent[c] = NoContext /\ ~Known(c)
  BY DEF AttributionAssumption, TypeOK, Known, IsRun, Announcement
<1>3. Known(c) <=> ~Excused(c)
  BY KnownIsHeard
<1> QED
  BY <1>1, <1>2, <1>3 DEF Attribute

(* A run announces itself, under a type that exists.                            *)
LEMMA TypeStep ==
    ASSUME AttributionAssumption, TypeOK, CacheIsHistory, [Next]_vars
    PROVE  TypeOK'
<1> USE DEF AttributionAssumption
<1>0. CASE UNCHANGED vars
  BY <1>0 DEF vars, TypeOK
<1>1. ASSUME NEW c \in Contexts, RunStarts(c) PROVE TypeOK'
  <2>1. Announcement[Origin[c]] \in Range(EventTypes)
    BY <1>1, EventTypesAre DEF RunStarts, IsRun, Announcement
  <2>2. begun \subseteq begun' /\ c \in begun'
    BY <1>1 DEF RunStarts
  <2>3. Emit(Announcement[Origin[c]], c)
    BY <1>1 DEF RunStarts
  <2>4. /\ wire' \in Seq(Msg) /\ Len(wire') <= MaxWire
        /\ \A i \in DOMAIN wire' : wire'[i].type # "state_changed" => wire'[i].ctx \in begun'
    BY <2>1, <2>2, <2>3, EmitKeepsWire
  <2>5. begun' \subseteq {k \in Contexts : IsRun(k)}
    BY <1>1 DEF RunStarts, TypeOK
  <2> QED
    BY <1>1, <2>2, <2>4, <2>5 DEF RunStarts, TypeOK
<1>2. ASSUME NEW c \in Contexts, StateChanges(c) PROVE TypeOK'
  <2>1. "state_changed" \in Range(EventTypes)
    BY EventTypesAre
  <2>2. /\ wire' \in Seq(Msg) /\ Len(wire') <= MaxWire
        /\ \A i \in DOMAIN wire' : wire'[i].type # "state_changed" => wire'[i].ctx \in begun
    BY <1>2, <2>1, EmitKeepsWire DEF StateChanges
  <2> QED
    BY <1>2, <2>2 DEF StateChanges, TypeOK
<1>3. CASE Connect \/ Subscribe
  BY <1>3 DEF Connect, Subscribe, TypeOK, EventTypes
<1>4. CASE Drop
  <2>1. PICK n \in 0..Len(wire) : wire' = SubSeq(wire, 1, n)
    BY <1>4 DEF Drop
  <2>2. /\ wire' \in Seq(Msg) /\ Len(wire') <= MaxWire
        /\ \A i \in DOMAIN wire' : wire'[i].type # "state_changed" => wire'[i].ctx \in begun
    BY <2>1, DropKeepsWire
  <2> QED
    BY <1>4, <2>2 DEF Drop, TypeOK, EventTypes
<1>5. CASE HandleAnnouncement
  <2> DEFINE c == Head(wire).ctx
  <2>1. /\ c \in begun
        /\ wire' \in Seq(Msg) /\ Len(wire') <= MaxWire
        /\ \A i \in DOMAIN wire' : wire'[i].type # "state_changed" => wire'[i].ctx \in begun'
    BY <1>5, TailKeepsWire DEF HandleAnnouncement
  <2>2. \A k \in DOMAIN cache' : k \in begun' /\ cache'[k] \in TTL..(now' + TTL)
    <3>1. cache' = Add(c) /\ begun' = begun /\ now' = now
      BY <1>5 DEF HandleAnnouncement
    <3>2. Expiry \in TTL..(now + TTL)
      BY DEF Expiry, TypeOK
    <3> HIDE DEF c
    <3>3. \A k \in DOMAIN Add(c) :
            (k = c /\ Add(c)[k] = Expiry) \/ (k \in DOMAIN cache /\ Add(c)[k] = cache[k])
      BY AddedCache
    <3> QED
      BY <2>1, <3>1, <3>2, <3>3 DEF TypeOK
  <2>3. \A k \in DOMAIN heard' : k \in begun' /\ heard'[k] \in 0..now'
    <3>1. DOMAIN heard' = DOMAIN heard \cup {c} /\ begun' = begun /\ now' = now
      BY <1>5 DEF HandleAnnouncement
    <3>2. \A k \in DOMAIN heard' : heard'[k] = IF k = c THEN now ELSE heard[k]
      BY <1>5 DEF HandleAnnouncement
    <3> QED
      BY <2>1, <3>1, <3>2 DEF TypeOK
  <2> QED
    BY <1>5, <2>1, <2>2, <2>3 DEF HandleAnnouncement, TypeOK
<1>6. CASE HandleChange
  <2> DEFINE c == Head(wire).ctx
  <2>1. /\ c \in Contexts
        /\ wire' \in Seq(Msg) /\ Len(wire') <= MaxWire
        /\ \A i \in DOMAIN wire' : wire'[i].type # "state_changed" => wire'[i].ctx \in begun'
    BY <1>6, TailKeepsWire DEF HandleChange, Msg
  <2>2. [ctx |-> c, by |-> Attribute(c), excused |-> Excused(c)] \in Row
    BY <2>1, AttributeIsExact DEF Row, Excused
  <2>3. rows' \subseteq Row
    BY <1>6, <2>2 DEF HandleChange, TypeOK
  <2> QED
    BY <1>6, <2>1, <2>3 DEF HandleChange, TypeOK
<1>7. CASE Tick
  BY <1>7 DEF Tick, TypeOK
<1>8. CASE Restart
  BY <1>8 DEF Restart, TypeOK, Empty, EventTypes
<1> QED
  BY <1>0, <1>1, <1>2, <1>3, <1>4, <1>5, <1>6, <1>7, <1>8 DEF Next

(* Only an announcement, a restart and the clock touch what the cache is held  *)
(* against.                                                                    *)
LEMMA HistoryStep ==
    ASSUME AttributionAssumption, TypeOK, CacheIsHistory, [Next]_vars
    PROVE  CacheIsHistory'
<1>0. now \in Nat /\ TTL \in Nat /\ \A c \in DOMAIN heard : heard[c] \in Nat
  BY DEF AttributionAssumption, TypeOK
<1>1. CASE UNCHANGED <<cache, heard, now>>
  BY <1>1 DEF CacheIsHistory
<1>2. CASE Tick
  BY <1>0, <1>2 DEF Tick, CacheIsHistory
<1>3. CASE Restart
  BY <1>3 DEF Restart, Empty, CacheIsHistory
<1>4. CASE HandleAnnouncement
  <2> DEFINE c == Head(wire).ctx
  <2>1. cache' = Add(c) /\ now' = now /\ DOMAIN heard' = DOMAIN heard \cup {c}
    BY <1>4 DEF HandleAnnouncement
  <2>2. \A k \in DOMAIN heard' : heard'[k] = IF k = c THEN now ELSE heard[k]
    BY <1>4 DEF HandleAnnouncement
  <2> HIDE DEF c
  <2>3. ASSUME NEW k \in DOMAIN cache'
        PROVE  k \in DOMAIN heard' /\ cache'[k] = heard'[k] + TTL
    <3>1. \/ k = c /\ cache'[k] = now + TTL
          \/ k # c /\ k \in DOMAIN cache /\ cache'[k] = cache[k]
      BY <2>1, <2>3, AddedCache DEF Expiry
    <3> QED
      BY <2>1, <2>2, <3>1 DEF CacheIsHistory
  <2>4. ASSUME NEW k \in DOMAIN heard' \ DOMAIN cache'
        PROVE  heard'[k] + TTL < now'
    <3>1. k # c /\ k \in DOMAIN heard
      BY <2>1, <2>4, AddedCache
    <3>2. CASE k \in DOMAIN cache
      <4>1. cache[k] = heard[k] + TTL /\ ~(cache[k] >= now)
        BY <2>1, <2>4, <3>2, AddedCache DEF CacheIsHistory
      <4> QED
        BY <1>0, <2>1, <2>2, <3>1, <4>1
    <3>3. CASE k \notin DOMAIN cache
      BY <2>1, <2>2, <3>1, <3>3 DEF CacheIsHistory
    <3> QED
      BY <3>2, <3>3
  <2> QED
    BY <2>3, <2>4 DEF CacheIsHistory
<1> QED
  BY <1>1, <1>2, <1>3, <1>4
  DEF Next, vars, RunStarts, StateChanges, Connect, Subscribe, Drop, HandleChange

(* Only on_state_changed hands rows to the writer.                             *)
LEMMA RowsStep ==
    ASSUME AttributionAssumption, TypeOK, CacheIsHistory, OnlyGapsCreditRuns, [Next]_vars
    PROVE  OnlyGapsCreditRuns'
<1>1. CASE UNCHANGED rows
  BY <1>1 DEF OnlyGapsCreditRuns
<1>2. CASE HandleChange
  <2> DEFINE c == Head(wire).ctx
  <2>1. c \in Contexts
    BY <1>2, TailKeepsWire DEF HandleChange, Msg
  <2>2. rows' = rows \cup {[ctx |-> c, by |-> Attribute(c), excused |-> Excused(c)]}
    BY <1>2 DEF HandleChange
  <2>3. Attribute(c) = "manual" <=> /\ Parent[c] = NoContext
                                    /\ Origin[c] = "person" \/ Excused(c)
    BY <2>1, AttributeIsExact
  <2> QED
    BY <2>2, <2>3 DEF OnlyGapsCreditRuns
<1> QED
  BY <1>1, <1>2
  DEF Next, vars, RunStarts, StateChanges, Connect, Subscribe, Drop, HandleAnnouncement,
      Tick, Restart

(* Type correctness, what the cache holds, and which runs are credited with a  *)
(* person's change, whatever the contexts, the ttl, the size at which the cache *)
(* is pruned, and the losses of the connection.                                *)
THEOREM AttributionIsExact == Spec => [](TypeOK /\ CacheIsHistory /\ OnlyGapsCreditRuns)
<1>1. Init => Inv
  BY InvInit, AttributionAssumption
<1>2. Inv /\ [Next]_vars => Inv'
  BY TypeStep, HistoryStep, RowsStep, AttributionAssumption DEF Inv
<1> QED
  BY <1>1, <1>2, PTL DEF Spec, Inv

(* The types alone: what is announced, cached and stored is about contexts, and *)
(* the cache holds expiries that the clock and the ttl allow.                   *)
THEOREM TypeCorrect == Spec => []TypeOK
<1> QED
  BY AttributionIsExact, PTL

(* The cache alone: what it holds expires a ttl after it was heard last, and    *)
(* what this process has heard and the cache does not hold has expired          *)
(* (ContextCache.add and its pruning).                                          *)
THEOREM CacheIsHistoryProved == Spec => []CacheIsHistory
<1> QED
  BY AttributionIsExact, PTL

------------------------------------------------------------------------------
FiniteCache == IsFiniteSet(DOMAIN cache)

(* What an add leaves: one entry more, or only entries that have not expired.  *)
LEMMA AddBounds ==
    ASSUME AttributionAssumption, TypeOK, FiniteCache, NEW c
    PROVE  /\ IsFiniteSet(DOMAIN Add(c))
           /\ \/ Cardinality(DOMAIN Add(c)) <= PruneAt
              \/ \A k \in DOMAIN Add(c) : Add(c)[k] >= now
<1>1. DOMAIN Add(c) = DOMAIN Pruned \cup {c}
  BY DEF Add
<1>2. IsFiniteSet(DOMAIN Pruned)
  BY PrunedCache, FS_Subset DEF FiniteCache
<1>3. /\ IsFiniteSet(DOMAIN Add(c))
      /\ \/ Cardinality(DOMAIN Add(c)) = Cardinality(DOMAIN Pruned)
         \/ Cardinality(DOMAIN Add(c)) = Cardinality(DOMAIN Pruned) + 1
  BY <1>1, <1>2, FS_AddElement
<1>4. Cardinality(DOMAIN Pruned) \in Nat /\ Cardinality(DOMAIN cache) \in Nat
  BY <1>2, FS_CardinalityType DEF FiniteCache
<1>5. CASE Cardinality(DOMAIN cache) < PruneAt
  BY <1>3, <1>4, <1>5 DEF Pruned, AttributionAssumption
<1>6. CASE ~(Cardinality(DOMAIN cache) < PruneAt)
  <2>1. \A k \in DOMAIN Pruned : Pruned[k] = cache[k] /\ cache[k] >= now
    BY <1>6 DEF Pruned, Restrict
  <2>2. \A k \in DOMAIN Add(c) : Add(c)[k] = IF k = c THEN Expiry ELSE Pruned[k]
    BY DEF Add
  <2>3. Expiry >= now
    BY DEF Expiry, AttributionAssumption, TypeOK
  <2> QED
    BY <1>1, <1>3, <2>1, <2>2, <2>3
<1> QED
  BY <1>5, <1>6

LEMMA CacheStep ==
    ASSUME AttributionAssumption, TypeOK, FiniteCache, [Next]_vars
    PROVE  /\ FiniteCache'
           /\ DOMAIN cache' # DOMAIN cache =>
                \/ Cardinality(DOMAIN cache') <= PruneAt
                \/ \A c \in DOMAIN cache' : cache'[c] >= now
<1>1. CASE UNCHANGED cache
  BY <1>1 DEF FiniteCache
<1>2. CASE HandleAnnouncement
  <2> DEFINE c == Head(wire).ctx
  <2>1. cache' = Add(c)
    BY <1>2 DEF HandleAnnouncement
  <2> HIDE DEF c
  <2> QED
    BY <2>1, AddBounds DEF FiniteCache
<1>3. CASE Restart
  <2>1. DOMAIN cache' = {}
    BY <1>3 DEF Restart, Empty
  <2> QED
    BY <2>1, FS_EmptySet DEF FiniteCache
<1> QED
  BY <1>1, <1>2, <1>3
  DEF Next, vars, RunStarts, StateChanges, Connect, Subscribe, Drop, HandleChange, Tick

(* The cache is bounded by its pruning, however many runs are announced.       *)
THEOREM CacheIsBounded == Spec => CacheBounded
<1>1. Init => FiniteCache
  BY FS_EmptySet DEF Init, Empty, FiniteCache
<1>2. TypeOK /\ FiniteCache /\ [Next]_vars => FiniteCache'
  BY CacheStep, AttributionAssumption
<1>3. TypeOK /\ FiniteCache /\ [Next]_vars =>
        [DOMAIN cache' # DOMAIN cache =>
           \/ Cardinality(DOMAIN cache') <= PruneAt
           \/ \A c \in DOMAIN cache' : cache'[c] >= now]_vars
  BY CacheStep, AttributionAssumption
<1> QED
  BY <1>1, <1>2, <1>3, AttributionIsExact, PTL DEF Spec, CacheBounded

=============================================================================
