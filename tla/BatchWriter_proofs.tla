-------------------------- MODULE BatchWriter_proofs --------------------------
(* Theorems about BatchWriter, for any flush size, number of rows and faults. *)
EXTENDS BatchWriter, WellFoundedInduction, TLAPS

\* The table that a flushing task is at.
Table(w) == tables[at[w]]

\* Who is between connecting and the commit's answer is at a table, who is not
\* has no position; and there is only one, because of the lock.
OneFlusher ==
    /\ \A w \in Holders : at[w] \in 1..Len(tables)
    /\ \A w \in Tasks \ Holders : at[w] = 0 /\ size[w] = 0
    /\ \A v, w \in Holders : v = w

\* Which tasks live in which mode of the process.
Alive ==
    /\ mode = "running" => stage["final"] = "away"
    /\ mode = "closing" => stage["ws"] = "away" /\ stage["loop"] = "away"
    /\ mode \in Down => \A w \in Tasks : stage[w] \in {"away", "dead"}

\* The batch in flight is the beginning of its table's buffer, and in the
\* database once it is stored.
InFlight ==
    \A w \in Tasks : stage[w] \in {"sent", "stored"} =>
        /\ Len(sent[w]) <= Len(buf[Table(w)])
        /\ \A i \in 1..Len(sent[w]) :
             /\ sent[w][i] = buf[Table(w)][i]
             /\ stage[w] = "stored" => sent[w][i] \in Range(db[Table(w)])

\* Buffers hold rows in the order they were added.
Buffered ==
    \A t \in Tables :
        /\ \A i \in 1..Len(buf[t]) : buf[t][i] <= added
        /\ \A i \in 1..Len(db[t]) : db[t][i] <= added
        /\ \A i, j \in 1..Len(buf[t]) : i < j => buf[t][i] < buf[t][j]

\* What is stored was added before what still waits.
Ordered ==
    lost = 0 => \A t \in Tables :
        /\ \A i, j \in 1..Len(db[t]) : i < j => db[t][i] < db[t][j]
        /\ mode # "killed" =>
             \A i \in 1..Len(db[t]), j \in 1..Len(buf[t]) :
                \/ db[t][i] < buf[t][j]
                \/ \E w \in Tasks : stage[w] = "stored" /\ Table(w) = t /\ j <= Len(sent[w])

Inv == TypeOK /\ OneFlusher /\ Alive /\ InFlight /\ Buffered /\ Ordered

LEMMA InvInit == Init => Inv
<1> SUFFICES ASSUME Init PROVE Inv
  OBVIOUS
<1> USE WriterAssumption DEF WriterAssumption, Init
<1>1. TypeOK
  BY DEF TypeOK, Tasks, Tables, Stages, Row, Down
<1>2. OneFlusher /\ Alive /\ InFlight
  BY DEF OneFlusher, Alive, InFlight, Holders, Tasks, Down
<1>3. Buffered /\ Ordered
  BY DEF Buffered, Ordered
<1> QED
  BY <1>1, <1>2, <1>3 DEF Inv

------------------------------------------------------------------------------
(* A table is appended to the keys of _buffers or is one of them.             *)
LEMMA KeyExtends ==
    ASSUME NEW ts \in Seq(Tables), NEW t \in Tables
    PROVE  /\ Key(ts, t) \in Seq(Tables) /\ Len(ts) <= Len(Key(ts, t))
           /\ \A i \in 1..Len(ts) : Key(ts, t)[i] = ts[i]
<1>1. CASE t \in Range(ts)
  BY <1>1 DEF Key
<1>2. CASE t \notin Range(ts)
  <2>1. Key(ts, t) = Append(ts, t)
    BY <1>2 DEF Key
  <2> QED
    BY <2>1
<1> QED
  BY <1>1, <1>2

(* What adding rows does to the buffers.                                      *)
LEMMA RowsAdded ==
    ASSUME TypeOK, (\E t \in Tables : AddOne(t)) \/ AddBoth
    PROVE  /\ added' \in Nat /\ added < added' /\ added' <= MaxRows
           /\ tables' \in Seq(Tables) /\ Len(tables) <= Len(tables')
           /\ \A i \in 1..Len(tables) : tables'[i] = tables[i]
           /\ buf' \in [Tables -> Seq(Row)]
           /\ \A t \in Tables : \/ buf'[t] = buf[t]
                                \/ \E r \in (added + 1)..added' : buf'[t] = Append(buf[t], r)
<1> USE WriterAssumption DEF WriterAssumption
<1>1. CASE \E t \in Tables : AddOne(t)
  <2>1. PICK t \in Tables : AddOne(t)
    BY <1>1
  <2>2. added' = added + 1 /\ added < MaxRows /\ added \in Nat /\ added' \in Row
    BY <2>1 DEF AddOne, TypeOK, Row
  <2>3. tables' = Key(tables, t) /\ tables \in Seq(Tables)
    BY <2>1 DEF AddOne, TypeOK
  <2>4. buf' = [buf EXCEPT ![t] = Append(buf[t], added + 1)] /\ buf \in [Tables -> Seq(Row)]
    BY <2>1 DEF AddOne, TypeOK
  <2>5. buf' \in [Tables -> Seq(Row)]
    BY <2>2, <2>4
  <2>6. /\ tables' \in Seq(Tables) /\ Len(tables) <= Len(tables')
        /\ \A i \in 1..Len(tables) : tables'[i] = tables[i]
    BY <2>3, KeyExtends
  <2>7. ASSUME NEW u \in Tables
        PROVE  \/ buf'[u] = buf[u]
               \/ \E r \in (added + 1)..added' : buf'[u] = Append(buf[u], r)
    <3>1. CASE u = t
      <4>1. buf'[u] = Append(buf[u], added + 1) /\ added + 1 \in (added + 1)..added'
        BY <2>2, <2>4, <3>1
      <4> QED
        BY <4>1
    <3>2. CASE u # t
      BY <2>4, <3>2
    <3> QED
      BY <3>1, <3>2
  <2> QED
    BY <2>2, <2>5, <2>6, <2>7
<1>2. CASE AddBoth
  <2>1. added' = added + 2 /\ added + 1 < MaxRows /\ added \in Nat
        /\ added + 1 \in Row /\ added + 2 \in Row
    BY <1>2 DEF AddBoth, TypeOK, Row
  <2>2. tables \in Seq(Tables) /\ "events" \in Tables /\ "presence" \in Tables
    BY DEF TypeOK, Tables
  <2>3. tables' = Key(Key(tables, "events"), "presence")
    BY <1>2 DEF AddBoth
  <2>4. /\ tables' \in Seq(Tables) /\ Len(tables) <= Len(tables')
        /\ \A i \in 1..Len(tables) : tables'[i] = tables[i]
    <3>1. /\ Key(tables, "events") \in Seq(Tables) /\ Len(tables) <= Len(Key(tables, "events"))
          /\ \A i \in 1..Len(tables) : Key(tables, "events")[i] = tables[i]
      BY <2>2, KeyExtends
    <3>2. /\ tables' \in Seq(Tables) /\ Len(Key(tables, "events")) <= Len(tables')
          /\ \A i \in 1..Len(Key(tables, "events")) : tables'[i] = Key(tables, "events")[i]
      BY <2>2, <2>3, <3>1, KeyExtends
    <3> QED
      BY <2>2, <3>1, <3>2
  <2>5. /\ buf' = [buf EXCEPT !["events"] = Append(buf["events"], added + 1),
                              !["presence"] = Append(buf["presence"], added + 2)]
        /\ buf \in [Tables -> Seq(Row)]
    BY <1>2 DEF AddBoth, TypeOK
  <2>6. /\ buf'["events"] = Append(buf["events"], added + 1)
        /\ buf'["presence"] = Append(buf["presence"], added + 2)
        /\ \A t \in Tables : t # "events" /\ t # "presence" => buf'[t] = buf[t]
    BY <2>2, <2>5
  <2>7. buf' \in [Tables -> Seq(Row)]
    <3>1. ASSUME NEW t \in Tables PROVE buf'[t] \in Seq(Row)
      <4>1. buf[t] \in Seq(Row)
        BY <2>5
      <4>2. Append(buf[t], added + 1) \in Seq(Row) /\ Append(buf[t], added + 2) \in Seq(Row)
        BY <2>1, <4>1
      <4> QED
        BY <2>6, <4>1, <4>2
    <3> QED
      BY <2>5, <3>1
  <2>8. ASSUME NEW u \in Tables
        PROVE  \/ buf'[u] = buf[u]
               \/ \E r \in (added + 1)..added' : buf'[u] = Append(buf[u], r)
    <3>1. added + 1 \in (added + 1)..added' /\ added + 2 \in (added + 1)..added'
      BY <2>1
    <3> QED
      BY <2>6, <3>1
  <2>9. added' \in Nat /\ added < added' /\ added' <= MaxRows
    BY <2>1
  <2> QED
    BY <2>4, <2>7, <2>8, <2>9
<1> QED
  BY <1>1, <1>2

(* Adding rows disturbs no flush.  What a task is suspended on changes at most  *)
(* from nothing to waiting for the lock.                                        *)
LEMMA AddStep ==
    ASSUME Inv, mode = "running", (\E t \in Tables : AddOne(t)) \/ AddBoth,
           UNCHANGED <<mode, at, size, sent, db, lost>>,
           \/ stage' = stage
           \/ /\ stage["ws"] = "away"
              /\ stage' = [stage EXCEPT !["ws"] = "lock"]
    PROVE  Inv'
<1> USE WriterAssumption DEF WriterAssumption
<1>1. TypeOK
  BY DEF Inv
<1>2. /\ added' \in Nat /\ added < added' /\ added' <= MaxRows
      /\ tables' \in Seq(Tables) /\ Len(tables) <= Len(tables')
      /\ \A i \in 1..Len(tables) : tables'[i] = tables[i]
      /\ buf' \in [Tables -> Seq(Row)]
  BY <1>1, RowsAdded
<1>3. ASSUME NEW t \in Tables
      PROVE  /\ buf[t] \in Seq(Row) /\ buf'[t] \in Seq(Row) /\ Len(buf[t]) <= Len(buf'[t])
             /\ \A i \in 1..Len(buf[t]) : buf'[t][i] = buf[t][i]
             /\ \A i \in 1..Len(buf'[t]) : i > Len(buf[t]) =>
                  i = Len(buf[t]) + 1 /\ added < buf'[t][i] /\ buf'[t][i] <= added'
  <2>1. buf[t] \in Seq(Row) /\ buf'[t] \in Seq(Row)
    BY <1>1, <1>2 DEF TypeOK
  <2>2. buf'[t] = buf[t] \/ \E r \in (added + 1)..added' : buf'[t] = Append(buf[t], r)
    BY <1>1, RowsAdded
  <2>3. CASE buf'[t] = buf[t]
    BY <2>1, <2>3
  <2>4. ASSUME NEW r \in (added + 1)..added', buf'[t] = Append(buf[t], r)
        PROVE  /\ Len(buf[t]) <= Len(buf'[t])
               /\ \A i \in 1..Len(buf[t]) : buf'[t][i] = buf[t][i]
               /\ \A i \in 1..Len(buf'[t]) : i > Len(buf[t]) =>
                    i = Len(buf[t]) + 1 /\ added < buf'[t][i] /\ buf'[t][i] <= added'
    <3>1. added \in Nat
      BY <1>1 DEF TypeOK
    <3>2. Len(buf'[t]) = Len(buf[t]) + 1 /\ buf'[t][Len(buf[t]) + 1] = r
      BY <2>1, <2>4
    <3>3. \A i \in 1..Len(buf[t]) : buf'[t][i] = buf[t][i]
      BY <2>1, <2>4
    <3>4. Len(buf[t]) \in Nat /\ added < r /\ r <= added'
      BY <1>2, <2>1, <3>1
    <3>5. \A i \in 1..Len(buf'[t]) : i > Len(buf[t]) => i = Len(buf[t]) + 1
      BY <3>2, <3>4
    <3> QED
      BY <3>2, <3>3, <3>4, <3>5
  <2> QED
    BY <2>1, <2>2, <2>3, <2>4
<1>4. /\ \A w \in Tasks : stage'[w] = stage[w] \/ (stage[w] = "away" /\ stage'[w] = "lock")
      /\ stage'["final"] = stage["final"]
      /\ stage' \in [Tasks -> Stages]
  <2>1. stage \in [Tasks -> Stages]
    BY <1>1 DEF TypeOK
  <2>2. CASE stage' = stage
    BY <2>1, <2>2
  <2>3. CASE stage["ws"] = "away" /\ stage' = [stage EXCEPT !["ws"] = "lock"]
    BY <2>1, <2>3 DEF Stages, Tasks
  <2> QED
    BY <2>2, <2>3
<1>5. mode' = mode /\ at' = at /\ size' = size /\ sent' = sent /\ db' = db /\ lost' = lost
  OBVIOUS
<1>6. TypeOK'
  <2>1. at' \in [Tasks -> 0..Len(tables')] /\ size' \in [Tasks -> 0..Len(tables')]
    BY <1>1, <1>2, <1>5 DEF TypeOK
  <2> QED
    BY <1>1, <1>2, <1>4, <1>5, <2>1 DEF TypeOK
<1>7. Holders' = Holders
  BY <1>4 DEF Holders
<1>8. OneFlusher'
  BY <1>1, <1>2, <1>5, <1>7 DEF Inv, OneFlusher, TypeOK
<1>9. \A w \in Tasks : stage[w] \in {"sent", "stored"} =>
         at[w] \in 1..Len(tables) /\ Table(w) \in Tables /\ Table(w)' = Table(w)
  <2>1. ASSUME NEW w \in Tasks, stage[w] \in {"sent", "stored"}
        PROVE  at[w] \in 1..Len(tables)
    BY <2>1 DEF Inv, OneFlusher, Holders
  <2>2. tables \in Seq(Tables)
    BY <1>1 DEF TypeOK
  <2> QED
    BY <1>2, <1>5, <2>1, <2>2 DEF Table
<1>10. Alive'
  BY <1>4, <1>5 DEF Inv, Alive, Down
<1>11. InFlight'
  <2> SUFFICES ASSUME NEW w \in Tasks, stage'[w] \in {"sent", "stored"}
               PROVE  /\ Len(sent[w]) <= Len(buf'[Table(w)'])
                      /\ \A i \in 1..Len(sent[w]) :
                           /\ sent[w][i] = buf'[Table(w)'][i]
                           /\ stage'[w] = "stored" => sent[w][i] \in Range(db[Table(w)'])
    BY <1>5 DEF InFlight
  <2>1. stage'[w] = stage[w] /\ Table(w) \in Tables /\ Table(w)' = Table(w)
    BY <1>4, <1>9
  <2>2. sent[w] \in Seq(Row)
    BY <1>1 DEF TypeOK
  <2>3. /\ Len(sent[w]) <= Len(buf[Table(w)])
        /\ \A i \in 1..Len(sent[w]) :
             /\ sent[w][i] = buf[Table(w)][i]
             /\ stage[w] = "stored" => sent[w][i] \in Range(db[Table(w)])
    BY <2>1 DEF Inv, InFlight
  <2> QED
    BY <1>3, <2>1, <2>2, <2>3
<1>12. Buffered'
  <2> SUFFICES ASSUME NEW t \in Tables
               PROVE  /\ \A i \in 1..Len(buf'[t]) : buf'[t][i] <= added'
                      /\ \A i \in 1..Len(db[t]) : db[t][i] <= added'
                      /\ \A i, j \in 1..Len(buf'[t]) : i < j => buf'[t][i] < buf'[t][j]
    BY <1>5 DEF Buffered
  <2>1. added \in Nat /\ db[t] \in Seq(Row)
    BY <1>1 DEF TypeOK
  <2>2. /\ \A i \in 1..Len(buf[t]) : buf[t][i] <= added /\ buf[t][i] \in Nat
        /\ \A i \in 1..Len(db[t]) : db[t][i] <= added /\ db[t][i] \in Nat
        /\ \A i, j \in 1..Len(buf[t]) : i < j => buf[t][i] < buf[t][j]
    BY <1>3, <2>1 DEF Inv, Buffered, Row
  <2>3. \A i \in 1..Len(buf'[t]) : buf'[t][i] \in Nat
    BY <1>3 DEF Row
  <2>4. Len(buf[t]) \in Nat /\ Len(buf'[t]) \in Nat
    BY <1>3
  <2>5. \A i \in 1..Len(db[t]) : db[t][i] <= added'
    BY <1>2, <2>1, <2>2
  <2>6. ASSUME NEW i \in 1..Len(buf'[t])
        PROVE  \/ i \in 1..Len(buf[t]) /\ buf'[t][i] = buf[t][i] /\ buf'[t][i] <= added
               \/ i = Len(buf[t]) + 1 /\ added < buf'[t][i] /\ buf'[t][i] <= added'
    BY <1>3, <2>2, <2>4
  <2>7. \A i \in 1..Len(buf'[t]) : buf'[t][i] <= added'
    BY <1>2, <2>1, <2>3, <2>6
  <2>8. ASSUME NEW i \in 1..Len(buf'[t]), NEW j \in 1..Len(buf'[t]), i < j
        PROVE  buf'[t][i] < buf'[t][j]
    <3>1. i \in 1..Len(buf[t]) /\ buf'[t][i] = buf[t][i] /\ buf'[t][i] <= added
      BY <1>3, <2>2, <2>4, <2>8
    <3>2. CASE j \in 1..Len(buf[t]) /\ buf'[t][j] = buf[t][j]
      BY <2>2, <2>8, <3>1, <3>2
    <3>3. CASE added < buf'[t][j]
      BY <2>1, <2>3, <3>1, <3>3
    <3> QED
      BY <2>6, <3>2, <3>3
  <2> QED
    BY <2>5, <2>7, <2>8
<1>13. Ordered'
  <2> SUFFICES ASSUME lost = 0, NEW t \in Tables
               PROVE  /\ \A i, j \in 1..Len(db[t]) : i < j => db[t][i] < db[t][j]
                      /\ mode # "killed" =>
                           \A i \in 1..Len(db[t]), j \in 1..Len(buf'[t]) :
                              \/ db[t][i] < buf'[t][j]
                              \/ \E w \in Tasks : /\ stage'[w] = "stored" /\ Table(w)' = t
                                                  /\ j <= Len(sent[w])
    BY <1>5 DEF Ordered
  <2>1. \A i, j \in 1..Len(db[t]) : i < j => db[t][i] < db[t][j]
    BY DEF Inv, Ordered
  <2>2. ASSUME NEW i \in 1..Len(db[t]), NEW j \in 1..Len(buf'[t])
        PROVE  \/ db[t][i] < buf'[t][j]
               \/ \E w \in Tasks : stage'[w] = "stored" /\ Table(w)' = t /\ j <= Len(sent[w])
    <3>1. CASE j <= Len(buf[t])
      <4>1. j \in 1..Len(buf[t]) /\ buf'[t][j] = buf[t][j]
        BY <1>3, <3>1
      <4>2. CASE db[t][i] < buf[t][j]
        BY <4>1, <4>2
      <4>3. CASE \E w \in Tasks : stage[w] = "stored" /\ Table(w) = t /\ j <= Len(sent[w])
        BY <1>4, <1>9, <4>3
      <4> QED
        BY <4>1, <4>2, <4>3 DEF Inv, Ordered
    <3>2. CASE j > Len(buf[t])
      <4>1. db[t][i] <= added /\ db[t][i] \in Nat /\ added \in Nat
        BY <1>1 DEF Inv, Buffered, TypeOK, Row
      <4>2. added < buf'[t][j] /\ buf'[t][j] \in Nat
        BY <1>3, <3>2 DEF Row
      <4> QED
        BY <4>1, <4>2
    <3>3. Len(buf[t]) \in Nat /\ j \in Nat
      BY <1>3
    <3> QED
      BY <3>1, <3>2, <3>3
  <2> QED
    BY <2>1, <2>2
<1> QED
  BY <1>6, <1>8, <1>10, <1>11, <1>12, <1>13 DEF Inv

------------------------------------------------------------------------------
(* The next table of a flush, if there is one.                                *)
LEMMA NextAtRange ==
    ASSUME TypeOK, NEW i \in Nat \ {0}, NEW b
    PROVE  NextAt(i, b) = 0 \/ NextAt(i, b) \in 1..Len(tables)
<1> DEFINE full == {j \in i..Len(tables) : b[tables[j]] # <<>>}
<1>1. Len(tables) \in Nat
  BY DEF TypeOK
<1>2. CASE full = {}
  BY <1>2 DEF NextAt
<1>3. CASE full # {}
  <2>1. PICK j0 \in full : TRUE
    BY <1>3

  <2>2. \E j \in full : \A k \in full : j <= k
    <3> DEFINE Less == {ss \in Nat \X Nat : ss[1] < ss[2]}
    <3>1. full \subseteq Nat
      BY <1>1
    <3>2. PICK j \in full : \A k \in full : <<k, j>> \notin Less
      <4>1. IsWellFoundedOn(Less, Nat)
        BY NatLessThanWellFounded DEF OpToRel
      <4> QED
        BY <1>3, <3>1, <4>1, WFMin
    <3>3. \A k \in full : ~(k < j)
      BY <3>1, <3>2
    <3> QED
      BY <3>1, <3>3
  <2>3. NextAt(i, b) \in full
    BY <1>3, <2>2 DEF NextAt
  <2> QED
    BY <1>1, <2>3
<1> QED
  BY <1>2, <1>3

(* A flushing task reaches its next table or is done.                         *)
LEMMA ResumeEffect ==
    ASSUME TypeOK, NEW w \in Tasks, NEW i \in Nat \ {0}, NEW n \in 0..Len(tables), NEW b,
           Resume(w, i, n, b), tables' = tables
    PROVE  /\ at' \in [Tasks -> 0..Len(tables)] /\ size' \in [Tasks -> 0..Len(tables)]
           /\ sent' \in [Tasks -> Seq(Row)] /\ stage' \in [Tasks -> Stages]
           /\ mode' = mode \/ (w = "final" /\ mode' = "exited" /\ stage'[w] # "connect")
           /\ \A v \in Tasks \ {w} : /\ stage'[v] = stage[v]
                                     /\ at'[v] = at[v] /\ size'[v] = size[v]
           /\ stage'[w] \in {"away", "dead", "connect"}
           /\ stage'[w] = "connect" => at'[w] \in 1..Len(tables)
           /\ stage'[w] # "connect" => at'[w] = 0 /\ size'[w] = 0
<1> DEFINE j == NextAt(i, b)
<1>1. Len(tables) \in Nat /\ (j = 0 \/ j \in 1..Len(tables))
  BY NextAtRange DEF TypeOK
<1>2. /\ at \in [Tasks -> 0..Len(tables)] /\ size \in [Tasks -> 0..Len(tables)]
      /\ sent \in [Tasks -> Seq(Row)] /\ stage \in [Tasks -> Stages]
  BY DEF TypeOK
<1>3. AfterRaise(w) \in {"away", "dead"}
  BY DEF AfterRaise
<1>4. /\ at' = [at EXCEPT ![w] = IF n # Len(tables) THEN 0 ELSE j]
      /\ size' = [size EXCEPT ![w] = IF n # Len(tables) \/ j = 0 THEN 0 ELSE n]
      /\ sent' = [sent EXCEPT ![w] = <<>>]
      /\ stage' = [stage EXCEPT ![w] = IF n # Len(tables) THEN AfterRaise(w)
                                       ELSE IF j # 0 THEN "connect" ELSE "away"]
      /\ mode' = IF w = "final" /\ (j = 0 \/ n # Len(tables)) THEN "exited" ELSE mode
  BY DEF Resume
<1> HIDE DEF j
<1>5. at' \in [Tasks -> 0..Len(tables)] /\ size' \in [Tasks -> 0..Len(tables)]
  BY <1>1, <1>2, <1>4
<1>6. <<>> \in Seq(Row)
  OBVIOUS
<1>7. sent' \in [Tasks -> Seq(Row)]
  BY <1>2, <1>4, <1>6
<1>8. stage'[w] = IF n # Len(tables) THEN AfterRaise(w) ELSE IF j # 0 THEN "connect" ELSE "away"
  BY <1>2, <1>4
<1>9. stage' \in [Tasks -> Stages]
  BY <1>2, <1>3, <1>4 DEF Stages
<1>10. \A v \in Tasks \ {w} : stage'[v] = stage[v] /\ at'[v] = at[v] /\ size'[v] = size[v]
  BY <1>2, <1>4
<1>11. /\ at'[w] = IF n # Len(tables) THEN 0 ELSE j
       /\ size'[w] = IF n # Len(tables) \/ j = 0 THEN 0 ELSE n
  BY <1>2, <1>4
<1> QED
  BY <1>1, <1>3, <1>4, <1>5, <1>7, <1>8, <1>9, <1>10, <1>11

(* The flush that does so was alone, and no batch is in flight after it.      *)
LEMMA ResumeStep ==
    ASSUME Inv, NEW w \in Tasks, Holders \subseteq {w}, stage[w] \notin {"away", "dead"},
           NEW i \in Nat \ {0}, NEW n \in 0..Len(tables), NEW b,
           Resume(w, i, n, b), tables' = tables, added' = added, db' = db,
           buf' \in [Tables -> Seq(Row)], lost' \in 0..MaxLost
    PROVE  /\ TypeOK' /\ OneFlusher' /\ Alive' /\ InFlight'
           /\ mode \notin Down
           /\ \A v \in Tasks : stage'[v] \notin {"sent", "stored"}
<1>1. TypeOK
  BY DEF Inv
<1>2. /\ at' \in [Tasks -> 0..Len(tables)] /\ size' \in [Tasks -> 0..Len(tables)]
      /\ sent' \in [Tasks -> Seq(Row)] /\ stage' \in [Tasks -> Stages]
      /\ mode' = mode \/ (w = "final" /\ mode' = "exited" /\ stage'[w] # "connect")
      /\ \A v \in Tasks \ {w} : stage'[v] = stage[v] /\ at'[v] = at[v] /\ size'[v] = size[v]
      /\ stage'[w] \in {"away", "dead", "connect"}
      /\ stage'[w] = "connect" => at'[w] \in 1..Len(tables)
      /\ stage'[w] # "connect" => at'[w] = 0 /\ size'[w] = 0
  BY <1>1, ResumeEffect
<1>3. mode \notin Down
  BY DEF Inv, Alive
<1>4. \A v \in Tasks : stage'[v] \notin {"sent", "stored"}
  BY <1>2 DEF Holders
<1>5. TypeOK'
  BY <1>1, <1>2 DEF TypeOK, Down
<1>6. OneFlusher'
  <2>1. Holders' \subseteq {w}
    BY <1>2 DEF Holders
  <2>2. w \in Holders' <=> stage'[w] = "connect"
    BY <1>2 DEF Holders
  <2>3. \A v \in Tasks \ Holders' : at'[v] = 0 /\ size'[v] = 0
    BY <1>2, <2>2 DEF Inv, OneFlusher
  <2> QED
    BY <1>2, <2>1, <2>2, <2>3 DEF OneFlusher
<1>7. Alive'
  <2>1. mode \in {"running", "closing"}
    BY <1>1, <1>3 DEF TypeOK
  <2>2. CASE mode = "running"
    <3>1. stage["final"] = "away" /\ w # "final"
      BY <2>2 DEF Inv, Alive
    <3>2. mode' = "running" /\ stage'["final"] = "away"
      BY <1>2, <2>2, <3>1 DEF Tasks
    <3> QED
      BY <3>2 DEF Alive, Down
  <2>3. CASE mode = "closing"
    <3>1. stage["ws"] = "away" /\ stage["loop"] = "away" /\ w = "final"
      BY <2>3 DEF Inv, Alive, Tasks
    <3>2. stage'["ws"] = "away" /\ stage'["loop"] = "away"
      BY <1>2, <3>1 DEF Tasks
    <3>3. CASE mode' = "closing"
      BY <3>2, <3>3 DEF Alive, Down
    <3>4. CASE mode' = "exited" /\ stage'[w] # "connect"
      BY <1>2, <3>1, <3>2, <3>4 DEF Alive, Down, Tasks
    <3> QED
      BY <1>2, <2>3, <3>3, <3>4
  <2> QED
    BY <2>1, <2>2, <2>3
<1>8. InFlight'
  BY <1>4 DEF InFlight
<1> QED
  BY <1>3, <1>4, <1>5, <1>6, <1>7, <1>8

------------------------------------------------------------------------------
(* One step for each action: it preserves Inv.                                *)
LEMMA AcquireStep ==
    ASSUME Inv, NEW w \in Tasks, Acquire(w)
    PROVE  Inv'
<1>1. TypeOK /\ stage[w] = "lock" /\ Holders \subseteq {w}
  BY DEF Inv, Acquire
<1>2. Len(tables) \in 0..Len(tables) /\ 1 \in Nat \ {0}
  BY <1>1 DEF TypeOK
<1>3. /\ Resume(w, 1, Len(tables), buf)
      /\ tables' = tables /\ added' = added /\ db' = db /\ buf' = buf /\ lost' = lost
  BY DEF Acquire
<1>4. buf' \in [Tables -> Seq(Row)] /\ lost' \in 0..MaxLost
  BY <1>1, <1>3 DEF TypeOK
<1>5. /\ TypeOK' /\ OneFlusher' /\ Alive' /\ InFlight'
      /\ mode \notin Down
      /\ \A v \in Tasks : stage'[v] \notin {"sent", "stored"}
  BY <1>1, <1>2, <1>3, <1>4, ResumeStep
<1>6. Buffered'
  BY <1>3 DEF Inv, Buffered
<1>7. Ordered'
  <2>1. \A v \in Tasks : stage[v] # "stored"
    BY DEF Acquire, Holders
  <2> QED
    BY <1>3, <1>5, <2>1 DEF Inv, Ordered, Down
<1> QED
  BY <1>5, <1>6, <1>7 DEF Inv

LEMMA FlushFailedStep ==
    ASSUME Inv, NEW w \in Tasks, FlushFailed(w)
    PROVE  Inv'
<1> USE WriterAssumption DEF WriterAssumption
<1>1. TypeOK /\ w \in Holders
  BY DEF Inv, FlushFailed, Failure, Holders
<1>2. Holders \subseteq {w} /\ at[w] \in 1..Len(tables) /\ stage[w] \notin {"away", "dead"}
  BY <1>1 DEF Inv, OneFlusher, Holders
<1>3. at[w] + 1 \in Nat \ {0} /\ size[w] \in 0..Len(tables)
  BY <1>1, <1>2 DEF TypeOK
<1>4. /\ Resume(w, at[w] + 1, size[w], buf)
      /\ tables' = tables /\ added' = added /\ db' = db /\ buf' = buf
      /\ lost' = IF stage[w] = "stored" THEN lost + 1 ELSE lost
      /\ stage[w] = "stored" => lost < MaxLost
  BY DEF FlushFailed, Failure
<1>5. buf' \in [Tables -> Seq(Row)] /\ lost' \in 0..MaxLost /\ lost \in Nat
  BY <1>1, <1>4 DEF TypeOK
<1>6. /\ TypeOK' /\ OneFlusher' /\ Alive' /\ InFlight'
      /\ mode \notin Down
      /\ \A v \in Tasks : stage'[v] \notin {"sent", "stored"}
  BY <1>1, <1>2, <1>3, <1>4, <1>5, ResumeStep
<1>7. Buffered'
  BY <1>4 DEF Inv, Buffered
<1>8. Ordered'
  <2>1. CASE stage[w] = "stored"
    BY <1>4, <1>5, <2>1 DEF Ordered
  <2>2. CASE stage[w] # "stored"
    <3>1. \A v \in Tasks : stage[v] # "stored"
      BY <1>2, <2>2 DEF Holders
    <3> QED
      BY <1>4, <1>6, <2>2, <3>1 DEF Inv, Ordered, Down
  <2> QED
    BY <2>1, <2>2
<1> QED
  BY <1>6, <1>7, <1>8 DEF Inv

LEMMA CommittedStep ==
    ASSUME Inv, NEW w \in Tasks, Committed(w)
    PROVE  Inv'
<1>1. TypeOK /\ w \in Holders /\ stage[w] = "stored"
  BY DEF Inv, Committed, Holders
<1>2. Holders \subseteq {w} /\ at[w] \in 1..Len(tables)
  BY <1>1 DEF Inv, OneFlusher, Holders
<1>3. /\ at[w] + 1 \in Nat \ {0} /\ size[w] \in 0..Len(tables)
      /\ Table(w) \in Tables
  BY <1>1, <1>2 DEF TypeOK, Table
<1>4. /\ buf' = [buf EXCEPT ![Table(w)] = <<>>]
      /\ Resume(w, at[w] + 1, size[w], buf')
      /\ tables' = tables /\ added' = added /\ db' = db /\ lost' = lost
  BY DEF Committed, Table
<1>5. buf \in [Tables -> Seq(Row)] /\ <<>> \in Seq(Row)
  BY <1>1 DEF TypeOK
<1>6. buf' \in [Tables -> Seq(Row)] /\ lost' \in 0..MaxLost
  BY <1>1, <1>4, <1>5 DEF TypeOK
<1>7. /\ TypeOK' /\ OneFlusher' /\ Alive' /\ InFlight'
      /\ mode \notin Down
      /\ \A v \in Tasks : stage'[v] \notin {"sent", "stored"}
  BY <1>1, <1>2, <1>3, <1>4, <1>6, ResumeStep
<1>8. ASSUME NEW t \in Tables
      PROVE  buf'[t] = buf[t] \/ (t = Table(w) /\ buf'[t] = <<>> /\ Len(buf'[t]) = 0)
  BY <1>3, <1>4, <1>5
<1>9. Buffered'
  <2> SUFFICES ASSUME NEW t \in Tables
               PROVE  /\ \A i \in 1..Len(buf'[t]) : buf'[t][i] <= added
                      /\ \A i \in 1..Len(db[t]) : db[t][i] <= added
                      /\ \A i, j \in 1..Len(buf'[t]) : i < j => buf'[t][i] < buf'[t][j]
    BY <1>4 DEF Buffered
  <2> QED
    BY <1>8 DEF Inv, Buffered
<1>10. Ordered'
  <2> SUFFICES ASSUME lost = 0, NEW t \in Tables
               PROVE  /\ \A i, j \in 1..Len(db[t]) : i < j => db[t][i] < db[t][j]
                      /\ \A i \in 1..Len(db[t]), j \in 1..Len(buf'[t]) :
                           db[t][i] < buf'[t][j]
    BY <1>4 DEF Ordered
  <2>1. \A i, j \in 1..Len(db[t]) : i < j => db[t][i] < db[t][j]
    BY DEF Inv, Ordered
  <2>2. CASE t = Table(w) /\ Len(buf'[t]) = 0
    BY <2>1, <2>2
  <2>3. CASE t # Table(w) /\ buf'[t] = buf[t]
    <3>1. ASSUME NEW v \in Tasks, stage[v] = "stored" PROVE Table(v) # t
      BY <1>2, <2>3, <3>1 DEF Holders
    <3>2. mode # "killed"
      BY <1>7 DEF Down
    <3>3. \A i \in 1..Len(db[t]), j \in 1..Len(buf[t]) : db[t][i] < buf[t][j]
      BY <3>1, <3>2 DEF Inv, Ordered
    <3> QED
      BY <2>1, <2>3, <3>3
  <2> QED
    BY <1>3, <1>4, <1>5, <1>8, <2>2, <2>3
<1> QED
  BY <1>7, <1>9, <1>10 DEF Inv

LEMMA ConnectStep ==
    ASSUME Inv, NEW w \in Tasks, Connect(w)
    PROVE  Inv'
<1>1. TypeOK /\ w \in Holders /\ stage[w] = "connect"
  BY DEF Inv, Connect, Holders
<1>2. Holders \subseteq {w} /\ at[w] \in 1..Len(tables)
  BY <1>1 DEF Inv, OneFlusher, Holders
<1>3. Table(w) \in Tables /\ buf[Table(w)] \in Seq(Row)
  BY <1>1, <1>2 DEF TypeOK, Table
<1>4. /\ sent' = [sent EXCEPT ![w] = buf[Table(w)]]
      /\ stage' = [stage EXCEPT ![w] = "sent"]
      /\ UNCHANGED <<mode, tables, buf, added, at, size, db, lost>>
  BY DEF Connect, Table
<1>5. sent \in [Tasks -> Seq(Row)] /\ stage \in [Tasks -> Stages]
  BY <1>1 DEF TypeOK
<1>6. /\ sent'[w] = buf[Table(w)] /\ stage'[w] = "sent"
      /\ \A v \in Tasks \ {w} : stage'[v] = stage[v] /\ stage[v] \notin {"sent", "stored", "connect"}
      /\ Table(w)' = Table(w)
  BY <1>2, <1>4, <1>5 DEF Holders, Table
<1>7. TypeOK'
  <2>1. sent' \in [Tasks -> Seq(Row)] /\ stage' \in [Tasks -> Stages]
    BY <1>3, <1>4, <1>5 DEF Stages
  <2> QED
    BY <1>1, <1>4, <2>1 DEF TypeOK
<1>8. OneFlusher'
  <2>1. Holders' = Holders
    BY <1>1, <1>6 DEF Holders
  <2> QED
    BY <1>4, <2>1 DEF Inv, OneFlusher
<1>9. Alive'
  BY <1>1, <1>4, <1>6 DEF Inv, Alive, Down
<1>10. InFlight'
  BY <1>3, <1>4, <1>6 DEF InFlight
<1>11. Buffered'
  BY <1>4 DEF Inv, Buffered
<1>12. Ordered'
  <2>1. \A v \in Tasks : stage[v] # "stored"
    BY <1>1, <1>2 DEF Holders
  <2> QED
    BY <1>4, <2>1 DEF Inv, Ordered
<1> QED
  BY <1>7, <1>8, <1>9, <1>10, <1>11, <1>12 DEF Inv

(* What follows a batch that is stored.                                       *)
LEMMA Concatenated ==
    ASSUME NEW d \in Seq(Row), NEW s \in Seq(Row)
    PROVE  /\ d \o s \in Seq(Row) /\ Len(d \o s) = Len(d) + Len(s)
           /\ \A i \in 1..Len(d) : (d \o s)[i] = d[i]
           /\ \A i \in 1..Len(s) : (d \o s)[Len(d) + i] = s[i]
           /\ \A i \in 1..Len(d \o s) :
                i \in 1..Len(d) \/ \E k \in 1..Len(s) : i = Len(d) + k
<1>1. /\ d \o s \in Seq(Row) /\ Len(d \o s) = Len(d) + Len(s)
      /\ Len(d) \in Nat /\ Len(s) \in Nat
  OBVIOUS
<1>2. \A i \in 1..Len(d) : (d \o s)[i] = d[i]
  OBVIOUS
<1>3. ASSUME NEW i \in 1..Len(s) PROVE (d \o s)[Len(d) + i] = s[i]
  OBVIOUS
<1>4. ASSUME NEW i \in 1..Len(d \o s), i \notin 1..Len(d)
      PROVE  \E k \in 1..Len(s) : i = Len(d) + k
  <2>1. i - Len(d) \in 1..Len(s) /\ i = Len(d) + (i - Len(d))
    BY <1>1, <1>4
  <2> QED
    BY <2>1
<1> QED
  BY <1>1, <1>2, <1>3, <1>4

(* A batch from the front of a buffer keeps the table in order.               *)
LEMMA StoresInOrder ==
    ASSUME NEW d \in Seq(Row), NEW b \in Seq(Row), NEW s \in Seq(Row), NEW a \in Nat, NEW e,
           e = d \o s, Len(s) <= Len(b), \A i \in 1..Len(s) : s[i] = b[i],
           \A i \in 1..Len(d) : d[i] <= a, \A i \in 1..Len(b) : b[i] <= a
    PROVE  /\ \A i \in 1..Len(e) : e[i] <= a
           /\ (/\ \A i, j \in 1..Len(d) : i < j => d[i] < d[j]
               /\ \A i, j \in 1..Len(b) : i < j => b[i] < b[j]
               /\ \A i \in 1..Len(d), j \in 1..Len(b) : d[i] < b[j])
              => /\ \A i, j \in 1..Len(e) : i < j => e[i] < e[j]
                 /\ \A i \in 1..Len(e), j \in 1..Len(b) :
                      e[i] < b[j] \/ j <= Len(s)
<1>1. Len(d) \in Nat /\ Len(s) \in Nat /\ Len(b) \in Nat
  OBVIOUS
<1>2. ASSUME NEW i \in 1..Len(e)
      PROVE  \/ i \in 1..Len(d) /\ e[i] = d[i]
             \/ \E k \in 1..Len(s) : i = Len(d) + k /\ e[i] = b[k] /\ k \in 1..Len(b)
  <2>1. CASE i \in 1..Len(d)
    BY <2>1, Concatenated
  <2>2. CASE \E k \in 1..Len(s) : i = Len(d) + k
    <3>1. PICK k \in 1..Len(s) : i = Len(d) + k
      BY <2>2
    <3>2. e[i] = s[k] /\ s[k] = b[k] /\ k \in 1..Len(b)
      BY <1>1, <3>1, Concatenated
    <3> QED
      BY <3>1, <3>2
  <2> QED
    BY <2>1, <2>2, Concatenated
<1>3. \A i \in 1..Len(e) : e[i] <= a
  BY <1>2
<1>4. ASSUME \A i, j \in 1..Len(d) : i < j => d[i] < d[j],
             \A i, j \in 1..Len(b) : i < j => b[i] < b[j],
             \A i \in 1..Len(d), j \in 1..Len(b) : d[i] < b[j]
      PROVE  /\ \A i, j \in 1..Len(e) : i < j => e[i] < e[j]
             /\ \A i \in 1..Len(e), j \in 1..Len(b) : e[i] < b[j] \/ j <= Len(s)
  <2>1. ASSUME NEW i \in 1..Len(e), NEW j \in 1..Len(e), i < j PROVE e[i] < e[j]
    <3>1. CASE j \in 1..Len(d) /\ e[j] = d[j]
      <4>1. i \in 1..Len(d) /\ e[i] = d[i]
        BY <1>1, <1>2, <2>1, <3>1
      <4> QED
        BY <1>4, <2>1, <3>1, <4>1
    <3>2. ASSUME NEW l \in 1..Len(s), j = Len(d) + l, e[j] = b[l], l \in 1..Len(b)
          PROVE  e[i] < e[j]
      <4>1. CASE i \in 1..Len(d) /\ e[i] = d[i]
        BY <1>4, <3>2, <4>1
      <4>2. ASSUME NEW k \in 1..Len(s), i = Len(d) + k, e[i] = b[k], k \in 1..Len(b)
            PROVE  e[i] < e[j]
        <5>1. k < l
          BY <1>1, <2>1, <3>2, <4>2
        <5> QED
          BY <1>4, <3>2, <4>2, <5>1
      <4> QED
        BY <1>2, <4>1, <4>2
    <3> QED
      BY <1>2, <3>1, <3>2
  <2>2. ASSUME NEW i \in 1..Len(e), NEW j \in 1..Len(b), ~(j <= Len(s)) PROVE e[i] < b[j]
    <3>1. CASE i \in 1..Len(d) /\ e[i] = d[i]
      BY <1>4, <3>1
    <3>2. ASSUME NEW k \in 1..Len(s), i = Len(d) + k, e[i] = b[k], k \in 1..Len(b)
          PROVE  e[i] < b[j]
      <4>1. k < j
        BY <1>1, <2>2, <3>2
      <4> QED
        BY <1>4, <3>2, <4>1
    <3> QED
      BY <1>2, <3>1, <3>2
  <2> QED
    BY <2>1, <2>2
<1> QED
  BY <1>3, <1>4

LEMMA ServerCommitStep ==
    ASSUME Inv, NEW w \in Tasks, ServerCommit(w)
    PROVE  Inv'
<1>1. TypeOK /\ w \in Holders /\ stage[w] = "sent"
  BY DEF Inv, ServerCommit, Holders
<1>2. Holders \subseteq {w} /\ at[w] \in 1..Len(tables)
  BY <1>1 DEF Inv, OneFlusher, Holders
<1>3. Table(w) \in Tables /\ sent[w] \in Seq(Row)
  BY <1>1, <1>2 DEF TypeOK, Table
<1>4. /\ db' = [db EXCEPT ![Table(w)] = db[Table(w)] \o sent[w]]
      /\ stage' = [stage EXCEPT ![w] = "stored"]
      /\ UNCHANGED <<mode, tables, buf, added, at, size, sent, lost>>
  BY DEF ServerCommit, Table
<1>5. /\ db \in [Tables -> Seq(Row)] /\ stage \in [Tasks -> Stages]
      /\ buf \in [Tables -> Seq(Row)] /\ added \in Nat
  BY <1>1 DEF TypeOK
<1>6. /\ stage'[w] = "stored" /\ Table(w)' = Table(w)
      /\ \A v \in Tasks \ {w} : stage'[v] = stage[v] /\ stage[v] \notin {"sent", "stored", "connect"}
      /\ \A t \in Tables : t # Table(w) => db'[t] = db[t]
      /\ db'[Table(w)] = db[Table(w)] \o sent[w]
  BY <1>2, <1>3, <1>4, <1>5 DEF Holders, Table
<1>7. /\ Len(sent[w]) <= Len(buf[Table(w)])
      /\ \A i \in 1..Len(sent[w]) : sent[w][i] = buf[Table(w)][i]
  BY <1>1 DEF Inv, InFlight
<1>8. db[Table(w)] \in Seq(Row) /\ buf[Table(w)] \in Seq(Row) /\ db'[Table(w)] \in Seq(Row)
  <2>1. db[Table(w)] \in Seq(Row) /\ buf[Table(w)] \in Seq(Row)
    BY <1>3, <1>5
  <2> QED
    BY <1>3, <1>6, <2>1, Concatenated
<1>9. TypeOK'
  <2>1. db' \in [Tables -> Seq(Row)]
    BY <1>4, <1>5, <1>6, <1>8
  <2>2. stage' \in [Tasks -> Stages]
    BY <1>4, <1>5 DEF Stages
  <2> QED
    BY <1>1, <1>4, <2>1, <2>2 DEF TypeOK
<1>10. OneFlusher'
  <2>1. Holders' = Holders
    BY <1>1, <1>6 DEF Holders
  <2> QED
    BY <1>4, <2>1 DEF Inv, OneFlusher
<1>11. Alive'
  BY <1>1, <1>4, <1>6 DEF Inv, Alive, Down
<1>12. ASSUME NEW i \in 1..Len(sent[w]) PROVE sent[w][i] \in Range(db'[Table(w)])
  <2>1. \A d, s \in Seq(Row) : \A k \in 1..Len(s) : s[k] \in Range(d \o s)
    <3> SUFFICES ASSUME NEW d \in Seq(Row), NEW s \in Seq(Row), NEW k \in 1..Len(s)
                 PROVE  s[k] \in Range(d \o s)
      OBVIOUS
    <3>1. Len(d) + k \in DOMAIN (d \o s) /\ (d \o s)[Len(d) + k] = s[k]
      OBVIOUS
    <3> QED
      BY <3>1 DEF Range
  <2>2. sent[w][i] \in Range(db[Table(w)] \o sent[w])
    BY <1>3, <1>8, <2>1
  <2> QED
    BY <1>6, <2>2
<1>13. InFlight'
  BY <1>4, <1>6, <1>7, <1>12 DEF InFlight
<1>14. Buffered'
  <2> SUFFICES ASSUME NEW t \in Tables
               PROVE  /\ \A i \in 1..Len(buf[t]) : buf[t][i] <= added
                      /\ \A i \in 1..Len(db'[t]) : db'[t][i] <= added
                      /\ \A i, j \in 1..Len(buf[t]) : i < j => buf[t][i] < buf[t][j]
    BY <1>4 DEF Buffered
  <2>1. CASE t # Table(w)
    BY <1>6, <2>1 DEF Inv, Buffered
  <2>2. CASE t = Table(w)
    <3>0. /\ db[t] \in Seq(Row) /\ buf[t] \in Seq(Row) /\ sent[w] \in Seq(Row)
          /\ added \in Nat /\ db'[t] = db[t] \o sent[w]
          /\ Len(sent[w]) <= Len(buf[t]) /\ \A i \in 1..Len(sent[w]) : sent[w][i] = buf[t][i]
      BY <1>3, <1>5, <1>6, <1>7, <1>8, <2>2
    <3>1. /\ \A i \in 1..Len(buf[t]) : buf[t][i] <= added
          /\ \A i \in 1..Len(db[t]) : db[t][i] <= added
          /\ \A i, j \in 1..Len(buf[t]) : i < j => buf[t][i] < buf[t][j]
      BY DEF Inv, Buffered
    <3>2. \A i \in 1..Len(db'[t]) : db'[t][i] <= added
      BY <3>0, <3>1, StoresInOrder
    <3> QED
      BY <3>1, <3>2
  <2> QED
    BY <2>1, <2>2
<1>15. Ordered'
  <2>0. ASSUME NEW j, j <= Len(sent[w])
        PROVE  \E v \in Tasks : stage'[v] = "stored" /\ Table(v)' = Table(w) /\ j <= Len(sent'[v])
    BY <1>4, <1>6, <2>0
  <2> SUFFICES ASSUME lost = 0, NEW t \in Tables
               PROVE  /\ \A i, j \in 1..Len(db'[t]) : i < j => db'[t][i] < db'[t][j]
                      /\ \A i \in 1..Len(db'[t]), j \in 1..Len(buf[t]) :
                            \/ db'[t][i] < buf[t][j]
                            \/ t = Table(w) /\ j <= Len(sent[w])
    BY <1>4, <2>0 DEF Ordered
  <2>1. mode # "killed" /\ \A v \in Tasks : stage[v] # "stored"
    BY <1>1, <1>2 DEF Inv, Alive, Down, Holders
  <2>2. /\ \A i, j \in 1..Len(db[t]) : i < j => db[t][i] < db[t][j]
        /\ \A i \in 1..Len(db[t]), j \in 1..Len(buf[t]) : db[t][i] < buf[t][j]
        /\ \A i, j \in 1..Len(buf[t]) : i < j => buf[t][i] < buf[t][j]
    BY <2>1 DEF Inv, Ordered, Buffered
  <2>3. CASE t # Table(w)
    BY <1>6, <2>2, <2>3
  <2>4. CASE t = Table(w)
    <3>0. /\ db[t] \in Seq(Row) /\ buf[t] \in Seq(Row) /\ sent[w] \in Seq(Row)
          /\ added \in Nat /\ db'[t] = db[t] \o sent[w]
          /\ Len(sent[w]) <= Len(buf[t]) /\ \A i \in 1..Len(sent[w]) : sent[w][i] = buf[t][i]
      BY <1>3, <1>5, <1>6, <1>7, <1>8, <2>4
    <3>1. /\ \A i \in 1..Len(buf[t]) : buf[t][i] <= added
          /\ \A i \in 1..Len(db[t]) : db[t][i] <= added
      BY DEF Inv, Buffered
    <3>2. /\ \A i, j \in 1..Len(db'[t]) : i < j => db'[t][i] < db'[t][j]
          /\ \A i \in 1..Len(db'[t]), j \in 1..Len(buf[t]) :
               db'[t][i] < buf[t][j] \/ j <= Len(sent[w])
      BY <2>2, <3>0, <3>1, StoresInOrder
    <3> QED
      BY <2>4, <3>2
  <2> QED
    BY <2>3, <2>4
<1> QED
  BY <1>9, <1>10, <1>11, <1>13, <1>14, <1>15 DEF Inv

LEMMA OnStateChangedStep == ASSUME Inv, OnStateChanged PROVE Inv'
<1>1. mode = "running" /\ ((\E t \in Tables : AddOne(t)) \/ AddBoth)
  BY DEF OnStateChanged, Tables
<1>2. \/ stage' = stage
      \/ stage["ws"] = "away" /\ stage' = [stage EXCEPT !["ws"] = "lock"]
  <2>1. stage["ws"] = "away" /\ stage \in [Tasks -> Stages]
    BY DEF Inv, TypeOK, OnStateChanged
  <2>2. CASE Pending(buf') >= FlushSize
    BY <2>1, <2>2 DEF OnStateChanged
  <2>3. CASE ~(Pending(buf') >= FlushSize)
    BY <2>1, <2>3 DEF OnStateChanged
  <2> QED
    BY <2>2, <2>3
<1>3. UNCHANGED <<mode, at, size, sent, db, lost>>
  BY DEF OnStateChanged
<1> QED
  BY <1>1, <1>2, <1>3, AddStep

LEMMA WriteContextFrameStep == ASSUME Inv, WriteContextFrame PROVE Inv'
<1>1. mode = "running" /\ (\E t \in Tables : AddOne(t)) /\ stage' = stage
  BY DEF WriteContextFrame, Tables, flush
<1>2. UNCHANGED <<mode, at, size, sent, db, lost>>
  BY DEF WriteContextFrame, flush
<1> QED
  BY <1>1, <1>2, AddStep

LEMMA FlushTickStep == ASSUME Inv, FlushTick PROVE Inv'
<1>1. /\ TypeOK /\ mode = "running" /\ stage["loop"] = "away"
      /\ stage' = [stage EXCEPT !["loop"] = "lock"]
      /\ UNCHANGED <<mode, tables, buf, added, at, size, sent, db, lost>>
  BY DEF Inv, FlushTick
<1>2. /\ stage' \in [Tasks -> Stages] /\ stage'["loop"] = "lock"
      /\ \A w \in Tasks : w # "loop" => stage'[w] = stage[w]
  BY <1>1 DEF TypeOK, Tasks, Stages
<1>3. TypeOK'
  BY <1>1, <1>2 DEF TypeOK
<1>4. OneFlusher'
  <2>1. Holders' = Holders
    BY <1>1, <1>2 DEF Holders
  <2> QED
    BY <1>1, <2>1 DEF Inv, OneFlusher
<1>5. Alive'
  BY <1>1, <1>2 DEF Inv, Alive, Down, Tasks
<1>6. InFlight'
  BY <1>1, <1>2 DEF Inv, InFlight, Table
<1>7. Buffered'
  BY <1>1 DEF Inv, Buffered
<1>8. Ordered'
  <2>1. \A w \in Tasks : stage[w] = "stored" => stage'[w] = "stored" /\ Table(w)' = Table(w)
    BY <1>1, <1>2 DEF Table
  <2> QED
    BY <1>1, <2>1 DEF Inv, Ordered
<1> QED
  BY <1>3, <1>4, <1>5, <1>6, <1>7, <1>8 DEF Inv

(* A crash, an exit or a new start leaves no flush behind.                    *)
LEMMA NoFlushLeft ==
    ASSUME \A w \in Tasks : stage'[w] \in {"away", "lock"} /\ at'[w] = 0 /\ size'[w] = 0
    PROVE  OneFlusher' /\ InFlight'
<1>1. Holders' = {}
  BY DEF Holders
<1> QED
  BY <1>1 DEF OneFlusher, InFlight, Holders

LEMMA CloseStep == ASSUME Inv, Close PROVE Inv'
<1> USE WriterAssumption DEF WriterAssumption
<1>1. /\ TypeOK /\ mode = "running" /\ mode' = "closing"
      /\ stage' = [w \in Tasks |-> IF w = "final" THEN "lock" ELSE "away"]
      /\ at' = [w \in Tasks |-> 0] /\ size' = [w \in Tasks |-> 0]
      /\ sent' = [w \in Tasks |-> <<>>]
      /\ UNCHANGED <<tables, buf, added, db>>
  BY DEF Inv, Close
<1>2. \/ lost < MaxLost /\ lost' = lost + 1
      \/ lost' = lost /\ \A w \in Tasks : stage[w] # "stored"
  BY DEF Close
<1>3. lost' \in 0..MaxLost /\ lost \in Nat
  BY <1>1, <1>2 DEF TypeOK
<1>4. TypeOK'
  <2>1. /\ stage' \in [Tasks -> Stages] /\ sent' \in [Tasks -> Seq(Row)]
        /\ at' \in [Tasks -> 0..Len(tables')] /\ size' \in [Tasks -> 0..Len(tables')]
    BY <1>1 DEF Stages, TypeOK
  <2> QED
    BY <1>1, <1>3, <2>1 DEF TypeOK
<1>5. OneFlusher' /\ InFlight'
  BY <1>1, NoFlushLeft
<1>6. Alive'
  BY <1>1 DEF Alive, Down, Tasks
<1>7. Buffered'
  BY <1>1 DEF Inv, Buffered
<1>8. Ordered'
  <2>1. CASE lost' = lost + 1
    BY <1>3, <2>1 DEF Ordered
  <2>2. CASE lost' = lost /\ \A w \in Tasks : stage[w] # "stored"
    BY <1>1, <2>2 DEF Inv, Ordered
  <2> QED
    BY <1>2, <2>1, <2>2
<1> QED
  BY <1>4, <1>5, <1>6, <1>7, <1>8 DEF Inv

LEMMA KillStep == ASSUME Inv, Kill PROVE Inv'
<1>1. /\ TypeOK /\ mode' = "killed"
      /\ stage' = [w \in Tasks |-> "away"]
      /\ at' = [w \in Tasks |-> 0] /\ size' = [w \in Tasks |-> 0]
      /\ sent' = [w \in Tasks |-> <<>>]
      /\ UNCHANGED <<tables, buf, added, db, lost>>
  BY DEF Inv, Kill
<1>2. TypeOK'
  <2>1. /\ stage' \in [Tasks -> Stages] /\ sent' \in [Tasks -> Seq(Row)]
        /\ at' \in [Tasks -> 0..Len(tables')] /\ size' \in [Tasks -> 0..Len(tables')]
    BY <1>1 DEF Stages, TypeOK
  <2> QED
    BY <1>1, <2>1 DEF TypeOK, Down
<1>3. OneFlusher' /\ InFlight'
  BY <1>1, NoFlushLeft
<1>4. Alive'
  BY <1>1 DEF Alive, Down
<1>5. Buffered' /\ Ordered'
  BY <1>1 DEF Inv, Buffered, Ordered
<1> QED
  BY <1>2, <1>3, <1>4, <1>5 DEF Inv

LEMMA RestartStep == ASSUME Inv, Restart PROVE Inv'
<1>1. /\ TypeOK /\ mode \in Down /\ mode' = "running"
      /\ tables' = <<>> /\ buf' = [t \in Tables |-> <<>>]
      /\ stage' = [w \in Tasks |-> "away"]
      /\ UNCHANGED <<added, at, size, sent, db, lost>>
  BY DEF Inv, Restart
<1>2. \A w \in Tasks : at[w] = 0 /\ size[w] = 0
  BY <1>1 DEF Inv, Alive, OneFlusher, Holders
<1>3. TypeOK'
  <2>1. tables' \in Seq(Tables) /\ Len(tables') = 0 /\ buf' \in [Tables -> Seq(Row)]
    BY <1>1
  <2>2. at' \in [Tasks -> 0..Len(tables')] /\ size' \in [Tasks -> 0..Len(tables')]
    BY <1>1, <1>2, <2>1 DEF TypeOK
  <2>3. stage' \in [Tasks -> Stages]
    BY <1>1 DEF Stages
  <2> QED
    BY <1>1, <2>1, <2>2, <2>3 DEF TypeOK
<1>4. OneFlusher' /\ InFlight'
  BY <1>1, <1>2, NoFlushLeft
<1>5. Alive'
  BY <1>1 DEF Alive, Down, Tasks
<1>6. \A t \in Tables : Len(buf'[t]) = 0
  BY <1>1
<1>7. Buffered'
  BY <1>1, <1>6 DEF Inv, Buffered
<1>8. Ordered'
  BY <1>1, <1>6 DEF Inv, Ordered
<1> QED
  BY <1>3, <1>4, <1>5, <1>7, <1>8 DEF Inv

LEMMA InvNext == Inv /\ [Next]_vars => Inv'
<1> SUFFICES ASSUME Inv, [Next]_vars PROVE Inv'
  OBVIOUS
<1>1. CASE OnStateChanged
  BY <1>1, OnStateChangedStep
<1>2. CASE WriteContextFrame
  BY <1>2, WriteContextFrameStep
<1>3. CASE FlushTick
  BY <1>3, FlushTickStep
<1>4. ASSUME NEW w \in Tasks, Flusher(w) PROVE Inv'
  BY <1>4, AcquireStep, ConnectStep, ServerCommitStep, CommittedStep, FlushFailedStep
     DEF Flusher
<1>5. CASE Close
  BY <1>5, CloseStep
<1>6. CASE Kill
  BY <1>6, KillStep
<1>7. CASE Restart
  BY <1>7, RestartStep
<1>8. CASE UNCHANGED vars
  BY <1>8 DEF vars, flush, Inv, TypeOK, OneFlusher, Alive, InFlight, Buffered, Ordered, Holders,
              Table
<1> QED
  BY <1>1, <1>2, <1>3, <1>4, <1>5, <1>6, <1>7, <1>8 DEF Next

------------------------------------------------------------------------------
\* The invariant above holds in every behaviour: there is one flush at a time,
\* and what it has in flight is the front of the buffer of the table it is at.
THEOREM OneFlushAtATime == Spec => []Inv
<1> QED
  BY InvInit, InvNext, PTL DEF Spec

\* The write path's variables keep their types: numbers of rows stay within what
\* was added, and a flush's position within the keys of _buffers.
THEOREM TypeCorrect == Spec => []TypeOK
<1>1. Inv => TypeOK
  BY DEF Inv
<1> QED
  BY <1>1, OneFlushAtATime, PTL

\* A table gets its rows once and in the order they were added, as long as no
\* commit's answer is lost: flushes of one table never overlap or overtake
\* (writer.py: _flush_lock, and the buffer that is replaced after the commit).
THEOREM StoredInOrderProved == Spec => []StoredInOrder
<1>1. Inv => StoredInOrder
  <2> SUFFICES ASSUME Inv, lost = 0, NEW t \in Tables,
                      NEW i \in DOMAIN db[t], NEW j \in DOMAIN db[t], i < j
               PROVE  db[t][i] < db[t][j]
    BY DEF StoredInOrder
  <2>1. DOMAIN db[t] = 1..Len(db[t])
    BY DEF Inv, TypeOK
  <2> QED
    BY <2>1 DEF Inv, Ordered
<1> QED
  BY <1>1, OneFlushAtATime, PTL

\* Whatever fails and whoever runs in between, a row leaves its buffer for the
\* database, or with the process, or because it was added while its own table's
\* batch was being stored.
THEOREM RowsKeptOrLateProved == Spec => RowsKeptOrLate
<1> DEFINE Kept == \A t \in Tables : \A r \in Range(buf[t]) \ Range(buf'[t]) :
                     r \in Range(db'[t]) \/ Late(t, r) \/ mode \in Down
<1>1. Inv /\ [Next]_vars => [Kept]_vars
  <2> SUFFICES ASSUME Inv, Next, NEW t \in Tables, NEW r \in Range(buf[t]) \ Range(buf'[t])
               PROVE  r \in Range(db'[t]) \/ Late(t, r) \/ mode \in Down
    OBVIOUS
  <2>1. TypeOK /\ buf[t] \in Seq(Row)
    BY DEF Inv, TypeOK
  <2>2. buf'[t] # buf[t]
    OBVIOUS
  <2>3. PICK k \in 1..Len(buf[t]) : r = buf[t][k]
    BY <2>1 DEF Range
  <2>4. ASSUME (\E u \in Tables : AddOne(u)) \/ AddBoth PROVE FALSE
    <3>1. buf'[t] \in Seq(Row) /\ (buf'[t] = buf[t] \/ \E q : buf'[t] = Append(buf[t], q))
      BY <2>1, <2>4, RowsAdded
    <3>2. PICK q : buf'[t] = Append(buf[t], q)
      BY <2>2, <3>1
    <3>3. k \in DOMAIN buf'[t] /\ buf'[t][k] = r
      BY <2>1, <2>3, <3>1, <3>2
    <3> QED
      BY <3>3 DEF Range
  <2>5. CASE OnStateChanged
    BY <2>4, <2>5 DEF OnStateChanged, Tables
  <2>6. CASE WriteContextFrame
    BY <2>4, <2>6 DEF WriteContextFrame, Tables
  <2>7. CASE Restart
    BY <2>7 DEF Restart
  <2>8. ASSUME NEW w \in Tasks, Committed(w) PROVE r \in Range(db'[t]) \/ Late(t, r)
    <3>1. stage[w] = "stored" /\ db' = db /\ t = Table(w)
      <4>1. buf' = [buf EXCEPT ![Table(w)] = <<>>] /\ stage[w] = "stored" /\ db' = db
        BY <2>8 DEF Committed, Table
      <4> QED
        BY <2>1, <2>2, <4>1 DEF TypeOK
    <3>2. CASE r \in Range(sent[w])
      <4>1. sent[w] \in Seq(Row)
        BY <2>1 DEF TypeOK
      <4>2. PICK i \in 1..Len(sent[w]) : r = sent[w][i]
        BY <3>2, <4>1 DEF Range
      <4> QED
        BY <3>1, <4>2 DEF Inv, InFlight
    <3>3. CASE r \notin Range(sent[w])
      BY <3>1, <3>3 DEF Late, Table
    <3> QED
      BY <3>2, <3>3
  <2>9. ASSUME buf' = buf PROVE FALSE
    BY <2>2, <2>9
  <2>10. CASE FlushTick \/ Close \/ Kill
    BY <2>9, <2>10 DEF FlushTick, Close, Kill
  <2>11. ASSUME NEW w \in Tasks,
                Acquire(w) \/ Connect(w) \/ ServerCommit(w) \/ FlushFailed(w)
         PROVE  FALSE
    BY <2>9, <2>11 DEF Acquire, Connect, ServerCommit, FlushFailed
  <2> QED
    BY <2>5, <2>6, <2>7, <2>8, <2>10, <2>11 DEF Next, Flusher
<1> QED
  BY <1>1, OneFlushAtATime, PTL DEF Spec, RowsKeptOrLate
==============================================================================
