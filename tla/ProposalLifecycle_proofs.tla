---------------------- MODULE ProposalLifecycle_proofs ----------------------
(***************************************************************************)
(* Theorems about ProposalLifecycle, for any sets of keys, patterns,       *)
(* proposer runs and review requests.                                      *)
(***************************************************************************)
EXTENDS ProposalLifecycle, TLAPS

------------------------------------------------------------------------------
\* Type correctness.

\* What a transaction sees of a row or a pattern has the row's or pattern's type.
LEMMA SeenType ==
    ASSUME TypeOK, NEW p \in Proposers
    PROVE  /\ \A k \in Keys : Row(p, k) \in Rows
           /\ \A x \in Patterns : Pat(p, x) \in PatStatuses
BY DEF TypeOK, Row, Pat

\* A row with another status, or seen today, is a row.
LEMMA RowUpdate ==
    ASSUME NEW r \in Rows
    PROVE  /\ \A s \in RowStatuses : [r EXCEPT !.status = s] \in Rows
           /\ \A d \in 0..MaxDay : [r EXCEPT !.seen = d] \in Rows
           /\ \A d \in 0..MaxDay, s \in RowStatuses :
                [r EXCEPT !.seen = d, !.status = s] \in Rows
BY DEF Rows

\* The keys and the patterns of candidate groups are keys and patterns.
LEMMA GroupsType ==
    ASSUME NEW gs \in SUBSET Candidates
    PROVE  KeysOf(gs) \subseteq Keys /\ PatsOf(gs) \subseteq Patterns
BY LifecycleAssumption DEF KeysOf, PatsOf

\* An UPDATE or INSERT of proposals keeps the types of locks and new values.
LEMMA WriteRowsType ==
    ASSUME TypeOK, NEW p \in Proposers, NEW ks \in SUBSET Keys, NEW new,
           \A k \in ks : new[k] \in Rows,
           WriteRows(p, ks, new)
    PROVE  /\ rowLock' \in [Proposers -> SUBSET Keys]
           /\ rowNew' \in [Proposers -> [Keys -> Rows]]
BY DEF TypeOK, WriteRows

\* An UPDATE of patterns does, too.
LEMMA WritePatsType ==
    ASSUME TypeOK, NEW p \in Proposers, NEW xs \in SUBSET Patterns,
           NEW from, NEW to \in PatStatuses,
           WritePats(p, xs, from, to)
    PROVE  /\ patLock' \in [Proposers -> SUBSET Patterns]
           /\ patNew' \in [Proposers -> [Patterns -> PatStatuses]]
BY DEF TypeOK, WritePats

\* The end of a transaction resets its locals to values of their types.
LEMMA ForgetType ==
    ASSUME TypeOK, NEW p \in Proposers, Forget(p), UNCHANGED <<day, reviews>>,
           props' \in [Keys -> Rows], pats' \in [Patterns -> PatStatuses]
    PROVE  TypeOK'
BY LifecycleAssumption
   DEF TypeOK, Forget, reviews, Rows, NoRow, RowStatuses, PatStatuses

\* Theorem: every variable keeps its type, and every lock is on a row that
\* exists, whatever runs, requests and rollbacks interleave.
THEOREM TypeCorrect == Spec => []TypeOK
<1>1. Init => TypeOK
  BY LifecycleAssumption
     DEF Init, TypeOK, Rows, NoRow, RowStatuses, PatStatuses
<1>2. TypeOK /\ [Next]_vars => TypeOK'
  <2> SUFFICES ASSUME TypeOK, [Next]_vars PROVE TypeOK'
    OBVIOUS
  <2> USE DEF db, plan, writes, reviews
  <2>1. CASE NextDay
    BY <2>1, LifecycleAssumption DEF NextDay, TypeOK
  <2>2. ASSUME NEW p \in Proposers, Begin(p) PROVE TypeOK'
    BY <2>2 DEF Begin, Statement, TypeOK
  <2>3. ASSUME NEW p \in Proposers, ReadExisting(p) PROVE TypeOK'
    BY <2>3 DEF ReadExisting, Statement, TypeOK, Rows
  <2>4. ASSUME NEW p \in Proposers, ProcessGroups(p) PROVE TypeOK'
    <3>1. GroupsAt(p, {"none"}) \subseteq Candidates
          /\ GroupsAt(p, {"stale"}) \subseteq Candidates
      BY DEF GroupsAt, TypeOK
    <3>2. PICK accepted \in SUBSET GroupsAt(p, {"none"}) :
            /\ fresh' = [fresh EXCEPT ![p] = accepted]
            /\ marks' = [marks EXCEPT ![p] =
                           PatsOf(accepted \cup GroupsAt(p, {"stale"}))]
      BY <2>4 DEF ProcessGroups
    <3>3. PatsOf(accepted \cup GroupsAt(p, {"stale"})) \subseteq Patterns
      BY <3>1, GroupsType
    <3> QED
      BY <2>4, <3>1, <3>2, <3>3 DEF ProcessGroups, Statement, TypeOK
  <2>5. ASSUME NEW p \in Proposers, TouchLive(p) PROVE TypeOK'
    <3> DEFINE new == [k \in Keys |-> [Row(p, k) EXCEPT !.seen = now[p]]]
    <3>1. KeysOf(GroupsAt(p, LiveStatuses)) \subseteq Keys
      BY GroupsType DEF GroupsAt, TypeOK
    <3>2. \A k \in Keys : new[k] \in Rows
      BY SeenType, RowUpdate DEF TypeOK
    <3>3. WriteRows(p, KeysOf(GroupsAt(p, LiveStatuses)), new)
      BY <2>5 DEF TouchLive
    <3> HIDE DEF new
    <3>4. rowLock' \in [Proposers -> SUBSET Keys]
          /\ rowNew' \in [Proposers -> [Keys -> Rows]]
      BY <3>1, <3>2, <3>3, WriteRowsType
    <3> QED
      BY <2>5, <3>4 DEF TouchLive, Statement, TypeOK
  <2>6. ASSUME NEW p \in Proposers, Revive(p) PROVE TypeOK'
    <3> DEFINE ks == {k \in KeysOf(GroupsAt(p, {"stale"})) :
                        Row(p, k).status = "stale"}
               new == [k \in Keys |-> [Row(p, k) EXCEPT !.seen = now[p],
                                                        !.status = "shadowing"]]
    <3>1. ks \subseteq Keys
      BY GroupsType DEF GroupsAt, TypeOK
    <3>2. \A k \in Keys : new[k] \in Rows
      BY SeenType, RowUpdate DEF TypeOK, RowStatuses
    <3>3. WriteRows(p, ks, new)
      BY <2>6 DEF Revive
    <3> HIDE DEF ks, new
    <3>4. rowLock' \in [Proposers -> SUBSET Keys]
          /\ rowNew' \in [Proposers -> [Keys -> Rows]]
      BY <3>1, <3>2, <3>3, WriteRowsType
    <3> QED
      BY <2>6, <3>4 DEF Revive, Statement, TypeOK
  <2>7. ASSUME NEW p \in Proposers, Insert(p) PROVE TypeOK'
    <3>1. KeysOf(fresh[p]) \subseteq Keys
      BY GroupsType DEF TypeOK
    <3>2. \A k \in Keys : NewRow(p, k) \in Rows
      <4> TAKE k \in Keys
      <4>1. PatsOf({g \in fresh[p] : g.key = k}) \subseteq Patterns
        BY GroupsType DEF TypeOK
      <4> QED
        BY <4>1 DEF NewRow, TypeOK, Rows, RowStatuses
    <3> DEFINE new == [k \in Keys |-> NewRow(p, k)]
    <3>3. \A k \in Keys : new[k] \in Rows
      BY <3>2
    <3>4. WriteRows(p, KeysOf(fresh[p]), new)
      BY <2>7 DEF Insert
    <3> HIDE DEF new
    <3>5. rowLock' \in [Proposers -> SUBSET Keys]
          /\ rowNew' \in [Proposers -> [Keys -> Rows]]
      BY <3>1, <3>3, <3>4, WriteRowsType
    <3> QED
      BY <2>7, <3>5 DEF Insert, Statement, TypeOK
  <2>8. ASSUME NEW p \in Proposers, InsertFails(p) PROVE TypeOK'
    BY <2>8, ForgetType DEF InsertFails, TypeOK
  <2>9. ASSUME NEW p \in Proposers, MarkProposed(p) PROVE TypeOK'
    <3>1. patLock' \in [Proposers -> SUBSET Patterns]
          /\ patNew' \in [Proposers -> [Patterns -> PatStatuses]]
      BY <2>9, WritePatsType DEF MarkProposed, TypeOK, PatStatuses
    <3> QED
      BY <2>9, <3>1 DEF MarkProposed, Statement, TypeOK
  <2>10. ASSUME NEW p \in Proposers, SweepSelect(p) PROVE TypeOK'
    BY <2>10 DEF SweepSelect, Statement, TypeOK
  <2>11. ASSUME NEW p \in Proposers, SweepUpdate(p) PROVE TypeOK'
    <3> DEFINE new == [k \in Keys |-> [Row(p, k) EXCEPT !.status = "stale"]]
    <3>1. \A k \in Keys : new[k] \in Rows
      BY SeenType, RowUpdate DEF RowStatuses
    <3>2. WriteRows(p, gone[p], new)
      BY <2>11 DEF SweepUpdate
    <3> HIDE DEF new
    <3>3. gone[p] \subseteq Keys
      BY DEF TypeOK
    <3>4. rowLock' \in [Proposers -> SUBSET Keys]
          /\ rowNew' \in [Proposers -> [Keys -> Rows]]
      BY <3>1, <3>2, <3>3, WriteRowsType
    <3> QED
      BY <2>11, <3>4 DEF SweepUpdate, Statement, TypeOK
  <2>12. ASSUME NEW p \in Proposers, RevertPatterns(p) PROVE TypeOK'
    <3> DEFINE xs == UNION {Row(p, k).srcs : k \in gone[p]}
    <3>1. xs \subseteq Patterns
      BY SeenType DEF TypeOK, Rows
    <3>2. patLock' \in [Proposers -> SUBSET Patterns]
          /\ patNew' \in [Proposers -> [Patterns -> PatStatuses]]
      BY <2>12, <3>1, WritePatsType DEF RevertPatterns, PatStatuses
    <3> QED
      BY <2>12, <3>2 DEF RevertPatterns, Statement, TypeOK
  <2>13. ASSUME NEW p \in Proposers, Commit(p) PROVE TypeOK'
    BY <2>13, SeenType, ForgetType DEF Commit
  <2>14. ASSUME NEW p \in Proposers, Abort(p) PROVE TypeOK'
    BY <2>14, ForgetType DEF Abort, TypeOK
  <2>15. ASSUME NEW o \in Operators, NEW k \in Keys, NEW v \in Verdicts,
                Decide(o, k, v)
         PROVE  TypeOK'
    BY <2>15 DEF Decide, TypeOK
  <2>16. ASSUME NEW o \in Operators, Finish(o) PROVE TypeOK'
    <3>1. verdict[o] \in RowStatuses
      BY <2>16 DEF Finish, TypeOK, Verdicts, RowStatuses
    <3>2. props' \in [Keys -> Rows]
      BY <2>16, <3>1, RowUpdate DEF Finish, TypeOK
    <3> QED
      BY <2>16, <3>2 DEF Finish, TypeOK, PatStatuses
  <2>17. ASSUME NEW o \in Operators, Drop(o) PROVE TypeOK'
    BY <2>17 DEF Drop, TypeOK
  <2>18. CASE UNCHANGED vars
    BY <2>18 DEF vars, TypeOK
  <2> QED
    BY <2>1, <2>2, <2>3, <2>4, <2>5, <2>6, <2>7, <2>8, <2>9, <2>10, <2>11,
       <2>12, <2>13, <2>14, <2>15, <2>16, <2>17, <2>18 DEF Next, Step
<1> QED
  BY <1>1, <1>2, PTL DEF Spec

------------------------------------------------------------------------------
\* The transactions' invariant.

\* A run that writes rows it may write keeps all locks exclusive.
LEMMA LocksWriteRows ==
    ASSUME TypeOK, LocksExclusive, NEW p \in Proposers, NEW ks \in SUBSET Keys,
           NEW new, WriteRows(p, ks, new), UNCHANGED <<patLock, held>>
    PROVE  LocksExclusive'
BY DEF TypeOK, LocksExclusive, WriteRows, RowFree

\* So does one that writes patterns.
LEMMA LocksWritePats ==
    ASSUME TypeOK, LocksExclusive, NEW p \in Proposers,
           NEW xs \in SUBSET Patterns, NEW from, NEW to,
           WritePats(p, xs, from, to), UNCHANGED <<rowLock, held>>
    PROVE  LocksExclusive'
BY DEF TypeOK, LocksExclusive, WritePats, PatFree

\* A write keeps RowMoves if it keeps the status the run sees, revives or
\* inserts before the sweep, or marks a victim of the sweep stale.
LEMMA RowMovesWrite ==
    ASSUME TypeOK, RowMoves, NEW p \in Proposers, NEW ks \in SUBSET Keys,
           NEW new, WriteRows(p, ks, new), UNCHANGED <<props, gone>>,
           \A k \in ks :
               \/ new[k].status = Row(p, k).status
               \/ /\ Row(p, k).status \in {"none", "stale"}
                  /\ new[k].status = "shadowing" /\ gone[p] = {}
               \/ k \in gone[p] /\ new[k].status = "stale"
    PROVE  RowMoves'
<1> SUFFICES ASSUME NEW q \in Proposers, NEW k \in rowLock'[q]
             PROVE  \/ rowNew'[q][k].status = props[k].status
                    \/ /\ props[k].status \in {"none", "stale"}
                       /\ rowNew'[q][k].status = "shadowing"
                    \/ k \in gone[q] /\ rowNew'[q][k].status = "stale"
  BY DEF RowMoves
<1>1. CASE q # p
  BY <1>1 DEF TypeOK, RowMoves, WriteRows
<1>2. CASE q = p /\ k \notin ks
  BY <1>2 DEF TypeOK, RowMoves, WriteRows
<1>3. CASE q = p /\ k \in ks
  <2>1. rowNew'[q][k] = new[k]
    BY <1>3 DEF TypeOK, WriteRows
  <2>2. CASE k \in rowLock[p]
    BY <1>3, <2>1, <2>2 DEF RowMoves, Row
  <2>3. CASE k \notin rowLock[p]
    BY <1>3, <2>1, <2>3 DEF Row
  <2> QED
    BY <2>2, <2>3
<1> QED
  BY <1>1, <1>2, <1>3

\* A statement of a run that has not come to its commit, and that touches no
\* pattern, keeps PatMoves.
LEMMA PatMovesKept ==
    ASSUME TypeOK, PatMoves, NEW p \in Proposers, pc[p] # "commit",
           \A q \in Proposers \ {p} : pc'[q] = pc[q] /\ gone'[q] = gone[q],
           UNCHANGED <<pats, patLock, patNew>>
    PROVE  PatMoves'
<1> SUFFICES ASSUME NEW q \in Proposers, NEW x \in patLock[q]
             PROVE  \/ /\ pats[x] = "candidate"
                       /\ patNew[q][x] \in {"candidate", "proposed"}
                    \/ /\ pats[x] = "proposed" /\ patNew[q][x] = "candidate"
                       /\ pc'[q] = "commit" /\ gone'[q] # {}
  BY DEF PatMoves
<1>1. CASE q = p
  BY <1>1 DEF PatMoves
<1>2. CASE q # p
  BY <1>2 DEF PatMoves
<1> QED
  BY <1>1, <1>2

\* A transaction that ends without touching the tables keeps the invariant.
LEMMA ForgetInv ==
    ASSUME TypeOK, TransactionInv, NEW p \in Proposers, Forget(p),
           UNCHANGED <<db, reviews>>
    PROVE  TransactionInv'
<1> USE DEF db, reviews, TypeOK, TransactionInv, Forget
<1>1. LocksExclusive'
  BY DEF LocksExclusive
<1>2. HeldUndecided'
  BY DEF HeldUndecided
<1>3. RowMoves'
  BY DEF RowMoves
<1>4. PatMoves'
  BY DEF PatMoves
<1>5. SweepOrder'
  BY DEF SweepOrder, GroupsAt
<1> QED
  BY <1>1, <1>2, <1>3, <1>4, <1>5

LEMMA TransactionInit == Init => TransactionInv
BY DEF Init, TransactionInv, LocksExclusive, HeldUndecided, RowMoves, PatMoves,
       SweepOrder

\* Every statement, rollback and decision keeps the invariant.
LEMMA TransactionStep == TypeOK /\ TransactionInv /\ [Next]_vars => TransactionInv'
<1> SUFFICES ASSUME TypeOK, TransactionInv, [Next]_vars PROVE TransactionInv'
  OBVIOUS
<1> USE DEF db, plan, writes, reviews, TransactionInv
<1>1. CASE NextDay
  BY <1>1 DEF NextDay, LocksExclusive, HeldUndecided, RowMoves, PatMoves,
              SweepOrder, GroupsAt
<1>2. ASSUME NEW p \in Proposers, Begin(p) PROVE TransactionInv'
  <2>1. LocksExclusive' /\ HeldUndecided' /\ RowMoves' /\ PatMoves'
    BY <1>2 DEF Begin, LocksExclusive, HeldUndecided, RowMoves, PatMoves, Statement,
          TypeOK
  <2>2. rowLock[p] = {}
    BY <1>2 DEF Begin, Statement, SweepOrder
  <2>3. SweepOrder'
    BY <1>2, <2>2 DEF TypeOK, Begin, Statement, SweepOrder, GroupsAt
  <2> QED
    BY <2>1, <2>3
<1>3. ASSUME NEW p \in Proposers, ReadExisting(p) PROVE TransactionInv'
  <2>1. LocksExclusive' /\ HeldUndecided' /\ RowMoves' /\ PatMoves'
    BY <1>3 DEF ReadExisting, LocksExclusive, HeldUndecided, RowMoves, PatMoves,
                Statement, TypeOK
  <2>2. SweepOrder'
    BY <1>3 DEF TypeOK, ReadExisting, Statement, SweepOrder, GroupsAt
  <2> QED
    BY <2>1, <2>2
<1>4. ASSUME NEW p \in Proposers, ProcessGroups(p) PROVE TransactionInv'
  <2>1. LocksExclusive' /\ HeldUndecided' /\ RowMoves' /\ PatMoves'
    BY <1>4 DEF ProcessGroups, LocksExclusive, HeldUndecided, RowMoves, PatMoves,
                Statement, TypeOK
  <2>2. SweepOrder'
    BY <1>4 DEF TypeOK, ProcessGroups, Statement, SweepOrder, GroupsAt
  <2> QED
    BY <2>1, <2>2
<1>5. ASSUME NEW p \in Proposers, TouchLive(p) PROVE TransactionInv'
  <2> DEFINE ks == KeysOf(GroupsAt(p, LiveStatuses))
             new == [k \in Keys |-> [Row(p, k) EXCEPT !.seen = now[p]]]
  <2>1. ks \subseteq Keys
    BY GroupsType DEF GroupsAt, TypeOK
  <2>2. \A k \in Keys : /\ new[k].status = Row(p, k).status
                        /\ new[k].seen = now[p]
    BY SeenType DEF Rows
  <2>3. WriteRows(p, ks, new)
    BY <1>5 DEF TouchLive
  <2>4. pc[p] = "touch" /\ pc' = [pc EXCEPT ![p] = "revive"]
    BY <1>5 DEF TouchLive, Statement
  <2>5. UNCHANGED <<day, props, pats, now, groups, existing, fresh, marks, gone,
                    patLock, patNew, held, verdict>>
    BY <1>5 DEF TouchLive
  <2>6. SweepOrder'
    BY <2>1, <2>2, <2>3, <2>4, <2>5
       DEF TypeOK, SweepOrder, GroupsAt, KeysOf, WriteRows
  <2> HIDE DEF ks, new
  <2>7. LocksExclusive' /\ RowMoves'
    BY <2>1, <2>2, <2>3, <2>5, LocksWriteRows, RowMovesWrite
  <2>8. HeldUndecided' /\ PatMoves'
    BY <2>4, <2>5, PatMovesKept DEF TypeOK, HeldUndecided
  <2> QED
    BY <2>6, <2>7, <2>8
<1>6. ASSUME NEW p \in Proposers, Revive(p) PROVE TransactionInv'
  <2> DEFINE ks == {k \in KeysOf(GroupsAt(p, {"stale"})) :
                      Row(p, k).status = "stale"}
             new == [k \in Keys |-> [Row(p, k) EXCEPT !.seen = now[p],
                                                      !.status = "shadowing"]]
  <2>1. ks \subseteq Keys
    BY GroupsType DEF GroupsAt, TypeOK
  <2>2. \A k \in Keys : new[k].status = "shadowing" /\ new[k].seen = now[p]
    BY SeenType DEF Rows
  <2>3. \A k \in ks : Row(p, k).status = "stale"
    OBVIOUS
  <2>4. WriteRows(p, ks, new)
    BY <1>6 DEF Revive
  <2>5. pc[p] = "revive" /\ pc' = [pc EXCEPT ![p] = "insert"]
    BY <1>6 DEF Revive, Statement
  <2>6. UNCHANGED <<day, props, pats, now, groups, existing, fresh, marks, gone,
                    patLock, patNew, held, verdict>>
    BY <1>6 DEF Revive
  <2> HIDE DEF ks, new
  <2>7. SweepOrder'
    BY <2>1, <2>2, <2>4, <2>5, <2>6
       DEF TypeOK, SweepOrder, GroupsAt, KeysOf, WriteRows
  <2>8. gone[p] = {}
    BY <2>5 DEF SweepOrder
  <2>9. LocksExclusive' /\ RowMoves'
    BY <2>1, <2>2, <2>3, <2>4, <2>6, <2>8, LocksWriteRows, RowMovesWrite
  <2>10. HeldUndecided' /\ PatMoves'
    BY <2>5, <2>6, PatMovesKept DEF TypeOK, HeldUndecided
  <2> QED
    BY <2>7, <2>9, <2>10
<1>7. ASSUME NEW p \in Proposers, Insert(p) PROVE TransactionInv'
  <2> DEFINE ks == KeysOf(fresh[p])
             new == [k \in Keys |-> NewRow(p, k)]
  <2>1. ks \subseteq Keys
    BY GroupsType DEF TypeOK
  <2>2. \A k \in Keys : new[k].status = "shadowing" /\ new[k].seen = now[p]
    BY DEF NewRow
  <2>3. \A k \in ks : Row(p, k).status = "none"
    BY <1>7 DEF Insert, Duplicate, KeysOf
  <2>4. WriteRows(p, ks, new)
    BY <1>7 DEF Insert
  <2>5. pc[p] = "insert" /\ pc' = [pc EXCEPT ![p] = "mark"]
    BY <1>7 DEF Insert, Statement
  <2>6. UNCHANGED <<day, props, pats, now, groups, existing, fresh, marks, gone,
                    patLock, patNew, held, verdict>>
    BY <1>7 DEF Insert
  <2> HIDE DEF ks, new
  <2>7. SweepOrder'
    BY <2>1, <2>2, <2>4, <2>5, <2>6
       DEF TypeOK, SweepOrder, GroupsAt, KeysOf, WriteRows
  <2>8. gone[p] = {}
    BY <2>5 DEF SweepOrder
  <2>9. LocksExclusive' /\ RowMoves'
    BY <2>1, <2>2, <2>3, <2>4, <2>6, <2>8, LocksWriteRows, RowMovesWrite
  <2>10. HeldUndecided' /\ PatMoves'
    BY <2>5, <2>6, PatMovesKept DEF TypeOK, HeldUndecided
  <2> QED
    BY <2>7, <2>9, <2>10
<1>8. ASSUME NEW p \in Proposers, InsertFails(p) PROVE TransactionInv'
  BY <1>8, ForgetInv DEF InsertFails
<1>9. ASSUME NEW p \in Proposers, MarkProposed(p) PROVE TransactionInv'
  <2>1. LocksExclusive'
    BY <1>9, LocksWritePats DEF MarkProposed, TypeOK
  <2>2. PatMoves'
    <3>1. \A q \in Proposers \ {p} : /\ patLock'[q] = patLock[q]
                                    /\ patNew'[q] = patNew[q]
                                    /\ pc'[q] = pc[q]
      BY <1>9 DEF MarkProposed, Statement, TypeOK, WritePats
    <3>2. \A x \in patLock'[p] :
            \/ x \in patLock[p] /\ patNew'[p][x] = patNew[p][x]
            \/ Pat(p, x) = "candidate" /\ patNew'[p][x] = "proposed"
      BY <1>9 DEF MarkProposed, TypeOK, WritePats
    <3>3. \A x \in patLock'[p] :
            \/ pats[x] = "candidate" /\ patNew'[p][x] \in {"candidate", "proposed"}
            \/ /\ pats[x] = "proposed" /\ patNew'[p][x] = "candidate"
               /\ pc'[p] = "commit" /\ gone[p] # {}
      <4>1. gone[p] = {}
        BY <1>9 DEF MarkProposed, Statement, SweepOrder
      <4> QED
        BY <3>2, <4>1 DEF Pat, PatMoves
    <3> QED
      BY <1>9, <3>1, <3>3 DEF MarkProposed, PatMoves
  <2>3. HeldUndecided' /\ RowMoves'
    BY <1>9 DEF MarkProposed, HeldUndecided, RowMoves
  <2>4. SweepOrder'
    BY <1>9 DEF MarkProposed, Statement, TypeOK, SweepOrder, GroupsAt
  <2> QED
    BY <2>1, <2>2, <2>3, <2>4
<1>10. ASSUME NEW p \in Proposers, SweepSelect(p) PROVE TransactionInv'
  <2>1. LocksExclusive' /\ HeldUndecided'
    BY <1>10 DEF SweepSelect, LocksExclusive, HeldUndecided
  <2>2. gone[p] = {}
    BY <1>10 DEF SweepSelect, Statement, SweepOrder
  <2>3. RowMoves' /\ PatMoves'
    BY <1>10, <2>2, PatMovesKept DEF SweepSelect, Statement, TypeOK, RowMoves
  <2>4. SweepOrder'
    BY <1>10 DEF SweepSelect, Statement, TypeOK, SweepOrder, GroupsAt
  <2> QED
    BY <2>1, <2>3, <2>4
<1>11. ASSUME NEW p \in Proposers, SweepUpdate(p) PROVE TransactionInv'
  <2> DEFINE new == [k \in Keys |-> [Row(p, k) EXCEPT !.status = "stale"]]
  <2>1. gone[p] \subseteq Keys
    BY DEF TypeOK
  <2>2. \A k \in Keys : new[k].status = "stale"
    BY SeenType DEF Rows
  <2>3. WriteRows(p, gone[p], new)
    BY <1>11 DEF SweepUpdate
  <2>4. pc[p] = "sweep" /\ pc' = [pc EXCEPT ![p] = "revert"]
    BY <1>11 DEF SweepUpdate, Statement
  <2>5. UNCHANGED <<day, props, pats, now, groups, existing, fresh, marks, gone,
                    patLock, patNew, held, verdict>>
    BY <1>11 DEF SweepUpdate
  <2> HIDE DEF new
  <2>6. SweepOrder'
    BY <2>1, <2>2, <2>3, <2>4, <2>5 DEF TypeOK, SweepOrder, GroupsAt, WriteRows
  <2>7. LocksExclusive' /\ RowMoves'
    BY <2>1, <2>2, <2>3, <2>5, LocksWriteRows, RowMovesWrite
  <2>8. HeldUndecided' /\ PatMoves'
    BY <2>4, <2>5, PatMovesKept DEF TypeOK, HeldUndecided
  <2> QED
    BY <2>6, <2>7, <2>8
<1>12. ASSUME NEW p \in Proposers, RevertPatterns(p) PROVE TransactionInv'
  <2> DEFINE xs == UNION {Row(p, k).srcs : k \in gone[p]}
  <2>1. xs \subseteq Patterns
    BY SeenType DEF TypeOK, Rows
  <2>2. WritePats(p, xs, "proposed", "candidate")
    BY <1>12 DEF RevertPatterns
  <2>3. gone[p] = {} => xs = {}
    OBVIOUS
  <2>4. UNCHANGED <<props, pats, now, groups, existing, gone, rowLock, rowNew,
                    held, verdict>>
    BY <1>12 DEF RevertPatterns
  <2> HIDE DEF xs
  <2>5. LocksExclusive'
    BY <2>1, <2>2, <2>4, LocksWritePats
  <2>6. PatMoves'
    <3>1. pc' = [pc EXCEPT ![p] = "commit"] /\ pc[p] = "revert"
      BY <1>12 DEF RevertPatterns, Statement
    <3>2. \A q \in Proposers \ {p} : /\ patLock'[q] = patLock[q]
                                    /\ patNew'[q] = patNew[q]
                                    /\ pc'[q] = pc[q]
      BY <2>2, <3>1 DEF TypeOK, WritePats
    <3>3. \A x \in patLock'[p] :
            \/ x \in patLock[p] /\ patNew'[p][x] = patNew[p][x]
            \/ /\ Pat(p, x) = "proposed" /\ patNew'[p][x] = "candidate"
               /\ xs # {}
      BY <2>1, <2>2 DEF TypeOK, WritePats
    <3>4. \A x \in patLock'[p] :
            \/ pats[x] = "candidate" /\ patNew'[p][x] \in {"candidate", "proposed"}
            \/ /\ pats[x] = "proposed" /\ patNew'[p][x] = "candidate"
               /\ gone[p] # {}
      BY <2>3, <3>3 DEF Pat, PatMoves
    <3>5. pc'[p] = "commit"
      BY <3>1 DEF TypeOK
    <3> QED
      BY <2>4, <3>2, <3>4, <3>5 DEF PatMoves
  <2>7. HeldUndecided' /\ RowMoves'
    BY <2>4 DEF HeldUndecided, RowMoves
  <2>8. SweepOrder'
    BY <1>12 DEF RevertPatterns, Statement, TypeOK, SweepOrder, GroupsAt
  <2> QED
    BY <2>5, <2>6, <2>7, <2>8
<1>13. ASSUME NEW p \in Proposers, Commit(p) PROVE TransactionInv'
  <2> USE DEF Commit, Forget, TypeOK
  <2>1. \A q \in Proposers \ {p} : \A k \in rowLock[q] : props'[k] = props[k]
    BY <1>13 DEF LocksExclusive, Row
  <2>2. \A q \in Proposers \ {p} : \A x \in patLock[q] : pats'[x] = pats[x]
    BY <1>13 DEF LocksExclusive, Pat
  <2>3. \A o \in Operators : \A k \in held[o] : props'[k] = props[k]
    BY <1>13 DEF LocksExclusive, Row
  <2>4. LocksExclusive'
    BY <1>13 DEF LocksExclusive
  <2>5. HeldUndecided'
    <3>1. UNCHANGED <<held, verdict>>
      BY <1>13
    <3> HIDE DEF Commit, Forget, TypeOK
    <3> QED
      BY <2>3, <3>1 DEF HeldUndecided
  <2>6. RowMoves'
    <3>1. \A q \in Proposers \ {p} : /\ rowLock'[q] = rowLock[q]
                                    /\ rowNew'[q] = rowNew[q]
                                    /\ gone'[q] = gone[q]
      BY <1>13
    <3>2. rowLock'[p] = {}
      BY <1>13
    <3> HIDE DEF Commit, Forget, TypeOK
    <3>3. \A q \in Proposers : \A k \in rowLock'[q] : q # p
      BY <3>2
    <3> QED
      BY <2>1, <3>1, <3>3 DEF RowMoves
  <2>7. PatMoves'
    <3>1. \A q \in Proposers \ {p} : /\ patLock'[q] = patLock[q]
                                    /\ patNew'[q] = patNew[q]
                                    /\ gone'[q] = gone[q]
                                    /\ pc'[q] = pc[q]
      BY <1>13
    <3>2. patLock'[p] = {}
      BY <1>13
    <3> HIDE DEF Commit, Forget, TypeOK
    <3>3. \A q \in Proposers : \A x \in patLock'[q] : q # p
      BY <3>2
    <3> QED
      BY <2>2, <3>1, <3>3 DEF PatMoves
  <2>8. SweepOrder'
    BY <1>13 DEF SweepOrder, GroupsAt
  <2> QED
    BY <2>4, <2>5, <2>6, <2>7, <2>8
<1>14. ASSUME NEW p \in Proposers, Abort(p) PROVE TransactionInv'
  BY <1>14, ForgetInv DEF Abort
<1>15. ASSUME NEW o \in Operators, NEW k \in Keys, NEW v \in Verdicts,
              Decide(o, k, v)
       PROVE  TransactionInv'
  <2>1. LocksExclusive'
    BY <1>15 DEF Decide, TypeOK, LocksExclusive
  <2>2. HeldUndecided'
    BY <1>15 DEF Decide, TypeOK, HeldUndecided
  <2>3. RowMoves' /\ PatMoves' /\ SweepOrder'
    BY <1>15 DEF Decide, RowMoves, PatMoves, SweepOrder, GroupsAt
  <2> QED
    BY <2>1, <2>2, <2>3
<1>16. ASSUME NEW o \in Operators, Finish(o) PROVE TransactionInv'
  <2> USE DEF Finish, TypeOK
  <2>1. \A p \in Proposers : \A k \in rowLock[p] : props'[k] = props[k]
    BY <1>16 DEF LocksExclusive
  <2>2. \A p \in Proposers : \A x \in patLock[p] : pats'[x] = pats[x]
    BY <1>16
  <2>3. \A a \in Operators \ {o} : \A k \in held[a] : props'[k] = props[k]
    BY <1>16 DEF LocksExclusive
  <2>4. LocksExclusive' /\ SweepOrder'
    BY <1>16 DEF LocksExclusive, SweepOrder, GroupsAt
  <2>5. HeldUndecided'
    BY <1>16, <2>3 DEF HeldUndecided
  <2>6. RowMoves'
    <3>1. UNCHANGED <<rowLock, rowNew, gone>>
      BY <1>16
    <3> QED
      BY <2>1, <3>1 DEF RowMoves
  <2>7. PatMoves'
    BY <1>16, <2>2 DEF PatMoves
  <2> QED
    BY <2>4, <2>5, <2>6, <2>7
<1>17. ASSUME NEW o \in Operators, Drop(o) PROVE TransactionInv'
  BY <1>17 DEF Drop, TypeOK, LocksExclusive, HeldUndecided, RowMoves, PatMoves,
               SweepOrder, GroupsAt
<1>18. CASE UNCHANGED vars
  BY <1>18 DEF vars, LocksExclusive, HeldUndecided, RowMoves, PatMoves,
               SweepOrder, GroupsAt
<1> QED
  BY <1>1, <1>2, <1>3, <1>4, <1>5, <1>6, <1>7, <1>8, <1>9, <1>10, <1>11,
     <1>12, <1>13, <1>14, <1>15, <1>16, <1>17, <1>18 DEF Next, Step

\* Theorem: whatever other runs and requests do meanwhile, no two open
\* transactions write the same row, and what each has written still relates to
\* the committed tables as it did when it was written.
THEOREM TransactionsIsolated == Spec => []TransactionInv
BY TypeCorrect, TransactionInit, TransactionStep, PTL DEF Spec

------------------------------------------------------------------------------
\* What the invariant gives.

\* The committed tables change only by a run's commit or a request's.
LEMMA TablesMove ==
    ASSUME [Next]_vars
    PROVE  \/ UNCHANGED db
           \/ \E p \in Proposers : Commit(p)
           \/ \E o \in Operators : Finish(o)
BY DEF Next, Step, vars, NextDay, Begin, ReadExisting, ProcessGroups, TouchLive,
       Revive, Insert, InsertFails, MarkProposed, SweepSelect, SweepUpdate,
       RevertPatterns, Abort, Decide, Drop

\* Theorem: a rejected pattern stays rejected, for any number of overlapping
\* runs and review requests.
THEOREM RejectedPatternsStayRejected == Spec => RejectedPatternsStay
<1>1. TypeOK /\ TransactionInv /\ [Next]_vars =>
        [\A x \in Patterns : pats[x] = "rejected" => pats'[x] = "rejected"]_vars
  <2> SUFFICES ASSUME TypeOK, TransactionInv, [Next]_vars,
                      NEW x \in Patterns, pats[x] = "rejected"
               PROVE  pats'[x] = "rejected"
    OBVIOUS
  <2>1. CASE UNCHANGED db
    BY <2>1 DEF db
  <2>2. ASSUME NEW p \in Proposers, Commit(p) PROVE pats'[x] = "rejected"
    <3>1. x \notin patLock[p]
      BY DEF TransactionInv, PatMoves
    <3> QED
      BY <2>2, <3>1 DEF Commit, Pat
  <2>3. ASSUME NEW o \in Operators, Finish(o) PROVE pats'[x] = "rejected"
    BY <2>3 DEF Finish, TypeOK
  <2> QED
    BY <2>1, <2>2, <2>3, TablesMove
<1> QED
  BY <1>1, TypeCorrect, TransactionsIsolated, PTL DEF Spec, RejectedPatternsStay

\* Theorem: a committed rejection is undone only by the commit of a run whose
\* sweep selected the proposal, however many runs overlap; neither a refresh nor
\* a revival nor an insert of any run can do it.
THEOREM RejectionUndoneOnlyBySweepProved == Spec => RejectionUndoneOnlyBySweep
<1> DEFINE Undone(k) ==
      props[k].status = "rejected" /\ props'[k].status # "rejected" =>
        /\ props'[k].status = "stale"
        /\ \E p \in Proposers : pc[p] = "commit" /\ k \in gone[p]
<1>1. TypeOK /\ TransactionInv /\ [Next]_vars => [\A k \in Keys : Undone(k)]_vars
  <2> SUFFICES ASSUME TypeOK, TransactionInv, [Next]_vars, NEW k \in Keys,
                      props[k].status = "rejected", props'[k].status # "rejected"
               PROVE  /\ props'[k].status = "stale"
                      /\ \E p \in Proposers : pc[p] = "commit" /\ k \in gone[p]
    OBVIOUS
  <2>1. ~ UNCHANGED db
    BY DEF db
  <2>2. ASSUME NEW p \in Proposers, Commit(p)
        PROVE  /\ props'[k].status = "stale"
               /\ pc[p] = "commit" /\ k \in gone[p]
    <3>1. pc[p] = "commit" /\ props'[k] = Row(p, k)
      BY <2>2 DEF Commit
    <3>2. k \in rowLock[p] /\ props'[k] = rowNew[p][k]
      BY <3>1 DEF Row
    <3> QED
      BY <3>1, <3>2 DEF TransactionInv, RowMoves
  <2>3. ASSUME NEW o \in Operators, Finish(o) PROVE FALSE
    <3>1. k \in held[o]
      BY <2>3 DEF Finish
    <3> QED
      BY <3>1 DEF TransactionInv, HeldUndecided, FromStatuses
  <2> QED
    BY <2>1, <2>2, <2>3, TablesMove
<1> QED
  BY <1>1, TypeCorrect, TransactionsIsolated, PTL
     DEF Spec, RejectionUndoneOnlyBySweep

\* Theorem: no run sweeps a proposal that was live when it read `existing` and
\* whose group it has found.
THEOREM FoundLiveIsNotSweptProved == Spec => []FoundLiveIsNotSwept
<1>1. Init => FoundLiveIsNotSwept
  BY DEF Init, FoundLiveIsNotSwept
<1>2. TypeOK /\ TransactionInv /\ FoundLiveIsNotSwept /\ [Next]_vars =>
        FoundLiveIsNotSwept'
  <2> SUFFICES ASSUME TypeOK, TransactionInv, FoundLiveIsNotSwept, [Next]_vars,
                      NEW q \in Proposers
               PROVE  (gone[q] \cap KeysOf(GroupsAt(q, LiveStatuses)) = {})'
    BY DEF FoundLiveIsNotSwept
  <2> USE DEF db, plan, writes, reviews
  <2>1. CASE UNCHANGED <<groups[q], existing[q], gone[q]>>
    BY <2>1 DEF FoundLiveIsNotSwept, GroupsAt, KeysOf
  <2>2. CASE gone'[q] = {}
    BY <2>2
  <2>3. CASE SweepSelect(q)
    <3>1. gone'[q] \subseteq
            {k \in Keys : Row(q, k).seen < now[q] - StaleDays}
      BY <2>3 DEF SweepSelect, TypeOK
    <3>2. \A k \in KeysOf(GroupsAt(q, LiveStatuses)) : Row(q, k).seen = now[q]
      BY <2>3 DEF SweepSelect, Statement, TransactionInv, SweepOrder, Row
    <3>3. now[q] \in Int /\ StaleDays \in Nat
      BY LifecycleAssumption DEF TypeOK
    <3>4. UNCHANGED <<groups, existing>>
      BY <2>3 DEF SweepSelect
    <3> QED
      BY <3>1, <3>2, <3>3, <3>4 DEF GroupsAt, KeysOf
  <2>4. \/ UNCHANGED <<groups[q], existing[q], gone[q]>>
        \/ gone'[q] = {}
        \/ SweepSelect(q)
    <3>1. CASE UNCHANGED <<groups, existing, gone>>
      BY <3>1
    <3>2. ASSUME NEW p \in Proposers, Begin(p) \/ ReadExisting(p)
          PROVE  UNCHANGED <<groups[q], existing[q], gone[q]>> \/ gone'[q] = {}
      BY <3>2 DEF Begin, ReadExisting, Statement, TypeOK, TransactionInv,
                  SweepOrder
    <3>3. ASSUME NEW p \in Proposers, SweepSelect(p), p # q
          PROVE  UNCHANGED <<groups[q], existing[q], gone[q]>>
      BY <3>3 DEF SweepSelect, TypeOK
    <3>4. ASSUME NEW p \in Proposers, Forget(p)
          PROVE  UNCHANGED <<groups[q], existing[q], gone[q]>> \/ gone'[q] = {}
      BY <3>4 DEF Forget, TypeOK
    <3> QED
      BY <3>1, <3>2, <3>3, <3>4
         DEF Next, Step, vars, NextDay, ProcessGroups, TouchLive, Revive, Insert,
             InsertFails, MarkProposed, SweepUpdate, RevertPatterns, Commit,
             Abort, Decide, Finish, Drop
  <2> QED
    BY <2>1, <2>2, <2>3, <2>4
<1> QED
  BY <1>1, <1>2, TypeCorrect, TransactionsIsolated, PTL DEF Spec

------------------------------------------------------------------------------
\* The ledger.

\* A sweep picks only proposals that are live in the committed table: the run's
\* own uncommitted rows are all refreshed, hence not old enough.
LEMMA SelectPicks ==
    ASSUME TypeOK, TransactionInv, NEW p \in Proposers, SweepSelect(p)
    PROVE  Ledger!Pick
<1>1. \A k \in gone'[p] : props[k].status \in LiveStatuses
  <2> SUFFICES ASSUME NEW k \in gone'[p] PROVE props[k].status \in LiveStatuses
    OBVIOUS
  <2>1. k \in Keys /\ Row(p, k).status \in LiveStatuses
        /\ Row(p, k).seen < now[p] - StaleDays
    BY DEF SweepSelect, TypeOK
  <2>2. now[p] \in Int /\ StaleDays \in Nat
    BY LifecycleAssumption DEF TypeOK
  <2>3. k \in rowLock[p] => Row(p, k).seen = now[p]
    BY DEF SweepSelect, Statement, TransactionInv, SweepOrder, Row
  <2>4. k \notin rowLock[p]
    BY <2>1, <2>2, <2>3
  <2> QED
    BY <2>1, <2>4 DEF Row
<1>2. \A q \in Proposers \ {p} : gone'[q] = gone[q]
  BY DEF SweepSelect, TypeOK
<1>3. UNION {gone'[q] : q \in Proposers} \subseteq
        (UNION {gone[q] : q \in Proposers})
          \cup {k \in Keys : [j \in Keys |-> props[j].status][k]
                               \in {"shadowing", "approved"}}
  BY <1>1, <1>2 DEF TypeOK, SweepSelect, LiveStatuses
<1>4. UNCHANGED <<props, pats>>
  BY DEF SweepSelect, db
<1> QED
  BY <1>3, <1>4 DEF Ledger!Pick

\* The end of a transaction only lets picked proposals go.
LEMMA ForgetPicks ==
    ASSUME TypeOK, NEW p \in Proposers, Forget(p)
    PROVE  UNION {gone'[q] : q \in Proposers} \subseteq
             UNION {gone[q] : q \in Proposers}
BY DEF TypeOK, Forget

\* A run's commit is a night of the ledger.
LEMMA CommitIsNight ==
    ASSUME TypeOK, TransactionInv, NEW p \in Proposers, Commit(p)
    PROVE  Ledger!Night
<1> DEFINE st(k) == props[k].status
           up == {k \in Keys : st(k) \in {"none", "stale"}
                               /\ Row(p, k).status = "shadowing"}
           down == {k \in rowLock[p] \cap gone[p] : rowNew[p][k].status = "stale"}
           marked == {x \in Patterns : pats[x] = "candidate"
                                       /\ Pat(p, x) = "proposed"}
           freed == {x \in Patterns : pats[x] = "proposed"
                                      /\ Pat(p, x) = "candidate"}
           status == [k \in Keys |-> props[k].status]
           picked == UNION {gone[q] : q \in Proposers}
<1>1. pc[p] = "commit" /\ Forget(p)
      /\ props' = [k \in Keys |-> Row(p, k)] /\ pats' = [x \in Patterns |-> Pat(p, x)]
  BY DEF Commit
<1>2. up \in SUBSET {k \in Keys : status[k] \in {"none", "stale"}}
      /\ down \in SUBSET picked
  BY DEF TypeOK
<1>3. \A k \in Keys : Row(p, k).status =
        IF k \in down THEN "stale" ELSE IF k \in up THEN "shadowing" ELSE status[k]
  BY DEF Row, TransactionInv, RowMoves
<1>4. status' = [k \in Keys |-> IF k \in down THEN "stale"
                                ELSE IF k \in up THEN "shadowing"
                                ELSE status[k]]
  BY <1>1, <1>3
<1>5. marked \in SUBSET {x \in Patterns : pats[x] = "candidate"}
      /\ freed \in SUBSET {x \in Patterns : pats[x] = "proposed"}
  OBVIOUS
<1>6. down = {} => freed = {}
  <2>1. gone[p] = {} \/ down # {}
    BY <1>1 DEF TransactionInv, SweepOrder
  <2>2. gone[p] = {} => freed = {}
    BY DEF TransactionInv, PatMoves, Pat
  <2> QED
    BY <2>1, <2>2
<1>7. \A x \in Patterns : Pat(p, x) = IF x \in marked THEN "proposed"
                                      ELSE IF x \in freed THEN "candidate"
                                      ELSE pats[x]
  BY DEF Pat, TransactionInv, PatMoves
<1>8. pats' = [x \in Patterns |-> IF x \in marked THEN "proposed"
                                  ELSE IF x \in freed THEN "candidate"
                                  ELSE pats[x]]
  BY <1>1, <1>7
<1>9. picked' \subseteq picked
  BY <1>1, ForgetPicks
<1> HIDE DEF up, down, marked, freed
<1>10. \E m \in SUBSET {x \in Patterns : pats[x] = "candidate"},
         f \in SUBSET {x \in Patterns : pats[x] = "proposed"} :
         /\ down = {} => f = {}
         /\ pats' = [x \in Patterns |-> IF x \in m THEN "proposed"
                                        ELSE IF x \in f THEN "candidate"
                                        ELSE pats[x]]
  BY <1>5, <1>6, <1>8
<1> QED
  BY <1>2, <1>4, <1>9, <1>10 DEF Ledger!Night

\* A request's commit is a review of the ledger, or changes nothing.
LEMMA FinishIsReview ==
    ASSUME TypeOK, TransactionInv, NEW o \in Operators, Finish(o)
    PROVE  \/ UNCHANGED Ledger!ledger
           \/ \E k \in Keys, v \in {"approved", "rejected"} : Ledger!Review(k, v)
<1>1. UNCHANGED gone
  BY DEF Finish, plan
<1>2. CASE held[o] = {}
  <2>1. FlippedBy(o) = {}
    BY <1>2 DEF FlippedBy
  <2>2. UNCHANGED <<props, pats>>
    BY <1>2, <2>1 DEF Finish, TypeOK
  <2> QED
    BY <1>1, <2>2 DEF Ledger!ledger
<1>3. ASSUME NEW k \in held[o]
      PROVE  Ledger!Review(k, verdict[o])
  <2> DEFINE status == [j \in Keys |-> props[j].status]
  <2>1. k \in Keys /\ held[o] = {k}
    BY <1>3 DEF TypeOK, TransactionInv, HeldUndecided
  <2>2. status[k] \in {"shadowing", "stale"}
    BY <1>3, <2>1 DEF TransactionInv, HeldUndecided, FromStatuses
  <2>3. \A j \in Keys : props'[j].status = IF j = k THEN verdict[o] ELSE status[j]
    <3>1. props[k] \in Rows
      BY <2>1 DEF TypeOK
    <3> QED
      BY <2>1, <3>1 DEF Finish, Rows
  <2>4. status' = [status EXCEPT ![k] = verdict[o]]
    BY <2>1, <2>3
  <2>5. FlippedBy(o) \in SUBSET {x \in Patterns : pats[x] = "proposed"}
    BY <2>1 DEF FlippedBy, TypeOK, Rows
  <2>6. verdict[o] = "approved" => FlippedBy(o) = {}
    BY DEF FlippedBy
  <2>7. pats' = [x \in Patterns |-> IF x \in FlippedBy(o) THEN "rejected"
                                                          ELSE pats[x]]
    BY DEF Finish
  <2> QED
    BY <1>1, <2>2, <2>4, <2>5, <2>6, <2>7 DEF Ledger!Review
<1>4. CASE held[o] # {}
  <2>1. PICK k \in held[o] : TRUE
    BY <1>4
  <2>2. k \in Keys /\ verdict[o] \in {"approved", "rejected"}
    BY DEF TypeOK, TransactionInv, HeldUndecided, Verdicts
  <2>3. Ledger!Review(k, verdict[o])
    BY <1>3
  <2> QED
    BY <2>2, <2>3 DEF Ledger!Review
<1> QED
  BY <1>2, <1>4

\* Theorem: the statement-level behaviour of any number of runs and requests
\* implements the ledger.
THEOREM LifecycleImplementsLedger == Spec => ImplementsLedger
<1>1. Init => Ledger!Init
  BY DEF Init, Ledger!Init, NoRow
<1>2. TypeOK /\ TransactionInv /\ [Next]_vars => [Ledger!Next]_(Ledger!ledger)
  <2> SUFFICES ASSUME TypeOK, TransactionInv, [Next]_vars
               PROVE  Ledger!Next \/ UNCHANGED Ledger!ledger
    OBVIOUS
  <2>1. CASE UNCHANGED <<props, pats, gone>>
    BY <2>1 DEF Ledger!ledger
  <2>2. ASSUME NEW p \in Proposers, SweepSelect(p) PROVE Ledger!Next
    BY <2>2, SelectPicks DEF Ledger!Next
  <2>3. ASSUME NEW p \in Proposers, Forget(p), UNCHANGED <<props, pats>>
        PROVE  Ledger!Next
    BY <2>3, ForgetPicks DEF Ledger!Next, Ledger!Pick
  <2>4. ASSUME NEW p \in Proposers, Commit(p) PROVE Ledger!Next
    BY <2>4, CommitIsNight DEF Ledger!Next
  <2>5. ASSUME NEW o \in Operators, Finish(o)
        PROVE  Ledger!Next \/ UNCHANGED Ledger!ledger
    BY <2>5, FinishIsReview DEF Ledger!Next
  <2> QED
    BY <2>1, <2>2, <2>3, <2>4, <2>5
       DEF Next, Step, vars, db, plan, NextDay, Begin, ReadExisting,
           ProcessGroups, TouchLive, Revive, Insert, InsertFails, MarkProposed,
           SweepUpdate, RevertPatterns, Abort, Decide, Drop
<1> QED
  BY <1>1, <1>2, TypeCorrect, TransactionsIsolated, PTL
     DEF Spec, ImplementsLedger, Ledger!Spec

------------------------------------------------------------------------------
\* Theorem: no request and no run ever wait for each other, for any number of
\* them: a request waits only for a pattern that is committed as proposed, and
\* the only statement that locks such a pattern is a run's last.
THEOREM NeverDeadlocked == Spec => []NoDeadlock
<1>1. TypeOK /\ TransactionInv => NoDeadlock
  <2> SUFFICES ASSUME TypeOK, TransactionInv,
                      NEW p \in Proposers, NEW o \in Operators,
                      WaitsForRun(o, p), WaitsForReview(p, o)
               PROVE  FALSE
    BY DEF NoDeadlock
  <2>1. PICK x \in FlippedBy(o) : x \in patLock[p]
    BY DEF WaitsForRun
  <2>2. pats[x] = "proposed"
    BY <2>1 DEF FlippedBy
  <2>3. pc[p] = "commit"
    BY <2>1, <2>2 DEF TransactionInv, PatMoves
  <2> QED
    BY <2>3 DEF WaitsForReview
<1> QED
  BY <1>1, TypeCorrect, TransactionsIsolated, PTL

------------------------------------------------------------------------------
\* Behind every pattern that is 'proposed' there is a stored proposal.

Later == {"mark", "select", "sweep", "revert", "commit"}

\* What a run writes is a proposal, and what it has read of one is still stored:
\* rows come and never go.
RowsStay ==
    /\ \A p \in Proposers : \A k \in rowLock[p] : rowNew[p][k].status # "none"
    /\ \A p \in Proposers : \A k \in Keys :
          existing[p][k] # "none" => props[k].status # "none"

\* What a run will mark is of a group that it inserts a proposal for, or that has
\* one; after the INSERT the new ones are written.
MarksBacked ==
    \A p \in Proposers :
        /\ \A x \in marks[p] : \E g \in Candidates :
              x \in g.pats /\ (g \in fresh[p] \/ existing[p][g.key] # "none")
        /\ pc[p] \in Later => KeysOf(fresh[p]) \subseteq rowLock[p]

\* So what it has marked is of a group whose proposal it sees.
MarkedBacked ==
    \A p \in Proposers : \A x \in patLock[p] : patNew[p][x] = "proposed" =>
        \E g \in Candidates : x \in g.pats /\ Row(p, g.key).status # "none"

BackedInv == RowsStay /\ MarksBacked /\ MarkedBacked /\ ProposedHasProposal

LEMMA CandidateKeys == \A g \in Candidates : g.key \in Keys /\ g.pats \subseteq Patterns
BY LifecycleAssumption

\* An UPDATE or INSERT shows its own transaction the new rows, and others nothing.
LEMMA SeenAfterWrite ==
    ASSUME TypeOK, NEW p \in Proposers, NEW ks \in SUBSET Keys, NEW new,
           new \in [Keys -> Rows], WriteRows(p, ks, new), props' = props
    PROVE  /\ \A k \in Keys : Row(p, k)' = IF k \in ks THEN new[k] ELSE Row(p, k)
           /\ \A q \in Proposers \ {p} : \A k \in Keys : Row(q, k)' = Row(q, k)
           /\ rowLock'[p] = rowLock[p] \cup ks
           /\ \A q \in Proposers \ {p} : rowLock'[q] = rowLock[q] /\ rowNew'[q] = rowNew[q]
           /\ \A k \in Keys : rowNew'[p][k] = IF k \in ks THEN new[k] ELSE rowNew[p][k]
BY DEF TypeOK, WriteRows, Row

\* A statement that writes proposals keeps the invariant.
LEMMA BackedWriteRows ==
    ASSUME TypeOK, BackedInv, NEW p \in Proposers, NEW ks \in SUBSET Keys, NEW new,
           new \in [Keys -> Rows], WriteRows(p, ks, new),
           \A k \in ks : new[k].status # "none",
           UNCHANGED <<props, pats, patLock, patNew, existing, marks, fresh>>,
           \A q \in Proposers \ {p} : pc'[q] = pc[q],
           pc'[p] \in Later => pc[p] \in Later \/ KeysOf(fresh[p]) \subseteq ks
    PROVE  BackedInv'
<1>1. /\ \A k \in Keys : Row(p, k)' = IF k \in ks THEN new[k] ELSE Row(p, k)
      /\ \A q \in Proposers \ {p} : \A k \in Keys : Row(q, k)' = Row(q, k)
      /\ rowLock'[p] = rowLock[p] \cup ks
      /\ \A q \in Proposers \ {p} : rowLock'[q] = rowLock[q] /\ rowNew'[q] = rowNew[q]
      /\ \A k \in Keys : rowNew'[p][k] = IF k \in ks THEN new[k] ELSE rowNew[p][k]
  BY SeenAfterWrite
<1>2. rowLock[p] \subseteq Keys
  BY DEF TypeOK
<1>3. RowsStay'
  BY <1>1, <1>2 DEF BackedInv, RowsStay
<1>4. MarksBacked'
  BY <1>1 DEF BackedInv, MarksBacked, KeysOf
<1>5. \A q \in Proposers : \A k \in Keys :
         Row(q, k).status # "none" => Row(q, k)'.status # "none"
  BY <1>1
<1>6. MarkedBacked'
  BY <1>5, CandidateKeys DEF BackedInv, MarkedBacked
<1>7. ProposedHasProposal'
  BY DEF BackedInv, ProposedHasProposal
<1> QED
  BY <1>3, <1>4, <1>6, <1>7 DEF BackedInv

\* So does the end of a transaction, unless it makes a row or a mark of the
\* committed tables disappear.
LEMMA BackedForget ==
    ASSUME TypeOK, BackedInv, NEW p \in Proposers, Forget(p),
           \A k \in Keys : props[k].status # "none" => props'[k].status # "none",
           ProposedHasProposal'
    PROVE  BackedInv'
<1>1. \A q \in Proposers \ {p} :
         /\ pc'[q] = pc[q] /\ existing'[q] = existing[q] /\ marks'[q] = marks[q]
         /\ fresh'[q] = fresh[q] /\ rowLock'[q] = rowLock[q] /\ rowNew'[q] = rowNew[q]
         /\ patLock'[q] = patLock[q] /\ patNew'[q] = patNew[q]
  BY DEF Forget, TypeOK
<1>2. /\ pc'[p] = "idle" /\ existing'[p] = [k \in Keys |-> "none"] /\ marks'[p] = {}
      /\ rowLock'[p] = {} /\ patLock'[p] = {}
  BY DEF Forget, TypeOK
<1>3. RowsStay'
  BY <1>1, <1>2 DEF BackedInv, RowsStay
<1>4. MarksBacked'
  <2>1. \A q \in Proposers \ {p} :
           /\ \A x \in marks'[q] : \E g \in Candidates :
                 x \in g.pats /\ (g \in fresh'[q] \/ existing'[q][g.key] # "none")
           /\ pc'[q] \in Later => KeysOf(fresh'[q]) \subseteq rowLock'[q]
    BY <1>1 DEF BackedInv, MarksBacked
  <2> QED
    BY <1>2, <2>1 DEF MarksBacked, Later, KeysOf
<1>5. MarkedBacked'
  <2> SUFFICES ASSUME NEW q \in Proposers, NEW x \in patLock'[q], patNew'[q][x] = "proposed"
               PROVE  \E g \in Candidates : x \in g.pats /\ Row(q, g.key)'.status # "none"
    BY DEF MarkedBacked
  <2>1. q # p
    BY <1>2
  <2>2. PICK g \in Candidates : x \in g.pats /\ Row(q, g.key).status # "none"
    BY <1>1, <2>1 DEF BackedInv, MarkedBacked
  <2>3. Row(q, g.key)'.status # "none"
    BY <1>1, <2>1, <2>2, CandidateKeys DEF Row
  <2> QED
    BY <2>2, <2>3
<1> QED
  BY <1>3, <1>4, <1>5 DEF BackedInv

\* So do statements that write nothing.
LEMMA BackedKept ==
    ASSUME TypeOK, BackedInv,
           UNCHANGED <<props, pats, rowLock, rowNew, patLock, patNew>>,
           RowsStay', MarksBacked'
    PROVE  BackedInv'
BY DEF BackedInv, MarkedBacked, ProposedHasProposal, Row

LEMMA BackedStep == TypeOK /\ TransactionInv /\ BackedInv /\ [Next]_vars => BackedInv'
<1> SUFFICES ASSUME TypeOK, TransactionInv, BackedInv, [Next]_vars PROVE BackedInv'
  OBVIOUS
<1> USE DEF db, plan, writes, reviews
<1>1. ASSUME UNCHANGED <<props, pats, rowLock, rowNew, patLock, patNew, existing, marks,
                         fresh, pc>>
      PROVE  BackedInv'
  BY <1>1 DEF BackedInv, RowsStay, MarksBacked, MarkedBacked, ProposedHasProposal, Row
<1>2. CASE NextDay \/ UNCHANGED vars
  BY <1>1, <1>2 DEF NextDay, vars
<1>16. ASSUME NEW o \in Operators, Drop(o) PROVE BackedInv'
  BY <1>1, <1>16 DEF Drop
<1>17. ASSUME NEW o \in Operators, NEW k \in Keys, NEW v \in Verdicts, Decide(o, k, v)
       PROVE  BackedInv'
  BY <1>1, <1>17 DEF Decide
<1>3. ASSUME NEW p \in Proposers, Begin(p) PROVE BackedInv'
  <2>1. /\ UNCHANGED <<props, pats, rowLock, rowNew, patLock, patNew, existing, marks, fresh>>
        /\ pc' = [pc EXCEPT ![p] = "existing"]
    BY <1>3 DEF Begin, Statement
  <2> QED
    BY <2>1, BackedKept DEF BackedInv, RowsStay, MarksBacked, Later, TypeOK
<1>4. ASSUME NEW p \in Proposers, ReadExisting(p) PROVE BackedInv'
  <2>1. /\ UNCHANGED <<props, pats, rowLock, rowNew, patLock, patNew, marks, fresh>>
        /\ pc' = [pc EXCEPT ![p] = "llm"] /\ pc[p] = "existing"
        /\ existing' = [existing EXCEPT ![p] = [k \in Keys |-> props[k].status]]
    BY <1>4 DEF ReadExisting, Statement
  <2>2. RowsStay'
    BY <2>1 DEF BackedInv, RowsStay, TypeOK
  <2>3. \A q \in Proposers, k \in Keys : existing[q][k] # "none" => existing'[q][k] # "none"
    BY <2>1 DEF BackedInv, RowsStay, TypeOK
  <2>4. MarksBacked'
    <3>1. \A q \in Proposers : pc'[q] \in Later => pc[q] \in Later
      BY <2>1 DEF TypeOK, Later
    <3> QED
      BY <2>1, <2>3, <3>1, CandidateKeys DEF BackedInv, MarksBacked
  <2> QED
    BY <2>1, <2>2, <2>4, BackedKept
<1>5. ASSUME NEW p \in Proposers, ProcessGroups(p) PROVE BackedInv'
  <2>1. PICK accepted \in SUBSET GroupsAt(p, {"none"}) :
           /\ fresh' = [fresh EXCEPT ![p] = accepted]
           /\ marks' = [marks EXCEPT ![p] = PatsOf(accepted \cup GroupsAt(p, {"stale"}))]
    BY <1>5 DEF ProcessGroups
  <2>2. /\ UNCHANGED <<props, pats, rowLock, rowNew, patLock, patNew, existing>>
        /\ pc' = [pc EXCEPT ![p] = "touch"]
    BY <1>5 DEF ProcessGroups, Statement
  <2>3. RowsStay'
    BY <2>2 DEF BackedInv, RowsStay
  <2>4. \A x \in marks'[p] : \E g \in Candidates :
           x \in g.pats /\ (g \in fresh'[p] \/ existing'[p][g.key] # "none")
    BY <2>1, <2>2 DEF TypeOK, PatsOf, GroupsAt
  <2>5. pc'[p] \notin Later
    BY <2>2 DEF TypeOK, Later
  <2>6. \A q \in Proposers \ {p} : pc'[q] = pc[q] /\ fresh'[q] = fresh[q] /\ marks'[q] = marks[q]
    BY <2>1, <2>2 DEF TypeOK
  <2>7. MarksBacked'
    BY <2>2, <2>4, <2>5, <2>6 DEF BackedInv, MarksBacked
  <2> QED
    BY <2>2, <2>3, <2>7, BackedKept
<1>6. ASSUME NEW p \in Proposers, TouchLive(p) PROVE BackedInv'
  <2> DEFINE ks == KeysOf(GroupsAt(p, LiveStatuses))
             new == [k \in Keys |-> [Row(p, k) EXCEPT !.seen = now[p]]]
  <2>1. ks \subseteq Keys
    BY GroupsType DEF GroupsAt, TypeOK
  <2>2. new \in [Keys -> Rows]
    BY SeenType, RowUpdate DEF TypeOK
  <2>3. \A k \in ks : existing[p][k] # "none"
    BY DEF KeysOf, GroupsAt, LiveStatuses
  <2>4. \A k \in ks : new[k].status # "none"
    BY <2>1, <2>3, SeenType DEF BackedInv, RowsStay, Row, Rows
  <2>5. /\ WriteRows(p, ks, new) /\ pc' = [pc EXCEPT ![p] = "revive"]
        /\ UNCHANGED <<props, pats, patLock, patNew, existing, marks, fresh>>
    BY <1>6 DEF TouchLive, Statement
  <2>6. pc'[p] \notin Later /\ \A q \in Proposers \ {p} : pc'[q] = pc[q]
    BY <2>5 DEF TypeOK, Later
  <2> HIDE DEF ks, new
  <2> QED
    BY <2>1, <2>2, <2>4, <2>5, <2>6, BackedWriteRows
<1>7. ASSUME NEW p \in Proposers, Revive(p) PROVE BackedInv'
  <2> DEFINE ks == {k \in KeysOf(GroupsAt(p, {"stale"})) : Row(p, k).status = "stale"}
             new == [k \in Keys |-> [Row(p, k) EXCEPT !.seen = now[p],
                                                      !.status = "shadowing"]]
  <2>1. ks \subseteq Keys
    BY GroupsType DEF GroupsAt, TypeOK
  <2>2. new \in [Keys -> Rows]
    BY SeenType, RowUpdate DEF TypeOK, RowStatuses
  <2>3. \A k \in ks : new[k].status # "none"
    BY <2>1, SeenType DEF Rows
  <2>4. /\ WriteRows(p, ks, new) /\ pc' = [pc EXCEPT ![p] = "insert"]
        /\ UNCHANGED <<props, pats, patLock, patNew, existing, marks, fresh>>
    BY <1>7 DEF Revive, Statement
  <2>5. pc'[p] \notin Later /\ \A q \in Proposers \ {p} : pc'[q] = pc[q]
    BY <2>4 DEF TypeOK, Later
  <2> HIDE DEF ks, new
  <2> QED
    BY <2>1, <2>2, <2>3, <2>4, <2>5, BackedWriteRows
<1>8. ASSUME NEW p \in Proposers, Insert(p) PROVE BackedInv'
  <2> DEFINE new == [k \in Keys |-> NewRow(p, k)]
  <2>1. KeysOf(fresh[p]) \subseteq Keys
    BY GroupsType DEF TypeOK
  <2>2. new \in [Keys -> Rows]
    <3>1. \A k \in Keys : PatsOf({g \in fresh[p] : g.key = k}) \subseteq Patterns
      BY GroupsType DEF TypeOK
    <3> QED
      BY <3>1 DEF NewRow, TypeOK, Rows, RowStatuses
  <2>3. \A k \in KeysOf(fresh[p]) : new[k].status # "none"
    BY <2>1 DEF NewRow
  <2>4. /\ WriteRows(p, KeysOf(fresh[p]), new) /\ pc' = [pc EXCEPT ![p] = "mark"]
        /\ UNCHANGED <<props, pats, patLock, patNew, existing, marks, fresh>>
    BY <1>8 DEF Insert, Statement
  <2>5. \A q \in Proposers \ {p} : pc'[q] = pc[q]
    BY <2>4 DEF TypeOK
  <2> HIDE DEF new
  <2> QED
    BY <2>1, <2>2, <2>3, <2>4, <2>5, BackedWriteRows
<1>9. ASSUME NEW p \in Proposers, InsertFails(p) \/ Abort(p) PROVE BackedInv'
  <2>1. Forget(p) /\ UNCHANGED <<props, pats>>
    BY <1>9 DEF InsertFails, Abort
  <2> QED
    BY <2>1, BackedForget DEF BackedInv, ProposedHasProposal
\* What is marked has a proposal that this run sees.
<1>10. ASSUME NEW p \in Proposers, MarkProposed(p) PROVE BackedInv'
  <2> DEFINE hit == {x \in marks[p] : Pat(p, x) = "candidate"}
  <2>1. /\ pc[p] = "mark" /\ pc' = [pc EXCEPT ![p] = "select"]
        /\ patLock' = [patLock EXCEPT ![p] = @ \cup hit]
        /\ patNew' = [patNew EXCEPT ![p] =
                        [x \in Patterns |-> IF x \in hit THEN "proposed" ELSE @[x]]]
        /\ UNCHANGED <<props, pats, rowLock, rowNew, existing, marks, fresh>>
    BY <1>10 DEF MarkProposed, Statement, WritePats
  <2>2. RowsStay' /\ MarksBacked'
    BY <2>1 DEF BackedInv, RowsStay, MarksBacked, Later, TypeOK
  <2>3. \A x \in hit : \E g \in Candidates : x \in g.pats /\ Row(p, g.key).status # "none"
    <3> TAKE x \in hit
    <3>1. PICK g \in Candidates :
             x \in g.pats /\ (g \in fresh[p] \/ existing[p][g.key] # "none")
      BY DEF BackedInv, MarksBacked
    <3>2. CASE g \in fresh[p]
      BY <2>1, <3>1, <3>2 DEF BackedInv, MarksBacked, RowsStay, Later, KeysOf, Row
    <3>3. CASE existing[p][g.key] # "none"
      BY <3>1, <3>3, CandidateKeys DEF BackedInv, RowsStay, Row
    <3> QED
      BY <3>1, <3>2, <3>3
  <2>4. \A q \in Proposers, k \in Keys : Row(q, k)' = Row(q, k)
    BY <2>1 DEF Row
  <2>5. marks[p] \subseteq Patterns /\ patLock[p] \subseteq Patterns
    BY DEF TypeOK
  <2>6. /\ \A x \in patLock'[p] : x \in Patterns /\ (x \in hit \/ x \in patLock[p])
        /\ \A x \in Patterns \ hit : patNew'[p][x] = patNew[p][x]
        /\ \A q \in Proposers \ {p} : patLock'[q] = patLock[q] /\ patNew'[q] = patNew[q]
    BY <2>1, <2>5 DEF TypeOK
  <2> HIDE DEF hit
  <2>7. MarkedBacked'
    BY <2>3, <2>4, <2>6, CandidateKeys DEF BackedInv, MarkedBacked
  <2>8. ProposedHasProposal'
    BY <2>1 DEF BackedInv, ProposedHasProposal
  <2> QED
    BY <2>2, <2>7, <2>8 DEF BackedInv
<1>11. ASSUME NEW p \in Proposers, SweepSelect(p) PROVE BackedInv'
  <2>1. /\ UNCHANGED <<props, pats, rowLock, rowNew, patLock, patNew, existing, marks, fresh>>
        /\ pc[p] = "select" /\ \A q \in Proposers \ {p} : pc'[q] = pc[q]
    BY <1>11 DEF SweepSelect, Statement, TypeOK
  <2> QED
    BY <2>1, BackedKept DEF BackedInv, RowsStay, MarksBacked, Later
<1>12. ASSUME NEW p \in Proposers, SweepUpdate(p) PROVE BackedInv'
  <2> DEFINE new == [k \in Keys |-> [Row(p, k) EXCEPT !.status = "stale"]]
  <2>1. gone[p] \in SUBSET Keys
    BY DEF TypeOK
  <2>2. new \in [Keys -> Rows]
    BY SeenType, RowUpdate DEF RowStatuses
  <2>3. \A k \in gone[p] : new[k].status # "none"
    BY <2>1, SeenType DEF Rows
  <2>4. /\ WriteRows(p, gone[p], new) /\ pc' = [pc EXCEPT ![p] = "revert"] /\ pc[p] = "sweep"
        /\ UNCHANGED <<props, pats, patLock, patNew, existing, marks, fresh>>
    BY <1>12 DEF SweepUpdate, Statement
  <2>5. pc[p] \in Later /\ \A q \in Proposers \ {p} : pc'[q] = pc[q]
    BY <2>4 DEF TypeOK, Later
  <2> HIDE DEF new
  <2> QED
    BY <2>1, <2>2, <2>3, <2>4, <2>5, BackedWriteRows
<1>13. ASSUME NEW p \in Proposers, RevertPatterns(p) PROVE BackedInv'
  <2> DEFINE hit == {x \in UNION {Row(p, k).srcs : k \in gone[p]} : Pat(p, x) = "proposed"}
  <2>1. /\ pc[p] = "revert" /\ pc' = [pc EXCEPT ![p] = "commit"]
        /\ patLock' = [patLock EXCEPT ![p] = @ \cup hit]
        /\ patNew' = [patNew EXCEPT ![p] =
                        [x \in Patterns |-> IF x \in hit THEN "candidate" ELSE @[x]]]
        /\ UNCHANGED <<props, pats, rowLock, rowNew, existing, marks, fresh>>
    BY <1>13 DEF RevertPatterns, Statement, WritePats
  <2>2. RowsStay' /\ MarksBacked'
    BY <2>1 DEF BackedInv, RowsStay, MarksBacked, Later, TypeOK
  <2>3. \A q \in Proposers, k \in Keys : Row(q, k)' = Row(q, k)
    BY <2>1 DEF Row
  <2>4. hit \subseteq Patterns
    BY SeenType DEF TypeOK, Rows
  <2>5. /\ \A x \in patLock'[p] : x \in Patterns /\ (x \in hit \/ x \in patLock[p])
        /\ \A x \in Patterns : patNew'[p][x] = IF x \in hit THEN "candidate" ELSE patNew[p][x]
        /\ \A q \in Proposers \ {p} : patLock'[q] = patLock[q] /\ patNew'[q] = patNew[q]
    BY <2>1, <2>4 DEF TypeOK
  <2> HIDE DEF hit
  <2>6. MarkedBacked'
    BY <2>3, <2>5, CandidateKeys DEF BackedInv, MarkedBacked
  <2>7. ProposedHasProposal'
    BY <2>1 DEF BackedInv, ProposedHasProposal
  <2> QED
    BY <2>2, <2>6, <2>7 DEF BackedInv
<1>14. ASSUME NEW p \in Proposers, Commit(p) PROVE BackedInv'
  <2>1. /\ props' = [k \in Keys |-> Row(p, k)] /\ pats' = [x \in Patterns |-> Pat(p, x)]
        /\ Forget(p)
    BY <1>14 DEF Commit
  <2>2. \A k \in Keys : props[k].status # "none" => props'[k].status # "none"
    BY <2>1 DEF BackedInv, RowsStay, Row
  <2>3. ProposedHasProposal'
    <3> SUFFICES ASSUME NEW x \in Patterns, pats'[x] = "proposed"
                 PROVE  \E g \in Candidates : x \in g.pats /\ props'[g.key].status # "none"
      BY DEF ProposedHasProposal
    <3>1. PICK g \in Candidates : x \in g.pats /\ Row(p, g.key).status # "none"
      <4>1. CASE x \in patLock[p]
        BY <2>1, <4>1 DEF Pat, BackedInv, MarkedBacked
      <4>2. CASE x \notin patLock[p]
        BY <2>1, <2>2, <4>2, CandidateKeys DEF Pat, BackedInv, ProposedHasProposal
      <4> QED
        BY <4>1, <4>2
    <3>2. props'[g.key] = Row(p, g.key)
      BY <2>1, CandidateKeys
    <3> QED
      BY <3>1, <3>2
  <2> QED
    BY <2>1, <2>2, <2>3, BackedForget
\* A decision leaves the row where it is.
<1>15. ASSUME NEW o \in Operators, Finish(o) PROVE BackedInv'
  <2>1. /\ UNCHANGED <<rowLock, rowNew, patLock, patNew, existing, marks, fresh, pc>>
        /\ verdict[o] \in Verdicts
        /\ props' = [k \in Keys |-> IF k \in held[o]
                                    THEN [props[k] EXCEPT !.status = verdict[o]]
                                    ELSE props[k]]
        /\ pats' = [x \in Patterns |-> IF x \in FlippedBy(o) THEN "rejected" ELSE pats[x]]
    BY <1>15 DEF Finish, TypeOK
  <2>2. \A k \in Keys : props[k].status # "none" => props'[k].status # "none"
    BY <2>1 DEF TypeOK, Rows, Verdicts
  <2>3. RowsStay' /\ MarksBacked'
    BY <2>1, <2>2 DEF BackedInv, RowsStay, MarksBacked
  <2>4. \A q \in Proposers, k \in Keys :
           Row(q, k).status # "none" => Row(q, k)'.status # "none"
    BY <2>1, <2>2 DEF Row
  <2>5. MarkedBacked'
    BY <2>1, <2>4, CandidateKeys DEF BackedInv, MarkedBacked
  <2>6. ProposedHasProposal'
    BY <2>1, <2>2, CandidateKeys DEF BackedInv, ProposedHasProposal
  <2> QED
    BY <2>3, <2>5, <2>6 DEF BackedInv
<1> QED
  BY <1>2, <1>3, <1>4, <1>5, <1>6, <1>7, <1>8, <1>9, <1>10, <1>11, <1>12, <1>13, <1>14,
     <1>15, <1>16, <1>17 DEF Next, Step

\* Theorem: a pattern that is 'proposed' belongs to a group with a stored proposal,
\* for any number of overlapping runs and requests: marks and inserts commit
\* together, and no proposal is ever deleted.
THEOREM ProposedHasProposalProved == Spec => []ProposedHasProposal
<1>1. Init => BackedInv
  BY DEF Init, BackedInv, RowsStay, MarksBacked, MarkedBacked, ProposedHasProposal, KeysOf,
         Later
<1>2. BackedInv => ProposedHasProposal
  BY DEF BackedInv
<1> QED
  BY <1>1, <1>2, BackedStep, TypeCorrect, TransactionsIsolated, PTL DEF Spec

------------------------------------------------------------------------------
\* With one run at a time, what a run has read stays true until it commits.

\* What the sweep selected was last refreshed more than StaleDays before the run
\* began, and is not refreshed since; a key that had no proposal, or a rejected one,
\* when the run read `existing`, still has none, or is still rejected.
UnseenInv ==
    \A p \in Proposers :
        /\ now[p] <= day
        /\ \A k \in gone[p] : props[k].seen + StaleDays < now[p]
        /\ pc[p] \notin {"idle", "existing"} => \A k \in Keys :
              existing[p][k] \in {"none", "rejected"} => props[k].status = existing[p][k]

\* An operator's decision moves no proposal's last_eligible_at, and neither gives a
\* key its first proposal nor touches a rejected one.
LEMMA FinishKeeps ==
    ASSUME TypeOK, TransactionInv, NEW o \in Operators, Finish(o)
    PROVE  \A k \in Keys :
              /\ props'[k].seen = props[k].seen
              /\ props[k].status \in {"none", "rejected"} => props'[k].status = props[k].status
<1> TAKE k \in Keys
<1>1. props[k] \in Rows
  BY DEF TypeOK
<1>2. k \in held[o] => props[k].status \in FromStatuses
  BY DEF TransactionInv, HeldUndecided
<1>3. props'[k] = IF k \in held[o] THEN [props[k] EXCEPT !.status = verdict[o]]
                                  ELSE props[k]
  BY DEF Finish
<1> QED
  BY <1>1, <1>2, <1>3 DEF Rows, FromStatuses

LEMMA UnseenStep ==
    ASSUME \A p, q \in Proposers : p = q
    PROVE  TypeOK /\ TransactionInv /\ UnseenInv /\ [Next]_vars => UnseenInv'
<1> SUFFICES ASSUME TypeOK, TransactionInv, UnseenInv, [Next]_vars, NEW p \in Proposers
             PROVE  /\ now'[p] <= day'
                    /\ \A k \in gone'[p] : props'[k].seen + StaleDays < now'[p]
                    /\ pc'[p] \notin {"idle", "existing"} => \A k \in Keys :
                          existing'[p][k] \in {"none", "rejected"} =>
                              props'[k].status = existing'[p][k]
  BY DEF UnseenInv
<1> DEFINE Goal == /\ now'[p] <= day'
                   /\ \A k \in gone'[p] : props'[k].seen + StaleDays < now'[p]
                   /\ pc'[p] \notin {"idle", "existing"} => \A k \in Keys :
                         existing'[p][k] \in {"none", "rejected"} =>
                             props'[k].status = existing'[p][k]
<1> USE DEF db, plan, writes, reviews
<1>0. /\ day \in Nat /\ now[p] \in Nat /\ StaleDays \in Nat
      /\ \A k \in Keys : props[k].seen \in Nat
      /\ gone[p] \subseteq Keys
  BY LifecycleAssumption DEF TypeOK, Rows
<1>1. ASSUME UNCHANGED <<day, props, now, gone, existing>>,
             pc[p] \in {"idle", "existing"} => pc'[p] \in {"idle", "existing"}
      PROVE  Goal
  BY <1>1 DEF UnseenInv
<1>2. CASE NextDay
  BY <1>0, <1>2 DEF NextDay, UnseenInv
<1>3. CASE UNCHANGED vars
  BY <1>1, <1>3 DEF vars
<1>4. CASE Begin(p)
  <2>1. /\ now'[p] = day /\ pc'[p] = "existing" /\ UNCHANGED <<day, gone>>
        /\ pc[p] = "idle"
    BY <1>4 DEF Begin, Statement, TypeOK
  <2>2. gone[p] = {}
    BY <2>1 DEF TransactionInv, SweepOrder
  <2> QED
    BY <1>0, <2>1, <2>2
<1>5. CASE ReadExisting(p)
  BY <1>5 DEF ReadExisting, UnseenInv, TypeOK
<1>6. CASE ProcessGroups(p) \/ TouchLive(p) \/ Revive(p) \/ Insert(p) \/ MarkProposed(p)
  <2>1. UNCHANGED <<day, props, now, gone, existing>>
    BY <1>6 DEF ProcessGroups, TouchLive, Revive, Insert, MarkProposed
  <2>2. pc[p] \notin {"idle", "existing"}
    BY <1>6 DEF ProcessGroups, TouchLive, Revive, Insert, MarkProposed, Statement
  <2> QED
    BY <1>1, <2>1, <2>2
\* Before its sweep, all that the run has written carries its own time.
<1>7. CASE SweepSelect(p)
  <2>1. /\ UNCHANGED <<day, props, now, existing>>
        /\ \A k \in gone'[p] : k \in Keys /\ Row(p, k).seen < now[p] - StaleDays
        /\ pc[p] = "select"
    BY <1>7 DEF SweepSelect, Statement, TypeOK
  <2>2. \A k \in rowLock[p] : rowNew[p][k].seen = now[p]
    BY <2>1 DEF TransactionInv, SweepOrder
  <2>3. \A k \in gone'[p] : props'[k].seen + StaleDays < now'[p]
    BY <1>0, <2>1, <2>2 DEF Row
  <2> QED
    BY <1>0, <2>1, <2>3 DEF UnseenInv
<1>8. CASE SweepUpdate(p) \/ RevertPatterns(p)
  <2>1. UNCHANGED <<day, props, now, gone, existing>>
    BY <1>8 DEF SweepUpdate, RevertPatterns
  <2>2. pc[p] \notin {"idle", "existing"}
    BY <1>8 DEF SweepUpdate, RevertPatterns, Statement
  <2> QED
    BY <1>1, <2>1, <2>2
<1>9. CASE InsertFails(p) \/ Commit(p) \/ Abort(p)
  <2>1. Forget(p) /\ day' = day
    BY <1>9 DEF InsertFails, Commit, Abort
  <2>2. now'[p] = 0 /\ gone'[p] = {} /\ pc'[p] = "idle"
    BY <2>1 DEF Forget, TypeOK
  <2> QED
    BY <1>0, <2>1, <2>2
<1>10. ASSUME NEW o \in Operators, Finish(o) PROVE Goal
  <2>1. UNCHANGED <<day, now, gone, existing, pc>>
    BY <1>10 DEF Finish
  <2> QED
    BY <1>0, <1>10, <2>1, FinishKeeps DEF UnseenInv
<1>11. ASSUME NEW o \in Operators, Drop(o) PROVE Goal
  BY <1>1, <1>11 DEF Drop
<1>12. ASSUME NEW o \in Operators, NEW k \in Keys, NEW v \in Verdicts, Decide(o, k, v)
       PROVE  Goal
  BY <1>1, <1>12 DEF Decide
<1>13. ASSUME NEW q \in Proposers, Begin(q) \/ Step(q) \/ Abort(q) PROVE Goal
  <2>1. q = p
    OBVIOUS
  <2> QED
    BY <1>13, <2>1, <1>4, <1>5, <1>6, <1>7, <1>8, <1>9 DEF Step
<1> QED
  BY <1>2, <1>3, <1>10, <1>11, <1>12, <1>13 DEF Next

\* Theorem: with one proposer run at a time (any number of review requests beside
\* it), an approved proposal is taken back only by the sweep, only when its group was
\* in no run's data for more than StaleDays, and not if this run found the group: but
\* for a proposal that was stale when the run read it and was approved meanwhile.
THEOREM ApprovalEndsOnlyUnseenProved ==
    ASSUME \A p, q \in Proposers : p = q
    PROVE  Spec => ApprovalEndsOnlyUnseen
<1> DEFINE Ends(k) ==
      props[k].status = "approved" /\ props'[k].status # "approved" =>
        /\ props'[k].status = "stale"
        /\ props[k].seen + StaleDays < day
        /\ \E p \in Proposers :
             /\ pc[p] = "commit" /\ k \in gone[p]
             /\ k \in KeysOf(groups[p]) => existing[p][k] = "stale"
<1>1. Init => UnseenInv
  BY DEF Init, UnseenInv
<1>2. TypeOK /\ TransactionInv /\ FoundLiveIsNotSwept /\ UnseenInv /\ [Next]_vars =>
        [\A k \in Keys : Ends(k)]_vars
  <2> SUFFICES ASSUME TypeOK, TransactionInv, FoundLiveIsNotSwept, UnseenInv, [Next]_vars,
                      NEW k \in Keys,
                      props[k].status = "approved", props'[k].status # "approved"
               PROVE  /\ props'[k].status = "stale"
                      /\ props[k].seen + StaleDays < day
                      /\ \E p \in Proposers :
                           /\ pc[p] = "commit" /\ k \in gone[p]
                           /\ k \in KeysOf(groups[p]) => existing[p][k] = "stale"
    OBVIOUS
  <2>1. ~ UNCHANGED db
    BY DEF db
  <2>2. ASSUME NEW p \in Proposers, Commit(p)
        PROVE  /\ props'[k].status = "stale"
               /\ props[k].seen + StaleDays < day
               /\ pc[p] = "commit" /\ k \in gone[p]
               /\ k \in KeysOf(groups[p]) => existing[p][k] = "stale"
    <3>1. pc[p] = "commit" /\ props'[k] = Row(p, k)
      BY <2>2 DEF Commit
    <3>2. k \in rowLock[p] /\ props'[k] = rowNew[p][k]
      BY <3>1 DEF Row
    <3>3. k \in gone[p] /\ props'[k].status = "stale"
      BY <3>2 DEF TransactionInv, RowMoves
    <3>4. props[k].seen + StaleDays < day
      <4>1. /\ props[k].seen \in Nat /\ StaleDays \in Nat /\ now[p] \in Nat /\ day \in Nat
        BY LifecycleAssumption DEF TypeOK, Rows
      <4>2. props[k].seen + StaleDays < now[p] /\ now[p] <= day
        BY <3>3 DEF UnseenInv
      <4> QED
        BY <4>1, <4>2
    <3>5. existing[p][k] \notin {"none", "rejected"}
      BY <3>1 DEF UnseenInv
    <3>6. k \in KeysOf(groups[p]) => existing[p][k] \notin LiveStatuses
      BY <3>3 DEF FoundLiveIsNotSwept, KeysOf, GroupsAt
    <3>7. existing[p][k] \in RowStatuses
      BY DEF TypeOK
    <3> QED
      BY <3>1, <3>3, <3>4, <3>5, <3>6, <3>7 DEF RowStatuses, LiveStatuses
  <2>3. ASSUME NEW o \in Operators, Finish(o) PROVE FALSE
    <3>1. k \in held[o]
      BY <2>3 DEF Finish
    <3> QED
      BY <3>1 DEF TransactionInv, HeldUndecided, FromStatuses
  <2> QED
    BY <2>1, <2>2, <2>3, TablesMove
<1> QED
  BY <1>1, <1>2, UnseenStep, TypeCorrect, TransactionsIsolated, FoundLiveIsNotSweptProved, PTL
     DEF Spec, ApprovalEndsOnlyUnseen

==============================================================================
