-------------------------- MODULE NightlyChain_proofs --------------------------
(***************************************************************************)
(* Proofs about NightlyChain: types, the order of jobs, and the drafts,    *)
(* whatever the groups, the model's answers, the limits and the number of  *)
(* days.                                                                   *)
(***************************************************************************)
EXTENDS NightlyChain, TLAPS

\* All jobs that j depends on are among the finished ones.
Ready(j, finished) == \A k \in 1 .. j[1] - 1 : <<k, j[2]>> \in finished

\* A finished status is deserved, and whatever is queued, performed or done is ready:
\* what is deferred need not be, and is queued by a job that has just finished.
OrderInv ==
    /\ thread > Asleep => day > 0
    /\ \A j \in Jobs : status[j] = "finished" => j \in done
    /\ \A j \in done : Ready(j, done)
    /\ \A n \in 1 .. Len(queue) : Ready(queue[n], done)
    /\ busy # None => Ready(busy, done)

Inv == TypeOK /\ OrderInv

LEMMA ThreeLinks == Len(Chain) = 3 /\ DOMAIN Chain = 1 .. 3
BY DEF Chain

LEMMA JobShape == Jobs = (1 .. 3) \X (1 .. MaxDay)
BY ThreeLinks DEF Jobs

LEMMA GroupCount == Len(Groups) \in Nat /\ DOMAIN Groups = 1 .. Len(Groups)
BY ConversationAssumption

LEMMA InitInv == Init => Inv
<1> SUFFICES ASSUME Init PROVE Inv
  OBVIOUS
<1> USE ConversationAssumption, ChainAssumption, GroupCount, ThreeLinks DEF Init, StartOfTalk
<1>1. TalkTypeOK
  BY DEF TalkTypeOK
<1>2. TypeOK
  <2>1. status \in [Jobs -> {"none", "queued", "deferred", "started", "finished", "failed"}]
    OBVIOUS
  <2>2. queue \in Seq(Jobs) /\ hung \in 0 .. JobTimeout /\ day \in 0 .. MaxDay
    OBVIOUS
  <2>3. busy = None /\ waits = {} /\ done = {} /\ thread = Asleep
        /\ up \in BOOLEAN /\ again \in BOOLEAN
    OBVIOUS
  <2> QED
    BY ONLY <1>1, <2>1, <2>2, <2>3 DEF TypeOK
<1>3. OrderInv
  BY DEF OrderInv, None, Asleep
<1> QED
  BY <1>2, <1>3 DEF Inv

------------------------------------------------------------------------------
\* The steps of the talk, and its end, keep its types.
LEMMA TalkKeepsType ==
    ASSUME TalkTypeOK, UNCHANGED stored,
           \/ Skip
           \/ \E a \in Answers : Answer(a)
           \/ RequestFails
    PROVE  TalkTypeOK'
<1> USE ConversationAssumption, GroupCount DEF TalkTypeOK, Talking
<1>1. ASSUME NextGroup, turn \in 1 .. Len(Groups)
      PROVE  /\ turn' \in 1 .. Len(Groups) + 1 /\ chat' \in {"first", "retry"}
             /\ host' \in 1 .. Hosts /\ attempt' \in 1 .. Attempts
  BY <1>1 DEF NextGroup, Ask
<1>2. CASE Skip
  BY <1>1, <1>2 DEF Skip
<1>3. ASSUME NEW a \in Answers, Answer(a) PROVE TalkTypeOK'
  <2>1. ASSUME Draft(a) PROVE drafts' \subseteq Rows
    BY <1>3, <2>1 DEF Draft, Rows, Answer
  <2>2. ASSUME Ask(turn, "retry")
        PROVE  /\ turn' \in 1 .. Len(Groups) + 1 /\ chat' \in {"first", "retry"}
               /\ host' \in 1 .. Hosts /\ attempt' \in 1 .. Attempts
    BY <2>2 DEF Ask
  <2> QED
    BY <1>1, <1>3, <2>1, <2>2 DEF Answer
<1>4. CASE RequestFails
  BY <1>1, <1>4 DEF RequestFails
<1> QED
  BY <1>2, <1>3, <1>4

LEMMA EndKeepsType ==
    ASSUME TalkTypeOK, EndOfTalk, stored' \subseteq Rows
    PROVE  TalkTypeOK'
BY ConversationAssumption, GroupCount DEF TalkTypeOK, EndOfTalk, Ask

\* A head and a tail, and a new last element, of a queue of jobs.
LEMMA QueueSteps ==
    ASSUME queue \in Seq(Jobs), NEW j \in Jobs
    PROVE  /\ Append(queue, j) \in Seq(Jobs) /\ Len(Append(queue, j)) = Len(queue) + 1
           /\ \A n \in 1 .. Len(queue) + 1 :
                 Append(queue, j)[n] = IF n = Len(queue) + 1 THEN j ELSE queue[n]
           /\ queue # <<>> =>
                 /\ Head(queue) \in Jobs /\ Head(queue) = queue[1]
                 /\ Tail(queue) \in Seq(Jobs) /\ Len(Tail(queue)) = Len(queue) - 1
                 /\ \A n \in 1 .. Len(queue) - 1 : Tail(queue)[n] = queue[n + 1]
OBVIOUS

------------------------------------------------------------------------------
\* What `done` holds only grows, and a job that was ready stays so.
LEMMA ReadyStays ==
    ASSUME NEW S, NEW T, S \subseteq T, NEW j, Ready(j, S)
    PROVE  Ready(j, T)
BY DEF Ready

LEMMA StepInv == Inv /\ [Next]_vars => Inv'
<1> SUFFICES ASSUME TypeOK, OrderInv, [Next]_vars PROVE TypeOK' /\ OrderInv'
  BY DEF Inv
<1> USE ChainAssumption
<1>0. /\ DOMAIN Chain = 1 .. 3 /\ Len(Chain) = 3
      /\ Jobs = (1 .. 3) \X (1 .. MaxDay)
  BY ThreeLinks, JobShape
\* Most steps leave the queue's side alone.
<1>1. ASSUME UNCHANGED <<queue, busy, done, status, waits>>,
             TalkTypeOK', day' \in 0 .. MaxDay, up' \in BOOLEAN, again' \in BOOLEAN,
             thread' \in {Asleep} \cup DOMAIN Chain, hung' \in 0 .. JobTimeout,
             thread' > Asleep => day' > 0
      PROVE  TypeOK' /\ OrderInv'
  BY <1>1 DEF TypeOK, OrderInv, Ready
<1>2. ASSUME UNCHANGED <<stored, talk>> PROVE TalkTypeOK'
  BY <1>2 DEF TypeOK, TalkTypeOK, talk, Talking, Rows
<1>3. CASE HourComes
  BY <1>0, <1>1, <1>2, <1>3 DEF HourComes, TypeOK, OrderInv, Asleep
<1>4. CASE RingsAgain
  BY <1>0, <1>1, <1>2, <1>4 DEF RingsAgain, TypeOK, OrderInv, Asleep
<1>5. CASE EnqueueFails
  BY <1>0, <1>1, <1>2, <1>5 DEF EnqueueFails, TypeOK, OrderInv, Asleep
<1>6. CASE Restart
  BY <1>0, <1>1, <1>2, <1>6 DEF Restart, TypeOK, OrderInv
<1>7. CASE Talk \/ RequestHangs
  <2>1. ASSUME TalkTypeOK', hung' \in 0 .. JobTimeout,
               UNCHANGED <<day, up, thread, again, status, waits, queue, busy, done, stored>>
        PROVE  TypeOK' /\ OrderInv'
    BY <1>1, <2>1 DEF TypeOK, OrderInv
  <2>2. CASE Converse(Skip, 0)
    BY <2>1, <2>2, TalkKeepsType DEF Converse, TypeOK
  <2>3. ASSUME NEW a \in Answers, Converse(Answer(a), 0) PROVE TypeOK' /\ OrderInv'
    BY <2>1, <2>3, TalkKeepsType DEF Converse, TypeOK
  <2>4. CASE Converse(RequestFails, 0)
    BY <2>1, <2>4, TalkKeepsType DEF Converse, TypeOK
  <2>5. CASE Converse(RequestFails, 1)
    BY <2>1, <2>5, TalkKeepsType DEF Converse, TypeOK
  <2> QED
    BY <1>7, <2>2, <2>3, <2>4, <2>5 DEF Talk, RequestHangs
\* A ready job is appended only behind its finished predecessor.
<1>8. CASE Enqueue
  <2> DEFINE job == <<thread, day>>
             ready == thread > 1 => status[<<thread - 1, day>>] = "finished"
  <2>1. job \in Jobs /\ thread \in 1 .. 3 /\ day \in 1 .. MaxDay
    BY <1>0, <1>8 DEF Enqueue, TypeOK, OrderInv, Asleep
  <2>2. /\ status' = [status EXCEPT ![job] = IF ready THEN "queued" ELSE "deferred"]
        /\ queue' = IF ready THEN Append(queue, job) ELSE queue
        /\ waits' = IF ready THEN waits ELSE waits \cup {job}
        /\ UNCHANGED <<day, up, again, busy, hung, done, stored, talk>>
    BY <1>8 DEF Enqueue
  <2>3. ASSUME ready PROVE Ready(job, done)
    <3>1. CASE thread = 1
      BY <2>1, <3>1 DEF Ready
    <3>2. CASE thread > 1
      <4>1. <<thread - 1, day>> \in done
        BY <1>0, <2>1, <2>3, <3>2 DEF OrderInv
      <4>2. \A k \in 1 .. thread - 2 : <<k, day>> \in done
        BY <2>1, <4>1 DEF OrderInv, Ready
      <4> QED
        BY <2>1, <4>1, <4>2 DEF Ready
    <3> QED
      BY <2>1, <3>1, <3>2
  <2>4. thread' \in {Asleep} \cup DOMAIN Chain
    BY <1>0, <1>8, <2>1 DEF Enqueue, NextLink, Asleep
  <2>5. TypeOK'
    BY <1>2, <2>1, <2>2, <2>4, QueueSteps DEF TypeOK
  <2>6. \A n \in 1 .. Len(queue') : Ready(queue'[n], done)
    BY <2>1, <2>2, <2>3, QueueSteps DEF OrderInv, TypeOK
  <2>7. \A j \in Jobs : status'[j] = "finished" => j \in done'
    BY <2>1, <2>2 DEF OrderInv, TypeOK
  <2>8. day' > 0 /\ busy' = busy /\ done' = done
    BY <2>1, <2>2
  <2> QED
    BY <2>5, <2>6, <2>7, <2>8 DEF OrderInv
<1>9. CASE Start
  <2>1. /\ queue # <<>> /\ busy' = Head(queue) /\ queue' = Tail(queue)
        /\ status' = [status EXCEPT ![Head(queue)] = "started"]
        /\ UNCHANGED <<day, up, thread, again, waits, hung, done, stored, talk>>
    BY <1>9 DEF Start
  <2>2. Len(queue) \in Nat \ {0} /\ queue \in Seq(Jobs)
    BY <2>1 DEF TypeOK
  <2>3. /\ busy' \in Jobs /\ busy' = queue[1] /\ queue' \in Seq(Jobs)
        /\ Len(queue') = Len(queue) - 1
        /\ \A n \in 1 .. Len(queue') : queue'[n] = queue[n + 1]
    <3>1. busy' \in Jobs /\ busy' = queue[1]
      BY <2>1, <2>2
    <3>2. queue' \in Seq(Jobs) /\ Len(queue') = Len(queue) - 1
      BY <2>1, <2>2
    <3>3. \A n \in 1 .. Len(queue') : queue'[n] = queue[n + 1]
      BY <2>1, <2>2, <3>2
    <3> QED
      BY <3>1, <3>2, <3>3
  <2>4. TypeOK'
    BY <1>2, <2>1, <2>3 DEF TypeOK
  <2>5. Ready(busy', done) /\ \A n \in 1 .. Len(queue') : Ready(queue'[n], done)
    BY <2>2, <2>3 DEF OrderInv
  <2>6. \A j \in Jobs : status'[j] = "finished" => j \in done'
    BY <2>1, <2>3 DEF OrderInv, TypeOK
  <2> QED
    BY <2>1, <2>4, <2>5, <2>6 DEF OrderInv
\* The dependent of a job that finishes is ready: the job itself was.
<1>10. CASE Finish
  <2> DEFINE next == <<busy[1] + 1, busy[2]>>
             released == {next} \cap waits
  <2>1. /\ busy \in Jobs
        /\ status' = [j \in Jobs |-> IF j = busy THEN "finished"
                                     ELSE IF j \in released THEN "queued" ELSE status[j]]
        /\ queue' = IF released = {} THEN queue ELSE Append(queue, next)
        /\ waits' = waits \ released
        /\ done' = done \cup {busy} /\ stored' = stored \cup drafts
        /\ busy' = None /\ hung' = 0 /\ EndOfTalk
        /\ UNCHANGED <<day, up, thread, again>>
    BY <1>10 DEF Finish, TypeOK
  <2>2. TalkTypeOK'
    BY <2>1, EndKeepsType DEF TypeOK, TalkTypeOK
  <2>3. \A j : Ready(j, done) => Ready(j, done')
    BY <2>1, ReadyStays
  <2>4. Ready(busy, done) /\ busy[1] \in 1 .. 3
    BY <1>0, <2>1 DEF OrderInv, None
  <2>5. Ready(next, done')
    <3>1. \A k \in 1 .. busy[1] : <<k, busy[2]>> \in done'
      <4> TAKE k \in 1 .. busy[1]
      <4>1. CASE k = busy[1]
        <5>1. <<k, busy[2]>> = busy
          BY <1>0, <2>1, <4>1
        <5> QED
          BY <2>1, <5>1
      <4>2. CASE k # busy[1]
        BY <2>1, <2>4, <4>2 DEF Ready
      <4> QED
        BY <4>1, <4>2
    <3>2. \A k \in 1 .. (busy[1] + 1) - 1 : <<k, busy[2]>> \in done'
      BY <2>4, <3>1
    <3>3. next[1] = busy[1] + 1 /\ next[2] = busy[2]
      OBVIOUS
    <3> QED
      BY <3>2, <3>3 DEF Ready
  <2>6. released # {} => next \in Jobs
    BY DEF TypeOK
  <2>7. TypeOK'
    BY <2>1, <2>2, <2>6, QueueSteps DEF TypeOK
  <2>8. \A n \in 1 .. Len(queue') : Ready(queue'[n], done')
    <3>1. \A n \in 1 .. Len(queue) : Ready(queue[n], done')
      BY <2>3 DEF OrderInv
    <3>2. CASE released = {}
      BY <2>1, <3>1, <3>2
    <3>3. CASE released # {}
      <4>1. next \in Jobs /\ queue \in Seq(Jobs) /\ queue' = Append(queue, next)
        BY <2>1, <2>6, <3>3 DEF TypeOK
      <4> HIDE DEF next
      <4> QED
        BY <2>5, <3>1, <4>1, QueueSteps
    <3> QED
      BY <3>2, <3>3
  <2>9. \A j \in Jobs : status'[j] = "finished" => j \in done'
    BY <2>1 DEF OrderInv, TypeOK
  <2>10. \A j \in done' : Ready(j, done')
    BY <2>1, <2>3, <2>4 DEF OrderInv
  <2> QED
    BY <2>1, <2>7, <2>8, <2>9, <2>10 DEF OrderInv
<1>11. CASE JobFails \/ TimedOut
  <2>1. /\ busy \in Jobs /\ status' = [status EXCEPT ![busy] = "failed"]
        /\ busy' = None /\ hung' = 0 /\ EndOfTalk
        /\ UNCHANGED <<day, up, thread, again, waits, queue, done, stored>>
    BY <1>11 DEF JobFails, TimedOut, Proposing, Fail, TypeOK
  <2>2. TalkTypeOK'
    BY <2>1, EndKeepsType DEF TypeOK, TalkTypeOK
  <2>3. TypeOK'
    BY <2>1, <2>2 DEF TypeOK
  <2>4. \A j \in Jobs : status'[j] = "finished" => j \in done'
    BY <2>1 DEF OrderInv, TypeOK
  <2> QED
    BY <2>1, <2>3, <2>4 DEF OrderInv
<1>12. CASE Crash
  <2>1. /\ up' = FALSE /\ thread' = Asleep /\ busy' = None /\ hung' = 0 /\ EndOfTalk
        /\ UNCHANGED <<day, again, status, waits, queue, done, stored>>
    BY <1>12 DEF Crash
  <2>2. TalkTypeOK'
    BY <2>1, EndKeepsType DEF TypeOK, TalkTypeOK
  <2>3. hung' \in 0 .. JobTimeout /\ thread' \in {Asleep} \cup DOMAIN Chain
    BY <2>1
  <2>4. up' \in BOOLEAN
    BY <2>1, Zenon
  <2>5. TypeOK'
    BY <2>1, <2>2, <2>3, <2>4 DEF TypeOK
  <2> QED
    BY <2>1, <2>5 DEF OrderInv, Asleep
<1>13. CASE UNCHANGED vars
  BY <1>2, <1>13 DEF vars, chainvars, TypeOK, OrderInv, Ready
<1> QED
  BY <1>3, <1>4, <1>5, <1>6, <1>7, <1>8, <1>9, <1>10, <1>11, <1>12, <1>13 DEF Next

------------------------------------------------------------------------------
\* Types: attempts and hosts stay in range, the queue holds jobs, and the talk is
\* about a group that exists (chat_json, _process_groups, enqueue_nightly_chain).
THEOREM TypeCorrect == Spec => []TypeOK
<1>1. Inv => TypeOK
  BY DEF Inv
<1> QED
  BY InitInv, StepInv, <1>1, PTL DEF Spec

\* For any number of nights, double enqueues, failures and crashes, a job starts
\* only after those it depends on have finished for its date (depends_on).
THEOREM JobsInOrderProved == Spec => []JobsInOrder
<1>1. Inv => JobsInOrder
  BY DEF Inv, OrderInv, Ready, JobsInOrder
<1> QED
  BY InitInv, StepInv, <1>1, PTL DEF Spec

------------------------------------------------------------------------------
\* What is drafted was accepted by validate_proposal.
Accepted(rows) == \A r \in rows : Valid(Groups[r.group], r.automation)

\* Drafts are of groups that the talk has left behind, and that had no proposal when
\* they were asked about; the table does not change while the talk goes on.
DraftInv ==
    /\ \A r \in drafts : r.group < turn /\ ~Existing(r.group)
    /\ \A r, s \in drafts : r.group = s.group => r = s
    /\ \A r, s \in stored : r.group = s.group => r = s
    /\ Accepted(drafts) /\ Accepted(stored)

LEMMA TalkKeepsDrafts ==
    ASSUME TalkTypeOK, DraftInv, UNCHANGED stored,
           \/ Skip
           \/ \E a \in Answers : Answer(a)
           \/ RequestFails
    PROVE  DraftInv'
<1> USE GroupCount DEF TalkTypeOK, Talking
<1>1. \A n : Existing(n)' <=> Existing(n)
  BY DEF Existing
<1>2. turn \in Int
  OBVIOUS
<1>3. ASSUME UNCHANGED drafts, turn' = turn \/ turn' = turn + 1 PROVE DraftInv'
  <2>1. \A r \in drafts : r.group \in Int
    BY DEF Rows
  <2> QED
    BY <1>1, <1>2, <1>3, <2>1 DEF DraftInv, Accepted
<1>4. CASE Skip
  BY <1>3, <1>4 DEF Skip, NextGroup, Ask
<1>5. ASSUME NEW a \in Answers, Answer(a) PROVE DraftInv'
  <2> DEFINE new == [group |-> turn, automation |-> a.automation]
  <2>1. CASE UNCHANGED drafts
    BY <1>3, <1>5, <2>1 DEF Answer, NextGroup, Ask
  <2>2. CASE Acceptable(Groups[turn], a) /\ Draft(a) /\ NextGroup
    <3>1. drafts' = drafts \cup {new} /\ turn' = turn + 1 /\ ~Existing(turn)
      BY <1>5, <2>2 DEF Draft, NextGroup, Ask, Answer
    <3>2. new.group = turn /\ Valid(Groups[new.group], new.automation)
      BY <2>2 DEF Acceptable
    <3>3. \A r \in drafts : r.group \in Int /\ r.group < turn
      BY DEF Rows, DraftInv
    <3> HIDE DEF new
    <3>4. \A r \in drafts' : r.group < turn' /\ ~Existing(r.group)'
      BY <1>1, <1>2, <3>1, <3>2, <3>3 DEF DraftInv
    <3>5. \A r, s \in drafts' : r.group = s.group => r = s
      BY <1>2, <3>1, <3>2, <3>3 DEF DraftInv
    <3>6. Accepted(drafts)'
      BY <3>1, <3>2 DEF DraftInv, Accepted
    <3> QED
      BY <3>4, <3>5, <3>6 DEF DraftInv, Accepted
  <2> QED
    BY <1>5, <2>1, <2>2 DEF Answer
<1>6. CASE RequestFails
  BY <1>3, <1>6 DEF RequestFails, NextGroup, Ask
<1> QED
  BY <1>4, <1>5, <1>6

LEMMA StepDrafts == TypeOK /\ DraftInv /\ [Next]_vars => DraftInv'
<1> SUFFICES ASSUME TypeOK, DraftInv, [Next]_vars PROVE DraftInv'
  OBVIOUS
<1>1. ASSUME UNCHANGED <<stored, talk>> PROVE DraftInv'
  BY <1>1 DEF DraftInv, Accepted, Existing, talk
<1>2. ASSUME drafts' = {}, stored' = stored PROVE DraftInv'
  BY <1>2 DEF DraftInv, Accepted
<1>3. CASE Talk \/ RequestHangs
  BY <1>3, TalkKeepsDrafts DEF Talk, RequestHangs, Converse, TypeOK
\* The drafts join the table at once, and none is of a group in it.
<1>4. CASE Finish
  <2>1. drafts' = {} /\ stored' = stored \cup drafts
    BY <1>4 DEF Finish, EndOfTalk
  <2>2. \A r \in drafts, s \in stored : r.group # s.group
    BY DEF DraftInv, Existing
  <2>3. \A r, s \in stored' : r.group = s.group => r = s
    BY <2>1, <2>2 DEF DraftInv
  <2> QED
    BY <2>1, <2>3 DEF DraftInv, Accepted
<1>5. CASE JobFails \/ TimedOut \/ Crash
  BY <1>2, <1>5 DEF JobFails, TimedOut, Fail, Crash, EndOfTalk
<1> QED
  BY <1>1, <1>3, <1>4, <1>5
  DEF Next, vars, HourComes, RingsAgain, Enqueue, EnqueueFails, Start, Restart

\* The inductive invariant of the drafts; in particular, whatever the model answers,
\* first or on the retry, however often the job is repeated, cut short or run beside a
\* doubled chain: an automation that validate_proposal refuses is never stored.
THEOREM OnlyAcceptedStored == Spec => []DraftInv
<1>1. Init => DraftInv
  BY DEF Init, StartOfTalk, DraftInv, Accepted
<1> QED
  BY <1>1, StepDrafts, TypeCorrect, PTL DEF Spec

\* A date that is rung twice, and chains taken up after failures, never draft a
\* second proposal for a group (`existing` of run_proposing).
THEOREM NothingDraftedTwiceProved == Spec => []NothingDraftedTwice
<1>1. DraftInv => NothingDraftedTwice
  BY DEF DraftInv, NothingDraftedTwice, Existing
<1> QED
  BY <1>1, OnlyAcceptedStored, PTL

------------------------------------------------------------------------------
\* Times a circular distance apart are as far apart on two days, the one at most
\* two days from the other.
LEMMA DistanceOnDays ==
    ASSUME NEW a \in 1 - DayLen .. 2 * DayLen - 2, NEW b \in 0 .. DayLen - 1,
           Distance(a, b) <= Grace
    PROVE  \E d \in -2 .. 2 : a + d * DayLen \in b - Grace .. b + Grace
<1>1. DayLen \in Nat \ {0} /\ Grace \in Nat
  BY ConversationAssumption
<1> DEFINE r == (a - b) % DayLen
           q == (a - b) \div DayLen
<1>2. /\ a \in Int /\ b \in Int /\ 0 - 2 * DayLen < a - b /\ a - b < 2 * DayLen
  BY <1>1
<1>3. q \in Int /\ r \in 0 .. DayLen - 1 /\ a - b = DayLen * q + r
  BY <1>1, <1>2
<1>4. Distance(a, b) = IF 2 * r > DayLen THEN DayLen - r ELSE r
  BY DEF Distance
<1> HIDE DEF q, r
<1>5. q \in -2 .. 1
  <2>1. q >= 2 => DayLen * q >= 2 * DayLen
    BY <1>1, <1>3
  <2>2. q <= -3 => DayLen * q <= 0 - 3 * DayLen
    BY <1>1, <1>3
  <2> DEFINE p == DayLen * q
  <2>3. p \in Int
    BY <1>1, <1>3
  <2> HIDE DEF p
  <2>4. ~(p >= 2 * DayLen) /\ ~(p <= 0 - 3 * DayLen)
    BY <1>1, <1>2, <1>3, <2>3 DEF p
  <2> QED
    BY <1>3, <2>1, <2>2, <2>4 DEF p
<1>6. q \in {-2, -1, 0, 1}
  BY <1>5
<1>7. CASE 2 * r > DayLen
  <2>1. \A n \in {-2, -1, 0, 1} :
          q = n => a + (-1 - n) * DayLen \in b - Grace .. b + Grace
    BY <1>1, <1>2, <1>3, <1>4, <1>7
  <2> QED
    BY <1>6, <2>1
<1>8. CASE ~(2 * r > DayLen)
  <2>1. \A n \in {-2, -1, 0, 1} :
          q = n => a + (-n) * DayLen \in b - Grace .. b + Grace
    BY <1>1, <1>2, <1>3, <1>4, <1>8
  <2> QED
    BY <1>6, <2>1
<1> QED
  BY <1>7, <1>8

\* What validate_proposal lets through fits the group, unless it could not compare
\* the times.
Fits(g, auto) ==
    LET t == auto.trigger
        minute == IF t.platform = "time" THEN t.at ELSE SunAt[t.event] + t.offset
    IN  /\ \A c \in auto.calls : \A e \in c.targets :
               e \in g.members \cup g.trigger /\ Domain[e] = c.domain
        /\ IF g.kind = "event_pair"
           THEN t.platform = "state" /\ {t.entity} = g.trigger /\ t.to = g.state
           ELSE t.platform # "state" /\ \E d \in -2 .. 2 :
                    minute + d * DayLen \in g.mean - Grace .. g.mean + Grace

LEMMA ValidFits ==
    ASSUME DOMAIN SunAt # {} \/ ~Located, NEW n \in DOMAIN Groups, NEW a \in Answers,
           Valid(Groups[n], a.automation)
    PROVE  Fits(Groups[n], a.automation)
<1> DEFINE g == Groups[n]
           auto == a.automation
           t == auto.trigger
           minute == IF t.platform = "time" THEN t.at ELSE SunAt[t.event] + t.offset
<1>1. /\ IsGroup(g) /\ IsAnswer(a) /\ SunTimes /\ DayLen \in Nat \ {0} /\ Grace \in Nat
  BY ConversationAssumption
<1>2. /\ ~auto.junk /\ EntitiesKnown(g, auto) /\ ServicesMatch(auto) /\ TriggerMatches(g, t)
  BY DEF Valid, Shaped
<1> HIDE DEF g, auto, t
<1>3. ASSUME NEW c \in auto.calls, NEW e \in c.targets
      PROVE  e \in g.members \cup g.trigger /\ Domain[e] = c.domain
  <2>1. e \in Referenced(auto)
    BY DEF Referenced
  <2>2. e \in g.members \cup g.trigger /\ e \in DOMAIN Domain
    BY <1>2, <2>1 DEF EntitiesKnown
  <2> QED
    BY <1>2, <2>2 DEF ServicesMatch
<1>4. ASSUME g.kind = "event_pair"
      PROVE  t.platform = "state" /\ {t.entity} = g.trigger /\ t.to = g.state
  BY <1>1, <1>2, <1>4 DEF TriggerMatches, IsGroup
<1>5. ASSUME g.kind # "event_pair"
      PROVE  t.platform # "state" /\ \E d \in -2 .. 2 :
               minute + d * DayLen \in g.mean - Grace .. g.mean + Grace
  <2>1. g.kind = "time_of_day" /\ g.mean \in 0 .. DayLen - 1
    BY <1>1, <1>5 DEF IsGroup
  <2>2. IsTrigger(t)
    BY <1>1, <1>2 DEF IsAnswer, auto, t
  <2>3. CASE t.platform = "time"
    <3>1. t.at \in 0 .. DayLen - 1 /\ minute = t.at /\ Distance(minute, g.mean) <= Grace
      BY <1>2, <2>1, <2>2, <2>3 DEF IsTrigger, TriggerMatches
    <3> HIDE DEF minute
    <3>2. minute \in 1 - DayLen .. 2 * DayLen - 2
      BY <1>1, <3>1
    <3> QED
      BY <2>1, <2>3, <3>1, <3>2, DistanceOnDays
  <2>4. CASE t.platform # "time"
    <3>1. /\ t.platform = "sun" /\ Located /\ t.event \in {"sunrise", "sunset"}
          /\ t.offset \in 1 - DayLen .. DayLen - 1
      BY <1>2, <2>1, <2>2, <2>4 DEF IsTrigger, TriggerMatches
    <3>2. t.event \in DOMAIN SunAt
      BY <1>1, <3>1 DEF SunTimes
    <3>3. SunAt[t.event] \in 0 .. DayLen - 1
      BY <1>1, <3>2 DEF SunTimes
    <3>4. minute = SunAt[t.event] + t.offset
      BY <2>4
    <3>5. Distance(minute, g.mean) <= Grace
      BY <1>2, <2>1, <2>4, <3>2, <3>4 DEF TriggerMatches
    <3> HIDE DEF minute
    <3>6. minute \in 1 - DayLen .. 2 * DayLen - 2
      BY <1>1, <3>1, <3>3, <3>4
    <3> QED
      BY <2>1, <3>1, <3>5, <3>6, DistanceOnDays
  <2> QED
    BY <2>3, <2>4
<1> QED
  BY <1>3, <1>4, <1>5 DEF Fits, g, auto, t

\* Whatever the model answers, a draft is about its own habit and fires when the
\* habit happens, for any groups, registry and grace.  Where the sun neither rises
\* nor sets a sun trigger is compared with nothing: hence the hypothesis.
THEOREM DraftsFitTheirHabitProved ==
    ASSUME DOMAIN SunAt # {} \/ ~Located PROVE Spec => []DraftsFitTheirHabit
<1>1. TypeOK /\ DraftInv => DraftsFitTheirHabit
  <2> SUFFICES ASSUME TypeOK, DraftInv, NEW row \in drafts \cup stored
               PROVE  Fits(Groups[row.group], row.automation)
    BY DEF DraftsFitTheirHabit, Fits
  <2>1. row \in Rows /\ Valid(Groups[row.group], row.automation)
    BY DEF TypeOK, TalkTypeOK, DraftInv, Accepted
  <2>2. row.group \in DOMAIN Groups /\ \E a \in Answers : row.automation = a.automation
    BY <2>1 DEF Rows
  <2> QED
    BY <2>1, <2>2, ValidFits
<1> QED
  BY <1>1, OnlyAcceptedStored, TypeCorrect, PTL
==============================================================================
