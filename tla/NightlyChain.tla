----------------------------- MODULE NightlyChain -----------------------------
(***************************************************************************)
(* The nightly chain mine -> propose -> shadow: the scheduler thread that  *)
(* enqueues it at HH:00, RQ's queue and deferred jobs, and the one worker  *)
(* process that both live in.  The propose job holds a Conversation and    *)
(* stores its drafts at the end.                                           *)
(*                                                                         *)
(* A day starts at HH:00.  RQ (external) keeps its jobs in Redis, where    *)
(* they outlive the worker.  Enqueuing a job id again rewrites its status  *)
(* and queues it once more.                                                *)
(***************************************************************************)
EXTENDS Conversation

CONSTANTS
    JobTimeout,  \* job_timeout of the propose job, in requests that hang
    QuietFrom,   \* bound: faults happen before this day only
    MaxDay       \* bound: the last day

ASSUME ChainAssumption ==
    /\ JobTimeout \in Nat \ {0}
    /\ {QuietFrom, MaxDay} \subseteq Nat

VARIABLES
    day,
    up,      \* the worker process runs
    thread,  \* the scheduler: Asleep, or the index of the job it enqueues next
    again,   \* bound: one date has been rung twice
    status,  \* the status in each job's hash
    waits,   \* the deferred jobs that RQ keeps as dependents
    queue,   \* the queue of jobs
    busy,    \* the job the worker performs
    hung,    \* the requests of that job that have hung
    done     \* the jobs that have finished at least once (auxiliary)

chainvars == <<day, up, thread, again, status, waits, queue, busy, hung, done>>
vars == <<chainvars, stored, talk>>

Chain == <<"mine", "propose", "shadow">>
Jobs == (DOMAIN Chain) \X (1 .. MaxDay)  \* the job ids: a kind and a date
Asleep == 0
Gone == 0 - 1                          \* the thread has ended (never)
None == <<0, 0>>

Proposing == busy # None /\ Chain[busy[1]] = "propose"
Faulty == day < QuietFrom

Init ==
    /\ stored = {} /\ StartOfTalk
    /\ day = 0 /\ up = TRUE /\ thread = Asleep /\ again = FALSE
    /\ status = [j \in Jobs |-> "none"] /\ waits = {} /\ queue = <<>>
    /\ busy = None /\ hung = 0 /\ done = {}

------------------------------------------------------------------------------
\* The scheduler thread.  Nobody rings for a process that is down.

HourComes ==
    /\ day < MaxDay /\ thread <= Asleep
    /\ day' = day + 1
    /\ thread' = IF up /\ thread = Asleep THEN 1 ELSE thread
    /\ UNCHANGED <<up, again, status, waits, queue, busy, hung, done, stored, talk>>

\* The wait ended early, so that HH:00 came after it; or the thread of a second
\* worker rings, during a deploy.
RingsAgain ==
    /\ up /\ Faulty /\ day > 0 /\ thread = Asleep /\ ~again
    /\ again' = TRUE /\ thread' = 1
    /\ UNCHANGED <<day, up, status, waits, queue, busy, hung, done, stored, talk>>

NextLink == thread' = IF thread = Len(Chain) THEN Asleep ELSE thread + 1

Enqueue_NoDependency ==  \* Mutant: no depends_on.
    /\ up /\ thread > Asleep
    /\ status' = [status EXCEPT ![<<thread, day>>] = "queued"]
    /\ queue' = Append(queue, <<thread, day>>)
    /\ NextLink
    /\ UNCHANGED <<day, up, again, waits, busy, hung, done, stored, talk>>

\* depends_on: deferred, unless the previous job's status is "finished".
Enqueue ==
    /\ up /\ thread > Asleep
    /\ LET ready == thread > 1 => status[<<thread - 1, day>>] = "finished"
           job == <<thread, day>>
       IN  /\ status' = [status EXCEPT ![job] = IF ready THEN "queued" ELSE "deferred"]
           /\ queue' = IF ready THEN Append(queue, job) ELSE queue
           /\ waits' = IF ready THEN waits ELSE waits \cup {job}
    /\ NextLink
    /\ UNCHANGED <<day, up, again, busy, hung, done, stored, talk>>

EnqueueFails_Ends ==  \* Mutant: no try in run_daily.
    /\ up /\ thread > Asleep /\ Faulty
    /\ thread' = Gone
    /\ UNCHANGED <<day, up, again, status, waits, queue, busy, hung, done, stored, talk>>

\* Redis is down: run_daily logs, and sleeps until tomorrow's hour.
EnqueueFails ==
    /\ up /\ thread > Asleep /\ Faulty
    /\ thread' = Asleep
    /\ UNCHANGED <<day, up, again, status, waits, queue, busy, hung, done, stored, talk>>

------------------------------------------------------------------------------
\* The worker.

Start ==
    /\ up /\ busy = None /\ queue # <<>>
    /\ busy' = Head(queue) /\ queue' = Tail(queue)
    /\ status' = [status EXCEPT ![Head(queue)] = "started"]
    /\ UNCHANGED <<day, up, thread, again, waits, hung, done, stored, talk>>

\* Success enqueues the deferred dependent.
Finish ==
    /\ busy # None /\ (Proposing => ~Talking)
    /\ LET next == <<busy[1] + 1, busy[2]>>
           released == {next} \cap waits
       IN  /\ status' = [j \in Jobs |-> IF j = busy THEN "finished"
                                        ELSE IF j \in released THEN "queued" ELSE status[j]]
           /\ queue' = IF released = {} THEN queue ELSE Append(queue, next)
           /\ waits' = waits \ released
    /\ done' = done \cup {busy}
    /\ stored' = stored \cup drafts
    /\ busy' = None /\ hung' = 0 /\ EndOfTalk
    /\ UNCHANGED <<day, up, thread, again>>

\* The job's transaction is rolled back; its dependents stay deferred.
Fail ==
    /\ status' = [status EXCEPT ![busy] = "failed"]
    /\ busy' = None /\ hung' = 0 /\ EndOfTalk
    /\ UNCHANGED <<day, up, thread, again, waits, queue, done, stored>>

\* The database, a job_timeout of the other jobs, or an exception of the HTTP
\* client that chat_json does not catch (IncompleteRead).
JobFails == busy # None /\ Faulty /\ Fail

TimedOut == Proposing /\ hung = JobTimeout /\ Fail

Converse(step, cost) ==
    /\ Proposing /\ hung + cost <= JobTimeout /\ hung < JobTimeout
    /\ step
    /\ hung' = hung + cost
    /\ UNCHANGED <<day, up, thread, again, status, waits, queue, busy, done, stored>>

Talk ==
    \/ Converse(Skip, 0)
    \/ \E a \in Answers : Converse(Answer(a), 0)
    \/ Converse(RequestFails, 0)

RequestHangs == Faulty /\ Converse(RequestFails, 1)

\* The process dies with its thread and its job, which nobody takes up again.
Crash ==
    /\ up /\ Faulty
    /\ up' = FALSE /\ thread' = Asleep
    /\ busy' = None /\ hung' = 0 /\ EndOfTalk
    /\ UNCHANGED <<day, again, status, waits, queue, done, stored>>

Restart ==
    /\ ~up
    /\ up' = TRUE
    /\ UNCHANGED <<day, thread, again, status, waits, queue, busy, hung, done, stored, talk>>

Next ==
    \/ HourComes \/ RingsAgain \/ Enqueue \/ EnqueueFails
    \/ Start \/ Finish \/ JobFails \/ TimedOut \/ Talk \/ RequestHangs
    \/ Crash \/ Restart

Fairness ==
    /\ WF_vars(HourComes) /\ WF_vars(Enqueue) /\ WF_vars(Restart)
    /\ WF_vars(Start) /\ WF_vars(Finish) /\ WF_vars(TimedOut) /\ WF_vars(Talk)

Spec == Init /\ [][Next]_vars /\ Fairness

------------------------------------------------------------------------------
\* Every variable has its type; in particular no attempt or host is out of range
\* (ATTEMPTS_PER_HOST and the two targets of chat_json).
TypeOK ==
    /\ TalkTypeOK
    /\ day \in 0 .. MaxDay /\ up \in BOOLEAN /\ again \in BOOLEAN
    /\ thread \in {Asleep} \cup DOMAIN Chain
    /\ status \in [Jobs -> {"none", "queued", "deferred", "started", "finished", "failed"}]
    /\ waits \subseteq Jobs /\ done \subseteq Jobs
    /\ queue \in Seq(Jobs) /\ busy \in Jobs \cup {None}
    /\ hung \in 0 .. JobTimeout

\* Whatever the model answers, in either chat, and however often the job runs: a
\* draft names entities of its own habit only, calls each by its domain, and fires
\* when the habit happens - on the trigger's state, or within Grace minutes of the
\* mean, counted along the days (validate_proposal, and the retry around it).
DraftsFitTheirHabit ==
    \A row \in drafts \cup stored :
        LET g == Groups[row.group]
            t == row.automation.trigger
            minute == IF t.platform = "time" THEN t.at ELSE SunAt[t.event] + t.offset
        IN  /\ \A c \in row.automation.calls : \A e \in c.targets :
                   e \in g.members \cup g.trigger /\ Domain[e] = c.domain
            /\ IF g.kind = "event_pair"
               THEN t.platform = "state" /\ {t.entity} = g.trigger /\ t.to = g.state
               ELSE t.platform # "state" /\ \E d \in -2 .. 2 :
                        minute + d * DayLen \in g.mean - Grace .. g.mean + Grace

\* A chain that is enqueued twice, repeated or taken up after failures never drafts
\* a second proposal for a group: a run sees what earlier runs have stored
\* (`existing` of run_proposing; "harmless" in scheduler.py).
NothingDraftedTwice ==
    \A r, s \in drafts \cup stored : r.group = s.group => r = s

\* No job starts before the jobs it depends on have finished for that date, in
\* spite of double enqueues, failures and crashes (depends_on).
JobsInOrder ==
    busy # None => \A k \in 1 .. busy[1] - 1 : <<k, busy[2]>> \in done

\* Whatever went wrong before - a lost connection to Redis, killed jobs, a hanging
\* model, a dead worker -, each night after a quiet day is completed, and nothing
\* stands in its way (run_daily's try; one failed night does not hold up the next).
QuietNightsComplete ==
    \A d \in QuietFrom + 1 .. MaxDay : day = d - 1 /\ up ~> <<3, d>> \in done
==============================================================================
