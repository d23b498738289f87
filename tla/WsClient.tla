------------------------------- MODULE WsClient -------------------------------
(***************************************************************************)
(* HAWebSocketClient (src/pae/ha/client.py): the supervisor run(), the     *)
(* command/answer matching, and its heaviest user, IngestService's         *)
(* _registry_loop, which issues Commands commands one after the other.     *)
(*                                                                         *)
(* An action is what one task does between two awaits.  Home Assistant and *)
(* the network are external: a connection can be refused or drop at any    *)
(* time, a command on a live connection is answered at any later time,     *)
(* in any order, or never, and a dropped connection takes the unanswered   *)
(* commands with it.                                                       *)
(***************************************************************************)
EXTENDS Integers

CONSTANTS
    NSubs,     \* the registered subscriptions are 1..NSubs, in order
    Commands,  \* commands of one registry refresh
    MaxId,     \* bound: message ids used in a behaviour
    Overflow   \* the attempt at which base * 2**attempt leaves the floats: 1024

ASSUME WsAssumption ==
    /\ NSubs \in Nat \ {0}
    /\ Commands \in Nat \ {0}
    /\ MaxId \in Nat
    /\ Overflow \in Nat \ {0}

Subs == 1..NSubs
Ids == 1..MaxId
Ended == {"stopped", "rejected", "crashed"}

VARIABLES
    phase,     \* where run() is suspended, or how it ended
    stopping,  \* _stopping
    attempt,   \* backoff exponent
    survived,  \* the connection is 30 s old
    open,      \* _ws is an open connection
    connected, \* _connected_event
    nextId,    \* _id_counter
    pending,   \* _pending: the ids in it
    future,    \* each id's future
    active,    \* _active_subs: id -> subscription, as pairs
    done,      \* subscriptions _resubscribe has sent on this connection
    asked,     \* ids HA has been sent on this connection and has not answered
    serving,   \* subscriptions HA delivers on this connection
    caller,    \* the registry loop: idle, waiting, or woken by its future
    myId,      \* the id it waits for
    step       \* commands of this refresh answered so far

line    == <<phase, stopping, attempt, survived, open, connected>>
book    == <<nextId, pending, future, active, done>>
remote  == <<asked, serving>>
refresh == <<caller, myId, step>>
vars    == <<line, book, remote, refresh>>

\* The bound on ids stops new connections and refreshes, never a started one.
RoomForIds == nextId + NSubs + Commands <= MaxId + 1

Init ==
    /\ phase = "dial" /\ stopping = FALSE /\ attempt = 0 /\ survived = FALSE
    /\ open = FALSE /\ connected = FALSE
    /\ nextId = 1 /\ pending = {} /\ future = [i \in Ids |-> "none"]
    /\ active = {} /\ done = 0
    /\ asked = {} /\ serving = {}
    /\ caller = "idle" /\ myId = 0 /\ step = 0

------------------------------------------------------------------------------
Settle_Nothing(f) == f  \* Mutant: pending commands are left to their timeout.

\* Every command that is still pending fails.
Settle(f) ==
    [i \in Ids |-> IF i \in pending /\ f[i] = "waiting" THEN "error" ELSE f[i]]

Finally_StaysConnected ==  \* Mutant: _connected_event is not cleared.
    /\ UNCHANGED connected
    /\ open' = FALSE
    /\ survived' = FALSE
    /\ asked' = {}
    /\ serving' = {}
    /\ future' = Settle(future)
    /\ done' = 0

\* The finally clause of run(): disconnected, pending commands failed, closed.
Finally ==
    /\ connected' = FALSE
    /\ open' = FALSE
    /\ survived' = FALSE
    /\ asked' = {}
    /\ serving' = {}
    /\ future' = Settle(future)
    /\ done' = 0

\* next_delay raises OverflowError.
NoDelay(n) == n >= Overflow

\* The rest of the loop body: stop, or sleep for next_delay(attempt), which
\* cannot compute the delay of attempt Overflow.
LoopOn ==
    LET n == IF survived THEN 0 ELSE attempt
    IN  IF stopping THEN phase' = "stopped" /\ UNCHANGED attempt
        ELSE IF NoDelay(n) THEN phase' = "crashed" /\ UNCHANGED attempt
        ELSE phase' = "sleep" /\ attempt' = n + 1

\* A connection error in any phase of the try block.
Disconnected ==
    /\ Finally
    /\ LoopOn
    /\ UNCHANGED <<stopping, nextId, pending, active, refresh>>

\* An exception run() does not handle: the finally clause, then out.
Escapes(end) ==
    /\ Finally
    /\ phase' = end
    /\ UNCHANGED <<stopping, attempt, nextId, pending, active, refresh>>

------------------------------------------------------------------------------
\* _authenticate: ws_connect ...
Dial ==
    /\ phase = "dial"
    /\ caller # "woken"  \* it was ready before this connection could be made
    /\ RoomForIds
    /\ phase' = "handshake"
    /\ open' = TRUE
    /\ UNCHANGED <<stopping, attempt, survived, connected, book, remote, refresh>>

DialFails == phase = "dial" /\ Disconnected

\* ... then auth_required, auth, and HA's verdict.
AuthOk_SubscribeOnce ==  \* Mutant: no resubscription after a reconnect.
    /\ phase = "handshake" /\ open
    /\ phase' = IF active = {} THEN "subscribe" ELSE "listen"
    /\ connected' = TRUE
    /\ done' = IF active = {} THEN 0 ELSE NSubs
    /\ UNCHANGED <<stopping, attempt, survived, open, nextId, pending, future,
                   active, remote, refresh>>

AuthOk ==
    /\ phase = "handshake" /\ open
    /\ phase' = "subscribe"
    /\ connected' = TRUE
    /\ active' = {}
    /\ done' = 0
    /\ UNCHANGED <<stopping, attempt, survived, open, nextId, pending, future,
                   remote, refresh>>

AuthRejected  == phase = "handshake" /\ open /\ Escapes("rejected")
BadHandshake  == phase = "handshake" /\ open /\ Disconnected

\* receive_json meets a close frame: aiohttp raises a TypeError, which none of
\* run()'s except clauses names.
ClosedInHandshake == phase = "handshake" /\ ~open /\ Escapes("crashed")

\* _resubscribe: one frame per registered subscription.
Subscribe ==
    /\ phase = "subscribe" /\ open
    /\ nextId' = nextId + 1
    /\ pending' = pending \cup {nextId}
    /\ future' = [future EXCEPT ![nextId] = "waiting"]
    /\ active' = active \cup {<<nextId, done + 1>>}
    /\ done' = done + 1
    /\ asked' = asked \cup {nextId}
    /\ phase' = IF done + 1 = NSubs THEN "listen" ELSE "subscribe"
    /\ UNCHANGED <<stopping, attempt, survived, open, connected, serving, refresh>>

\* The connection is found closed while subscribing or listening.
LineLost == phase \in {"subscribe", "listen"} /\ ~open /\ Disconnected

\* _dispatch of a result: HA has accepted or refused what id asked for.
Result(id, ok) ==
    /\ phase = "listen" /\ open
    /\ id \in asked
    /\ asked' = asked \ {id}
    /\ future' = IF id \in pending /\ future[id] = "waiting"
                 THEN [future EXCEPT ![id] = IF ok THEN "result" ELSE "error"]
                 ELSE future
    /\ serving' = serving \cup {s \in Subs : ok /\ <<id, s>> \in active}
    /\ caller' = IF caller = "waiting" /\ myId = id THEN "woken" ELSE caller
    /\ UNCHANGED <<line, nextId, pending, active, done, myId, step>>

\* The sleep between attempts is over.
Awake ==
    /\ phase = "sleep"
    /\ phase' = IF stopping THEN "stopped" ELSE "dial"
    /\ UNCHANGED <<stopping, attempt, survived, open, connected, book, remote,
                   refresh>>

Run == Dial \/ DialFails \/ AuthOk \/ AuthRejected \/ BadHandshake
       \/ ClosedInHandshake \/ Subscribe \/ LineLost \/ Awake

------------------------------------------------------------------------------
\* _send_command's finally clause: the awaited id and its future are dropped.
Forget  == pending \ {myId}
Dropped == [i \in Ids |-> IF i = myId THEN "none" ELSE future[i]]

\* _send_command: a fresh id, its future, the frame, and the wait.  Without an
\* open connection the send raises and the finally clause forgets the id.
Send ==
    /\ nextId' = nextId + 1
    /\ IF open
       THEN /\ pending' = Forget \cup {nextId}
            /\ future' = [Dropped EXCEPT ![nextId] = "waiting"]
            /\ asked' = asked \cup {nextId}
            /\ caller' = "waiting" /\ myId' = nextId
       ELSE /\ pending' = Forget
            /\ future' = Dropped
            /\ caller' = "idle" /\ myId' = 0
            /\ UNCHANGED asked

GiveUp ==
    /\ pending' = Forget
    /\ future' = Dropped
    /\ caller' = "idle" /\ myId' = 0 /\ step' = 0

\* _registry_loop: wait_connected, then the first command.
StartRefresh ==
    /\ caller = "idle"
    /\ connected
    /\ RoomForIds
    /\ Send
    /\ step' = 0
    /\ UNCHANGED <<line, active, done, serving>>

Proceed_OneMore ==  \* Mutant: off by one at the last command.
    /\ caller = "woken" /\ future[myId] = "result"
    /\ IF step + 1 <= Commands
       THEN Send /\ step' = (IF open THEN step + 1 ELSE 0)
       ELSE GiveUp /\ UNCHANGED <<nextId, asked>>
    /\ UNCHANGED <<line, active, done, serving>>

\* The awaited command has succeeded: the next one, or the refresh is complete.
Proceed ==
    /\ caller = "woken" /\ future[myId] = "result"
    /\ IF step + 1 < Commands
       THEN Send /\ step' = (IF open THEN step + 1 ELSE 0)
       ELSE GiveUp /\ UNCHANGED <<nextId, asked>>
    /\ UNCHANGED <<line, active, done, serving>>

Fail_NoTimeout ==  \* Mutant: the answer is awaited without a timeout.
    /\ caller \in {"waiting", "woken"}
    /\ future[myId] = "error"
    /\ GiveUp
    /\ UNCHANGED <<line, nextId, active, done, remote>>

\* It has failed, or its 30 s are over: the refresh is abandoned.
Fail ==
    /\ caller \in {"waiting", "woken"}
    /\ future[myId] # "result"
    /\ GiveUp
    /\ UNCHANGED <<line, nextId, active, done, remote>>

Refresh == StartRefresh \/ Proceed \/ Fail

------------------------------------------------------------------------------
\* stop(), from another task.
Stop ==
    /\ ~stopping
    /\ phase \notin Ended
    /\ stopping' = TRUE
    /\ open' = FALSE
    /\ asked' = {}
    /\ UNCHANGED <<phase, attempt, survived, connected, book, serving, refresh>>

\* The network drops the connection.
Drop ==
    /\ open
    /\ open' = FALSE
    /\ asked' = {}
    /\ UNCHANGED <<phase, stopping, attempt, survived, connected, book, serving,
                   refresh>>

Age ==
    /\ connected /\ ~survived
    /\ survived' = TRUE
    /\ UNCHANGED <<phase, stopping, attempt, open, connected, book, remote, refresh>>

Next ==
    \/ Run \/ Refresh \/ Stop \/ Drop \/ Age
    \/ \E id \in Ids, ok \in BOOLEAN : Result(id, ok)

Spec == Init /\ [][Next]_vars

\* The event loop runs run() and the registry loop whenever they are ready;
\* Fail is ready at the latest when wait_for's 30 s are over.
FairSpec == Spec /\ WF_vars(Run) /\ WF_vars(Proceed) /\ WF_vars(Fail)

------------------------------------------------------------------------------
\* Type invariant; in particular a waiting command has an id of its own.
TypeOK ==
    /\ phase \in Ended \cup {"dial", "handshake", "subscribe", "listen", "sleep"}
    /\ stopping \in BOOLEAN /\ survived \in BOOLEAN
    /\ attempt \in 0..Overflow
    /\ open \in BOOLEAN /\ connected \in BOOLEAN
    /\ nextId \in 1..(MaxId + 1)
    /\ pending \subseteq Ids
    /\ future \in [Ids -> {"none", "waiting", "result", "error"}]
    /\ active \subseteq Ids \X Subs
    /\ done \in 0..NSubs
    /\ asked \subseteq Ids
    /\ serving \subseteq Subs
    /\ caller \in {"idle", "waiting", "woken"}
    /\ myId \in 0..MaxId
    /\ caller # "idle" => myId \in Ids
    /\ step \in 0..(Commands - 1)

\* No command outlives its connection: when run() is between connections, or
\* has ended, no future anybody waits for is unresolved, so the registry loop
\* does not sit out its 30 s (the comment in run()'s finally clause).
NoOrphanedCommand ==
    phase \in Ended \cup {"sleep", "dial", "handshake"} =>
        /\ \A i \in pending : future[i] # "waiting"
        /\ caller = "waiting" => future[myId] # "waiting"

\* Whatever HA delivers on this connection has a callback, and while run()
\* listens, every registered subscription has been asked for on this connection:
\* it is awaiting its result, delivered, or refused.
SubscriptionsRouted ==
    /\ \A s \in serving : connected => \E i \in Ids : <<i, s>> \in active
    /\ phase = "listen" /\ open =>
         \A s \in Subs : \E i \in Ids :
             /\ <<i, s>> \in active
             /\ i \in asked \/ s \in serving \/ future[i] = "error"

\* wait_connected never lets a command through before HA has authenticated the
\* connection: a frame before that would be taken for a rejected login, which
\* ends the client for good.
NothingSentBeforeAuth == phase \in {"dial", "handshake"} => asked = {}

\* A registry refresh that has started ends, with rows or with an error.
RefreshEnds == caller # "idle" ~> caller = "idle"

\* "run() supervises the connection forever ... Auth rejection is fatal" (class
\* docstring): nothing else ends it but stop().  A client that is being stopped
\* ends anyhow, by whatever exception its own close() provokes.
SupervisesForever == phase = "crashed" => stopping
==============================================================================
