---------------------------- MODULE WsClient_proofs ----------------------------
(* Theorems about WsClient, for any number of subscriptions and commands and  *)
(* any bounds.                                                                *)
EXTENDS WsClient, TLAPS

Away == Ended \cup {"sleep", "dial"}

\* The ids that the connection, and the refresh, under way can still use.
IdsForSubs ==
    IF phase = "handshake" THEN NSubs ELSE IF phase = "subscribe" THEN NSubs - done ELSE 0

IdsForRefresh == IF caller = "idle" THEN 0 ELSE Commands - 1 - step

IdsLeft ==
    /\ nextId + IdsForSubs + IdsForRefresh <= MaxId + 1
    /\ phase = "subscribe" => done < NSubs
    /\ phase = "listen" => done = NSubs

\* Between connections, and until Home Assistant has let the client in, no one
\* sends.
Quiet ==
    /\ phase \in Away => ~open
    /\ phase \in Away \cup {"handshake"} => ~connected /\ asked = {}
    /\ phase = "handshake" => caller # "woken"
    /\ phase # "listen" => serving = {}

\* Who waits can be settled, and nobody waits on an earlier connection.
Waiting ==
    /\ \A i \in Ids : future[i] = "waiting" => i \in pending
    /\ phase \in Away \cup {"handshake"} => \A i \in Ids : future[i] # "waiting"

\* The ids of subscriptions are their own, and each subscription sent on an open
\* connection is on its way, delivered or refused.
Routed ==
    /\ myId < nextId
    /\ \A i \in Ids, s \in Subs : <<i, s>> \in active =>
         /\ i < nextId /\ i # myId
         /\ i \in asked => future[i] = "waiting"
    /\ phase \in {"subscribe", "listen"} /\ open =>
         \A s \in 1..done : \E i \in Ids :
             /\ <<i, s>> \in active
             /\ i \in asked \/ s \in serving \/ future[i] = "error"
    /\ \A s \in serving : \E i \in Ids : <<i, s>> \in active

Inv == TypeOK /\ IdsLeft /\ Quiet /\ Waiting /\ Routed

LEMMA InvInit == Init => Inv
<1> SUFFICES ASSUME Init PROVE Inv
  OBVIOUS
<1> USE WsAssumption DEF WsAssumption, Init
<1>1. stopping \in BOOLEAN /\ survived \in BOOLEAN /\ open \in BOOLEAN /\ connected \in BOOLEAN
  BY Zenon
<1>2. TypeOK
  BY <1>1 DEF TypeOK, Ended, Ids, Subs
<1>3. IdsLeft
  BY DEF IdsLeft, IdsForSubs, IdsForRefresh
<1>4. Quiet /\ Waiting /\ Routed
  BY DEF Quiet, Waiting, Routed, Away, Ended, Ids
<1> QED
  BY <1>2, <1>3, <1>4 DEF Inv

(* However a connection ends, or run() with it.                               *)
LEMMA LineEnds ==
    ASSUME Inv, Disconnected \/ \E end \in Ended : Escapes(end)
    PROVE  Inv'
<1> USE WsAssumption DEF WsAssumption
<1>1. Finally /\ UNCHANGED <<stopping, nextId, pending, active, refresh>>
  BY DEF Disconnected, Escapes
<1>2. phase' \in Ended \cup {"sleep"} /\ attempt' \in 0..Overflow
  <2>1. CASE Disconnected
    BY <2>1 DEF Disconnected, LoopOn, NoDelay, Ended, Inv, TypeOK
  <2>2. CASE \E end \in Ended : Escapes(end)
    BY <2>2 DEF Escapes, Inv, TypeOK
  <2> QED
    BY <2>1, <2>2
<1>3. ~connected' /\ ~open' /\ ~survived' /\ asked' = {} /\ serving' = {} /\ done' = 0
      /\ future' = Settle(future)
  BY <1>1 DEF Finally
<1>4. TypeOK'
  <2>1. connected' \in BOOLEAN /\ open' \in BOOLEAN /\ survived' \in BOOLEAN
    BY <1>1, Zenon DEF Finally
  <2>2. future' \in [Ids -> {"none", "waiting", "result", "error"}]
    BY <1>3 DEF Settle, Inv, TypeOK
  <2>3. phase' \in Ended \cup {"dial", "handshake", "subscribe", "listen", "sleep"}
    BY <1>2
  <2>4. /\ stopping' = stopping /\ nextId' = nextId /\ pending' = pending
        /\ active' = active /\ caller' = caller /\ myId' = myId /\ step' = step
    BY <1>1 DEF refresh
  <2> QED
    BY <1>2, <1>3, <2>1, <2>2, <2>3, <2>4 DEF Inv, TypeOK
<1>5. IdsLeft'
  <2>1. IdsForSubs' = 0 /\ IdsForRefresh' = IdsForRefresh
    BY <1>1, <1>2 DEF IdsForSubs, IdsForRefresh, Ended, refresh
  <2>2. IdsForSubs \in Nat /\ IdsForRefresh \in Int /\ nextId \in Int /\ MaxId \in Nat
    BY DEF Inv, TypeOK, IdsLeft, IdsForSubs, IdsForRefresh
  <2> QED
    BY <1>1, <1>2, <2>1, <2>2 DEF Inv, IdsLeft, Ended
<1>6. Quiet'
  BY <1>2, <1>3 DEF Quiet, Away, Ended
<1>7. Waiting'
  BY <1>1, <1>3 DEF Inv, Waiting, Settle, TypeOK
<1>8. Routed'
  BY <1>1, <1>2, <1>3 DEF Inv, Routed, Ended, refresh
<1> QED
  BY <1>4, <1>5, <1>6, <1>7, <1>8 DEF Inv

(* The registry loop stops waiting: the command's id and future are dropped.   *)
LEMMA CommandForgotten ==
    ASSUME Inv, UNCHANGED <<line, active, done, remote>>,
           pending' = Forget, future' = Dropped, caller' = "idle", myId' = 0,
           step' \in 0..(Commands - 1),
           nextId' \in Nat, nextId <= nextId', nextId' + IdsForSubs <= MaxId + 1
    PROVE  Inv'
<1> USE WsAssumption DEF WsAssumption
<1>1. /\ phase' = phase /\ stopping' = stopping /\ attempt' = attempt /\ open' = open
      /\ survived' = survived /\ connected' = connected
      /\ active' = active /\ done' = done /\ asked' = asked /\ serving' = serving
  BY DEF line, remote
<1>2. IdsForSubs \in Nat /\ IdsForSubs' = IdsForSubs /\ nextId \in Nat \ {0}
  BY <1>1 DEF Inv, TypeOK, IdsLeft, IdsForSubs
<1>3. \A i \in Ids : future'[i] = IF i = myId THEN "none" ELSE future[i]
  BY DEF Dropped
<1>4. TypeOK'
  <2>1. future' \in [Ids -> {"none", "waiting", "result", "error"}]
    BY DEF Dropped, Inv, TypeOK
  <2>2. nextId' \in 1..(MaxId + 1)
    BY <1>2 DEF IdsForSubs
  <2> QED
    BY <1>1, <2>1, <2>2 DEF Inv, TypeOK, Forget
<1>5. IdsLeft'
  BY <1>1, <1>2 DEF Inv, IdsLeft, IdsForSubs, IdsForRefresh
<1>6. Quiet'
  BY <1>1 DEF Inv, Quiet, Away, Ended
<1>7. Waiting'
  BY <1>1, <1>3 DEF Inv, Waiting, Away, Ended, Forget
<1>8. Routed'
  <2>1. myId' < nextId'
    BY <1>1, <1>2, <1>3 DEF Inv, TypeOK
  <2>2. ASSUME NEW i \in Ids, NEW s \in Subs, <<i, s>> \in active'
        PROVE  i < nextId' /\ i # myId' /\ (i \in asked' => future'[i] = "waiting")
    BY <1>1, <1>2, <1>3, <2>2 DEF Inv, Routed, TypeOK, Ids
  <2>3. ASSUME phase' \in {"subscribe", "listen"}, open', NEW s \in 1..done'
        PROVE  \E i \in Ids : /\ <<i, s>> \in active'
                              /\ i \in asked' \/ s \in serving' \/ future'[i] = "error"
    <3>1. s \in 1..done /\ s \in Subs
      BY <1>1 DEF Inv, TypeOK, Subs
    <3>2. PICK i \in Ids : /\ <<i, s>> \in active
                           /\ i \in asked \/ s \in serving \/ future[i] = "error"
      BY <1>1, <2>3, <3>1 DEF Inv, Routed
    <3>3. i < nextId /\ i # myId
      BY <3>1, <3>2 DEF Inv, Routed
    <3> QED
      BY <1>1, <1>2, <1>3, <3>2, <3>3
  <2> QED
    BY <1>1, <2>1, <2>2, <2>3 DEF Inv, Routed
<1> QED
  BY <1>4, <1>5, <1>6, <1>7, <1>8 DEF Inv

(* The registry loop sends its next command, or finds the connection gone.    *)
LEMMA CommandSent ==
    ASSUME Inv, Send, UNCHANGED <<line, active, done, serving>>,
           step' \in 0..(Commands - 1),
           nextId + IdsForSubs + 1 <= MaxId + 1,
           open => /\ phase \in {"subscribe", "listen"}
                   /\ nextId + IdsForSubs + Commands - step' <= MaxId + 1
    PROVE  Inv'
<1> USE WsAssumption DEF WsAssumption
<1>1. /\ phase' = phase /\ stopping' = stopping /\ attempt' = attempt /\ open' = open
      /\ survived' = survived /\ connected' = connected
      /\ active' = active /\ done' = done /\ serving' = serving
  BY DEF line
<1>2. nextId \in 1..(MaxId + 1) /\ IdsForSubs \in Nat /\ step' \in Nat /\ IdsForSubs' = IdsForSubs
  BY <1>1 DEF Inv, TypeOK, IdsLeft, IdsForSubs
<1>3. CASE open
  <2>1. nextId \in Ids
    BY <1>2, <1>3 DEF Ids
  <2>2. /\ nextId' = nextId + 1 /\ pending' = (pending \ {myId}) \cup {nextId}
        /\ asked' = asked \cup {nextId} /\ caller' = "waiting" /\ myId' = nextId
        /\ future' = [Dropped EXCEPT ![nextId] = "waiting"]
    BY <1>3 DEF Send, Forget
  <2>3. \A i \in Ids : future'[i] = IF i = nextId THEN "waiting"
                                    ELSE IF i = myId THEN "none" ELSE future[i]
    BY <2>1, <2>2 DEF Dropped
  <2>4. TypeOK'
    <3>1. future' \in [Ids -> {"none", "waiting", "result", "error"}]
      BY <2>1, <2>2 DEF Dropped, Inv, TypeOK
    <3>2. nextId' \in 1..(MaxId + 1) /\ myId' \in 0..MaxId
      BY <1>2, <2>1, <2>2 DEF Ids
    <3> QED
      BY <1>1, <2>1, <2>2, <3>1, <3>2 DEF Inv, TypeOK
  <2>5. IdsLeft'
    BY <1>1, <1>2, <1>3, <2>2 DEF Inv, IdsLeft, IdsForSubs, IdsForRefresh
  <2>6. Quiet'
    BY <1>1, <1>3, <2>2 DEF Inv, Quiet, Away, Ended
  <2>7. Waiting'
    BY <1>1, <1>3, <2>2, <2>3 DEF Inv, Waiting, Away, Ended
  <2>8. Routed'
    <3>1. myId' < nextId'
      BY <1>1, <1>2, <2>1, <2>2, <2>3 DEF Inv, TypeOK
    <3>2. ASSUME NEW i \in Ids, NEW s \in Subs, <<i, s>> \in active'
          PROVE  i < nextId' /\ i # myId' /\ (i \in asked' => future'[i] = "waiting")
      BY <1>1, <1>2, <2>1, <2>2, <2>3, <3>2 DEF Inv, Routed, TypeOK, Ids
    <3>3. ASSUME phase' \in {"subscribe", "listen"}, open', NEW s \in 1..done'
          PROVE  \E i \in Ids : /\ <<i, s>> \in active'
                                /\ i \in asked' \/ s \in serving' \/ future'[i] = "error"
      <4>1. s \in 1..done /\ s \in Subs
        BY <1>1 DEF Inv, TypeOK, Subs
      <4>2. PICK i \in Ids : /\ <<i, s>> \in active
                             /\ i \in asked \/ s \in serving \/ future[i] = "error"
        BY <1>1, <3>3, <4>1 DEF Inv, Routed
      <4>3. i < nextId /\ i # myId
        BY <4>1, <4>2 DEF Inv, Routed
      <4> QED
        BY <1>1, <1>2, <2>1, <2>2, <2>3, <4>2, <4>3
    <3> QED
      BY <1>1, <3>1, <3>2, <3>3 DEF Inv, Routed
  <2> QED
    BY <2>4, <2>5, <2>6, <2>7, <2>8 DEF Inv
<1>4. CASE ~open
  <2>1. /\ pending' = Forget /\ future' = Dropped /\ nextId' = nextId + 1
        /\ caller' = "idle" /\ myId' = 0 /\ asked' = asked
    BY <1>4 DEF Send
  <2> QED
    BY <1>1, <1>2, <2>1, CommandForgotten DEF line, remote
<1> QED
  BY <1>3, <1>4

(* A step of the registry loop.                                                *)
LEMMA RefreshStep == ASSUME Inv, Refresh PROVE Inv'
<1> USE WsAssumption DEF WsAssumption
<1>1. nextId \in 1..(MaxId + 1) /\ IdsForSubs \in 0..NSubs
  BY DEF Inv, TypeOK, IdsLeft, IdsForSubs
<1>2. CASE StartRefresh
  <2>1. phase \in {"subscribe", "listen"}
    BY <1>2 DEF StartRefresh, Inv, TypeOK, Quiet, Away
  <2>2. Send /\ step' = 0 /\ nextId + NSubs + Commands <= MaxId + 1
    BY <1>2 DEF StartRefresh, RoomForIds
  <2>3. UNCHANGED <<line, active, done, serving>>
    BY <1>2 DEF StartRefresh
  <2>4. /\ step' \in 0..(Commands - 1) /\ nextId + IdsForSubs + 1 <= MaxId + 1
        /\ nextId + IdsForSubs + Commands - step' <= MaxId + 1
    BY <1>1, <2>2
  <2> QED
    BY <2>1, <2>2, <2>3, <2>4, CommandSent
<1>3. CASE Proceed
  <2>1. caller = "woken" /\ UNCHANGED <<line, active, done, serving>>
    BY <1>3 DEF Proceed
  <2>2. CASE step + 1 < Commands
    <3>1. Send /\ step' = IF open THEN step + 1 ELSE 0
      BY <1>3, <2>2 DEF Proceed
    <3>2. nextId + IdsForSubs + (Commands - 1 - step) <= MaxId + 1 /\ step \in 0..(Commands - 1)
      BY <2>1 DEF Inv, TypeOK, IdsLeft, IdsForRefresh
    <3>3. open => phase \in {"subscribe", "listen"}
      BY <2>1 DEF Inv, TypeOK, Quiet, Away
    <3>4. step' \in 0..(Commands - 1) /\ nextId + IdsForSubs + 1 <= MaxId + 1
          /\ (open => nextId + IdsForSubs + Commands - step' <= MaxId + 1)
      BY <1>1, <2>2, <3>1, <3>2
    <3> QED
      BY <2>1, <3>1, <3>3, <3>4, CommandSent
  <2>3. CASE ~(step + 1 < Commands)
    <3>1. GiveUp /\ nextId' = nextId /\ UNCHANGED <<line, active, done, remote>>
      BY <1>3, <2>1, <2>3 DEF Proceed, remote
    <3>2. nextId + IdsForSubs <= MaxId + 1
      BY <1>1 DEF Inv, TypeOK, IdsLeft, IdsForRefresh
    <3> QED
      BY <1>1, <3>1, <3>2, CommandForgotten DEF GiveUp
  <2> QED
    BY <2>2, <2>3
<1>4. CASE Fail
  <2>1. GiveUp /\ nextId' = nextId /\ UNCHANGED <<line, active, done, remote>>
    BY <1>4 DEF Fail
  <2>2. nextId + IdsForSubs <= MaxId + 1
    BY <1>1 DEF Inv, TypeOK, IdsLeft, IdsForRefresh
  <2> QED
    BY <1>1, <2>1, <2>2, CommandForgotten DEF GiveUp
<1> QED
  BY <1>2, <1>3, <1>4 DEF Refresh

(* HA lets the client in after a handshake: the subscriptions begin.            *)
LEMMA HandshakeSteps == ASSUME Inv, Dial \/ AuthOk PROVE Inv'
<1> USE WsAssumption DEF WsAssumption
<1>1. /\ stopping' = stopping /\ attempt' = attempt /\ survived' = survived
      /\ nextId' = nextId /\ pending' = pending /\ future' = future
      /\ asked' = asked /\ serving' = serving
      /\ caller' = caller /\ myId' = myId /\ step' = step
  BY DEF Dial, AuthOk, book, remote, refresh
<1>2. CASE Dial
  <2>1. /\ phase = "dial" /\ phase' = "handshake" /\ open' = TRUE /\ connected' = connected
        /\ active' = active /\ done' = done /\ caller # "woken" /\ RoomForIds
    BY <1>2 DEF Dial, book
  <2>2. TypeOK'
    <3>1. open' \in BOOLEAN
      BY <2>1, Zenon
    <3> QED
      BY <1>1, <2>1, <3>1 DEF Inv, TypeOK
  <2>3. IdsLeft'
    BY <1>1, <2>1 DEF RoomForIds, Inv, TypeOK, IdsLeft, IdsForSubs, IdsForRefresh
  <2>4. Quiet'
    BY <1>1, <2>1 DEF Inv, Quiet, Away, Ended
  <2>5. Waiting' /\ Routed'
    BY <1>1, <2>1 DEF Inv, Waiting, Routed, Away, Ended
  <2> QED
    BY <2>2, <2>3, <2>4, <2>5 DEF Inv
<1>3. CASE AuthOk
  <2>1. /\ phase = "handshake" /\ phase' = "subscribe" /\ open' = open /\ connected' = TRUE
        /\ active' = {} /\ done' = 0
    BY <1>3 DEF AuthOk
  <2>2. TypeOK'
    <3>1. connected' \in BOOLEAN
      BY <2>1, Zenon
    <3> QED
      BY <1>1, <2>1, <3>1 DEF Inv, TypeOK
  <2>3. IdsLeft'
    BY <1>1, <2>1 DEF Inv, TypeOK, IdsLeft, IdsForSubs, IdsForRefresh
  <2>4. Quiet'
    BY <1>1, <2>1 DEF Inv, Quiet, Away, Ended
  <2>5. Waiting' /\ Routed'
    BY <1>1, <2>1 DEF Inv, Waiting, Routed, Quiet, Away, Ended
  <2> QED
    BY <2>2, <2>3, <2>4, <2>5 DEF Inv
<1> QED
  BY <1>2, <1>3

LEMMA SubscribeStep == ASSUME Inv, Subscribe PROVE Inv'
<1> USE WsAssumption DEF WsAssumption
<1>1. /\ stopping' = stopping /\ attempt' = attempt /\ survived' = survived /\ open' = open
      /\ connected' = connected /\ serving' = serving
      /\ caller' = caller /\ myId' = myId /\ step' = step
  BY DEF Subscribe, refresh
<1>2. /\ phase = "subscribe" /\ open /\ nextId' = nextId + 1 /\ pending' = pending \cup {nextId}
      /\ future' = [future EXCEPT ![nextId] = "waiting"] /\ done' = done + 1
      /\ active' = active \cup {<<nextId, done + 1>>} /\ asked' = asked \cup {nextId}
      /\ phase' = IF done + 1 = NSubs THEN "listen" ELSE "subscribe"
  BY DEF Subscribe
<1>3. nextId \in Ids /\ nextId \in Nat /\ done \in Nat /\ done < NSubs
  BY <1>2 DEF Inv, TypeOK, IdsLeft, IdsForSubs, IdsForRefresh, Ids
<1>4. \A i \in Ids : future'[i] = IF i = nextId THEN "waiting" ELSE future[i]
  BY <1>2 DEF Inv, TypeOK
<1>5. TypeOK'
  <2>1. active' \subseteq Ids \X Subs /\ done' \in 0..NSubs
    BY <1>2, <1>3 DEF Inv, TypeOK, Subs
  <2>2. nextId' \in 1..(MaxId + 1)
    BY <1>2, <1>3 DEF Ids
  <2>3. future' \in [Ids -> {"none", "waiting", "result", "error"}]
    BY <1>2, <1>3 DEF Inv, TypeOK
  <2>4. phase' \in {"listen", "subscribe"}
    BY <1>2
  <2> QED
    BY <1>1, <1>2, <1>3, <2>1, <2>2, <2>3, <2>4 DEF Inv, TypeOK
<1>6. IdsLeft'
  BY <1>1, <1>2, <1>3 DEF Inv, TypeOK, IdsLeft, IdsForSubs, IdsForRefresh
<1>7. Quiet'
  BY <1>1, <1>2 DEF Inv, Quiet, Away, Ended
<1>8. Waiting'
  BY <1>2, <1>3, <1>4 DEF Inv, Waiting, Away, Ended
<1>9. Routed'
  <2>1. myId' < nextId'
    BY <1>1, <1>2, <1>3 DEF Inv, Routed, TypeOK
  <2>2. ASSUME NEW i \in Ids, NEW s \in Subs, <<i, s>> \in active'
        PROVE  i < nextId' /\ i # myId' /\ (i \in asked' => future'[i] = "waiting")
    BY <1>1, <1>2, <1>3, <1>4, <2>2 DEF Inv, Routed, TypeOK, Ids
  <2>3. ASSUME NEW s \in 1..done'
        PROVE  \E i \in Ids : /\ <<i, s>> \in active'
                              /\ i \in asked' \/ s \in serving' \/ future'[i] = "error"
    <3>1. CASE s = done + 1
      BY <1>2, <1>3, <3>1
    <3>2. CASE s # done + 1
      <4>1. s \in 1..done
        BY <1>2, <1>3, <3>2
      <4>2. PICK i \in Ids : /\ <<i, s>> \in active
                             /\ i \in asked \/ s \in serving \/ future[i] = "error"
        BY <1>2, <4>1 DEF Inv, Routed
      <4>3. i # nextId
        BY <1>3, <4>1, <4>2 DEF Inv, Routed, Subs
      <4> QED
        BY <1>1, <1>2, <1>4, <4>2, <4>3
    <3> QED
      BY <3>1, <3>2
  <2>4. \A s \in serving' : \E i \in Ids : <<i, s>> \in active'
    BY <1>1, <1>2 DEF Inv, Routed
  <2> QED
    BY <2>1, <2>2, <2>3, <2>4 DEF Routed
<1> QED
  BY <1>5, <1>6, <1>7, <1>8, <1>9 DEF Inv

(* HA answers.                                                                 *)
LEMMA ResultStep ==
    ASSUME Inv, NEW id \in Ids, NEW ok \in BOOLEAN, Result(id, ok)
    PROVE  Inv'
<1> USE WsAssumption DEF WsAssumption
<1>1. /\ phase' = phase /\ stopping' = stopping /\ attempt' = attempt /\ survived' = survived
      /\ open' = open /\ connected' = connected /\ nextId' = nextId /\ pending' = pending
      /\ active' = active /\ done' = done /\ myId' = myId /\ step' = step
  BY DEF Result, line
<1>2. /\ phase = "listen" /\ id \in asked /\ asked' = asked \ {id}
      /\ serving' = serving \cup {s \in Subs : ok /\ <<id, s>> \in active}
      /\ caller' = IF caller = "waiting" /\ myId = id THEN "woken" ELSE caller
  BY DEF Result
<1>3. future' = IF id \in pending /\ future[id] = "waiting"
                THEN [future EXCEPT ![id] = IF ok THEN "result" ELSE "error"] ELSE future
  BY DEF Result
<1>4. \A i \in Ids : future'[i] = IF i = id /\ id \in pending /\ future[id] = "waiting"
                                  THEN (IF ok THEN "result" ELSE "error") ELSE future[i]
  BY <1>3 DEF Inv, TypeOK
<1>5. TypeOK'
  <2>1. future' \in [Ids -> {"none", "waiting", "result", "error"}]
    BY <1>3 DEF Inv, TypeOK
  <2>2. caller' \in {"idle", "waiting", "woken"} /\ (caller' # "idle" => myId' \in Ids)
    BY <1>1, <1>2 DEF Inv, TypeOK
  <2> QED
    BY <1>1, <1>2, <2>1, <2>2 DEF Inv, TypeOK
<1>6. IdsLeft'
  BY <1>1, <1>2 DEF Inv, IdsLeft, IdsForSubs, IdsForRefresh
<1>7. Quiet'
  BY <1>1, <1>2 DEF Inv, Quiet, Away, Ended
<1>8. Waiting'
  BY <1>1, <1>2, <1>4 DEF Inv, Waiting, Away, Ended
<1>9. Routed'
  <2>1. ASSUME NEW i \in Ids, NEW s \in Subs, <<i, s>> \in active'
        PROVE  i < nextId' /\ i # myId' /\ (i \in asked' => future'[i] = "waiting")
    BY <1>1, <1>2, <1>4, <2>1 DEF Inv, Routed
  <2>2. ASSUME open', NEW s \in 1..done'
        PROVE  \E i \in Ids : /\ <<i, s>> \in active'
                              /\ i \in asked' \/ s \in serving' \/ future'[i] = "error"
    <3>1. s \in Subs
      BY <1>1 DEF Inv, TypeOK, Subs
    <3>2. PICK i \in Ids : /\ <<i, s>> \in active
                           /\ i \in asked \/ s \in serving \/ future[i] = "error"
      BY <1>1, <1>2, <2>2 DEF Inv, Routed
    <3>3. CASE i = id
      <4>1. future[i] = "waiting" /\ i \in pending
        BY <1>2, <3>1, <3>2, <3>3 DEF Inv, Routed, Waiting
      <4> QED
        BY <1>1, <1>2, <1>4, <3>1, <3>2, <3>3, <4>1
    <3>4. CASE i # id
      BY <1>1, <1>2, <1>4, <3>2, <3>4
    <3> QED
      BY <3>3, <3>4
  <2>3. \A s \in serving' : \E i \in Ids : <<i, s>> \in active'
    BY <1>1, <1>2 DEF Inv, Routed
  <2> QED
    BY <1>1, <2>1, <2>2, <2>3 DEF Inv, Routed
<1> QED
  BY <1>5, <1>6, <1>7, <1>8, <1>9 DEF Inv

(* What changes nothing but run()'s own state, and closes connections at most.  *)
LEMMA OtherSteps ==
    ASSUME Inv, Awake \/ Stop \/ Drop \/ Age \/ UNCHANGED vars
    PROVE  Inv'
<1> USE WsAssumption DEF WsAssumption
<1>1. /\ nextId' = nextId /\ pending' = pending /\ future' = future /\ active' = active
      /\ done' = done /\ serving' = serving /\ attempt' = attempt /\ connected' = connected
      /\ caller' = caller /\ myId' = myId /\ step' = step
  BY DEF Awake, Stop, Drop, Age, vars, line, book, remote, refresh
<1>2. \/ phase' = phase
      \/ phase = "sleep" /\ phase' \in {"stopped", "dial"}
  BY DEF Awake, Stop, Drop, Age, vars, line
<1>3. (open' = open /\ asked' = asked) \/ (~open' /\ asked' = {})
  BY DEF Awake, Stop, Drop, Age, vars, line, remote
<1>4. TypeOK'
  <2>1. stopping' \in BOOLEAN
    <3>1. stopping' = stopping \/ stopping' = TRUE
      BY DEF Awake, Stop, Drop, Age, vars, line
    <3> QED
      BY <3>1, Zenon DEF Inv, TypeOK
  <2>2. survived' \in BOOLEAN
    <3>1. survived' = survived \/ survived' = TRUE
      BY DEF Awake, Stop, Drop, Age, vars, line
    <3> QED
      BY <3>1, Zenon DEF Inv, TypeOK
  <2>3. open' \in BOOLEAN
    <3>1. open' = open \/ open' = FALSE
      BY DEF Awake, Stop, Drop, Age, vars, line
    <3> QED
      BY <3>1, Zenon DEF Inv, TypeOK
  <2> QED
    BY <1>1, <1>2, <1>3, <2>1, <2>2, <2>3 DEF Inv, TypeOK, Ended
<1>5. IdsLeft'
  BY <1>1, <1>2 DEF Inv, IdsLeft, IdsForSubs, IdsForRefresh
<1>6. Quiet'
  BY <1>1, <1>2, <1>3 DEF Inv, Quiet, Away, Ended
<1>7. Waiting'
  BY <1>1, <1>2 DEF Inv, Waiting, Away, Ended
<1>8. Routed'
  BY <1>1, <1>2, <1>3 DEF Inv, Routed, Ended
<1> QED
  BY <1>4, <1>5, <1>6, <1>7, <1>8 DEF Inv

LEMMA InvStep == Inv /\ [Next]_vars => Inv'
<1> SUFFICES ASSUME Inv, [Next]_vars PROVE Inv'
  OBVIOUS
<1>1. CASE DialFails \/ AuthRejected \/ BadHandshake \/ ClosedInHandshake \/ LineLost
  <2>1. Disconnected \/ \E end \in Ended : Escapes(end)
    BY <1>1 DEF DialFails, AuthRejected, BadHandshake, ClosedInHandshake, LineLost, Ended
  <2> QED
    BY <2>1, LineEnds
<1>2. CASE Dial \/ AuthOk
  BY <1>2, HandshakeSteps
<1>3. CASE Subscribe
  BY <1>3, SubscribeStep
<1>4. CASE \E id \in Ids, ok \in BOOLEAN : Result(id, ok)
  BY <1>4, ResultStep
<1>5. CASE Refresh
  BY <1>5, RefreshStep
<1>6. CASE Awake \/ Stop \/ Drop \/ Age \/ UNCHANGED vars
  BY <1>6, OtherSteps
<1> QED
  BY <1>1, <1>2, <1>3, <1>4, <1>5, <1>6 DEF Next, Run

LEMMA InvAlways == Spec => []Inv
BY InvInit, InvStep, PTL DEF Spec

------------------------------------------------------------------------------
(* Every variable keeps its type, and no behaviour uses more ids than Dial and  *)
(* StartRefresh saw room for (client.py 162-297).                               *)
THEOREM TypeCorrect == Spec => []TypeOK
<1>1. Inv => TypeOK
  BY DEF Inv
<1> QED
  BY <1>1, InvAlways, PTL

(* No command is left waiting when its connection is gone (client.py 273-282).  *)
THEOREM NoOrphanedCommandProved == Spec => []NoOrphanedCommand
<1>1. Inv => NoOrphanedCommand
  <2> SUFFICES ASSUME Inv, phase \in Ended \cup {"sleep", "dial", "handshake"}
               PROVE  /\ \A i \in pending : future[i] # "waiting"
                      /\ caller = "waiting" => future[myId] # "waiting"
    BY DEF NoOrphanedCommand
  <2>1. \A i \in Ids : future[i] # "waiting"
    BY DEF Inv, Waiting, Away
  <2> QED
    BY <2>1 DEF Inv, TypeOK
<1> QED
  BY <1>1, InvAlways, PTL

(* Each subscription is asked for anew on each connection and what HA delivers   *)
(* has a callback (client.py 208-218).                                          *)
THEOREM SubscriptionsRoutedProved == Spec => []SubscriptionsRouted
<1>1. Inv => SubscriptionsRouted
  BY DEF Inv, IdsLeft, Routed, SubscriptionsRouted, Subs
<1> QED
  BY <1>1, InvAlways, PTL

(* No frame is sent before HA has let the client in (client.py 192-205).         *)
THEOREM NothingSentBeforeAuthProved == Spec => []NothingSentBeforeAuth
<1>1. Inv => NothingSentBeforeAuth
  BY DEF Inv, Quiet, Away, NothingSentBeforeAuth
<1> QED
  BY <1>1, InvAlways, PTL
==============================================================================
