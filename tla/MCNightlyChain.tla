---------------------------- MODULE MCNightlyChain ----------------------------
(* A lamp that is lit just after midnight, and a lamp that is lit when a door  *)
(* opens.  The model answers with sound automations for each, and with         *)
(* automations that are near misses of both.                                   *)
EXTENDS NightlyChain

CONSTANTS lamp, door, heater

Registry == [e \in {lamp, door, heater} |->
    IF e = lamp THEN "light" ELSE IF e = door THEN "binary_sensor" ELSE "switch"]

Sun == [sunrise |-> 3, sunset |-> 9]

Habits == <<
    [kind |-> "time_of_day", members |-> {lamp}, trigger |-> {}, state |-> "", mean |-> 1],
    [kind |-> "event_pair", members |-> {lamp}, trigger |-> {door}, state |-> "open",
     mean |-> 0]>>

Lit(trigger, target) ==
    [junk |-> FALSE, trigger |-> trigger, asks |-> {},
     calls |-> {[domain |-> "light", name |-> "turn_on", targets |-> {target}]}]
At(minute) == [platform |-> "time", at |-> minute]
AfterSunset(minutes) == [platform |-> "sun", event |-> "sunset", offset |-> minutes]
Opens(entity) == [platform |-> "state", entity |-> entity, to |-> "open"]
Says(yes, automation) == [propose |-> yes, titled |-> TRUE, automation |-> automation]

Replies == {
    Says(TRUE, Lit(At(11), lamp)),          \* before midnight, at the edge of the grace
    Says(TRUE, Lit(AfterSunset(3), lamp)),  \* at midnight
    Says(TRUE, Lit(Opens(door), lamp)),
    Says(TRUE, Lit(At(1), heater)),         \* of no group, and no light
    Says(FALSE, Lit(Opens(door), lamp)),
    [propose |-> TRUE, titled |-> TRUE,
     automation |-> [Lit(At(1), lamp) EXCEPT !.junk = TRUE]]}
==============================================================================
