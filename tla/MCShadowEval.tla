---------------------------- MODULE MCShadowEval ----------------------------
(* Two proposals on one lamp: an event_pair with a motion sensor, and a       *)
(* time_of_day with a sun trigger.  Its offset makes it fire in the last      *)
(* minute of day 0, and for day 1 when day 2 has already begun.               *)
EXTENDS ShadowEval, TLC

CONSTANTS pair, sun, motion, lamp

ActsOnLamp == {[ent |-> motion, by |-> "automation"],
               [ent |-> lamp, by |-> "manual"],
               [ent |-> lamp, by |-> "automation"]}

RunSymmetry == Permutations(Runs)

Automations ==
    [p \in {pair, sun} |->
       [kind |-> IF p = pair THEN "event_pair" ELSE "time_of_day",
        trigger |-> motion,
        fires |-> [d \in Days |-> {IF d = 0 THEN DayLen - 1 ELSE DayLen + 2}],
        dark |-> {},
        actions |-> {lamp}]]

==============================================================================
