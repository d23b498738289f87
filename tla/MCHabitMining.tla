---------------------------- MODULE MCHabitMining ----------------------------
(* A lamp that people switch at the times of one of LampDays, and a pump that *)
(* its controller runs at one of PumpTimes.                                   *)
EXTENDS HabitMining

CONSTANTS lamp, pump, LampDays, PumpTimes

DayPlans ==
    {[ent : {lamp}, at : day, user : {TRUE}] \cup [ent : {pump}, at : {time}, user : {FALSE}] :
        day \in LampDays, time \in PumpTimes}

MinerNumbers == [occurrences |-> 1, support |-> 50, std |-> 0, confidence |-> 60, lift |-> 1]
GateNumbers == [occurrences |-> 2, support |-> 60, days |-> 2, consistency |-> 80,
                std |-> 2, confidence |-> 70, lift |-> 1]
==============================================================================
