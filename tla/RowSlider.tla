------------------------------ MODULE RowSlider ------------------------------
(***************************************************************************)
(* The basement tablet's slider for the rows of ceiling lights             *)
(* (src/ha/basement_tablet): two Home Assistant automations, one of which  *)
(* carries the slider to the lights and one the lights to the slider.      *)
(*                                                                         *)
(* `apply` runs at every change of the slider and switches row by row;     *)
(* `sync` runs at every change of a light, waits, and sets the slider to   *)
(* the number of rows that are lit from the rear.  Both are in mode        *)
(* restart: a trigger throws away the run under way.  A light obeys some   *)
(* time after it was called, and may be unavailable.  People use the       *)
(* slider, the All Off tile, and anything else that switches a light.      *)
(***************************************************************************)
EXTENDS Integers, Sequences, SequencesExt

CONSTANTS
    Lights,
    Rows,      \* entities.ROWS: the lights of each row, front row first
    Debounce,  \* sync's delay, in units of time
    Lag,       \* the longest a light takes to obey
    MaxHands   \* bound: how often people act

ASSUME SliderAssumption ==
    /\ Rows \in Seq((SUBSET Lights) \ {{}})
    /\ UNION {Rows[r] : r \in DOMAIN Rows} = Lights
    /\ \A r, s \in DOMAIN Rows : r # s => Rows[r] \cap Rows[s] = {}
    /\ Debounce \in Nat \ {0} /\ Lag \in Nat /\ MaxHands \in Nat

States == {"on", "off", "unavailable"}
Values == 0..Len(Rows)
Command == [to : {"on", "off"}, age : 0..Lag]

VARIABLES
    slider,   \* input_number.basement_cans_rows
    lit,      \* the state of each light
    flight,   \* what each light was called to do and has not done, oldest first
    apply,    \* the row that apply's run switches next, 0 without a run
    sync,     \* what is left of the delay of sync's run, -1 without a run
    hands,    \* how often people have acted
    wish      \* history: what the slider was set to by hand, if nobody and
              \* nothing has interfered since; -1 otherwise

vars == <<slider, lit, flight, apply, sync, hands, wish>>

------------------------------------------------------------------------------
\* row_is_on: the value counts the rows from the rear.
RowIsOn(value, row) == value >= Len(Rows) + 1 - row

\* value_jinja: the rows that are wholly lit, from the rear and without a gap.
RowLit(row) == \A l \in Rows[row] : lit[l] = "on"

Value ==
    CHOOSE n \in Values :
        /\ \A r \in DOMAIN Rows : RowIsOn(n, r) => RowLit(r)
        /\ n < Len(Rows) => ~RowLit(Len(Rows) - n)

\* A call is lost on an unavailable light ("fail soft").
Called(ls, to) ==
    [l \in Lights |-> IF l \in ls /\ lit[l] # "unavailable"
                      THEN Append(flight[l], [to |-> to, age |-> 0])
                      ELSE flight[l]]

\* Setting the slider starts apply anew if its state changes by that.
SetSlider_Single(v) ==  \* Mutant: mode single, a run under way is left alone.
    /\ slider' = v
    /\ apply' = IF v = slider \/ apply # 0 THEN apply ELSE 1

SetSlider(v) ==
    /\ slider' = v
    /\ apply' = IF v = slider THEN apply ELSE 1

\* A change of a light's state starts sync anew, delay included.
SetLight_OnlyOn(l, s) ==  \* Mutant: sync is triggered by lights going on.
    /\ lit' = [lit EXCEPT ![l] = s]
    /\ sync' = IF s = lit[l] \/ s # "on" THEN sync ELSE Debounce

SetLight_NoDelay(l, s) ==  \* Mutant: sync without its delay.
    /\ lit' = [lit EXCEPT ![l] = s]
    /\ sync' = IF s = lit[l] THEN sync ELSE 0

SetLight_Queued(l, s) ==  \* Mutant: mode queued, the delays add up.
    /\ lit' = [lit EXCEPT ![l] = s]
    /\ sync' = IF s = lit[l] THEN sync
               ELSE IF sync = -1 THEN Debounce ELSE sync + Debounce

SetLight(l, s) ==
    /\ lit' = [lit EXCEPT ![l] = s]
    /\ sync' = IF s = lit[l] THEN sync ELSE Debounce

Idle == apply = 0 /\ sync = -1 /\ \A l \in Lights : flight[l] = <<>>

------------------------------------------------------------------------------
\* Sets the slider as the lights are, at rest.
Init ==
    /\ lit \in [Lights -> States]
    /\ slider = Value
    /\ flight = [l \in Lights |-> <<>>]
    /\ apply = 0 /\ sync = -1 /\ hands = 0 /\ wish = -1

Hand == hands < MaxHands /\ hands' = hands + 1

\* A finger on the slider (rows_column).  The wish is clear unless a run of sync
\* is about to end, or a light is unavailable.
Slide(v) ==
    /\ Hand
    /\ SetSlider(v)
    /\ wish' = IF /\ sync = -1 \/ sync > Lag
                  /\ \A l \in Lights : lit[l] # "unavailable"
               THEN (IF v = slider THEN wish ELSE v) ELSE -1
    /\ UNCHANGED <<lit, flight, sync>>

\* The All Off tile, which calls every light of ALL_ROW_LIGHTS.
AllOff ==
    /\ Hand
    /\ flight' = Called(Lights, "off")
    /\ wish' = -1
    /\ UNCHANGED <<slider, lit, apply, sync>>

\* A light is switched elsewhere, is lost or comes back.
Elsewhere(l, s) ==
    /\ Hand
    /\ s # lit[l]
    /\ SetLight(l, s)
    /\ flight' = IF s = "unavailable" THEN [flight EXCEPT ![l] = <<>>] ELSE flight
    /\ wish' = -1
    /\ UNCHANGED <<slider, apply>>

\* apply_automation: one `choose` per row, front row first, by the slider as it
\* is by then.  The calls return at once (MQTT).
ApplyRow ==
    /\ apply # 0
    /\ flight' = Called(Rows[apply], IF RowIsOn(slider, apply) THEN "on" ELSE "off")
    /\ apply' = IF apply = Len(Rows) THEN 0 ELSE apply + 1
    /\ UNCHANGED <<slider, lit, sync, hands, wish>>

\* A light obeys.
Obey(l) ==
    /\ flight[l] # <<>>
    /\ SetLight(l, Head(flight[l]).to)
    /\ flight' = [flight EXCEPT ![l] = Tail(flight[l])]
    /\ UNCHANGED <<slider, apply, hands, wish>>

\* sync_automation: the delay is over.
SyncSets ==
    /\ sync = 0
    /\ SetSlider(Value)
    /\ sync' = -1
    /\ UNCHANGED <<lit, flight, hands, wish>>

\* Time passes when nothing is due.
Tick ==
    /\ apply = 0 /\ sync # 0
    /\ sync > 0 \/ \E l \in Lights : flight[l] # <<>>
    /\ \A l \in Lights : \A i \in DOMAIN flight[l] : flight[l][i].age < Lag
    /\ flight' = [l \in Lights |->
                    [i \in DOMAIN flight[l] |-> [flight[l][i] EXCEPT !.age = @ + 1]]]
    /\ sync' = IF sync > 0 THEN sync - 1 ELSE sync
    /\ UNCHANGED <<slider, lit, apply, hands, wish>>

System == ApplyRow \/ (\E l \in Lights : Obey(l)) \/ SyncSets \/ Tick

Next ==
    \/ \E v \in Values : Slide(v)
    \/ AllOff
    \/ \E l \in Lights, s \in States : Elsewhere(l, s)
    \/ ApplyRow
    \/ \E l \in Lights : Obey(l)
    \/ SyncSets
    \/ Tick

\* Home Assistant runs what is triggered, lights obey, and time passes.
Fairness == WF_vars(System)

Spec == Init /\ [][Next]_vars /\ Fairness

------------------------------------------------------------------------------
TypeOK ==
    /\ slider \in Values
    /\ lit \in [Lights -> States]
    /\ flight \in [Lights -> Seq(Command)]
    /\ apply \in 0..Len(Rows)
    /\ sync \in -1..Debounce
    /\ hands \in 0..MaxHands
    /\ wish \in -1..Len(Rows)

\* "Keep the tablet row slider truthful when cans change elsewhere": at rest it
\* shows what is lit, whatever happened in which order, unless a light that it
\* cannot switch is unavailable.
SliderTruthful ==
    Idle => \/ slider = Value
            \/ /\ slider > Value
               /\ \E r \in DOMAIN Rows : \E l \in Rows[r] :
                    RowIsOn(slider, r) /\ lit[l] = "unavailable"

\* apply's row-by-row switching does not make the slider jump: what was slid, with
\* no run of sync about to end and until somebody switches a light elsewhere,
\* stays, and at rest just those rows are lit.
SlideHolds ==
    wish # -1 =>
        /\ slider = wish
        /\ Idle => \A r \in DOMAIN Rows, l \in Lights :
             l \in Rows[r] => (lit[l] = "on" <=> RowIsOn(wish, r))

\* "The apply/sync pair cannot loop": once nobody acts, it comes to rest.
Settles == <>[]Idle
==============================================================================
