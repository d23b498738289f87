--------------------------- MODULE RowSlider_proofs ---------------------------
(* Theorems about RowSlider, for any lights, rows, delays and number of       *)
(* things people do.                                                          *)
EXTENDS RowSlider, WellFoundedInduction, TLAPS

\* n is what the lights say: the rows that it counts are lit, the next is not.
Says(n) ==
    /\ \A r \in DOMAIN Rows : RowIsOn(n, r) => RowLit(r)
    /\ n < Len(Rows) => ~RowLit(Len(Rows) - n)

LEMMA RowsAre ==
    ASSUME SliderAssumption
    PROVE  /\ Len(Rows) \in Nat /\ DOMAIN Rows = 1..Len(Rows)
           /\ \A r \in 1..Len(Rows) : Rows[r] \subseteq Lights /\ Rows[r] # {}
<1>1. Rows \in Seq((SUBSET Lights) \ {{}})
  BY DEF SliderAssumption
<1>2. \A r \in 1..Len(Rows) : Rows[r] \in (SUBSET Lights) \ {{}}
  BY <1>1
<1> QED
  BY <1>1, <1>2

(* The lights always say something, and only one thing.                       *)
LEMMA SomethingSaid == ASSUME SliderAssumption PROVE \E n \in Values : Says(n)
<1> DEFINE stops == {n \in Values : n = Len(Rows) \/ ~RowLit(Len(Rows) - n)}
           less  == {ss \in Nat \X Nat : ss[1] < ss[2]}
<1>1. Len(Rows) \in stops /\ stops \subseteq Nat
  BY RowsAre DEF Values
<1>2. IsWellFoundedOn(less, Nat)
  BY NatLessThanWellFounded DEF OpToRel
<1>3. PICK n \in stops : \A m \in stops : <<m, n>> \notin less
  <2> HIDE DEF stops, less
  <2> QED
    BY <1>1, <1>2, WFMin
<1>4. \A m \in stops : ~(m < n)
  BY <1>1, <1>3
<1>5. ASSUME NEW r \in DOMAIN Rows, RowIsOn(n, r) PROVE RowLit(r)
  <2>1. r \in 1..Len(Rows) /\ n >= Len(Rows) + 1 - r /\ n \in Nat /\ Len(Rows) \in Nat
    BY <1>1, <1>5, RowsAre DEF RowIsOn
  <2>2. Len(Rows) - r \in Values /\ Len(Rows) - r < n /\ Len(Rows) - (Len(Rows) - r) = r
    BY <2>1 DEF Values
  <2>3. Len(Rows) - r \notin stops
    BY <1>4, <2>2
  <2> QED
    BY <2>2, <2>3
<1>6. n < Len(Rows) => ~RowLit(Len(Rows) - n)
  BY RowsAre
<1> QED
  BY <1>5, <1>6 DEF Says

LEMMA ValueSays == ASSUME SliderAssumption PROVE Value \in Values /\ Says(Value)
<1>1. \E n \in Values : Says(n)
  BY SomethingSaid
<1> DEFINE v == CHOOSE n \in Values : Says(n)
<1>2. v \in Values /\ Says(v)
  BY <1>1
<1>3. Value = v
  BY DEF Value, Says
<1> QED
  BY <1>2, <1>3

LEMMA ValueIs ==
    ASSUME SliderAssumption, NEW n \in Values, Says(n)
    PROVE  Value = n
<1> DEFINE v == Value
<1>1. v \in Values /\ Says(v)
  BY ValueSays
<1> HIDE DEF v
<1>2. Len(Rows) \in Nat /\ DOMAIN Rows = 1..Len(Rows)
  BY RowsAre
<1>3. ASSUME NEW m \in Values, NEW k \in Values, Says(m), Says(k), m < k PROVE FALSE
  <2>1. Len(Rows) - m \in DOMAIN Rows /\ m < Len(Rows) /\ k >= Len(Rows) + 1 - (Len(Rows) - m)
    BY <1>2, <1>3 DEF Values
  <2> DEFINE r == Len(Rows) - m
  <2>2. RowIsOn(k, r)
    BY <2>1 DEF RowIsOn
  <2> QED
    BY <1>3, <2>1, <2>2 DEF Says
<1>4. v = n \/ v < n \/ n < v
  BY <1>1, <1>2 DEF Values
<1> QED
  BY <1>1, <1>3, <1>4 DEF v

------------------------------------------------------------------------------
LEMMA TypeInit == ASSUME SliderAssumption, Init PROVE TypeOK
<1>1. slider \in Values
  BY ValueSays DEF Init
<1> QED
  BY <1>1, RowsAre DEF Init, TypeOK, SliderAssumption, Values

(* What a set of calls does to the queues.                                    *)
LEMMA CalledTyped ==
    ASSUME SliderAssumption, TypeOK, NEW ls, NEW to \in {"on", "off"}
    PROVE  Called(ls, to) \in [Lights -> Seq(Command)]
<1>1. [to |-> to, age |-> 0] \in Command
  BY DEF Command, SliderAssumption
<1>2. \A l \in Lights : flight[l] \in Seq(Command)
  BY DEF TypeOK
<1>3. \A l \in Lights : Append(flight[l], [to |-> to, age |-> 0]) \in Seq(Command)
  BY <1>1, <1>2
<1> QED
  BY <1>2, <1>3 DEF Called

LEMMA TypeNext == ASSUME SliderAssumption, TypeOK, [Next]_vars PROVE TypeOK'
<1> USE DEF SliderAssumption
<1>1. Len(Rows) \in Nat /\ (\A v \in Values : v \in -1..Len(Rows)) /\ Debounce \in -1..Debounce
  BY RowsAre DEF Values
<1>0. ASSUME NEW v \in Values, SetSlider(v)
      PROVE  slider' \in Values /\ apply' \in 0..Len(Rows)
  <2>1. v # slider => 1 \in 0..Len(Rows)
    BY <1>1 DEF TypeOK, Values
  <2> QED
    BY <1>0, <2>1 DEF SetSlider, TypeOK
<1>2. ASSUME NEW v \in Values, Slide(v) PROVE TypeOK'
  <2>1. /\ slider' \in Values /\ apply' \in 0..Len(Rows) /\ wish' \in -1..Len(Rows)
        /\ hands' \in 0..MaxHands /\ UNCHANGED <<lit, flight, sync>>
    BY <1>0, <1>1, <1>2 DEF Slide, Hand, TypeOK
  <2> QED
    BY <2>1 DEF TypeOK
<1>3. CASE AllOff
  BY <1>1, <1>3, CalledTyped DEF AllOff, Hand, TypeOK
<1>4. ASSUME NEW l \in Lights, NEW s \in States, Elsewhere(l, s) PROVE TypeOK'
  <2>1. flight' \in [Lights -> Seq(Command)]
    BY <1>4 DEF Elsewhere, TypeOK
  <2>2. lit' \in [Lights -> States] /\ sync' \in -1..Debounce
    BY <1>1, <1>4 DEF Elsewhere, SetLight, TypeOK
  <2>3. hands' \in 0..MaxHands /\ wish' \in -1..Len(Rows)
    BY <1>1, <1>4 DEF Elsewhere, Hand, TypeOK
  <2> QED
    BY <1>4, <2>1, <2>2, <2>3 DEF Elsewhere, TypeOK
<1>5. CASE ApplyRow
  <2>1. flight' \in [Lights -> Seq(Command)]
    BY <1>5, CalledTyped DEF ApplyRow
  <2>2. apply' \in 0..Len(Rows)
    BY <1>1, <1>5 DEF ApplyRow, TypeOK
  <2> QED
    BY <1>5, <2>1, <2>2 DEF ApplyRow, TypeOK
<1>6. ASSUME NEW l \in Lights, Obey(l) PROVE TypeOK'
  <2>1. flight[l] \in Seq(Command) /\ flight[l] # <<>>
    BY <1>6 DEF Obey, TypeOK
  <2>2. Head(flight[l]).to \in States /\ Tail(flight[l]) \in Seq(Command)
    <3>1. Head(flight[l]) \in Command /\ Tail(flight[l]) \in Seq(Command)
      BY <2>1
    <3> QED
      BY <3>1 DEF Command, States
  <2>3. flight' \in [Lights -> Seq(Command)]
    BY <1>6, <2>2 DEF Obey, TypeOK
  <2> QED
    BY <1>1, <1>6, <2>2, <2>3 DEF Obey, SetLight, TypeOK
<1>7. CASE SyncSets
  <2>1. Value \in Values
    BY ValueSays
  <2> QED
    BY <1>0, <1>7, <2>1 DEF SyncSets, TypeOK
<1>8. CASE Tick
  <2>1. ASSUME NEW l \in Lights
        PROVE  [i \in DOMAIN flight[l] |-> [flight[l][i] EXCEPT !.age = @ + 1]] \in Seq(Command)
    <3>1. flight[l] \in Seq(Command) /\ \A i \in DOMAIN flight[l] : flight[l][i].age < Lag
      BY <1>8 DEF Tick, TypeOK
    <3>2. ASSUME NEW i \in DOMAIN flight[l]
          PROVE  [flight[l][i] EXCEPT !.age = @ + 1] \in Command
      <4>1. PICK c \in Command : c = flight[l][i]
        BY <3>1
      <4>2. c.age \in 0..Lag /\ c.age < Lag
        BY <3>1, <4>1 DEF Command
      <4>3. c.age + 1 \in 0..Lag
        BY <4>2
      <4>4. [c EXCEPT !.age = @ + 1] \in Command
        BY <4>3 DEF Command
      <4> QED
        BY <4>1, <4>4
    <3>3. DOMAIN flight[l] = 1..Len(flight[l]) /\ Len(flight[l]) \in Nat
      BY <3>1
    <3> DEFINE older == [i \in DOMAIN flight[l] |-> [flight[l][i] EXCEPT !.age = @ + 1]]
    <3>4. older \in [1..Len(flight[l]) -> Command]
      BY <3>2, <3>3
    <3> HIDE DEF older
    <3>5. older \in Seq(Command)
      BY <3>3, <3>4
    <3> QED
      BY <3>5 DEF older
  <2>2. flight' \in [Lights -> Seq(Command)]
    BY <1>8, <2>1 DEF Tick
  <2>3. sync' \in -1..Debounce
    BY <1>8 DEF Tick, TypeOK
  <2> QED
    BY <1>8, <2>2, <2>3 DEF Tick, TypeOK
<1>9. CASE UNCHANGED vars
  BY <1>9 DEF vars, TypeOK
<1> QED
  BY <1>2, <1>3, <1>4, <1>5, <1>6, <1>7, <1>8, <1>9 DEF Next

------------------------------------------------------------------------------
\* What apply's run has called, or calls, a light of row r to.
Target(r) == IF RowIsOn(slider, r) THEN "on" ELSE "off"

\* Light l of row r obeys it, or will, or is unavailable.
Comes(l, r) ==
    \/ lit[l] \in {"unavailable", Target(r)}
    \/ \E i \in DOMAIN flight[l] : flight[l][i].to = Target(r)

\* apply has called row r.
Done(r) == apply = 0 \/ r < apply

\* Without a run of sync, the slider shows what is lit, or all the lights that
\* apply has called come to what it shows.
Truth ==
    sync = -1 => \/ slider = Value
                 \/ \A r \in DOMAIN Rows : Done(r) => \A l \in Rows[r] : Comes(l, r)

LEMMA ValueKept == ASSUME lit' = lit PROVE Value' = Value
  BY DEF Value, RowLit

LEMMA TruthKept ==
    ASSUME Truth, lit' = lit, slider' = slider, sync' = -1 => sync = -1,
           \A r \in DOMAIN Rows : \A l \in Rows[r] :
              Done(r)' => Comes(l, r)' \/ (Done(r) /\ (Comes(l, r) => Comes(l, r)'))
    PROVE  Truth'
<1>1. Value' = Value
  BY ValueKept
<1> QED
  BY <1>1 DEF Truth

(* Calls are added to what a light has to do.                                 *)
LEMMA CallsAdd ==
    ASSUME SliderAssumption, TypeOK, NEW ls, NEW to \in {"on", "off"}, flight' = Called(ls, to),
           NEW l \in Lights
    PROVE  /\ \A i \in DOMAIN flight[l] : i \in DOMAIN flight'[l] /\ flight'[l][i] = flight[l][i]
           /\ (l \in ls /\ lit[l] # "unavailable") =>
                /\ flight'[l] # <<>> /\ flight'[l] \in Seq(Command)
                /\ DOMAIN flight'[l] = 1..Len(flight'[l])
                /\ flight'[l][Len(flight'[l])] = [to |-> to, age |-> 0]
                /\ \A i \in DOMAIN flight'[l] : i \in DOMAIN flight[l] \/ flight'[l][i].age = 0
           /\ ~(l \in ls /\ lit[l] # "unavailable") => flight'[l] = flight[l]
<1> DEFINE e == [to |-> to, age |-> 0]
<1>1. e \in Command /\ flight[l] \in Seq(Command)
  <2>1. 0 \in 0..Lag
    BY DEF SliderAssumption
  <2> QED
    BY <2>1 DEF Command, TypeOK
<1>2. \A q \in Seq(Command), c \in Command :
        /\ Append(q, c) # <<>> /\ Append(q, c) \in Seq(Command)
        /\ DOMAIN Append(q, c) = 1..Len(Append(q, c))
        /\ Append(q, c)[Len(Append(q, c))] = c
        /\ \A i \in DOMAIN q : i \in DOMAIN Append(q, c) /\ Append(q, c)[i] = q[i]
        /\ \A i \in DOMAIN Append(q, c) : i \in DOMAIN q \/ Append(q, c)[i] = c
  <2> SUFFICES ASSUME NEW q \in Seq(Command), NEW c \in Command
      PROVE  /\ Append(q, c) # <<>> /\ Append(q, c) \in Seq(Command)
             /\ DOMAIN Append(q, c) = 1..Len(Append(q, c))
             /\ Append(q, c)[Len(Append(q, c))] = c
             /\ \A i \in DOMAIN q : i \in DOMAIN Append(q, c) /\ Append(q, c)[i] = q[i]
             /\ \A i \in DOMAIN Append(q, c) : i \in DOMAIN q \/ Append(q, c)[i] = c
    OBVIOUS
  <2>1. /\ Append(q, c) \in Seq(Command) /\ Len(Append(q, c)) = Len(q) + 1 /\ Len(q) \in Nat
        /\ Append(q, c)[Len(q) + 1] = c
        /\ DOMAIN q = 1..Len(q) /\ DOMAIN Append(q, c) = 1..(Len(q) + 1)
    OBVIOUS
  <2>2. \A i \in 1..Len(q) : Append(q, c)[i] = q[i]
    OBVIOUS
  <2> QED
    BY <2>1, <2>2
<1>3. CASE l \in ls /\ lit[l] # "unavailable"
  <2>1. PICK q \in Seq(Command) : q = flight[l]
    BY <1>1
  <2>2. PICK c \in Command : c = e /\ c.age = 0
    BY <1>1
  <2>3. flight'[l] = Append(q, c)
    BY <1>3, <2>1, <2>2 DEF Called
  <2> HIDE DEF e
  <2>4. /\ \A i \in DOMAIN flight[l] : i \in DOMAIN flight'[l] /\ flight'[l][i] = flight[l][i]
        /\ flight'[l] # <<>> /\ flight'[l] \in Seq(Command)
        /\ DOMAIN flight'[l] = 1..Len(flight'[l])
        /\ flight'[l][Len(flight'[l])] = c
    BY <1>2, <2>1, <2>3
  <2>5. \A i \in DOMAIN flight'[l] : i \in DOMAIN flight[l] \/ flight'[l][i].age = 0
    BY <1>2, <2>1, <2>2, <2>3
  <2> QED
    BY <1>3, <2>2, <2>4, <2>5 DEF e
<1>4. CASE ~(l \in ls /\ lit[l] # "unavailable")
  BY <1>4 DEF Called
<1> QED
  BY <1>3, <1>4

(* What is left of a queue when its first call is obeyed.                     *)
LEMMA TailOf ==
    ASSUME NEW q \in Seq(Command), q # <<>>
    PROVE  /\ 1 \in DOMAIN q
           /\ \A i \in DOMAIN Tail(q) : i + 1 \in DOMAIN q /\ Tail(q)[i] = q[i + 1]
           /\ \A i \in DOMAIN q : i # 1 => i - 1 \in DOMAIN Tail(q) /\ Tail(q)[i - 1] = q[i]
           /\ Tail(q) = <<>> => q[Len(q)] = q[1]
           /\ Tail(q) # <<>> => Tail(q)[Len(Tail(q))] = q[Len(q)]
<1>1. /\ Len(q) \in Nat \ {0} /\ Tail(q) \in Seq(Command) /\ Len(Tail(q)) = Len(q) - 1
      /\ DOMAIN q = 1..Len(q) /\ DOMAIN Tail(q) = 1..(Len(q) - 1)
  OBVIOUS
<1>2. \A i \in 1..(Len(q) - 1) : Tail(q)[i] = q[i + 1]
  OBVIOUS
<1>3. CASE Len(q) = 1
  <2>1. Tail(q) = <<>>
    BY <1>1, <1>3
  <2> QED
    BY <1>1, <1>3, <2>1
<1>4. CASE Len(q) # 1
  <2>1. Len(q) - 1 \in 1..(Len(q) - 1) /\ Tail(q) # <<>>
    BY <1>1, <1>4
  <2> QED
    BY <1>1, <1>2, <2>1
<1>5. ASSUME NEW i \in DOMAIN q, i # 1
      PROVE  i - 1 \in DOMAIN Tail(q) /\ Tail(q)[i - 1] = q[i]
  <2>1. i - 1 \in 1..(Len(q) - 1) /\ (i - 1) + 1 = i
    BY <1>1, <1>5
  <2> QED
    BY <1>1, <1>2, <2>1
<1>6. \A i \in DOMAIN Tail(q) : i + 1 \in DOMAIN q /\ Tail(q)[i] = q[i + 1]
  BY <1>1, <1>2
<1> QED
  BY <1>1, <1>3, <1>4, <1>5, <1>6

LEMMA TruthNext == ASSUME SliderAssumption, TypeOK, Truth, [Next]_vars PROVE Truth'
<1>1. ASSUME NEW v \in Values, Slide(v) PROVE Truth'
  <2>1. SetSlider(v) /\ UNCHANGED <<lit, flight, sync>>
    BY <1>1 DEF Slide
  <2>2. CASE v = slider
    BY <2>1, <2>2, TruthKept DEF SetSlider, Done, Comes, Target
  <2>3. CASE v # slider
    <3>1. \A r \in DOMAIN Rows : ~Done(r)'
      BY <2>1, <2>3, RowsAre DEF SetSlider, Done
    <3> QED
      BY <3>1 DEF Truth
  <2> QED
    BY <2>2, <2>3
<1>2. CASE AllOff
  <2>1. flight' = Called(Lights, "off") /\ UNCHANGED <<slider, lit, apply, sync>>
    BY <1>2 DEF AllOff
  <2>2. ASSUME NEW r \in DOMAIN Rows, NEW l \in Rows[r], Comes(l, r) PROVE Comes(l, r)'
    <3>1. l \in Lights
      BY RowsAre
    <3>2. \A i \in DOMAIN flight[l] : i \in DOMAIN flight'[l] /\ flight'[l][i] = flight[l][i]
      BY <2>1, <3>1, CallsAdd
    <3> QED
      BY <2>1, <2>2, <3>2 DEF Comes, Target
  <2>3. \A r : Done(r)' <=> Done(r)
    BY <2>1 DEF Done
  <2> QED
    BY <2>1, <2>2, <2>3, TruthKept
<1>3. ASSUME NEW l \in Lights, NEW s \in States, Elsewhere(l, s) PROVE Truth'
  <2>1. sync' = Debounce /\ Debounce \in Nat
    BY <1>3 DEF Elsewhere, SetLight, SliderAssumption
  <2> QED
    BY <2>1 DEF Truth
<1>4. CASE ApplyRow
  <2>1. /\ apply # 0 /\ UNCHANGED <<slider, lit, sync>>
        /\ flight' = Called(Rows[apply], Target(apply))
        /\ apply' = IF apply = Len(Rows) THEN 0 ELSE apply + 1
        /\ Target(apply) \in {"on", "off"}
    BY <1>4 DEF ApplyRow, Target
  <2>2. ASSUME NEW r \in DOMAIN Rows, Done(r)' PROVE r = apply \/ Done(r)
    BY <2>1, <2>2, RowsAre DEF Done, TypeOK
  <2>3. ASSUME NEW r \in DOMAIN Rows, NEW l \in Rows[r], r = apply \/ Comes(l, r)
        PROVE  Comes(l, r)'
    <3>1. l \in Lights
      BY RowsAre
    <3>2. CASE r = apply /\ lit[l] # "unavailable"
      <4>1. /\ flight'[l] # <<>> /\ flight'[l] \in Seq(Command)
            /\ DOMAIN flight'[l] = 1..Len(flight'[l])
            /\ flight'[l][Len(flight'[l])] = [to |-> Target(r), age |-> 0]
        BY <2>1, <3>1, <3>2, CallsAdd
      <4>2. Len(flight'[l]) \in DOMAIN flight'[l]
        BY <4>1
      <4>3. flight'[l][Len(flight'[l])].to = Target(r)'
        BY <2>1, <4>1 DEF Target
      <4> QED
        BY <4>2, <4>3 DEF Comes
    <3>3. CASE r = apply /\ lit[l] = "unavailable"
      BY <2>1, <3>3 DEF Comes
    <3>4. CASE Comes(l, r)
      <4>1. \A i \in DOMAIN flight[l] : i \in DOMAIN flight'[l] /\ flight'[l][i] = flight[l][i]
        BY <2>1, <3>1, CallsAdd
      <4> QED
        BY <2>1, <3>4, <4>1 DEF Comes, Target
    <3> QED
      BY <2>3, <3>2, <3>3, <3>4
  <2> QED
    BY <2>1, <2>2, <2>3, TruthKept
<1>5. ASSUME NEW l \in Lights, Obey(l) PROVE Truth'
  <2>1. /\ flight[l] # <<>> /\ SetLight(l, Head(flight[l]).to)
        /\ flight' = [flight EXCEPT ![l] = Tail(flight[l])]
        /\ UNCHANGED <<slider, apply>>
    BY <1>5 DEF Obey
  <2>2. flight \in [Lights -> Seq(Command)] /\ lit \in [Lights -> States]
    BY DEF TypeOK
  <2>3. CASE Head(flight[l]).to # lit[l]
    <3>1. sync' = Debounce /\ Debounce \in Nat
      BY <2>1, <2>3 DEF SetLight, SliderAssumption
    <3> QED
      BY <3>1 DEF Truth
  <2>4. CASE Head(flight[l]).to = lit[l]
    <3>1. lit' = lit /\ sync' = sync
      BY <2>1, <2>2, <2>4 DEF SetLight
    <3>2. ASSUME NEW m \in Lights, NEW i \in DOMAIN flight[m]
          PROVE  \/ lit[m] = flight[m][i].to
                 \/ \E j \in DOMAIN flight'[m] : flight'[m][j] = flight[m][i]
      <4>1. CASE m # l
        BY <2>1, <2>2, <4>1
      <4>2. CASE m = l /\ i = 1
        BY <2>2, <2>4, <4>2
      <4>3. CASE m = l /\ i # 1
        <5>1. PICK q \in Seq(Command) : q = flight[m]
          BY <2>2
        <5>2. q # <<>> /\ flight'[m] = Tail(q) /\ i \in DOMAIN q /\ i # 1
          BY <2>1, <2>2, <4>3, <5>1
        <5>3. i - 1 \in DOMAIN Tail(q) /\ Tail(q)[i - 1] = q[i]
          BY <5>2, TailOf
        <5> QED
          BY <5>1, <5>2, <5>3
      <4> QED
        BY <4>1, <4>2, <4>3
    <3>3. ASSUME NEW r \in DOMAIN Rows, NEW m \in Rows[r], Comes(m, r) PROVE Comes(m, r)'
      <4>1. m \in Lights
        BY RowsAre
      <4>2. Target(r)' = Target(r) /\ lit'[m] = lit[m]
        BY <2>1, <3>1 DEF Target
      <4>3. CASE lit[m] \in {"unavailable", Target(r)}
        BY <4>2, <4>3 DEF Comes
      <4>4. CASE \E i \in DOMAIN flight[m] : flight[m][i].to = Target(r)
        <5>1. PICK i \in DOMAIN flight[m] : flight[m][i].to = Target(r)
          BY <4>4
        <5> QED
          BY <3>2, <4>1, <4>2, <5>1 DEF Comes
      <4> QED
        BY <3>3, <4>3, <4>4 DEF Comes
    <3>4. \A r : Done(r)' <=> Done(r)
      BY <2>1 DEF Done
    <3> QED
      BY <2>1, <3>1, <3>3, <3>4, TruthKept
  <2> QED
    BY <2>3, <2>4
<1>6. CASE SyncSets
  <2>1. slider' = Value /\ lit' = lit
    BY <1>6 DEF SyncSets, SetSlider
  <2> QED
    BY <2>1, ValueKept DEF Truth
<1>7. CASE Tick
  <2>1. UNCHANGED <<slider, lit, apply>> /\ (sync' = -1 => sync = -1)
    BY <1>7 DEF Tick, TypeOK
  <2>2. ASSUME NEW r \in DOMAIN Rows, NEW l \in Rows[r], Comes(l, r) PROVE Comes(l, r)'
    <3>1. l \in Lights
      BY RowsAre
    <3>2. flight'[l] = [i \in DOMAIN flight[l] |-> [flight[l][i] EXCEPT !.age = @ + 1]]
      BY <1>7, <3>1 DEF Tick
    <3>3. \A i \in DOMAIN flight[l] : flight[l][i] \in Command
      BY <3>1 DEF TypeOK
    <3>4. \A i \in DOMAIN flight[l] : flight'[l][i].to = flight[l][i].to
      BY <3>2, <3>3 DEF Command
    <3> QED
      BY <2>1, <2>2, <3>2, <3>4 DEF Comes, Target
  <2>3. \A r : Done(r)' <=> Done(r)
    BY <2>1 DEF Done
  <2> QED
    BY <2>1, <2>2, <2>3, TruthKept
<1>8. CASE UNCHANGED vars
  BY <1>8, TruthKept DEF vars, Done, Comes, Target
<1> QED
  BY <1>1, <1>2, <1>3, <1>4, <1>5, <1>6, <1>7, <1>8 DEF Next

------------------------------------------------------------------------------
\* The state that light l comes to when it has done all it was called to do.
Final(l) == IF flight[l] = <<>> THEN lit[l] ELSE flight[l][Len(flight[l])].to

\* Light l comes to what the slider says of row r.
Obeys(l, r) == Final(l) = Target(r)

\* While a wish stands, the slider shows it, nothing that is under way outlasts
\* the delay of a run of sync, and apply's calls are the last of each light.
Wish ==
    wish # -1 =>
        /\ slider = wish
        /\ \A l \in Lights : lit[l] # "unavailable"
        /\ sync # -1 => /\ apply # 0 => sync > Lag
                        /\ \A l \in Lights : \A i \in DOMAIN flight[l] :
                             sync > Lag - flight[l][i].age
        /\ \A r \in DOMAIN Rows : Done(r) => \A l \in Rows[r] : Obeys(l, r)

(* When all lights are as the slider says, it is as they say.                 *)
LEMMA TruthfulWhen ==
    ASSUME SliderAssumption, slider \in Values,
           \A r \in DOMAIN Rows : \A l \in Rows[r] : lit[l] = "on" <=> RowIsOn(slider, r)
    PROVE  Value = slider
<1>1. \A r \in DOMAIN Rows : RowLit(r) <=> RowIsOn(slider, r)
  BY RowsAre DEF RowLit
<1>2. slider < Len(Rows) => /\ Len(Rows) - slider \in DOMAIN Rows
                            /\ ~RowIsOn(slider, Len(Rows) - slider)
  BY RowsAre DEF Values, RowIsOn
<1>3. Says(slider)
  BY <1>1, <1>2 DEF Says
<1> QED
  BY <1>3, ValueIs

LEMMA WishNext ==
    ASSUME SliderAssumption, Lag < Debounce, TypeOK, Wish, [Next]_vars
    PROVE  Wish'
<1>1. /\ Lag \in Nat /\ Debounce \in Nat /\ sync \in Int /\ slider \in Values
      /\ flight \in [Lights -> Seq(Command)] /\ lit \in [Lights -> States]
      /\ \A v \in Values : v # -1
      /\ \A r \in DOMAIN Rows : Rows[r] \subseteq Lights
  BY RowsAre DEF SliderAssumption, TypeOK, Values
<1>2. \A l \in Lights : \A i \in DOMAIN flight[l] : flight[l][i] \in Command /\ flight[l][i].age \in 0..Lag
  <2>1. \A l \in Lights : \A i \in DOMAIN flight[l] : flight[l][i] \in Command
    BY <1>1
  <2> QED
    BY <2>1 DEF Command
<1>3. ASSUME NEW v \in Values, Slide(v) PROVE Wish'
  <2>1. /\ SetSlider(v) /\ UNCHANGED <<lit, flight, sync>>
        /\ wish' # -1 => /\ sync = -1 \/ sync > Lag
                         /\ \A l \in Lights : lit[l] # "unavailable"
                         /\ wish' = IF v = slider THEN wish ELSE v
    BY <1>3 DEF Slide
  <2>2. CASE v = slider
    BY <2>1, <2>2 DEF SetSlider, Wish, Done, Obeys, Final, Target
  <2>3. CASE v # slider
    <3> SUFFICES ASSUME wish' # -1 PROVE Wish'
      BY DEF Wish
    <3>1. slider' = v /\ apply' = 1 /\ wish' = v
      BY <2>1, <2>3 DEF SetSlider
    <3>2. \A r \in DOMAIN Rows : ~Done(r)'
      BY <3>1, RowsAre DEF Done
    <3>3. \A l \in Lights : \A i \in DOMAIN flight[l] : sync = -1 \/ sync > Lag - flight[l][i].age
      BY <1>1, <1>2, <2>1
    <3> QED
      BY <2>1, <3>1, <3>2, <3>3 DEF Wish
  <2> QED
    BY <2>2, <2>3
<1>4. CASE AllOff
  BY <1>4 DEF AllOff, Wish
<1>5. ASSUME NEW l \in Lights, NEW s \in States, Elsewhere(l, s) PROVE Wish'
  BY <1>5 DEF Elsewhere, Wish
<1>6. CASE ApplyRow
  <2> SUFFICES ASSUME wish # -1 PROVE Wish'
    BY <1>6 DEF ApplyRow, Wish
  <2>1. /\ apply # 0 /\ UNCHANGED <<slider, lit, sync, wish>>
        /\ flight' = Called(Rows[apply], Target(apply))
        /\ apply' = IF apply = Len(Rows) THEN 0 ELSE apply + 1
        /\ Target(apply) \in {"on", "off"} /\ apply \in DOMAIN Rows
    BY <1>6, RowsAre DEF ApplyRow, Target, TypeOK
  <2>2. /\ slider = wish /\ \A l \in Lights : lit[l] # "unavailable"
        /\ sync # -1 => /\ sync > Lag
                        /\ \A l \in Lights : \A i \in DOMAIN flight[l] :
                             sync > Lag - flight[l][i].age
        /\ \A r \in DOMAIN Rows : Done(r) => \A l \in Rows[r] : Obeys(l, r)
    BY <2>1 DEF Wish
  <2>3. ASSUME NEW l \in Lights
        PROVE  /\ l \in Rows[apply] =>
                    /\ flight'[l] # <<>>
                    /\ flight'[l][Len(flight'[l])] = [to |-> Target(apply), age |-> 0]
                    /\ \A i \in DOMAIN flight'[l] :
                         \/ i \in DOMAIN flight[l] /\ flight'[l][i] = flight[l][i]
                         \/ flight'[l][i].age = 0
               /\ l \notin Rows[apply] => flight'[l] = flight[l]
    BY <2>1, <2>2, CallsAdd
  <2>4. ASSUME sync # -1, NEW l \in Lights, NEW i \in DOMAIN flight'[l]
        PROVE  sync > Lag - flight'[l][i].age
    <3>1. CASE l \in Rows[apply] /\ flight'[l][i].age = 0
      BY <1>1, <2>2, <2>4, <3>1
    <3>2. CASE i \in DOMAIN flight[l] /\ flight'[l][i] = flight[l][i]
      BY <2>2, <2>4, <3>2
    <3> QED
      BY <2>3, <3>1, <3>2
  <2>5. ASSUME NEW r \in DOMAIN Rows, Done(r)', NEW l \in Rows[r] PROVE Obeys(l, r)'
    <3>1. l \in Lights /\ Target(r)' = Target(r)
      BY <1>1, <2>1 DEF Target
    <3>2. CASE r = apply
      <4>1. Final(l)' = Target(r)
        BY <2>3, <3>1, <3>2 DEF Final
      <4> QED
        BY <3>1, <4>1 DEF Obeys
    <3>3. CASE r # apply
      <4>1. Done(r)
        <5>1. Len(Rows) \in Nat /\ r \in 1..Len(Rows) /\ apply \in 1..Len(Rows)
          BY <2>1, RowsAre
        <5>2. CASE apply = Len(Rows)
          BY <3>3, <5>1, <5>2 DEF Done
        <5>3. CASE apply # Len(Rows)
          <6>1. apply' = apply + 1 /\ r < apply + 1
            BY <2>1, <2>5, <5>1, <5>3 DEF Done
          <6> QED
            BY <3>3, <5>1, <6>1 DEF Done
        <5> QED
          BY <5>2, <5>3
      <4>2. l \notin Rows[apply]
        BY <2>1, <3>3 DEF SliderAssumption
      <4>3. Final(l)' = Final(l)
        BY <2>1, <2>3, <3>1, <4>2 DEF Final
      <4> QED
        BY <2>2, <3>1, <4>1, <4>3 DEF Obeys
    <3> QED
      BY <3>2, <3>3
  <2> QED
    BY <2>1, <2>2, <2>4, <2>5 DEF Wish
<1>7. ASSUME NEW l \in Lights, Obey(l) PROVE Wish'
  <2> SUFFICES ASSUME wish # -1 PROVE Wish'
    BY <1>7 DEF Obey, Wish
  <2>1. /\ flight[l] # <<>> /\ SetLight(l, Head(flight[l]).to)
        /\ flight' = [flight EXCEPT ![l] = Tail(flight[l])]
        /\ UNCHANGED <<slider, apply, wish>>
    BY <1>7 DEF Obey
  <2>2. /\ slider = wish /\ \A m \in Lights : lit[m] # "unavailable"
        /\ sync # -1 => /\ apply # 0 => sync > Lag
                        /\ \A m \in Lights : \A i \in DOMAIN flight[m] :
                             sync > Lag - flight[m][i].age
        /\ \A r \in DOMAIN Rows : Done(r) => \A m \in Rows[r] : Obeys(m, r)
    BY DEF Wish
  <2>3. /\ flight[l] \in Seq(Command) /\ Head(flight[l]) = flight[l][1] /\ 1 \in DOMAIN flight[l]
        /\ Head(flight[l]) \in Command
    BY <1>1, <2>1
  <2>4. /\ lit'[l] = Head(flight[l]).to /\ lit'[l] # "unavailable"
        /\ \A m \in Lights : m # l => lit'[m] = lit[m] /\ flight'[m] = flight[m]
        /\ flight'[l] = Tail(flight[l])
        /\ sync' = sync \/ sync' = Debounce
    BY <1>1, <2>1, <2>3 DEF SetLight, Command
  <2>5. ASSUME NEW i \in DOMAIN flight'[l]
        PROVE  i + 1 \in DOMAIN flight[l] /\ flight'[l][i] = flight[l][i + 1]
    <3>1. PICK q \in Seq(Command) : q = flight[l]
      BY <2>3
    <3>2. q # <<>> /\ flight'[l] = Tail(q)
      BY <2>1, <2>4, <3>1
    <3>3. i + 1 \in DOMAIN q /\ Tail(q)[i] = q[i + 1]
      BY <2>5, <3>2, TailOf
    <3> QED
      BY <3>1, <3>2, <3>3
  <2>6. ASSUME NEW m \in Lights, NEW i \in DOMAIN flight'[m]
        PROVE  flight'[m][i].age \in 0..Lag /\ (sync # -1 => sync > Lag - flight'[m][i].age)
    <3>1. CASE m = l
      BY <1>2, <2>2, <2>5, <3>1
    <3>2. CASE m # l
      BY <1>2, <2>2, <2>4, <3>2
    <3> QED
      BY <3>1, <3>2
  <2>7. sync' # -1 => /\ apply # 0 => sync' > Lag
                      /\ \A m \in Lights : \A i \in DOMAIN flight'[m] :
                           sync' > Lag - flight'[m][i].age
    <3>1. CASE sync' = sync
      BY <2>2, <2>6, <3>1
    <3>2. CASE sync' = Debounce
      <4>1. \A n \in 0..Lag : Debounce > Lag - n
        BY <1>1
      <4>2. \A m \in Lights : \A i \in DOMAIN flight'[m] : Debounce > Lag - flight'[m][i].age
        BY <2>6, <4>1
      <4> QED
        BY <1>1, <3>2, <4>2
    <3> QED
      BY <2>4, <3>1, <3>2
  <2>8. Final(l)' = Final(l)
    <3>1. CASE flight'[l] = <<>>
      BY <2>1, <2>3, <2>4, <3>1, TailOf DEF Final
    <3>2. CASE flight'[l] # <<>>
      BY <2>1, <2>3, <2>4, <3>2, TailOf DEF Final
    <3> QED
      BY <3>1, <3>2
  <2>9. \A m \in Lights : Final(m)' = Final(m)
    BY <2>4, <2>8 DEF Final
  <2>10. \A r \in DOMAIN Rows : Done(r)' => \A m \in Rows[r] : Obeys(m, r)'
    BY <1>1, <2>1, <2>2, <2>9 DEF Done, Obeys, Target
  <2> QED
    BY <2>1, <2>2, <2>4, <2>7, <2>10 DEF Wish
<1>8. CASE SyncSets
  <2> SUFFICES ASSUME wish # -1 PROVE Wish'
    BY <1>8 DEF SyncSets, Wish
  <2>1. sync = 0 /\ SetSlider(Value) /\ sync' = -1 /\ UNCHANGED <<lit, flight, wish>>
    BY <1>8 DEF SyncSets
  <2>2. apply = 0
    BY <1>1, <2>1 DEF Wish
  <2>3. ASSUME NEW l \in Lights PROVE flight[l] = <<>>
    <3>1. \A i \in DOMAIN flight[l] : FALSE
      <4>1. \A i \in DOMAIN flight[l] : 0 > Lag - flight[l][i].age /\ flight[l][i].age \in 0..Lag
        BY <1>2, <2>1 DEF Wish
      <4>2. \A n \in 0..Lag : ~(0 > Lag - n)
        BY <1>1
      <4> QED
        BY <4>1, <4>2
    <3>2. flight[l] \in Seq(Command)
      BY <1>1
    <3>3. flight[l] # <<>> => 1 \in DOMAIN flight[l]
      BY <3>2, TailOf
    <3> QED
      BY <3>1, <3>3
  <2>4. \A r \in DOMAIN Rows : \A l \in Rows[r] : lit[l] = Target(r)
    BY <1>1, <2>2, <2>3 DEF Wish, Done, Obeys, Final
  <2>5. Value = slider
    BY <1>1, <2>4, TruthfulWhen DEF Target
  <2> QED
    BY <2>1, <2>2, <2>5 DEF SetSlider, Wish, Done, Obeys, Final, Target
<1>9. CASE Tick
  <2> SUFFICES ASSUME wish # -1 PROVE Wish'
    BY <1>9 DEF Tick, Wish
  <2>1. /\ apply = 0 /\ UNCHANGED <<slider, lit, apply, wish>>
        /\ sync' = IF sync > 0 THEN sync - 1 ELSE sync
        /\ sync # 0
    BY <1>9 DEF Tick
  <2>2. /\ slider = wish /\ \A l \in Lights : lit[l] # "unavailable"
        /\ sync # -1 => \A l \in Lights : \A i \in DOMAIN flight[l] :
                          sync > Lag - flight[l][i].age
        /\ \A r \in DOMAIN Rows : Done(r) => \A l \in Rows[r] : Obeys(l, r)
    BY DEF Wish
  <2>3. ASSUME NEW l \in Lights
        PROVE  /\ DOMAIN flight'[l] = DOMAIN flight[l] /\ Len(flight'[l]) = Len(flight[l])
               /\ flight'[l] = <<>> <=> flight[l] = <<>>
               /\ \A i \in DOMAIN flight[l] : /\ flight'[l][i].to = flight[l][i].to
                                              /\ flight'[l][i].age = flight[l][i].age + 1
    <3>1. flight'[l] = [i \in DOMAIN flight[l] |-> [flight[l][i] EXCEPT !.age = @ + 1]]
      BY <1>9 DEF Tick
    <3>2. flight[l] \in Seq(Command) /\ DOMAIN flight[l] = 1..Len(flight[l])
      BY <1>1
    <3>3. flight'[l] \in Seq(Command)
      BY TypeNext DEF TypeOK
    <3>4. \A i \in DOMAIN flight[l] : /\ flight'[l][i].to = flight[l][i].to
                                      /\ flight'[l][i].age = flight[l][i].age + 1
      BY <1>2, <3>1 DEF Command
    <3>5. DOMAIN flight'[l] = DOMAIN flight[l]
      BY <3>1
    <3>6. Len(flight'[l]) = Len(flight[l])
      BY <3>2, <3>3, <3>5
    <3> QED
      BY <3>2, <3>3, <3>4, <3>5, <3>6
  <2>4. sync' # -1 => \A l \in Lights : \A i \in DOMAIN flight'[l] :
                        sync' > Lag - flight'[l][i].age
    <3> SUFFICES ASSUME sync' # -1, NEW l \in Lights, NEW i \in DOMAIN flight'[l]
                 PROVE  sync' > Lag - flight'[l][i].age
      OBVIOUS
    <3>1. sync > 0 /\ sync' = sync - 1
      BY <1>1, <2>1 DEF TypeOK, SliderAssumption
    <3>2. flight'[l][i].age = flight[l][i].age + 1 /\ sync > Lag - flight[l][i].age
          /\ flight[l][i].age \in Int
      BY <1>2, <2>2, <2>3, <3>1
    <3>3. \A n, a \in Int : n > Lag - a => n - 1 > Lag - (a + 1)
      BY <1>1
    <3> QED
      BY <1>1, <3>1, <3>2, <3>3
  <2>5. \A l \in Lights : Final(l)' = Final(l)
    <3> SUFFICES ASSUME NEW l \in Lights PROVE Final(l)' = Final(l)
      OBVIOUS
    <3>1. CASE flight[l] = <<>>
      BY <2>1, <2>3, <3>1 DEF Final
    <3>2. CASE flight[l] # <<>>
      <4>1. Len(flight[l]) \in DOMAIN flight[l]
        BY <1>1, <3>2
      <4> QED
        BY <2>3, <3>2, <4>1 DEF Final
    <3> QED
      BY <3>1, <3>2
  <2>6. \A r \in DOMAIN Rows : Done(r)' => \A l \in Rows[r] : Obeys(l, r)'
    BY <1>1, <2>1, <2>2, <2>5 DEF Done, Obeys, Target
  <2> QED
    BY <2>1, <2>2, <2>4, <2>6 DEF Wish
<1>10. CASE UNCHANGED vars
  BY <1>10 DEF vars, Wish, Done, Obeys, Final, Target
<1> QED
  BY <1>3, <1>4, <1>5, <1>6, <1>7, <1>8, <1>9, <1>10 DEF Next

------------------------------------------------------------------------------
(* At rest, the two invariants say what the lights show.                      *)
LEMMA RestIsTruthful == ASSUME SliderAssumption, TypeOK, Truth PROVE SliderTruthful
<1> SUFFICES ASSUME Idle, slider # Value
             PROVE  /\ slider > Value
                    /\ \E r \in DOMAIN Rows : \E l \in Rows[r] :
                         RowIsOn(slider, r) /\ lit[l] = "unavailable"
  BY DEF SliderTruthful
<1>1. /\ slider \in Values /\ lit \in [Lights -> States]
      /\ Value \in Values /\ Says(Value)
  BY ValueSays DEF TypeOK
<1>2. ASSUME NEW r \in DOMAIN Rows, NEW l \in Rows[r] PROVE lit[l] \in {"unavailable", Target(r)}
  <2>1. l \in Lights /\ flight[l] = <<>>
    BY RowsAre DEF Idle
  <2>2. Comes(l, r)
    BY DEF Idle, Truth, Done
  <2> QED
    BY <2>1, <2>2 DEF Comes
<1>3. ASSUME NEW r \in DOMAIN Rows, ~RowIsOn(slider, r) PROVE ~RowLit(r)
  <2>1. PICK l \in Rows[r] : TRUE
    BY RowsAre
  <2>2. lit[l] \in {"unavailable", "off"}
    BY <1>2, <1>3 DEF Target
  <2> QED
    BY <2>2 DEF RowLit
<1>4. slider < Len(Rows) => /\ Len(Rows) - slider \in DOMAIN Rows
                            /\ ~RowIsOn(slider, Len(Rows) - slider)
  BY <1>1, RowsAre DEF Values, RowIsOn
<1>5. PICK r \in DOMAIN Rows : RowIsOn(slider, r) /\ ~RowLit(r)
  <2>1. CASE \A r \in DOMAIN Rows : RowIsOn(slider, r) => RowLit(r)
    <3>1. Says(slider)
      BY <1>3, <1>4, <2>1 DEF Says
    <3> QED
      BY <1>1, <3>1, ValueIs
  <2> QED
    BY <2>1
<1>6. PICK l \in Rows[r] : lit[l] = "unavailable"
  BY <1>2, <1>5 DEF RowLit, Target
<1>7. slider > Value
  <2> DEFINE v == Value
  <2>1. ~RowIsOn(v, r) /\ v \in Values
    BY <1>1, <1>5 DEF Says
  <2> HIDE DEF v
  <2>2. slider > v
    BY <1>1, <1>5, <2>1, RowsAre DEF RowIsOn, Values
  <2> QED
    BY <2>2 DEF v
<1> QED
  BY <1>5, <1>6, <1>7

LEMMA RestIsAsWished == ASSUME SliderAssumption, TypeOK, Wish PROVE SlideHolds
<1> SUFFICES ASSUME wish # -1
             PROVE  /\ slider = wish
                    /\ Idle => \A r \in DOMAIN Rows, l \in Lights :
                         l \in Rows[r] => (lit[l] = "on" <=> RowIsOn(wish, r))
  BY DEF SlideHolds
<1>1. slider = wish
  BY DEF Wish
<1>2. ASSUME Idle, NEW r \in DOMAIN Rows, NEW l \in Rows[r], l \in Lights
      PROVE  lit[l] = "on" <=> RowIsOn(wish, r)
  <2>1. Final(l) = Target(r)
    BY <1>2 DEF Idle, Wish, Done, Obeys
  <2> QED
    BY <1>1, <1>2, <2>1 DEF Idle, Final, Target
<1> QED
  BY <1>1, <1>2

\* The slider and the rows keep their types, whatever the rows and the delays.
THEOREM TypeCorrect == Spec => []TypeOK
<1>1. Init => TypeOK
  BY TypeInit, SliderAssumption
<1>2. TypeOK /\ [Next]_vars => TypeOK'
  BY TypeNext, SliderAssumption
<1> QED
  BY <1>1, <1>2, PTL DEF Spec

\* At rest the slider shows what is lit, or a light that it cannot switch is
\* unavailable (helpers.py: sync_automation, "Keep the tablet row slider truthful
\* when cans change elsewhere"), for any delays, also when lights answer slower
\* than sync waits.
THEOREM SliderTruthfulProved == Spec => []SliderTruthful
<1>1. Init => Truth
  BY DEF Init, Truth
<1>2. TypeOK /\ Truth /\ [Next]_vars => Truth'
  BY TruthNext, SliderAssumption
<1>3. TypeOK /\ Truth => SliderTruthful
  BY RestIsTruthful, SliderAssumption
<1> QED
  BY <1>1, <1>2, <1>3, TypeCorrect, PTL DEF Spec

\* What is slid stays, if the lights answer before sync's delay is over: the
\* delay is what keeps sync from setting the slider to rows half-switched.
THEOREM SlideHoldsProved == ASSUME Lag < Debounce PROVE Spec => []SlideHolds
<1>1. Init => Wish
  BY DEF Init, Wish
<1>2. TypeOK /\ Wish /\ [Next]_vars => Wish'
  BY WishNext, SliderAssumption
<1>3. TypeOK /\ Wish => SlideHolds
  BY RestIsAsWished, SliderAssumption
<1> QED
  BY <1>1, <1>2, <1>3, TypeCorrect, PTL DEF Spec
==============================================================================
