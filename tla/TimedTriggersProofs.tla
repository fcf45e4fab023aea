-------------------------- MODULE TimedTriggersProofs --------------------------
(***************************************************************************)
(* Theorems about TimedTriggers, for every period, interval, horizon and   *)
(* adjustment of the clock.                                                *)
(***************************************************************************)
EXTENDS TimedTriggers, FiniteSetTheorems, TLAPS

\* Types, without the bounds of the runs.
Typed ==
  /\ time \in Nat /\ wall \in Int /\ fireAt \in Int
  /\ setForward \in Nat /\ setBack \in Nat
  /\ early \in Int
  /\ phase \in [Triggers -> {"ready", "sleeping", "running", "failed"}]
  /\ wakeAt \in [Triggers -> Int]
  /\ releases \in [Triggers -> Seq(Int)]

\* random_uniform may also return what is no number at all; what is accepted is one.
LEMMA ValidDelayType ==
  ASSUME NEW delay \in RandomValues, ValidDelay(delay)
  PROVE  delay \in Int /\ MinInterval <= delay
BY TimedAssumption DEF ValidDelay

\* The next slot is later than the instant it is asked for.
LEMMA NextFireLater ==
  ASSUME NEW after \in Int
  PROVE  NextFireTime(after) \in Int /\ NextFireTime(after) > after
<1> DEFINE q == after \div Period
           r == after % Period
<1>1. Period \in Nat /\ Period > 0
  BY TimedAssumption
<1>2. q \in Int /\ r \in Int /\ after = Period * q + r /\ r < Period
  BY <1>1
<1> HIDE DEF q, r
<1>3. (q + 1) * Period = Period * q + Period /\ Period * q \in Int
  BY <1>1, <1>2
<1>4. NextFireTime(after) = (q + 1) * Period
  BY DEF NextFireTime, q
<1> QED BY <1>1, <1>2, <1>3, <1>4

\* What CronTrigger.wait_next leaves behind: the slot and a sleep as long as the way
\* to it.
LEMMA CronSleep ==
  ASSUME Typed, CronWait
  PROVE  \E slot \in Int :
           /\ fireAt' = slot
           /\ wakeAt' = [wakeAt EXCEPT !["cron"] = time + (slot - wall)]
           /\ UNCHANGED <<history, clockVars>>
<1> DEFINE slot == NextFireTime(wall)
<1>1. wall \in Int /\ slot \in Int /\ slot > wall
  BY NextFireLater DEF Typed
<1>2. fireAt' = slot
  BY DEF CronWait
<1>3. wakeAt' = [wakeAt EXCEPT !["cron"] = time + (IF slot < wall THEN 0 ELSE slot - wall)]
  BY <1>2 DEF CronWait, Sleep
<1> HIDE DEF slot
<1>4. ~(slot < wall)
  BY <1>1
<1> QED BY <1>1, <1>2, <1>3, <1>4 DEF CronWait

LEMMA TypedStep == Typed /\ [Next]_vars => Typed'
<1> SUFFICES ASSUME Typed, [Next]_vars PROVE Typed'
  OBVIOUS
<1> USE TimedAssumption DEF Typed, waitVars, history, clockVars
<1>1. CASE Tick
  BY <1>1 DEF Tick
<1>2. CASE SetClock
  BY <1>2 DEF SetClock
<1>3. CASE IntervalWait
  BY <1>3, ValidDelayType DEF IntervalWait, Sleep
<1>4. CASE IntervalRaises
  BY <1>4 DEF IntervalRaises
<1>5. CASE CronWait
  <2>1. wakeAt' \in [Triggers -> Int]
    BY <1>5, CronSleep
  <2>2. phase' \in [Triggers -> {"ready", "sleeping", "running", "failed"}]
    BY <1>5 DEF CronWait, Sleep
  <2> QED BY <1>5, <2>1, <2>2, CronSleep
<1>6. ASSUME NEW t \in Triggers, Wake(t) PROVE Typed'
  <2> DEFINE x == IF t = "cron" THEN fireAt ELSE time
  <2>1. releases' \in [Triggers -> Seq(Int)]
    <3>1. x \in Int /\ releases[t] \in Seq(Int)
      OBVIOUS
    <3>2. releases' = [releases EXCEPT ![t] = Append(@, x)]
      BY <1>6 DEF Wake
    <3> HIDE DEF x
    <3>3. Append(releases[t], x) \in Seq(Int)
      BY <3>1
    <3> QED BY <3>2, <3>3
  <2>2. early' \in Int
    BY <1>6 DEF Wake, EarlyBy
  <2> QED BY <1>6, <2>1, <2>2 DEF Wake
<1>7. ASSUME NEW t \in Triggers, RunEnds(t) PROVE Typed'
  BY <1>7 DEF RunEnds
<1>8. CASE UNCHANGED vars
  BY <1>8 DEF vars
<1> QED BY <1>1, <1>2, <1>3, <1>4, <1>5, <1>6, <1>7, <1>8 DEF Next

-----------------------------------------------------------------------------
\* SleepAimsAtSlot (CronTrigger.wait_next, triggers.py 99-102): the sleep leads to its
\* slot, up to what the wall clock was set.
THEOREM SleepCorrect == Spec => []SleepAimsAtSlot
<1>1. Init => Typed /\ SleepAimsAtSlot
  BY DEF Init, Typed, SleepAimsAtSlot
<1>2. ASSUME Typed, SleepAimsAtSlot, [Next]_vars PROVE SleepAimsAtSlot'
  <2> USE TimedAssumption DEF Typed, SleepAimsAtSlot, waitVars, history, clockVars
  <2>1. CASE Tick
    BY <1>2, <2>1 DEF Tick
  <2>2. CASE SetClock
    BY <1>2, <2>2 DEF SetClock
  <2>3. CASE IntervalWait
    BY <1>2, <2>3 DEF IntervalWait, Sleep
  <2>4. CASE IntervalRaises
    BY <1>2, <2>4 DEF IntervalRaises
  <2>5. CASE CronWait
    <3>1. "cron" \in Triggers
      BY <2>5 DEF CronWait
    <3>2. PICK slot \in Int :
            /\ fireAt' = slot
            /\ wakeAt' = [wakeAt EXCEPT !["cron"] = time + (slot - wall)]
            /\ UNCHANGED <<history, clockVars>>
      BY <1>2, <2>5, CronSleep
    <3>3. wakeAt'["cron"] = time + (slot - wall)
      BY <1>2, <3>1, <3>2
    <3>4. wall + (wakeAt'["cron"] - time) = slot
      BY <1>2, <3>3
    <3> QED BY <1>2, <3>2, <3>4
  <2>6. ASSUME NEW t \in Triggers, Wake(t) \/ RunEnds(t) PROVE SleepAimsAtSlot'
    <3>1. UNCHANGED <<wakeAt, fireAt, clockVars>>
      BY <2>6 DEF Wake, RunEnds
    <3>2. "cron" \in Triggers /\ phase'["cron"] = "sleeping" => phase["cron"] = "sleeping"
      BY <1>2, <2>6 DEF Wake, RunEnds
    <3> QED BY <1>2, <3>1, <3>2
  <2>7. CASE UNCHANGED vars
    BY <1>2, <2>7 DEF vars
  <2> QED BY <1>2, <2>1, <2>2, <2>3, <2>4, <2>5, <2>6, <2>7 DEF Next
<1> QED BY <1>1, <1>2, TypedStep, PTL DEF Spec

-----------------------------------------------------------------------------
Last == LET r == releases["interval"] IN IF r = <<>> THEN 0 ELSE r[Len(r)]

\* No release lies in the future, and a sleep lasts the minimum from the last one.
IntervalInv ==
  "interval" \in Triggers =>
    /\ Last <= time
    /\ phase["interval"] = "sleeping" => wakeAt["interval"] >= Last + MinInterval

\* IntervalsKept (IntervalTrigger.next_delay, triggers.py 50-65): no random source
\* makes two executions follow each other faster than the minimum interval.
THEOREM IntervalsCorrect == Spec => []IntervalsKept
<1>1. Init => Typed /\ IntervalInv /\ IntervalsKept
  BY DEF Init, Typed, IntervalInv, IntervalsKept, Last
<1>2. ASSUME Typed, IntervalInv, IntervalsKept, [Next]_vars
      PROVE  IntervalInv' /\ IntervalsKept'
  <2> USE TimedAssumption DEF Typed, IntervalInv, IntervalsKept, Last, waitVars, history, clockVars
  <2>1. CASE Tick
    BY <1>2, <2>1 DEF Tick
  <2>2. CASE SetClock
    BY <1>2, <2>2 DEF SetClock
  <2>3. CASE IntervalWait
    BY <1>2, <2>3, ValidDelayType DEF IntervalWait, Sleep
  <2>4. CASE IntervalRaises
    BY <1>2, <2>4 DEF IntervalRaises
  <2>5. CASE CronWait
    BY <1>2, <2>5 DEF CronWait, Sleep
  <2>6. ASSUME NEW t \in Triggers, Wake(t) PROVE IntervalInv' /\ IntervalsKept'
    <3>1. CASE t # "interval"
      BY <1>2, <2>6, <3>1 DEF Wake
    <3>2. CASE t = "interval"
      <4> DEFINE r == releases["interval"]
      <4>1. /\ phase["interval"] = "sleeping" /\ phase'["interval"] = "running"
            /\ releases'["interval"] = Append(r, time)
            /\ time' = time
        BY <1>2, <2>6, <3>2 DEF Wake
      <4>2. time + Early >= wakeAt["interval"]
        BY <1>2, <2>6, <3>2 DEF Wake, EarlyBy
      <4>3. r \in Seq(Int) /\ time \in Int
        BY <1>2, <3>2
      <4>4. /\ Len(Append(r, time)) = Len(r) + 1
            /\ \A i \in 1..Len(r) : Append(r, time)[i] = r[i]
            /\ Append(r, time)[Len(r) + 1] = time
            /\ DOMAIN r = 1..Len(r) /\ DOMAIN Append(r, time) = 1..(Len(r) + 1)
            /\ Append(r, time) # <<>> /\ Len(r) \in Nat
        BY <4>3
      <4>5. \A i \in 1..Len(r) :
              r[i] \in Int /\ r[i] + Early >= MinInterval + (IF i = 1 THEN 0 ELSE r[i - 1])
        BY <1>2, <3>2, <4>3, <4>4
      <4>6. Last = IF Len(r) = 0 THEN 0 ELSE r[Len(r)]
        BY <4>3
      <4>7. time + Early >= MinInterval + Last
        <5>1. wakeAt["interval"] >= Last + MinInterval /\ wakeAt["interval"] \in Int
          BY <1>2, <3>2, <4>1
        <5>2. Last \in Int
          BY <4>3, <4>4, <4>5, <4>6
        <5> QED BY <4>2, <4>3, <5>1, <5>2
      <4> HIDE DEF r, Last, IntervalsKept, Typed, IntervalInv
      <4>8. Last' = time
        BY <4>1, <4>3, <4>4 DEF Last
      <4>9. ASSUME NEW i \in 1..(Len(r) + 1)
            PROVE  Append(r, time)[i] + Early
                     >= MinInterval + (IF i = 1 THEN 0 ELSE Append(r, time)[i - 1])
        <5>1. CASE i \in 1..Len(r)
          BY <4>4, <4>5, <5>1
        <5>2. CASE i = Len(r) + 1
          <6>1. Append(r, time)[i] = time
            BY <4>4, <5>2
          <6>2. (IF i = 1 THEN 0 ELSE Append(r, time)[i - 1]) = Last
            <7>1. i - 1 = Len(r) /\ (i = 1 <=> Len(r) = 0)
              BY <4>4, <5>2
            <7>2. Len(r) # 0 => Len(r) \in 1..Len(r)
              BY <4>4
            <7>3. Len(r) # 0 => Append(r, time)[Len(r)] = r[Len(r)]
              BY <4>4, <7>2
            <7> QED BY <4>6, <7>1, <7>3
          <6> QED BY <4>7, <6>1, <6>2
        <5> QED BY <4>4, <5>1, <5>2
      <4>10. IntervalsKept'
        BY <4>1, <4>4, <4>9 DEF IntervalsKept
      <4> QED BY <4>1, <4>3, <4>8, <4>10 DEF IntervalInv
    <3> QED BY <3>1, <3>2
  <2>7. ASSUME NEW t \in Triggers, RunEnds(t) PROVE IntervalInv' /\ IntervalsKept'
    BY <1>2, <2>7 DEF RunEnds
  <2>8. CASE UNCHANGED vars
    BY <1>2, <2>8 DEF vars
  <2> QED BY <1>2, <2>1, <2>2, <2>3, <2>4, <2>5, <2>6, <2>7, <2>8 DEF Next
<1> QED BY <1>1, <1>2, TypedStep, PTL DEF Spec
-----------------------------------------------------------------------------
(* What the repeated slots have cost. *)

Slots    == releases["cron"]
LastSlot == Slots[Len(Slots)]
Arrival  == wall + (wakeAt["cron"] - time)
Spent    == setBack + early

\* The slot that a sleep leads to was released before.
AboutToRepeat == Slots # <<>> /\ fireAt <= LastSlot

\* What a sleep has to be paid for: the repetitions so far and the one it leads to.
Owed == Cardinality(Repeats) + (IF AboutToRepeat THEN 1 ELSE 0)

\* Between the releases, the wall clock is behind the last slot by what was spent
\* without a repetition yet; during a sleep, by what was spent since it began.
RepeatsPaid ==
  "cron" \in Triggers =>
    /\ IsFiniteSet(Repeats)
    /\ IF phase["cron"] = "sleeping"
       THEN Owed <= Spent /\ Owed + fireAt <= Spent + Arrival
       ELSE /\ Cardinality(Repeats) <= Spent
            /\ Slots # <<>> => Cardinality(Repeats) + LastSlot <= Spent + wall

\* A release repeats at most the slot it is for.
LEMMA RepeatsAfter ==
  ASSUME Typed, "cron" \in Triggers, IsFiniteSet(Repeats),
         Slots' = Append(Slots, fireAt)
  PROVE  /\ IsFiniteSet(Repeats')
         /\ Cardinality(Repeats') = Cardinality(Repeats) + (IF AboutToRepeat THEN 1 ELSE 0)
         /\ Slots' # <<>> /\ LastSlot' = fireAt
<1> DEFINE s == Slots
           n == Len(s)
<1>1. s \in Seq(Int) /\ fireAt \in Int
  BY DEF Typed, Slots
<1>2. /\ n \in Nat /\ DOMAIN s = 1..n
      /\ DOMAIN s' = 1..(n + 1) /\ Len(s') = n + 1
      /\ \A i \in 1..n : s'[i] = s[i]
      /\ s'[n + 1] = fireAt
      /\ s = <<>> <=> n = 0
  BY <1>1
<1>3. s' # <<>> /\ LastSlot' = fireAt
  BY <1>2 DEF LastSlot
<1>4. /\ Repeats = {i \in 1..n : i > 1 /\ s[i] <= s[i - 1]}
      /\ Repeats' = {i \in 1..(n + 1) : i > 1 /\ s'[i] <= s'[i - 1]}
  BY <1>2 DEF Repeats, Slots
<1>5. \A i \in 1..n : i \in Repeats' <=> i \in Repeats
  <2> SUFFICES ASSUME NEW i \in 1..n PROVE i \in Repeats' <=> i \in Repeats
    OBVIOUS
  <2>1. i \in 1..(n + 1) /\ s'[i] = s[i] /\ (i > 1 => i - 1 \in 1..n)
    BY <1>2
  <2>2. i > 1 => s'[i - 1] = s[i - 1]
    BY <1>2, <2>1
  <2> HIDE DEF s, n
  <2> QED BY <1>4, <2>1, <2>2
<1>6. n + 1 \in Repeats' <=> AboutToRepeat
  <2>1. n + 1 \in Repeats' <=> n + 1 > 1 /\ s'[n + 1] <= s'[n]
    <3>1. n + 1 \in 1..(n + 1) /\ (n + 1) - 1 = n
      BY <1>2
    <3> HIDE DEF s, n
    <3> QED BY <1>4, <3>1
  <2>2. LastSlot = s[n] /\ (AboutToRepeat <=> n # 0 /\ fireAt <= LastSlot)
    BY <1>2 DEF LastSlot, AboutToRepeat
  <2> HIDE DEF s, n, LastSlot, AboutToRepeat
  <2>3. n # 0 => n \in 1..n
    BY <1>2
  <2>4. n # 0 => s'[n] = LastSlot
    BY <1>2, <2>2, <2>3
  <2>5. n + 1 > 1 <=> n # 0
    BY <1>2
  <2> QED BY <1>2, <2>1, <2>2, <2>4, <2>5
<1>7. n + 1 \notin Repeats
  <2> HIDE DEF s
  <2> QED BY <1>2, <1>4
<1>8. Repeats' = IF AboutToRepeat THEN Repeats \cup {n + 1} ELSE Repeats
  <2>1. 1..(n + 1) = (1..n) \cup {n + 1}
    BY <1>2
  <2>2. Repeats \subseteq 1..n /\ Repeats' \subseteq 1..(n + 1)
    BY <1>4
  <2> HIDE DEF s, n, Repeats, AboutToRepeat
  <2>3. Repeats' \subseteq (1..n) \cup {n + 1}
    BY <2>1, <2>2
  <2>4. ASSUME AboutToRepeat PROVE Repeats' = Repeats \cup {n + 1}
    BY <1>5, <1>6, <2>2, <2>3, <2>4, Zenon
  <2>5. ASSUME ~AboutToRepeat PROVE Repeats' = Repeats
    BY <1>5, <1>6, <2>2, <2>3, <2>5, Zenon
  <2> QED BY <2>4, <2>5
<1>9. /\ IsFiniteSet(Repeats \cup {n + 1})
      /\ Cardinality(Repeats \cup {n + 1}) = Cardinality(Repeats) + 1
  BY <1>7, FS_AddElement
<1>10. Cardinality(Repeats) \in Nat
  BY FS_CardinalityType
<1> HIDE DEF n
<1> QED BY <1>3, <1>8, <1>9, <1>10

\* An account that is in balance stays so when the budget and the clock move together.
LEMMA Balance ==
  ASSUME NEW debt \in Int, NEW at \in Int, NEW spent \in Int, NEW more \in Int,
         NEW clock \in Int, NEW later \in Int,
         debt + at <= spent + clock, spent + clock <= more + later
  PROVE  debt + at <= more + later
OBVIOUS

\* What a clock gains on the loop's time, an arrival gains too.
LEMMA Gain ==
  ASSUME NEW spent \in Int, NEW more \in Int, NEW clock \in Int, NEW later \in Int,
         NEW now \in Int, NEW next \in Int, NEW end \in Int,
         spent + clock - now <= more + later - next
  PROVE  spent + (clock + (end - now)) <= more + (later + (end - next))
OBVIOUS

\* A clock that moves and a budget that grows by as much as the clock falls back keep
\* the account.
LEMMA PaidUnchanged ==
  ASSUME Typed, RepeatsPaid, wall' \in Int, time' \in Int, Spent' \in Int,
         UNCHANGED <<releases, fireAt>>,
         "cron" \in Triggers => wakeAt'["cron"] = wakeAt["cron"],
         "cron" \in Triggers =>
           (phase'["cron"] = "sleeping" <=> phase["cron"] = "sleeping"),
         Spent <= Spent', Spent + wall <= Spent' + wall',
         Spent + wall - time <= Spent' + wall' - time'
  PROVE  RepeatsPaid'
<1> SUFFICES ASSUME "cron" \in Triggers
             PROVE  /\ IsFiniteSet(Repeats')
                    /\ IF phase'["cron"] = "sleeping"
                       THEN Owed' <= Spent' /\ Owed' + fireAt' <= Spent' + Arrival'
                       ELSE /\ Cardinality(Repeats') <= Spent'
                            /\ Slots' # <<>> =>
                                 Cardinality(Repeats') + LastSlot' <= Spent' + wall'
  BY DEF RepeatsPaid
<1>1. Slots' = Slots /\ LastSlot' = LastSlot /\ Repeats' = Repeats
      /\ Owed' = Owed /\ fireAt' = fireAt
  BY DEF Slots, LastSlot, Repeats, AboutToRepeat, Owed
<1>2. IsFiniteSet(Repeats) /\ Cardinality(Repeats) \in Nat
  BY FS_CardinalityType DEF RepeatsPaid
<1>3. /\ Spent \in Int /\ wall \in Int /\ time \in Int /\ fireAt \in Int
      /\ wakeAt["cron"] \in Int
  BY DEF Typed, Spent
<1>4. Slots # <<>> => LastSlot \in Int
  BY DEF Typed, LastSlot, Slots
<1>5. CASE phase["cron"] = "sleeping"
  <2>1. Owed <= Spent /\ Owed + fireAt <= Spent + Arrival
    BY <1>5 DEF RepeatsPaid
  <2>2. Owed \in Int
    BY <1>2 DEF Owed
  <2>3. Arrival \in Int /\ Arrival' \in Int
    BY <1>3 DEF Arrival
  <2>4. Spent + Arrival <= Spent' + Arrival'
    BY <1>3, Gain DEF Arrival
  <2>5. Owed + fireAt <= Spent' + Arrival'
    BY <1>3, <2>1, <2>2, <2>3, <2>4, Balance
  <2>6. Owed <= Spent'
    BY <1>3, <2>1, <2>2
  <2> QED BY <1>1, <1>2, <1>5, <2>5, <2>6
<1>6. CASE phase["cron"] # "sleeping"
  <2>1. /\ Cardinality(Repeats) <= Spent
        /\ Slots # <<>> => Cardinality(Repeats) + LastSlot <= Spent + wall
    BY <1>6 DEF RepeatsPaid
  <2> DEFINE repeated == Cardinality(Repeats)
  <2> HIDE DEF Spent, repeated, LastSlot, Slots
  <2>2. /\ repeated \in Int /\ repeated <= Spent
        /\ Slots # <<>> => repeated + LastSlot <= Spent + wall
    BY <1>2, <2>1 DEF repeated
  <2>3. /\ repeated <= Spent'
        /\ Slots # <<>> => repeated + LastSlot <= Spent' + wall'
    <3>1. repeated <= Spent'
      BY <1>3, <2>2
    <3>2. ASSUME Slots # <<>> PROVE repeated + LastSlot <= Spent' + wall'
      BY <1>3, <1>4, <2>2, <3>2, Balance
    <3> QED BY <3>1, <3>2
  <2>4. /\ Cardinality(Repeats') <= Spent'
        /\ Slots' # <<>> => Cardinality(Repeats') + LastSlot' <= Spent' + wall'
    BY <1>1, <2>3 DEF repeated
  <2> QED BY <1>1, <1>2, <1>6, <2>4
<1> QED BY <1>5, <1>6

LEMMA PaidStep ==
  ASSUME Typed, RepeatsPaid, [Next]_vars
  PROVE  RepeatsPaid'
<1>types. /\ wall \in Int /\ time \in Int /\ Spent \in Int /\ fireAt \in Int
          /\ setBack \in Int /\ early \in Int
          /\ phase \in [Triggers -> {"ready", "sleeping", "running", "failed"}]
          /\ wakeAt \in [Triggers -> Int]
  BY DEF Typed, Spent
<1>1. CASE Tick
  BY <1>1, <1>types, PaidUnchanged DEF Tick, Spent, waitVars, history
<1>2. CASE SetClock
  <2>1. /\ \/ wall' = wall + 1 /\ Spent' = Spent
           \/ wall' = wall - 1 /\ Spent' = Spent + 1
        /\ UNCHANGED <<time, waitVars, history>>
    BY <1>2, <1>types DEF SetClock, Spent, history
  <2> HIDE DEF Spent
  <2> QED BY <1>types, <2>1, PaidUnchanged DEF waitVars, history
<1>3. CASE IntervalWait
  BY <1>3, <1>types, PaidUnchanged DEF IntervalWait, Sleep, Spent, history, clockVars
<1>4. CASE IntervalRaises
  BY <1>4, <1>types, PaidUnchanged DEF IntervalRaises, Spent, history, clockVars
<1>5. CASE CronWait
  <2>1. "cron" \in Triggers /\ phase["cron"] = "ready"
    BY <1>5 DEF CronWait
  <2>2. PICK slot \in Int :
          /\ fireAt' = slot
          /\ slot > wall
          /\ wakeAt' = [wakeAt EXCEPT !["cron"] = time + (slot - wall)]
          /\ UNCHANGED <<history, clockVars>>
    BY <1>5, CronSleep, NextFireLater DEF Typed, CronWait
  <2>3. phase'["cron"] = "sleeping"
    BY <1>5, <2>1, <1>types DEF CronWait, Sleep
  <2>4. Arrival' = fireAt'
    <3>1. wakeAt'["cron"] = time + (slot - wall)
      BY <2>1, <2>2, <1>types
    <3> QED BY <2>2, <3>1, <1>types DEF Arrival, clockVars
  <2>5. Slots' = Slots /\ LastSlot' = LastSlot /\ Repeats' = Repeats /\ Spent' = Spent
    BY <2>2 DEF Slots, LastSlot, Repeats, Spent, history, clockVars
  <2>6. /\ IsFiniteSet(Repeats) /\ Cardinality(Repeats) \in Nat
        /\ Cardinality(Repeats) <= Spent
        /\ Slots # <<>> => Cardinality(Repeats) + LastSlot <= Spent + wall
    BY <2>1, FS_CardinalityType DEF RepeatsPaid
  <2>7. Slots # <<>> => LastSlot \in Int
    BY <2>1 DEF Typed, LastSlot, Slots
  <2>8. AboutToRepeat' => Cardinality(Repeats) + 1 <= Spent
    BY <2>2, <2>5, <2>6, <2>7, <1>types DEF AboutToRepeat
  <2>9. Owed' <= Spent' /\ Owed' + fireAt' <= Spent' + Arrival'
    <3>1. Owed' \in Int /\ Owed' <= Spent
      <4> HIDE DEF Spent, Repeats, AboutToRepeat
      <4> QED BY <2>5, <2>6, <2>8, <1>types DEF Owed
    <3>2. Spent' = Spent /\ fireAt' \in Int
      BY <2>2, <2>5
    <3>3. Owed' + fireAt' <= Spent + fireAt'
      <4>1. \A a, b, c \in Int : a <= b => a + c <= b + c
        OBVIOUS
      <4>2. Spent \in Int
        BY <1>types
      <4> QED BY <3>1, <3>2, <4>1, <4>2, Zenon
    <3> QED BY <2>4, <3>1, <3>2, <3>3, Zenon
  <2> QED BY <2>3, <2>5, <2>6, <2>9 DEF RepeatsPaid
<1>6. ASSUME NEW t \in Triggers, Wake(t) PROVE RepeatsPaid'
  <2> DEFINE by == EarlyBy(t)
  <2>1. by \in Nat /\ wakeAt[t] - time <= by
    BY <1>types DEF EarlyBy
  <2>a. early' = early + by /\ setBack' = setBack
    BY <1>6 DEF Wake, clockVars
  <2>b. UNCHANGED <<wakeAt, fireAt, wall, time>>
    BY <1>6 DEF Wake, clockVars
  <2> HIDE DEF by
  <2>2. /\ Spent' = Spent + by
        /\ UNCHANGED <<wakeAt, fireAt, wall, time>>
    BY <2>1, <2>a, <2>b, <1>types DEF Spent
  <2> HIDE DEF by, Spent
  <2>3. CASE t # "cron"
    <3>1. "cron" \in Triggers => phase'["cron"] = phase["cron"] /\ Slots' = Slots
      BY <1>6, <2>3, <1>types DEF Wake, Typed, Slots
    <3>2. "cron" \in Triggers =>
             LastSlot' = LastSlot /\ Repeats' = Repeats /\ Owed' = Owed
      BY <2>2, <3>1 DEF LastSlot, Repeats, AboutToRepeat, Slots, Owed
    <3> SUFFICES ASSUME "cron" \in Triggers PROVE RepeatsPaid'
      BY DEF RepeatsPaid
    <3>3. IsFiniteSet(Repeats) /\ Cardinality(Repeats) \in Nat
      BY FS_CardinalityType DEF RepeatsPaid
    <3>4. Slots # <<>> => LastSlot \in Int
      BY DEF Typed, LastSlot, Slots
    <3>5. Arrival' = Arrival /\ Arrival \in Int
      BY <2>2, <1>types DEF Arrival
    <3>6. CASE phase["cron"] = "sleeping"
      <4>1. Owed <= Spent /\ Owed + fireAt <= Spent + Arrival
        BY <3>6 DEF RepeatsPaid
      <4>2. Owed' <= Spent' /\ Owed' + fireAt' <= Spent' + Arrival'
        <5>1. Owed \in Int
          BY <3>3 DEF Owed
        <5> HIDE DEF Owed, Arrival
        <5> QED BY <2>1, <2>2, <3>2, <3>5, <4>1, <5>1, <1>types
      <4> QED BY <3>1, <3>2, <3>3, <3>6, <4>2 DEF RepeatsPaid
    <3>7. CASE phase["cron"] # "sleeping"
      <4>1. /\ Cardinality(Repeats) <= Spent
            /\ Slots # <<>> => Cardinality(Repeats) + LastSlot <= Spent + wall
        BY <3>7 DEF RepeatsPaid
      <4>2. /\ Cardinality(Repeats') <= Spent'
            /\ Slots' # <<>> => Cardinality(Repeats') + LastSlot' <= Spent' + wall'
        BY <2>1, <2>2, <3>1, <3>2, <3>3, <3>4, <4>1, <1>types
      <4> QED BY <3>1, <3>2, <3>3, <3>7, <4>2 DEF RepeatsPaid
    <3> QED BY <3>6, <3>7
  <2>4. CASE t = "cron"
    <3>1. /\ "cron" \in Triggers /\ phase["cron"] = "sleeping"
          /\ phase'["cron"] = "running"
          /\ Slots' = Append(Slots, fireAt)
      BY <1>6, <2>4, <1>types DEF Wake, Typed, Slots
    <3>2. /\ IsFiniteSet(Repeats)
          /\ Owed <= Spent /\ Owed + fireAt <= Spent + Arrival
      BY <3>1 DEF RepeatsPaid
    <3>3. /\ IsFiniteSet(Repeats')
          /\ Cardinality(Repeats') = Cardinality(Repeats) + (IF AboutToRepeat THEN 1 ELSE 0)
          /\ Slots' # <<>> /\ LastSlot' = fireAt
      BY <3>1, <3>2, RepeatsAfter
    <3>4. Cardinality(Repeats') \in Nat
      BY <3>3, FS_CardinalityType
    <3>5. Cardinality(Repeats') <= Spent /\ Cardinality(Repeats') + fireAt <= Spent + Arrival
      BY <3>2, <3>3 DEF Owed
    <3>6. Arrival <= wall + by /\ Arrival \in Int
      BY <2>1, <2>4, <1>types DEF Arrival
    <3>7. /\ Cardinality(Repeats') <= Spent'
          /\ Cardinality(Repeats') + LastSlot' <= Spent' + wall'
      <4> HIDE DEF Arrival
      <4> QED BY <2>1, <2>2, <3>3, <3>4, <3>5, <3>6, <1>types
    <3> QED BY <3>1, <3>3, <3>7 DEF RepeatsPaid
  <2> QED BY <2>3, <2>4
<1>7. ASSUME NEW t \in Triggers, RunEnds(t) PROVE RepeatsPaid'
  BY <1>7, <1>types, PaidUnchanged DEF RunEnds, Spent, history, clockVars
<1>8. CASE UNCHANGED vars
  BY <1>8, <1>types, PaidUnchanged DEF vars, waitVars, history, clockVars, Spent
<1> QED BY <1>1, <1>2, <1>3, <1>4, <1>5, <1>6, <1>7, <1>8 DEF Next

\* RepeatsNeedClock (CronTrigger.wait_next, triggers.py 99-102): each slot released
\* again costs a unit by which the wall clock was set back or the loop woke early.
THEOREM RepeatsCorrect == Spec => []RepeatsNeedClock
<1>1. Init => Typed /\ RepeatsPaid
  <2> SUFFICES ASSUME Init PROVE Typed /\ RepeatsPaid
    OBVIOUS
  <2>1. Typed
    BY DEF Init, Typed
  <2>2. "cron" \in Triggers => Repeats = {} /\ Slots = <<>> /\ phase["cron"] = "ready"
    BY DEF Init, Repeats, Slots
  <2>3. Spent = 0
    BY DEF Init, Spent
  <2> QED BY <2>1, <2>2, <2>3, FS_EmptySet DEF RepeatsPaid
<1>2. RepeatsPaid /\ Typed => RepeatsNeedClock
  <2> SUFFICES ASSUME RepeatsPaid, Typed, "cron" \in Triggers
               PROVE  Cardinality(Repeats) <= Spent
    BY DEF RepeatsNeedClock, Spent
  <2>1. IsFiniteSet(Repeats) /\ Cardinality(Repeats) \in Nat /\ Spent \in Int
    BY FS_CardinalityType DEF RepeatsPaid, Typed, Spent
  <2>2. CASE phase["cron"] = "sleeping"
    <3>1. Owed <= Spent
      BY <2>2 DEF RepeatsPaid
    <3> QED BY <2>1, <3>1 DEF Owed
  <2>3. CASE phase["cron"] # "sleeping"
    BY <2>3 DEF RepeatsPaid
  <2> QED BY <2>2, <2>3
<1>3. Typed /\ RepeatsPaid /\ [Next]_vars => Typed' /\ RepeatsPaid'
  BY TypedStep, PaidStep
<1> QED BY <1>1, <1>2, <1>3, PTL DEF Spec
================================================================================
