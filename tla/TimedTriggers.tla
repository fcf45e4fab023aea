---------------------------- MODULE TimedTriggers ----------------------------
(***************************************************************************)
(* IntervalTrigger and CronTrigger (triggers.py), each served in a loop:   *)
(* compute one delay, sleep for it, execute, wait again.  The sleep runs   *)
(* on the event loop's monotonic time; a CronTrigger computes its delay    *)
(* from the wall clock, which may be set forward and back meanwhile.       *)
(***************************************************************************)
EXTENDS Integers, Sequences, FiniteSets

CONSTANTS
  Triggers,      \* those served: "cron", "interval" or both
  Period,        \* a cron expression: its slots are the multiples of Period
  MinInterval, MaxInterval,  \* IntervalTrigger
  RandomValues,  \* what random_uniform may return; Bad is not a finite number
  Bad,
  Early,         \* how much too early the loop may wake a sleeper
  MaxEarly,      \* bound: by how much it does so, in all
  Horizon,       \* bound: when time ends
  MaxSettings    \* bound: by how much the wall clock is set, in all

ASSUME TimedAssumption ==
  /\ Triggers \subseteq {"cron", "interval"}
  /\ Period \in Nat \ {0}
  /\ MinInterval \in Nat \ {0}
  /\ MaxInterval \in Nat /\ MinInterval <= MaxInterval
  /\ RandomValues \subseteq Int
  /\ Bad \notin Int
  /\ Early \in Nat /\ MaxEarly \in Nat
  /\ Horizon \in Nat
  /\ MaxSettings \in Nat

VARIABLES
  time,       \* the event loop's monotonic time
  wall,       \* the wall clock
  phase,      \* each trigger's loop: ready (to wait), sleeping, running, failed
  wakeAt,     \* when the sleep of a trigger is over
  fireAt,     \* CronTrigger: the local `fire_at'
  releases,   \* history: the releases of each trigger: for an interval their
              \* time, for cron the slot they were computed for
  setForward, \* history: by how much the wall clock was set forward
  setBack,    \* history: by how much it was set back
  early       \* history: by how much sleeps ended early

waitVars  == <<phase, wakeAt, fireAt>>
history   == <<releases, early>>
clockVars == <<time, wall, setForward, setBack>>
vars      == <<waitVars, history, clockVars>>

Init ==
  /\ time = 0
  /\ wall = 0
  /\ phase = [t \in Triggers |-> "ready"]
  /\ wakeAt = [t \in Triggers |-> 0]
  /\ fireAt = 0
  /\ releases = [t \in Triggers |-> <<>>]
  /\ setForward = 0
  /\ setBack = 0
  /\ early = 0

-----------------------------------------------------------------------------
(* Time. *)

Tick ==
  /\ time < Horizon
  /\ time' = time + 1
  /\ wall' = wall + 1
  /\ UNCHANGED <<waitVars, history, setForward, setBack>>

SetClock ==
  /\ setForward + setBack < MaxSettings
  /\ \/ wall' = wall + 1 /\ setForward' = setForward + 1 /\ UNCHANGED setBack
     \/ wall' = wall - 1 /\ setBack' = setBack + 1 /\ UNCHANGED setForward
  /\ UNCHANGED <<time, waitVars, history>>

-----------------------------------------------------------------------------
(* wait_next. *)

Sleep(t, delay) ==
  /\ phase' = [phase EXCEPT ![t] = "sleeping"]
  /\ wakeAt' = [wakeAt EXCEPT ![t] = time + delay]

\* Mutant: the result of the random source is trusted.
ValidDelay_Any(delay) == delay # Bad

\* IntervalTrigger.next_delay accepts finite numbers in the interval.
ValidDelay(delay) == delay # Bad /\ MinInterval <= delay /\ delay <= MaxInterval

\* IntervalTrigger.wait_next.
IntervalWait ==
  /\ "interval" \in Triggers /\ phase["interval"] = "ready"
  /\ \E delay \in RandomValues :
       ValidDelay(delay) /\ Sleep("interval", delay)
  /\ UNCHANGED <<fireAt, history, clockVars>>

\* The random source raises or its result is refused: wait_next raises.
IntervalRaises ==
  /\ "interval" \in Triggers /\ phase["interval"] = "ready"
  /\ \E delay \in RandomValues \cup {Bad} : ~ValidDelay(delay)
  /\ phase' = [phase EXCEPT !["interval"] = "failed"]
  /\ UNCHANGED <<wakeAt, fireAt, history, clockVars>>

\* Mutant: a slot that is now counts as the next one.
NextFireTime_OrNow(after) == ((after + Period - 1) \div Period) * Period

\* CronTrigger.next_fire_time: the first slot after an instant.
NextFireTime(after) == ((after \div Period) + 1) * Period

\* Mutant: the sleep is one unit short.
CronWait_Short ==
  /\ "cron" \in Triggers /\ phase["cron"] = "ready"
  /\ fireAt' = NextFireTime(wall)
  /\ Sleep("cron", fireAt' - wall - 1)
  /\ UNCHANGED <<history, clockVars>>

\* CronTrigger.wait_next.
CronWait ==
  /\ "cron" \in Triggers /\ phase["cron"] = "ready"
  /\ fireAt' = NextFireTime(wall)
  /\ Sleep("cron", IF fireAt' < wall THEN 0 ELSE fireAt' - wall)
  /\ UNCHANGED <<history, clockVars>>

EarlyBy(t) == IF time < wakeAt[t] THEN wakeAt[t] - time ELSE 0

\* The sleep ends, on time or later, or earlier by the loop's resolution.
Wake(t) ==
  /\ phase[t] = "sleeping"
  /\ EarlyBy(t) <= Early /\ early + EarlyBy(t) <= MaxEarly
  /\ phase' = [phase EXCEPT ![t] = "running"]
  /\ releases' = [releases EXCEPT ![t] = Append(@, IF t = "cron" THEN fireAt ELSE time)]
  /\ early' = early + EarlyBy(t)
  /\ UNCHANGED <<wakeAt, fireAt, clockVars>>

\* The execution is over, after any time; serve waits again.
RunEnds(t) ==
  /\ phase[t] = "running"
  /\ phase' = [phase EXCEPT ![t] = "ready"]
  /\ UNCHANGED <<wakeAt, fireAt, history, clockVars>>

Next ==
  \/ Tick
  \/ SetClock
  \/ IntervalWait
  \/ IntervalRaises
  \/ CronWait
  \/ \E t \in Triggers : Wake(t) \/ RunEnds(t)

Spec == Init /\ [][Next]_vars

-----------------------------------------------------------------------------
(* Safety. *)

\* The releases of a slot that was released before, or of an earlier one.
Repeats ==
  LET slots == releases["cron"]
  IN  {i \in DOMAIN slots : i > 1 /\ slots[i] <= slots[i - 1]}

\* CronTrigger keeps no memory of the slot it released last: it releases one again
\* only because the wall clock was set back or the loop woke it too early, and at
\* most once for each unit of either; never because an execution was short.
RepeatsNeedClock ==
  "cron" \in Triggers => Cardinality(Repeats) <= setBack + early

\* What remains of a sleep leads to its slot, up to what the wall clock was set
\* since the sleep was computed: the one sleep is not corrected, so a clock set
\* forward makes the release late and one set back makes it early.
SleepAimsAtSlot ==
  "cron" \in Triggers /\ phase["cron"] = "sleeping" =>
    LET arrival == wall + (wakeAt["cron"] - time)
    IN  fireAt - setBack <= arrival /\ arrival <= fireAt + setForward

\* Two executions of an IntervalTrigger are at least the minimum apart, whatever
\* the random source answers and however the wall clock is set.
IntervalsKept ==
  "interval" \in Triggers =>
    \A i \in DOMAIN releases["interval"] :
      releases["interval"][i] + Early
        >= MinInterval + (IF i = 1 THEN 0 ELSE releases["interval"][i - 1])
=============================================================================
