----------------------------- MODULE WatchRunner -----------------------------
(***************************************************************************)
(* WatchRunner.run_next and serve (runtime.py) over run_once: asyncio      *)
(* tasks that wait for a trigger, hand run_once to the executor's threads  *)
(* (asyncio.to_thread) and await its result; ManualTrigger (triggers.py)   *)
(* is a queue of requests.  Between two awaits a task is not interrupted.  *)
(* A cancelled task leaves a call that a thread has already begun running. *)
(***************************************************************************)
EXTENDS WatchRuntime
LOCAL INSTANCE Functions

CONSTANTS
  Tasks,        \* the tasks that call serve
  Serves,       \* the watch each task serves
  Manual,       \* the watches whose trigger is a ManualTrigger
  Workers,      \* the threads of the executor
  MaxFires,     \* bound: calls of fire per watch
  MaxCancels,   \* bound: cancellations
  TriggerFails  \* whether a timed trigger may raise (random source, clock)

ASSUME RunnerAssumption ==
  /\ IsFiniteSet(Tasks)
  /\ Serves \in [Tasks -> WatchIds]
  /\ Manual \subseteq WatchIds
  /\ Workers \in Nat \ {0}
  /\ MaxFires \in Nat
  /\ MaxCancels \in Nat
  /\ TriggerFails \in BOOLEAN
  /\ "crash" \notin Faults

VARIABLES
  task,      \* where each task is in serve
  job,       \* the call a task awaits
  stop,      \* the stop event of each task
  requests,  \* ManualTrigger._requests: how many are queued, by watch
  pool,      \* the executor's work queue
  taken,     \* the calls a thread has taken from it
  fires,     \* history: calls of fire, by watch
  cancels    \* history: cancellations of tasks, by watch

serveVars    == <<task, job, stop>>
triggerVars  == <<requests, fires>>
executorVars == <<pool, taken>>
runnerVars   == <<serveVars, triggerVars, executorVars, cancels>>
storeVars    == <<clock, outboxVars, runtimeVars>>

TaskPhases == {"looping", "waiting", "awaiting"}
Over       == {"ended", "failed", "cancelled"}

Pooled(r) == \E i \in DOMAIN pool : pool[i] = r

\* Mutant: a call that raises takes its thread along.
Busy_UntilReturned == {r \in taken : runPhase[r] # "returned"}

\* The calls that occupy a thread.
Busy == {r \in taken : runPhase[r] \notin Finished}

RunnerInit ==
  /\ Init
  /\ task = [t \in Tasks |-> "looping"]
  /\ job = [t \in Tasks |-> None]
  /\ stop = [t \in Tasks |-> FALSE]
  /\ requests = [w \in WatchIds |-> 0]
  /\ pool = <<>>
  /\ taken = {}
  /\ fires = [w \in WatchIds |-> 0]
  /\ cancels = [w \in WatchIds |-> 0]

TaskTo(t, phase) == task' = [task EXCEPT ![t] = phase]

-----------------------------------------------------------------------------
(* The application. *)

\* ManualTrigger.fire: put_nowait on an unbounded queue.
Fire(w) ==
  /\ w \in Manual
  /\ fires[w] < MaxFires
  /\ fires' = [fires EXCEPT ![w] = @ + 1]
  /\ requests' = [requests EXCEPT ![w] = @ + 1]
  /\ UNCHANGED <<storeVars, serveVars, executorVars, cancels>>

SetStop(t) ==
  /\ ~stop[t]
  /\ stop' = [stop EXCEPT ![t] = TRUE]
  /\ UNCHANGED <<storeVars, task, job, triggerVars, executorVars, cancels>>

\* The work queue without a job that may still be in it.
Withdrawn(r) ==
  IF Pooled(r)
  THEN LET at == CHOOSE i \in DOMAIN pool : pool[i] = r
       IN  [i \in 1..(Len(pool) - 1) |-> IF i < at THEN pool[i] ELSE pool[i + 1]]
  ELSE pool

\* Mutant: the cancellation reaches into the thread.
Cancel_StopsCall(t) ==
  /\ task[t] \in {"waiting", "awaiting"}
  /\ SumFunction(cancels) < MaxCancels
  /\ cancels' = [cancels EXCEPT ![Serves[t]] = @ + 1]
  /\ TaskTo(t, "cancelled")
  /\ job' = [job EXCEPT ![t] = None]
  /\ pool' = Withdrawn(job[t])
  /\ runPhase' = [r \in Runs |-> IF r \in taken /\ r = job[t] THEN "raised" ELSE runPhase[r]]
  /\ UNCHANGED <<clock, outboxVars, evidenceVars, tries, observed, runTime>>
  /\ UNCHANGED <<stop, triggerVars, taken>>

\* Task.cancel.  A pending job is withdrawn from the executor; one that a thread
\* has begun cannot be, and goes on without anyone awaiting it.
Cancel(t) ==
  /\ task[t] \in {"waiting", "awaiting"}
  /\ SumFunction(cancels) < MaxCancels
  /\ cancels' = [cancels EXCEPT ![Serves[t]] = @ + 1]
  /\ TaskTo(t, "cancelled")
  /\ job' = [job EXCEPT ![t] = None]
  /\ pool' = Withdrawn(job[t])
  /\ UNCHANGED <<storeVars, stop, triggerVars, taken>>

\* serve is called again after it ended, with a new stop event.
ServeAgain(t) ==
  /\ task[t] \in Over
  /\ TaskTo(t, "looping")
  /\ stop' = [stop EXCEPT ![t] = FALSE]
  /\ UNCHANGED <<storeVars, job, triggerVars, executorVars, cancels>>

-----------------------------------------------------------------------------
(* A task in serve. *)

\* Mutant: `while True'.
CheckStop_Never(t) ==
  /\ task[t] = "looping"
  /\ TaskTo(t, "waiting")
  /\ UNCHANGED <<storeVars, job, stop, triggerVars, executorVars, cancels>>

\* The condition of the loop, then trigger.wait_next.
CheckStop(t) ==
  /\ task[t] = "looping"
  /\ TaskTo(t, IF stop[t] THEN "ended" ELSE "waiting")
  /\ UNCHANGED <<storeVars, job, stop, triggerVars, executorVars, cancels>>

\* The calls that were not made yet.
Fresh(w) == {r \in RunsOf(w) : runPhase[r] = "idle" /\ r \notin taken /\ ~Pooled(r)}

\* Mutant: the result of to_thread is not awaited.
Submit_NoAwait(t) ==
  /\ \E r \in Fresh(Serves[t]) :
       /\ pool' = Append(pool, r)
       /\ job' = [job EXCEPT ![t] = r]
  /\ TaskTo(t, "looping")
  /\ UNCHANGED <<storeVars, stop, taken, fires, cancels>>

\* asyncio.to_thread: a new call is queued in the executor and awaited.
Submit(t) ==
  /\ \E r \in Fresh(Serves[t]) :
       /\ pool' = Append(pool, r)
       /\ job' = [job EXCEPT ![t] = r]
  /\ TaskTo(t, "awaiting")
  /\ UNCHANGED <<storeVars, stop, taken, fires, cancels>>

\* Mutant: the request stays in the queue.
TakeRequest_Peeks(t) ==
  /\ task[t] = "waiting"
  /\ Serves[t] \in Manual
  /\ requests[Serves[t]] > 0
  /\ Submit(t)
  /\ UNCHANGED requests

\* ManualTrigger.wait_next returns; the task goes on to to_thread.
TakeRequest(t) ==
  /\ task[t] = "waiting"
  /\ Serves[t] \in Manual
  /\ requests[Serves[t]] > 0
  /\ requests' = [requests EXCEPT ![Serves[t]] = @ - 1]
  /\ Submit(t)

\* The sleep of an IntervalTrigger or a CronTrigger is over.
TimerEnds(t) ==
  /\ task[t] = "waiting"
  /\ Serves[t] \notin Manual
  /\ Submit(t)
  /\ UNCHANGED requests

\* wait_next raises: serve ends with the exception.  (Not once the bound Runs is
\* used up: the model would otherwise force the failure.)
TimerRaises(t) ==
  /\ TriggerFails
  /\ Fresh(Serves[t]) # {}
  /\ task[t] = "waiting"
  /\ Serves[t] \notin Manual
  /\ TaskTo(t, "failed")
  /\ UNCHANGED <<storeVars, job, stop, triggerVars, executorVars, cancels>>

\* The awaited call is over; its exception ends serve.
Resume(t) ==
  /\ task[t] = "awaiting"
  /\ runPhase[job[t]] \in Finished
  /\ TaskTo(t, IF runPhase[job[t]] = "returned" THEN "looping" ELSE "failed")
  /\ job' = [job EXCEPT ![t] = None]
  /\ UNCHANGED <<storeVars, stop, triggerVars, executorVars, cancels>>

TaskStep(t) ==
  CheckStop(t) \/ TakeRequest(t) \/ TimerEnds(t) \/ TimerRaises(t) \/ Resume(t)

-----------------------------------------------------------------------------
(* The executor. *)

\* A free thread takes the oldest job.
WorkerTakes ==
  /\ pool # <<>>
  /\ Cardinality(Busy) < Workers
  /\ taken' = taken \cup {Head(pool)}
  /\ pool' = Tail(pool)
  /\ UNCHANGED <<storeVars, serveVars, triggerVars, cancels>>

\* A thread runs the call it took.
ThreadStep(r) ==
  /\ r \in taken
  /\ StartRun(r) \/ StartFails(r) \/ Continue(r)
  /\ UNCHANGED <<clock, runnerVars>>

RunnerNext ==
  \/ \E w \in WatchIds : Fire(w)
  \/ \E t \in Tasks : TaskStep(t) \/ SetStop(t) \/ Cancel(t) \/ ServeAgain(t)
  \/ WorkerTakes
  \/ \E r \in Runs : ThreadStep(r)

\* The event loop runs its tasks and the executor its threads.  Nobody has to
\* fire, stop, cancel or serve again.
RunnerFairness ==
  /\ \A t \in Tasks : WF_<<storeVars, runnerVars>>(TaskStep(t))
  /\ WF_<<storeVars, runnerVars>>(WorkerTakes)
  /\ \A r \in Runs : WF_<<storeVars, runnerVars>>(ThreadStep(r))

RunnerSpec     == RunnerInit /\ [][RunnerNext]_<<storeVars, runnerVars>>
FairRunnerSpec == RunnerSpec /\ RunnerFairness

-----------------------------------------------------------------------------
(* Safety. *)

Released(w) == {r \in RunsOf(w) : r \in taken \/ Pooled(r)}
Servers(w)  == {t \in Tasks : Serves[t] = w}

\* ManualTrigger: no call is executed that was not fired for, and a fire is still
\* queued, has been given a call of its own, or was withdrawn by a cancellation,
\* at most one by each.
FiresAccounted ==
  \A w \in Manual :
    LET accounted == requests[w] + Cardinality(Released(w))
    IN  accounted <= fires[w] /\ fires[w] <= accounted + cancels[w]

\* Calls of a watch overlap only if several tasks serve it, or if a cancelled
\* task left one behind: serve by itself never starts the next call early.
OverlapNeedsCancellation ==
  \A w \in WatchIds :
    Cardinality(Released(w) \ {r \in Runs : runPhase[r] \in Finished})
      <= Cardinality(Servers(w)) + cancels[w]

\* Whatever becomes of the tasks, each call is an execution of run_once from its
\* beginning, with nothing left out: what holds of overlapping calls of run_once
\* holds of the runner.
RunsAsRunOnce == Spec

-----------------------------------------------------------------------------
(* Liveness, under FairRunnerSpec. *)

\* A stop that is set ends serve once the execution under way is over, whether it
\* returns or raises.  (One set during wait_next is noticed only after the
\* execution which that wait releases.)
StopEndsServe ==
  \A t \in Tasks : (stop[t] /\ task[t] # "waiting") ~> (task[t] \in Over)

\* While a watch is served its requests are executed to the end, unless cancelled:
\* none is stuck behind the executor's limit, a failed call, another watch's calls or
\* one that was left behind.
FiresAreServed ==
  \A w \in Manual :
    /\ requests[w] > 0 ~> (requests[w] = 0 \/ \A t \in Servers(w) : task[t] \in Over)
    /\ \A r \in RunsOf(w) :
         r \notin Fresh(w) ~> (runPhase[r] \in Finished \/ r \in Fresh(w))
=============================================================================
