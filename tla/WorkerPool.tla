----------------------------- MODULE WorkerPool -----------------------------
(***************************************************************************)
(* The worker pool of the NATS mode: each worker subscribes to the subject *)
(* of jobs in one queue group, runs as many jobs at a time as its          *)
(* semaphore has tokens, and is stopped by a change of the pool's size or  *)
(* by the end of the process. Core NATS delivers a job to one subscription *)
(* and knows nothing of what becomes of it.                                *)
(***************************************************************************)
EXTENDS Naturals, FiniteSets

CONSTANTS
    MaxWorkers,   \* bound: how many workers are ever made
    JobSlots,     \* the tokens of a worker's semaphore
    MaxJobs       \* bound: how many jobs are published

ASSUME PoolAssumption ==
    MaxWorkers \in Nat \ {0} /\ JobSlots \in Nat \ {0} /\ MaxJobs \in Nat

VARIABLES
    pool,          \* the workers in the pool, which are numbered as they are made
    created,       \* how many were made
    subscription,  \* of each worker: none yet, in force, or drained
    job,           \* how far each job got; they are published in their order
    at,            \* the worker that a job was delivered to
    early,         \* the jobs that got their token before their worker was stopped, and
                   \* are not over
    calls,         \* the calls of a worker's Stop that have yet to close its stopCh
    closed,        \* of each worker: stopCh is closed
    stopper,       \* how far the Stop that closed it got
    ctxDone,       \* the process was told to end
    poolStop,      \* how far Stop of the pool got
    stopping,      \* its copy of the pool
    panicked       \* what the process panicked of, if it did

poolVars == <<pool, created, subscription, job, at, early, calls, closed, stopper, ctxDone,
              poolStop, stopping, panicked>>

Workers == 1..MaxWorkers
Jobs == 1..MaxJobs

(***************************************************************************)
(* A job waits in the buffer of a subscription, its callback takes it and  *)
(* holds it until there is a token (taken) or the worker is stopped (the   *)
(* job is dropped, which is over as well). It is running from wg.Add on,   *)
(* gives the token back first (leaving), and is over with wg.Done.         *)
(***************************************************************************)
JobStates == {"unsent", "buffered", "held", "taken", "running", "leaving", "over"}

\* The jobs of worker w that are in one of the states S.
JobsAt(w, S) == {j \in Jobs : at[j] = w /\ job[j] \in S}

\* The counter of the worker's wait group is zero, and a token is free.
NoneCounted(w) == JobsAt(w, {"running", "leaving"}) = {}
HasToken(w) == Cardinality(JobsAt(w, {"taken", "running"})) < JobSlots

\* Every variable keeps its type, and no more jobs run than there are tokens.
PoolTypeOK ==
    /\ pool \subseteq 1..created
    /\ created \in 0..MaxWorkers
    /\ subscription \in [Workers -> {"none", "on", "drained"}]
    /\ job \in [Jobs -> JobStates]
    /\ at \in [Jobs -> Workers]
    /\ early \subseteq Jobs
    /\ calls \subseteq Workers \X {"scale", "pool"}
    /\ closed \in [Workers -> BOOLEAN]
    /\ stopper \in [Workers -> {"none", "closed", "waiting", "woken", "returned"}]
    /\ ctxDone \in BOOLEAN
    /\ poolStop \in {"no", "waiting", "returned"}
    /\ stopping \subseteq Workers
    /\ panicked \in {"no", "closed twice", "wait group"}
    /\ \A w \in Workers : Cardinality(JobsAt(w, {"taken", "running"})) <= JobSlots

PoolInit ==
    /\ pool = {} /\ created = 0
    /\ subscription = [w \in Workers |-> "none"]
    /\ job = [j \in Jobs |-> "unsent"] /\ at = [j \in Jobs |-> 1] /\ early = {}
    /\ calls = {}
    /\ closed = [w \in Workers |-> FALSE]
    /\ stopper = [w \in Workers |-> "none"]
    /\ ctxDone = FALSE /\ poolStop = "no" /\ stopping = {}
    /\ panicked = "no"

scaleVars == <<pool, created>>
jobVars == <<job, at, early>>
stopVars == <<calls, closed, stopper>>
endVars == <<ctxDone, poolStop, stopping>>

-----------------------------------------------------------------------------
(* Pool.Start, Pool.Scale, Pool.Stop                                       *)

\* The n workers of S that were made first.
Oldest(S, n) == {w \in S : Cardinality({v \in S : v <= w}) <= n}

\* Scale, or Stop of the pool, calls Stop of each worker of S in a goroutine.
CallStop(S, caller) == calls' = calls \cup (S \X {caller})

\* The pool gets n workers: new ones are made, or the newest are stopped. Nothing
\* keeps it from being scaled while it is being stopped, or before.
Scale(n) ==
    /\ n # Cardinality(pool) /\ created + n <= MaxWorkers + Cardinality(pool)
    /\ IF n > Cardinality(pool)
       THEN /\ created' = created + n - Cardinality(pool)
            /\ pool' = pool \cup (created + 1)..created'
            /\ UNCHANGED calls
       ELSE /\ pool' = Oldest(pool, n)
            /\ CallStop(pool \ pool', "scale")
            /\ UNCHANGED created
    /\ UNCHANGED <<subscription, jobVars, closed, stopper, endVars, panicked>>

\* The worker's Start subscribes. A worker whose subscription is refused stays in
\* the pool without one, as one that has not subscribed yet.
Subscribe(w) ==
    /\ w <= created /\ subscription[w] = "none"
    /\ subscription' = [subscription EXCEPT ![w] = "on"]
    /\ UNCHANGED <<scaleVars, jobVars, stopVars, endVars, panicked>>

\* SIGTERM
EndContext ==
    /\ ~ctxDone /\ created > 0
    /\ ctxDone' = TRUE
    /\ UNCHANGED <<scaleVars, subscription, jobVars, stopVars, poolStop, stopping, panicked>>

\* The worker's Start ends: nothing is sent to its subscription from now on; what
\* is in the buffer still goes to the callback.
Drain(w) ==
    /\ ctxDone /\ subscription[w] = "on"
    /\ subscription' = [subscription EXCEPT ![w] = "drained"]
    /\ UNCHANGED <<scaleVars, jobVars, stopVars, endVars, panicked>>

\* Pool.Stop copies the pool, and stops the workers of the copy.
BeginPoolStop ==
    /\ ctxDone /\ poolStop = "no"
    /\ poolStop' = "waiting" /\ stopping' = pool
    /\ CallStop(pool, "pool")
    /\ UNCHANGED <<scaleVars, subscription, jobVars, closed, stopper, ctxDone, panicked>>

EndPoolStop ==
    /\ poolStop = "waiting"
    /\ \A w \in stopping : <<w, "pool">> \notin calls /\ stopper[w] = "returned"
    /\ poolStop' = "returned"
    /\ UNCHANGED <<scaleVars, subscription, jobVars, stopVars, ctxDone, stopping, panicked>>

-----------------------------------------------------------------------------
(* Worker.Stop                                                             *)

\* close(stopCh): a channel that is closed already panics.
CloseStopCh(w) ==
    \E caller \in {"scale", "pool"} :
        /\ <<w, caller>> \in calls
        /\ calls' = calls \ {<<w, caller>>}
        /\ IF closed[w]
           THEN panicked' = "closed twice" /\ UNCHANGED <<closed, stopper>>
           ELSE /\ closed' = [closed EXCEPT ![w] = TRUE]
                /\ stopper' = [stopper EXCEPT ![w] = "closed"]
                /\ UNCHANGED panicked
        /\ UNCHANGED <<scaleVars, subscription, jobVars, endVars>>

\* As if nobody waited for the jobs.
ReturnAtOnce(w) ==
    /\ stopper[w] = "closed"
    /\ stopper' = [stopper EXCEPT ![w] = "returned"]
    /\ UNCHANGED <<scaleVars, subscription, jobVars, calls, closed, endVars, panicked>>

\* wg.Wait returns at once if the counter is zero.
WaitForJobs(w) ==
    /\ stopper[w] = "closed"
    /\ stopper' = [stopper EXCEPT ![w] = IF NoneCounted(w) THEN "returned" ELSE "waiting"]
    /\ UNCHANGED <<scaleVars, subscription, jobVars, calls, closed, endVars, panicked>>

\* The waiter that wg.Done woke goes on; it panics if the counter has moved since.
WakeUp(w) ==
    /\ stopper[w] = "woken"
    /\ IF NoneCounted(w)
       THEN stopper' = [stopper EXCEPT ![w] = "returned"] /\ UNCHANGED panicked
       ELSE panicked' = "wait group" /\ UNCHANGED stopper
    /\ UNCHANGED <<scaleVars, subscription, jobVars, calls, closed, endVars>>

-----------------------------------------------------------------------------
(* The subscription's callback, and the goroutines of its jobs             *)

\* A valid job is sent to one of the group, a worker that was stopped included:
\* its subscription goes on until the process ends.
SendJob(w, j) ==
    /\ subscription[w] = "on"
    /\ job[j] = "unsent" /\ \A i \in Jobs : i < j => job[i] # "unsent"
    /\ job' = [job EXCEPT ![j] = "buffered"] /\ at' = [at EXCEPT ![j] = w]
    /\ UNCHANGED <<scaleVars, subscription, early, stopVars, endVars, panicked>>

\* The callback handles one job at a time.
EnterCallback(j) ==
    /\ job[j] = "buffered" /\ \A i \in JobsAt(at[j], {"buffered"}) : j <= i
    /\ JobsAt(at[j], {"held", "taken"}) = {}
    /\ job' = [job EXCEPT ![j] = "held"]
    /\ UNCHANGED <<scaleVars, subscription, at, early, stopVars, endVars, panicked>>

\* A token is free. If stopCh is closed as well, the select takes either.
TakeToken(j) ==
    /\ job[j] = "held" /\ HasToken(at[j])
    /\ job' = [job EXCEPT ![j] = "taken"]
    /\ early' = IF closed[at[j]] THEN early ELSE early \cup {j}
    /\ UNCHANGED <<scaleVars, subscription, at, stopVars, endVars, panicked>>

\* The worker is stopped: the job is dropped, and nobody is told.
DropJob(j) ==
    /\ job[j] = "held" /\ closed[at[j]]
    /\ job' = [job EXCEPT ![j] = "over"]
    /\ UNCHANGED <<scaleVars, subscription, at, early, stopVars, endVars, panicked>>

\* wg.Add: from zero on it may meet the wg.Done that wakes a waiter, and panic.
StartJob(j) ==
    /\ job[j] = "taken"
    /\ job' = [job EXCEPT ![j] = "running"]
    /\ \/ UNCHANGED panicked
       \/ /\ stopper[at[j]] = "woken" /\ NoneCounted(at[j])
          /\ panicked' = "wait group"
    /\ UNCHANGED <<scaleVars, subscription, at, early, stopVars, endVars>>

\* As if the goroutine of one job ended without its deferred calls.
KeepToken(j) ==
    /\ job[j] = "running" /\ j # 1
    /\ job' = [job EXCEPT ![j] = "leaving"]
    /\ UNCHANGED <<scaleVars, subscription, at, early, stopVars, endVars, panicked>>

\* A job ends, in whatever way: it has five minutes.
ReturnToken(j) ==
    /\ job[j] = "running"
    /\ job' = [job EXCEPT ![j] = "leaving"]
    /\ UNCHANGED <<scaleVars, subscription, at, early, stopVars, endVars, panicked>>

\* wg.Done: the last one wakes the waiter.
FinishJob(j) ==
    /\ job[j] = "leaving"
    /\ job' = [job EXCEPT ![j] = "over"]
    /\ stopper' = IF stopper[at[j]] = "waiting" /\ JobsAt(at[j], {"running", "leaving"}) = {j}
                  THEN [stopper EXCEPT ![at[j]] = "woken"]
                  ELSE stopper
    /\ early' = early \ {j}
    /\ UNCHANGED <<scaleVars, subscription, at, calls, closed, endVars, panicked>>

-----------------------------------------------------------------------------
WorkerStep(w) == CloseStopCh(w) \/ WaitForJobs(w) \/ WakeUp(w)

JobStep(j) ==
    EnterCallback(j) \/ TakeToken(j) \/ DropJob(j) \/ StartJob(j) \/ ReturnToken(j) \/ FinishJob(j)

\* A panic ends the process.
PoolNext ==
    /\ panicked = "no"
    /\ \/ \E n \in Workers : Scale(n)
       \/ EndContext \/ BeginPoolStop \/ EndPoolStop
       \/ \E w \in Workers : Subscribe(w) \/ Drain(w) \/ WorkerStep(w)
       \/ \E j \in Jobs : JobStep(j) \/ \E w \in Workers : SendJob(w, j)

PoolSpec == PoolInit /\ [][PoolNext]_poolVars

-----------------------------------------------------------------------------
(* Properties                                                              *)

\* When Stop of a worker has returned, every job that had a token before the
\* worker was stopped is over but one at most: the one whose callback was between
\* its token and wg.Add, which wg.Wait does not see.
StopWaitsForJobs ==
    \A w \in Workers : stopper[w] = "returned" =>
        \A j, k \in early : at[j] = w /\ at[k] = w => j = k

\* A worker is stopped twice only if Scale removed it after Stop of the pool had
\* copied the pool; in no other order do the two stop the same worker.
StoppedTwiceByScale == panicked = "closed twice" => stopping \ pool # {}

\* pool.go: "Scale is safe to call concurrently with Start/Stop."
NeverPanics == panicked = "no"

\* The pool comes to its end when the process is told to, whatever is delivered
\* meanwhile and whichever workers were removed before, unless it panics.
PoolEnds == ctxDone ~> (poolStop = "returned" \/ panicked # "no")
=============================================================================
