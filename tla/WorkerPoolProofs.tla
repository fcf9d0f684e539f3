-------------------------- MODULE WorkerPoolProofs --------------------------
(***************************************************************************)
(* The worker pool, for any number of workers, tokens and jobs: what a     *)
(* worker's Stop waits for, and when a worker is stopped twice.            *)
(*                                                                         *)
(* The first is inductive because the callback of a worker has one job at  *)
(* a time (OneInCallback), because what waits was closed first, so that no *)
(* job becomes an early one of a worker that was stopped (ClosedFirst),    *)
(* and because an early job that is not counted by the wait group is in    *)
(* the callback (EarlyPlace).                                              *)
(*                                                                         *)
(* The second needs where a worker is whose Stop is called: Stop of the    *)
(* pool calls it of its copy, Scale of what it removed (CallPlace), and    *)
(* one of the two closed the stopCh that is closed (ClosedPlace).          *)
(***************************************************************************)
EXTENDS WorkerPool, FiniteSetTheorems, TLAPS

\* The type invariant without the tokens.
PoolShape ==
    /\ pool \subseteq 1..created
    /\ created \in 0..MaxWorkers
    /\ subscription \in [Workers -> {"none", "on", "drained"}]
    /\ job \in [Jobs -> JobStates]
    /\ at \in [Jobs -> Workers]
    /\ early \subseteq Jobs
    /\ calls \subseteq Workers \X {"scale", "pool"}
    /\ closed \in [Workers -> BOOLEAN]
    /\ stopper \in [Workers -> {"none", "closed", "waiting", "woken", "returned"}]
    /\ ctxDone \in BOOLEAN
    /\ poolStop \in {"no", "waiting", "returned"}
    /\ stopping \subseteq 1..created
    /\ panicked \in {"no", "closed twice", "wait group"}

TokensKept == \A w \in Workers : Cardinality(JobsAt(w, {"taken", "running"})) <= JobSlots

OneInCallback ==
    \A j, k \in Jobs :
        job[j] \in {"held", "taken"} /\ job[k] \in {"held", "taken"} /\ at[j] = at[k] => j = k

EarlyPlace == \A j \in early : job[j] \in {"taken", "running", "leaving"}

ClosedFirst == \A w \in Workers : stopper[w] # "none" => closed[w]

JobInv == TokensKept /\ OneInCallback /\ EarlyPlace /\ ClosedFirst /\ StopWaitsForJobs

CallPlace ==
    \A w \in Workers :
        /\ <<w, "pool">> \in calls => w \in stopping
        /\ <<w, "scale">> \in calls => w \in 1..created /\ w \notin pool

ClosedPlace ==
    \A w \in Workers : closed[w] =>
        /\ w \in 1..created
        /\ w \in stopping \/ w \notin pool
        /\ \A c \in {"scale", "pool"} : <<w, c>> \in calls => w \in stopping /\ w \notin pool

CopyPlace == poolStop = "no" => stopping = {}

CallInv == CallPlace /\ ClosedPlace /\ CopyPlace /\ StoppedTwiceByScale

PoolInv == PoolShape /\ JobInv /\ CallInv

LEMMA PoolNumbers ==
    ASSUME PoolShape
    PROVE  /\ created \in Nat /\ created <= MaxWorkers /\ MaxWorkers \in Nat
           /\ pool \subseteq Workers /\ stopping \subseteq Workers
           /\ IsFiniteSet(pool) /\ Cardinality(pool) \in Nat
  <1>0. created \in 0..MaxWorkers
    BY DEF PoolShape
  <1>1. created \in Nat /\ created <= MaxWorkers /\ MaxWorkers \in Nat
    BY <1>0, PoolAssumption
  <1>2. 1..created \subseteq Workers
    BY <1>1 DEF Workers
  <1>3. IsFiniteSet(1..created)
    BY <1>1, FS_Interval
  <1>4. IsFiniteSet(pool)
    BY <1>3, FS_Subset DEF PoolShape
  <1> QED
    BY <1>1, <1>2, <1>4, FS_CardinalityType DEF PoolShape

-----------------------------------------------------------------------------
(* The tokens                                                              *)

LEMMA JobsAreFinite ==
    ASSUME NEW w, NEW S
    PROVE  IsFiniteSet(JobsAt(w, S)) /\ Cardinality(JobsAt(w, S)) \in Nat
  <1>1. IsFiniteSet(Jobs)
    BY PoolAssumption, FS_Interval DEF Jobs
  <1>2. JobsAt(w, S) \subseteq Jobs
    BY DEF JobsAt
  <1> QED
    BY <1>1, <1>2, FS_Subset, FS_CardinalityType

\* What takes no token keeps them.
LEMMA FewerTokens ==
    ASSUME TokensKept,
           \A j \in Jobs : job'[j] \in {"taken", "running"} =>
              job[j] \in {"taken", "running"} /\ at'[j] = at[j]
    PROVE  TokensKept'
  <1> SUFFICES ASSUME NEW w \in Workers
               PROVE  Cardinality(JobsAt(w, {"taken", "running"})') <= JobSlots
    BY DEF TokensKept
  <1>1. JobsAt(w, {"taken", "running"})' \subseteq JobsAt(w, {"taken", "running"})
    BY DEF JobsAt
  <1>2. /\ Cardinality(JobsAt(w, {"taken", "running"})') <= Cardinality(JobsAt(w, {"taken", "running"}))
        /\ Cardinality(JobsAt(w, {"taken", "running"})') \in Nat
    BY <1>1, JobsAreFinite, FS_Subset, FS_CardinalityType
  <1>3. Cardinality(JobsAt(w, {"taken", "running"})) <= JobSlots
    BY DEF TokensKept
  <1> QED
    BY <1>2, <1>3, JobsAreFinite, PoolAssumption

LEMMA OneTokenMore ==
    ASSUME PoolShape, TokensKept, NEW j \in Jobs, TakeToken(j)
    PROVE  TokensKept'
  <1> DEFINE Busy(w) == JobsAt(w, {"taken", "running"})
  <1>1. job' = [job EXCEPT ![j] = "taken"] /\ at' = at /\ HasToken(at[j])
    BY DEF TakeToken
  <1> SUFFICES ASSUME NEW w \in Workers PROVE Cardinality(Busy(w)') <= JobSlots
    BY DEF TokensKept
  <1>2. IsFiniteSet(Busy(w)) /\ Cardinality(Busy(w)) \in Nat /\ Cardinality(Busy(w)) <= JobSlots
    BY JobsAreFinite DEF TokensKept
  <1>3. CASE w = at[j]
    <2>1. Busy(w)' = Busy(w) \cup {j}
      BY <1>1, <1>3 DEF JobsAt, PoolShape
    <2>2. Cardinality(Busy(w)) < JobSlots
      BY <1>1, <1>3 DEF HasToken
    <2>3. Cardinality(Busy(w) \cup {j}) <= Cardinality(Busy(w)) + 1
      BY <1>2, FS_AddElement
    <2>4. Cardinality(Busy(w) \cup {j}) \in Nat
      BY <1>2, FS_AddElement, FS_CardinalityType
    <2> QED
      BY <1>2, <2>1, <2>2, <2>3, <2>4, PoolAssumption
  <1>4. CASE w # at[j]
    <2>1. Busy(w)' = Busy(w)
      BY <1>1, <1>4 DEF JobsAt, PoolShape
    <2> QED
      BY <1>2, <2>1
  <1> QED
    BY <1>3, <1>4

-----------------------------------------------------------------------------
(* Steps that leave the jobs alone                                         *)

LEMMA JobsUntouched ==
    ASSUME PoolInv, UNCHANGED <<jobVars, closed, stopper>>
    PROVE  JobInv'
  <1>1. TokensKept'
    BY FewerTokens DEF PoolInv, JobInv, jobVars
  <1> QED
    BY <1>1 DEF PoolInv, JobInv, jobVars, OneInCallback, EarlyPlace, ClosedFirst, StopWaitsForJobs

LEMMA ScaleUpKeeps ==
    ASSUME PoolInv, NEW n \in Workers, Scale(n), n > Cardinality(pool), panicked = "no"
    PROVE  PoolInv'
  <1>1. /\ created' = created + n - Cardinality(pool)
        /\ pool' = pool \cup (created + 1)..created'
        /\ UNCHANGED <<subscription, jobVars, calls, closed, stopper, endVars, panicked>>
        /\ created + n <= MaxWorkers + Cardinality(pool)
    BY DEF Scale
  <1>2. /\ created \in Nat /\ n \in Nat /\ Cardinality(pool) \in Nat /\ MaxWorkers \in Nat
        /\ created <= MaxWorkers
    BY PoolNumbers, PoolAssumption DEF PoolInv, Workers
  <1>3. created' \in Nat /\ created < created' /\ created' <= MaxWorkers
    BY <1>1, <1>2
  <1>4. \A w : w \in 1..created => w \in 1..created'
    BY <1>2, <1>3
  <1>5. \A w \in (created + 1)..created' : w \in 1..created' /\ w \notin 1..created
    BY <1>2, <1>3
  <1>6. PoolShape'
    <2>1. pool' \subseteq 1..created' /\ stopping' \subseteq 1..created'
      BY <1>1, <1>4, <1>5 DEF PoolInv, PoolShape, endVars
    <2> QED
      BY <1>1, <1>3, <2>1 DEF PoolInv, PoolShape, jobVars, endVars
  <1>7. JobInv'
    BY <1>1, JobsUntouched
  <1>8. \A w \in 1..created : w \in pool' <=> w \in pool
    BY <1>1, <1>5
  <1>9. CallInv'
    <2>1. CallPlace'
      BY <1>1, <1>4, <1>8 DEF PoolInv, CallInv, CallPlace, endVars
    <2>2. ClosedPlace'
      BY <1>1, <1>4, <1>8 DEF PoolInv, CallInv, ClosedPlace, endVars
    <2>3. CopyPlace' /\ StoppedTwiceByScale'
      BY <1>1 DEF PoolInv, CallInv, CopyPlace, StoppedTwiceByScale, endVars
    <2> QED
      BY <2>1, <2>2, <2>3 DEF CallInv
  <1> QED
    BY <1>6, <1>7, <1>9 DEF PoolInv

LEMMA ScaleDownKeeps ==
    ASSUME PoolInv, NEW n \in Workers, Scale(n), ~(n > Cardinality(pool)), panicked = "no"
    PROVE  PoolInv'
  <1>1. /\ pool' \subseteq pool /\ calls' = calls \cup ((pool \ pool') \X {"scale"})
        /\ UNCHANGED <<created, subscription, jobVars, closed, stopper, endVars, panicked>>
    BY DEF Scale, Oldest, CallStop
  <1>2. pool \subseteq Workers
    BY PoolNumbers DEF PoolInv
  <1>3. PoolShape'
    BY <1>1, <1>2 DEF PoolInv, PoolShape, jobVars, endVars
  <1>4. JobInv'
    BY <1>1, JobsUntouched
  <1>5. \A w : /\ <<w, "pool">> \in calls' <=> <<w, "pool">> \in calls
               /\ <<w, "scale">> \in calls' <=> <<w, "scale">> \in calls \/ w \in pool \ pool'
    BY <1>1
  <1>6. CallPlace'
    BY <1>1, <1>5 DEF PoolInv, PoolShape, CallInv, CallPlace, endVars
  <1>7. ClosedPlace'
    <2> SUFFICES ASSUME NEW w \in Workers, closed[w]
                 PROVE  /\ w \in 1..created
                        /\ w \in stopping \/ w \notin pool'
                        /\ \A c \in {"scale", "pool"} :
                              <<w, c>> \in calls' => w \in stopping /\ w \notin pool'
      BY <1>1 DEF ClosedPlace, endVars
    <2> QED
      BY <1>1, <1>5 DEF PoolInv, CallInv, ClosedPlace
  <1>8. CopyPlace' /\ StoppedTwiceByScale'
    BY <1>1 DEF PoolInv, CallInv, CopyPlace, StoppedTwiceByScale, endVars
  <1> QED
    BY <1>3, <1>4, <1>6, <1>7, <1>8 DEF PoolInv, CallInv

\* Nothing was closed of the pool when it is copied.
LEMMA BeginPoolStopKeeps == ASSUME PoolInv, BeginPoolStop, panicked = "no" PROVE PoolInv'
  <1>1. /\ poolStop = "no" /\ poolStop' = "waiting" /\ stopping' = pool
        /\ calls' = calls \cup (pool \X {"pool"})
        /\ UNCHANGED <<pool, created, subscription, jobVars, closed, stopper, ctxDone, panicked>>
    BY DEF BeginPoolStop, CallStop, scaleVars
  <1>2. pool \subseteq Workers /\ stopping = {}
    BY <1>1, PoolNumbers DEF PoolInv, CallInv, CopyPlace
  <1>3. PoolShape'
    BY <1>1, <1>2 DEF PoolInv, PoolShape, jobVars
  <1>4. JobInv'
    BY <1>1, JobsUntouched
  <1>5. \A w : /\ <<w, "pool">> \in calls' <=> <<w, "pool">> \in calls \/ w \in pool
               /\ <<w, "scale">> \in calls' <=> <<w, "scale">> \in calls
    BY <1>1
  <1>6. \A w \in Workers : <<w, "pool">> \notin calls
    BY <1>2 DEF PoolInv, CallInv, CallPlace
  <1>7. \A w \in Workers : closed[w] => w \in 1..created /\ w \notin pool /\ <<w, "scale">> \notin calls
    BY <1>2 DEF PoolInv, CallInv, ClosedPlace
  <1>8. CallPlace'
    BY <1>1, <1>5, <1>6 DEF PoolInv, CallInv, CallPlace
  <1>9. ClosedPlace'
    BY <1>1, <1>5, <1>6, <1>7 DEF ClosedPlace
  <1>10. CopyPlace' /\ StoppedTwiceByScale'
    BY <1>1 DEF CopyPlace, StoppedTwiceByScale
  <1> QED
    BY <1>3, <1>4, <1>8, <1>9, <1>10 DEF PoolInv, CallInv

\* Steps that touch neither the jobs nor the workers' Stop.
LEMMA OtherKeeps ==
    ASSUME PoolInv, panicked = "no",
           \/ EndContext \/ EndPoolStop
           \/ \E w \in Workers : Subscribe(w) \/ Drain(w)
    PROVE  PoolInv'
  <1>1. /\ UNCHANGED <<pool, created, jobVars, calls, closed, stopper, stopping, panicked>>
        /\ poolStop' = poolStop \/ poolStop' = "returned"
        /\ poolStop = "no" \/ poolStop' # "no"
        /\ poolStop' = "no" => poolStop = "no"
    BY DEF EndContext, EndPoolStop, Subscribe, Drain, scaleVars, stopVars, endVars
  <1>2. ctxDone' \in BOOLEAN /\ subscription' \in [Workers -> {"none", "on", "drained"}]
    BY DEF EndContext, EndPoolStop, Subscribe, Drain, endVars, PoolInv, PoolShape
  <1>3. PoolShape'
    BY <1>1, <1>2 DEF PoolInv, PoolShape, jobVars
  <1>4. JobInv'
    BY <1>1, JobsUntouched
  <1>5. CallInv'
    BY <1>1 DEF PoolInv, CallInv, CallPlace, ClosedPlace, CopyPlace, StoppedTwiceByScale
  <1> QED
    BY <1>3, <1>4, <1>5 DEF PoolInv

-----------------------------------------------------------------------------
(* Stop of a worker                                                        *)

LEMMA CloseStopChKeeps ==
    ASSUME PoolInv, NEW w \in Workers, CloseStopCh(w), panicked = "no"
    PROVE  PoolInv'
  <1>1. PICK c \in {"scale", "pool"} :
           /\ <<w, c>> \in calls /\ calls' = calls \ {<<w, c>>}
           /\ IF closed[w]
              THEN panicked' = "closed twice" /\ UNCHANGED <<closed, stopper>>
              ELSE /\ closed' = [closed EXCEPT ![w] = TRUE]
                   /\ stopper' = [stopper EXCEPT ![w] = "closed"]
                   /\ UNCHANGED panicked
    BY DEF CloseStopCh
  <1>2. UNCHANGED <<pool, created, subscription, jobVars, ctxDone, poolStop, stopping>>
    BY DEF CloseStopCh, scaleVars, endVars
  <1>3. CASE closed[w]
    <2>1. PoolShape'
      BY <1>1, <1>2, <1>3 DEF PoolInv, PoolShape, jobVars
    <2>2. JobInv'
      BY <1>1, <1>2, <1>3, JobsUntouched
    <2>3. w \in stopping /\ w \notin pool
      BY <1>1, <1>3 DEF PoolInv, CallInv, ClosedPlace
    <2>4. CallInv'
      BY <1>1, <1>2, <1>3, <2>3
      DEF PoolInv, CallInv, CallPlace, ClosedPlace, CopyPlace, StoppedTwiceByScale
    <2> QED
      BY <2>1, <2>2, <2>4 DEF PoolInv
  <1>4. CASE ~closed[w]
    <2>1. /\ closed' = [closed EXCEPT ![w] = TRUE] /\ stopper' = [stopper EXCEPT ![w] = "closed"]
          /\ UNCHANGED panicked
      BY <1>1, <1>4
    <2>2. PoolShape'
      BY <1>1, <1>2, <2>1 DEF PoolInv, PoolShape, jobVars
    <2>3. JobInv'
      <3>1. TokensKept'
        BY <1>2, FewerTokens DEF PoolInv, JobInv, jobVars
      <3>2. OneInCallback' /\ EarlyPlace'
        BY <1>2 DEF PoolInv, JobInv, OneInCallback, EarlyPlace, jobVars
      <3>3. ClosedFirst' /\ StopWaitsForJobs'
        BY <1>2, <2>1 DEF PoolInv, PoolShape, JobInv, ClosedFirst, StopWaitsForJobs, jobVars
      <3> QED
        BY <3>1, <3>2, <3>3 DEF JobInv
    <2>4. /\ c = "pool" => w \in stopping
          /\ c = "scale" => w \notin pool
          /\ w \in 1..created
      BY <1>1 DEF PoolInv, PoolShape, CallInv, CallPlace
    <2>5. \A d \in {"scale", "pool"} : <<w, d>> \in calls' => w \in stopping /\ w \notin pool
      BY <1>1, <2>4 DEF PoolInv, CallInv, CallPlace
    <2>6. ClosedPlace'
      <3> SUFFICES ASSUME NEW v \in Workers, closed'[v]
                   PROVE  /\ v \in 1..created
                          /\ v \in stopping \/ v \notin pool
                          /\ \A d \in {"scale", "pool"} :
                                <<v, d>> \in calls' => v \in stopping /\ v \notin pool
        BY <1>2 DEF ClosedPlace
      <3>1. CASE v = w
        BY <2>4, <2>5, <3>1
      <3>2. CASE v # w
        BY <1>1, <2>1, <3>2 DEF PoolInv, PoolShape, CallInv, ClosedPlace
      <3> QED
        BY <3>1, <3>2
    <2>7. CallPlace' /\ CopyPlace' /\ StoppedTwiceByScale'
      BY <1>1, <1>2, <2>1 DEF PoolInv, CallInv, CallPlace, CopyPlace, StoppedTwiceByScale
    <2> QED
      BY <2>2, <2>3, <2>6, <2>7 DEF PoolInv, CallInv
  <1> QED
    BY <1>3, <1>4

\* A Stop that returns found no job that is counted: an early one that is left is
\* the one in the callback.
LEMMA WaiterKeeps ==
    ASSUME PoolInv, NEW w \in Workers, WaitForJobs(w) \/ WakeUp(w), panicked = "no"
    PROVE  PoolInv'
  <1>1. /\ stopper[w] # "none"
        /\ \/ stopper' = stopper
           \/ \E s \in {"waiting", "returned"} :
                 stopper' = [stopper EXCEPT ![w] = s] /\ (s = "returned" => NoneCounted(w))
        /\ UNCHANGED <<pool, created, subscription, jobVars, calls, closed, ctxDone, poolStop, stopping>>
        /\ panicked' \in {"no", "wait group"}
    BY DEF WaitForJobs, WakeUp, scaleVars, endVars
  <1>2. PoolShape'
    BY <1>1 DEF PoolInv, PoolShape, jobVars
  <1>3. TokensKept' /\ OneInCallback' /\ EarlyPlace'
    BY <1>1, FewerTokens DEF PoolInv, JobInv, OneInCallback, EarlyPlace, jobVars
  <1>4. ClosedFirst'
    BY <1>1 DEF PoolInv, PoolShape, JobInv, ClosedFirst
  <1>5. NoneCounted(w) => \A j, k \in early : at[j] = w /\ at[k] = w => j = k
    <2> SUFFICES ASSUME NoneCounted(w), NEW j \in early, NEW k \in early, at[j] = w, at[k] = w
                 PROVE  j = k
      OBVIOUS
    <2>1. j \in Jobs /\ k \in Jobs
      BY DEF PoolInv, PoolShape
    <2>2. job[j] = "taken" /\ job[k] = "taken"
      BY <2>1 DEF PoolInv, JobInv, EarlyPlace, NoneCounted, JobsAt
    <2> QED
      BY <2>1, <2>2 DEF PoolInv, JobInv, OneInCallback
  <1>6. StopWaitsForJobs'
    <2>1. at' = at /\ early' = early
      BY <1>1 DEF jobVars
    <2>2. \A v \in Workers : stopper'[v] = "returned" =>
             stopper[v] = "returned" \/ (v = w /\ NoneCounted(w))
      <3>1. CASE stopper' = stopper
        BY <3>1
      <3>2. ASSUME NEW s \in {"waiting", "returned"},
                   stopper' = [stopper EXCEPT ![w] = s], s = "returned" => NoneCounted(w)
            PROVE  \A v \in Workers : stopper'[v] = "returned" =>
                      stopper[v] = "returned" \/ (v = w /\ NoneCounted(w))
        BY <3>2 DEF PoolInv, PoolShape
      <3> QED
        BY <1>1, <3>1, <3>2
    <2> QED
      BY <1>5, <2>1, <2>2 DEF PoolInv, JobInv, StopWaitsForJobs
  <1>7. CallInv'
    BY <1>1 DEF PoolInv, CallInv, CallPlace, ClosedPlace, CopyPlace, StoppedTwiceByScale
  <1> QED
    BY <1>2, <1>3, <1>4, <1>6, <1>7 DEF PoolInv, JobInv

-----------------------------------------------------------------------------
(* The jobs                                                                *)

\* No step of a job calls or closes anything.
LEMMA CallsUntouched ==
    ASSUME PoolInv, UNCHANGED <<pool, created, calls, closed, poolStop, stopping>>,
           panicked' \in {panicked, "wait group"}
    PROVE  CallInv'
  BY DEF PoolInv, CallInv, CallPlace, ClosedPlace, CopyPlace, StoppedTwiceByScale

LEMMA SendJobKeeps ==
    ASSUME PoolInv, NEW w \in Workers, NEW j \in Jobs, SendJob(w, j)
    PROVE  PoolInv'
  <1>1. /\ job[j] = "unsent" /\ job' = [job EXCEPT ![j] = "buffered"] /\ at' = [at EXCEPT ![j] = w]
        /\ UNCHANGED <<pool, created, subscription, early, calls, closed, stopper, ctxDone, poolStop,
                       stopping, panicked>>
    BY DEF SendJob, scaleVars, stopVars, endVars
  <1>2. PoolShape'
    BY <1>1 DEF PoolInv, PoolShape, JobStates
  <1>3. \A i \in Jobs : job'[i] \in {"held", "taken", "running", "leaving"} =>
           job'[i] = job[i] /\ at'[i] = at[i]
    BY <1>1 DEF PoolInv, PoolShape
  <1>4. \A i \in early : i \in Jobs /\ i # j /\ job'[i] = job[i] /\ at'[i] = at[i]
    BY <1>1 DEF PoolInv, PoolShape, JobInv, EarlyPlace
  <1>5. TokensKept'
    BY <1>3, FewerTokens DEF PoolInv, JobInv
  <1>6. OneInCallback'
    BY <1>3 DEF PoolInv, JobInv, OneInCallback
  <1>7. EarlyPlace' /\ ClosedFirst' /\ StopWaitsForJobs'
    BY <1>1, <1>4 DEF PoolInv, JobInv, EarlyPlace, ClosedFirst, StopWaitsForJobs
  <1> QED
    BY <1>1, <1>2, <1>5, <1>6, <1>7, CallsUntouched DEF PoolInv, JobInv

LEMMA EnterCallbackKeeps == ASSUME PoolInv, NEW j \in Jobs, EnterCallback(j) PROVE PoolInv'
  <1>1. /\ job[j] = "buffered" /\ job' = [job EXCEPT ![j] = "held"]
        /\ JobsAt(at[j], {"held", "taken"}) = {}
        /\ UNCHANGED <<pool, created, subscription, at, early, calls, closed, stopper, ctxDone,
                       poolStop, stopping, panicked>>
    BY DEF EnterCallback, scaleVars, stopVars, endVars
  <1>2. PoolShape'
    BY <1>1 DEF PoolInv, PoolShape, JobStates
  <1>3. \A i \in Jobs : job'[i] \in {"taken", "running", "leaving"} => job'[i] = job[i]
    BY <1>1 DEF PoolInv, PoolShape
  <1>4. TokensKept'
    BY <1>1, <1>3, FewerTokens DEF PoolInv, JobInv
  <1>5. OneInCallback'
    <2>1. \A i \in Jobs : at[i] = at[j] => job[i] \notin {"held", "taken"}
      BY <1>1 DEF JobsAt
    <2> QED
      BY <1>1, <2>1 DEF PoolInv, PoolShape, JobInv, OneInCallback
  <1>6. EarlyPlace' /\ ClosedFirst' /\ StopWaitsForJobs'
    <2>1. \A i \in early : i \in Jobs /\ i # j
      BY <1>1 DEF PoolInv, PoolShape, JobInv, EarlyPlace
    <2>2. EarlyPlace'
      BY <1>1, <2>1 DEF PoolInv, PoolShape, JobInv, EarlyPlace
    <2>3. ClosedFirst' /\ StopWaitsForJobs'
      BY <1>1 DEF PoolInv, JobInv, ClosedFirst, StopWaitsForJobs
    <2> QED
      BY <2>2, <2>3
  <1> QED
    BY <1>1, <1>2, <1>4, <1>5, <1>6, CallsUntouched DEF PoolInv, JobInv

\* A job is early only at a worker that was not stopped, whose Stop has not returned.
LEMMA TakeTokenKeeps == ASSUME PoolInv, NEW j \in Jobs, TakeToken(j) PROVE PoolInv'
  <1>1. /\ job[j] = "held" /\ job' = [job EXCEPT ![j] = "taken"]
        /\ early' = IF closed[at[j]] THEN early ELSE early \cup {j}
        /\ UNCHANGED <<pool, created, subscription, at, calls, closed, stopper, ctxDone, poolStop,
                       stopping, panicked>>
    BY DEF TakeToken, scaleVars, stopVars, endVars
  <1>2. PoolShape'
    BY <1>1 DEF PoolInv, PoolShape, JobStates
  <1>3. TokensKept'
    BY OneTokenMore DEF PoolInv, JobInv
  <1>4. OneInCallback'
    <2>1. \A i \in Jobs : job'[i] \in {"held", "taken"} => job[i] \in {"held", "taken"}
      BY <1>1 DEF PoolInv, PoolShape
    <2> QED
      BY <1>1, <2>1 DEF PoolInv, JobInv, OneInCallback
  <1>5. EarlyPlace'
    BY <1>1 DEF PoolInv, PoolShape, JobInv, EarlyPlace
  <1>6. ClosedFirst'
    BY <1>1 DEF PoolInv, JobInv, ClosedFirst
  <1>7. StopWaitsForJobs'
    <2>1. at[j] \in Workers
      BY DEF PoolInv, PoolShape
    <2>2. CASE closed[at[j]]
      BY <1>1, <2>2 DEF PoolInv, JobInv, StopWaitsForJobs
    <2>3. CASE ~closed[at[j]]
      <3>1. stopper[at[j]] # "returned"
        BY <2>1, <2>3 DEF PoolInv, JobInv, ClosedFirst
      <3> QED
        BY <1>1, <3>1 DEF PoolInv, JobInv, StopWaitsForJobs
    <2> QED
      BY <2>2, <2>3
  <1> QED
    BY <1>1, <1>2, <1>3, <1>4, <1>5, <1>6, <1>7, CallsUntouched DEF PoolInv, JobInv

\* The other steps of a job: it leaves the callback, gives its token back, or ends.
LEMMA JobGoesKeeps ==
    ASSUME PoolInv, panicked = "no", NEW j \in Jobs,
           DropJob(j) \/ StartJob(j) \/ ReturnToken(j) \/ FinishJob(j)
    PROVE  PoolInv'
  <1>1. /\ UNCHANGED <<pool, created, subscription, at, calls, closed, ctxDone, poolStop, stopping>>
        /\ panicked' \in {panicked, "wait group"}
    BY DEF DropJob, StartJob, ReturnToken, FinishJob, scaleVars, stopVars, endVars
  <1>2. \/ job[j] = "held" /\ job' = [job EXCEPT ![j] = "over"] /\ early' = early
        \/ job[j] = "taken" /\ job' = [job EXCEPT ![j] = "running"] /\ early' = early
        \/ job[j] = "running" /\ job' = [job EXCEPT ![j] = "leaving"] /\ early' = early
        \/ job[j] = "leaving" /\ job' = [job EXCEPT ![j] = "over"] /\ early' = early \ {j}
    BY DEF DropJob, StartJob, ReturnToken, FinishJob
  <1>3. \/ stopper' = stopper
        \/ /\ stopper[at[j]] = "waiting"
           /\ stopper' = [stopper EXCEPT ![at[j]] = "woken"]
    BY DEF DropJob, StartJob, ReturnToken, FinishJob, stopVars
  <1>4. at[j] \in Workers /\ early' \subseteq early
    BY <1>2 DEF PoolInv, PoolShape
  <1>5. PoolShape'
    <2>1. job' \in [Jobs -> JobStates]
      BY <1>2 DEF PoolInv, PoolShape, JobStates
    <2>2. stopper' \in [Workers -> {"none", "closed", "waiting", "woken", "returned"}]
      BY <1>3 DEF PoolInv, PoolShape
    <2>3. panicked' \in {"no", "closed twice", "wait group"}
      BY <1>1
    <2> QED
      BY <1>1, <1>4, <2>1, <2>2, <2>3 DEF PoolInv, PoolShape
  <1>6. TokensKept'
    <2>1. \A i \in Jobs : job'[i] \in {"taken", "running"} => job[i] \in {"taken", "running"}
      BY <1>2 DEF PoolInv, PoolShape
    <2> QED
      BY <1>1, <2>1, FewerTokens DEF PoolInv, JobInv
  <1>7. OneInCallback'
    <2>1. \A i \in Jobs : job'[i] \in {"held", "taken"} => job[i] \in {"held", "taken"}
      BY <1>2 DEF PoolInv, PoolShape
    <2> QED
      BY <1>1, <2>1 DEF PoolInv, JobInv, OneInCallback
  <1>8. EarlyPlace'
    BY <1>2 DEF PoolInv, PoolShape, JobInv, EarlyPlace
  <1>9. ClosedFirst'
    BY <1>1, <1>3 DEF PoolInv, PoolShape, JobInv, ClosedFirst
  <1>10. \A w \in Workers : stopper'[w] = "returned" => stopper[w] = "returned"
    BY <1>3 DEF PoolInv, PoolShape
  <1>11. StopWaitsForJobs'
    BY <1>1, <1>4, <1>10 DEF PoolInv, JobInv, StopWaitsForJobs
  <1> QED
    BY <1>1, <1>5, <1>6, <1>7, <1>8, <1>9, <1>11, CallsUntouched DEF PoolInv, JobInv

-----------------------------------------------------------------------------
(* The theorems                                                            *)

LEMMA PoolInitHolds == ASSUME PoolInit PROVE PoolInv
  <1>1. 0 \in 0..MaxWorkers /\ 1 \in Workers
    BY PoolAssumption DEF Workers
  <1>2. ctxDone \in BOOLEAN
    BY Zenon DEF PoolInit
  <1>3. PoolShape
    BY <1>1, <1>2 DEF PoolInit, PoolShape, JobStates
  <1>4. \A w : JobsAt(w, {"taken", "running"}) = {}
    BY DEF PoolInit, JobsAt
  <1>5. TokensKept
    BY <1>4, FS_EmptySet, PoolAssumption DEF TokensKept
  <1>6. \A j \in Jobs : job[j] = "unsent"
    BY DEF PoolInit
  <1>7. OneInCallback /\ EarlyPlace /\ ClosedFirst /\ StopWaitsForJobs
    BY <1>6 DEF PoolInit, OneInCallback, EarlyPlace, ClosedFirst, StopWaitsForJobs
  <1>8. CallInv
    BY DEF PoolInit, CallInv, CallPlace, ClosedPlace, CopyPlace, StoppedTwiceByScale
  <1> QED
    BY <1>3, <1>5, <1>7, <1>8 DEF PoolInv, JobInv

LEMMA PoolStepKeeps == ASSUME PoolInv, [PoolNext]_poolVars PROVE PoolInv'
  <1>1. CASE UNCHANGED poolVars
    <2>1. PoolShape'
      BY <1>1 DEF poolVars, PoolInv, PoolShape
    <2>2. JobInv'
      BY <1>1, JobsUntouched DEF poolVars, jobVars
    <2>3. CallInv'
      BY <1>1, CallsUntouched DEF poolVars
    <2> QED
      BY <2>1, <2>2, <2>3 DEF PoolInv
  <1>2. CASE PoolNext
    BY <1>2, ScaleUpKeeps, ScaleDownKeeps, BeginPoolStopKeeps, OtherKeeps, CloseStopChKeeps,
       WaiterKeeps, SendJobKeeps, EnterCallbackKeeps, TakeTokenKeeps, JobGoesKeeps
    DEF PoolNext, WorkerStep, JobStep
  <1> QED
    BY <1>1, <1>2

LEMMA PoolInductive == PoolSpec => []PoolInv
  <1>1. PoolInit => PoolInv
    BY PoolInitHolds
  <1>2. PoolInv /\ [PoolNext]_poolVars => PoolInv'
    BY PoolStepKeeps
  <1> QED
    BY <1>1, <1>2, PTL DEF PoolSpec

\* Every variable keeps its type, and the jobs of a worker that hold a token are
\* never more than the tokens of its semaphore.
THEOREM PoolTypeCorrect == PoolSpec => []PoolTypeOK
  <1>1. PoolInv => PoolTypeOK
    <2> SUFFICES ASSUME PoolInv PROVE PoolTypeOK
      OBVIOUS
    <2>1. stopping \subseteq Workers
      BY PoolNumbers DEF PoolInv
    <2> QED
      BY <2>1 DEF PoolInv, PoolShape, JobInv, TokensKept, PoolTypeOK
  <1> QED
    BY <1>1, PoolInductive, PTL

\* When Stop of a worker has returned, every job that had its token before the
\* worker was stopped is over, but the one whose callback had not yet called
\* wg.Add; however the selects choose, and whoever scales or stops the pool.
THEOREM StopWaits == PoolSpec => []StopWaitsForJobs
  <1>1. PoolInv => StopWaitsForJobs
    BY DEF PoolInv, JobInv
  <1> QED
    BY <1>1, PoolInductive, PTL

\* Worker.Stop is called twice of a worker, and the second close of stopCh panics,
\* only if Scale removed the worker after Stop of the pool had copied the pool.
THEOREM StoppedTwice == PoolSpec => []StoppedTwiceByScale
  <1>1. PoolInv => StoppedTwiceByScale
    BY DEF PoolInv, CallInv
  <1> QED
    BY <1>1, PoolInductive, PTL
=============================================================================
