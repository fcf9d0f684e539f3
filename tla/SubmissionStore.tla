-------------------------- MODULE SubmissionStore --------------------------
(***************************************************************************)
(* One submission in the two places that keep it, its row in MySQL and its *)
(* answer in the Redis cache, with everyone who writes or reads them: the  *)
(* api-gateway that creates and deletes it, the fan-out of its batch, the  *)
(* workers that run its job, the dead-letter drainer, and GET requests     *)
(* that read through the cache. (ResultWaiter has those who wait.)         *)
(*                                                                         *)
(* The job queue is here in short: a job published once may be delivered   *)
(* several times (BatchPipeline has the detail).                           *)
(***************************************************************************)
EXTENDS Naturals, FiniteSets

CONSTANTS
    Attempts,        \* bound: the deliveries of the submission's jobs to workers
    Readers,         \* the GET requests that run at the same time
    MaxSubFailures,  \* bound: how many failures are explored
    SubFaults        \* the kinds of failure that may occur

(***************************************************************************)
(* "redis": a Redis command fails. "db": a MySQL statement fails, because  *)
(* its context has ended included. "publish": the queue refuses the job.   *)
(* "crash": a worker or the gateway dies.                                  *)
(***************************************************************************)
ASSUME SubAssumption ==
    /\ MaxSubFailures \in Nat
    /\ SubFaults \subseteq {"redis", "db", "publish", "crash"}

VARIABLES
    origin,     \* how the submission was made: one request, or with a batch
    row,        \* the status in MySQL
    entry,      \* the status in the cached answer
    stored,     \* the statuses that the row has held
    unrecorded, \* the results that a worker could not write into the row
    creator,    \* how far the request, or the fan-out, that makes the job got: a
                \* batch is pending until it is fanned out, and after a fan-out failed
    listed,     \* the status in the creator's copy of the row
    published,  \* a job of the submission was put on the queue
    attempt,    \* how far each delivery got
    outcome,    \* the result of each delivery's run
    reader,     \* how far each GET got
    copy,       \* the status in the row that each GET read
    latest,     \* the status in the answer given last
    expired,    \* a cached answer has expired at least once
    subFailures \* how many failures occurred so far

subVars == <<origin, row, entry, stored, unrecorded, creator, listed, published,
             attempt, outcome, reader, copy, latest, expired, subFailures>>
tableVars == <<row, stored, unrecorded>>
creatorVars == <<origin, creator, listed, published>>
workerVars == <<attempt, outcome>>
readerVars == <<reader, copy, latest>>

SubResults == {"Judged", "InternalError"}
Statuses == {"InQueue", "Processing"} \cup SubResults

AttemptPC == {"idle", "announcing", "running", "persisting", "caching", "over"}

\* Every variable keeps its type, and a result is taken from the run's outcome.
SubTypeOK ==
    /\ origin \in {"api", "batch"}
    /\ row \in Statuses \cup {"none", "deleted"}
    /\ entry \in Statuses \cup {"none"}
    /\ stored \subseteq Statuses
    /\ unrecorded \subseteq SubResults
    /\ creator \in {"creating", "pending", "seeding", "publishing", "idle"}
    /\ listed \in Statuses \cup {"none"}
    /\ published \in BOOLEAN
    /\ attempt \in [Attempts -> AttemptPC]
    /\ outcome \in [Attempts -> SubResults \cup {"none"}]
    /\ \A a \in Attempts :
          attempt[a] \in {"persisting", "caching"} => outcome[a] \in SubResults
    /\ reader \in [Readers -> {"idle", "reading", "filling"}]
    /\ copy \in [Readers -> Statuses \cup {"none"}]
    /\ latest \in Statuses \cup {"none", "missing"}
    /\ expired \in BOOLEAN
    /\ subFailures \in 0..MaxSubFailures

SubInit ==
    /\ origin \in {"api", "batch"}
    /\ row = "none" /\ entry = "none"
    /\ stored = {} /\ unrecorded = {}
    /\ creator = "creating" /\ listed = "none" /\ published = FALSE
    /\ attempt = [a \in Attempts |-> "idle"]
    /\ outcome = [a \in Attempts |-> "none"]
    /\ reader = [r \in Readers |-> "idle"]
    /\ copy = [r \in Readers |-> "none"]
    /\ latest = "none"
    /\ expired = FALSE
    /\ subFailures = 0

\* A failure of the given kind occurs in this step, or none does.
SubFails(kind) ==
    /\ kind \in SubFaults
    /\ subFailures < MaxSubFailures
    /\ subFailures' = subFailures + 1

SubWorks == UNCHANGED subFailures

\* The submission exists and its token is known to its user: the request that
\* creates it has answered. (A batch is answered when its rows are stored.)
Issued == row # "none" /\ (origin = "api" => creator = "idle")

-----------------------------------------------------------------------------
(* Tables and cache                                                        *)

\* The row gets status s. An update that finds no row changes nothing, and is
\* no error.
Store(s) ==
    IF row \in Statuses
    THEN row' = s /\ stored' = stored \cup {s} /\ UNCHANGED unrecorded
    ELSE UNCHANGED <<row, stored>> /\ unrecorded' = unrecorded \cup ({s} \cap SubResults)

\* The cached answer becomes s; a failure is ignored by every caller.
SetEntry(s) ==
    \/ entry' = s /\ SubWorks
    \/ UNCHANGED entry /\ SubFails("redis")

\* As if answers were stored without a time to live.
NeverExpires == FALSE /\ UNCHANGED subVars

\* The entry reaches its time to live.
Expire ==
    /\ entry # "none"
    /\ entry' = "none"
    /\ expired' = TRUE
    /\ SubWorks
    /\ UNCHANGED <<tableVars, creatorVars, workerVars, readerVars>>

-----------------------------------------------------------------------------
(* Creating the submission and its job                                     *)

\* submissionRepo.Create, or the transaction that stores a whole batch.
CreateRow ==
    /\ creator = "creating"
    /\ row' = "InQueue" /\ stored' = {"InQueue"}
    /\ creator' = IF origin = "api" THEN "seeding" ELSE "pending"
    /\ listed' = IF origin = "api" THEN "InQueue" ELSE "none"
    /\ SubWorks
    /\ UNCHANGED <<entry, unrecorded, origin, published, workerVars, readerVars, expired>>

\* Starter.Start claims the pending batch and reads its rows.
ListForFanOut ==
    /\ creator = "pending"
    /\ row \in Statuses
    /\ listed' = row
    /\ creator' = "seeding"
    /\ SubWorks
    /\ UNCHANGED <<tableVars, entry, origin, published, workerVars, readerVars, expired>>

\* As if the cache were seeded in the background, once the job is on its way.
SeedLast ==
    /\ \/ creator = "seeding" /\ creator' = "publishing" /\ UNCHANGED <<entry, listed, subFailures>>
       \/ /\ creator = "idle" /\ listed # "none"
          /\ UNCHANGED creator /\ listed' = "none"
          /\ SetEntry(listed)
    /\ UNCHANGED <<tableVars, origin, published, workerVars, readerVars, expired>>

\* The cache gets the status that the creator knows, before the job exists.
SeedEntry ==
    /\ creator = "seeding"
    /\ creator' = "publishing" /\ listed' = "none"
    /\ SetEntry(listed)
    /\ UNCHANGED <<tableVars, origin, published, workerVars, readerVars,
                   expired>>

\* The queue has the job. Or PublishJob fails: the request is answered in the
\* same way, and has no job; a batch is pending again, though this job may have
\* been taken before another one was refused.
PublishJob ==
    /\ creator = "publishing"
    /\ \/ published' = TRUE /\ creator' = "idle" /\ SubWorks
       \/ /\ IF origin = "api"
             THEN creator' = "idle" /\ UNCHANGED published
             ELSE creator' = "pending" /\ published' \in {published, TRUE}
          /\ SubFails("publish")
    /\ UNCHANGED <<tableVars, entry, origin, listed, workerVars, readerVars, expired>>

\* The creating process dies: nothing is undone, and a batch stays claimed.
CreatorDies ==
    /\ creator \in {"seeding", "publishing"}
    /\ creator' = "idle" /\ listed' = "none"
    /\ SubFails("crash")
    /\ UNCHANGED <<tableVars, entry, origin, published, workerVars, readerVars,
                   expired>>

\* DELETE /submissions/:token removes the row, then the cached answer; the row
\* stays when the statement fails, and the answer stays when Redis does.
DeleteSubmission ==
    /\ Issued /\ row # "deleted"
    /\ row' = "deleted"
    /\ SetEntry("none")
    /\ UNCHANGED <<stored, unrecorded, creatorVars, workerVars, readerVars, expired>>

\* The dead-letter drainer records that every delivery failed, in the row only.
DrainIntoRow ==
    /\ published
    /\ row \in Statuses
    /\ \A a \in Attempts : attempt[a] = "over"
    /\ row # "InternalError"
    /\ Store("InternalError")
    /\ SubWorks
    /\ UNCHANGED <<entry, creatorVars, workerVars, readerVars, expired>>

-----------------------------------------------------------------------------
(* Worker.processJob, a step per call to MySQL or Redis                    *)

\* Delivery a goes from one step to the next.
Goes(a, from, to) ==
    /\ attempt[a] = from
    /\ attempt' = [attempt EXCEPT ![a] = to]

\* A delivery begins: updateSubmissionStatus; if it fails, it ends here.
MarkRow(a) ==
    /\ published
    /\ \/ Goes(a, "idle", "announcing") /\ Store("Processing") /\ SubWorks
       \/ Goes(a, "idle", "over") /\ UNCHANGED tableVars /\ SubFails("db")
    /\ UNCHANGED <<entry, creatorVars, outcome, readerVars, expired>>

\* publishRedisStatus
Announce(a) ==
    /\ Goes(a, "announcing", "running")
    /\ SetEntry("Processing")
    /\ UNCHANGED <<tableVars, creatorVars, outcome, readerVars, expired>>

\* The job is run, or cannot be.
RunJob(a) ==
    /\ Goes(a, "running", "persisting")
    /\ \E s \in SubResults : outcome' = [outcome EXCEPT ![a] = s]
    /\ SubWorks
    /\ UNCHANGED <<tableVars, entry, creatorVars, readerVars, expired>>

\* As if the cache were told of the result and the row written afterwards.
PersistLater(a) ==
    /\ Goes(a, "persisting", "caching")
    /\ SubWorks
    /\ UNCHANGED <<tableVars, entry, creatorVars, outcome, readerVars, expired>>

\* The result is written; a failure is logged, and the job goes on.
PersistRow(a) ==
    /\ Goes(a, "persisting", "caching")
    /\ \/ Store(outcome[a]) /\ SubWorks
       \/ /\ unrecorded' = unrecorded \cup {outcome[a]}
          /\ UNCHANGED <<row, stored>>
          /\ SubFails("db")
    /\ UNCHANGED <<entry, creatorVars, outcome, readerVars, expired>>

\* The cache gets the result, whoever waits is notified, and the job is over.
CacheResult(a) ==
    /\ Goes(a, "caching", "over")
    /\ SetEntry(outcome[a])
    /\ outcome' = [outcome EXCEPT ![a] = "none"]
    /\ UNCHANGED <<tableVars, creatorVars, readerVars, expired>>

WorkerDies(a) ==
    /\ attempt[a] \notin {"idle", "over"}
    /\ attempt' = [attempt EXCEPT ![a] = "over"]
    /\ outcome' = [outcome EXCEPT ![a] = "none"]
    /\ SubFails("crash")
    /\ UNCHANGED <<tableVars, entry, creatorVars, readerVars, expired>>

-----------------------------------------------------------------------------
(* GET /submissions/:token                                                 *)

\* getFromCache finds an answer.
Hit(r) ==
    /\ reader[r] = "idle" /\ Issued
    /\ entry # "none"
    /\ latest' = entry
    /\ SubWorks
    /\ UNCHANGED <<tableVars, entry, creatorVars, workerVars, reader, copy, expired>>

\* getFromCache finds none, or fails, which is the same to it.
Miss(r) ==
    /\ reader[r] = "idle" /\ Issued
    /\ \/ entry = "none" /\ SubWorks
       \/ SubFails("redis")
    /\ reader' = [reader EXCEPT ![r] = "reading"]
    /\ UNCHANGED <<tableVars, entry, creatorVars, workerVars, copy, latest, expired>>

\* The row is read: there is none, or the statement fails, and the answer is
\* 404; or it is copied.
ReadRow(r) ==
    /\ reader[r] = "reading"
    /\ \/ /\ \/ row = "deleted" /\ SubWorks
             \/ SubFails("db")
          /\ reader' = [reader EXCEPT ![r] = "idle"]
          /\ latest' = "missing"
          /\ UNCHANGED copy
       \/ /\ row \in Statuses /\ SubWorks
          /\ reader' = [reader EXCEPT ![r] = "filling"]
          /\ copy' = [copy EXCEPT ![r] = row]
          /\ UNCHANGED latest
    /\ UNCHANGED <<tableVars, entry, creatorVars, workerVars, expired>>

\* The copy goes into the cache, whatever that holds by now, and to the user.
FillEntry(r) ==
    /\ reader[r] = "filling"
    /\ SetEntry(copy[r])
    /\ latest' = copy[r]
    /\ reader' = [reader EXCEPT ![r] = "idle"]
    /\ copy' = [copy EXCEPT ![r] = "none"]
    /\ UNCHANGED <<tableVars, creatorVars, workerVars, expired>>

-----------------------------------------------------------------------------
CreatorStep == CreateRow \/ ListForFanOut \/ SeedEntry \/ PublishJob \/ CreatorDies

AttemptRuns(a) ==
    MarkRow(a) \/ Announce(a) \/ RunJob(a) \/ PersistRow(a) \/ CacheResult(a)

ReaderStep(r) == Hit(r) \/ Miss(r) \/ ReadRow(r) \/ FillEntry(r)

SubNext ==
    \/ CreatorStep \/ DeleteSubmission \/ DrainIntoRow \/ Expire
    \/ \E a \in Attempts : AttemptRuns(a) \/ WorkerDies(a)
    \/ \E r \in Readers : ReaderStep(r)

SubSpec == SubInit /\ [][SubNext]_subVars

-----------------------------------------------------------------------------
(* Properties                                                              *)

\* A result that the cache serves, or that a user was given, is in the row or
\* was there, unless its write failed or found no row (processJob writes the
\* row first and goes on to the cache when that fails).
ResultIsRecorded ==
    \A s \in SubResults : entry = s \/ latest = s => s \in stored \cup unrecorded

\* While nothing fails, no entry expires and the job is delivered once, the
\* user of a single submission never sees it finished and then unfinished: the
\* gateway seeds the cache before the token is out and before the job exists,
\* so that no reader has an older row in hand.
Undisturbed ==
    /\ origin = "api" /\ subFailures = 0 /\ ~expired /\ row # "deleted"
    /\ Cardinality({a \in Attempts : attempt[a] # "idle"}) <= 1

ReadsNeverGoBack ==
    [][ Undisturbed' /\ latest \in SubResults /\ latest' # latest => latest' \in SubResults ]_subVars

\* The cache agrees with the row in the end. A GET that read the row early may
\* put it over a newer answer, a fan-out may seed what it listed before the job
\* ran, a worker may finish a submission that was deleted, and the drainer
\* writes only the row: once the row has settled, what they left in the cache
\* goes with its time to live, and does not come back.
CacheConverges ==
    \A s \in Statuses \cup {"deleted"} :
        <>[](row = s) => <>[](entry \in {s, "none"})
=============================================================================
