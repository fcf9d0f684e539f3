# Specifications of coding-runtime

TLA+ modules that model the control of this repository's services, TLC runs that
check them on small instances, and proofs that TLAPS checks for every instance.
`PROJECT.json` lists the runs, the code each definition stands for, the hazards the
properties are aimed at and what was found.

    tlc -config batch_faults.cfg MCBatchPipeline.tla     # any run of PROJECT.json
    tlapm BatchPipelineProofs.tla                        # the proofs, of each *Proofs module

## The system

An **api-gateway** accepts code submissions, single or in batches. **Workers** run them
in Docker containers and store the results. A **queue-manager** drains dead letters and
re-delivers webhooks. They share MySQL (the truth), Redis (a cache of results and a
notification channel) and a queue: SQS, whose messages carry only the token of a
submission, or NATS, whose messages carry the whole job.

| Component (source) | State | Operations | Interacts with |
|---|---|---|---|
| Batch lifecycle (`batchproc`, `database/batch_repository.go`) | `batches` row: status, completed, total, webhook status | create, claim (MarkProcessing), fan out, roll back (MarkPending), IncrementCompleted, MarkWebhook | START consumer, workers, dispatcher, reconciler |
| SQS consumers (`queue/sqs`) | messages, receive counts, slots | receive, load, handle, delete, back off | the lifecycle, the worker, MySQL |
| SQS publisher (`queue/sqs/publisher.go`) | none | chunks of 10, stops at the first failed one | Starter, API |
| Dead-letter drainer (`queue/sqs/dlq.go`) | dead letters | record InternalError, delete | submissions |
| Worker (`worker/worker.go`) | row of the submission, cache entry | mark Processing, run, persist, notify, advance the batch | all of the above, dispatcher |
| Worker pool (`worker/pool.go`) | workers, slots, stop channels, NATS subscriptions | Start, Stop, Scale | worker |
| Webhook delivery (`webhook`, reconciler in `cmd/queue-manager`) | webhook status, retry count | deliver with retry, sweep, callback request | batch row, the receiver |
| Submission store (`database/repository.go`, `cache`, `queue/wait.go`, handlers) | row, cache entry, `done:` channel | create, read through, wait, delete | worker, drainer |
| JetStream queue (`queue/*.go`) | stream, deliveries, dead-letter stream | consume, nak, forward, replay | worker, submissions |
| Image pool (`sandbox/image_pool.go`) | known images | ensure, pull, tag | Docker |
| Sandbox (`sandbox/docker.go`, `io.go`, `constraints.go`) | container, output buffers, limits | compile, run, collect output, kill | Docker |
| Database runtime (`runtime/db_runtime.go`) | container, script directory | run a script in a database of its own | Docker, image pool |
| Runtime manager (`runtime/manager.go`) | the languages in memory | RefreshCache, GetLanguage, build the request of an execution | language cache, sandbox |
| Language cache (`cache/cache.go`, language handlers) | rows, Redis entries | read through, change and invalidate | API, runtime manager |
| Rate limits (`api/middleware/rate_limit.go`, `cache/rate_limiter.go`) | Redis counters, a sorted set | count a period; count a window | API |
| Bulk sweeps (`api/handlers/batch.go`) | cursor, page, semaphore | retrigger webhooks, start pending batches | batch rows, dispatcher, Starter |

What is hard here: every database statement and queue call of a handler interleaves with
those of all other processes; messages are delivered again after a crash, a failed
acknowledgement or a timeout, to handlers that are not idempotent; a fan-out can fail
half-way; a status is rolled back while the work it describes goes on. What makes the
batch component correct: one fan-out at a time, no submission lost or counted twice, the
webhook fired once with a complete result, a completed batch stays completed and can be
found by the reconciler. The others: a result that is served was recorded, and the cache
agrees with the row in the end; a waiter is answered though the notification is lost; a
sweep visits what was there all the time, once; a stopped worker waits for its jobs; a
job of the stream is finished or dead, never gone; an execution ends, leaves nothing
behind and says what its program did; an ensured image is there; limits are neither
exceeded nor undercut. The hazards, line by line, are in `PROJECT.json`.

## Modules

| Module | What it is |
|---|---|
| `BatchContract` | what the platform promises for a batch: started once, every submission finished once, webhook fired once, after the last result |
| `BatchPipeline` | the code that is to keep it, in SQS mode: rows, queues, Starter, consumers, workers, drainer |
| `MCBatchPipeline` | instances of it for TLC; its runs are the `batch_*.cfg` files |
| `BatchPipelineProofs` | theorems about `BatchPipeline` and their proofs |
| `WebhookDelivery` | the delivery of a batch's result: workers' dispatches, callback requests, the reconciler, the retry schedule |
| `MCWebhookDelivery` | instances of it for TLC; its runs are the `webhook_*.cfg` files |
| `WebhookDeliveryProofs` | theorems about `WebhookDelivery` and their proofs |
| `SubmissionStore` | one submission's row and cached answer, with its creator, its workers, the drainer, deletion and the GETs that read through |
| `ResultWaiter` | waiting for the result: subscription, cache and poller, and the polling of POST with `wait` |
| `BulkSweep` | the two bulk sweeps, page by page, over a set of batches that changes |
| `LanguageCache` | the languages in MySQL, in Redis and in a worker's memory |
| `RequestBudget`, `SlidingWindow` | the rate limit of the routes; `cache.RateLimiter`, command by command |
| `MCGateway` | one instance of these six for TLC (`gateway.cfg`) |
| `NatsQueue` | a job in JetStream: publisher, pull consumer, dead letters, replay |
| `WorkerPool` | the pool of the core NATS mode: subscriptions, tokens, Stop and Scale |
| `ContainerRun` | a container from creation to removal, for the two modules that follow |
| `Sandbox`, `DatabaseRun` | `DockerSandbox.Execute`; a script in a database container (both extend `ContainerRun`) |
| `ImagePool`, `OutputCapture`, `ExecutionLimits` | EnsureImage; stdCopy and LimitedWriter; the limits from the request to the container |
| `MCWorkerNode` | one instance of these eight, and of a dispatch of `WebhookDelivery`, for TLC (`worker_node.cfg`) |
| `BulkSweepProofs`, `WorkerPoolProofs`, `NatsQueueProofs`, `SandboxProofs` | theorems about the module of that name; `SandboxProofs` also about `DatabaseRun` |
| `GatewayProofs` | theorems about the other five parts of `MCGateway`, and about that instance as a whole |
| `WorkerNodeProofs` | theorems about `ImagePool`, `OutputCapture`, `ExecutionLimits`, and about `MCWorkerNode` as a whole |

### BatchPipeline and the code

State. `bstatus`, `completed` are columns of the `batches` row; `fired` counts the
dispatches that `advanceBatch` launches (the batch has a webhook). `sub` is the status
column of each submission ("Judged" stands for the statuses 3 to 7 a run can give). A
message of the job queue is a pair of a submission and the fan-out that sent it; `msg`
says where it is and `rcv` how often it was received. `att[m][r]` is the handler of the
r-th receipt of message m, and how far it got; a handler that SQS gave up on goes on
beside its successor. `evt`, `evtRcv`, `run`, `todo` do the same for START events.

Actions. There is one action per database statement or queue call, with the code between
it and the next one:

- `StartClaims`, `StartNotPending`, `StartClaimFails`, `ListSubmissions`, `PublishChunk`,
  `PublishFails`, `FanOutDone`, `RollBack`: Starter.Start, called by StartConsumer.process.
- `ReceiveJob`, `ReceiveAbandoned`: Consumer.receiveAndDispatch.
- `AttemptAborts`, `MarkProcessing`, `PersistResult` or `FailJob`, `AdvanceBatch`, `EndJob`
  or `Backoff`: Consumer.process and Worker.processJob, in this order.
- `DrainDeadLetter`, `DeleteSubmission`: the drainer and the DELETE handler.
- `VisibilityExpires`, `Redrive`, `StartReappears`, `StartDies`: what SQS does. `DeletedWith`
  is a delete with a receipt that may be stale, which SQS ignores.
- `CrashStart`, `CrashAttempt`: a process dies or is shut down. On SIGTERM the context
  of the statements in flight is cancelled, which is a "db" failure and then a crash.

`StatusAfter` deserves a word. IncrementCompleted sets `completed = completed + 1` and
`status = CASE WHEN completed + 1 >= total ...` in one UPDATE. gorm writes the columns of
a map in alphabetical order and MySQL evaluates SET from left to right, using the new
value of a column assigned before: the CASE sees the incremented counter. The constant
SequentialSet selects this behaviour; FALSE is that of a database that evaluates all of
SET with the old row. The proofs cover both.

Left out, with reasons. Redis, metrics, logs and callbacks: these steps write them and
never read them. Time: a timeout is a step that may happen ("slow"). A database call that
takes effect and reports failure. A START handler that outlives its visibility timeout:
its second delivery behaves like a second START event, of which the runs have two.
Malformed messages. The delivery of the webhook, which is `WebhookDelivery`. The
priority queue, which has the same redrive policy and is not used by batches. START
requests over HTTP (POST /batches/:id/start and the bulk sweep) call Starter.Start
themselves: they are START events that are never delivered again, which `Spec` allows.

### WebhookDelivery and the code

State. One `batches` row (`counted`, `bstatus`, `wstatus`, `wretries`), how many of its
submissions have a result, and what the receiver took (`accepted`, a payload being the
number of results in it). Each dispatcher has a place `pc` and the local variables of its
call, `call`: payload, attempts, the next delay, the time spent. Dispatchers are the
goroutines that `advanceBatch` launches, callback requests, and the reconciler, which is
idle again after each call.

Actions. `FinishOne` and `CountOne` are the batch in short: `counted` may run ahead of
`results` by `Recounts`, because a submission may be counted twice (see the findings), and
every count from the total on launches a dispatch. `Prepare`, `Deliver`, `WaitForRetry`,
`MarkSent`, `MarkFailed` are the steps of DispatchBatch and DispatchBatchWithRetry;
`RequestCallback` and `Sweep` start such a call; `Crash` ends one. A POST is refused, or
taken, or taken without its answer being heard. MarkWebhook is unconditional.

Left out: the grace period and the maximal age of the reconciler (a sweep may come at any
time, and the batch is young enough), its limit of 25 batches, the bulk re-delivery, the
webhook row, and batches without a webhook, for which nothing happens. The end of a
dispatch's context is left out because `BudgetCoversRetries` shows that no dispatch
reaches it before its outcome is to be recorded.

### The api-gateway's modules and the code

`SubmissionStore`. `row` and `entry` are the status in MySQL and the one in the cached
answer. The creator (`CreateRow`, `SeedEntry`, `PublishJob`) is the POST handler or, for a
batch, the transaction and the fan-out (`ListForFanOut` is the row it read before).
`MarkRow`, `Announce`, `RunJob`, `PersistRow`, `CacheResult` are Worker.processJob, with a
crash between any two; `Miss`, `ReadRow`, `FillEntry` are the GET that reads through, which
holds its copy over the steps of the others. `stored` and `unrecorded` are history: what
the row has held, and what could not be written. `Store` is an UPDATE by token: on a
deleted row it changes nothing and is no error.

`ResultWaiter`. `ListenerStep`, `PollerStep` are WaitForResult: subscribe, look again, then
select among the notification, the poller's channel of capacity one, and the context; the
poller is a goroutine of its own and goes on until it hears of the end. `CallerStep` is
PollForCompletion. `CachedChanges` and `PublishDone` are the rest of the world, any value
at any time; a message sent before the subscription is in force is lost.

`BulkSweep`. `FetchPage` is the query `id > afterID ORDER BY id LIMIT n`, `HandOut` takes a
token of `sem` and starts the goroutine, `EndPage` waits for the page. `BatchMoves` is
everyone who moves a batch in or out of the set. `steady`, `visited`, `twice` are history.

`LanguageCache`. One language, versions in place of contents; `overlapped` records that a
change came while someone held an older version. `SetActive`, `DisableAll`, `EnforceActive`
with `InvalidateList`, `InvalidateOne` are the administrators and a gateway that starts;
`AskEntry`, `ReadLang`, `FillLang` the GETs with their filling goroutine; `BeginRefresh` to
`FillFromRefresh` the start of a worker; `AskMemory` to `FillForJob` GetLanguage, layer by
layer.

`RequestBudget` has a bucket per class of route and client. `SlidingWindow` has one key
and a step per command of the pipeline, which is no transaction. It is not used by the
routes.

### The worker node's modules and the code

`NatsQueue`. `PublishAttempt` is publishWithRetry, whose failed attempt may have stored the
message; `Copies` are the messages that the stream then holds of one job. `FetchMessage`,
`Dispatch`, `GiveBack` are the pull loop and its semaphore; `HandleJob`, `Retry`, `Forward`,
`AckMessage` the goroutine of a delivery, with every call that may fail; `StopConsumer` to
`StartConsumer` a stop, a crash and a restart. `ProcessDead` and `LoseDead` are the
processor of dead letters, `ResetRow` to `UndoReset` ReplayJob, which does not ask for the
status it resets: the row is in `InQueue` or in some other status. AckWait, MaxDeliver and
the window for duplicates are JetStream, as this code configures it. A last delivery that
ends without an answer leaves its message `spent`: it is in the stream, and nobody gets it
(see the findings). `mishaps` records the failures that nothing makes up for; the others
(`Mended`) are only counted.

`WorkerPool`. `Scale` adds workers, or stops the newest, at any time, also while the pool is
being stopped. `BeginPoolStop` copies the pool and calls Stop of each worker of the copy;
`calls` are the calls that did not begin yet. Stop of a worker closes `stopCh`
(`CloseStopCh`), which panics if it is closed already, and waits for the group
(`WaitForJobs`, `WakeUp`). A job goes from the buffer of a subscription to its callback, one
at a time (`EnterCallback`), which waits for a token (`TakeToken`) or gives up once `stopCh`
is closed (`DropJob`): Go's select chooses when both are possible. `wg.Add` is a step of its
own after the token (`StartJob`), as Stop may run in between; the goroutine's deferred calls
give the token back (`ReturnToken`) and leave the group (`FinishJob`), which wakes the
waiter. A wait group panics when an Add from zero meets the waiter it woke, on either side.
The subscription of a stopped worker goes on, and is given jobs, until the context ends
(`Drain`); then its buffer is still delivered. A panic ends the process, hence the guard of
`PoolNext`.

`ContainerRun` has what `docker.go` and `db_runtime.go` do in the same way: create, attach,
start, kill, remove, each of which may fail, or be cut off by the deadline with its effect
done and its answer lost (`stranded`). The program may end in any way, or never; the
stream of output ends with the container, or earlier. `Sandbox` adds the directory, the
compiler's container before the program's, the wait with its three ends, and the verdict;
`DatabaseRun` the wait of the other runtime, which follows the output.

`ImagePool`: two names of an image, as the registry has one and the callers use another.
`OutputCapture`: bytes are counted; frames and chunks are cut anywhere; a write that took
less than it was given ends the copy. `ExecutionLimits`: the table of languages with their
limits, and each change of units as the code does it. The handler keeps neither the wall
time of a request nor its other limits; KB become bytes in an int64, which wraps (`Wrap`).
`Kilo` stands for 1024 and `Half` for 2^63, since TLC's integers end before 4 GB: the run
has 16 and 2^25, which leaves the maximum of 4096 * Kilo * Kilo = 2^20 far below `Half`, as
2^32 is below 2^63.

## Runs

| Run | Instance | Shows |
|---|---|---|
| `batch_reliable` | 3 submissions, 2 START events, chunks of 2, 2 slots, no failure | `BatchPipeline` implements `BatchContract` (safety and progress) and counts no submission before its result |
| `batch_faults` | 2 submissions, 2 START events, 2 fan-outs, 2 receipts, any 2 failures of any kind | one fan-out at a time; a full counter means `completed`; `completed` is final; types |
| `batch_redelivery` | 2 submissions, 1 START event received twice, 2 fan-outs, 2 failures among crash, publish, job and acknowledgement | nothing stranded in Processing, acknowledged means counted, the queue drains |
| `batch_early_status` | 3 submissions, no failure | violated: `completed` comes one submission early |
| `batch_retried_failure` | 2 submissions, jobs that fail | violated: a retried failure is counted twice and the webhook fires twice |
| `batch_partial_fanout` | 2 chunks, publishing fails | violated: the redelivered START event does not redo the fan-out |
| `webhook_delivery` | 2 submissions, one counted twice, 2 workers' dispatches, 1 request, the reconciler, 1 retry, any 3 failures | "sent" means taken; in the end the webhook is sent for good; types |
| `webhook_lost_dispatch` | 1 worker's dispatch and the reconciler, 1 crash | violated: a lost dispatch of the complete result is not retried |
| `gateway` | each of the six parts in turn: 2 deliveries, 1 GET, 1 failure; 1 listener, 1 caller, 2 failures; 4 batches in pages of 2, 2 failures; 3 versions, 2 failures; 2 classes, 2 clients; 3 calls in a window of 3 | a served result was recorded; a reader is not sent back; the cache converges; waiters are answered and their pollers end; sweeps end, miss nothing and repeat nothing; a change is seen, a worker is fresh; budgets are separate, a window admits its limit |
| `worker_node` | each of the eight parts in turn: 2 messages, 2 deliveries, 2 failures; 2 workers of 1 token, 2 jobs; 2 failures of Docker; 2 pullers, 2 failures; 9 bytes in chunks of 3, limit 4; 110 requests (5 times, 2 wall times, 11 sizes) for each of 41 languages; 1 worker's dispatch and the reconciler, 3 retries, 4 failures | a job is finished or dead and a queued submission has one; the queue drains; Stop waits for all the jobs with a token but one, and the pool ends unless it panics; executions end, leave nothing and say what happened; an ensured image is there; output is kept until the copy ends; limits are granted to requests whose bytes do not wrap; RetryBudget covers the whole retry sequence |
| `worker_pool_scaled` | 2 workers of 1 token, 1 job | violated: a worker that Scale removes while the pool is being stopped is stopped twice |
| `image_once` | the same image pool | violated: two workers pull the same image |

Bounds. `MaxClaims`, `MaxFailures` bound the exploration; `MaxReceive`, `MaxStarts`,
`Slots`, `ChunkSize` are settings of the deployment made small. Two submissions in two
chunks are enough for a fan-out to fail half-way; two receipts for a retry and for a
message that dies; two failures for one that causes a roll-back and one that breaks it;
three submissions in the runs about the counter, where "one early" must differ from
"at the first". Submissions and START events are interchangeable, hence the symmetry in
`batch_faults`, which checks no liveness. The pipeline rests when its queues are empty,
so deadlock is not checked.

`MCGateway` and `MCWorkerNode` put modules that share no variable into one instance. The
variable `focus` names the part that runs in a behaviour, and the others stay as they
begin: the states of the parts add up and do not multiply (319,241 and 374,486 distinct
states, each in one or two minutes). A property of one part is checked on all behaviours in which that
part runs, and its variables are still in the others.

Two deliveries of a job are what a late and an early result need; one GET holds an older
row over all of that. Four batches make two full pages, or a full and a short one, with
room for one that enters or leaves. Three versions tell an old one, the one at the
refresh, and a newer one apart. Two messages and two deliveries make a retry, a dead
letter and a duplicate. Two failures allow one that starts a recovery and one that breaks
it. Two workers, one to keep and one that Scale removes, of one token each, with two jobs:
one runs and the other waits for its token, or is between its token and wg.Add. Three
calls, window 3 and a delay of 1 let a slow call overtake; five ticks let a
window pass. Nine bytes fill both buffers of four and leave one over. The sizes of the
requests are zero, negative, within and above the maximum, and wrap to the least int64, to
zero, to a small number and to one above the maximum. Jobs, requests,
programs and queues may stop, so deadlock is not checked.

In the webhook runs three failures are one for each of the workers' dispatches and one for
the reconciler, or all the attempts of one and a lost record; two dispatches and a request
suffice for each to record its outcome after any other. Times are small numbers in the
proportions that matter: where `worker_node` checks the budget the delay is 2, then 4, then
cut to 5, and four failures are one for each attempt.

Fairness (`FairSpec`). Consumers poll in a loop and a handler runs to its end, so every
step of a handler, a receive and SQS's own timers happen eventually: weak fairness on
each. No fairness on failures or deletions. An action that may fail is fair as a whole;
since failures are bounded, a call that is repeated succeeds at last. The drainer is
fair: it polls for ever and a dead letter it could not delete comes back to it.

In `WebhookDelivery` jobs finish and are counted, the ticker of the reconciler goes on, and
a call runs to its end. Nothing else is fair: no request need come, no submission need be
counted twice, and a process need not die.

In `MCGateway` and `MCWorkerNode` fairness is stated for each part while it is in focus.
Fair are the steps of handlers, goroutines and jobs that began, the timers of pollers, the
time to live of entries (that is why the cache converges, not because writers agree), the
redelivery of JetStream, the restart of a process, the deadline of an execution's context,
the goroutines of a pool's workers and jobs until a panic, and the end of a stream whose
container has ended. In the queue and in the pool fairness is stated once for each kind of
actor (the handlers, the workers, the jobs): as long as one of them can go on, one goes on.
That much is enough for the properties. Not fair are users, deletions,
failures, messages of the notification channel, crashes, and the end of a program: a
program that never ends is killed by the deadline or the property fails.

## Findings

- `batch_early_status`: a batch is reported `completed` while its last submission runs.
  The reconciler selects on that status, so after its grace period of two minutes it may
  deliver a result that is not complete. The counter that `advanceBatch` checks is right.
- `batch_retried_failure`: `failJob` advances the batch and returns an error that the
  consumer retries. Every delivery of a job that cannot run is counted.
- `batch_partial_fanout`: a job of a fan-out that failed takes the batch out of `pending`
  after the roll-back (or out of its reach before it), and the START event is dropped.
- `webhook_lost_dispatch`: the reconciler delivers a batch that is `completed` too early and
  marks it `sent`. The worker's dispatch, once all results are there, delivers the complete
  result; but if it is lost in a crash, the batch is not `pending` any more and nobody
  retries. With `SequentialSet = FALSE` the property holds.
- `worker_pool_scaled`: Scale is said to be safe together with Stop. It calls Stop of the
  workers it removes, and one of them that Stop of the pool had copied before is stopped
  twice; the second close of `stopCh` panics. Nothing calls Scale at that time today.
- `image_once`: EnsureImage looks, and pulls when it finds nothing, with no lock or
  single flight in between; the comment of the pool promises one pull.

Five more came up while properties of `worker_node` were stated, which hold only in the
form that they have:

- `StopWaitsForJobs`: a callback has its token before it calls wg.Add, so Stop of a worker
  may return between the two, and the job runs after it. One such job of a worker is all
  that can be left, and so it is stated. The Add may also make the wait group panic.
- `LimitsAreGranted`, the wall time: the API documents `wall_time_limit`, and the handler
  drops it. Every request gets three times its language's processor time, and so it is
  stated.
- `LimitsAreGranted`, the memory: from 2^53 KB on the product in bytes wraps, and the request
  is granted with what is left, or with the language's minimum, or refused. The property
  exempts such requests (`AskedFits`).
- `OutputIsKept`: when a chunk crosses the limit of one stream, the short write ends the copy
  of both, and what the other one writes later is lost. The property speaks of what was
  read.
- `JobIsAccountedFor`: a last delivery that ends without an answer makes no dead letter. The
  message, which is spent, has to count as pending.

## Proofs

Every invariant of a passing run has a theorem, and so have both action properties,
`CompletedIsFinal` and `ReadsNeverGoBack`, and the safety of the refinement. What is
assumed in each is the module's named ASSUME, nothing of the bounds but that they are
natural numbers, and what the theorem states: which failures do not happen. A theorem
says so where its property needs it.

In `BatchPipelineProofs`, from `PipelineAssumption` only: finitely many submissions,
at least one, positive limits. They hold for every number of submissions, START events,
slots, receipts, fan-outs and failures.

- `TypeCorrect`: the type invariant, one lemma per part of Next.
- `OneFanOutAtATime`: `SingleClaimant` is inductive with the types. A claim needs
  `pending`, which no batch with a claimant is: only the claimant rolls back, and as it
  does it stops being one; an advance never writes `pending`.
- `RowStep`: whatever happens, the batch row is kept, claimed, rolled back or advanced.
  `CompleteReconcilable` and `CompletedStaysCompleted` follow from it. The second needs a
  strengthening, `CompletedByCase`: in a completed batch the CASE would say "completed"
  again, since it is monotone in the counter. Without it an increment could reopen a batch.
- `AckedCounted`, if no statement fails: deleted messages are not inductive by themselves,
  so `AnsweredAreCounted` also takes in the handlers that advanced the batch and have not
  deleted yet. Only `AdvanceBatch` adds to that set, one submission at a time, as it
  increments the counter.
- `NothingStranded`, if no statement fails and no job outlives its visibility timeout:
  `OneHandler` (a handler at work has its message in flight, and is the only one),
  `FreshFanOut` (a fan-out sends a message once, so none is put back in the queue under
  its handler) and `Carried` (a Processing submission has a live message none of whose
  handlers has a result). A message is only deleted by a handler with a result, and such a
  handler has overwritten the Processing. `FreshFanOut` rests on `OneFanOutAtATime`.
- `ExactBeforeFailure`, for any `Faults`: until the first failure the counter is exact and
  the webhook fires at most once. The invariant `NoFailureYet` says that there is one
  fan-out (`OneFanOut`), that each submission is at one of the places of a single delivery
  (`ExactlyOnce`), and that `completed` is the number of submissions whose handler has
  advanced the batch, `fired` one exactly when it is full (`ExactCounter`). It cannot be an
  invariant of the whole: `batch_retried_failure` shows what a single failure does.
  `CounterIsExact` is its case `Faults = {}`.
- `KeepsContractSoFar`: each step up to the first failure is a step of `BatchContract` under
  the refinement mapping, or changes nothing the contract speaks of. `ExactStep` goes
  through the actions: a submission is finished by the PersistResult of its only handler,
  and the webhook fired by the AdvanceBatch that fills the counter, where `ExactCounter`
  says that every result is there. `KeepsContract` is the
  refinement of the contract's safety part where nothing fails; its progress is left to
  the run.

In `WebhookDeliveryProofs`, from `DeliveryAssumption`, for any dispatchers, settings and
failures:

- `DeliveryTypeCorrect` and `SentDelivered`, from the inductive `DeliveryInv`. For the types
  the attempts of a call must fit its place (`DispatcherInv`), or the retry count of the
  row could be negative or too large. `SentWasDelivered` needs that a dispatcher about to
  record "sent" has been accepted; what was accepted stays so, whoever records what.
- `BudgetIsEnough`, for every timeout, delay, maximal delay and number of retries. `Wait` and
  `Waits`, the delays and their sums, are recursive functions: that there are functions
  which satisfy the equations is proved first (`WaitExists`, `WaitsExists`), from the least
  length for which there is none, and their laws follow from the equations (`WaitIs`,
  `WaitsIs`, `WaitsGrow`). The invariant is `BudgetInv`: after k attempts a dispatch has
  spent at most k timeouts and the waits between them, and its next delay is the k+1st
  (`SpentAt`). RetryBudget is what the last attempt may reach.

In `BulkSweepProofs`, from `SweepAssumption`, for any ids, page size and number of sweeps.
`SweepsVisitOnce` and `SweepsMissNone` are about every page a sweep ever reads, so the
invariant puts the cursor between what was read and what was not: what is in hand or
handed out is at or below it (`Behind`), what is steady and at or below it is in hand or
handed out (`Covered`), and nothing steady is above it after a short page (`Last`). The
step that matters is FetchPage, which needs what a page is: the `FirstOf` lemmas, and
under them the existence of a greatest and a least element of a finite set, from the
library's least counterexample over finite subsets.

In `WorkerPoolProofs`: `PoolTypeCorrect`, which includes that no worker runs more jobs than
it has tokens; `StopWaits`, in the presence of the step between a token and wg.Add; and
`StoppedTwice`. A job whose token came before the stop is in the callback or counted by the
wait group (`EarlyPlace`); there is one job in a worker's callback (`OneInCallback`); and
`stopCh` is closed before Stop waits, so that no later job is an early one (`ClosedFirst`).
Hence one job at most is left when Stop returns. `StoppedTwice` says that the panic of
`worker_pool_scaled` comes about in one order only, Scale after Stop's copy: Stop of the
pool calls Stop of its copy, Scale that of workers which are in the pool no more
(`CallPlace`), one of the two closed the `stopCh` that is closed (`ClosedPlace`), and there
is no copy before Stop (`CopyPlace`).

In `NatsQueueProofs`: `JobAccountedFor`, because a handler that is about to acknowledge has
finished the job, parked it, or failed to (`AckMeansDone`); and `QueuedHasItsJob`, which
needs a message that nobody is about to acknowledge (`Carried`), as handlers of the
messages before a replay may still be on their way. `NatsTypeCorrect` and `SlotsReturn`:
there are exactly as many goroutines as tokens taken (`SlotsAreHeld`), which needs that no
goroutine has begun for a delivery to come (`NotBegun`) and that the pull loop holds one
message at most.

In `SandboxProofs`: `SandboxTypeCorrect`, `VerdictEarned` and `SandboxLeavesNothing`, from
where an execution stands: a container exists between its creation and its removal and
not otherwise (`BoxPlace`), the answer is open until one of the run's ends is reached
(`AnswerPlace`) and says which (`AnswerTrue`), and a container whose creation was not
answered ends the execution (`StrandedPlace`). `ScriptVerdictEarned` and
`DatabaseLeavesNothing` are the same for the other runtime, with `ScriptPlace`: the wait for
an exit may fail and the output be awaited all the same, and then the answer says so.

In `GatewayProofs`: `ServedIsRecorded`, from `Backing`, which covers every place a status
passes through on its way to the cache (the row, the creator's copy, a reader's copy, a
worker's outcome), and `Untouched`, since CreateRow resets the history; `RefreshedIsFresh`,
from `NobodyAsks`: after a refresh that succeeded the memory is not empty, so no job reads
through Redis; `BudgetsSeparate`, from `Counted`, which ties a bucket's counter to its
requests and to what was served. Further:

- `ResultsStay`, the action property `ReadsNeverGoBack`, from `QuietInv`: while nothing
  disturbs a submission every GET finds an answer in the cache, so no reader has an older
  row in hand, and the cache has a result only when the one delivery is over
  (`SeenFromCache`).
- `ChangesAreSeen`, from `EntriesCurrent`: until someone is overtaken by a change or a command
  fails, whoever is about to write an entry holds the row's version, and an entry that
  holds another one is about to be deleted by the change that made it old. Without the
  first part a GET could bring an old version back after the invalidation.
- `WindowIsLimited`, from `StampsStay`: a time stamp of an allowed call stays in the set as
  long as it is in the window, though concurrent calls trim it, and no call is older than
  `MaxDelay`. Together they say that the call that counts sees every allowed one, up to
  those that a later call may have trimmed: hence the shorter window of the property.
- `PollersCanEnd`, from `PollerHasRoom`: a listener that has returned leaves its poller an
  ended context and a channel with room. This is the safety half of `PollerEnds`; that the
  poller then ends is TLC's.

In `WorkerNodeProofs`: `EnsuredCanBeUsed`, whose property is inductive with the types;
`OutputKept`, with `Remaining` (what is left of a frame is within the program's output);
`LimitsGranted`, with `Chain` (what each step made of the request), the table of languages,
for every `Kilo` the lemma that no language needs more than the maximum, and for every
`Half` above that maximum the lemma that a product which fits is not changed (`WrapKeeps`).

The two instances that put parts together are covered too. `GatewayHasParts` and
`NodeHasParts` say that a behaviour of the instance is a behaviour of each part's own
specification (a step is one of the part in focus, or none of that part), so the
theorems about the parts hold of it; with them `GatewayTypeCorrect`, `GatewayIsSafe`,
`NodeTypeCorrect` and `NodeIsSafe` state every invariant of `gateway` and `worker_node` for
every value of the constants; but the webhook's dispatch in `worker_node` is an instance with
numbers of its own, and its budget is `BudgetIsEnough`. The two runtimes share a container's variables, and the
limits stay as the client asked outside their part, hence `ExecutionInv`.
`NodeTypeCorrect` assumes that zero is in `AskedTimes`, `AskedWalls` and `AskedKB`: it is a limit that the
client leaves out, and what the request holds while the limits are not in focus.

Only model-checked: liveness under fairness, which is out of the prover's reach
(`ContractSpec` as a whole, whose second half is the contract's progress; `QueueDrains` of
both queues, `EventuallySent`, `CacheConverges`, `WaiterIsAnswered`, `PollerEnds`,
`SweepEnds`, `LanguagesConverge`, `PoolEnds`, `ExecutionEnds`). The six runs that expect a
violation state what does not hold.

## Plan

Done: the core, the gateway's and the worker node's modules, and the proofs above. Left, in
the order of what matters most:

1. The safety halves of the liveness properties, as far as they are invariants: that a
   step is always possible where a handler, a sweep or an execution must go on (as
   `PollersCanEnd` does for the poller), so that what is left to TLC is fairness alone.
2. `ExactBeforeFailure` under single kinds of failure: which of them break the counter
   (a failed job does, `batch_retried_failure`) and which cannot.
3. `AckedCounted` and `NothingStranded` in the presence of failures of the database, with
   what is then still true.
4. The refinement of `WebhookDelivery`'s batch by that of the pipeline.

## Not modelled

Authentication, request validation and the security headers: they check one request and
keep nothing between two. Configuration, metrics, tracing and logs: parsing and
observation. The schema: data. The Docker, AWS, MySQL, Redis and NATS clients and servers:
external; the models have the outcomes of their calls as choices, effects without an
answer included where a deadline can cut a call off. Listings, statistics and the
dashboard: reads that nothing depends on. WebSocket events and the execution log row: they
are written and never read by another part. The shell commands and images of the
languages, and the contents of a container's configuration: data. SQLite runs in the
sandbox and is an execution of it. The queues' priority subjects: the same settings as the
normal ones. The 24 hour window of the reconciler: a batch in the models is young enough.
Details per component are in `PROJECT.json`.
