---------------------------- MODULE BatchPipeline ----------------------------
(***************************************************************************)
(* One batch from its creation to the firing of its webhook, in SQS mode:  *)
(* the `batches` row and the `submissions` rows in MySQL, the START queue, *)
(* the job queue with its redrive policy, the Starter that fans a batch    *)
(* out, the workers that run the jobs and the drainer of the dead letters. *)
(* Any number of worker processes act on these; every database statement   *)
(* and every queue call is a step of its own, so all of them interleave.   *)
(*                                                                         *)
(* Redis, metrics and logs are written by these steps and read by none of  *)
(* them, and are left out. Times are left out as well: a timeout is a step *)
(* that may happen.                                                        *)
(***************************************************************************)
EXTENDS Integers, FiniteSets

CONSTANTS
    Subs,          \* the submissions of the batch
    StartEvents,   \* the START requests sent for it, duplicates included
    Slots,         \* how many jobs run at once, over all workers
    ChunkSize,     \* entries of one SendMessageBatch (10 in the code)
    MaxReceive,    \* maxReceiveCount of the job queue's redrive policy
    MaxStarts,     \* maxReceiveCount of the START queue's redrive policy
    MaxClaims,     \* bound: how many fan-outs of the batch are explored
    MaxFailures,   \* bound: how many failures are explored
    SequentialSet, \* TRUE: UPDATE evaluates its SET clauses left to right
    Faults         \* the kinds of failure that may occur

(***************************************************************************)
(* What can go wrong.  "exec": a job cannot be run at all (unknown         *)
(* language, Docker error, compile timeout).  "publish": SendMessageBatch  *)
(* fails, for some or all entries.  "ack": DeleteMessage fails.  "crash":  *)
(* a process dies, or is shut down, between two steps.  "db": a MySQL      *)
(* statement fails, a cancelled context included.  "slow": a job outlives  *)
(* the visibility timeout of its message.  "erase": a user deletes a       *)
(* submission.                                                             *)
(***************************************************************************)
FaultKinds == {"exec", "publish", "ack", "crash", "db", "slow", "erase"}

ASSUME PipelineAssumption ==
    /\ IsFiniteSet(Subs) /\ Subs # {}
    /\ Slots \in Nat \ {0}
    /\ ChunkSize \in Nat \ {0}
    /\ MaxReceive \in Nat \ {0}
    /\ MaxStarts \in Nat \ {0}
    /\ MaxClaims \in Nat \ {0}
    /\ MaxFailures \in Nat
    /\ SequentialSet \in BOOLEAN
    /\ Faults \subseteq FaultKinds

VARIABLES
    \* the batches row
    bstatus,    \* its status
    completed,  \* its completed counter
    fired,      \* how many webhook dispatches the workers launched for it
    \* the submissions rows
    sub,        \* the status of each submission, "Erased" once deleted
    \* the job queue; a message is <<submission, fan-out that sent it>>
    msg,        \* where each message is
    rcv,        \* its ApproximateReceiveCount
    \* the handlers of the job consumers, one per <<message, receive>>
    att,        \* how far each attempt to process a message got
    \* the START queue and its handlers
    evt,        \* where each START event is, or how far its handler got
    evtRcv,     \* its receive count
    run,        \* the fan-out its handler performs
    todo,       \* the submissions that handler has yet to publish
    claims,     \* how many fan-outs were claimed so far
    failures    \* how many failures occurred so far

batchVars == <<bstatus, completed, fired>>
queueVars == <<msg, rcv>>
startVars == <<evt, evtRcv, run, todo, claims>>
vars == <<bstatus, completed, fired, sub, msg, rcv, att,
          evt, evtRcv, run, todo, claims, failures>>

Messages == Subs \X (1..MaxClaims)
Receives == 1..MaxReceive
Total == Cardinality(Subs)

BatchStatus == {"pending", "processing", "completed"}
Terminal == {"Judged", "InternalError"}
SubStatus == {"InQueue", "Processing", "Erased"} \cup Terminal
MsgState == {"unsent", "visible", "inflight", "deleted", "dead", "drained"}
\* "judged" and "failing": the result is written, the batch not yet advanced;
\* "succeeded" and "errored": it was advanced, the message not yet settled.
AttState == {"none", "received", "running", "judged", "failing",
             "succeeded", "errored", "over"}
EvtState == {"visible", "claimed", "publishing", "rollback", "retry",
             "consumed", "dead"}

\* Every variable keeps the type its comment gives it; in particular a message
\* is received at most as often as the redrive policy allows.
TypeOK ==
    /\ bstatus \in BatchStatus
    /\ completed \in Nat
    /\ fired \in Nat
    /\ sub \in [Subs -> SubStatus]
    /\ msg \in [Messages -> MsgState]
    /\ rcv \in [Messages -> 0..MaxReceive]
    /\ att \in [Messages -> [Receives -> AttState]]
    /\ evt \in [StartEvents -> EvtState]
    /\ evtRcv \in [StartEvents -> 0..MaxStarts]
    /\ run \in [StartEvents -> 0..MaxClaims]
    /\ todo \in [StartEvents -> SUBSET Subs]
    /\ claims \in 0..MaxClaims
    /\ failures \in 0..MaxFailures

\* CreateWithSubmissions has committed the batch and its submissions in one
\* transaction, and START requests are on their way.
Init ==
    /\ bstatus = "pending"
    /\ completed = 0
    /\ fired = 0
    /\ sub = [s \in Subs |-> "InQueue"]
    /\ msg = [m \in Messages |-> "unsent"]
    /\ rcv = [m \in Messages |-> 0]
    /\ att = [m \in Messages |-> [r \in Receives |-> "none"]]
    /\ evt = [e \in StartEvents |-> "visible"]
    /\ evtRcv = [e \in StartEvents |-> 0]
    /\ run = [e \in StartEvents |-> 0]
    /\ todo = [e \in StartEvents |-> {}]
    /\ claims = 0
    /\ failures = 0

\* A failure of the given kind occurs in this step, or none does.
Fails(kind) ==
    /\ kind \in Faults
    /\ failures < MaxFailures
    /\ failures' = failures + 1

Works == UNCHANGED failures

-----------------------------------------------------------------------------
(* The START event: StartConsumer.process calling Starter.Start            *)

\* A handler takes the event off the START queue.
TakesStart(e) ==
    /\ evt[e] = "visible"
    /\ evtRcv[e] < MaxStarts
    /\ evtRcv' = [evtRcv EXCEPT ![e] = @ + 1]

\* The event is deleted from the START queue; when that call fails it is
\* delivered again.
SettlesStart(e) ==
    \/ Works /\ evt' = [evt EXCEPT ![e] = "consumed"]
    \/ Fails("ack") /\ evt' = [evt EXCEPT ![e] = "retry"]

\* As if MarkProcessing had no WHERE status = 'pending'.
AlwaysClaimable(st) == st # "completed"

\* The WHERE clause of MarkProcessing.
Claimable(st) == st = "pending"

\* MarkProcessing claims the batch: its UPDATE changed one row.
StartClaims(e) ==
    /\ TakesStart(e)
    /\ Claimable(bstatus)
    /\ claims < MaxClaims
    /\ bstatus' = "processing"
    /\ claims' = claims + 1
    /\ run' = [run EXCEPT ![e] = claims + 1]
    /\ evt' = [evt EXCEPT ![e] = "claimed"]
    /\ Works
    /\ UNCHANGED <<completed, fired, sub, queueVars, att, todo>>

\* It changed no row: ErrNotPending, which the consumer treats as success.
StartNotPending(e) ==
    /\ TakesStart(e)
    /\ ~Claimable(bstatus)
    /\ SettlesStart(e)
    /\ UNCHANGED <<batchVars, sub, queueVars, att, run, todo, claims>>

\* The UPDATE itself fails: the event is left to be delivered again.
StartClaimFails(e) ==
    /\ Fails("db")
    /\ TakesStart(e)
    /\ evt' = [evt EXCEPT ![e] = "retry"]
    /\ UNCHANGED <<batchVars, sub, queueVars, att, run, todo, claims>>

\* ListSubmissions returns the rows that still exist, as jobs to publish.
ListSubmissions(e) ==
    /\ evt[e] = "claimed"
    /\ \/ /\ Works
          /\ evt' = [evt EXCEPT ![e] = "publishing"]
          /\ todo' = [todo EXCEPT ![e] = {s \in Subs : sub[s] # "Erased"}]
       \/ /\ Fails("db")
          /\ evt' = [evt EXCEPT ![e] = "rollback"]
          /\ UNCHANGED todo
    /\ UNCHANGED <<batchVars, sub, queueVars, att, evtRcv, run, claims>>

\* The next chunk of PublishBatch: ChunkSize jobs, or the ones that are left.
IsChunk(C, e) ==
    /\ C \subseteq todo[e]
    /\ Cardinality(C) <= ChunkSize
    /\ C = todo[e] \/ Cardinality(C) = ChunkSize

\* The messages of this fan-out for the submissions in C enter the job queue.
Enqueue(C, e) ==
    msg' = [m \in Messages |->
              IF m[1] \in C /\ m[2] = run[e] THEN "visible" ELSE msg[m]]

PublishChunk(e) ==
    /\ evt[e] = "publishing"
    /\ \E C \in SUBSET todo[e] :
         /\ C # {}
         /\ IsChunk(C, e)
         /\ Enqueue(C, e)
         /\ todo' = [todo EXCEPT ![e] = @ \ C]
    /\ Works
    /\ UNCHANGED <<batchVars, sub, rcv, att, evt, evtRcv, run, claims>>

\* A chunk fails: SQS accepted some of its entries, or all of them and the
\* answer was lost. The chunks after it are not sent.
PublishFails(e) ==
    /\ Fails("publish")
    /\ evt[e] = "publishing"
    /\ \E C \in SUBSET todo[e], Sent \in SUBSET Subs :
         /\ C # {}
         /\ IsChunk(C, e)
         /\ Sent \subseteq C
         /\ Enqueue(Sent, e)
    /\ evt' = [evt EXCEPT ![e] = "rollback"]
    /\ UNCHANGED <<batchVars, sub, rcv, att, evtRcv, run, todo, claims>>

\* PublishBatch has sent every chunk.
FanOutDone(e) ==
    /\ evt[e] = "publishing"
    /\ todo[e] = {}
    /\ SettlesStart(e)
    /\ run' = [run EXCEPT ![e] = 0]
    /\ UNCHANGED <<batchVars, sub, queueVars, att, evtRcv, todo, claims>>

\* As if MarkPending had no WHERE status = 'processing'.
RolledBackAlways(st) == "pending"

\* As if MarkPending wrote the status of a queued submission.
RolledBackInQueue(st) == IF st = "processing" THEN "InQueue" ELSE st

\* UPDATE ... SET status = 'pending' WHERE status = 'processing'.
RolledBack(st) == IF st = "processing" THEN "pending" ELSE st

\* MarkPending after a failed fan-out; its own failure is ignored. Either way
\* the handler returns an error and the event is delivered again.
RollBack(e) ==
    /\ evt[e] = "rollback"
    /\ \/ Works /\ bstatus' = RolledBack(bstatus)
       \/ Fails("db") /\ UNCHANGED bstatus
    /\ evt' = [evt EXCEPT ![e] = "retry"]
    /\ run' = [run EXCEPT ![e] = 0]
    /\ todo' = [todo EXCEPT ![e] = {}]
    /\ UNCHANGED <<completed, fired, sub, queueVars, att, evtRcv, claims>>

\* The process of the handler dies half-way; the event is delivered again.
CrashStart(e) ==
    /\ Fails("crash")
    /\ evt[e] \in {"claimed", "publishing", "rollback"}
    /\ evt' = [evt EXCEPT ![e] = "retry"]
    /\ run' = [run EXCEPT ![e] = 0]
    /\ todo' = [todo EXCEPT ![e] = {}]
    /\ UNCHANGED <<batchVars, sub, queueVars, att, evtRcv, claims>>

\* The visibility timeout of an unsettled event runs out.
StartReappears(e) ==
    /\ evt[e] = "retry"
    /\ evt' = [evt EXCEPT ![e] = "visible"]
    /\ Works
    /\ UNCHANGED <<batchVars, sub, queueVars, att, evtRcv, run, todo, claims>>

\* The redrive policy takes an event that was received too often.
StartDies(e) ==
    /\ evt[e] = "visible"
    /\ evtRcv[e] = MaxStarts
    /\ evt' = [evt EXCEPT ![e] = "dead"]
    /\ Works
    /\ UNCHANGED <<batchVars, sub, queueVars, att, evtRcv, run, todo, claims>>

StartStep(e) ==
    \/ StartClaims(e) \/ StartNotPending(e) \/ StartClaimFails(e)
    \/ ListSubmissions(e) \/ PublishChunk(e) \/ PublishFails(e)
    \/ FanOutDone(e) \/ RollBack(e) \/ StartReappears(e) \/ StartDies(e)

-----------------------------------------------------------------------------
(* The job queue: what SQS does, and Consumer.receiveAndDispatch           *)

Active == {"received", "running", "judged", "failing", "succeeded", "errored"}
Running == {d \in Messages \X Receives : att[d[1]][d[2]] \in Active}

MayReceive(m) == msg[m] = "visible" /\ rcv[m] < MaxReceive

\* A message is received and, once a slot is free, given to a handler.
ReceiveJob(m) ==
    /\ MayReceive(m)
    /\ Cardinality(Running) < Slots
    /\ msg' = [msg EXCEPT ![m] = "inflight"]
    /\ rcv' = [rcv EXCEPT ![m] = @ + 1]
    /\ att' = [att EXCEPT ![m][rcv[m] + 1] = "received"]
    /\ Works
    /\ UNCHANGED <<batchVars, sub, startVars>>

\* The consumer stops, or dies, while the message waits for a slot.
ReceiveAbandoned(m) ==
    /\ Fails("crash")
    /\ MayReceive(m)
    /\ msg' = [msg EXCEPT ![m] = "inflight"]
    /\ rcv' = [rcv EXCEPT ![m] = @ + 1]
    /\ att' = [att EXCEPT ![m][rcv[m] + 1] = "over"]
    /\ UNCHANGED <<batchVars, sub, startVars>>

\* A message nobody deleted becomes visible again: after a backoff, or after
\* the visibility timeout, which a slow handler may overrun.
VisibilityExpires(m) ==
    /\ msg[m] = "inflight"
    /\ \/ Works /\ att[m][rcv[m]] = "over"
       \/ Fails("slow") /\ att[m][rcv[m]] # "over"
    /\ msg' = [msg EXCEPT ![m] = "visible"]
    /\ UNCHANGED <<batchVars, sub, rcv, att, startVars>>

DeadLettered(m) == msg[m] = "visible" /\ rcv[m] = MaxReceive

\* The redrive policy moves the message to the dead-letter queue.
Redrive(m) ==
    /\ DeadLettered(m)
    /\ msg' = [msg EXCEPT ![m] = "dead"]
    /\ Works
    /\ UNCHANGED <<batchVars, sub, rcv, att, startVars>>

-----------------------------------------------------------------------------
(* A job: Consumer.process calling Worker.processJob                       *)

\* UPDATE submissions ... WHERE token = s: no effect on a deleted row.
WriteStatus(s, status) ==
    sub' = [sub EXCEPT ![s] = IF @ = "Erased" THEN @ ELSE status]

\* The job loader, or the UPDATE to Processing, fails: back off.
AttemptAborts(m, r) ==
    /\ att[m][r] = "received"
    /\ \/ Works /\ sub[m[1]] = "Erased"
       \/ Fails("db") /\ sub[m[1]] # "Erased"
    /\ att' = [att EXCEPT ![m][r] = "over"]
    /\ UNCHANGED <<batchVars, sub, queueVars, startVars>>

\* The job is loaded and its submission marked Processing, whatever its
\* status was.
MarkProcessing(m, r) ==
    /\ att[m][r] = "received"
    /\ sub[m[1]] # "Erased"
    /\ WriteStatus(m[1], "Processing")
    /\ att' = [att EXCEPT ![m][r] = "running"]
    /\ Works
    /\ UNCHANGED <<batchVars, queueVars, startVars>>

\* The sandbox gave a result and it is persisted; a failure to persist it is
\* only logged.
PersistResult(m, r) ==
    /\ att[m][r] = "running"
    /\ \/ Works /\ WriteStatus(m[1], "Judged")
       \/ Fails("db") /\ UNCHANGED sub
    /\ att' = [att EXCEPT ![m][r] = "judged"]
    /\ UNCHANGED <<batchVars, queueVars, startVars>>

\* failJob: the job could not be run, InternalError is persisted.
FailJob(m, r) ==
    /\ att[m][r] = "running"
    /\ Fails("exec")
    /\ \/ WriteStatus(m[1], "InternalError")
       \/ "db" \in Faults /\ UNCHANGED sub
    /\ att' = [att EXCEPT ![m][r] = "failing"]
    /\ UNCHANGED <<batchVars, queueVars, startVars>>

\* As if the CASE compared the counter the row had before the UPDATE.
StatusOfOldCounter(c) == IF c >= Total THEN "completed" ELSE "processing"

\* The CASE of IncrementCompleted, when the counter is c before the UPDATE.
\* gorm orders the SET clauses by column name, completed before status, and
\* MySQL evaluates them left to right: the CASE reads the new counter.
StatusAfter(c) ==
    LET seen == IF SequentialSet THEN c + 1 ELSE c
    IN  IF seen + 1 >= Total THEN "completed" ELSE "processing"

\* As if IsComplete made the comparison the CASE makes.
CompleteOneEarly(c) == c + 1 >= Total

\* Batch.IsComplete, of a row whose counter is c.
IsComplete(c) == Total > 0 /\ c >= Total

\* advanceBatch: IncrementCompleted, whatever the status is, and a webhook
\* dispatch when the re-read row says completed >= total. A database error is
\* only logged.
AdvanceBatch(m, r) ==
    /\ att[m][r] \in {"judged", "failing"}
    /\ att' = [att EXCEPT ![m][r] = IF @ = "judged" THEN "succeeded" ELSE "errored"]
    /\ \/ /\ Works
          /\ completed' = completed + 1
          /\ bstatus' = StatusAfter(completed)
          /\ fired' = IF IsComplete(completed + 1) THEN fired + 1 ELSE fired
       \/ /\ Fails("db")
          /\ UNCHANGED batchVars
    /\ UNCHANGED <<sub, queueVars, startVars>>

\* As if a message were deleted as soon as its job runs.
DeletesFirst(m, r) == att[m][r] \in {"running", "succeeded"}

\* As if processJob returned before it advances the batch.
DeletesUnadvanced(m, r) == att[m][r] \in {"judged", "succeeded"}

\* processJob returned nil.
Deletes(m, r) == att[m][r] = "succeeded"

\* DeleteMessage with the receipt of receive r: it does nothing when the
\* receipt is stale, the message having been received again or dead-lettered.
DeletedWith(m, r) ==
    IF rcv[m] = r /\ msg[m] \in {"visible", "inflight"}
    THEN [msg EXCEPT ![m] = "deleted"]
    ELSE msg

\* The message is deleted; a failure to delete it is only logged.
EndJob(m, r) ==
    /\ Deletes(m, r)
    /\ \/ Works /\ msg' = DeletedWith(m, r)
       \/ Fails("ack") /\ UNCHANGED msg
    /\ att' = [att EXCEPT ![m][r] = "over"]
    /\ UNCHANGED <<batchVars, sub, rcv, startVars>>

\* processJob returned failJob's error, which is not a PermanentError: the
\* message is left to be delivered again after a delay.
Backoff(m, r) ==
    /\ att[m][r] = "errored"
    /\ att' = [att EXCEPT ![m][r] = "over"]
    /\ Works
    /\ UNCHANGED <<batchVars, sub, queueVars, startVars>>

\* The worker dies before it settled the message.
CrashAttempt(m, r) ==
    /\ Fails("crash")
    /\ att[m][r] \in Active
    /\ att' = [att EXCEPT ![m][r] = "over"]
    /\ UNCHANGED <<batchVars, sub, queueVars, startVars>>

AttemptStep(m, r) ==
    \/ AttemptAborts(m, r) \/ MarkProcessing(m, r) \/ PersistResult(m, r)
    \/ FailJob(m, r) \/ AdvanceBatch(m, r) \/ EndJob(m, r) \/ Backoff(m, r)

-----------------------------------------------------------------------------
(* Dead letters and deletions                                              *)

\* As if the drainer skipped a dead letter whose submission has a result.
RecordableOnce(s) == sub[s] \notin Terminal \cup {"Erased"}

\* repository.UpdateStatus finds a row to update.
Recordable(s) == sub[s] # "Erased"

\* DLQDrainer.handle: the submission is recorded as InternalError, whatever
\* its status was, and the dead letter is deleted. A record that fails, as it
\* does for a deleted submission, leaves it in the dead-letter queue.
DrainDeadLetter(m) ==
    /\ msg[m] = "dead"
    /\ Recordable(m[1])
    /\ WriteStatus(m[1], "InternalError")
    /\ \/ Works /\ msg' = [msg EXCEPT ![m] = "drained"]
       \/ Fails("ack") /\ UNCHANGED msg
    /\ UNCHANGED <<batchVars, rcv, att, startVars>>

\* DELETE /submissions/:token.
DeleteSubmission(s) ==
    /\ Fails("erase")
    /\ sub[s] # "Erased"
    /\ sub' = [sub EXCEPT ![s] = "Erased"]
    /\ UNCHANGED <<batchVars, queueVars, att, startVars>>

QueueStep(m) ==
    \/ ReceiveJob(m) \/ VisibilityExpires(m) \/ Redrive(m) \/ DrainDeadLetter(m)

Next ==
    \/ \E e \in StartEvents : StartStep(e) \/ CrashStart(e)
    \/ \E m \in Messages : QueueStep(m) \/ ReceiveAbandoned(m)
    \/ \E m \in Messages, r \in Receives : AttemptStep(m, r) \/ CrashAttempt(m, r)
    \/ \E s \in Subs : DeleteSubmission(s)

(***************************************************************************)
(* Consumers poll for ever, handlers run to their end and SQS redelivers;  *)
(* nothing makes a failure or a user's deletion happen.                    *)
(***************************************************************************)
Fairness ==
    /\ \A e \in StartEvents : WF_vars(StartStep(e))
    /\ \A m \in Messages : WF_vars(ReceiveJob(m))
    /\ \A m \in Messages : WF_vars(VisibilityExpires(m) \/ Redrive(m))
    /\ \A m \in Messages : WF_vars(DrainDeadLetter(m))
    /\ \A m \in Messages, r \in Receives : WF_vars(AttemptStep(m, r))

Spec == Init /\ [][Next]_vars
FairSpec == Spec /\ Fairness

-----------------------------------------------------------------------------
(* Properties                                                              *)

Finished == {s \in Subs : sub[s] \in Terminal}
Claimants == {e \in StartEvents : evt[e] \in {"claimed", "publishing", "rollback"}}

\* A fan-out is the work of one handler: whatever START events, crashes and
\* roll-backs do, two handlers never publish the batch at the same time, and
\* while one does, no third can claim it (Starter.Start, MarkProcessing).
SingleClaimant ==
    /\ \A e, f \in Claimants : e = f
    /\ Claimants # {} => bstatus # "pending"

\* A row on which a worker sees completed >= total has status "completed", so
\* that the reconciler, which looks for that status, finds the batch when its
\* dispatch was lost; no roll-back takes it out of its reach.
CompleteIsReconcilable == IsComplete(completed) => bstatus = "completed"

\* Once "completed", a batch stays so: no late roll-back, START event or
\* redelivered job reopens it.
CompletedIsFinal == [][bstatus = "completed" => bstatus' = "completed"]_vars

\* A submission marked Processing keeps a message that will be delivered
\* again or dead-lettered, so that no crash can leave it so for ever.
NoStrandedSubmission ==
    \A s \in Subs : sub[s] = "Processing" =>
        \E m \in Messages :
            m[1] = s /\ msg[m] \in {"visible", "inflight", "dead"}

\* Acknowledged means counted: the counter is never behind the submissions
\* one of whose messages was deleted as processed.
AckedJobsAreCounted ==
    Cardinality({s \in Subs : \E m \in Messages : m[1] = s /\ msg[m] = "deleted"})
        <= completed

\* Every message of the job queue is some day deleted or drained: backoffs,
\* crashes and failed acknowledgements do not keep one there for ever.
QueueDrains ==
    \A m \in Messages : msg[m] = "visible" ~> msg[m] \in {"deleted", "drained"}

\* The counter never runs ahead of the results.
CountedAreFinished == completed <= Cardinality(Finished)

\* The code keeps the contract of a batch, START requests sent twice included.
Contract == INSTANCE BatchContract WITH
    started <- bstatus # "pending", finished <- Finished, fired <- fired
ContractSpec == Contract!Spec

\* models.BatchStatusCompleted: "every submission reached a terminal state".
CompletedMeansFinished == bstatus = "completed" => Finished = Subs

\* models.Batch: Total and Completed let a worker "fire the linked webhook
\* exactly once".
FiredOnce == fired <= 1

\* Starter.Start: the roll-back lets a redelivered START event redo the
\* fan-out. When every START event was consumed, every job was published.
ConsumedMeansPublished ==
    (\A e \in StartEvents : evt[e] = "consumed") =>
        \A s \in Subs : \E m \in Messages : m[1] = s /\ msg[m] # "unsent"
=============================================================================
