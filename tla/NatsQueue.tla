------------------------------ MODULE NatsQueue ------------------------------
(***************************************************************************)
(* One job in the JetStream queues: the publisher and its retries, the     *)
(* durable pull consumer of a worker, the dead-letter queue with its       *)
(* processor, and the replay of a dead job. JetStream itself (redelivery   *)
(* after AckWait, MaxDeliver, MsgId) is modelled as this code uses it.     *)
(***************************************************************************)
EXTENDS Naturals, FiniteSets

CONSTANTS
    Copies,          \* bound: the messages that the stream may hold of the job
    PublishRetries, MaxDeliver, MaxConcurrent, DeadMaxDeliver,
    MaxNatsFailures  \* bound: how many failures are explored

ASSUME NatsAssumption ==
    /\ PublishRetries \in Nat /\ MaxDeliver \in Nat \ {0} /\ MaxConcurrent \in Nat \ {0}
    /\ DeadMaxDeliver \in Nat /\ MaxNatsFailures \in Nat

VARIABLES
    publisher,  \* how far publishWithRetry got
    tries,      \* its attempts
    msg,        \* each message: not stored, to be delivered, delivered, acknowledged,
                \* or delivered for the last time without an answer
    deliveries, \* how often it was delivered
    consumer,   \* the consumer process: down, pulling, or stopping
    fetched,    \* the message that the pull loop holds
    slots,      \* the slots of the semaphore that are taken
    handler,    \* how far the goroutine of each delivery got, while there is one
    finished,   \* some handler returned without an error
    dead,       \* the dead letter: none, queued, or processed or given up
    deadTries,  \* how often it was delivered
    jobRow,     \* the status in MySQL: InQueue, or another one
    replay,     \* how far ReplayJob got
    mishaps,    \* the kinds of failure that occurred and that are not made up for
    natsFailures

natsVars == <<publisher, tries, msg, deliveries, consumer, fetched, slots, handler,
              finished, dead, deadTries, jobRow, replay, mishaps, natsFailures>>
publishVars == <<publisher, tries>>
consumerVars == <<consumer, fetched, slots, handler, finished>>
deadVars == <<dead, deadTries>>

Deliveries == Copies \X (1..MaxDeliver)

\* Every variable keeps its type, and a goroutine holds a slot.
NatsTypeOK ==
    /\ publisher \in {"trying", "told", "failed"}
    /\ tries \in 0..PublishRetries
    /\ msg \in [Copies -> {"absent", "ready", "out", "acked", "spent"}]
    /\ deliveries \in [Copies -> 0..MaxDeliver]
    /\ consumer \in {"down", "pulling", "stopping"}
    /\ fetched \subseteq Copies
    /\ slots \in 0..MaxConcurrent
    /\ handler \in [Deliveries -> {"none", "running", "retrying", "forwarding", "acking"}]
    /\ finished \in BOOLEAN
    /\ dead \in {"none", "queued", "over"}
    /\ deadTries \in 0..DeadMaxDeliver
    /\ jobRow \in {"InQueue", "other"}
    /\ replay \in {"idle", "publishing", "undoing"}
    /\ mishaps \subseteq {"dlq", "duplicate", "db", "crash"}
    /\ natsFailures \in 0..MaxNatsFailures
    /\ Cardinality({e \in Deliveries : handler[e] # "none"}) <= slots

NatsInit ==
    /\ publisher = "trying" /\ tries = 0
    /\ msg = [m \in Copies |-> "absent"]
    /\ deliveries = [m \in Copies |-> 0]
    /\ consumer = "pulling" /\ fetched = {} /\ slots = 0
    /\ handler = [e \in Deliveries |-> "none"]
    /\ finished = FALSE
    /\ dead = "none" /\ deadTries = 0
    /\ jobRow = "InQueue" /\ replay = "idle"
    /\ mishaps = {} /\ natsFailures = 0

\* A lost answer or a dead consumer is made up for by a redelivery, a failed publish
\* is told, and so is a failed reset.
Mended == {"ack", "publish", "stop", "reset"}

NatsFails(kind) ==
    /\ natsFailures < MaxNatsFailures
    /\ natsFailures' = natsFailures + 1
    /\ mishaps' = mishaps \cup ({kind} \ Mended)

NatsWorks == UNCHANGED <<mishaps, natsFailures>>

-----------------------------------------------------------------------------
(* JetStream                                                               *)

\* The stream stores another message of the job. (Its messages have no MsgId.)
Stored ==
    \E m \in Copies :
        /\ msg[m] = "absent" /\ m = CHOOSE n \in Copies : msg[n] = "absent"
        /\ msg' = [msg EXCEPT ![m] = "ready"]

\* A message that was delivered is delivered again, or never more.
Returned(m) ==
    msg' = [msg EXCEPT ![m] = IF @ # "out" THEN @
                              ELSE IF deliveries[m] < MaxDeliver THEN "ready" ELSE "spent"]

\* No answer within AckWait, whether or not the handler still runs.
AckWaitEnds(m) ==
    /\ msg[m] = "out"
    /\ Returned(m)
    /\ NatsWorks
    /\ UNCHANGED <<publishVars, deliveries, consumerVars, deadVars, jobRow, replay>>

-----------------------------------------------------------------------------
(* publishWithRetry                                                        *)

\* An attempt is acknowledged, and the loop ends; or its answer does not arrive, with the message
\* stored or not, which is tried again; or it is refused for good.
PublishAttempt ==
    /\ publisher = "trying" /\ tries < PublishRetries
    /\ \/ Stored /\ publisher' = "told" /\ tries' = 0 /\ NatsWorks
       \/ /\ Stored \/ UNCHANGED msg
          /\ NatsFails("publish")
          /\ tries' = tries + 1
          /\ publisher' = IF tries' = PublishRetries THEN "failed" ELSE "trying"
       \/ /\ UNCHANGED <<msg, tries>> /\ NatsFails("publish")
          /\ publisher' = "failed"
    /\ UNCHANGED <<deliveries, consumerVars, deadVars, jobRow, replay>>

-----------------------------------------------------------------------------
(* The consumer                                                            *)

FetchMessage(m) ==
    /\ consumer = "pulling" /\ fetched = {}
    /\ msg[m] = "ready"
    /\ msg' = [msg EXCEPT ![m] = "out"]
    /\ deliveries' = [deliveries EXCEPT ![m] = @ + 1]
    /\ fetched' = {m}
    /\ NatsWorks
    /\ UNCHANGED <<publishVars, consumer, slots, handler, finished, deadVars, jobRow, replay>>

\* As if the semaphore were taken in the goroutine.
DispatchAlways(m) ==
    /\ m \in fetched
    /\ fetched' = {} /\ slots' = slots + 1
    /\ handler' = [handler EXCEPT ![<<m, deliveries[m]>>] = "running"]
    /\ NatsWorks
    /\ UNCHANGED <<publishVars, msg, deliveries, consumer, finished, deadVars, jobRow, replay>>

\* The semaphore has a slot, and a goroutine handles the message; also while
\* the consumer stops, as the select may take either.
Dispatch(m) ==
    /\ m \in fetched /\ slots < MaxConcurrent
    /\ fetched' = {} /\ slots' = slots + 1
    /\ handler' = [handler EXCEPT ![<<m, deliveries[m]>>] = "running"]
    /\ NatsWorks
    /\ UNCHANGED <<publishVars, msg, deliveries, consumer, finished, deadVars, jobRow, replay>>

\* The context has ended: the message is given back.
GiveBack(m) ==
    /\ m \in fetched /\ consumer = "stopping"
    /\ fetched' = {}
    /\ \/ Returned(m) /\ NatsWorks
       \/ UNCHANGED msg /\ NatsFails("ack")
    /\ UNCHANGED <<publishVars, deliveries, consumer, slots, handler, finished, deadVars,
                   jobRow, replay>>

HandlerGoes(e, from, to) ==
    /\ handler[e] = from
    /\ handler' = [handler EXCEPT ![e] = to]

\* processMessage calls the handler, and handleOutcome tells the outcomes apart:
\* no error; an error for good or at the last delivery; any other error. A
\* handler that fails has written InternalError, or nothing.
HandleJob(e) ==
    /\ \/ /\ HandlerGoes(e, "running", "acking")
          /\ finished' = TRUE /\ jobRow' = "other"
       \/ /\ \/ HandlerGoes(e, "running", "forwarding")
             \/ e[2] < MaxDeliver /\ HandlerGoes(e, "running", "retrying")
          /\ jobRow' \in {jobRow, "other"}
          /\ UNCHANGED finished
    /\ NatsWorks
    /\ UNCHANGED <<publishVars, msg, deliveries, consumer, fetched, slots, deadVars, replay>>

\* As if the goroutine kept its slot when it asked for a retry.
RetryKeepsSlot(e) ==
    /\ HandlerGoes(e, "retrying", "none")
    /\ UNCHANGED slots
    /\ \/ Returned(e[1]) /\ NatsWorks
       \/ UNCHANGED msg /\ NatsFails("ack")
    /\ UNCHANGED <<publishVars, deliveries, consumer, fetched, finished, deadVars, jobRow,
                   replay>>

\* onRetriableFailure: NakWithDelay
Retry(e) ==
    /\ HandlerGoes(e, "retrying", "none")
    /\ slots' = slots - 1
    /\ \/ Returned(e[1]) /\ NatsWorks
       \/ UNCHANGED msg /\ NatsFails("ack")
    /\ UNCHANGED <<publishVars, deliveries, consumer, fetched, finished, deadVars, jobRow,
                   replay>>

\* As if a job were acknowledged before its dead letter is published.
AckThenForward(e) ==
    /\ HandlerGoes(e, "forwarding", "acking")
    /\ msg' = [msg EXCEPT ![e[1]] = "acked"]
    /\ NatsWorks
    /\ UNCHANGED <<publishVars, deliveries, consumer, fetched, slots, finished, deadVars,
                   jobRow, replay>>

\* onPermanentFailure: the dead letter is published, or taken for a duplicate
\* when there was one, as its MsgId is the token; a failure is logged and no more.
\* Nothing is published with the context of a consumer that stops.
Forward(e) ==
    /\ HandlerGoes(e, "forwarding", "acking")
    /\ \/ consumer = "pulling" /\ dead' = "queued" /\ NatsWorks
       \/ /\ consumer = "pulling" /\ dead # "none"
          /\ mishaps' = mishaps \cup {"duplicate"}
          /\ UNCHANGED <<dead, natsFailures>>
       \/ UNCHANGED dead /\ NatsFails("dlq")
       \/ /\ consumer = "stopping" /\ UNCHANGED <<dead, natsFailures>>
          /\ mishaps' = mishaps \cup {"dlq"}
    /\ UNCHANGED <<publishVars, msg, deliveries, consumer, fetched, slots, finished, deadTries,
                   jobRow, replay>>

\* The message is acknowledged, and the slot given back; the answer may be lost.
AckMessage(e) ==
    /\ HandlerGoes(e, "acking", "none")
    /\ slots' = slots - 1
    /\ \/ msg' = [msg EXCEPT ![e[1]] = "acked"] /\ NatsWorks
       \/ UNCHANGED msg /\ NatsFails("ack")
    /\ UNCHANGED <<publishVars, deliveries, consumer, fetched, finished, deadVars, jobRow,
                   replay>>

StopConsumer ==
    /\ consumer = "pulling"
    /\ consumer' = "stopping"
    /\ NatsFails("stop")
    /\ UNCHANGED <<publishVars, msg, deliveries, fetched, slots, handler, finished, deadVars,
                   jobRow, replay>>

\* The goroutines are done. Or the process dies, with what it holds.
ConsumerEnds ==
    /\ consumer # "down"
    /\ \/ /\ consumer = "stopping" /\ fetched = {} /\ slots = 0
          /\ UNCHANGED handler /\ NatsWorks
       \/ /\ handler' = [e \in Deliveries |-> "none"]
          /\ NatsFails("stop")
    /\ consumer' = "down" /\ fetched' = {} /\ slots' = 0
    /\ UNCHANGED <<publishVars, msg, deliveries, finished, deadVars, jobRow, replay>>

\* The process starts again, and attaches to its durable consumer.
StartConsumer ==
    /\ consumer = "down"
    /\ consumer' = "pulling"
    /\ NatsWorks
    /\ UNCHANGED <<publishVars, msg, deliveries, fetched, slots, handler, finished, deadVars,
                   jobRow, replay>>

-----------------------------------------------------------------------------
(* The dead-letter queue                                                   *)

\* StartProcessing, processDeadLetter: the row gets InternalError; when that
\* fails the letter is acknowledged all the same.
ProcessDead ==
    /\ dead = "queued"
    /\ dead' = "over"
    /\ \/ jobRow' = "other" /\ NatsWorks
       \/ UNCHANGED jobRow /\ NatsFails("db")
    /\ UNCHANGED <<publishVars, msg, deliveries, consumerVars, deadTries, replay>>

\* The processor dies before it acknowledges: the letter comes again, but not
\* more than DeadMaxDeliver times.
LoseDead ==
    /\ dead = "queued" /\ deadTries < DeadMaxDeliver
    /\ deadTries' = deadTries + 1
    /\ dead' = IF deadTries' = DeadMaxDeliver THEN "over" ELSE "queued"
    /\ jobRow' \in {jobRow, "other"}
    /\ NatsFails("crash")
    /\ UNCHANGED <<publishVars, msg, deliveries, consumerVars, replay>>

\* ReplayJob reads the request in the row, which never changes, and resets the
\* status, whatever it is.
ResetRow ==
    /\ replay = "idle" /\ \E m \in Copies : msg[m] = "absent"
    /\ \/ jobRow' = "InQueue" /\ replay' = "publishing" /\ NatsWorks
       \/ UNCHANGED <<jobRow, replay>> /\ NatsFails("reset")
    /\ UNCHANGED <<publishVars, msg, deliveries, consumerVars, deadVars>>

\* As if a replay that could not be published were only reported.
ReplayKeepsReset ==
    /\ replay = "publishing"
    /\ \/ Stored /\ replay' = "idle" /\ NatsWorks
       \/ UNCHANGED msg /\ replay' = "idle" /\ NatsFails("publish")
    /\ UNCHANGED <<publishVars, deliveries, consumerVars, deadVars, jobRow>>

PublishReplay ==
    /\ replay = "publishing"
    /\ \/ Stored /\ replay' = "idle" /\ NatsWorks
       \/ UNCHANGED msg /\ replay' = "undoing" /\ NatsFails("publish")
    /\ UNCHANGED <<publishVars, deliveries, consumerVars, deadVars, jobRow>>

UndoReset ==
    /\ replay = "undoing"
    /\ \/ jobRow' = "other" /\ NatsWorks
       \/ UNCHANGED jobRow /\ NatsFails("db")
    /\ replay' = "idle"
    /\ UNCHANGED <<publishVars, msg, deliveries, consumerVars, deadVars>>

ReplayDies ==
    /\ replay # "idle"
    /\ replay' = "idle"
    /\ NatsFails("crash")
    /\ UNCHANGED <<publishVars, msg, deliveries, consumerVars, deadVars, jobRow>>

-----------------------------------------------------------------------------
HandlerStep(e) == HandleJob(e) \/ Retry(e) \/ Forward(e) \/ AckMessage(e)
ReplayStep == PublishReplay \/ UndoReset

NatsNext ==
    \/ PublishAttempt
    \/ \E m \in Copies : AckWaitEnds(m) \/ FetchMessage(m) \/ Dispatch(m) \/ GiveBack(m)
    \/ \E e \in Deliveries : HandlerStep(e)
    \/ StopConsumer \/ ConsumerEnds \/ StartConsumer
    \/ ProcessDead \/ LoseDead
    \/ ResetRow \/ ReplayStep \/ ReplayDies

NatsSpec == NatsInit /\ [][NatsNext]_natsVars

-----------------------------------------------------------------------------
(* Properties                                                              *)

Pending == \E m \in Copies : msg[m] \in {"ready", "out", "spent"}

\* A job whose publisher was told so is in the stream until a handler finishes
\* it or a dead letter records it, whatever dies or is answered late; only a
\* dead letter that could not be published loses it (onPermanentFailure
\* acknowledges the message all the same).
JobIsAccountedFor ==
    publisher = "told" => Pending \/ finished \/ dead # "none" \/ "dlq" \in mishaps

\* A submission is not left InQueue without a job: a replay that could not
\* publish takes its reset back, unless it dies or MySQL fails, and the dead
\* letter of a job that no handler could begin sets InternalError, unless it is
\* taken for a duplicate of the one before the replay.
QueuedHasAJob ==
    (publisher = "told" /\ jobRow = "InQueue" /\ replay = "idle"
        /\ mishaps \cap {"dlq", "duplicate", "db", "crash"} = {})
    => Pending \/ dead = "queued"

\* The stream is drained in the end: failed jobs, stops, crashes and late
\* answers use up deliveries, and none of them keeps a slot of the semaphore.
QueueDrains == <>[](\A m \in Copies : msg[m] \notin {"ready", "out"})
=============================================================================
