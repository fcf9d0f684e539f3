-------------------------- MODULE WebhookDelivery --------------------------
(***************************************************************************)
(* The delivery of a batch's result to its webhook: the dispatches that    *)
(* workers launch when the counter is full, the reconciler of the queue-   *)
(* manager, and callback requests of users, all on one batch row and with  *)
(* a receiver that may refuse.                                             *)
(*                                                                         *)
(* The batch itself is here in short: its submissions get a result one by  *)
(* one and are counted one by one (BatchPipeline has the detail).          *)
(***************************************************************************)
EXTENDS Integers, FiniteSets

CONSTANTS
    Total,         \* submissions of the batch
    Recounts,      \* bound: how often a submission is counted twice
    Launches,      \* the dispatches of workers, one per count from Total on
    Requests,      \* callback requests, POST /batches/:id/callback
    Reconciler,    \* the reconciler of the queue-manager
    MaxRetries, Delay, Backoff, MaxDelay, Timeout, \* RetryConfig
    Margin,        \* what RetryBudget adds for database calls
    SequentialSet, \* TRUE: UPDATE evaluates its SET clauses left to right
    MaxFailures,   \* bound: how many failures are explored
    Faults         \* the kinds of failure that may occur

(***************************************************************************)
(* What can go wrong. "refuse": the receiver answers with a status of 400  *)
(* or more. "lost": it has taken the result, and its answer is lost or too *)
(* late. "db": a MySQL statement fails, a cancelled context included.      *)
(* "crash": the process of a dispatcher dies or is shut down.              *)
(***************************************************************************)
FaultKinds == {"refuse", "lost", "db", "crash"}
Dispatchers == Launches \cup Requests \cup {Reconciler}

ASSUME DeliveryAssumption ==
    /\ Total \in Nat \ {0} /\ Recounts \in Nat
    /\ IsFiniteSet(Launches) /\ Cardinality(Launches) > Recounts
    /\ Launches \cap Requests = {} /\ Reconciler \notin Launches \cup Requests
    /\ MaxRetries \in Nat /\ MaxFailures \in Nat /\ Margin \in Nat
    /\ Delay \in Nat /\ Backoff \in Nat \ {0} /\ MaxDelay \in Nat /\ Timeout \in Nat
    /\ SequentialSet \in BOOLEAN
    /\ Faults \subseteq FaultKinds

VARIABLES
    results,   \* how many submissions have a result
    counted,   \* the completed counter of the batch row
    bstatus,   \* its status
    wstatus,   \* its webhook_status
    wretries,  \* its webhook_retry_count
    accepted,  \* the payloads the receiver took, as numbers of results
    pc,        \* how far each dispatcher got
    call,      \* the payload of each dispatcher's call, its attempts so far, the
               \* next delay, and the time it has spent
    failures   \* how many failures occurred so far

rowVars == <<bstatus, wstatus, wretries>>
batchVars == <<results, counted>>
vars == <<results, counted, bstatus, wstatus, wretries, accepted, pc, call, failures>>

PC == {"idle", "preparing", "posting", "waiting", "delivered", "exhausted", "over"}

\* Every variable keeps its type; no dispatch reports more retries than the
\* configuration allows.
TypeOK ==
    /\ results \in 0..Total
    /\ counted \in 0..(Total + Recounts)
    /\ bstatus \in {"processing", "completed"}
    /\ wstatus \in {"pending", "sent", "failed"}
    /\ wretries \in 0..MaxRetries
    /\ accepted \subseteq 0..Total
    /\ pc \in [Dispatchers -> PC]
    /\ call \in [Dispatchers -> [payload : 0..Total, tries : 0..(MaxRetries + 1),
                                delay : Nat, spent : Nat]]
    /\ failures \in 0..MaxFailures

\* The local variables of a call that has done nothing yet.
NewCall == [payload |-> 0, tries |-> 0, delay |-> Delay, spent |-> 0]

\* The batch has been started and has a webhook.
Init ==
    /\ results = 0 /\ counted = 0
    /\ bstatus = "processing" /\ wstatus = "pending" /\ wretries = 0
    /\ accepted = {}
    /\ pc = [d \in Dispatchers |-> "idle"]
    /\ call = [d \in Dispatchers |-> NewCall]
    /\ failures = 0

\* A failure of the given kind occurs in this step, or none does.
Fails(kind) ==
    /\ kind \in Faults
    /\ failures < MaxFailures
    /\ failures' = failures + 1

Works == UNCHANGED failures

-----------------------------------------------------------------------------
(* The retry schedule                                                      *)

\* nextDelay: the wait after a wait of d.
NextDelay(d) ==
    IF Backoff <= 1 THEN d
    ELSE IF d * Backoff > MaxDelay THEN MaxDelay
    ELSE d * Backoff

\* The n-th delay that RetryBudget adds, and the sum of the first n.
Wait[n \in 1..MaxRetries] == IF n = 1 THEN Delay ELSE NextDelay(Wait[n - 1])
Waits[n \in 0..MaxRetries] == IF n = 0 THEN 0 ELSE Waits[n - 1] + Wait[n]

\* As if the budget had no time for the first attempt.
BudgetOfRetries == MaxRetries * Timeout + Waits[MaxRetries] + Margin

\* The time after which the context of a worker's dispatch ends.
RetryBudget == (MaxRetries + 1) * Timeout + Waits[MaxRetries] + Margin

\* As if the loop ran once too often.
OneAttemptMore(d) == IF d \in Launches THEN MaxRetries + 2 ELSE 1

\* Only a worker's dispatch retries; the reconciler and callbacks try once.
MaxAttempts(d) == IF d \in Launches THEN MaxRetries + 1 ELSE 1

-----------------------------------------------------------------------------
(* The batch                                                               *)

\* The CASE of IncrementCompleted (see BatchPipeline!StatusAfter).
StatusAfter(c) ==
    LET seen == IF SequentialSet THEN c + 1 ELSE c
    IN  IF seen + 1 >= Total THEN "completed" ELSE "processing"

\* The result of one more submission is stored.
FinishOne ==
    /\ results < Total
    /\ results' = results + 1
    /\ Works
    /\ UNCHANGED <<counted, rowVars, accepted, pc, call>>

\* advanceBatch counts one submission, a second time perhaps, and launches a
\* dispatch when the counter is full.
CountOne ==
    /\ counted < results + Recounts
    /\ counted < Total + Recounts
    /\ counted' = counted + 1
    /\ bstatus' = StatusAfter(counted)
    /\ IF counted' >= Total
       THEN \E d \in Launches :
              pc[d] = "idle" /\ pc' = [pc EXCEPT ![d] = "preparing"]
       ELSE UNCHANGED pc
    /\ Works
    /\ UNCHANGED <<results, wstatus, wretries, accepted, call>>

-----------------------------------------------------------------------------
(* The dispatchers                                                         *)

\* A user asks for a callback; the batch need not be finished.
RequestCallback(d) ==
    /\ d \in Requests
    /\ pc[d] = "idle"
    /\ pc' = [pc EXCEPT ![d] = "preparing"]
    /\ Works
    /\ UNCHANGED <<batchVars, rowVars, accepted, call>>

\* As if the sweep took up failed deliveries only.
FailedOnly == bstatus = "completed" /\ wstatus = "failed"

\* What ListReconcilableBatches selects.
Reconcilable == bstatus = "completed" /\ wstatus \in {"pending", "failed"}

\* A sweep finds the batch. Its grace period is over, and the batch not yet
\* reconcileMaxAge old.
Sweep ==
    /\ pc[Reconciler] = "idle"
    /\ Reconcilable
    /\ pc' = [pc EXCEPT ![Reconciler] = "preparing"]
    /\ Works
    /\ UNCHANGED <<batchVars, rowVars, accepted, call>>

\* The dispatch returns; the reconciler waits for its next tick.
Returns(d) ==
    /\ pc' = [pc EXCEPT ![d] = IF d = Reconciler THEN "idle" ELSE "over"]
    /\ call' = [call EXCEPT ![d] = NewCall]

\* prepare reads the batch, its webhook and its submissions, whatever their
\* status, into the payload that all attempts post. If it fails the dispatch
\* returns and records nothing.
Prepare(d) ==
    /\ pc[d] = "preparing"
    /\ \/ /\ Works
          /\ call' = [call EXCEPT ![d].payload = results]
          /\ pc' = [pc EXCEPT ![d] = "posting"]
       \/ /\ Fails("db")
          /\ Returns(d)
    /\ UNCHANGED <<batchVars, rowVars, accepted>>

\* How long an attempt takes; it matters to a call with a budget only.
Durations(d) == IF d \in Launches THEN {0, Timeout} ELSE {0}

\* One attempt.
Attempt(d) ==
    /\ pc[d] = "posting"
    /\ \E t \in Durations(d) :
          call' = [call EXCEPT ![d].tries = @ + 1, ![d].spent = @ + t]

\* As if a refusal were taken for a delivery.
AfterRefusal(d) == "delivered"

\* What deliverWithRetry, or DispatchBatch, does after a failed attempt.
AfterFailure(d) == IF call[d].tries + 1 < MaxAttempts(d) THEN "waiting" ELSE "exhausted"

\* deliver: the receiver takes the payload, answers with an error, or takes it
\* and is not heard.
Deliver(d) ==
    /\ Attempt(d)
    /\ \/ /\ Works
          /\ accepted' = accepted \cup {call[d].payload}
          /\ pc' = [pc EXCEPT ![d] = "delivered"]
       \/ /\ Fails("refuse")
          /\ UNCHANGED accepted
          /\ pc' = [pc EXCEPT ![d] = AfterFailure(d)]
       \/ /\ Fails("lost")
          /\ accepted' = accepted \cup {call[d].payload}
          /\ pc' = [pc EXCEPT ![d] = AfterFailure(d)]
    /\ UNCHANGED <<batchVars, rowVars>>

\* The wait before the next attempt.
WaitForRetry(d) ==
    /\ pc[d] = "waiting"
    /\ call' = [call EXCEPT ![d].spent = @ + call[d].delay,
                            ![d].delay = NextDelay(@)]
    /\ pc' = [pc EXCEPT ![d] = "posting"]
    /\ Works
    /\ UNCHANGED <<batchVars, rowVars, accepted>>

\* MarkWebhook, whatever the row says; its failure is logged or ignored.
MarkWebhook(d, status) ==
    /\ \/ Works /\ wstatus' = status /\ wretries' = call[d].tries - 1
       \/ Fails("db") /\ UNCHANGED <<wstatus, wretries>>
    /\ Returns(d)
    /\ UNCHANGED <<batchVars, bstatus, accepted>>

MarkSent(d) == pc[d] = "delivered" /\ MarkWebhook(d, "sent")
MarkFailed(d) == pc[d] = "exhausted" /\ MarkWebhook(d, "failed")

\* The process of the dispatcher dies; the queue-manager is started again.
Crash(d) ==
    /\ Fails("crash")
    /\ pc[d] \notin {"idle", "over"}
    /\ Returns(d)
    /\ UNCHANGED <<batchVars, rowVars, accepted>>

DispatchStep(d) ==
    \/ Prepare(d) \/ Deliver(d) \/ WaitForRetry(d) \/ MarkSent(d) \/ MarkFailed(d)

Next ==
    \/ FinishOne \/ CountOne \/ Sweep
    \/ \E d \in Dispatchers : RequestCallback(d) \/ DispatchStep(d) \/ Crash(d)

(***************************************************************************)
(* Jobs run to their end and are counted, the reconciler's ticker goes on, *)
(* dispatches run to their end. Nobody has to ask for a callback.          *)
(***************************************************************************)
Fairness ==
    /\ WF_vars(FinishOne) /\ WF_vars(CountOne /\ counted < Total) /\ WF_vars(Sweep)
    /\ \A d \in Dispatchers : WF_vars(DispatchStep(d))

Spec == Init /\ [][Next]_vars
FairSpec == Spec /\ Fairness

-----------------------------------------------------------------------------
(* Properties                                                              *)

\* "sent" is never a guess: whoever recorded it, and whatever other dispatches
\* of the batch did meanwhile, the receiver has taken a result of the batch.
SentWasDelivered == wstatus = "sent" => accepted # {}

\* The context of a worker's dispatch leaves room for every attempt the
\* configuration promises, however slow the ones before it were, and for the
\* statement that records the outcome (RetryBudget, deliverWithRetry).
BudgetCoversRetries ==
    \A d \in Launches :
        /\ pc[d] = "posting" => call[d].spent + Timeout + Margin <= RetryBudget
        /\ pc[d] \in {"delivered", "exhausted"} => call[d].spent + Margin <= RetryBudget

\* In the end the delivery is recorded as sent, for good: lost dispatches,
\* failed records and late failures that overwrite "sent" are made up for by
\* the reconciler, as long as the batch is young enough for it.
EventuallySent == <>[](wstatus = "sent")

\* main.go of the queue-manager: a finished batch whose dispatches were lost
\* before the receiver took the result is found by the reconciler.
LostDispatchIsRetried ==
    /\ counted >= Total
    /\ Total \notin accepted
    /\ \A d \in Dispatchers : pc[d] \in {"idle", "over"}
    => Reconcilable
=============================================================================
