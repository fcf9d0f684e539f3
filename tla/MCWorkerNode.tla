---------------------------- MODULE MCWorkerNode ----------------------------
(***************************************************************************)
(* The parts of a worker node, in one instance for TLC. They share no      *)
(* state, so one of them runs in a behaviour: the one that `focus` names.  *)
(* The others stay as they begin.                                          *)
(***************************************************************************)
EXTENDS NatsQueue, WorkerPool, Sandbox, DatabaseRun, ImagePool, OutputCapture,
        ExecutionLimits

VARIABLES focus, results, counted, bstatus, wstatus, wretries, accepted, pc, call, failures

\* One dispatch of a webhook, with three retries; the second wait is twice the first,
\* and the third is at the maximum.
Webhook == INSTANCE WebhookDelivery WITH
    Total <- 2, Recounts <- 0, Launches <- {"worker"}, Requests <- {},
    Reconciler <- "reconciler", MaxRetries <- 3, Delay <- 2, Backoff <- 2, MaxDelay <- 5,
    Timeout <- 3, Margin <- 1, SequentialSet <- FALSE, MaxFailures <- 4,
    Faults <- {"refuse", "lost", "crash"}

webhookVars == <<results, counted, bstatus, wstatus, wretries, accepted, pc, call, failures>>

nodeVars == <<focus, natsVars, poolVars, sandboxVars, imageVars, outputVars, limitVars,
              webhookVars>>

Times == {-1, 0, 61, 120, 121}
Walls == {0, 400}

\* Sizes in KB, and some whose bytes wrap: to the least number, to zero, to a small
\* number and to one above the maximum; the last is negative and does so too.
Sizes == {-1, 0, 100 * Kilo, 600 * Kilo, 4096 * Kilo, 4096 * Kilo + 1} \cup
         {Half \div Kilo, 2 * (Half \div Kilo), 2 * (Half \div Kilo) + 600 * Kilo,
          2 * (Half \div Kilo) + 5000 * Kilo, 5000 * Kilo - 2 * (Half \div Kilo)}

Parts == {"queue", "pool", "sandbox", "database", "images", "output", "limits", "webhook"}

\* Every variable of the node's own parts keeps its type.
NodeTypeOK ==
    /\ focus \in Parts
    /\ NatsTypeOK /\ PoolTypeOK /\ SandboxTypeOK /\ ImageTypeOK /\ OutputTypeOK /\ LimitsTypeOK

NodeInit ==
    /\ focus \in Parts
    /\ NatsInit /\ PoolInit /\ ImageInit /\ OutputInit /\ Webhook!Init
    /\ IF focus = "database" THEN DatabaseInit /\ stage = "run" ELSE SandboxInit
    /\ IF focus = "limits" THEN LimitsInit
       ELSE /\ language = <<"C", 5, 256>> /\ asked = [time |-> 0, wall |-> 0, memory |-> 0]
            /\ limits = [time |-> 0, wall |-> 0, memory |-> 0] /\ progress = "asked"
    /\ kind # "compiled" \/ focus = "sandbox"
    /\ ~registry \/ focus = "images"

NodeNext ==
    /\ \/ /\ focus = "queue" /\ NatsNext
          /\ UNCHANGED <<poolVars, sandboxVars, imageVars, outputVars, limitVars, webhookVars>>
       \/ /\ focus = "pool" /\ PoolNext
          /\ UNCHANGED <<natsVars, sandboxVars, imageVars, outputVars, limitVars, webhookVars>>
       \/ /\ focus = "sandbox" /\ SandboxNext
          /\ UNCHANGED <<natsVars, poolVars, imageVars, outputVars, limitVars, webhookVars>>
       \/ /\ focus = "database" /\ DatabaseNext /\ UNCHANGED stage
          /\ UNCHANGED <<natsVars, poolVars, imageVars, outputVars, limitVars, webhookVars>>
       \/ /\ focus = "images" /\ ImageNext
          /\ UNCHANGED <<natsVars, poolVars, sandboxVars, outputVars, limitVars, webhookVars>>
       \/ /\ focus = "output" /\ OutputNext
          /\ UNCHANGED <<natsVars, poolVars, sandboxVars, imageVars, limitVars, webhookVars>>
       \/ /\ focus = "limits" /\ LimitsNext
          /\ UNCHANGED <<natsVars, poolVars, sandboxVars, imageVars, outputVars, webhookVars>>
       \/ /\ focus = "webhook" /\ Webhook!Next
          /\ UNCHANGED <<natsVars, poolVars, sandboxVars, imageVars, outputVars, limitVars>>
    /\ UNCHANGED focus

-----------------------------------------------------------------------------
\* Callers, JetStream, the pull loop and the handlers each go on as long as they
\* can, and a process that ended is started again. One of two handlers may wait for
\* the other.
QueueFairness ==
    /\ WF_natsVars(focus = "queue" /\ PublishAttempt)
    /\ WF_natsVars(focus = "queue" /\ ReplayStep)
    /\ WF_natsVars(focus = "queue" /\ \E m \in Copies : AckWaitEnds(m) \/ FetchMessage(m))
    /\ WF_natsVars(focus = "queue" /\ \/ StartConsumer
                                      \/ consumer = "stopping" /\ ConsumerEnds
                                      \/ \E m \in Copies : Dispatch(m) \/ GiveBack(m))
    /\ WF_natsVars(focus = "queue" /\ \E e \in Deliveries : HandlerStep(e))

\* The pool's Stop, the goroutines of workers, and those of jobs go on.
PoolFairness ==
    /\ WF_poolVars(focus = "pool" /\ panicked = "no" /\ (BeginPoolStop \/ EndPoolStop))
    /\ WF_poolVars(focus = "pool" /\ panicked = "no"
                                  /\ \E w \in Workers : Drain(w) \/ WorkerStep(w))
    /\ WF_poolVars(focus = "pool" /\ panicked = "no" /\ \E j \in Jobs : JobStep(j))

\* Calls return, the deadline of a run comes, and the output of a container ends
\* with it. Nothing says that a program ends.
ExecutionFairness ==
    /\ WF_sandboxVars(focus = "sandbox" /\ SandboxStep)
    /\ WF_sandboxVars(focus = "database" /\ DatabaseStep /\ UNCHANGED stage)
    /\ WF_sandboxVars(focus \in {"sandbox", "database"} /\ ContextEnds /\ UNCHANGED stage)
    /\ WF_sandboxVars(focus \in {"sandbox", "database"} /\ box = "ended" /\ StreamEnds
                        /\ UNCHANGED stage)

\* The budget of a worker's dispatch, which has the longest schedule here, covers
\* all its attempts and waits (see WebhookDelivery!BudgetCoversRetries).
BudgetCoversRetries == Webhook!BudgetCoversRetries

NodeSpec ==
    /\ NodeInit /\ [][NodeNext]_nodeVars
    /\ QueueFairness /\ PoolFairness /\ ExecutionFairness
=============================================================================
