-------------------------- MODULE NatsQueueProofs --------------------------
(***************************************************************************)
(* The JetStream queue of a job, for any number of messages, deliveries,   *)
(* slots and failures: no job is lost without a trace, and none is left    *)
(* InQueue without a message.                                              *)
(*                                                                         *)
(* The first follows from what stands behind an acknowledgement: a handler *)
(* that is about to acknowledge has finished the job, recorded a dead      *)
(* letter, or failed to (AckMeansDone). The second needs a message in the  *)
(* stream that nobody is about to acknowledge (Carried): the handlers of   *)
(* the messages before a replay may still be on their way.                 *)
(*                                                                         *)
(* The slots of the semaphore: as many are taken as goroutines run. It     *)
(* needs that the delivery which the pull loop holds has no goroutine yet  *)
(* (NotBegun), and so that a message has deliveries left (MayDeliver).     *)
(***************************************************************************)
EXTENDS NatsQueue, FiniteSetTheorems, TLAPS

MsgOK == msg \in [Copies -> {"absent", "ready", "out", "acked", "spent"}]

Done == finished \/ dead # "none" \/ "dlq" \in mishaps

\* A message that is held or handled is in the stream, or was.
Known ==
    /\ \A m \in fetched : m \in Copies /\ msg[m] # "absent"
    /\ \A e \in Deliveries : handler[e] # "none" => msg[e[1]] # "absent"
    /\ publisher = "told" => \E m \in Copies : msg[m] # "absent"

AckMeansDone ==
    /\ \A e \in Deliveries : handler[e] = "acking" => Done
    /\ \A m \in Copies : msg[m] = "acked" => Done

Quiet ==
    publisher = "told" /\ jobRow = "InQueue" /\ replay = "idle"
        /\ mishaps \cap {"dlq", "duplicate", "db", "crash"} = {}

Carrier(m) ==
    /\ msg[m] \in {"ready", "out", "spent"}
    /\ \A e \in Deliveries : e[1] = m => handler[e] # "acking"

Carried == Quiet => dead = "queued" \/ \E m \in Copies : Carrier(m)

HandlersOK == DOMAIN handler = Deliveries

NatsInv == MsgOK /\ HandlersOK /\ Known /\ AckMeansDone /\ Carried

LEMMA NatsInitHolds == ASSUME NatsInit PROVE NatsInv
  BY DEF NatsInit, NatsInv, MsgOK, HandlersOK, Known, AckMeansDone, Carried, Quiet

\* Failures are never forgotten.
LEMMA MishapsGrow ==
    ASSUME NatsWorks \/ (\E k : NatsFails(k)) \/ (\E k : mishaps' = mishaps \cup {k})
    PROVE  mishaps \subseteq mishaps'
  BY DEF NatsWorks, NatsFails

LEMMA DeliveredIsCopy == \A e \in Deliveries : e[1] \in Copies
  BY DEF Deliveries

USE DEF NatsInv, MsgOK, HandlersOK, Known, AckMeansDone, Carried, Quiet, Carrier, Done

\* A message that was delivered is in the stream after it is given back.
LEMMA ReturnedKeeps ==
    ASSUME MsgOK, NEW m \in Copies, Returned(m)
    PROVE  /\ msg' \in [Copies -> {"absent", "ready", "out", "acked", "spent"}]
           /\ \A k \in Copies : /\ msg'[k] = "absent" <=> msg[k] = "absent"
                                /\ msg'[k] = "acked" <=> msg[k] = "acked"
  BY DEF Returned

LEMMA StoredAdds ==
    ASSUME MsgOK, Stored
    PROVE  /\ msg' \in [Copies -> {"absent", "ready", "out", "acked", "spent"}]
           /\ \A k \in Copies : /\ msg[k] # "absent" => msg'[k] = msg[k]
                                /\ msg'[k] = "acked" => msg[k] = "acked"
           /\ \E k \in Copies : msg[k] = "absent" /\ msg'[k] = "ready"
  BY DEF Stored

LEMMA PublishKeeps == ASSUME NatsInv, PublishAttempt PROVE NatsInv'
  <1>1. UNCHANGED <<deliveries, consumer, fetched, slots, handler, finished, dead, deadTries,
                    jobRow, replay>> /\ mishaps \subseteq mishaps'
    BY MishapsGrow DEF PublishAttempt, consumerVars, deadVars
  <1>2. CASE Stored
    BY DeliveredIsCopy, <1>1, <1>2, StoredAdds DEF PublishAttempt
  <1>3. CASE UNCHANGED msg /\ publisher' # "told"
    BY <1>1, <1>3
  <1> QED
    BY <1>2, <1>3 DEF PublishAttempt

LEMMA AckWaitKeeps == ASSUME NatsInv, NEW m \in Copies, AckWaitEnds(m) PROVE NatsInv'
  BY DeliveredIsCopy, ReturnedKeeps DEF AckWaitEnds, publishVars, consumerVars, deadVars, NatsWorks

LEMMA FetchKeeps == ASSUME NatsInv, NEW m \in Copies, FetchMessage(m) PROVE NatsInv'
  BY DEF FetchMessage, publishVars, deadVars, NatsWorks

LEMMA DispatchKeeps == ASSUME NatsInv, NEW m \in Copies, Dispatch(m) PROVE NatsInv'
  BY DEF Dispatch, publishVars, deadVars, NatsWorks, Deliveries

LEMMA GiveBackKeeps == ASSUME NatsInv, NEW m \in Copies, GiveBack(m) PROVE NatsInv'
  <1>1. UNCHANGED <<publisher, handler, finished, dead, jobRow, replay>> /\ fetched' = {}
        /\ mishaps \subseteq mishaps'
    BY MishapsGrow DEF GiveBack, publishVars, deadVars
  <1>2. CASE Returned(m)
    BY DeliveredIsCopy, <1>1, <1>2, ReturnedKeeps
  <1>3. CASE UNCHANGED msg
    BY <1>1, <1>3
  <1> QED
    BY <1>2, <1>3 DEF GiveBack

LEMMA HandleJobKeeps == ASSUME NatsInv, NEW e \in Deliveries, HandleJob(e) PROVE NatsInv'
  BY DEF HandleJob, HandlerGoes, publishVars, deadVars, NatsWorks

LEMMA RetryKeeps == ASSUME NatsInv, NEW e \in Deliveries, Retry(e) PROVE NatsInv'
  <1>1. e[1] \in Copies
    BY DEF Deliveries
  <1>2. UNCHANGED <<publisher, fetched, finished, dead, jobRow, replay>>
        /\ handler[e] = "retrying" /\ handler' = [handler EXCEPT ![e] = "none"]
        /\ mishaps \subseteq mishaps'
    BY MishapsGrow DEF Retry, HandlerGoes, publishVars, deadVars
  <1>3. CASE Returned(e[1])
    BY DeliveredIsCopy, <1>1, <1>2, <1>3, ReturnedKeeps
  <1>4. CASE UNCHANGED msg
    BY <1>1, <1>2, <1>4
  <1> QED
    BY <1>3, <1>4 DEF Retry

LEMMA ForwardKeeps == ASSUME NatsInv, NEW e \in Deliveries, Forward(e) PROVE NatsInv'
  <1>1. UNCHANGED <<publisher, msg, fetched, finished, jobRow, replay>>
        /\ handler[e] = "forwarding" /\ handler' = [handler EXCEPT ![e] = "acking"]
        /\ mishaps \subseteq mishaps'
    BY MishapsGrow DEF Forward, HandlerGoes, publishVars
  <1>2. CASE dead' = "queued"
    BY <1>1, <1>2
  <1>3. CASE dead' = dead /\ dead # "none" /\ "duplicate" \in mishaps'
    BY <1>1, <1>3
  <1>4. CASE dead' = dead /\ "dlq" \in mishaps'
    BY <1>1, <1>4
  <1> QED
    BY <1>2, <1>3, <1>4 DEF Forward, NatsFails, Mended

LEMMA AckKeeps == ASSUME NatsInv, NEW e \in Deliveries, AckMessage(e) PROVE NatsInv'
  <1>1. UNCHANGED <<publisher, fetched, finished, dead, jobRow, replay>>
        /\ handler[e] = "acking" /\ handler' = [handler EXCEPT ![e] = "none"]
        /\ mishaps \subseteq mishaps'
    BY MishapsGrow DEF AckMessage, HandlerGoes, publishVars, deadVars
  <1>2. CASE msg' = [msg EXCEPT ![e[1]] = "acked"]
    BY <1>1, <1>2, DeliveredIsCopy
  <1>3. CASE UNCHANGED msg
    BY <1>1, <1>3
  <1> QED
    BY <1>2, <1>3 DEF AckMessage

LEMMA ConsumerKeeps ==
    ASSUME NatsInv, StopConsumer \/ ConsumerEnds \/ StartConsumer PROVE NatsInv'
  <1>1. UNCHANGED <<publisher, msg, finished, dead, jobRow, replay>>
        /\ mishaps \subseteq mishaps' /\ (fetched' = {} \/ fetched' = fetched)
    BY MishapsGrow DEF StopConsumer, ConsumerEnds, StartConsumer, publishVars, deadVars
  <1>2. CASE UNCHANGED handler
    BY <1>1, <1>2
  <1>3. CASE handler' = [e \in Deliveries |-> "none"]
    BY <1>1, <1>3
  <1> QED
    BY <1>2, <1>3 DEF StopConsumer, ConsumerEnds, StartConsumer

LEMMA DeadKeeps == ASSUME NatsInv, ProcessDead \/ LoseDead PROVE NatsInv'
  <1>1. UNCHANGED <<publisher, msg, fetched, handler, finished, replay>>
        /\ mishaps \subseteq mishaps' /\ dead' # "none"
    BY MishapsGrow DEF ProcessDead, LoseDead, publishVars, consumerVars
  <1>2. jobRow' = "other" \/ "db" \in mishaps' \/ "crash" \in mishaps'
    BY DEF ProcessDead, LoseDead, NatsFails, Mended
  <1> QED
    BY <1>1, <1>2

LEMMA ReplayKeeps ==
    ASSUME NatsInv, ResetRow \/ ReplayStep \/ ReplayDies PROVE NatsInv'
  <1>1. UNCHANGED <<publisher, fetched, handler, finished, dead>> /\ mishaps \subseteq mishaps'
    BY MishapsGrow
    DEF ResetRow, ReplayStep, PublishReplay, UndoReset, ReplayDies, publishVars,
        consumerVars, deadVars
  <1>2. CASE PublishReplay /\ Stored
    BY DeliveredIsCopy, <1>1, <1>2, StoredAdds DEF PublishReplay
  <1>3. CASE /\ UNCHANGED msg
             /\ \/ replay' # "idle" \/ jobRow' = "other"
                \/ "db" \in mishaps' \/ "crash" \in mishaps'
    BY <1>1, <1>3
  <1>4. CASE UNCHANGED <<msg, jobRow, replay>>
    BY <1>1, <1>4
  <1> QED
    BY <1>2, <1>3, <1>4
    DEF ResetRow, ReplayStep, PublishReplay, UndoReset, ReplayDies, NatsFails, Mended

LEMMA NatsStepKeeps == ASSUME NatsInv, [NatsNext]_natsVars PROVE NatsInv'
  <1>1. CASE UNCHANGED natsVars
    BY <1>1 DEF natsVars
  <1>2. CASE NatsNext
    BY <1>2, PublishKeeps, AckWaitKeeps, FetchKeeps, DispatchKeeps, GiveBackKeeps,
       HandleJobKeeps, RetryKeeps, ForwardKeeps, AckKeeps, ConsumerKeeps, DeadKeeps, ReplayKeeps
    DEF NatsNext, HandlerStep
  <1> QED
    BY <1>1, <1>2

HIDE DEF NatsInv, MsgOK, HandlersOK, Known, AckMeansDone, Carried, Quiet, Carrier, Done

LEMMA NatsInductive == NatsSpec => []NatsInv
  <1>1. NatsInit => NatsInv
    BY NatsInitHolds
  <1>2. NatsInv /\ [NatsNext]_natsVars => NatsInv'
    BY NatsStepKeeps
  <1> QED
    BY <1>1, <1>2, PTL DEF NatsSpec

\* A job that was published is in the stream until a handler finishes it or a dead
\* letter records it, except where the dead letter could not be published, for
\* any number of redeliveries, crashes, late answers and replays.
THEOREM JobAccountedFor == NatsSpec => []JobIsAccountedFor
  <1>1. NatsInv => JobIsAccountedFor
    BY DEF NatsInv, MsgOK, Known, AckMeansDone, Done, JobIsAccountedFor, Pending
  <1> QED
    BY <1>1, NatsInductive, PTL

\* A submission that is InQueue has a message or a dead letter that will move it
\* on, also after replays, except for the failures that QueuedHasAJob names.
THEOREM QueuedHasItsJob == NatsSpec => []QueuedHasAJob
  <1>1. NatsInv => QueuedHasAJob
    BY DEF NatsInv, Carried, Quiet, Carrier, QueuedHasAJob, Pending
  <1> QED
    BY <1>1, NatsInductive, PTL

-----------------------------------------------------------------------------
(* The slots of the semaphore                                              *)

\* The kinds of failure that are remembered.
NatsKinds == {"dlq", "duplicate", "db", "crash"}

\* The goroutines that run.
Handling == {e \in Deliveries : handler[e] # "none"}

\* Every variable keeps its type, the number of goroutines aside.
NatsShape ==
    /\ publisher \in {"trying", "told", "failed"}
    /\ tries \in 0..PublishRetries
    /\ deliveries \in [Copies -> 0..MaxDeliver]
    /\ consumer \in {"down", "pulling", "stopping"}
    /\ fetched \in SUBSET Copies
    /\ slots \in 0..MaxConcurrent
    /\ handler \in [Deliveries -> {"none", "running", "retrying", "forwarding", "acking"}]
    /\ finished \in BOOLEAN
    /\ dead \in {"none", "queued", "over"}
    /\ deadTries \in 0..DeadMaxDeliver
    /\ jobRow \in {"InQueue", "other"}
    /\ replay \in {"idle", "publishing", "undoing"}
    /\ mishaps \in SUBSET NatsKinds
    /\ natsFailures \in 0..MaxNatsFailures

\* A message that may be delivered has deliveries left.
MayDeliver(m) ==
    /\ msg[m] = "absent" => deliveries[m] = 0
    /\ msg[m] = "ready" => deliveries[m] < MaxDeliver

\* No goroutine has begun for a delivery that is to come, nor for the one that
\* the pull loop holds.
NotBegun(m) ==
    /\ \A k \in 1..MaxDeliver : k > deliveries[m] => handler[<<m, k>>] = "none"
    /\ m \in fetched => deliveries[m] >= 1 /\ handler[<<m, deliveries[m]>>] = "none"

\* As many goroutines run as slots are taken: none is leaked.
SlotsAreHeld == IsFiniteSet(Handling) /\ Cardinality(Handling) = slots

SlotInv ==
    /\ MsgOK /\ NatsShape /\ SlotsAreHeld
    /\ \A m \in Copies : MayDeliver(m) /\ NotBegun(m)
    /\ \A m, n \in fetched : m = n

LEMMA DeliveryIsPair ==
    ASSUME NEW m \in Copies, NEW k \in 1..MaxDeliver PROVE <<m, k>> \in Deliveries
  BY DEF Deliveries

LEMMA PairOfDelivery ==
    ASSUME NEW e \in Deliveries
    PROVE  e[1] \in Copies /\ e[2] \in 1..MaxDeliver /\ e = <<e[1], e[2]>>
  BY DEF Deliveries

LEMMA NatsInitSlots == ASSUME NatsInit PROVE SlotInv
  <1>1. MsgOK
    BY DEF NatsInit, MsgOK
  <1>2. NatsShape
    <2>1. /\ 0 \in 0..PublishRetries /\ 0 \in 0..MaxDeliver /\ 0 \in 0..MaxConcurrent
          /\ 0 \in 0..DeadMaxDeliver /\ 0 \in 0..MaxNatsFailures
      BY NatsAssumption
    <2>2. deliveries \in [Copies -> 0..MaxDeliver]
      BY <2>1 DEF NatsInit
    <2>3. handler \in [Deliveries -> {"none", "running", "retrying", "forwarding", "acking"}]
      BY DEF NatsInit
    <2>. QED
      BY <2>1, <2>2, <2>3 DEF NatsInit, NatsShape
  <1>3. SlotsAreHeld
    <2>1. Handling = {}
      BY DEF NatsInit, Handling
    <2>. QED
      BY <2>1, FS_EmptySet DEF SlotsAreHeld, NatsInit
  <1>4. \A m \in Copies : MayDeliver(m) /\ NotBegun(m)
    BY NatsAssumption, DeliveryIsPair DEF NatsInit, MayDeliver, NotBegun
  <1>. QED
    BY <1>1, <1>2, <1>3, <1>4 DEF NatsInit, SlotInv

\* A goroutine takes a slot when it begins,
LEMMA SlotTaken ==
    ASSUME NatsShape, SlotsAreHeld, NEW e \in Deliveries, handler[e] = "none",
           handler' = [handler EXCEPT ![e] = "running"], slots' = slots + 1
    PROVE  SlotsAreHeld'
  <1>1. Handling' = Handling \cup {e} /\ e \notin Handling
    BY DEF NatsShape, Handling
  <1>2. IsFiniteSet(Handling')
    BY <1>1, FS_AddElement DEF SlotsAreHeld
  <1>3. Cardinality(Handling') = Cardinality(Handling) + 1
    BY <1>1, FS_AddElement DEF SlotsAreHeld
  <1>. QED
    BY <1>2, <1>3 DEF SlotsAreHeld

\* keeps it while it goes on,
LEMMA SlotKept ==
    ASSUME NatsShape, SlotsAreHeld, NEW e \in Deliveries, handler[e] # "none",
           NEW how \in {"retrying", "forwarding", "acking"},
           handler' = [handler EXCEPT ![e] = how], slots' = slots
    PROVE  SlotsAreHeld'
  <1>1. Handling' = Handling
    BY DEF NatsShape, Handling
  <1>. QED
    BY <1>1 DEF SlotsAreHeld

\* and gives it back when it ends.
LEMMA SlotReturned ==
    ASSUME NatsShape, SlotsAreHeld, NEW e \in Deliveries, handler[e] # "none",
           handler' = [handler EXCEPT ![e] = "none"], slots' = slots - 1
    PROVE  SlotsAreHeld' /\ slots' \in 0..MaxConcurrent
  <1>1. Handling' = Handling \ {e} /\ e \in Handling
    BY DEF NatsShape, Handling
  <1>2. IsFiniteSet(Handling')
    BY <1>1, FS_RemoveElement DEF SlotsAreHeld
  <1>3. Cardinality(Handling') = Cardinality(Handling) - 1
    BY <1>1, FS_RemoveElement DEF SlotsAreHeld
  <1>4. Cardinality(Handling') \in Nat
    BY <1>2, FS_CardinalityType
  <1>5. slots' \in 0..MaxConcurrent
    BY <1>3, <1>4, NatsAssumption DEF SlotsAreHeld, NatsShape
  <1>. QED
    BY <1>2, <1>3, <1>5 DEF SlotsAreHeld

LEMMA SlotsStay ==
    ASSUME SlotsAreHeld, handler' = handler, slots' = slots PROVE SlotsAreHeld'
  <1>1. Handling' = Handling
    BY DEF Handling
  <1>. QED
    BY <1>1 DEF SlotsAreHeld

\* A failure is counted within its bound.
LEMMA MishapsTyped ==
    ASSUME NatsShape, NatsWorks \/ \E k \in NatsKinds \cup Mended : NatsFails(k)
    PROVE  natsFailures' \in 0..MaxNatsFailures /\ mishaps' \in SUBSET NatsKinds
  <1>1. CASE NatsWorks
    BY <1>1 DEF NatsWorks, NatsShape
  <1>2. CASE \E k \in NatsKinds \cup Mended : NatsFails(k)
    <2>1. PICK k \in NatsKinds \cup Mended : NatsFails(k)
      BY <1>2
    <2>2. mishaps' \in SUBSET NatsKinds
      BY <2>1 DEF NatsFails, NatsShape, Mended
    <2>. QED
      BY <2>1, <2>2, NatsAssumption DEF NatsFails, NatsShape
  <1>. QED
    BY <1>1, <1>2

\* A message that is given back has deliveries left when it is ready.
LEMMA ReturnedSlots ==
    ASSUME SlotInv, NEW m \in Copies, Returned(m), deliveries' = deliveries
    PROVE  MsgOK' /\ \A n \in Copies : MayDeliver(n)'
  BY DEF SlotInv, MsgOK, NatsShape, MayDeliver, Returned

\* So has one that is stored.
LEMMA StoredSlots ==
    ASSUME SlotInv, Stored, deliveries' = deliveries
    PROVE  MsgOK' /\ \A n \in Copies : MayDeliver(n)'
  BY NatsAssumption DEF SlotInv, MsgOK, NatsShape, MayDeliver, Stored

\* Steps that begin no goroutine and hold no other message.
LEMMA NoneBegun ==
    ASSUME SlotInv, deliveries' = deliveries, fetched' = fetched \/ fetched' = {},
           \A e \in Deliveries : handler[e] = "none" => handler'[e] = "none"
    PROVE  (\A n \in Copies : NotBegun(n)') /\ (\A m, n \in fetched' : m = n)
  <1>1. ASSUME NEW n \in Copies PROVE NotBegun(n)'
    <2>1. \A k \in 1..MaxDeliver : <<n, k>> \in Deliveries
      BY DeliveryIsPair
    <2>2. deliveries[n] \in 0..MaxDeliver
      BY DEF SlotInv, NatsShape
    <2>. QED
      BY <2>1, <2>2 DEF SlotInv, NotBegun
  <1>. QED
    BY <1>1 DEF SlotInv

LEMMA PublishSlots == ASSUME SlotInv, PublishAttempt PROVE SlotInv'
  <1>1. UNCHANGED <<deliveries, consumer, fetched, slots, handler, finished, dead, deadTries,
                    jobRow, replay>>
    BY DEF PublishAttempt, consumerVars, deadVars
  <1>2. /\ tries' \in 0..PublishRetries /\ publisher' \in {"trying", "told", "failed"}
        /\ NatsWorks \/ NatsFails("publish")
    BY NatsAssumption DEF PublishAttempt, SlotInv, NatsShape
  <1>3. natsFailures' \in 0..MaxNatsFailures /\ mishaps' \in SUBSET NatsKinds
    BY <1>2, MishapsTyped DEF SlotInv, NatsKinds, Mended
  <1>4. MsgOK' /\ \A n \in Copies : MayDeliver(n)'
    <2>1. CASE Stored
      BY <1>1, <2>1, StoredSlots
    <2>2. CASE UNCHANGED msg
      BY <1>1, <2>2 DEF SlotInv, MsgOK, MayDeliver
    <2>. QED
      BY <2>1, <2>2 DEF PublishAttempt
  <1>5. NatsShape'
    BY <1>1, <1>2, <1>3 DEF SlotInv, NatsShape
  <1>. QED
    BY <1>1, <1>4, <1>5, NoneBegun, SlotsStay DEF SlotInv

LEMMA AckWaitSlots == ASSUME SlotInv, NEW m \in Copies, AckWaitEnds(m) PROVE SlotInv'
  <1>1. UNCHANGED <<publisher, tries, deliveries, consumer, fetched, slots, handler, finished, dead,
                    deadTries, jobRow, replay, mishaps, natsFailures>> /\ Returned(m)
    BY DEF AckWaitEnds, publishVars, consumerVars, deadVars, NatsWorks
  <1>2. MsgOK' /\ \A n \in Copies : MayDeliver(n)'
    BY <1>1, ReturnedSlots
  <1>3. NatsShape'
    BY <1>1 DEF SlotInv, NatsShape
  <1>. QED
    BY <1>1, <1>2, <1>3, NoneBegun, SlotsStay DEF SlotInv

\* The pull loop holds a delivery that is new.
LEMMA FetchSlots == ASSUME SlotInv, NEW m \in Copies, FetchMessage(m) PROVE SlotInv'
  <1>1. /\ UNCHANGED <<publisher, tries, consumer, slots, handler, finished, dead,
                       deadTries, jobRow, replay, mishaps, natsFailures>>
        /\ msg' = [msg EXCEPT ![m] = "out"] /\ deliveries' = [deliveries EXCEPT ![m] = @ + 1]
        /\ fetched' = {m} /\ msg[m] = "ready"
    BY DEF FetchMessage, publishVars, consumerVars, deadVars, NatsWorks
  <1>2. deliveries[m] \in Nat /\ deliveries[m] < MaxDeliver /\ NotBegun(m)
    BY <1>1 DEF SlotInv, MayDeliver, NatsShape
  <1>3. MsgOK'
    BY <1>1 DEF SlotInv, MsgOK
  <1>4. NatsShape'
    <2>1. deliveries' \in [Copies -> 0..MaxDeliver]
      BY <1>1, <1>2, NatsAssumption DEF SlotInv, NatsShape
    <2>. QED
      BY <1>1, <2>1 DEF SlotInv, NatsShape
  <1>5. ASSUME NEW n \in Copies PROVE MayDeliver(n)' /\ NotBegun(n)'
    <2>1. CASE n = m
      <3>1. deliveries'[m] = deliveries[m] + 1 /\ msg'[m] = "out"
        BY <1>1 DEF SlotInv, MsgOK, NatsShape
      <3>2. deliveries'[m] \in 1..MaxDeliver
        BY <1>2, <3>1, NatsAssumption
      <3>. QED
        BY <1>1, <1>2, <2>1, <3>1, <3>2 DEF MayDeliver, NotBegun
    <2>2. CASE n # m
      <3>1. deliveries'[n] = deliveries[n] /\ msg'[n] = msg[n] /\ n \notin fetched'
        BY <1>1, <2>2 DEF SlotInv, MsgOK, NatsShape
      <3>. QED
        BY <1>1, <3>1 DEF SlotInv, MayDeliver, NotBegun
    <2>. QED
      BY <2>1, <2>2
  <1>. QED
    BY <1>1, <1>3, <1>4, <1>5, SlotsStay DEF SlotInv

LEMMA DispatchSlots == ASSUME SlotInv, NEW m \in Copies, Dispatch(m) PROVE SlotInv'
  <1>. DEFINE e == <<m, deliveries[m]>>
  <1>1. /\ UNCHANGED <<publisher, tries, msg, deliveries, consumer, finished, dead,
                       deadTries, jobRow, replay, mishaps, natsFailures>>
        /\ m \in fetched /\ fetched' = {} /\ slots < MaxConcurrent /\ slots' = slots + 1
        /\ handler' = [handler EXCEPT ![e] = "running"]
    BY DEF Dispatch, publishVars, deadVars, NatsWorks
  <1>2. deliveries[m] \in 1..MaxDeliver /\ handler[e] = "none"
    BY <1>1, NatsAssumption DEF SlotInv, NotBegun, NatsShape
  <1>3. e \in Deliveries
    BY <1>2, DeliveryIsPair
  <1>4. NatsShape'
    <2>1. slots' \in 0..MaxConcurrent
      BY <1>1, NatsAssumption DEF SlotInv, NatsShape
    <2>2. handler' \in [Deliveries -> {"none", "running", "retrying", "forwarding", "acking"}]
      BY <1>1 DEF SlotInv, NatsShape
    <2>. QED
      BY <1>1, <2>1, <2>2 DEF SlotInv, NatsShape
  <1>5. SlotsAreHeld'
    BY <1>1, <1>2, <1>3, SlotTaken DEF SlotInv
  <1>6. ASSUME NEW n \in Copies PROVE MayDeliver(n)' /\ NotBegun(n)'
    <2>1. deliveries[n] \in Nat
      BY DEF SlotInv, NatsShape
    <2>2. ASSUME NEW k \in 1..MaxDeliver, k > deliveries[n] PROVE handler'[<<n, k>>] = "none"
      <3>1. <<n, k>> # e /\ <<n, k>> \in Deliveries
        BY <1>2, <2>1, <2>2, DeliveryIsPair
      <3>2. handler'[<<n, k>>] = handler[<<n, k>>]
        BY <1>1, <3>1 DEF SlotInv, NatsShape
      <3>. QED
        BY <2>2, <3>2 DEF SlotInv, NotBegun
    <2>. QED
      BY <1>1, <2>2 DEF SlotInv, MayDeliver, NotBegun
  <1>7. MsgOK' /\ \A x, y \in fetched' : x = y
    BY <1>1 DEF SlotInv, MsgOK
  <1>. QED
    BY <1>4, <1>5, <1>6, <1>7 DEF SlotInv

LEMMA GiveBackSlots == ASSUME SlotInv, NEW m \in Copies, GiveBack(m) PROVE SlotInv'
  <1>1. /\ UNCHANGED <<publisher, tries, deliveries, consumer, slots, handler, finished, dead,
                       deadTries, jobRow, replay>>
        /\ fetched' = {}
    BY DEF GiveBack, publishVars, deadVars
  <1>2. natsFailures' \in 0..MaxNatsFailures /\ mishaps' \in SUBSET NatsKinds
    BY MishapsTyped DEF SlotInv, NatsKinds, Mended, GiveBack
  <1>3. MsgOK' /\ \A n \in Copies : MayDeliver(n)'
    <2>1. CASE Returned(m)
      BY <1>1, <2>1, ReturnedSlots
    <2>2. CASE UNCHANGED msg
      BY <1>1, <2>2 DEF SlotInv, MsgOK, MayDeliver
    <2>. QED
      BY <2>1, <2>2 DEF GiveBack
  <1>4. NatsShape'
    BY <1>1, <1>2 DEF SlotInv, NatsShape
  <1>. QED
    BY <1>1, <1>3, <1>4, NoneBegun, SlotsStay DEF SlotInv

\* A goroutine goes on without a change to the stream.
LEMMA HandleJobSlots == ASSUME SlotInv, NEW e \in Deliveries, HandleJob(e) PROVE SlotInv'
  <1>1. UNCHANGED <<publisher, tries, msg, deliveries, consumer, fetched, slots, dead,
                    deadTries, replay, mishaps, natsFailures>>
    BY DEF HandleJob, publishVars, deadVars, NatsWorks
  <1>2. PICK how \in {"retrying", "forwarding", "acking"} : HandlerGoes(e, "running", how)
    BY DEF HandleJob
  <1>3. handler[e] = "running" /\ handler' = [handler EXCEPT ![e] = how]
    BY <1>2 DEF HandlerGoes
  <1>4. finished' \in BOOLEAN /\ jobRow' \in {"InQueue", "other"}
    <2>1. finished' = TRUE \/ finished' = finished
      BY Zenon DEF HandleJob
    <2>2. finished \in BOOLEAN
      BY DEF SlotInv, NatsShape
    <2>3. finished' \in BOOLEAN
      BY Zenon, <2>1, <2>2
    <2>. QED
      BY <2>3 DEF HandleJob, SlotInv, NatsShape
  <1>5. NatsShape'
    <2>1. handler' \in [Deliveries -> {"none", "running", "retrying", "forwarding", "acking"}]
      BY <1>3 DEF SlotInv, NatsShape
    <2>. QED
      BY <1>1, <1>4, <2>1 DEF SlotInv, NatsShape
  <1>6. SlotsAreHeld'
    BY <1>1, <1>3, SlotKept DEF SlotInv
  <1>7. \A d \in Deliveries : handler[d] = "none" => handler'[d] = "none"
    BY <1>3 DEF SlotInv, NatsShape
  <1>8. MsgOK' /\ \A n \in Copies : MayDeliver(n)'
    BY <1>1 DEF SlotInv, MsgOK, MayDeliver
  <1>. QED
    BY <1>1, <1>5, <1>6, <1>7, <1>8, NoneBegun DEF SlotInv

LEMMA ForwardSlots == ASSUME SlotInv, NEW e \in Deliveries, Forward(e) PROVE SlotInv'
  <1>1. /\ UNCHANGED <<publisher, tries, msg, deliveries, consumer, fetched, slots, finished,
                       deadTries, jobRow, replay>>
        /\ handler[e] = "forwarding" /\ handler' = [handler EXCEPT ![e] = "acking"]
    BY DEF Forward, publishVars, HandlerGoes
  <1>2. dead' \in {"none", "queued", "over"}
    BY DEF Forward, SlotInv, NatsShape
  <1>3. natsFailures' \in 0..MaxNatsFailures /\ mishaps' \in SUBSET NatsKinds
    <2>1. CASE NatsWorks \/ NatsFails("dlq")
      BY <2>1, MishapsTyped DEF SlotInv, NatsKinds
    <2>2. CASE natsFailures' = natsFailures /\ \E k \in NatsKinds : mishaps' = mishaps \cup {k}
      BY <2>2 DEF SlotInv, NatsShape
    <2>. QED
      BY <2>1, <2>2 DEF Forward, NatsKinds
  <1>5. NatsShape'
    <2>1. handler' \in [Deliveries -> {"none", "running", "retrying", "forwarding", "acking"}]
      BY <1>1 DEF SlotInv, NatsShape
    <2>. QED
      BY <1>1, <1>2, <1>3, <2>1 DEF SlotInv, NatsShape
  <1>6. SlotsAreHeld'
    BY <1>1, SlotKept DEF SlotInv
  <1>7. \A d \in Deliveries : handler[d] = "none" => handler'[d] = "none"
    BY <1>1 DEF SlotInv, NatsShape
  <1>8. MsgOK' /\ \A n \in Copies : MayDeliver(n)'
    BY <1>1 DEF SlotInv, MsgOK, MayDeliver
  <1>. QED
    BY <1>1, <1>5, <1>6, <1>7, <1>8, NoneBegun DEF SlotInv

\* A goroutine ends, with its answer to the stream.
LEMMA EndSlots ==
    ASSUME SlotInv, NEW e \in Deliveries, Retry(e) \/ AckMessage(e) PROVE SlotInv'
  <1>1. /\ UNCHANGED <<publisher, tries, deliveries, consumer, fetched, finished, dead,
                       deadTries, jobRow, replay>>
        /\ handler[e] \in {"retrying", "acking"} /\ handler' = [handler EXCEPT ![e] = "none"]
        /\ slots' = slots - 1
    BY DEF Retry, AckMessage, publishVars, deadVars, HandlerGoes
  <1>2. natsFailures' \in 0..MaxNatsFailures /\ mishaps' \in SUBSET NatsKinds
    BY MishapsTyped DEF SlotInv, NatsKinds, Mended, Retry, AckMessage
  <1>3. SlotsAreHeld' /\ slots' \in 0..MaxConcurrent
    BY <1>1, SlotReturned DEF SlotInv
  <1>4. e[1] \in Copies
    BY PairOfDelivery
  <1>5. MsgOK' /\ \A n \in Copies : MayDeliver(n)'
    <2>1. CASE Returned(e[1])
      BY <1>1, <1>4, <2>1, ReturnedSlots
    <2>2. CASE UNCHANGED msg
      BY <1>1, <2>2 DEF SlotInv, MsgOK, MayDeliver
    <2>3. CASE msg' = [msg EXCEPT ![e[1]] = "acked"]
      BY <1>1, <1>4, <2>3 DEF SlotInv, MsgOK, MayDeliver
    <2>. QED
      BY <2>1, <2>2, <2>3 DEF Retry, AckMessage
  <1>6. NatsShape'
    <2>1. handler' \in [Deliveries -> {"none", "running", "retrying", "forwarding", "acking"}]
      BY <1>1 DEF SlotInv, NatsShape
    <2>. QED
      BY <1>1, <1>2, <1>3, <2>1 DEF SlotInv, NatsShape
  <1>7. \A d \in Deliveries : handler[d] = "none" => handler'[d] = "none"
    BY <1>1 DEF SlotInv, NatsShape
  <1>. QED
    BY <1>1, <1>3, <1>5, <1>6, <1>7, NoneBegun DEF SlotInv

\* The consumer ends by itself only without goroutines, and otherwise with them.
LEMMA ConsumerSlots ==
    ASSUME SlotInv, StopConsumer \/ ConsumerEnds \/ StartConsumer PROVE SlotInv'
  <1>1. /\ UNCHANGED <<publisher, tries, msg, deliveries, finished, dead, deadTries, jobRow, replay>>
        /\ fetched' = {} \/ fetched' = fetched
        /\ consumer' \in {"down", "pulling", "stopping"}
        /\ slots' = 0 \/ slots' = slots
    BY DEF StopConsumer, ConsumerEnds, StartConsumer, publishVars, deadVars
  <1>2. natsFailures' \in 0..MaxNatsFailures /\ mishaps' \in SUBSET NatsKinds
    BY MishapsTyped DEF SlotInv, NatsKinds, Mended, StopConsumer, ConsumerEnds, StartConsumer
  <1>3. slots' \in 0..MaxConcurrent /\ fetched' \in SUBSET Copies
    BY <1>1, NatsAssumption DEF SlotInv, NatsShape
  <1>. DEFINE Killed == handler' = [e \in Deliveries |-> "none"]
  <1>4. handler' \in [Deliveries -> {"none", "running", "retrying", "forwarding", "acking"}]
        /\ \A e \in Deliveries : handler[e] = "none" => handler'[e] = "none"
    <2>1. CASE Killed
      BY <2>1
    <2>2. CASE UNCHANGED handler
      BY <2>2 DEF SlotInv, NatsShape
    <2>. QED
      BY <2>1, <2>2 DEF StopConsumer, ConsumerEnds, StartConsumer
  <1>5. NatsShape'
    BY <1>1, <1>2, <1>3, <1>4 DEF SlotInv, NatsShape
  <1>6. SlotsAreHeld'
    <2>1. CASE Killed /\ slots' = 0
      <3>1. Handling' = {}
        BY <2>1 DEF Handling
      <3>. QED
        BY <2>1, <3>1, FS_EmptySet DEF SlotsAreHeld
    <2>2. CASE UNCHANGED <<handler, slots>>
      BY <2>2, SlotsStay DEF SlotInv
    <2>. QED
      BY <2>1, <2>2 DEF StopConsumer, ConsumerEnds, StartConsumer
  <1>7. MsgOK' /\ \A n \in Copies : MayDeliver(n)'
    BY <1>1 DEF SlotInv, MsgOK, MayDeliver
  <1>. QED
    BY <1>1, <1>4, <1>5, <1>6, <1>7, NoneBegun DEF SlotInv

\* Dead letters and replays leave the goroutines alone.
LEMMA DeadSlots ==
    ASSUME SlotInv, ProcessDead \/ LoseDead \/ ResetRow \/ ReplayStep \/ ReplayDies
    PROVE  SlotInv'
  <1>. USE DEF ProcessDead, LoseDead, ResetRow, ReplayStep, PublishReplay, UndoReset,
               ReplayDies, publishVars, consumerVars, deadVars
  <1>1. UNCHANGED <<publisher, tries, deliveries, consumer, fetched, slots, handler, finished>>
    OBVIOUS
  <1>2. natsFailures' \in 0..MaxNatsFailures /\ mishaps' \in SUBSET NatsKinds
    BY MishapsTyped DEF SlotInv, NatsKinds, Mended
  <1>3. /\ dead' \in {"none", "queued", "over"}
        /\ deadTries' \in 0..DeadMaxDeliver
        /\ jobRow' \in {"InQueue", "other"}
        /\ replay' \in {"idle", "publishing", "undoing"}
    BY NatsAssumption DEF SlotInv, NatsShape
  <1>4. Stored \/ UNCHANGED msg
    OBVIOUS
  <1>5. MsgOK' /\ \A n \in Copies : MayDeliver(n)'
    <2>1. CASE UNCHANGED msg
      BY <1>1, <2>1 DEF SlotInv, MsgOK, MayDeliver
    <2>. QED
      BY <1>1, <1>4, <2>1, StoredSlots
  <1>6. NatsShape'
    BY <1>1, <1>2, <1>3 DEF SlotInv, NatsShape
  <1>. QED
    BY <1>1, <1>5, <1>6, NoneBegun, SlotsStay DEF SlotInv

LEMMA SlotStepKeeps == ASSUME SlotInv, [NatsNext]_natsVars PROVE SlotInv'
  <1>1. CASE UNCHANGED natsVars
    <2>1. Handling' = Handling
      BY <1>1 DEF natsVars, Handling
    <2>. QED
      BY <1>1, <2>1 DEF natsVars, SlotInv, MsgOK, NatsShape, SlotsAreHeld, MayDeliver, NotBegun
  <1>2. CASE NatsNext
    BY <1>2, PublishSlots, AckWaitSlots, FetchSlots, DispatchSlots, GiveBackSlots, HandleJobSlots,
       ForwardSlots, EndSlots, ConsumerSlots, DeadSlots
       DEF NatsNext, HandlerStep
  <1>. QED
    BY <1>1, <1>2

\* Every variable of NatsQueue keeps its type, and a goroutine that handles a
\* message holds a slot, so that no more than MaxConcurrent run at a time.
THEOREM NatsTypeCorrect == NatsSpec => []NatsTypeOK
  <1>1. SlotInv => NatsTypeOK
    <2>1. ASSUME SlotInv PROVE Cardinality(Handling) <= slots
      <3>1. slots \in Nat /\ Cardinality(Handling) = slots
        BY <2>1, NatsAssumption DEF SlotInv, SlotsAreHeld, NatsShape
      <3>. QED
        BY <3>1
    <2>2. SlotInv => Cardinality({e \in Deliveries : handler[e] # "none"}) <= slots
      BY Zenon, <2>1 DEF Handling
    <2>3. SlotInv => /\ fetched \subseteq Copies
                     /\ mishaps \subseteq {"dlq", "duplicate", "db", "crash"}
      BY DEF SlotInv, NatsShape, NatsKinds
    <2>. QED
      BY Zenon, <2>2, <2>3 DEF SlotInv, MsgOK, NatsShape, NatsTypeOK
  <1>. QED
    BY <1>1, NatsInitSlots, SlotStepKeeps, PTL DEF NatsSpec

\* No slot of the semaphore is lost, whatever ends a handler: as many are taken
\* as goroutines run (the deferred release in the goroutine of processLoop).
THEOREM SlotsReturn == NatsSpec => [](Cardinality(Handling) = slots)
  <1>1. SlotInv => Cardinality(Handling) = slots
    BY DEF SlotInv, SlotsAreHeld
  <1>. QED
    BY <1>1, NatsInitSlots, SlotStepKeeps, PTL DEF NatsSpec

=============================================================================
