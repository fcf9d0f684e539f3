------------------------ MODULE BatchPipelineProofs ------------------------
(***************************************************************************)
(* Proofs about BatchPipeline, for every finite set of submissions, every  *)
(* number of START events, fan-outs, deliveries and failures. The first    *)
(* four theorems hold with every kind of failure; AckedCounted supposes    *)
(* that no database statement fails, and NothingStranded that no job       *)
(* outlives the visibility timeout of its message either. The last ones    *)
(* say what is true up to the first failure, whichever it is, and for ever *)
(* where nothing fails: the counter is exact, and every step is one that   *)
(* the contract of a batch allows.                                         *)
(***************************************************************************)
EXTENDS BatchPipeline, FiniteSetTheorems, TLAPS

-----------------------------------------------------------------------------
(* The operators the steps are built from                                  *)

\* The counter's limit is a positive number.
LEMMA TotalType == Total \in Nat /\ Total > 0
  BY PipelineAssumption, FS_CardinalityType, FS_EmptySet DEF Total

\* The CASE of IncrementCompleted yields a batch status.
LEMMA StatusAfterType ==
  ASSUME NEW c \in Nat
  PROVE  StatusAfter(c) \in BatchStatus
  BY DEF StatusAfter, BatchStatus

\* A row the CASE once called completed stays so while its counter grows, and
\* the CASE says "completed" no later than IsComplete does.
LEMMA StatusAfterMonotone ==
  ASSUME NEW c \in Nat
  PROVE  /\ StatusAfter(c) = "completed" => StatusAfter(c + 1) = "completed"
         /\ IsComplete(c + 1) => StatusAfter(c) = "completed"
         /\ IsComplete(c) => StatusAfter(c) = "completed"
  BY TotalType, PipelineAssumption DEF StatusAfter, IsComplete

\* Writing a status keeps the table of submissions well-formed.
LEMMA WriteStatusType ==
  ASSUME sub \in [Subs -> SubStatus], NEW s \in Subs,
         NEW st \in SubStatus, WriteStatus(s, st)
  PROVE  sub' \in [Subs -> SubStatus]
  BY DEF WriteStatus

-----------------------------------------------------------------------------
(* Type correctness                                                        *)

\* The groups of variables the steps leave unchanged.
USE DEF batchVars, queueVars, startVars

\* A step of the handler of a START event keeps every variable in its type.
LEMMA StartStepType ==
  ASSUME TypeOK, NEW e \in StartEvents, StartStep(e) \/ CrashStart(e)
  PROVE  TypeOK'
  <1> USE PipelineAssumption DEF TypeOK, EvtState, BatchStatus, Works, Fails
  <1>1. CASE StartClaims(e)
    BY <1>1 DEF StartClaims, TakesStart
  <1>2. CASE StartNotPending(e)
    BY <1>2 DEF StartNotPending, TakesStart, SettlesStart
  <1>3. CASE StartClaimFails(e)
    BY <1>3 DEF StartClaimFails, TakesStart
  <1>4. CASE ListSubmissions(e)
    <2> DEFINE rows == {s \in Subs : sub[s] # "Erased"}
    <2>1. rows \in SUBSET Subs
      OBVIOUS
    <2>2. todo' = [todo EXCEPT ![e] = rows] \/ UNCHANGED todo
      BY <1>4 DEF ListSubmissions
    <2> HIDE DEF rows
    <2>3. todo' \in [StartEvents -> SUBSET Subs]
      BY <2>1, <2>2
    <2>4. /\ evt' \in [StartEvents -> EvtState]
          /\ failures' \in 0..MaxFailures
          /\ UNCHANGED <<batchVars, sub, queueVars, att, evtRcv, run, claims>>
      BY <1>4 DEF ListSubmissions
    <2> QED BY <2>3, <2>4
  <1>5. CASE PublishChunk(e)
    BY <1>5 DEF PublishChunk, Enqueue, MsgState
  <1>6. CASE PublishFails(e)
    BY <1>6 DEF PublishFails, Enqueue, MsgState
  <1>7. CASE FanOutDone(e)
    BY <1>7 DEF FanOutDone, SettlesStart
  <1>8. CASE RollBack(e)
    BY <1>8 DEF RollBack, RolledBack
  <1>9. CASE StartReappears(e)
    BY <1>9 DEF StartReappears
  <1>10. CASE StartDies(e)
    BY <1>10 DEF StartDies
  <1>11. CASE CrashStart(e)
    BY <1>11 DEF CrashStart
  <1> QED BY <1>1, <1>2, <1>3, <1>4, <1>5, <1>6, <1>7, <1>8, <1>9, <1>10,
             <1>11 DEF StartStep

\* A step of the job queue or of the drainer does.
LEMMA QueueStepType ==
  ASSUME TypeOK, NEW m \in Messages, QueueStep(m) \/ ReceiveAbandoned(m)
  PROVE  TypeOK'
  <1> USE PipelineAssumption DEF TypeOK, MsgState, AttState, Works, Fails
  <1>0. m[1] \in Subs
    BY DEF Messages
  <1>1. CASE ReceiveJob(m)
    BY <1>1 DEF ReceiveJob, MayReceive, Receives
  <1>2. CASE ReceiveAbandoned(m)
    BY <1>2 DEF ReceiveAbandoned, MayReceive, Receives
  <1>3. CASE VisibilityExpires(m)
    BY <1>3 DEF VisibilityExpires
  <1>4. CASE Redrive(m)
    BY <1>4 DEF Redrive
  <1>5. CASE DrainDeadLetter(m)
    BY <1>5, <1>0, WriteStatusType DEF DrainDeadLetter, SubStatus, Terminal
  <1> QED BY <1>1, <1>2, <1>3, <1>4, <1>5 DEF QueueStep

\* A step of the handler of a job does.
LEMMA AttemptStepType ==
  ASSUME TypeOK, NEW m \in Messages, NEW r \in Receives,
         AttemptStep(m, r) \/ CrashAttempt(m, r)
  PROVE  TypeOK'
  <1> USE PipelineAssumption DEF TypeOK, AttState, Works, Fails
  <1>0. m[1] \in Subs
    BY DEF Messages
  <1>1. CASE AttemptAborts(m, r)
    BY <1>1 DEF AttemptAborts
  <1>2. CASE MarkProcessing(m, r)
    BY <1>2, <1>0, WriteStatusType DEF MarkProcessing, SubStatus
  <1>3. CASE PersistResult(m, r)
    BY <1>3, <1>0, WriteStatusType DEF PersistResult, SubStatus, Terminal
  <1>4. CASE FailJob(m, r)
    BY <1>4, <1>0, WriteStatusType DEF FailJob, SubStatus, Terminal
  <1>5. CASE AdvanceBatch(m, r)
    BY <1>5, StatusAfterType DEF AdvanceBatch
  <1>6. CASE EndJob(m, r)
    <2>1. att' \in [Messages -> [Receives -> AttState]]
      BY <1>6 DEF EndJob
    <2>2. msg' = msg \/ msg' = [msg EXCEPT ![m] = "deleted"]
      BY <1>6 DEF EndJob, DeletedWith
    <2>3. msg' \in [Messages -> MsgState]
      BY <2>2 DEF MsgState
    <2>4. failures' \in 0..MaxFailures
      BY <1>6 DEF EndJob
    <2>5. UNCHANGED <<batchVars, sub, rcv, startVars>>
      BY <1>6 DEF EndJob
    <2> QED BY <2>1, <2>3, <2>4, <2>5
  <1>7. CASE Backoff(m, r)
    BY <1>7 DEF Backoff
  <1>8. CASE CrashAttempt(m, r)
    BY <1>8 DEF CrashAttempt
  <1> QED BY <1>1, <1>2, <1>3, <1>4, <1>5, <1>6, <1>7, <1>8 DEF AttemptStep

\* TypeOK is inductive.
LEMMA TypeStep == TypeOK /\ [Next]_vars => TypeOK'
  <1> SUFFICES ASSUME TypeOK, [Next]_vars PROVE TypeOK'
    OBVIOUS
  <1>1. ASSUME NEW s \in Subs, DeleteSubmission(s) PROVE TypeOK'
    BY <1>1, PipelineAssumption DEF DeleteSubmission, TypeOK, SubStatus, Fails
  <1>2. CASE UNCHANGED vars
    BY <1>2 DEF vars, TypeOK
  <1> QED BY <1>1, <1>2, StartStepType, QueueStepType, AttemptStepType DEF Next

\* Every variable keeps the type its comment gives it: no message is received
\* more often than the redrive policy allows, and every status written is one
\* the models package declares.
THEOREM TypeCorrect == Spec => []TypeOK
  <1>1. Init => TypeOK
    BY PipelineAssumption
    DEF Init, TypeOK, BatchStatus, SubStatus, MsgState, AttState, EvtState
  <1> QED BY <1>1, TypeStep, PTL DEF Spec

-----------------------------------------------------------------------------
(* The batch row                                                           *)

\* What the pipeline does to the batch row: nothing, a claim, a roll-back, or
\* the increment of an advance.
RowKept == UNCHANGED <<bstatus, completed>>
RowClaimed == Claimable(bstatus) /\ bstatus' = "processing" /\ UNCHANGED completed
RowRolledBack == bstatus' = RolledBack(bstatus) /\ UNCHANGED completed
RowAdvanced == completed' = completed + 1 /\ bstatus' = StatusAfter(completed)

\* No statement of the code does anything else to it.
LEMMA RowStep ==
  ASSUME [Next]_vars
  PROVE  RowKept \/ RowClaimed \/ RowRolledBack \/ RowAdvanced
  <1> USE DEF RowKept, RowClaimed, RowRolledBack, RowAdvanced
  <1>1. ASSUME NEW e \in StartEvents, StartStep(e) \/ CrashStart(e)
        PROVE  RowKept \/ RowClaimed \/ RowRolledBack
    BY <1>1 DEF StartStep, StartClaims, StartNotPending, StartClaimFails,
       ListSubmissions, PublishChunk, PublishFails, FanOutDone, RollBack,
       StartReappears, StartDies, CrashStart
  <1>2. ASSUME NEW m \in Messages, QueueStep(m) \/ ReceiveAbandoned(m)
        PROVE  RowKept
    BY <1>2 DEF QueueStep, ReceiveJob, ReceiveAbandoned, VisibilityExpires,
       Redrive, DrainDeadLetter
  <1>3. ASSUME NEW m \in Messages, NEW r \in Receives,
               AttemptStep(m, r) \/ CrashAttempt(m, r)
        PROVE  RowKept \/ RowAdvanced
    BY <1>3 DEF AttemptStep, AttemptAborts, MarkProcessing, PersistResult,
       FailJob, AdvanceBatch, EndJob, Backoff, CrashAttempt
  <1>4. ASSUME NEW s \in Subs, DeleteSubmission(s) PROVE RowKept
    BY <1>4 DEF DeleteSubmission
  <1>5. CASE UNCHANGED vars
    BY <1>5 DEF vars
  <1> QED BY <1>1, <1>2, <1>3, <1>4, <1>5 DEF Next

\* What a status of "completed" says about the counter: the next increment
\* keeps it. CompletedIsFinal is inductive only with it.
CompletedByCase == bstatus = "completed" => StatusAfter(completed) = "completed"

\* An advance keeps CompletedByCase because the CASE is monotone in the
\* counter; claims and roll-backs do not produce "completed".
LEMMA CompletedByCaseStep ==
  ASSUME TypeOK, CompletedByCase, [Next]_vars
  PROVE  CompletedByCase' /\ (bstatus = "completed" => bstatus' = "completed")
  <1> USE DEF CompletedByCase, TypeOK
  <1>1. CASE RowKept
    BY <1>1 DEF RowKept, StatusAfter, Total
  <1>2. CASE RowClaimed
    BY <1>2 DEF RowClaimed, Claimable
  <1>3. CASE RowRolledBack
    BY <1>3 DEF RowRolledBack, RolledBack, StatusAfter, Total
  <1>4. CASE RowAdvanced
    <2>1. StatusAfter(completed') = StatusAfter(completed + 1)
      BY <1>4 DEF RowAdvanced
    <2> QED BY <1>4, <2>1, StatusAfterMonotone DEF RowAdvanced
  <1> QED BY <1>1, <1>2, <1>3, <1>4, RowStep

\* No roll-back, START event or redelivered job reopens a completed batch,
\* whatever fails (MarkPending, MarkProcessing, IncrementCompleted).
THEOREM CompletedStaysCompleted == Spec => CompletedIsFinal
  <1>1. Init => CompletedByCase
    BY DEF Init, CompletedByCase
  <1>2. TypeOK /\ CompletedByCase /\ [Next]_vars =>
            CompletedByCase' /\ [bstatus = "completed" => bstatus' = "completed"]_vars
    BY CompletedByCaseStep
  <1> QED BY <1>1, <1>2, TypeCorrect, PTL DEF Spec, CompletedIsFinal

\* A batch whose counter is full has the status the reconciler looks for, so a
\* webhook whose dispatch was lost is picked up (IncrementCompleted,
\* ListReconcilableBatches).
THEOREM CompleteReconcilable == Spec => []CompleteIsReconcilable
  <1>1. Init => CompleteIsReconcilable
    BY TotalType DEF Init, CompleteIsReconcilable, IsComplete
  <1>2. TypeOK /\ CompleteIsReconcilable /\ [Next]_vars => CompleteIsReconcilable'
    <2> SUFFICES ASSUME TypeOK, CompleteIsReconcilable, [Next]_vars
                 PROVE  CompleteIsReconcilable'
      OBVIOUS
    <2> USE DEF CompleteIsReconcilable, TypeOK
    <2>1. CASE RowKept
      BY <2>1 DEF RowKept, IsComplete, Total
    <2>2. CASE RowClaimed
      BY <2>2 DEF RowClaimed, Claimable, IsComplete, Total
    <2>3. CASE RowRolledBack
      BY <2>3 DEF RowRolledBack, RolledBack, IsComplete, Total
    <2>4. CASE RowAdvanced
      <3>1. IsComplete(completed)' => IsComplete(completed + 1)
        BY <2>4 DEF RowAdvanced, IsComplete, Total
      <3> QED BY <2>4, <3>1, StatusAfterMonotone DEF RowAdvanced
    <2> QED BY <2>1, <2>2, <2>3, <2>4, RowStep
  <1> QED BY <1>1, <1>2, TypeCorrect, PTL DEF Spec

-----------------------------------------------------------------------------
(* The claim                                                               *)

\* A handler is a claimant from MarkProcessing to the end of its fan-out. The
\* status is not "pending" in the meantime: only its own roll-back would make
\* it so, and an advance never does.
LEMMA SingleClaimantStep ==
  ASSUME SingleClaimant, TypeOK, [Next]_vars
  PROVE  SingleClaimant'
  <1> USE DEF SingleClaimant, Claimants
  <1>1. ASSUME NEW e \in StartEvents, StartClaims(e) PROVE SingleClaimant'
    <2>1. Claimants = {}
      BY <1>1 DEF StartClaims, Claimable
    <2>2. /\ bstatus' = "processing"
          /\ evt' = [evt EXCEPT ![e] = "claimed"]
      BY <1>1 DEF StartClaims
    <2>3. \A f \in StartEvents : f # e => evt'[f] = evt[f]
      BY <2>2 DEF TypeOK
    <2> QED BY <2>1, <2>2, <2>3
  <1>2. ASSUME NEW e \in StartEvents, RollBack(e) PROVE SingleClaimant'
    <2>1. Claimants = {e}
      BY <1>2 DEF RollBack
    <2>2. evt' = [evt EXCEPT ![e] = "retry"]
      BY <1>2 DEF RollBack
    <2>3. Claimants' = {}
      BY <2>1, <2>2 DEF TypeOK
    <2> QED BY <2>3
  <1>3. ASSUME NEW e \in StartEvents, StartStep(e) \/ CrashStart(e),
               ~StartClaims(e), ~RollBack(e)
        PROVE  SingleClaimant'
    <2>1. Claimants' \subseteq Claimants
      BY <1>3 DEF TypeOK, StartStep, StartNotPending, StartClaimFails, TakesStart,
         SettlesStart, ListSubmissions, PublishChunk, PublishFails, FanOutDone,
         StartReappears, StartDies, CrashStart
    <2>2. bstatus' = bstatus
      BY <1>3 DEF StartStep, StartNotPending, StartClaimFails, ListSubmissions,
         PublishChunk, PublishFails, FanOutDone, StartReappears, StartDies, CrashStart
    <2> HIDE DEF Claimants
    <2> QED BY <2>1, <2>2
  <1>4. ASSUME UNCHANGED evt, RowKept \/ RowAdvanced PROVE SingleClaimant'
    BY <1>4 DEF RowKept, RowAdvanced, StatusAfter
  <1>5. ASSUME NEW m \in Messages, QueueStep(m) \/ ReceiveAbandoned(m)
        PROVE  SingleClaimant'
    BY <1>5, <1>4 DEF QueueStep, ReceiveJob, ReceiveAbandoned, VisibilityExpires,
       Redrive, DrainDeadLetter, RowKept
  <1>6. ASSUME NEW m \in Messages, NEW r \in Receives,
               AttemptStep(m, r) \/ CrashAttempt(m, r)
        PROVE  SingleClaimant'
    BY <1>6, <1>4 DEF AttemptStep, AttemptAborts, MarkProcessing, PersistResult,
       FailJob, AdvanceBatch, EndJob, Backoff, CrashAttempt, RowKept, RowAdvanced
  <1>7. ASSUME NEW s \in Subs, DeleteSubmission(s) PROVE SingleClaimant'
    BY <1>7, <1>4 DEF DeleteSubmission, RowKept
  <1>8. CASE UNCHANGED vars
    BY <1>8, <1>4 DEF vars, RowKept
  <1> QED BY <1>1, <1>2, <1>3, <1>5, <1>6, <1>7, <1>8 DEF Next

\* Two handlers never fan the same batch out at the same time, however START
\* events are duplicated and redelivered (Starter.Start).
THEOREM OneFanOutAtATime == Spec => []SingleClaimant
  <1>1. Init => SingleClaimant
    BY DEF Init, SingleClaimant, Claimants
  <1>2. SingleClaimant /\ TypeOK /\ [Next]_vars => SingleClaimant'
    BY SingleClaimantStep
  <1> QED BY <1>1, <1>2, TypeCorrect, PTL DEF Spec

-----------------------------------------------------------------------------
(* The counter and the acknowledgements                                    *)

\* A message is answered once the counter has been advanced for it, or it was
\* deleted; AckedJobsAreCounted only speaks of the second.
Answered(m) == msg[m] = "deleted" \/ \E r \in Receives : att[m][r] = "succeeded"
CountedSubs == {s \in Subs : \E m \in Messages : m[1] = s /\ Answered(m)}
AnsweredAreCounted == Cardinality(CountedSubs) <= completed

\* Only AdvanceBatch answers a message, and it answers no other.
LEMMA AnsweredStep ==
  ASSUME TypeOK, [Next]_vars, "db" \notin Faults
  PROVE  \/ /\ completed' = completed
            /\ \A n \in Messages : Answered(n)' => Answered(n)
         \/ /\ completed' = completed + 1
            /\ \E m \in Messages : \A n \in Messages : n # m /\ Answered(n)' => Answered(n)
  <1> USE DEF TypeOK, Answered
  <1> DEFINE Kept == /\ completed' = completed
                     /\ \A n \in Messages : Answered(n)' => Answered(n)
  <1>1. ASSUME NEW e \in StartEvents, StartStep(e) \/ CrashStart(e) PROVE Kept
    <2>1. UNCHANGED <<completed, att>>
      BY <1>1 DEF StartStep, StartClaims, StartNotPending, StartClaimFails,
         ListSubmissions, PublishChunk, PublishFails, FanOutDone, RollBack,
         StartReappears, StartDies, CrashStart
    <2>2. msg' = msg \/ \E C \in SUBSET Subs : Enqueue(C, e)
      BY <1>1 DEF StartStep, StartClaims, StartNotPending, StartClaimFails,
         ListSubmissions, PublishChunk, PublishFails, FanOutDone, RollBack,
         StartReappears, StartDies, CrashStart
    <2>3. \A n \in Messages : msg'[n] = "deleted" => msg[n] = "deleted"
      BY <2>2 DEF Enqueue
    <2> QED BY <2>1, <2>3
  <1>2. ASSUME NEW m \in Messages, QueueStep(m) \/ ReceiveAbandoned(m) PROVE Kept
    <2>1. CASE ReceiveJob(m) \/ ReceiveAbandoned(m)
      BY <2>1 DEF ReceiveJob, ReceiveAbandoned
    <2>2. CASE VisibilityExpires(m) \/ Redrive(m) \/ DrainDeadLetter(m)
      BY <2>2 DEF VisibilityExpires, Redrive, DrainDeadLetter
    <2> QED BY <1>2, <2>1, <2>2 DEF QueueStep
  <1>3. ASSUME NEW m \in Messages, NEW r \in Receives,
               AttemptStep(m, r) \/ CrashAttempt(m, r), ~AdvanceBatch(m, r)
        PROVE  Kept
    <2>1. CASE EndJob(m, r)
      BY <2>1 DEF EndJob, Deletes, DeletedWith
    <2>2. CASE ~EndJob(m, r)
      BY <1>3, <2>2 DEF AttemptStep, AttemptAborts, MarkProcessing, PersistResult,
         FailJob, Backoff, CrashAttempt
    <2> QED BY <2>1, <2>2
  <1>4. ASSUME NEW m \in Messages, NEW r \in Receives, AdvanceBatch(m, r)
        PROVE  /\ completed' = completed + 1
               /\ \A n \in Messages : n # m /\ Answered(n)' => Answered(n)
    BY <1>4 DEF AdvanceBatch, Fails
  <1>5. ASSUME NEW s \in Subs, DeleteSubmission(s) PROVE Kept
    BY <1>5 DEF DeleteSubmission
  <1>6. CASE UNCHANGED vars
    BY <1>6 DEF vars
  <1> QED BY <1>1, <1>2, <1>3, <1>4, <1>5, <1>6 DEF Next

\* So the counter grows with the set it has to cover.
LEMMA AnsweredAreCountedStep ==
  ASSUME TypeOK, [Next]_vars, "db" \notin Faults, AnsweredAreCounted
  PROVE  AnsweredAreCounted'
  <1> USE DEF CountedSubs
  <1>1. IsFiniteSet(CountedSubs) /\ CountedSubs \subseteq Subs
    BY PipelineAssumption, FS_Subset
  <1>2. Cardinality(CountedSubs) \in Nat /\ completed \in Nat
    BY <1>1, FS_CardinalityType DEF TypeOK
  <1>3. CASE /\ completed' = completed
             /\ \A n \in Messages : Answered(n)' => Answered(n)
    <2>1. CountedSubs' \subseteq CountedSubs
      BY <1>3
    <2>2. Cardinality(CountedSubs') \in Nat
      BY <2>1, <1>1, FS_Subset, FS_CardinalityType
    <2>3. Cardinality(CountedSubs') <= Cardinality(CountedSubs)
      BY <2>1, <1>1, FS_Subset
    <2> QED BY <1>2, <1>3, <2>2, <2>3 DEF AnsweredAreCounted
  <1>4. CASE /\ completed' = completed + 1
             /\ \E m \in Messages : \A n \in Messages : n # m /\ Answered(n)' => Answered(n)
    <2>1. PICK m \in Messages : \A n \in Messages : n # m /\ Answered(n)' => Answered(n)
      BY <1>4
    <2> DEFINE more == CountedSubs \cup {m[1]}
    <2>2. CountedSubs' \subseteq more
      BY <2>1
    <2>3. /\ IsFiniteSet(more)
          /\ Cardinality(more) \in {Cardinality(CountedSubs), Cardinality(CountedSubs) + 1}
      BY <1>1, FS_AddElement
    <2>4. /\ Cardinality(CountedSubs') \in Nat
          /\ Cardinality(CountedSubs') <= Cardinality(more)
      BY <2>2, <2>3, FS_Subset, FS_CardinalityType
    <2> QED BY <1>2, <1>4, <2>3, <2>4 DEF AnsweredAreCounted
  <1> QED BY <1>3, <1>4, AnsweredStep

\* As long as IncrementCompleted does not fail, a submission whose message was
\* deleted as processed is counted: crashes, lost acknowledgements, slow jobs
\* and retries can count it twice, never leave it out (processJob returns nil
\* only after advanceBatch, Consumer.process deletes only then).
THEOREM AckedCounted ==
  ASSUME "db" \notin Faults
  PROVE  Spec => []AckedJobsAreCounted
  <1>1. Init => AnsweredAreCounted
    <2> SUFFICES ASSUME Init PROVE AnsweredAreCounted
      OBVIOUS
    <2>1. CountedSubs = {}
      BY DEF Init, CountedSubs, Answered
    <2> QED BY <2>1, FS_EmptySet DEF Init, AnsweredAreCounted
  <1>2. TypeOK /\ AnsweredAreCounted /\ [Next]_vars => AnsweredAreCounted'
    BY AnsweredAreCountedStep
  <1>3. TypeOK /\ AnsweredAreCounted => AckedJobsAreCounted
    <2> SUFFICES ASSUME TypeOK, AnsweredAreCounted PROVE AckedJobsAreCounted
      OBVIOUS
    <2> DEFINE acked == {s \in Subs : \E m \in Messages : m[1] = s /\ msg[m] = "deleted"}
    <2>1. acked \subseteq CountedSubs
      BY DEF CountedSubs, Answered
    <2>2. IsFiniteSet(CountedSubs)
      BY PipelineAssumption, FS_Subset DEF CountedSubs
    <2>3. Cardinality(acked) <= Cardinality(CountedSubs)
      BY <2>1, <2>2, FS_Subset
    <2>4. Cardinality(acked) \in Nat /\ Cardinality(CountedSubs) \in Nat /\ completed \in Nat
      BY <2>1, <2>2, FS_Subset, FS_CardinalityType DEF TypeOK
    <2> QED BY <2>3, <2>4 DEF AnsweredAreCounted, AckedJobsAreCounted
  <1> QED BY <1>1, <1>2, <1>3, TypeCorrect, PTL DEF Spec

-----------------------------------------------------------------------------
(* The messages of a fan-out and their handlers                            *)

\* The claimant performs the latest fan-out, and what it has yet to send was
\* never sent: a fan-out sends a message once.
FreshFanOut ==
    /\ \A m \in Messages : m[2] > claims => msg[m] = "unsent"
    /\ \A e \in Claimants : run[e] = claims
    /\ \A e \in StartEvents, m \in Messages :
         /\ m[2] = claims
         /\ evt[e] = "claimed" \/ (evt[e] = "publishing" /\ m[1] \in todo[e])
         => msg[m] = "unsent"

\* The messages a step puts in the job queue were never there before.
SentOnce == \A m \in Messages : msg'[m] = msg[m] \/ (msg[m] = "unsent" /\ msg'[m] = "visible")

\* A chunk of the claimant consists of such messages (Publisher.sendChunk).
LEMMA EnqueueSends ==
  ASSUME TypeOK, FreshFanOut, NEW e \in StartEvents, evt[e] = "publishing",
         NEW C \in SUBSET todo[e], Enqueue(C, e)
  PROVE  SentOnce
  <1>1. run[e] = claims
    BY DEF FreshFanOut, Claimants
  <1>2. \A m \in Messages : m[1] \in C /\ m[2] = run[e] => msg[m] = "unsent"
    BY <1>1 DEF FreshFanOut
  <1> QED BY <1>2 DEF Enqueue, SentOnce, TypeOK

\* Handlers of START events only ever add messages to the job queue.
LEMMA StartStepSendsOnce ==
  ASSUME TypeOK, FreshFanOut, NEW e \in StartEvents, StartStep(e) \/ CrashStart(e)
  PROVE  SentOnce /\ UNCHANGED <<rcv, att>> /\ sub' = sub
  <1>1. CASE PublishChunk(e)
    BY <1>1, EnqueueSends DEF PublishChunk
  <1>2. CASE PublishFails(e)
    <2>1. PICK C \in SUBSET todo[e], Sent \in SUBSET Subs : Sent \subseteq C /\ Enqueue(Sent, e)
      BY <1>2 DEF PublishFails
    <2>2. Sent \in SUBSET todo[e]
      BY <2>1
    <2> QED BY <1>2, <2>1, <2>2, EnqueueSends DEF PublishFails
  <1>3. CASE ~PublishChunk(e) /\ ~PublishFails(e)
    BY <1>3 DEF StartStep, StartClaims, StartNotPending, StartClaimFails, ListSubmissions,
       FanOutDone, RollBack, StartReappears, StartDies, CrashStart, SentOnce
  <1> QED BY <1>1, <1>2, <1>3

\* The job queue and the handlers of jobs never make a message unsent or
\* touch one that is.
LEMMA FreshFrame ==
  ASSUME FreshFanOut, UNCHANGED startVars,
         \A m \in Messages : msg[m] = "unsent" => msg'[m] = "unsent"
  PROVE  FreshFanOut'
  BY DEF FreshFanOut, Claimants

\* FreshFanOut is inductive: a claim opens a new fan-out, which nobody else
\* works on, and a published chunk leaves the list of what is to be sent.
LEMMA FreshFanOutStep ==
  ASSUME TypeOK, SingleClaimant, FreshFanOut, [Next]_vars
  PROVE  FreshFanOut'
  <1>1. ASSUME NEW e \in StartEvents, StartClaims(e) PROVE FreshFanOut'
    <2>1. Claimants = {}
      BY <1>1 DEF StartClaims, Claimable, SingleClaimant
    <2>2. /\ claims \in Nat /\ claims' = claims + 1 /\ msg' = msg
          /\ run' = [run EXCEPT ![e] = claims + 1]
          /\ evt' = [evt EXCEPT ![e] = "claimed"]
      BY <1>1, PipelineAssumption DEF StartClaims, TypeOK
    <2>3. Claimants' = {e} /\ run'[e] = claims'
      BY <2>1, <2>2 DEF Claimants, TypeOK
    <2>4. \A m \in Messages : m[2] \in Nat
      BY PipelineAssumption DEF Messages
    <2>5. \A f \in StartEvents : evt'[f] \in {"claimed", "publishing"} => f = e
      BY <2>3 DEF Claimants
    <2> QED BY <2>2, <2>3, <2>4, <2>5 DEF FreshFanOut
  <1>2. ASSUME NEW e \in StartEvents, StartStep(e) \/ CrashStart(e), ~StartClaims(e)
        PROVE FreshFanOut'
    <2> USE DEF TypeOK
    <2>1. claims' = claims
      BY <1>2 DEF StartStep, StartNotPending, StartClaimFails, ListSubmissions, PublishChunk,
         PublishFails, FanOutDone, RollBack, StartReappears, StartDies, CrashStart
    <2>2. CASE PublishChunk(e)
      <3>1. PICK C \in SUBSET todo[e] : Enqueue(C, e) /\ todo' = [todo EXCEPT ![e] = @ \ C]
        BY <2>2 DEF PublishChunk
      <3>2. evt' = evt /\ run' = run /\ evt[e] = "publishing" /\ run[e] = claims
        BY <2>2 DEF PublishChunk, FreshFanOut, Claimants
      <3>3. \A f \in Claimants : f = e
        BY <3>2 DEF SingleClaimant, Claimants
      <3>4. \A f \in StartEvents : evt[f] \in {"claimed", "publishing"} => f = e
        BY <3>3 DEF Claimants
      <3>5. \A m \in Messages : m[1] \notin C \/ m[2] # claims => msg'[m] = msg[m]
        BY <3>1, <3>2 DEF Enqueue
      <3>6. \A m \in Messages : m[2] > claims => m[2] # claims
        BY PipelineAssumption DEF Messages
      <3>7. todo'[e] = todo[e] \ C
        BY <3>1
      <3>8. \A m \in Messages : m[2] > claims => msg'[m] = "unsent"
        BY <3>5, <3>6 DEF FreshFanOut
      <3>9. ASSUME NEW f \in StartEvents, NEW m \in Messages, m[2] = claims,
                   evt[f] = "claimed" \/ (evt[f] = "publishing" /\ m[1] \in todo'[f])
            PROVE  msg'[m] = "unsent"
        <4>1. f = e /\ m[1] \in todo[e] /\ m[1] \notin C
          BY <3>9, <3>4, <3>2, <3>7
        <4> QED BY <4>1, <3>9, <3>5, <3>2 DEF FreshFanOut
      <3> QED BY <2>1, <3>2, <3>8, <3>9 DEF FreshFanOut, Claimants
    <2>3. CASE PublishFails(e)
      <3>1. PICK Sent \in SUBSET Subs : Enqueue(Sent, e)
        BY <2>3 DEF PublishFails
      <3>2. /\ evt' = [evt EXCEPT ![e] = "rollback"] /\ run' = run /\ todo' = todo
            /\ evt[e] = "publishing" /\ run[e] = claims
        BY <2>3 DEF PublishFails, FreshFanOut, Claimants
      <3>3. \A f \in StartEvents : evt'[f] \notin {"claimed", "publishing"}
        BY <3>2 DEF SingleClaimant, Claimants
      <3>4. \A m \in Messages : m[2] > claims => msg'[m] = msg[m]
        BY <3>1, <3>2, PipelineAssumption DEF Enqueue, Messages
      <3>5. Claimants' \subseteq Claimants
        BY <3>2 DEF Claimants
      <3> QED BY <2>1, <3>2, <3>3, <3>4, <3>5 DEF FreshFanOut
    <2>4. CASE ~PublishChunk(e) /\ ~PublishFails(e)
      <3>1. msg' = msg
        BY <1>2, <2>4 DEF StartStep, StartNotPending, StartClaimFails, ListSubmissions,
           FanOutDone, RollBack, StartReappears, StartDies, CrashStart
      <3>2. \A f \in StartEvents : f # e =>
              evt'[f] = evt[f] /\ run'[f] = run[f] /\ todo'[f] = todo[f]
        BY <1>2, <2>4 DEF StartStep, StartNotPending, StartClaimFails, TakesStart, SettlesStart,
           ListSubmissions, FanOutDone, RollBack, StartReappears, StartDies, CrashStart
      <3>3. \/ evt'[e] \in {"consumed", "retry", "visible", "dead"}
            \/ /\ evt[e] = "claimed" /\ evt'[e] \in {"publishing", "rollback"}
               /\ run'[e] = run[e]
        BY <1>2, <2>4 DEF StartStep, StartNotPending, StartClaimFails, TakesStart, SettlesStart,
           ListSubmissions, FanOutDone, RollBack, StartReappears, StartDies, CrashStart
      <3>4. \A f \in Claimants' : run'[f] = claims
        BY <3>2, <3>3 DEF FreshFanOut, Claimants
      <3>5. \A f \in StartEvents, m \in Messages :
              /\ m[2] = claims
              /\ evt'[f] = "claimed" \/ (evt'[f] = "publishing" /\ m[1] \in todo'[f])
              => msg[m] = "unsent"
        BY <3>2, <3>3 DEF FreshFanOut
      <3> QED BY <2>1, <3>1, <3>4, <3>5 DEF FreshFanOut
    <2> QED BY <2>2, <2>3, <2>4
  <1>3. ASSUME NEW m \in Messages, QueueStep(m) \/ ReceiveAbandoned(m) PROVE FreshFanOut'
    BY <1>3, FreshFrame DEF TypeOK, QueueStep, ReceiveJob, ReceiveAbandoned, MayReceive,
       VisibilityExpires, Redrive, DeadLettered, DrainDeadLetter
  <1>4. ASSUME NEW m \in Messages, NEW r \in Receives,
               AttemptStep(m, r) \/ CrashAttempt(m, r)
        PROVE  FreshFanOut'
    BY <1>4, FreshFrame DEF TypeOK, AttemptStep, AttemptAborts, MarkProcessing, PersistResult,
       FailJob, AdvanceBatch, EndJob, DeletedWith, Backoff, CrashAttempt
  <1>5. ASSUME NEW s \in Subs, DeleteSubmission(s) PROVE FreshFanOut'
    BY <1>5, FreshFrame DEF DeleteSubmission
  <1>6. CASE UNCHANGED vars
    BY <1>6, FreshFrame DEF vars
  <1> QED BY <1>1, <1>2, <1>3, <1>4, <1>5, <1>6 DEF Next

-----------------------------------------------------------------------------
(* Submissions in progress                                                 *)

\* Unless a handler outlives the visibility timeout, it is the only one of its
\* message, which nobody else can receive.
OneHandler ==
    \A m \in Messages, r \in Receives :
        att[m][r] \in Active => msg[m] = "inflight" /\ rcv[m] = r

\* What keeps a Processing submission from being stranded is a message that
\* will come back and none of whose handlers has a result: a handler with a
\* result has written it over the Processing.
HasResult == {"judged", "failing", "succeeded", "errored"}
Carries(m, s) ==
    /\ m[1] = s
    /\ msg[m] \in {"visible", "inflight", "dead"}
    /\ \A r \in Receives : att[m][r] \notin HasResult
Carried == \A s \in Subs : sub[s] = "Processing" => \E m \in Messages : Carries(m, s)

\* A step of the handler of a START event keeps both: it only sends messages.
LEMMA StartStepCarries ==
  ASSUME TypeOK, FreshFanOut, OneHandler, Carried,
         NEW e \in StartEvents, StartStep(e) \/ CrashStart(e)
  PROVE  OneHandler' /\ Carried'
  <1>1. SentOnce /\ UNCHANGED <<rcv, att>> /\ sub' = sub
    BY StartStepSendsOnce
  <1>2. OneHandler'
    BY <1>1 DEF SentOnce, OneHandler
  <1>3. \A m \in Messages, s \in Subs : Carries(m, s) => Carries(m, s)'
    BY <1>1 DEF SentOnce, Carries
  <1> QED BY <1>1, <1>2, <1>3 DEF Carried

\* A step of the job queue keeps both: a message is not received while a
\* handler has it, and a drained one has its submission out of Processing.
LEMMA QueueStepCarries ==
  ASSUME TypeOK, OneHandler, Carried, "slow" \notin Faults,
         NEW m \in Messages, QueueStep(m) \/ ReceiveAbandoned(m)
  PROVE  OneHandler' /\ Carried'
  <1> USE DEF TypeOK
  <1>1. CASE ReceiveJob(m) \/ ReceiveAbandoned(m)
    <2> DEFINE new == rcv[m] + 1
    <2>1. /\ msg[m] = "visible" /\ new \in Receives
          /\ msg' = [msg EXCEPT ![m] = "inflight"]
          /\ rcv' = [rcv EXCEPT ![m] = new]
          /\ \/ att' = [att EXCEPT ![m][new] = "received"]
             \/ att' = [att EXCEPT ![m][new] = "over"]
          /\ sub' = sub
      BY <1>1, PipelineAssumption DEF ReceiveJob, ReceiveAbandoned, MayReceive, Receives
    <2>2. \A r \in Receives : att[m][r] \notin Active
      BY <2>1 DEF OneHandler
    <2>3. OneHandler'
      BY <2>1, <2>2 DEF OneHandler
    <2>4. \A n \in Messages, s \in Subs : Carries(n, s) => Carries(n, s)'
      BY <2>1 DEF Carries, HasResult
    <2> QED BY <2>1, <2>3, <2>4 DEF Carried
  <1>2. CASE VisibilityExpires(m) \/ Redrive(m)
    <2>1. /\ \A r \in Receives : att[m][r] \notin Active
          /\ UNCHANGED <<sub, rcv, att>>
          /\ msg' = [msg EXCEPT ![m] = "visible"] \/ msg' = [msg EXCEPT ![m] = "dead"]
      BY <1>2 DEF VisibilityExpires, Redrive, DeadLettered, Fails, OneHandler, Active
    <2>2. OneHandler'
      BY <2>1 DEF OneHandler
    <2>3. \A n \in Messages, s \in Subs : Carries(n, s) => Carries(n, s)'
      BY <2>1 DEF Carries
    <2> QED BY <2>1, <2>2, <2>3 DEF Carried
  <1>3. CASE DrainDeadLetter(m)
    <2>1. /\ msg[m] = "dead" /\ m[1] \in Subs /\ sub[m[1]] # "Erased"
          /\ UNCHANGED <<rcv, att>>
          /\ sub' = [sub EXCEPT ![m[1]] = "InternalError"]
          /\ msg' = [msg EXCEPT ![m] = "drained"] \/ msg' = msg
      BY <1>3 DEF DrainDeadLetter, Recordable, WriteStatus, Messages
    <2>2. OneHandler'
      BY <2>1 DEF OneHandler
    <2>3. \A n \in Messages, s \in Subs : s # m[1] /\ Carries(n, s) => Carries(n, s)'
      BY <2>1 DEF Carries
    <2> QED BY <2>1, <2>2, <2>3 DEF Carried
  <1> QED BY <1>1, <1>2, <1>3 DEF QueueStep

\* A step of the handler of a job keeps both: it marks a submission Processing
\* while its message is in flight, and deletes a message with a result only.
LEMMA AttemptStepCarries ==
  ASSUME TypeOK, OneHandler, Carried, "db" \notin Faults,
         NEW m \in Messages, NEW r \in Receives,
         AttemptStep(m, r) \/ CrashAttempt(m, r)
  PROVE  OneHandler' /\ Carried'
  <1> USE DEF TypeOK, Active, HasResult
  <1>0. m[1] \in Subs
    BY DEF Messages
  <1>1. att[m][r] \in Active /\ msg[m] = "inflight" /\ rcv[m] = r
    BY DEF OneHandler, AttemptStep, AttemptAborts, MarkProcessing, PersistResult, FailJob,
       AdvanceBatch, EndJob, Deletes, Backoff, CrashAttempt
  <1>2. \A q \in Receives : q # r => att[m][q] \notin Active
    BY <1>1 DEF OneHandler
  <1>3. CASE MarkProcessing(m, r)
    <2>1. /\ att' = [att EXCEPT ![m][r] = "running"] /\ UNCHANGED <<msg, rcv>>
          /\ sub' = [sub EXCEPT ![m[1]] = "Processing"]
      BY <1>3 DEF MarkProcessing, WriteStatus
    <2>2. OneHandler'
      BY <1>1, <2>1 DEF OneHandler
    <2>3. Carries(m, m[1])'
      BY <1>1, <1>2, <2>1 DEF Carries
    <2>4. \A n \in Messages, s \in Subs : n # m /\ Carries(n, s) => Carries(n, s)'
      BY <2>1 DEF Carries
    <2>5. \A s \in Subs : Carries(m, s) => s = m[1]
      BY DEF Carries
    <2> QED BY <2>1, <2>2, <2>3, <2>4, <2>5 DEF Carried
  <1>4. CASE PersistResult(m, r) \/ FailJob(m, r)
    <2>1. /\ att' = [att EXCEPT ![m][r] = "judged"] \/ att' = [att EXCEPT ![m][r] = "failing"]
          /\ UNCHANGED <<msg, rcv>>
          /\ sub'[m[1]] # "Processing"
          /\ \A s \in Subs : s # m[1] => sub'[s] = sub[s]
      BY <1>4, <1>0 DEF PersistResult, FailJob, WriteStatus, Fails
    <2>2. OneHandler'
      BY <1>1, <2>1 DEF OneHandler
    <2>3. \A n \in Messages, s \in Subs : s # m[1] /\ Carries(n, s) => Carries(n, s)'
      BY <2>1 DEF Carries
    <2> QED BY <2>1, <2>2, <2>3 DEF Carried
  <1>5. CASE AttemptAborts(m, r) \/ Backoff(m, r) \/ CrashAttempt(m, r) \/ AdvanceBatch(m, r)
    <2>1. /\ \/ att' = [att EXCEPT ![m][r] = "over"]
             \/ /\ att[m][r] \in HasResult
                /\ \/ att' = [att EXCEPT ![m][r] = "succeeded"]
                   \/ att' = [att EXCEPT ![m][r] = "errored"]
          /\ UNCHANGED <<msg, rcv, sub>>
      BY <1>5 DEF AttemptAborts, Backoff, CrashAttempt, AdvanceBatch
    <2>2. OneHandler'
      BY <1>1, <2>1 DEF OneHandler
    <2>3. \A n \in Messages : n # m => att'[n] = att[n]
      BY <2>1
    <2>4. ASSUME att[m][r] \notin HasResult
          PROVE  \A q \in Receives : att[m][q] \notin HasResult => att'[m][q] \notin HasResult
      BY <2>1, <2>4
    <2>5. \A n \in Messages, s \in Subs : Carries(n, s) => Carries(n, s)'
      <3> HIDE DEF HasResult
      <3> QED BY <2>1, <2>3, <2>4 DEF Carries
    <2> QED BY <2>1, <2>2, <2>5 DEF Carried
  <1>6. CASE EndJob(m, r)
    <2>1. /\ att[m][r] = "succeeded" /\ att' = [att EXCEPT ![m][r] = "over"]
          /\ msg' = [msg EXCEPT ![m] = "deleted"] \/ msg' = msg
          /\ UNCHANGED <<rcv, sub>>
      BY <1>6 DEF EndJob, Deletes, DeletedWith
    <2>2. OneHandler'
      BY <1>1, <1>2, <2>1 DEF OneHandler
    <2>3. \A n \in Messages, s \in Subs : Carries(n, s) => n # m
      BY <2>1 DEF Carries
    <2>4. \A n \in Messages, s \in Subs : Carries(n, s) => Carries(n, s)'
      BY <2>1, <2>3 DEF Carries
    <2> QED BY <2>1, <2>2, <2>4 DEF Carried
  <1> QED BY <1>3, <1>4, <1>5, <1>6 DEF AttemptStep

\* Where no database statement fails and no job outlives the visibility
\* timeout, no crash, lost acknowledgement, failed publish or failing job
\* leaves a submission Processing with no message to bring it further, not
\* even with two fan-outs of the batch in the queue (Worker.processJob,
\* Consumer.process, DLQDrainer.handle).
THEOREM NothingStranded ==
  ASSUME "db" \notin Faults, "slow" \notin Faults
  PROVE  Spec => []NoStrandedSubmission
  <1>1. Init => FreshFanOut /\ OneHandler /\ Carried
    BY DEF Init, FreshFanOut, Claimants, OneHandler, Active, Carried
  <1>2. TypeOK /\ SingleClaimant /\ FreshFanOut /\ [Next]_vars => FreshFanOut'
    BY FreshFanOutStep
  <1>3. TypeOK /\ FreshFanOut /\ OneHandler /\ Carried /\ [Next]_vars
          => OneHandler' /\ Carried'
    <2> SUFFICES ASSUME TypeOK, FreshFanOut, OneHandler, Carried, [Next]_vars
                 PROVE  OneHandler' /\ Carried'
      OBVIOUS
    <2>1. ASSUME NEW s \in Subs, DeleteSubmission(s) PROVE OneHandler' /\ Carried'
      <3>1. UNCHANGED <<msg, rcv, att>> /\ \A q \in Subs : sub'[q] \in {sub[q], "Erased"}
        BY <2>1 DEF DeleteSubmission, TypeOK
      <3>2. OneHandler'
        BY <3>1 DEF OneHandler
      <3>3. \A m \in Messages, q \in Subs : Carries(m, q)' <=> Carries(m, q)
        BY <3>1 DEF Carries
      <3> QED BY <3>1, <3>2, <3>3 DEF Carried
    <2>2. CASE UNCHANGED vars
      BY <2>2 DEF vars, OneHandler, Carried, Carries
    <2> QED BY <2>1, <2>2, StartStepCarries, QueueStepCarries, AttemptStepCarries DEF Next
  <1>4. Carried => NoStrandedSubmission
    BY DEF Carried, Carries, NoStrandedSubmission
  <1> QED BY <1>1, <1>2, <1>3, <1>4, TypeCorrect, OneFanOutAtATime, PTL DEF Spec

-----------------------------------------------------------------------------
(* Until the first failure                                                 *)

\* The only message of a submission while nothing fails, and its only handler.
First(s) == <<s, 1>>
Handler(s) == att[First(s)][1]

\* One submission on its way: queued, received, run, judged, acknowledged.
ExactlyOnce(s) ==
    \/ /\ msg[First(s)] \in {"unsent", "visible"} /\ rcv[First(s)] = 0
       /\ Handler(s) = "none" /\ sub[s] = "InQueue"
    \/ /\ msg[First(s)] = "inflight" /\ rcv[First(s)] = 1
       /\ \/ Handler(s) = "received" /\ sub[s] = "InQueue"
          \/ Handler(s) = "running" /\ sub[s] = "Processing"
          \/ Handler(s) \in {"judged", "succeeded"} /\ sub[s] = "Judged"
    \/ /\ msg[First(s)] = "deleted" /\ rcv[First(s)] = 1
       /\ Handler(s) = "over" /\ sub[s] = "Judged"

\* There is one fan-out, no other message and no other delivery.
OneFanOut ==
    /\ claims \in {0, 1}
    /\ bstatus = "pending" <=> claims = 0
    /\ \A e \in StartEvents : evt[e] # "rollback"
    /\ \A m \in Messages, r \in Receives :
         m[2] # 1 \/ r # 1 => att[m][r] = "none"

\* The counter is the number of submissions a handler advanced the batch for,
\* and the webhook was fired when it became full.
AdvancedSubs == {s \in Subs : Handler(s) \in {"succeeded", "over"}}
ExactCounter ==
    /\ completed = Cardinality(AdvancedSubs)
    /\ fired = IF completed >= Total THEN 1 ELSE 0

\* FreshFanOut says that the messages of later fan-outs are unsent.
NoFailureYet == OneFanOut /\ (\A s \in Subs : ExactlyOnce(s)) /\ ExactCounter

\* What is true of the first message of a submission.
LEMMA FirstMessage ==
  /\ 1 \in Receives
  /\ \A s \in Subs : First(s) \in Messages /\ First(s)[1] = s /\ First(s)[2] = 1
  /\ \A m \in Messages : m[1] \in Subs /\ m[2] \in Nat /\ m[2] >= 1
  /\ \A m \in Messages : m[2] = 1 => m = First(m[1])
  BY PipelineAssumption DEF Receives, Messages, First

\* A message that was sent is the first of its submission.
LEMMA SentIsFirst ==
  ASSUME FreshFanOut, OneFanOut, NEW m \in Messages, msg[m] # "unsent"
  PROVE  m[2] = 1
  <1>1. ~(m[2] > claims)
    BY DEF FreshFanOut
  <1> QED BY <1>1, FirstMessage DEF OneFanOut

\* A handler at work is the first one of the first message.
LEMMA AtWorkIsFirst ==
  ASSUME OneFanOut, NEW m \in Messages, NEW r \in Receives, att[m][r] # "none"
  PROVE  r = 1 /\ m = First(m[1]) /\ m[1] \in Subs /\ Handler(m[1]) = att[m][r]
  BY FirstMessage DEF OneFanOut, Handler

\* A step that does not touch the handlers keeps the counter exact.
LEMMA CounterFrame ==
  ASSUME UNCHANGED <<completed, fired>>, ExactCounter,
         \A s \in Subs : (s \in AdvancedSubs)' <=> s \in AdvancedSubs
  PROVE  ExactCounter'
  <1>1. AdvancedSubs' = AdvancedSubs
    BY DEF AdvancedSubs
  <1> QED BY <1>1 DEF ExactCounter, Total

\* While nothing fails, the handler of a START event claims the batch once or
\* finds it claimed, and puts fresh messages in the job queue.
LEMMA StartStepExact ==
  ASSUME TypeOK, SingleClaimant, FreshFanOut, NoFailureYet, failures = 0, failures' = 0,
         NEW e \in StartEvents, StartStep(e) \/ CrashStart(e)
  PROVE  NoFailureYet' /\ sub' = sub /\ fired' = fired
                       /\ (bstatus = "pending" \/ bstatus' = bstatus)
  <1> USE DEF NoFailureYet, TypeOK
  <1>1. SentOnce /\ UNCHANGED <<rcv, att>> /\ sub' = sub
    BY StartStepSendsOnce
  <1>2. UNCHANGED <<completed, fired>>
    BY DEF StartStep, StartClaims, StartNotPending, StartClaimFails, ListSubmissions,
       PublishChunk, PublishFails, FanOutDone, RollBack, StartReappears, StartDies, CrashStart
  <1>3. ExactCounter'
    BY <1>1, <1>2, CounterFrame DEF AdvancedSubs, Handler
  <1>4. \A s \in Subs : ExactlyOnce(s)'
    BY <1>1, FirstMessage DEF SentOnce, ExactlyOnce, Handler
  <1>5. OneFanOut' /\ (bstatus = "pending" \/ bstatus' = bstatus)
    <2>1. CASE StartClaims(e)
      BY <1>1, <2>1 DEF StartClaims, Claimable, OneFanOut
    <2>2. CASE ~StartClaims(e)
      <3>1. UNCHANGED <<bstatus, claims>>
        BY <2>2 DEF OneFanOut, StartStep, StartNotPending, StartClaimFails, ListSubmissions,
           PublishChunk, PublishFails, FanOutDone, RollBack, StartReappears, StartDies,
           CrashStart
      <3>2. \A f \in StartEvents : evt'[f] # "rollback"
        BY <2>2 DEF OneFanOut, StartStep, StartNotPending, StartClaimFails, TakesStart,
           SettlesStart, ListSubmissions, PublishChunk, PublishFails, FanOutDone, RollBack,
           StartReappears, StartDies, CrashStart, Fails
      <3> QED BY <1>1, <3>1, <3>2 DEF OneFanOut
    <2> QED BY <2>1, <2>2
  <1> QED BY <1>1, <1>2, <1>3, <1>4, <1>5

\* While nothing fails, the job queue delivers a message once.
LEMMA QueueStepExact ==
  ASSUME TypeOK, FreshFanOut, NoFailureYet, failures = 0, failures' = 0,
         NEW m \in Messages, QueueStep(m) \/ ReceiveAbandoned(m)
  PROVE  NoFailureYet' /\ UNCHANGED <<batchVars, sub>>
  <1> USE DEF NoFailureYet, TypeOK
  <1>1. CASE ReceiveJob(m)
    <2>1. m[2] = 1 /\ m = First(m[1]) /\ m[1] \in Subs
      BY <1>1, SentIsFirst, FirstMessage DEF ReceiveJob, MayReceive
    <2>2. /\ rcv[m] = 0 /\ att[m][1] = "none" /\ sub[m[1]] = "InQueue"
          /\ \A r \in Receives : att[m][r] = "none"
      BY <1>1, <2>1, FirstMessage DEF ReceiveJob, MayReceive, ExactlyOnce, Handler, OneFanOut
    <2>3. /\ msg' = [msg EXCEPT ![m] = "inflight"]
          /\ rcv' = [rcv EXCEPT ![m] = 1]
          /\ att' = [att EXCEPT ![m][1] = "received"]
          /\ UNCHANGED <<batchVars, sub, startVars>>
      BY <1>1, <2>2 DEF ReceiveJob
    <2>4. /\ msg'[m] = "inflight" /\ rcv'[m] = 1 /\ att'[m][1] = "received"
          /\ \A r \in Receives : r # 1 => att'[m][r] = "none"
          /\ \A n \in Messages : n # m => /\ msg'[n] = msg[n] /\ rcv'[n] = rcv[n]
                                          /\ att'[n] = att[n]
      BY <2>2, <2>3, FirstMessage
    <2>5. \A s \in Subs : ExactlyOnce(s)'
      <3> TAKE s \in Subs
      <3>1. CASE s = m[1]
        BY <3>1, <2>1, <2>2, <2>3, <2>4 DEF ExactlyOnce, Handler
      <3>2. CASE s # m[1]
        BY <3>2, <2>1, <2>3, <2>4, FirstMessage DEF ExactlyOnce, Handler
      <3> QED BY <3>1, <3>2
    <2>6. OneFanOut'
      BY <2>1, <2>3, <2>4 DEF OneFanOut
    <2>7. ExactCounter'
      <3>1. \A s \in Subs : (s \in AdvancedSubs)' <=> s \in AdvancedSubs
        BY <2>1, <2>2, <2>4, FirstMessage DEF AdvancedSubs, Handler
      <3> QED BY <3>1, <2>3, CounterFrame
    <2> QED BY <2>3, <2>5, <2>6, <2>7
  <1>2. CASE ReceiveAbandoned(m)
    BY <1>2 DEF ReceiveAbandoned, Fails
  <1>3. CASE VisibilityExpires(m)
    <2>1. msg[m] = "inflight" /\ att[m][rcv[m]] = "over"
      BY <1>3 DEF VisibilityExpires, Fails
    <2>2. m = First(m[1]) /\ m[1] \in Subs
      BY <2>1, SentIsFirst, FirstMessage
    <2>3. ExactlyOnce(m[1])
      BY <2>2
    <2> QED BY <2>1, <2>2, <2>3 DEF ExactlyOnce, Handler
  <1>4. CASE Redrive(m) \/ DrainDeadLetter(m)
    <2>1. (msg[m] = "visible" /\ rcv[m] = MaxReceive) \/ msg[m] = "dead"
      BY <1>4 DEF Redrive, DeadLettered, DrainDeadLetter
    <2>2. m = First(m[1]) /\ m[1] \in Subs
      BY <2>1, SentIsFirst, FirstMessage
    <2>3. ExactlyOnce(m[1])
      BY <2>2
    <2> QED BY <2>1, <2>2, <2>3, PipelineAssumption DEF ExactlyOnce, Handler
  <1> QED BY <1>1, <1>2, <1>3, <1>4 DEF QueueStep

\* What an attempt step does to a handler at work, where nothing fails: it goes
\* one stage on, and its submission and its message with it.
Advances(s) ==
    \/ /\ Handler(s) = "received" /\ Handler(s)' = "running"
       /\ sub' = [sub EXCEPT ![s] = "Processing"]
       /\ UNCHANGED <<batchVars, msg>>
    \/ /\ Handler(s) = "running" /\ Handler(s)' = "judged"
       /\ sub' = [sub EXCEPT ![s] = "Judged"]
       /\ UNCHANGED <<batchVars, msg>>
    \/ /\ Handler(s) = "judged" /\ Handler(s)' = "succeeded"
       /\ completed' = completed + 1
       /\ bstatus' = StatusAfter(completed)
       /\ fired' = IF IsComplete(completed + 1) THEN fired + 1 ELSE fired
       /\ UNCHANGED <<sub, msg>>
    \/ /\ Handler(s) = "succeeded" /\ Handler(s)' = "over"
       /\ msg' = [msg EXCEPT ![First(s)] = "deleted"]
       /\ UNCHANGED <<batchVars, sub>>

\* There is no other attempt step before the first failure.
LEMMA AttemptAdvances ==
  ASSUME TypeOK, NoFailureYet, failures = 0, failures' = 0,
         NEW m \in Messages, NEW r \in Receives,
         AttemptStep(m, r) \/ CrashAttempt(m, r)
  PROVE  \E s \in Subs :
           /\ Advances(s)
           /\ att' = [att EXCEPT ![First(s)] = [@ EXCEPT ![1] = Handler(s)']]
           /\ UNCHANGED <<rcv, startVars>>
  <1> USE DEF NoFailureYet, TypeOK
  <1>1. att[m][r] # "none"
    BY DEF AttemptStep, AttemptAborts, MarkProcessing, PersistResult, FailJob, AdvanceBatch,
       EndJob, Deletes, Backoff, CrashAttempt, Active
  <1>2. r = 1 /\ m = First(m[1]) /\ m[1] \in Subs /\ Handler(m[1]) = att[m][1]
    BY <1>1, AtWorkIsFirst
  <1> DEFINE s == m[1]
  <1>3. /\ att[m][1] \in {"received", "running", "judged", "succeeded", "over"}
        /\ att[m][1] # "over" => msg[m] = "inflight" /\ rcv[m] = 1
        /\ sub[s] # "Erased"
    BY <1>1, <1>2 DEF ExactlyOnce
  <1>4. First(s) = m /\ s \in Subs /\ Handler(s) = att[m][1] /\ 1 \in Receives
    BY <1>2, FirstMessage
  <1> HIDE DEF s
  <1>5. UNCHANGED <<rcv, startVars>>
    BY DEF AttemptStep, AttemptAborts, MarkProcessing, PersistResult, FailJob, AdvanceBatch,
       EndJob, Backoff, CrashAttempt
  <1>6. ASSUME NEW st \in AttState, att' = [att EXCEPT ![m][r] = st]
        PROVE  /\ Handler(s)' = st
               /\ att' = [att EXCEPT ![First(s)] = [@ EXCEPT ![1] = Handler(s)']]
    <2>1. att'[m][1] = st
      BY <1>6, <1>2, <1>4
    <2>2. Handler(s)' = st
      BY <2>1, <1>4 DEF Handler
    <2> QED BY <2>2, <1>6, <1>2, <1>4
  <1>7. CASE MarkProcessing(m, r)
    <2>1. att' = [att EXCEPT ![m][r] = "running"] /\ "running" \in AttState
      BY <1>7 DEF MarkProcessing, AttState
    <2>2. Advances(s)
      BY <1>2, <1>3, <1>4, <1>6, <1>7, <2>1 DEF MarkProcessing, WriteStatus, Advances, s
    <2> QED BY <1>4, <1>5, <1>6, <2>1, <2>2
  <1>8. CASE PersistResult(m, r)
    <2>1. att' = [att EXCEPT ![m][r] = "judged"] /\ "judged" \in AttState
      BY <1>8 DEF PersistResult, AttState
    <2>2. /\ sub' = [sub EXCEPT ![s] = "Judged"]
          /\ UNCHANGED <<batchVars, msg>>
      BY <1>3, <1>8 DEF PersistResult, WriteStatus, Fails, s
    <2>3. Handler(s) = "running" /\ Handler(s)' = "judged"
      BY <1>2, <1>4, <1>6, <1>8, <2>1 DEF PersistResult
    <2> QED BY <1>4, <1>5, <1>6, <2>1, <2>2, <2>3 DEF Advances
  <1>9. CASE AdvanceBatch(m, r)
    <2>1. att[m][1] = "judged"
      BY <1>9, <1>2, <1>3 DEF AdvanceBatch
    <2>2. att' = [att EXCEPT ![m][r] = "succeeded"] /\ "succeeded" \in AttState
      BY <1>9, <2>1, <1>2 DEF AdvanceBatch, AttState
    <2>3. /\ completed' = completed + 1
          /\ bstatus' = StatusAfter(completed)
          /\ fired' = IF IsComplete(completed + 1) THEN fired + 1 ELSE fired
          /\ UNCHANGED <<sub, msg>>
      BY <1>9 DEF AdvanceBatch, Fails
    <2>4. Handler(s) = "judged" /\ Handler(s)' = "succeeded"
      BY <1>4, <1>6, <2>1, <2>2
    <2> QED BY <1>4, <1>5, <1>6, <2>2, <2>3, <2>4 DEF Advances
  <1>10. CASE EndJob(m, r)
    <2>1. att[m][1] = "succeeded"
      BY <1>10, <1>2 DEF EndJob, Deletes
    <2>2. att' = [att EXCEPT ![m][r] = "over"] /\ "over" \in AttState
      BY <1>10 DEF EndJob, AttState
    <2>3. msg' = [msg EXCEPT ![m] = "deleted"] /\ UNCHANGED <<batchVars, sub>>
      BY <1>10, <2>1, <1>2, <1>3 DEF EndJob, DeletedWith, Fails
    <2>4. Advances(s)
      BY <1>4, <1>6, <2>1, <2>2, <2>3 DEF Advances
    <2> QED BY <1>4, <1>5, <1>6, <2>2, <2>4
  <1>11. ~AttemptAborts(m, r) /\ ~FailJob(m, r) /\ ~Backoff(m, r) /\ ~CrashAttempt(m, r)
    BY <1>2, <1>3 DEF AttemptAborts, FailJob, Backoff, CrashAttempt, Fails, s
  <1> QED BY <1>7, <1>8, <1>9, <1>10, <1>11 DEF AttemptStep

\* So a submission is judged once, counted once, and then acknowledged.
LEMMA AttemptStepExact ==
  ASSUME TypeOK, FreshFanOut, NoFailureYet, NEW s \in Subs, Advances(s),
         att' = [att EXCEPT ![First(s)] = [@ EXCEPT ![1] = Handler(s)']],
         UNCHANGED <<rcv, startVars>>
  PROVE  NoFailureYet'
  <1> USE DEF NoFailureYet, TypeOK
  <1>1. First(s) \in Messages /\ 1 \in Receives /\ First(s)[2] = 1
    BY FirstMessage
  <1>2. /\ \A m \in Messages : m # First(s) => att'[m] = att[m] /\ msg'[m] = msg[m]
        /\ \A q \in Subs : q # s => sub'[q] = sub[q]
        /\ \A r \in Receives : r # 1 => att'[First(s)][r] = att[First(s)][r]
    BY <1>1 DEF Advances
  <1>3. \A q \in Subs : q # s => First(q) # First(s) /\ First(q) \in Messages
    BY FirstMessage
  <1>4. \A q \in Subs : q # s => Handler(q)' = Handler(q)
    BY <1>2, <1>3 DEF Handler
  <1>5. bstatus' = "pending" <=> bstatus = "pending"
    <2>1. bstatus # "pending"
      <3>1. msg[First(s)] # "unsent"
        BY DEF Advances, ExactlyOnce
      <3> QED BY <1>1, <3>1 DEF OneFanOut, FreshFanOut
    <2> QED BY <2>1 DEF Advances, StatusAfter
  <1>6. OneFanOut'
    BY <1>1, <1>2, <1>5 DEF OneFanOut
  <1>7. \A q \in Subs : ExactlyOnce(q)'
    <2>1. ExactlyOnce(s)'
      BY <1>1 DEF ExactlyOnce, Advances
    <2> QED BY <1>2, <1>3, <1>4, <2>1 DEF ExactlyOnce
  <1>8. IsFiniteSet(AdvancedSubs) /\ Cardinality(AdvancedSubs) \in Nat
        /\ Cardinality(AdvancedSubs) <= Total
    BY PipelineAssumption, FS_Subset, FS_CardinalityType DEF AdvancedSubs, Total
  <1>9. ExactCounter'
    <2>1. CASE Handler(s) # "judged"
      <3>1. \A q \in Subs : (q \in AdvancedSubs)' <=> q \in AdvancedSubs
        BY <1>4, <2>1 DEF AdvancedSubs, Advances
      <3>2. UNCHANGED <<completed, fired>>
        BY <2>1 DEF Advances
      <3> QED BY <3>1, <3>2, CounterFrame
    <2>2. CASE Handler(s) = "judged"
      <3>1. s \notin AdvancedSubs /\ AdvancedSubs' = AdvancedSubs \cup {s}
        BY <1>4, <2>2 DEF AdvancedSubs, Advances
      <3>2. Cardinality(AdvancedSubs \cup {s}) = Cardinality(AdvancedSubs) + 1
        BY <1>8, <3>1, FS_AddElement
      <3>3. Cardinality(AdvancedSubs)' = Cardinality(AdvancedSubs \cup {s})
        BY <3>1
      <3>4. Cardinality(AdvancedSubs \cup {s}) <= Total
        <4>1. AdvancedSubs \cup {s} \subseteq Subs
          BY DEF AdvancedSubs
        <4> QED BY <4>1, PipelineAssumption, FS_Subset DEF Total
      <3>5. /\ completed' = completed + 1
            /\ fired' = IF IsComplete(completed + 1) THEN fired + 1 ELSE fired
        BY <2>2 DEF Advances
      <3>6. completed' = Cardinality(AdvancedSubs)'
        BY <3>2, <3>3, <3>5 DEF ExactCounter
      <3>7. completed < Total /\ fired = 0
        BY <1>8, <3>2, <3>4, TotalType DEF ExactCounter
      <3>8. Total' = Total
        BY DEF Total
      <3>9. fired' = IF completed' >= Total THEN 1 ELSE 0
        BY <3>5, <3>7, TotalType DEF IsComplete
      <3> QED BY <3>6, <3>8, <3>9 DEF ExactCounter
    <2> QED BY <2>1, <2>2
  <1> QED BY <1>6, <1>7, <1>9

\* A failure is counted when it occurs, and only the kinds in Faults occur.
LEMMA FailureCounted ==
  ASSUME [Next]_vars
  PROVE  failures' = failures \/ (failures' = failures + 1 /\ Faults # {})
  <1> USE DEF Fails, Works
  <1>1. ASSUME NEW e \in StartEvents, StartStep(e) \/ CrashStart(e)
        PROVE  failures' = failures \/ (failures' = failures + 1 /\ Faults # {})
    BY <1>1 DEF StartStep, StartClaims, StartNotPending, StartClaimFails, SettlesStart,
       ListSubmissions, PublishChunk, PublishFails, FanOutDone, RollBack,
       StartReappears, StartDies, CrashStart
  <1>2. ASSUME NEW m \in Messages, QueueStep(m) \/ ReceiveAbandoned(m)
        PROVE  failures' = failures \/ (failures' = failures + 1 /\ Faults # {})
    BY <1>2 DEF QueueStep, ReceiveJob, ReceiveAbandoned, VisibilityExpires,
       Redrive, DrainDeadLetter
  <1>3. ASSUME NEW m \in Messages, NEW r \in Receives,
               AttemptStep(m, r) \/ CrashAttempt(m, r)
        PROVE  failures' = failures \/ (failures' = failures + 1 /\ Faults # {})
    BY <1>3 DEF AttemptStep, AttemptAborts, MarkProcessing, PersistResult,
       FailJob, AdvanceBatch, EndJob, Backoff, CrashAttempt
  <1>4. ASSUME NEW s \in Subs, DeleteSubmission(s)
        PROVE  failures' = failures \/ (failures' = failures + 1 /\ Faults # {})
    BY <1>4 DEF DeleteSubmission
  <1>5. CASE UNCHANGED vars
    BY <1>5 DEF vars
  <1> QED BY <1>1, <1>2, <1>3, <1>4, <1>5 DEF Next

\* What a step before the first failure is to the owner of the batch: the
\* contract's Start, Finish or Fire, or nothing.
LEMMA ExactStep ==
  ASSUME TypeOK, SingleClaimant, FreshFanOut, NoFailureYet, [Next]_vars,
         failures = 0, failures' = 0
  PROVE  NoFailureYet' /\ [Contract!Next]_(Contract!contractVars)
  <1> USE DEF Contract!Next, Contract!contractVars, Terminal
  <1>1. ASSUME NEW e \in StartEvents, StartStep(e) \/ CrashStart(e)
        PROVE  NoFailureYet' /\ [Contract!Next]_(Contract!contractVars)
    <2>1. /\ NoFailureYet' /\ sub' = sub /\ fired' = fired
          /\ bstatus = "pending" \/ bstatus' = bstatus
      BY <1>1, StartStepExact
    <2> QED BY <2>1 DEF Contract!Start, Finished
  <1>2. ASSUME NEW m \in Messages, QueueStep(m) \/ ReceiveAbandoned(m)
        PROVE  NoFailureYet' /\ [Contract!Next]_(Contract!contractVars)
    BY <1>2, QueueStepExact DEF Finished
  <1>3. ASSUME NEW m \in Messages, NEW r \in Receives,
               AttemptStep(m, r) \/ CrashAttempt(m, r)
        PROVE  NoFailureYet' /\ [Contract!Next]_(Contract!contractVars)
    <2>1. PICK s \in Subs : /\ Advances(s)
                            /\ att' = [att EXCEPT ![First(s)] = [@ EXCEPT ![1] = Handler(s)']]
                            /\ UNCHANGED <<rcv, startVars>>
      BY <1>3, AttemptAdvances
    <2>2. NoFailureYet'
      BY <2>1, AttemptStepExact
    <2>3. bstatus # "pending"
      <3>1. msg[First(s)] # "unsent" /\ First(s) \in Messages /\ First(s)[2] = 1
        BY <2>1, FirstMessage DEF Advances, NoFailureYet, ExactlyOnce
      <3> QED BY <3>1 DEF NoFailureYet, OneFanOut, FreshFanOut
    <2>4. bstatus' # "pending"
      BY <2>1, <2>3 DEF Advances, StatusAfter
    <2>5. CASE Handler(s) = "received"
      <3>1. /\ fired' = fired /\ sub' = [sub EXCEPT ![s] = "Processing"]
            /\ sub[s] = "InQueue"
        BY <2>1, <2>5 DEF Advances, NoFailureYet, ExactlyOnce
      <3>2. Finished' = Finished
        BY <3>1 DEF Finished, TypeOK
      <3> QED BY <2>2, <2>3, <2>4, <3>1, <3>2
    <2>6. CASE Handler(s) = "running"
      <3>1. /\ fired' = fired /\ sub' = [sub EXCEPT ![s] = "Judged"]
            /\ sub[s] = "Processing"
        BY <2>1, <2>6 DEF Advances, NoFailureYet, ExactlyOnce
      <3>2. s \notin Finished /\ Finished' = Finished \cup {s}
        BY <3>1 DEF Finished, TypeOK
      <3>3. Contract!Finish(s)
        BY <2>3, <2>4, <3>1, <3>2 DEF Contract!Finish
      <3> QED BY <2>2, <3>3
    <2>7. CASE Handler(s) = "judged"
      <3>1. /\ completed' = completed + 1 /\ sub' = sub
            /\ fired' = IF IsComplete(completed + 1) THEN fired + 1 ELSE fired
        BY <2>1, <2>7 DEF Advances
      <3>2. Finished' = Finished
        BY <3>1 DEF Finished
      <3>3. CASE ~IsComplete(completed + 1)
        BY <2>2, <2>3, <2>4, <3>1, <3>2, <3>3
      <3>4. CASE IsComplete(completed + 1)
        <4>1. AdvancedSubs' \subseteq Finished'
          BY <2>2 DEF AdvancedSubs, NoFailureYet, ExactlyOnce, Finished
        <4>2. /\ Cardinality(AdvancedSubs') >= Total
              /\ fired' = 1
          BY <2>2, <3>1, <3>4 DEF NoFailureYet, ExactCounter, IsComplete, Total
        <4>3. AdvancedSubs' = Subs
          <5>1. AdvancedSubs' \subseteq Subs
            BY DEF AdvancedSubs
          <5>2. Cardinality(AdvancedSubs') = Cardinality(Subs)
            BY <4>2, <5>1, PipelineAssumption, FS_Subset, FS_CardinalityType DEF Total
          <5> QED BY <5>1, <5>2, PipelineAssumption, FS_Subset
        <4>4. Finished = Subs
          BY <4>1, <4>3, <3>2 DEF Finished
        <4>5. fired = 0
          BY <3>1, <3>4, <4>2 DEF TypeOK
        <4> QED BY <2>2, <2>3, <2>4, <3>2, <4>2, <4>4, <4>5 DEF Contract!Fire
      <3> QED BY <3>3, <3>4
    <2>8. CASE Handler(s) = "succeeded"
      BY <2>1, <2>2, <2>8 DEF Advances, Finished
    <2> QED BY <2>1, <2>5, <2>6, <2>7, <2>8 DEF Advances
  <1>4. ~(\E s \in Subs : DeleteSubmission(s))
    BY DEF DeleteSubmission, Fails
  <1>5. CASE UNCHANGED vars
    BY <1>5 DEF vars, NoFailureYet, OneFanOut, ExactlyOnce, ExactCounter, AdvancedSubs, Handler,
       Finished, Total
  <1> QED BY <1>1, <1>2, <1>3, <1>4, <1>5 DEF Next

\* Nothing has failed so far.
Reliable == failures = 0

\* So it stays, until the first failure.
LEMMA ExactSoFar == Spec => [](Reliable => NoFailureYet)
  <1>1. Init => FreshFanOut /\ NoFailureYet
    <2> SUFFICES ASSUME Init PROVE FreshFanOut /\ NoFailureYet
      OBVIOUS
    <2>1. FreshFanOut
      BY DEF Init, FreshFanOut, Claimants
    <2>2. OneFanOut /\ \A s \in Subs : ExactlyOnce(s)
      BY FirstMessage DEF Init, OneFanOut, ExactlyOnce, Handler
    <2>3. AdvancedSubs = {}
      BY FirstMessage DEF Init, AdvancedSubs, Handler
    <2> QED BY <2>1, <2>2, <2>3, FS_EmptySet, TotalType
            DEF Init, NoFailureYet, ExactCounter
  <1>2. TypeOK /\ SingleClaimant /\ FreshFanOut /\ [Next]_vars => FreshFanOut'
    BY FreshFanOutStep
  <1>3. TypeOK /\ TypeOK' /\ SingleClaimant /\ FreshFanOut
          /\ (Reliable => NoFailureYet) /\ [Next]_vars
          => (Reliable' => NoFailureYet')
    BY ExactStep, FailureCounted DEF TypeOK, Reliable
  <1> QED BY <1>1, <1>2, <1>3, TypeCorrect, OneFanOutAtATime, PTL DEF Spec

\* Without failures there is no first one.
LEMMA NothingFails == ASSUME Faults = {} PROVE Spec => []Reliable
  <1>1. Init => Reliable
    BY DEF Init, Reliable
  <1>2. Reliable /\ [Next]_vars => Reliable'
    BY FailureCounted DEF Reliable
  <1> QED BY <1>1, <1>2, PTL DEF Spec

\* Until something fails, the counter never runs ahead of the results and the
\* workers fire the webhook at most once, with any number of START requests,
\* chunks and workers (advanceBatch, IncrementCompleted).
THEOREM ExactBeforeFailure ==
  Spec => [](Reliable => CountedAreFinished /\ FiredOnce)
  <1>1. TypeOK /\ (Reliable => NoFailureYet)
          => (Reliable => CountedAreFinished /\ FiredOnce)
    <2> SUFFICES ASSUME TypeOK, NoFailureYet PROVE CountedAreFinished /\ FiredOnce
      OBVIOUS
    <2>1. AdvancedSubs \subseteq Finished /\ Finished \subseteq Subs
      BY DEF AdvancedSubs, Finished, NoFailureYet, ExactlyOnce, Terminal
    <2>2. Cardinality(AdvancedSubs) <= Cardinality(Finished)
      BY <2>1, PipelineAssumption, FS_Subset
    <2> QED BY <2>2 DEF NoFailureYet, ExactCounter, CountedAreFinished, FiredOnce
  <1> QED BY <1>1, TypeCorrect, ExactSoFar, PTL

\* Where nothing fails, the counter is exact for ever.
THEOREM CounterIsExact ==
  ASSUME Faults = {}
  PROVE  Spec => []CountedAreFinished
  BY NothingFails, ExactBeforeFailure, PTL

\* The safety of the contract: what the owner of a batch may ever see of it.
ContractSafety == Contract!Init /\ [][Contract!Next]_(Contract!contractVars)

\* What the contract says of the steps up to the first failure.
ContractUntilFailure ==
  Contract!Init /\ [][Reliable' => [Contract!Next]_(Contract!contractVars)]_vars

\* Until something fails, every step of the pipeline is one the contract of a
\* batch allows, or invisible: it starts once, each submission finishes once and
\* keeps its result, and the webhook goes out once, when all have finished.
THEOREM KeepsContractSoFar == Spec => ContractUntilFailure
  <1>1. Init => Contract!Init
    BY DEF Init, Contract!Init, Finished, Terminal
  <1>2. Init => FreshFanOut
    BY DEF Init, FreshFanOut, Claimants
  <1>3. TypeOK /\ SingleClaimant /\ FreshFanOut /\ [Next]_vars => FreshFanOut'
    BY FreshFanOutStep
  <1>4. TypeOK /\ [Next]_vars /\ Reliable' => Reliable
    BY FailureCounted DEF TypeOK, Reliable
  <1>5. TypeOK /\ SingleClaimant /\ FreshFanOut /\ (Reliable => NoFailureYet) /\ [Next]_vars
          => (Reliable' => [Contract!Next]_(Contract!contractVars))
    BY <1>4, ExactStep DEF Reliable
  <1> QED BY <1>1, <1>2, <1>3, <1>5, TypeCorrect, OneFanOutAtATime, ExactSoFar, PTL
          DEF Spec, ContractUntilFailure

\* Where nothing fails it is so for ever: the pipeline implements the safety of
\* the contract.
THEOREM KeepsContract ==
  ASSUME Faults = {}
  PROVE  Spec => ContractSafety
  <1>1. Reliable' /\ (Reliable' => [Contract!Next]_(Contract!contractVars))
          => [Contract!Next]_(Contract!contractVars)
    OBVIOUS
  <1>2. UNCHANGED vars => UNCHANGED Contract!contractVars
    BY DEF vars, Contract!contractVars, Finished
  <1> QED BY <1>1, <1>2, NothingFails, KeepsContractSoFar, PTL
          DEF ContractSafety, ContractUntilFailure

=============================================================================
