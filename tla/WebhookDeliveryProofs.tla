----------------------- MODULE WebhookDeliveryProofs -----------------------
(***************************************************************************)
(* Proofs about WebhookDelivery: its types, that "sent" is recorded only   *)
(* of a result that the receiver has taken, and that the budget of a       *)
(* worker's dispatch covers all its attempts, for any number of            *)
(* dispatchers and failures and every retry configuration.                 *)
(*                                                                         *)
(* The budget is a sum of delays that are defined by recursion. That the   *)
(* recursion has a solution (WaitExists, WaitsExists), and what holds of   *)
(* it, follows from the least number for which it would not (NatLeast).    *)
(* What a dispatch has spent is bounded by the attempts and the waits      *)
(* between them (SpentAt).                                                 *)
(***************************************************************************)
EXTENDS WebhookDelivery, WellFoundedInduction, TLAPS

\* The counter of attempts fits the place where a dispatcher is, and a
\* dispatcher that is about to record "sent" has been accepted.
DispatcherInv(d) ==
    /\ pc[d] \in {"idle", "preparing", "over"} => call[d].tries = 0
    /\ pc[d] \in {"posting", "waiting"} => call[d].tries < MaxAttempts(d)
    /\ pc[d] \in {"delivered", "exhausted"} => call[d].tries \in 1..MaxAttempts(d)
    /\ pc[d] = "delivered" => accepted # {}

DeliveryInv ==
    /\ TypeOK
    /\ SentWasDelivered
    /\ \A d \in Dispatchers : DispatcherInv(d)

\* Every dispatcher may try at least once, none more than MaxRetries + 1 times.
LEMMA MaxAttemptsRange ==
    ASSUME NEW d \in Dispatchers
    PROVE  MaxAttempts(d) \in 1..(MaxRetries + 1)
BY DeliveryAssumption DEF MaxAttempts

\* nextDelay returns a duration.
LEMMA NextDelayType ==
    ASSUME NEW t \in Nat
    PROVE  NextDelay(t) \in Nat
<1>1. t * Backoff \in Nat
  BY DeliveryAssumption
<1>2. QED
  BY <1>1, DeliveryAssumption DEF NextDelay

\* Counting failures keeps the counter within its bound.
LEMMA FailureType ==
    ASSUME TypeOK, NEW kind
    PROVE  /\ Fails(kind) => failures' \in 0..MaxFailures
           /\ Works => failures' \in 0..MaxFailures
BY DeliveryAssumption DEF TypeOK, Fails, Works

LEMMA InitDelivery == Init => DeliveryInv
<1>1. SUFFICES ASSUME Init PROVE DeliveryInv
  OBVIOUS
<1>2. TypeOK
  BY <1>1, DeliveryAssumption DEF Init, TypeOK, NewCall, PC
<1>3. ASSUME NEW d \in Dispatchers PROVE DispatcherInv(d)
  BY <1>1 DEF Init, DispatcherInv, NewCall
<1>4. QED
  BY <1>1, <1>2, <1>3 DEF Init, DeliveryInv, SentWasDelivered

\* A step that moves one dispatcher only keeps the invariant of the others.
LEMMA OthersKept ==
    ASSUME DeliveryInv, NEW d \in Dispatchers, NEW e \in Dispatchers, e # d,
           pc'[e] = pc[e], call'[e] = call[e], accepted \subseteq accepted'
    PROVE  DispatcherInv(e)'
BY DEF DeliveryInv, DispatcherInv, MaxAttempts

\* What a dispatcher that returns leaves behind.
LEMMA ReturnsKeeps ==
    ASSUME DeliveryInv, NEW d \in Dispatchers, Returns(d), accepted' = accepted
    PROVE  /\ pc' \in [Dispatchers -> PC]
           /\ call' \in [Dispatchers -> [payload : 0..Total,
                              tries : 0..(MaxRetries + 1), delay : Nat, spent : Nat]]
           /\ \A e \in Dispatchers : DispatcherInv(e)'
<1>1. NewCall \in [payload : 0..Total, tries : 0..(MaxRetries + 1),
                   delay : Nat, spent : Nat]
  BY DeliveryAssumption DEF NewCall
<1>2. /\ pc' \in [Dispatchers -> PC]
      /\ call' \in [Dispatchers -> [payload : 0..Total,
                       tries : 0..(MaxRetries + 1), delay : Nat, spent : Nat]]
  BY <1>1 DEF DeliveryInv, TypeOK, Returns, PC
<1>3. DispatcherInv(d)'
  BY DEF DeliveryInv, TypeOK, Returns, NewCall, DispatcherInv
<1>4. ASSUME NEW e \in Dispatchers, e # d PROVE DispatcherInv(e)'
  <2>1. pc'[e] = pc[e] /\ call'[e] = call[e]
    BY <1>4 DEF DeliveryInv, TypeOK, Returns
  <2>2. QED
    BY <1>4, <2>1, OthersKept
<1>5. QED
  BY <1>2, <1>3, <1>4

LEMMA FinishOneKeeps == DeliveryInv /\ FinishOne => DeliveryInv'
BY DeliveryAssumption, FailureType
   DEF DeliveryInv, FinishOne, rowVars, TypeOK, SentWasDelivered, DispatcherInv, MaxAttempts

\* An idle dispatcher becomes one that prepares.
LEMMA LaunchKeeps ==
    ASSUME DeliveryInv, NEW d \in Dispatchers, pc[d] = "idle",
           pc' = [pc EXCEPT ![d] = "preparing"], call' = call, accepted' = accepted
    PROVE  /\ pc' \in [Dispatchers -> PC]
           /\ \A e \in Dispatchers : DispatcherInv(e)'
<1>1. pc' \in [Dispatchers -> PC]
  BY DEF DeliveryInv, TypeOK, PC
<1>2. DispatcherInv(d)'
  BY DEF DeliveryInv, TypeOK, DispatcherInv
<1>3. ASSUME NEW e \in Dispatchers, e # d PROVE DispatcherInv(e)'
  <2>1. pc'[e] = pc[e] /\ call'[e] = call[e]
    BY <1>3 DEF DeliveryInv, TypeOK
  <2>2. QED
    BY <1>3, <2>1, OthersKept
<1>4. QED
  BY <1>1, <1>2, <1>3

LEMMA CountOneKeeps == DeliveryInv /\ CountOne => DeliveryInv'
<1>1. SUFFICES ASSUME DeliveryInv, CountOne PROVE DeliveryInv'
  OBVIOUS
<1>2. /\ counted' \in 0..(Total + Recounts)
      /\ bstatus' \in {"processing", "completed"}
  BY <1>1, DeliveryAssumption DEF DeliveryInv, TypeOK, CountOne, StatusAfter
<1>3. pc' \in [Dispatchers -> PC] /\ \A e \in Dispatchers : DispatcherInv(e)'
  <2>1. CASE counted' >= Total
    <3>1. PICK d \in Launches : pc[d] = "idle" /\ pc' = [pc EXCEPT ![d] = "preparing"]
      BY <1>1, <2>1 DEF CountOne
    <3>2. QED
      BY <1>1, <3>1, LaunchKeeps DEF CountOne, Dispatchers
  <2>2. CASE ~(counted' >= Total)
    BY <1>1, <2>2 DEF CountOne, DeliveryInv, TypeOK, DispatcherInv, MaxAttempts
  <2>3. QED
    BY <2>1, <2>2
<1>4. QED
  BY <1>1, <1>2, <1>3, FailureType DEF DeliveryInv, CountOne, TypeOK, SentWasDelivered

LEMMA SweepKeeps == DeliveryInv /\ Sweep => DeliveryInv'
<1>1. SUFFICES ASSUME DeliveryInv, Sweep PROVE DeliveryInv'
  OBVIOUS
<1>2. pc' \in [Dispatchers -> PC] /\ \A e \in Dispatchers : DispatcherInv(e)'
  BY <1>1, LaunchKeeps DEF Sweep, Dispatchers
<1>3. QED
  BY <1>1, <1>2, FailureType
     DEF DeliveryInv, Sweep, TypeOK, SentWasDelivered, batchVars, rowVars

LEMMA RequestCallbackKeeps ==
    ASSUME NEW d \in Dispatchers
    PROVE  DeliveryInv /\ RequestCallback(d) => DeliveryInv'
<1>1. SUFFICES ASSUME DeliveryInv, RequestCallback(d) PROVE DeliveryInv'
  OBVIOUS
<1>2. pc' \in [Dispatchers -> PC] /\ \A e \in Dispatchers : DispatcherInv(e)'
  BY <1>1, LaunchKeeps DEF RequestCallback
<1>3. QED
  BY <1>1, <1>2, FailureType
     DEF DeliveryInv, RequestCallback, TypeOK, SentWasDelivered, batchVars, rowVars

LEMMA PrepareKeeps ==
    ASSUME NEW d \in Dispatchers
    PROVE  DeliveryInv /\ Prepare(d) => DeliveryInv'
<1>1. SUFFICES ASSUME DeliveryInv, Prepare(d) PROVE DeliveryInv'
  OBVIOUS
<1>2. /\ pc' \in [Dispatchers -> PC]
      /\ call' \in [Dispatchers -> [payload : 0..Total,
                       tries : 0..(MaxRetries + 1), delay : Nat, spent : Nat]]
      /\ \A e \in Dispatchers : DispatcherInv(e)'
      /\ failures' \in 0..MaxFailures
  <2>1. CASE Fails("db") /\ Returns(d)
    BY <1>1, <2>1, ReturnsKeeps, FailureType DEF Prepare, DeliveryInv
  <2>2. CASE /\ Works
             /\ call' = [call EXCEPT ![d].payload = results]
             /\ pc' = [pc EXCEPT ![d] = "posting"]
    <3>1. /\ pc' \in [Dispatchers -> PC]
          /\ call' \in [Dispatchers -> [payload : 0..Total,
                           tries : 0..(MaxRetries + 1), delay : Nat, spent : Nat]]
          /\ call'[d].tries = 0 /\ pc'[d] = "posting"
      BY <1>1, <2>2 DEF DeliveryInv, TypeOK, PC, Prepare, DispatcherInv
    <3>2. DispatcherInv(d)'
      BY <3>1, MaxAttemptsRange DEF DispatcherInv, MaxAttempts
    <3>3. ASSUME NEW e \in Dispatchers, e # d PROVE DispatcherInv(e)'
      <4>1. pc'[e] = pc[e] /\ call'[e] = call[e]
        BY <1>1, <2>2, <3>3 DEF DeliveryInv, TypeOK
      <4>2. QED
        BY <1>1, <3>3, <4>1, OthersKept DEF Prepare
    <3>4. QED
      BY <1>1, <2>2, <3>1, <3>2, <3>3, FailureType DEF DeliveryInv
  <2>3. QED
    BY <1>1, <2>1, <2>2 DEF Prepare
<1>3. QED
  BY <1>1, <1>2 DEF DeliveryInv, Prepare, TypeOK, SentWasDelivered, batchVars, rowVars

LEMMA DeliverKeeps ==
    ASSUME NEW d \in Dispatchers
    PROVE  DeliveryInv /\ Deliver(d) => DeliveryInv'
<1>1. SUFFICES ASSUME DeliveryInv, Deliver(d) PROVE DeliveryInv'
  OBVIOUS
<1>2. PICK t \in Durations(d) :
          call' = [call EXCEPT ![d].tries = @ + 1, ![d].spent = @ + t]
  BY <1>1 DEF Deliver, Attempt
<1>3. t \in Nat
  BY DeliveryAssumption DEF Durations
<1>4. MaxAttempts(d) \in 1..(MaxRetries + 1)
  BY MaxAttemptsRange
<1>5. call[d].tries \in Nat /\ call[d].tries < MaxAttempts(d)
  BY <1>1 DEF DeliveryInv, TypeOK, DispatcherInv, Deliver, Attempt
<1>6. /\ call' \in [Dispatchers -> [payload : 0..Total,
                       tries : 0..(MaxRetries + 1), delay : Nat, spent : Nat]]
      /\ call'[d].tries = call[d].tries + 1
  <2>1. call[d] \in [payload : 0..Total, tries : 0..(MaxRetries + 1),
                     delay : Nat, spent : Nat]
    BY <1>1 DEF DeliveryInv, TypeOK
  <2>2. /\ call[d].tries + 1 \in 0..(MaxRetries + 1)
        /\ call[d].spent + t \in Nat
    BY <1>3, <1>4, <1>5, <2>1, DeliveryAssumption
  <2> DEFINE next == [call[d] EXCEPT !.tries = @ + 1, !.spent = @ + t]
  <2>3. /\ next \in [payload : 0..Total, tries : 0..(MaxRetries + 1),
                     delay : Nat, spent : Nat]
        /\ next.tries = call[d].tries + 1
    BY <2>1, <2>2
  <2>4. call' = [call EXCEPT ![d] = next]
    BY <1>1, <1>2, <2>1 DEF DeliveryInv, TypeOK
  <2> HIDE DEF next
  <2>5. QED
    BY <1>1, <2>3, <2>4 DEF DeliveryInv, TypeOK
<1>7. /\ accepted' \subseteq 0..Total /\ accepted \subseteq accepted'
      /\ failures' \in 0..MaxFailures
  BY <1>1, FailureType DEF DeliveryInv, TypeOK, Deliver
<1>8. PICK to \in {"delivered", AfterFailure(d)} :
          /\ pc' = [pc EXCEPT ![d] = to]
          /\ to = "delivered" => accepted' # {}
  BY <1>1 DEF Deliver, AfterFailure
<1>9. /\ pc' \in [Dispatchers -> PC]
      /\ pc'[d] = to
  BY <1>1, <1>8 DEF DeliveryInv, TypeOK, PC, AfterFailure
<1>10. DispatcherInv(d)'
  BY <1>4, <1>5, <1>6, <1>8, <1>9 DEF DispatcherInv, AfterFailure, MaxAttempts
<1>11. ASSUME NEW e \in Dispatchers, e # d PROVE DispatcherInv(e)'
  <2>1. pc'[e] = pc[e] /\ call'[e] = call[e]
    BY <1>1, <1>2, <1>8, <1>11 DEF DeliveryInv, TypeOK
  <2>2. QED
    BY <1>1, <1>7, <1>11, <2>1, OthersKept
<1>12. QED
  BY <1>1, <1>6, <1>7, <1>9, <1>10, <1>11
     DEF DeliveryInv, Deliver, TypeOK, SentWasDelivered, batchVars, rowVars

LEMMA WaitForRetryKeeps ==
    ASSUME NEW d \in Dispatchers
    PROVE  DeliveryInv /\ WaitForRetry(d) => DeliveryInv'
<1>1. SUFFICES ASSUME DeliveryInv, WaitForRetry(d) PROVE DeliveryInv'
  OBVIOUS
<1>2. call[d].delay \in Nat /\ NextDelay(call[d].delay) \in Nat
  BY <1>1, NextDelayType DEF DeliveryInv, TypeOK
<1>3. /\ call' \in [Dispatchers -> [payload : 0..Total,
                       tries : 0..(MaxRetries + 1), delay : Nat, spent : Nat]]
      /\ call'[d].tries = call[d].tries
      /\ pc' \in [Dispatchers -> PC] /\ pc'[d] = "posting"
  <2>1. call[d] \in [payload : 0..Total, tries : 0..(MaxRetries + 1),
                     delay : Nat, spent : Nat]
    BY <1>1 DEF DeliveryInv, TypeOK
  <2> DEFINE next == [call[d] EXCEPT !.spent = call[d].spent + call[d].delay,
                                    !.delay = NextDelay(call[d].delay)]
  <2>2. /\ next \in [payload : 0..Total, tries : 0..(MaxRetries + 1),
                     delay : Nat, spent : Nat]
        /\ next.tries = call[d].tries
    <3>1. call[d].spent + call[d].delay \in Nat
      BY <2>1
    <3>2. QED
      BY <1>2, <2>1, <3>1
  <2>3. call' = [call EXCEPT ![d] = next]
    BY <1>1, <2>1 DEF DeliveryInv, TypeOK, WaitForRetry
  <2> HIDE DEF next
  <2>4. QED
    BY <1>1, <2>2, <2>3 DEF DeliveryInv, TypeOK, PC, WaitForRetry
<1>4. DispatcherInv(d)'
  BY <1>1, <1>3 DEF DeliveryInv, DispatcherInv, MaxAttempts, WaitForRetry
<1>5. ASSUME NEW e \in Dispatchers, e # d PROVE DispatcherInv(e)'
  <2>1. pc'[e] = pc[e] /\ call'[e] = call[e]
    BY <1>1, <1>5 DEF DeliveryInv, TypeOK, WaitForRetry
  <2>2. QED
    BY <1>1, <1>5, <2>1, OthersKept DEF WaitForRetry
<1>6. QED
  BY <1>1, <1>3, <1>4, <1>5, FailureType
     DEF DeliveryInv, WaitForRetry, TypeOK, SentWasDelivered, batchVars, rowVars

LEMMA MarkWebhookKeeps ==
    ASSUME NEW d \in Dispatchers
    PROVE  DeliveryInv /\ (MarkSent(d) \/ MarkFailed(d)) => DeliveryInv'
<1>1. SUFFICES ASSUME DeliveryInv, MarkSent(d) \/ MarkFailed(d) PROVE DeliveryInv'
  OBVIOUS
<1>2. PICK status \in {"sent", "failed"} :
          /\ MarkWebhook(d, status)
          /\ pc[d] \in {"delivered", "exhausted"}
          /\ status = "sent" => pc[d] = "delivered"
  BY <1>1 DEF MarkSent, MarkFailed
<1>3. /\ pc' \in [Dispatchers -> PC]
      /\ call' \in [Dispatchers -> [payload : 0..Total,
                       tries : 0..(MaxRetries + 1), delay : Nat, spent : Nat]]
      /\ \A e \in Dispatchers : DispatcherInv(e)'
  BY <1>1, <1>2, ReturnsKeeps DEF MarkWebhook
<1>4. call[d].tries - 1 \in 0..MaxRetries
  BY <1>1, <1>2, MaxAttemptsRange, DeliveryAssumption DEF DeliveryInv, DispatcherInv
<1>5. /\ wstatus' \in {"pending", "sent", "failed"}
      /\ wretries' \in 0..MaxRetries
      /\ SentWasDelivered'
  BY <1>1, <1>2, <1>4
     DEF DeliveryInv, TypeOK, MarkWebhook, SentWasDelivered, DispatcherInv
<1>6. failures' \in 0..MaxFailures
  BY <1>1, <1>2, FailureType DEF DeliveryInv, MarkWebhook
<1>7. QED
  BY <1>1, <1>2, <1>3, <1>5, <1>6 DEF DeliveryInv, TypeOK, MarkWebhook, batchVars

LEMMA CrashKeeps ==
    ASSUME NEW d \in Dispatchers
    PROVE  DeliveryInv /\ Crash(d) => DeliveryInv'
<1>1. SUFFICES ASSUME DeliveryInv, Crash(d) PROVE DeliveryInv'
  OBVIOUS
<1>2. /\ pc' \in [Dispatchers -> PC]
      /\ call' \in [Dispatchers -> [payload : 0..Total,
                       tries : 0..(MaxRetries + 1), delay : Nat, spent : Nat]]
      /\ \A e \in Dispatchers : DispatcherInv(e)'
  BY <1>1, ReturnsKeeps DEF Crash
<1>3. QED
  BY <1>1, <1>2, FailureType
     DEF DeliveryInv, Crash, TypeOK, SentWasDelivered, batchVars, rowVars

LEMMA DeliveryStep == DeliveryInv /\ [Next]_vars => DeliveryInv'
<1>1. SUFFICES ASSUME DeliveryInv, [Next]_vars PROVE DeliveryInv'
  OBVIOUS
<1>2. CASE FinishOne \/ CountOne \/ Sweep
  BY <1>1, <1>2, FinishOneKeeps, CountOneKeeps, SweepKeeps
<1>3. ASSUME NEW d \in Dispatchers, RequestCallback(d) \/ DispatchStep(d) \/ Crash(d)
      PROVE  DeliveryInv'
  BY <1>1, <1>3, RequestCallbackKeeps, PrepareKeeps, DeliverKeeps, WaitForRetryKeeps,
     MarkWebhookKeeps, CrashKeeps DEF DispatchStep
<1>4. CASE UNCHANGED vars
  BY <1>1, <1>4 DEF DeliveryInv, vars, TypeOK, SentWasDelivered, DispatcherInv, MaxAttempts
<1>5. QED
  BY <1>1, <1>2, <1>3, <1>4 DEF Next

LEMMA DeliveryInvariant == Spec => []DeliveryInv
<1>1. QED
  BY InitDelivery, DeliveryStep, PTL DEF Spec

\* Every variable keeps its type, the retry count the row records included
\* (DispatchBatchWithRetry, MarkWebhook), whatever fails.
THEOREM DeliveryTypeCorrect == Spec => []TypeOK
<1>1. DeliveryInv => TypeOK
  BY DEF DeliveryInv
<1>2. QED
  BY <1>1, DeliveryInvariant, PTL

\* A batch whose webhook is "sent" had a result of it taken by the receiver,
\* however the dispatches of workers, requests and the reconciler interleave
\* and whichever of their writes are lost (DispatchBatch, markSent).
THEOREM SentDelivered == Spec => []SentWasDelivered
<1>1. DeliveryInv => SentWasDelivered
  BY DEF DeliveryInv
<1>2. QED
  BY <1>1, DeliveryInvariant, PTL

-----------------------------------------------------------------------------
(* The retry schedule                                                      *)

\* A set of natural numbers has a least one, so that what fails for a number
\* fails for a first one.
LEMMA NatLeast ==
    ASSUME NEW S \in SUBSET Nat, S # {}
    PROVE  \E n \in S : \A m \in S : n <= m
  <1>1. IsWellFoundedOn(OpToRel(<, Nat), Nat)
    BY NatLessThanWellFounded
  <1>2. PICK n \in S : \A m \in S : ~ (<<m, n>> \in OpToRel(<, Nat))
    BY <1>1, WFMin
  <1>3. \A m \in S : ~ (m < n)
    BY <1>2 DEF OpToRel
  <1>. QED
    BY <1>3

\* The equation of Wait, for the first n delays: it has a solution for each n,
\* and so the recursion defines one for MaxRetries.
WaitLaw(f, n) == f = [k \in 1..n |-> IF k = 1 THEN Delay ELSE NextDelay(f[k - 1])]

LEMMA WaitStep ==
    ASSUME NEW n \in Nat, NEW f, WaitLaw(f, n)
    PROVE  \E g : WaitLaw(g, n + 1)
  <1>. DEFINE g == [k \in 1..(n + 1) |-> IF k \in 1..n THEN f[k]
                                         ELSE IF k = 1 THEN Delay ELSE NextDelay(f[n])]
              F(h, k) == IF k = 1 THEN Delay ELSE NextDelay(h[k - 1])
  <1>1. \A k \in 1..n : f[k] = F(f, k)
    BY DEF WaitLaw
  <1>2. ASSUME NEW k \in 1..(n + 1) PROVE g[k] = F(g, k)
    <2>1. CASE k = 1 /\ n = 0
      BY <2>1
    <2>2. CASE k = n + 1 /\ n # 0
      <3>1. k \notin 1..n /\ k # 1 /\ k - 1 = n /\ n \in 1..n /\ n \in 1..(n + 1)
        BY <2>2
      <3>2. g[k] = NextDelay(f[n]) /\ g[k - 1] = f[n]
        BY <3>1
      <3>. QED
        BY <3>1, <3>2
    <2>3. CASE k \in 1..n
      <3>1. k # 1 => k - 1 \in 1..n /\ k - 1 \in 1..(n + 1)
        BY <2>3
      <3>2. g[k] = f[k] /\ (k # 1 => g[k - 1] = f[k - 1])
        BY <2>3, <3>1
      <3>. QED
        BY <1>1, <2>3, <3>2
    <2>. QED
      BY <2>1, <2>2, <2>3
  <1>3. g = [k \in 1..(n + 1) |-> g[k]]
    OBVIOUS
  <1>4. [k \in 1..(n + 1) |-> g[k]] = [k \in 1..(n + 1) |-> F(g, k)]
    <2>. HIDE DEF g, F
    <2>. QED
      BY <1>2
  <1>5. g = [k \in 1..(n + 1) |-> F(g, k)]
    <2>. HIDE DEF g, F
    <2>. QED
      BY <1>3, <1>4
  <1>6. WaitLaw(g, n + 1)
    BY <1>5 DEF WaitLaw
  <1>. QED
    BY <1>6

LEMMA WaitExists == \E f : WaitLaw(f, MaxRetries)
  <1>. DEFINE Bad == {n \in Nat : ~ \E f : WaitLaw(f, n)}
  <1>1. SUFFICES ASSUME Bad # {} PROVE FALSE
    BY DeliveryAssumption
  <1>2. PICK n \in Bad : \A m \in Bad : n <= m
    BY <1>1, NatLeast
  <1>3. n # 0
    <2>1. WaitLaw([k \in 1..0 |-> 0], 0)
      BY DEF WaitLaw
    <2>. QED
      BY <2>1
  <1>4. n - 1 \in Nat /\ n - 1 \notin Bad
    BY <1>2, <1>3
  <1>5. PICK f : WaitLaw(f, n - 1)
    BY <1>4
  <1>6. \E g : WaitLaw(g, n)
    BY <1>4, <1>5, WaitStep
  <1>. QED
    BY <1>2, <1>6

LEMMA WaitIsDefined == WaitLaw(Wait, MaxRetries)
  BY WaitExists, Zenon DEF Wait, WaitLaw

\* So does that of Waits, the sums.
WaitsLaw(f, n) == f = [k \in 0..n |-> IF k = 0 THEN 0 ELSE f[k - 1] + Wait[k]]

LEMMA WaitsStep ==
    ASSUME NEW n \in Nat, NEW f, WaitsLaw(f, n)
    PROVE  \E g : WaitsLaw(g, n + 1)
  <1>. DEFINE g == [k \in 0..(n + 1) |-> IF k \in 0..n THEN f[k] ELSE f[n] + Wait[n + 1]]
              F(h, k) == IF k = 0 THEN 0 ELSE h[k - 1] + Wait[k]
  <1>1. \A k \in 0..n : f[k] = F(f, k)
    BY DEF WaitsLaw
  <1>2. ASSUME NEW k \in 0..(n + 1) PROVE g[k] = F(g, k)
    <2>1. CASE k = n + 1
      <3>1. k \notin 0..n /\ k # 0 /\ k - 1 = n /\ n \in 0..n /\ n \in 0..(n + 1)
        BY <2>1
      <3>2. g[k] = f[n] + Wait[n + 1] /\ g[k - 1] = f[n]
        BY <3>1
      <3>. QED
        BY <2>1, <3>1, <3>2
    <2>2. CASE k \in 0..n
      <3>1. k # 0 => k - 1 \in 0..n /\ k - 1 \in 0..(n + 1)
        BY <2>2
      <3>2. g[k] = f[k] /\ (k # 0 => g[k - 1] = f[k - 1])
        BY <2>2, <3>1
      <3>. QED
        BY <1>1, <2>2, <3>2
    <2>. QED
      BY <2>1, <2>2
  <1>3. g = [k \in 0..(n + 1) |-> g[k]]
    OBVIOUS
  <1>4. g = [k \in 0..(n + 1) |-> F(g, k)]
    <2>. HIDE DEF g, F
    <2>. QED
      BY <1>2, <1>3
  <1>. QED
    BY <1>4 DEF WaitsLaw

LEMMA WaitsExists == \E f : WaitsLaw(f, MaxRetries)
  <1>. DEFINE Bad == {n \in Nat : ~ \E f : WaitsLaw(f, n)}
  <1>1. SUFFICES ASSUME Bad # {} PROVE FALSE
    BY DeliveryAssumption
  <1>2. PICK n \in Bad : \A m \in Bad : n <= m
    BY <1>1, NatLeast
  <1>3. n # 0
    <2>1. WaitsLaw([k \in 0..0 |-> 0], 0)
      BY DEF WaitsLaw
    <2>. QED
      BY <2>1
  <1>4. n - 1 \in Nat /\ n - 1 \notin Bad
    BY <1>2, <1>3
  <1>5. PICK f : WaitsLaw(f, n - 1)
    BY <1>4
  <1>6. \E g : WaitsLaw(g, n)
    BY <1>4, <1>5, WaitsStep
  <1>. QED
    BY <1>2, <1>6

LEMMA WaitsIsDefined == WaitsLaw(Waits, MaxRetries)
  BY WaitsExists, Zenon DEF Waits, WaitsLaw

\* A delay is a number, the first the one of the configuration and each other the
\* next after the one before it.
LEMMA WaitIs ==
    ASSUME NEW k \in 1..MaxRetries
    PROVE  Wait[k] \in Nat /\ Wait[k] = IF k = 1 THEN Delay ELSE NextDelay(Wait[k - 1])
  <1>1. \A n \in 1..MaxRetries : Wait[n] = IF n = 1 THEN Delay ELSE NextDelay(Wait[n - 1])
    BY WaitIsDefined DEF WaitLaw
  <1>. DEFINE Bad == {n \in 1..MaxRetries : Wait[n] \notin Nat}
  <1>2. Bad = {}
    <2>1. SUFFICES ASSUME Bad # {} PROVE FALSE
      OBVIOUS
    <2>2. PICK n \in Bad : \A m \in Bad : n <= m
      <3>1. Bad \in SUBSET Nat
        BY DeliveryAssumption
      <3>. HIDE DEF Bad
      <3>. QED
        BY <2>1, <3>1, NatLeast
    <2>3. n # 1
      BY <1>1, DeliveryAssumption
    <2>4. n - 1 \in 1..MaxRetries /\ n - 1 \notin Bad
      BY <2>2, <2>3, DeliveryAssumption
    <2>5. Wait[n - 1] \in Nat
      BY <2>4
    <2>6. NextDelay(Wait[n - 1]) \in Nat
      BY <2>5, NextDelayType
    <2>. QED
      BY <1>1, <2>2, <2>3, <2>6
  <1>. QED
    BY <1>1, <1>2

LEMMA WaitAfter ==
    ASSUME NEW k \in 1..MaxRetries, k < MaxRetries
    PROVE  NextDelay(Wait[k]) = Wait[k + 1]
  <1>1. k + 1 \in 1..MaxRetries /\ k + 1 # 1
    BY DeliveryAssumption
  <1>2. \A n \in 1..MaxRetries : Wait[n] = IF n = 1 THEN Delay ELSE NextDelay(Wait[n - 1])
    BY WaitIs
  <1>3. Wait[k + 1] = NextDelay(Wait[(k + 1) - 1])
    BY <1>1, <1>2
  <1>4. (k + 1) - 1 = k
    BY DeliveryAssumption
  <1>. QED
    BY <1>3, <1>4

\* The sums are numbers too, and grow.
LEMMA WaitsIs ==
    ASSUME NEW k \in 0..MaxRetries
    PROVE  Waits[k] \in Nat /\ Waits[k] = IF k = 0 THEN 0 ELSE Waits[k - 1] + Wait[k]
  <1>1. \A n \in 0..MaxRetries : Waits[n] = IF n = 0 THEN 0 ELSE Waits[n - 1] + Wait[n]
    BY WaitsIsDefined DEF WaitsLaw
  <1>. DEFINE Bad == {n \in 0..MaxRetries : Waits[n] \notin Nat}
  <1>2. Bad = {}
    <2>1. SUFFICES ASSUME Bad # {} PROVE FALSE
      OBVIOUS
    <2>2. PICK n \in Bad : \A m \in Bad : n <= m
      <3>1. Bad \in SUBSET Nat
        BY DeliveryAssumption
      <3>. HIDE DEF Bad
      <3>. QED
        BY <2>1, <3>1, NatLeast
    <2>3. n # 0
      BY <1>1, DeliveryAssumption
    <2>4. n - 1 \in 0..MaxRetries /\ n - 1 \notin Bad /\ n \in 1..MaxRetries
      BY <2>2, <2>3, DeliveryAssumption
    <2>5. Waits[n - 1] \in Nat /\ Wait[n] \in Nat
      BY <2>4, WaitIs
    <2>6. Waits[n] = Waits[n - 1] + Wait[n]
      BY <1>1, <2>3
    <2>. QED
      BY <2>2, <2>5, <2>6
  <1>. QED
    BY <1>1, <1>2

LEMMA WaitsGrow == \A k \in 0..MaxRetries : Waits[k] <= Waits[MaxRetries]
  <1>. DEFINE Bad == {j \in 0..MaxRetries : ~ (Waits[MaxRetries - j] <= Waits[MaxRetries])}
  <1>1. Bad = {}
    <2>1. SUFFICES ASSUME Bad # {} PROVE FALSE
      OBVIOUS
    <2>2. PICK j \in Bad : \A m \in Bad : j <= m
      <3>1. Bad \in SUBSET Nat
        BY DeliveryAssumption
      <3>. HIDE DEF Bad
      <3>. QED
        BY <2>1, <3>1, NatLeast
    <2>3. MaxRetries \in Nat /\ j \in 0..MaxRetries
      BY DeliveryAssumption
    <2>4. j # 0
      <3>1. Waits[MaxRetries] \in Nat
        BY <2>3, WaitsIs
      <3>. QED
        BY <2>3, <3>1
    <2>. DEFINE n == MaxRetries - (j - 1)
    <2>5. n \in 1..MaxRetries /\ n - 1 = MaxRetries - j /\ j - 1 \in 0..MaxRetries
      BY <2>3, <2>4
    <2>6. Waits[n] <= Waits[MaxRetries]
      BY <2>2, <2>5
    <2>7. Waits[n] = Waits[n - 1] + Wait[n] /\ Waits[n - 1] \in Nat /\ Wait[n] \in Nat
          /\ Waits[MaxRetries] \in Nat
      <3>. HIDE DEF n
      <3>1. n \in 0..MaxRetries /\ n - 1 \in 0..MaxRetries /\ n # 0
            /\ MaxRetries \in 0..MaxRetries
        BY <2>3, <2>5
      <3>. QED
        BY <2>5, <3>1, WaitIs, WaitsIs
    <2>8. Waits[MaxRetries - j] <= Waits[MaxRetries]
      BY <2>5, <2>6, <2>7
    <2>. QED
      BY <2>8
  <1>2. ASSUME NEW k \in 0..MaxRetries PROVE Waits[k] <= Waits[MaxRetries]
    <2>1. MaxRetries - k \in 0..MaxRetries /\ MaxRetries - (MaxRetries - k) = k
      BY DeliveryAssumption
    <2>. QED
      BY <1>1, <2>1
  <1>. QED
    BY <1>2

-----------------------------------------------------------------------------
(* The budget                                                              *)

LEMMA TimesTimeout ==
    ASSUME NEW k \in Nat, NEW m \in Nat, k <= m
    PROVE  /\ k * Timeout \in Nat /\ (k + 1) * Timeout = k * Timeout + Timeout
           /\ k * Timeout <= m * Timeout
  <1>1. Timeout \in Nat /\ m - k \in Nat
    BY DeliveryAssumption
  <1>2. k * Timeout \in Nat /\ m * Timeout \in Nat /\ (m - k) * Timeout \in Nat
    BY <1>1
  <1>3. (k + 1) * Timeout = k * Timeout + Timeout
    BY <1>1
  <1>4. m * Timeout = k * Timeout + (m - k) * Timeout
    BY <1>1
  <1>. QED
    BY <1>2, <1>3, <1>4

\* What a worker's dispatch has spent after so many attempts and the waits
\* between them, and which delay comes next.
SpentAt(d) ==
    LET tries == call[d].tries IN
    /\ pc[d] \in {"idle", "preparing"} => call[d].spent = 0 /\ call[d].delay = Delay
    /\ pc[d] = "posting" =>
          /\ call[d].spent <= tries * Timeout + Waits[tries]
          /\ tries < MaxRetries => call[d].delay = Wait[tries + 1]
    /\ pc[d] = "waiting" =>
          /\ tries \in 1..MaxRetries /\ call[d].delay = Wait[tries]
          /\ call[d].spent <= tries * Timeout + Waits[tries - 1]
    /\ pc[d] \in {"delivered", "exhausted"} =>
          call[d].spent <= tries * Timeout + Waits[tries - 1]

BudgetInv == DeliveryInv /\ \A d \in Launches : SpentAt(d)

LEMMA BudgetInitHolds == ASSUME Init PROVE BudgetInv
  <1>1. DeliveryInv
    BY InitDelivery
  <1>2. ASSUME NEW d \in Launches PROVE SpentAt(d)
    BY DEF Init, NewCall, SpentAt, Dispatchers
  <1>. QED
    BY <1>1, <1>2 DEF BudgetInv

\* What a worker's call holds.
LEMMA LaunchCall ==
    ASSUME DeliveryInv, NEW d \in Launches
    PROVE  /\ d \in Dispatchers /\ d # Reconciler /\ MaxRetries \in Nat
           /\ MaxAttempts(d) = MaxRetries + 1 /\ Durations(d) = {0, Timeout}
           /\ call \in [Dispatchers -> [payload : 0..Total, tries : 0..(MaxRetries + 1),
                                        delay : Nat, spent : Nat]]
           /\ pc \in [Dispatchers -> PC]
           /\ call[d].tries \in Nat /\ call[d].spent \in Nat /\ call[d].delay \in Nat
           /\ DispatcherInv(d)
  <1>1. d \in Dispatchers /\ d # Reconciler /\ MaxRetries \in Nat
    BY DeliveryAssumption DEF Dispatchers
  <1>2. call[d] \in [payload : 0..Total, tries : 0..(MaxRetries + 1), delay : Nat, spent : Nat]
    BY <1>1 DEF DeliveryInv, TypeOK
  <1>3. call[d].tries \in Nat /\ call[d].spent \in Nat /\ call[d].delay \in Nat
    BY <1>1, <1>2
  <1>. QED
    BY <1>1, <1>3 DEF DeliveryInv, TypeOK, MaxAttempts, Durations

\* A step of another dispatcher, or of the batch, takes none of its time.
LEMMA OtherSpent ==
    ASSUME NEW d \in Launches, SpentAt(d), call'[d] = call[d], pc'[d] = pc[d]
    PROVE  SpentAt(d)'
  BY DEF SpentAt

LEMMA PrepareSpends ==
    ASSUME BudgetInv, NEW d \in Launches, Prepare(d) PROVE SpentAt(d)'
  <1>1. SpentAt(d) /\ DeliveryInv
    BY DEF BudgetInv
  <1>2. CASE Returns(d)
    BY <1>1, <1>2, LaunchCall DEF Returns, NewCall, SpentAt
  <1>3. CASE /\ call' = [call EXCEPT ![d].payload = results]
             /\ pc' = [pc EXCEPT ![d] = "posting"]
    <2>1. /\ call[d].tries = 0 /\ call[d].spent = 0 /\ call[d].delay = Delay
      BY <1>1, LaunchCall DEF Prepare, SpentAt, DispatcherInv
    <2>2. /\ call'[d].tries = 0 /\ call'[d].spent = 0 /\ call'[d].delay = Delay
          /\ pc'[d] = "posting"
      BY <1>1, <1>3, <2>1, LaunchCall
    <2>3. 0 * Timeout = 0 /\ Waits[0] = 0
      BY DeliveryAssumption, WaitsIs
    <2>4. 0 < MaxRetries => Wait[1] = Delay
      BY DeliveryAssumption, WaitIs
    <2>. QED
      BY <2>2, <2>3, <2>4 DEF SpentAt
  <1>. QED
    BY <1>2, <1>3 DEF Prepare

LEMMA DeliverSpends ==
    ASSUME BudgetInv, NEW d \in Launches, Deliver(d) PROVE SpentAt(d)'
  <1>. DEFINE k == call[d].tries
  <1>1. SpentAt(d) /\ DeliveryInv /\ pc[d] = "posting"
    BY DEF BudgetInv, Deliver, Attempt
  <1>2. PICK t \in {0, Timeout} :
            call' = [call EXCEPT ![d].tries = @ + 1, ![d].spent = @ + t]
    <2>1. Durations(d) = {0, Timeout}
      BY <1>1, LaunchCall
    <2>2. \E t \in Durations(d) : call' = [call EXCEPT ![d].tries = @ + 1, ![d].spent = @ + t]
      BY DEF Deliver, Attempt
    <2>. QED
      BY Zenon, <2>1, <2>2
  <1>3. /\ call'[d].tries = k + 1 /\ call'[d].spent = call[d].spent + t
        /\ call'[d].delay = call[d].delay
    BY <1>1, <1>2, LaunchCall
  <1>4. k \in 0..MaxRetries /\ MaxRetries \in Nat /\ call[d].spent \in Nat /\ Timeout \in Nat
        /\ t \in Nat /\ t <= Timeout
    BY <1>1, <1>2, LaunchCall, DeliveryAssumption DEF DispatcherInv
  <1>5. Waits[k] \in Nat
    BY <1>4, WaitsIs
  <1>6. call[d].spent <= k * Timeout + Waits[k] /\ (k < MaxRetries => call[d].delay = Wait[k + 1])
    BY <1>1 DEF SpentAt
  <1>7. k * Timeout \in Nat /\ (k + 1) * Timeout = k * Timeout + Timeout
    BY <1>4, TimesTimeout
  <1>8. call[d].spent + t <= (k + 1) * Timeout + Waits[k]
    <2>. HIDE DEF k
    <2>. QED
      BY <1>4, <1>5, <1>6, <1>7
  <1>9. pc'[d] \in {"delivered", AfterFailure(d)}
    BY <1>1, LaunchCall DEF Deliver
  <1>10. AfterFailure(d) = IF k + 1 < MaxRetries + 1 THEN "waiting" ELSE "exhausted"
    BY <1>1, LaunchCall DEF AfterFailure
  <1>11. k + 1 - 1 = k /\ (k + 1 < MaxRetries + 1 => k < MaxRetries /\ k + 1 \in 1..MaxRetries)
    BY <1>4
  <1>. HIDE DEF k
  <1>12. call'[d].tries - 1 = k /\ call'[d].spent <= (k + 1) * Timeout + Waits[k]
    BY <1>3, <1>4, <1>8
  <1>13. CASE pc'[d] = "waiting"
    <2>1. k + 1 \in 1..MaxRetries /\ call'[d].delay = Wait[k + 1]
      BY <1>3, <1>6, <1>9, <1>10, <1>11, <1>13
    <2>. QED
      BY <1>3, <1>12, <1>13, <2>1 DEF SpentAt
  <1>14. CASE pc'[d] \in {"delivered", "exhausted"}
    BY <1>3, <1>12, <1>14 DEF SpentAt
  <1>. QED
    BY <1>9, <1>10, <1>13, <1>14

LEMMA WaitSpends ==
    ASSUME BudgetInv, NEW d \in Launches, WaitForRetry(d) PROVE SpentAt(d)'
  <1>. DEFINE k == call[d].tries
  <1>1. SpentAt(d) /\ DeliveryInv /\ pc[d] = "waiting"
    BY DEF BudgetInv, WaitForRetry
  <1>2. /\ call'[d].tries = k /\ call'[d].spent = call[d].spent + call[d].delay
        /\ call'[d].delay = NextDelay(call[d].delay) /\ pc'[d] = "posting"
    BY <1>1, LaunchCall DEF WaitForRetry
  <1>3. /\ k \in 1..MaxRetries /\ call[d].delay = Wait[k]
        /\ call[d].spent <= k * Timeout + Waits[k - 1]
    BY <1>1 DEF SpentAt
  <1>4. MaxRetries \in Nat /\ call[d].spent \in Nat
    BY <1>1, LaunchCall
  <1>5. Waits[k] = Waits[k - 1] + Wait[k] /\ Waits[k - 1] \in Nat /\ Wait[k] \in Nat
    <2>1. k \in 0..MaxRetries /\ k - 1 \in 0..MaxRetries /\ k # 0
      BY <1>3, <1>4
    <2>. HIDE DEF k
    <2>. QED
      BY <1>3, <2>1, WaitIs, WaitsIs
  <1>6. k < MaxRetries => NextDelay(Wait[k]) = Wait[k + 1]
    <2>. HIDE DEF k
    <2>. QED
      BY <1>3, WaitAfter
  <1>7. k * Timeout \in Nat
    BY <1>3, <1>4, TimesTimeout
  <1>8. call[d].spent + Wait[k] <= k * Timeout + Waits[k]
    <2>. HIDE DEF k
    <2>. QED
      BY <1>3, <1>4, <1>5, <1>7
  <1>. HIDE DEF k
  <1>. QED
    BY <1>2, <1>3, <1>6, <1>8 DEF SpentAt

\* One step of one dispatcher.
LEMMA DispatcherSpends ==
    ASSUME BudgetInv, NEW d \in Dispatchers, DispatchStep(d) \/ Crash(d) \/ RequestCallback(d)
    PROVE  \A e \in Launches : SpentAt(e)'
  <1>1. SUFFICES ASSUME NEW e \in Launches PROVE SpentAt(e)'
    OBVIOUS
  <1>2. SpentAt(e) /\ DeliveryInv
    BY DEF BudgetInv
  <1>3. CASE e # d
    <2>1. call'[e] = call[e] /\ pc'[e] = pc[e]
      BY <1>2, <1>3, LaunchCall
         DEF DispatchStep, Prepare, Deliver, Attempt, WaitForRetry, MarkSent, MarkFailed,
             MarkWebhook, Returns, Crash, RequestCallback
    <2>. QED
      BY <1>2, <2>1, OtherSpent
  <1>4. CASE e = d
    <2>1. CASE Prepare(d)
      BY <1>4, <2>1, PrepareSpends
    <2>2. CASE Deliver(d)
      BY <1>4, <2>2, DeliverSpends
    <2>3. CASE WaitForRetry(d)
      BY <1>4, <2>3, WaitSpends
    <2>4. CASE Returns(d)
      BY <1>2, <1>4, <2>4, LaunchCall DEF Returns, NewCall, SpentAt
    <2>5. ~ RequestCallback(d)
      BY <1>4, DeliveryAssumption DEF RequestCallback
    <2>. QED
      BY <2>1, <2>2, <2>3, <2>4, <2>5 DEF DispatchStep, MarkSent, MarkFailed, MarkWebhook, Crash
  <1>. QED
    BY <1>3, <1>4

LEMMA BudgetStepKeeps == ASSUME BudgetInv, [Next]_vars PROVE BudgetInv'
  <1>1. DeliveryInv'
    BY DeliveryStep DEF BudgetInv
  <1>2. CASE UNCHANGED <<pc, call>>
    BY <1>1, <1>2, OtherSpent DEF BudgetInv
  <1>3. CASE \E d \in Dispatchers :
                /\ pc[d] = "idle" /\ pc' = [pc EXCEPT ![d] = "preparing"]
                /\ UNCHANGED call
    <2>1. SUFFICES ASSUME NEW e \in Launches PROVE SpentAt(e)'
      BY <1>1 DEF BudgetInv
    <2>2. SpentAt(e) /\ DeliveryInv
      BY DEF BudgetInv
    <2>3. pc \in [Dispatchers -> PC] /\ e \in Dispatchers
      BY <2>2, LaunchCall
    <2>4. call'[e] = call[e] /\ (pc'[e] = pc[e] \/ (pc[e] = "idle" /\ pc'[e] = "preparing"))
      BY <1>3, <2>3
    <2>. QED
      BY <2>2, <2>4 DEF SpentAt
  <1>4. CASE \E d \in Dispatchers : DispatchStep(d) \/ Crash(d) \/ RequestCallback(d)
    BY <1>1, <1>4, DispatcherSpends DEF BudgetInv
  <1>5. CASE FinishOne \/ CountOne \/ Sweep \/ UNCHANGED vars
    BY <1>2, <1>3, <1>5 DEF FinishOne, CountOne, Sweep, vars, Dispatchers
  <1>. QED
    BY <1>4, <1>5 DEF Next

\* The context of a worker's dispatch never ends before its last attempt and the
\* statement that records the outcome, for every retry configuration and
\* however slow the receiver is (RetryBudget, deliverWithRetry).
THEOREM BudgetIsEnough == Spec => []BudgetCoversRetries
  <1>1. ASSUME BudgetInv, NEW d \in Launches
        PROVE  /\ pc[d] = "posting" => call[d].spent + Timeout + Margin <= RetryBudget
               /\ pc[d] \in {"delivered", "exhausted"} => call[d].spent + Margin <= RetryBudget
    <2>. DEFINE k == call[d].tries
    <2>1. SpentAt(d) /\ DeliveryInv
      BY <1>1 DEF BudgetInv
    <2>2. MaxRetries \in Nat /\ Timeout \in Nat /\ Margin \in Nat /\ call[d].spent \in Nat
          /\ Waits[MaxRetries] \in Nat
      BY <2>1, LaunchCall, WaitsIs, DeliveryAssumption
    <2>3. RetryBudget = (MaxRetries + 1) * Timeout + Waits[MaxRetries] + Margin
      BY DEF RetryBudget
    <2>4. (MaxRetries + 1) * Timeout \in Nat
      BY <2>2
    <2>5. CASE pc[d] = "posting"
      <3>1. k \in 0..MaxRetries /\ call[d].spent <= k * Timeout + Waits[k]
        BY <2>1, <2>2, <2>5, LaunchCall DEF SpentAt, DispatcherInv
      <3>. HIDE DEF k
      <3>2. Waits[k] \in Nat /\ Waits[k] <= Waits[MaxRetries]
        BY <3>1, WaitsIs, WaitsGrow
      <3>3. /\ k * Timeout \in Nat /\ k * Timeout <= MaxRetries * Timeout
            /\ MaxRetries * Timeout \in Nat
            /\ (MaxRetries + 1) * Timeout = MaxRetries * Timeout + Timeout
        BY <2>2, <3>1, TimesTimeout
      <3>. QED
        BY <2>2, <2>3, <2>4, <2>5, <3>1, <3>2, <3>3
    <2>6. CASE pc[d] \in {"delivered", "exhausted"}
      <3>1. k \in 1..(MaxRetries + 1) /\ call[d].spent <= k * Timeout + Waits[k - 1]
        BY <2>1, <2>2, <2>6, LaunchCall DEF SpentAt, DispatcherInv
      <3>. HIDE DEF k
      <3>2. Waits[k - 1] \in Nat /\ Waits[k - 1] <= Waits[MaxRetries]
        BY <2>2, <3>1, WaitsIs, WaitsGrow
      <3>3. k * Timeout \in Nat /\ k * Timeout <= (MaxRetries + 1) * Timeout
        BY <2>2, <3>1, TimesTimeout
      <3>. QED
        BY <2>2, <2>3, <2>4, <2>6, <3>1, <3>2, <3>3
    <2>. QED
      BY <2>5, <2>6
  <1>2. BudgetInv => BudgetCoversRetries
    BY <1>1 DEF BudgetCoversRetries
  <1>. QED
    BY <1>2, BudgetInitHolds, BudgetStepKeeps, PTL DEF Spec

=============================================================================
