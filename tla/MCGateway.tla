------------------------------ MODULE MCGateway ------------------------------
(***************************************************************************)
(* The parts of the api-gateway around a submission, in one instance for   *)
(* TLC. They share no state, so one of them runs in a behaviour: the one   *)
(* that `focus` names. The others stay as they begin.                      *)
(***************************************************************************)
EXTENDS SubmissionStore, ResultWaiter, BulkSweep, LanguageCache, RequestBudget, SlidingWindow

VARIABLE focus

gatewayVars == <<focus, subVars, waitVars, sweepVars, langVars, budgetVars, windowVars>>

Tiers == [c \in Classes |-> IF c = "auth" THEN 0 ELSE 2]

\* Every variable keeps its type.
GatewayTypeOK ==
    /\ focus \in {"submission", "wait", "sweep", "language", "budget", "window"}
    /\ SubTypeOK /\ WaitTypeOK /\ SweepTypeOK /\ LangTypeOK /\ BudgetTypeOK /\ WindowTypeOK

GatewayInit ==
    /\ focus \in {"submission", "wait", "sweep", "language", "budget", "window"}
    /\ SubInit /\ WaitInit /\ SweepInit /\ LangInit /\ BudgetInit /\ WindowInit
    /\ origin = "api" \/ focus = "submission"
    /\ matching = {} \/ focus = "sweep"

GatewayNext ==
    /\ \/ /\ focus = "submission" /\ SubNext
          /\ UNCHANGED <<waitVars, sweepVars, langVars, budgetVars, windowVars>>
       \/ /\ focus = "wait" /\ WaitNext
          /\ UNCHANGED <<subVars, sweepVars, langVars, budgetVars, windowVars>>
       \/ /\ focus = "sweep" /\ SweepNext
          /\ UNCHANGED <<subVars, waitVars, langVars, budgetVars, windowVars>>
       \/ /\ focus = "language" /\ LangNext
          /\ UNCHANGED <<subVars, waitVars, sweepVars, budgetVars, windowVars>>
       \/ /\ focus = "budget" /\ BudgetNext
          /\ UNCHANGED <<subVars, waitVars, sweepVars, langVars, windowVars>>
       \/ /\ focus = "window" /\ WindowNext
          /\ UNCHANGED <<subVars, waitVars, sweepVars, langVars, budgetVars>>
    /\ UNCHANGED focus

-----------------------------------------------------------------------------
(***************************************************************************)
(* Requests, jobs, sweeps and goroutines that began go on, the timers of   *)
(* pollers fire, and Redis drops what has reached its time to live. Nobody *)
(* has to ask or to delete, no deadline has to pass, and no message has to *)
(* arrive.                                                                 *)
(***************************************************************************)
SubmissionFairness ==
    /\ WF_subVars(focus = "submission" /\ Expire)
    /\ WF_subVars(focus = "submission" /\ (CreateRow \/ SeedEntry \/ PublishJob))
    /\ \A a \in Attempts : WF_subVars(focus = "submission" /\ AttemptRuns(a))
    /\ \A r \in Readers : WF_subVars(focus = "submission" /\ (ReadRow(r) \/ FillEntry(r)))

WaitFairness ==
    /\ \A w \in Listeners : WF_waitVars(focus = "wait" /\ ListenerStep(w))
    /\ \A w \in Listeners : WF_waitVars(focus = "wait" /\ PollerStep(w))
    /\ \A w \in Callers : WF_waitVars(focus = "wait" /\ CallerStep(w))

SweepFairness == \A w \in Sweeps : WF_sweepVars(focus = "sweep" /\ SweepStep(w))

LanguageFairness ==
    /\ \A k \in Keys : WF_langVars(focus = "language" /\ LangExpires(k))
    /\ \A r \in LangReaders : WF_langVars(focus = "language" /\ LangReaderStep(r))
    /\ WF_langVars(focus = "language" /\ RefreshStep)
    /\ \A j \in Lookups : WF_langVars(focus = "language" /\ LookupStep(j))

GatewaySpec ==
    /\ GatewayInit /\ [][GatewayNext]_gatewayVars
    /\ SubmissionFairness /\ WaitFairness /\ SweepFairness /\ LanguageFairness
=============================================================================
