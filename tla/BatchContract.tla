---------------------------- MODULE BatchContract ----------------------------
(***************************************************************************)
(* What the platform promises the owner of a batch: the batch starts once, *)
(* every one of its submissions finishes once, and once all of them have   *)
(* finished its webhook is fired exactly once.                             *)
(*                                                                         *)
(* This is the promise of knowledge.md section 2.8 and of the comments on  *)
(* models.Batch; BatchPipeline is the code that is to keep it.             *)
(***************************************************************************)
EXTENDS Naturals

CONSTANT Subs      \* the submissions of the batch

VARIABLES started, \* the START request has been honoured
          finished,\* the submissions with a terminal result
          fired    \* how many times the webhook has been fired

contractVars == <<started, finished, fired>>

Init ==
    /\ started = FALSE
    /\ finished = {}
    /\ fired = 0

\* The batch is taken out of "pending".
Start ==
    /\ ~started
    /\ started' = TRUE
    /\ UNCHANGED <<finished, fired>>

\* A submission reaches a terminal result; it never loses it.
Finish(s) ==
    /\ started
    /\ s \notin finished
    /\ finished' = finished \cup {s}
    /\ UNCHANGED <<started, fired>>

\* The batch result goes out, when there is a result for every submission.
Fire ==
    /\ finished = Subs
    /\ fired = 0
    /\ fired' = 1
    /\ UNCHANGED <<started, finished>>

Next ==
    \/ Start
    \/ \E s \in Subs : Finish(s)
    \/ Fire

Spec ==
    /\ Init
    /\ [][Next]_contractVars
    /\ WF_contractVars(Next)
=============================================================================
