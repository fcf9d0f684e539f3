------------------------------ MODULE BulkSweep ------------------------------
(***************************************************************************)
(* The background sweeps of the api-gateway over many batches: POST        *)
(* /webhooks/retrigger delivers every completed batch whose webhook_status *)
(* is the given one, POST /batches/start-pending starts every pending      *)
(* batch. Both walk the ids page by page (id > afterID ORDER BY id LIMIT n)*)
(* and handle a page with bounded concurrency, while workers, users, the   *)
(* reconciler and another sweep move batches into and out of the set.      *)
(***************************************************************************)
EXTENDS Naturals, FiniteSets, FiniteSetsExt

CONSTANTS
    Ids,          \* the batch ids, in the order of the index
    Sweeps,       \* the sweeps that run at the same time
    PageSize, Concurrency,
    MaxSweepFailures  \* bound: how many failures are explored

ASSUME SweepAssumption ==
    /\ Ids \subseteq Nat \ {0} /\ IsFiniteSet(Ids)
    /\ PageSize \in Nat \ {0} /\ Concurrency \in Nat \ {0} /\ MaxSweepFailures \in Nat

VARIABLES
    matching,   \* the batches in the set now: pending, or not delivered
    steady,     \* per sweep: the batches that were in the set ever since it began
    sweep,      \* how far each sweep got
    afterId,    \* its cursor
    page,       \* the ids of its page that are not handed out yet
    lastPage,   \* its page was shorter than PageSize
    flying,     \* the ids its goroutines work on: the tokens taken from sem
    visited,    \* the ids it handed out
    twice,      \* the ids it handed out more than once
    sweepFailures

sweepVars == <<matching, steady, sweep, afterId, page, lastPage, flying, visited, twice,
               sweepFailures>>

SweepState == {"idle", "fetching", "handing", "stopping", "done", "stopped"}

\* Every variable keeps its type, no more goroutines run than the semaphore has
\* tokens, and none when the sweep reads a page or has ended.
SweepTypeOK ==
    /\ matching \subseteq Ids
    /\ steady \in [Sweeps -> SUBSET Ids]
    /\ sweep \in [Sweeps -> SweepState]
    /\ afterId \in [Sweeps -> Ids \cup {0}]
    /\ page \in [Sweeps -> SUBSET Ids]
    /\ lastPage \in [Sweeps -> BOOLEAN]
    /\ flying \in [Sweeps -> SUBSET Ids]
    /\ visited \in [Sweeps -> SUBSET Ids]
    /\ twice \in [Sweeps -> SUBSET Ids]
    /\ sweepFailures \in 0..MaxSweepFailures
    /\ \A w \in Sweeps : Cardinality(flying[w]) <= Concurrency
    /\ \A w \in Sweeps : flying[w] # {} => sweep[w] \in {"handing", "stopping"}

SweepInit ==
    /\ matching \in SUBSET Ids
    /\ steady = [w \in Sweeps |-> {}]
    /\ sweep = [w \in Sweeps |-> "idle"]
    /\ afterId = [w \in Sweeps |-> 0]
    /\ page = [w \in Sweeps |-> {}]
    /\ lastPage = [w \in Sweeps |-> FALSE]
    /\ flying = [w \in Sweeps |-> {}]
    /\ visited = [w \in Sweeps |-> {}]
    /\ twice = [w \in Sweeps |-> {}]
    /\ sweepFailures = 0

SweepFails == sweepFailures < MaxSweepFailures /\ sweepFailures' = sweepFailures + 1
SweepWorks == UNCHANGED sweepFailures

\* The batches in the set change: one that leaves is not steady for any sweep.
SetBecomes(S) ==
    /\ matching' = S
    /\ steady' = [w \in Sweeps |-> steady[w] \cap S]

\* The first n elements of S.
FirstOf(S, n) == {i \in S : Cardinality({j \in S : j <= i}) <= n}

-----------------------------------------------------------------------------
\* A batch is created, completes, is started or delivered by someone else.
BatchMoves(i) ==
    /\ SetBecomes(IF i \in matching THEN matching \ {i} ELSE matching \cup {i})
    /\ SweepWorks
    /\ UNCHANGED <<sweep, afterId, page, lastPage, flying, visited, twice>>

\* The count found some batch: the sweep begins in the background.
BeginSweep(w) ==
    /\ sweep[w] = "idle" /\ matching # {}
    /\ sweep' = [sweep EXCEPT ![w] = "fetching"]
    /\ steady' = [steady EXCEPT ![w] = matching]
    /\ SweepWorks
    /\ UNCHANGED <<matching, afterId, page, lastPage, flying, visited, twice>>

\* As if pages were told apart by OFFSET: the rows counted so far are skipped,
\* in a set that the sweep itself makes smaller.
PageByOffset(w) ==
    FirstOf(matching, Cardinality(visited[w]) + PageSize)
        \ FirstOf(matching, Cardinality(visited[w]))

\* As if the cursor's own id were in the next page.
PageFrom(w) == FirstOf({i \in matching : i >= afterId[w]}, PageSize)

\* As if what was handed out had left the set, and no cursor were needed.
PageFromStart(w) == FirstOf(matching, PageSize)

\* ListBatchIDsByWebhookStatus, ListBatchIDsByStatus
NextPage(w) == FirstOf({i \in matching : i > afterId[w]}, PageSize)

\* A page is read, and the cursor moved behind it; an empty page, or a failure,
\* ends the sweep.
FetchPage(w) ==
    /\ sweep[w] = "fetching"
    /\ \/ /\ SweepFails
          /\ sweep' = [sweep EXCEPT ![w] = "stopped"]
          /\ UNCHANGED <<afterId, page, lastPage>>
       \/ /\ NextPage(w) = {} /\ SweepWorks
          /\ sweep' = [sweep EXCEPT ![w] = "done"]
          /\ UNCHANGED <<afterId, page, lastPage>>
       \/ /\ NextPage(w) # {} /\ SweepWorks
          /\ sweep' = [sweep EXCEPT ![w] = "handing"]
          /\ page' = [page EXCEPT ![w] = NextPage(w)]
          /\ afterId' = [afterId EXCEPT ![w] = Max(NextPage(w))]
          /\ lastPage' = [lastPage EXCEPT ![w] = Cardinality(NextPage(w)) < PageSize]
    /\ UNCHANGED <<matching, steady, flying, visited, twice>>

\* As if the semaphore had a token more.
HasTokenMore(w) == Cardinality(flying[w]) <= Concurrency

\* The semaphore has a token.
HasToken(w) == Cardinality(flying[w]) < Concurrency

\* A goroutine gets the next id of the page.
HandOut(w) ==
    /\ sweep[w] = "handing" /\ page[w] # {}
    /\ HasToken(w)
    /\ LET i == Min(page[w]) IN
       /\ page' = [page EXCEPT ![w] = @ \ {i}]
       /\ flying' = [flying EXCEPT ![w] = @ \cup {i}]
       /\ visited' = [visited EXCEPT ![w] = @ \cup {i}]
       /\ twice' = [twice EXCEPT ![w] = @ \cup ({i} \cap visited[w])]
    /\ SweepWorks
    /\ UNCHANGED <<matching, steady, sweep, afterId, lastPage>>

\* The goroutine ends. The batch has left the set, by its delivery or its start
\* or by somebody else's; or it fails and stays, or is back.
Handled(w, i) ==
    /\ i \in flying[w]
    /\ flying' = [flying EXCEPT ![w] = @ \ {i}]
    /\ \/ SetBecomes(matching \ {i}) /\ SweepWorks
       \/ SetBecomes(matching \cup {i}) /\ SweepFails
    /\ UNCHANGED <<sweep, afterId, page, lastPage, visited, twice>>

\* wg.Wait: the page is drained before the next one is read.
EndPage(w) ==
    /\ sweep[w] = "handing" /\ page[w] = {} /\ flying[w] = {}
    /\ sweep' = [sweep EXCEPT ![w] = IF lastPage[w] THEN "done" ELSE "fetching"]
    /\ SweepWorks
    /\ UNCHANGED <<matching, steady, afterId, page, lastPage, flying, visited, twice>>

\* bulkRetriggerMaxRuntime is over: no id is handed out any more, and the
\* goroutines are waited for.
RuntimeEnds(w) ==
    /\ sweep[w] = "handing"
    /\ sweep' = [sweep EXCEPT ![w] = "stopping"]
    /\ page' = [page EXCEPT ![w] = {}]
    /\ SweepFails
    /\ UNCHANGED <<matching, steady, afterId, lastPage, flying, visited, twice>>

StopSweep(w) ==
    /\ sweep[w] = "stopping" /\ flying[w] = {}
    /\ sweep' = [sweep EXCEPT ![w] = "stopped"]
    /\ SweepWorks
    /\ UNCHANGED <<matching, steady, afterId, page, lastPage, flying, visited, twice>>

SweepStep(w) ==
    \/ FetchPage(w) \/ HandOut(w) \/ EndPage(w) \/ StopSweep(w)
    \/ \E i \in flying[w] : Handled(w, i)

SweepNext ==
    \/ \E i \in Ids : BatchMoves(i)
    \/ \E w \in Sweeps : BeginSweep(w) \/ SweepStep(w) \/ RuntimeEnds(w)

SweepSpec == SweepInit /\ [][SweepNext]_sweepVars

-----------------------------------------------------------------------------
(* Properties                                                              *)

\* A sweep that reached its end has handed out every batch that was in the set
\* all the time, although batches left and entered while it read page after
\* page ("never cause a revisit or a skip", runBulkRetrigger).
SweepMissesNone ==
    \A w \in Sweeps : sweep[w] = "done" => steady[w] \subseteq visited[w]

\* No sweep hands out a batch twice, though one whose delivery failed is still
\* in the set when the next page is read.
SweepVisitsOnce == \A w \in Sweeps : twice[w] = {}

\* Every sweep comes to an end, whatever enters the set meanwhile: its cursor
\* only grows.
SweepEnds == \A w \in Sweeps : []<>(sweep[w] \in {"idle", "done", "stopped"})
=============================================================================
