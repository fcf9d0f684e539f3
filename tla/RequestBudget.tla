---------------------------- MODULE RequestBudget ----------------------------
(***************************************************************************)
(* The rate limit of the api-gateway's routes. The requests of a client    *)
(* are counted per class of route and period, in counters that every       *)
(* replica shares; the store increments and reads a counter in one step.   *)
(***************************************************************************)
EXTENDS Integers

CONSTANTS
    Classes,          \* the classes of routes, "auth" among them
    Clients,          \* API keys and addresses
    TrustedClients,   \* the API keys that no limit applies to
    TierLimit,        \* the limit of each class, 0 or less when it is not set
    DefaultLimit,
    MaxRequests,      \* bound: the requests of a client in a class and period
    MaxStoreFailures  \* bound: how often the store of the counters fails

ASSUME BudgetAssumption ==
    /\ TrustedClients \subseteq Clients
    /\ TierLimit \in [Classes -> Int] /\ DefaultLimit \in Nat
    /\ MaxRequests \in Nat /\ MaxStoreFailures \in Nat

VARIABLES
    counter,    \* the shared counters
    requests,   \* the requests of each client in each class in this period
    served,     \* those that were let through
    storeFailures

budgetVars == <<counter, requests, served, storeFailures>>

Buckets == Classes \X Clients

\* Every variable keeps its type.
BudgetTypeOK ==
    /\ counter \in [Buckets -> Nat]
    /\ requests \in [Buckets -> 0..MaxRequests]
    /\ served \in [Buckets -> Nat]
    /\ storeFailures \in 0..MaxStoreFailures
    /\ \A b \in Buckets : served[b] <= requests[b]

BudgetInit ==
    /\ counter = [b \in Buckets |-> 0]
    /\ requests = [b \in Buckets |-> 0]
    /\ served = [b \in Buckets |-> 0]
    /\ storeFailures = 0

\* tierRate
Rate(c) == IF TierLimit[c] <= 0 THEN DefaultLimit ELSE TierLimit[c]

\* isTrusted; the requests of the class "auth" are not authenticated yet.
Bypasses(c, k) == k \in TrustedClients /\ c # "auth"

\* As if a client had one bucket for all its requests.
OneBucket(c, k) == <<"auth", k>>

\* rateLimitKey
Bucket(c, k) == <<c, k>>

Passes(b) == served' = [served EXCEPT ![b] = @ + 1]

\* The period of the counters is over. (External: the store's time to live. The
\* periods of all buckets are one here.)
PeriodEnds ==
    /\ \E b \in Buckets : requests[b] > 0
    /\ counter' = [b \in Buckets |-> 0]
    /\ requests' = [b \in Buckets |-> 0]
    /\ served' = [b \in Buckets |-> 0]
    /\ UNCHANGED storeFailures

\* A request meets the limiter of its class: it is let through when nothing
\* limits it, the store fails, or its counter is not above the limit.
Request(c, k) ==
    LET b == <<c, k>> IN
    /\ requests[b] < MaxRequests
    /\ requests' = [requests EXCEPT ![b] = @ + 1]
    /\ \/ Bypasses(c, k) /\ Passes(b) /\ UNCHANGED <<counter, storeFailures>>
       \/ /\ ~Bypasses(c, k) /\ storeFailures < MaxStoreFailures
          /\ storeFailures' = storeFailures + 1
          /\ Passes(b) /\ UNCHANGED counter
       \/ /\ ~Bypasses(c, k)
          /\ counter' = [counter EXCEPT ![Bucket(c, k)] = @ + 1]
          /\ IF counter[Bucket(c, k)] < Rate(c) THEN Passes(b) ELSE UNCHANGED served
          /\ UNCHANGED storeFailures

BudgetNext == PeriodEnds \/ \E c \in Classes, k \in Clients : Request(c, k)

BudgetSpec == BudgetInit /\ [][BudgetNext]_budgetVars

\* A client is refused in a class only for its own requests in that class, and
\* is served no more than the limit, unless the store failed or it is trusted
\* ("high-frequency polling reads cannot exhaust the budget reserved for
\* expensive writes", RateLimiters).
BudgetsAreSeparate ==
    \A c \in Classes, k \in Clients :
        LET b == <<c, k>> IN
        /\ served[b] < requests[b] => requests[b] > Rate(c)
        /\ served[b] > Rate(c) + storeFailures => Bypasses(c, k)
=============================================================================
