---------------------------- MODULE SlidingWindow ----------------------------
(***************************************************************************)
(* cache.RateLimiter: the requests of the last window are a sorted set of  *)
(* time stamps in Redis. A call takes the time, then sends its commands in *)
(* a pipeline that is no transaction, so that those of several callers     *)
(* interleave. (The api-gateway uses RequestBudget in its place.)          *)
(***************************************************************************)
EXTENDS Integers, FiniteSets

CONSTANTS
    Calls,            \* the calls of Allow, for one key
    WindowLimit, Window,
    MaxDelay,         \* how long the commands of a call may take
    MaxClock          \* bound: where time ends

ASSUME WindowAssumption ==
    /\ WindowLimit \in Nat /\ Window \in Nat /\ MaxDelay \in Nat /\ MaxClock \in Nat

VARIABLES
    clock,
    stamps,     \* the sorted set
    call,       \* how far each call got
    now,        \* the time that each call took when it began
    admitted    \* the time stamps of the calls that were allowed

windowVars == <<clock, stamps, call, now, admitted>>

\* Every variable keeps its type, and no time stamp is in the future.
WindowTypeOK ==
    /\ clock \in 0..MaxClock
    /\ stamps \subseteq 0..clock
    /\ call \in [Calls -> {"idle", "trimming", "adding", "counting", "over"}]
    /\ now \in [Calls -> 0..clock]
    /\ admitted \subseteq 0..clock

WindowInit ==
    /\ clock = 0 /\ stamps = {} /\ admitted = {}
    /\ call = [i \in Calls |-> "idle"]
    /\ now = [i \in Calls |-> 0]

\* Time passes, though no call lasts longer than MaxDelay.
Tick ==
    /\ clock < MaxClock
    /\ \A i \in Calls : call[i] \in {"idle", "over"} \/ clock < now[i] + MaxDelay
    /\ clock' = clock + 1
    /\ UNCHANGED <<stamps, call, now, admitted>>

CallGoes(i, from, to) ==
    /\ call[i] = from
    /\ call' = [call EXCEPT ![i] = to]
    /\ UNCHANGED clock

TakeTime(i) ==
    /\ CallGoes(i, "idle", "trimming")
    /\ now' = [now EXCEPT ![i] = clock]
    /\ UNCHANGED <<stamps, admitted>>

\* ZREMRANGEBYSCORE
Trim(i) ==
    /\ CallGoes(i, "trimming", "adding")
    /\ stamps' = {s \in stamps : s > now[i] - Window}
    /\ UNCHANGED <<now, admitted>>

\* As if a call were counted only once others have been.
AddLater(i) ==
    /\ CallGoes(i, "adding", "counting")
    /\ UNCHANGED <<stamps, now, admitted>>

\* ZADD: the time stamp is the member, so that calls of one time are one.
AddStamp(i) ==
    /\ CallGoes(i, "adding", "counting")
    /\ stamps' = stamps \cup {now[i]}
    /\ UNCHANGED <<now, admitted>>

\* ZCARD, and the decision. A call that is refused stays counted.
Count(i) ==
    /\ CallGoes(i, "counting", "over")
    /\ admitted' = IF Cardinality(stamps) <= WindowLimit THEN admitted \cup {now[i]}
                                                         ELSE admitted
    /\ UNCHANGED <<stamps, now>>

\* EXPIRE: nobody has called for the length of a window.
KeyExpires ==
    /\ stamps # {}
    /\ \A i \in Calls : call[i] \in {"idle", "over"}
    /\ \A s \in stamps : s + Window <= clock
    /\ stamps' = {}
    /\ UNCHANGED <<clock, call, now, admitted>>

CallStep(i) == TakeTime(i) \/ Trim(i) \/ AddStamp(i) \/ Count(i)

WindowNext == Tick \/ KeyExpires \/ \E i \in Calls : CallStep(i)

WindowSpec == WindowInit /\ [][WindowNext]_windowVars

\* However the commands of concurrent calls interleave, the calls allowed at
\* different times of a window are no more than the limit, where the window is
\* shorter than the configured one by as much as a call may take: a later call
\* may have removed time stamps that a slow one should still have counted.
AdmitsAtMostLimit ==
    \A t \in 0..clock :
        Cardinality({s \in admitted : t - (Window - MaxDelay) < s /\ s <= t}) <= WindowLimit
=============================================================================
