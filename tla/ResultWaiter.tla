---------------------------- MODULE ResultWaiter ----------------------------
(***************************************************************************)
(* Waiting for the result of one submission, in its two forms. A listener  *)
(* (ResultWaiter.WaitForResult) subscribes to the notification and polls   *)
(* the cache from a goroutine of its own; a caller (POST /submissions with *)
(* ?wait) only polls. The cached answer is written by workers, readers and *)
(* fan-outs, and expires: SubmissionStore has the detail.                  *)
(***************************************************************************)
EXTENDS Naturals

CONSTANTS
    Listeners, Callers,
    MaxWaitFailures  \* bound: how many Redis commands of waiters fail

Waiters == Listeners \cup Callers

ASSUME WaitAssumption == Listeners \cap Callers = {} /\ MaxWaitFailures \in Nat

VARIABLES
    waiter,     \* how far each waiter got
    cached,     \* the cached answer: none, of an unfinished, or a finished submission
    announced,  \* the worker has sent the notification
    inbox,      \* each listener's subscription: not in force yet, in force, with a message
    poller,     \* the polling goroutine of each listener
    pollDone,   \* the channel from it, which holds one value
    due,        \* the waiter's context has ended
    waitFailures

waitVars == <<waiter, cached, announced, inbox, poller, pollDone, due, waitFailures>>
listenerVars == <<inbox, poller, pollDone>>

WaiterState == {"idle", "checking", "waiting", "relying", "served", "unserved"}

\* Every variable keeps its type; a listener polls only while it may have to.
WaitTypeOK ==
    /\ waiter \in [Waiters -> WaiterState]
    /\ cached \in {"none", "unfinished", "finished"}
    /\ announced \in BOOLEAN
    /\ inbox \in [Listeners -> {"none", "open", "message", "closed"}]
    /\ poller \in [Listeners -> {"off", "polling", "over"}]
    /\ pollDone \in [Listeners -> {"empty", "result", "error"}]
    /\ due \in [Waiters -> BOOLEAN]
    /\ waitFailures \in 0..MaxWaitFailures
    /\ \A w \in Listeners : waiter[w] \in {"idle", "checking"} => poller[w] = "off"

WaitInit ==
    /\ waiter = [w \in Waiters |-> "idle"]
    /\ cached = "unfinished" /\ announced = FALSE
    /\ inbox = [w \in Listeners |-> "none"]
    /\ poller = [w \in Listeners |-> "off"]
    /\ pollDone = [w \in Listeners |-> "empty"]
    /\ due = [w \in Waiters |-> FALSE]
    /\ waitFailures = 0

WaitFails == waitFailures < MaxWaitFailures /\ waitFailures' = waitFailures + 1
WaitWorks == UNCHANGED waitFailures

-----------------------------------------------------------------------------
(* The others: writers of the cached answer, and the worker's notification *)

CachedChanges ==
    /\ cached' \in {"none", "unfinished", "finished"} \ {cached}
    /\ WaitWorks
    /\ UNCHANGED <<waiter, announced, listenerVars, due>>

\* PublishDone reaches the subscriptions in force, and nobody else.
PublishDone ==
    /\ ~announced /\ cached = "finished"
    /\ announced' = TRUE
    /\ inbox' = [w \in Listeners |-> IF inbox[w] = "open" THEN "message" ELSE inbox[w]]
    /\ WaitWorks
    /\ UNCHANGED <<waiter, cached, poller, pollDone, due>>

-----------------------------------------------------------------------------
(* What waiters share                                                      *)

\* isTerminalResp, isTerminalStatus
IsTerminal(answer) == answer = "finished"

\* The read of the cache finds a result, or none; it may fail.
Finds == IsTerminal(cached) /\ WaitWorks
FindsNone == ~IsTerminal(cached) /\ WaitWorks

\* WaitForResult returns: it closes the subscription and ends its context,
\* which the poller notices by itself.
Returns(w, how) ==
    /\ waiter' = [waiter EXCEPT ![w] = how]
    /\ due' = [due EXCEPT ![w] = TRUE]
    /\ inbox' = IF w \in Listeners THEN [inbox EXCEPT ![w] = "closed"] ELSE inbox

DeadlinePasses(w) ==
    /\ waiter[w] \in {"checking", "waiting", "relying"} /\ ~due[w]
    /\ due' = [due EXCEPT ![w] = TRUE]
    /\ WaitWorks
    /\ UNCHANGED <<waiter, cached, announced, listenerVars>>

-----------------------------------------------------------------------------
(* A listener                                                              *)

\* The first look, and the command to subscribe, whose confirmation is not
\* waited for.
StartListening(w) ==
    /\ waiter[w] = "idle"
    /\ \/ Finds /\ Returns(w, "served")
       \/ /\ FindsNone \/ WaitFails
          /\ waiter' = [waiter EXCEPT ![w] = "checking"]
          /\ UNCHANGED <<inbox, due>>
    /\ UNCHANGED <<cached, announced, poller, pollDone>>

\* Redis takes the subscription, before the second look or after it.
SubscriptionStarts(w) ==
    /\ waiter[w] \in {"checking", "waiting"} /\ inbox[w] = "none"
    /\ inbox' = [inbox EXCEPT ![w] = "open"]
    /\ WaitWorks
    /\ UNCHANGED <<waiter, cached, announced, poller, pollDone, due>>

\* The second look, and the start of the poller.
SecondLook(w) ==
    /\ waiter[w] = "checking"
    /\ \/ Finds /\ Returns(w, "served") /\ UNCHANGED poller
       \/ /\ FindsNone \/ WaitFails
          /\ waiter' = [waiter EXCEPT ![w] = "waiting"]
          /\ poller' = [poller EXCEPT ![w] = "polling"]
          /\ UNCHANGED <<inbox, due>>
    /\ UNCHANGED <<cached, announced, pollDone>>

\* A message arrives: the cache is asked, and without a result in it the
\* listener goes on waiting.
HearDone(w) ==
    /\ waiter[w] = "waiting" /\ inbox[w] = "message"
    /\ \/ Finds /\ Returns(w, "served")
       \/ /\ FindsNone \/ WaitFails
          /\ inbox' = [inbox EXCEPT ![w] = "open"]
          /\ UNCHANGED <<waiter, due>>
    /\ UNCHANGED <<cached, announced, poller, pollDone>>

\* The channel of messages is closed: only the poller is left.
ChannelCloses(w) ==
    /\ waiter[w] = "waiting" /\ inbox[w] \in {"open", "message"}
    /\ waiter' = [waiter EXCEPT ![w] = "relying"]
    /\ inbox' = [inbox EXCEPT ![w] = "closed"]
    /\ WaitFails
    /\ UNCHANGED <<cached, announced, poller, pollDone, due>>

\* As if the poller looked once and not again.
PollOnce(w) ==
    /\ poller[w] = "polling"
    /\ \/ Finds /\ pollDone' = [pollDone EXCEPT ![w] = "result"]
       \/ (FindsNone \/ WaitFails) /\ pollDone' = [pollDone EXCEPT ![w] = "empty"]
    /\ poller' = [poller EXCEPT ![w] = "over"]
    /\ UNCHANGED <<waiter, cached, announced, inbox, due>>

\* pollUntilDone looks; only a result is of interest, so that a look without
\* one is no step.
PollFinds(w) ==
    /\ poller[w] = "polling"
    /\ Finds
    /\ pollDone' = [pollDone EXCEPT ![w] = "result"]
    /\ poller' = [poller EXCEPT ![w] = "over"]
    /\ UNCHANGED <<waiter, cached, announced, inbox, due>>

\* As if the channel had no room, and its reader may be gone.
HandsOver(w) ==
    /\ poller[w] = "polling" /\ due[w]
    /\ waiter[w] \in {"waiting", "relying"}
    /\ pollDone' = [pollDone EXCEPT ![w] = "error"]
    /\ poller' = [poller EXCEPT ![w] = "over"]
    /\ WaitWorks
    /\ UNCHANGED <<waiter, cached, announced, inbox, due>>

\* pollUntilDone sees that the context has ended; the channel has room for its
\* answer whether or not anyone still reads it.
PollEnds(w) ==
    /\ poller[w] = "polling" /\ due[w]
    /\ pollDone' = [pollDone EXCEPT ![w] = "error"]
    /\ poller' = [poller EXCEPT ![w] = "over"]
    /\ WaitWorks
    /\ UNCHANGED <<waiter, cached, announced, inbox, due>>

\* The poller's answer is the listener's answer.
TakePoll(w) ==
    /\ waiter[w] \in {"waiting", "relying"} /\ pollDone[w] # "empty"
    /\ Returns(w, IF pollDone[w] = "result" THEN "served" ELSE "unserved")
    /\ WaitWorks
    /\ UNCHANGED <<cached, announced, poller, pollDone>>

\* The listener sees that its context has ended.
ListenerTimesOut(w) ==
    /\ waiter[w] = "waiting" /\ due[w]
    /\ Returns(w, "unserved")
    /\ WaitWorks
    /\ UNCHANGED <<cached, announced, poller, pollDone>>

ListenerStep(w) ==
    SecondLook(w) \/ HearDone(w) \/ TakePoll(w) \/ ListenerTimesOut(w)

PollerStep(w) == PollFinds(w) \/ PollEnds(w)

-----------------------------------------------------------------------------
(* A caller: pollSubmissionResult and PollForCompletion                    *)

StartPolling(w) ==
    /\ waiter[w] = "idle"
    /\ waiter' = [waiter EXCEPT ![w] = "waiting"]
    /\ WaitWorks
    /\ UNCHANGED <<cached, announced, listenerVars, due>>

\* A result is found, or the cache fails: then the caller gets the submission as
\* it was created.
CallerPolls(w) ==
    /\ waiter[w] = "waiting"
    /\ \/ Finds /\ Returns(w, "served")
       \/ WaitFails /\ Returns(w, "unserved")
    /\ UNCHANGED <<cached, announced, poller, pollDone>>

\* Time is up: the last look returns whatever is cached.
CallerTimesOut(w) ==
    /\ waiter[w] = "waiting" /\ due[w]
    /\ Returns(w, IF IsTerminal(cached) THEN "served" ELSE "unserved")
    /\ WaitWorks
    /\ UNCHANGED <<cached, announced, poller, pollDone>>

CallerStep(w) == CallerPolls(w) \/ CallerTimesOut(w)

-----------------------------------------------------------------------------
WaitNext ==
    \/ CachedChanges \/ PublishDone
    \/ \E w \in Waiters : DeadlinePasses(w)
    \/ \E w \in Listeners :
          StartListening(w) \/ SubscriptionStarts(w) \/ ChannelCloses(w)
          \/ ListenerStep(w) \/ PollerStep(w)
    \/ \E w \in Callers : StartPolling(w) \/ CallerStep(w)

WaitSpec == WaitInit /\ [][WaitNext]_waitVars

-----------------------------------------------------------------------------
(* Properties                                                              *)

\* Whoever waits gets an answer if a result is cached and stays, though the
\* notification may be sent between a look at the cache and the start of the
\* subscription, and reach nobody: the pollers find it (the "safety net" of
\* waitWithPubSubAndPoll).
WaiterIsAnswered ==
    \A w \in Waiters :
        <>[](cached = "finished") => <>[](waiter[w] \notin {"checking", "waiting", "relying"})

\* No goroutine is left behind: when WaitForResult has returned by another way
\* than the poller's answer, the poller ends all the same, as its context has
\* ended and its channel has room for a value nobody takes.
PollerEnds ==
    \A w \in Listeners :
        <>[](waiter[w] \in {"served", "unserved"}) => <>[](poller[w] \in {"off", "over"})
=============================================================================
