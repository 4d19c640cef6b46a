------------------------------- MODULE Notifier -------------------------------
(***************************************************************************)
(* packages/notifier: notify_with_redelivery runs a message through the    *)
(* adapters of its severity and, when all of them fail, leaves it in a     *)
(* queue in Redis from which a background drainer tries again.             *)
(*                                                                         *)
(* Every adapter call and every Redis call is an await: the tasks that     *)
(* send, the drainer, the adapters' health and the expiry of keys step     *)
(* between them.  Lifetimes are abstracted to "the key may expire"; the    *)
(* sliding window of the rate limiter to a count that falls as calls leave *)
(* the window.  An adapter that rejects everything (no key, 4xx) is one     *)
(* that is never up.                                                       *)
(***************************************************************************)
EXTENDS Naturals, Sequences

CONSTANTS
    Messages,    \* notifications, each sent by a task of its own
    Critical,    \* those of severity critical: adapters in parallel
    Chain,       \* primary + fallbacks of severity_to_channels, in order
    Cap,         \* calls the rate limiter allows in a window, per adapter
    MaxTroubles  \* bound on crashes, lost answers and Redis errors

ASSUME NotifierAssumption ==
    /\ Messages # {}
    /\ Critical \subseteq Messages
    /\ Len(Chain) > 0
    /\ Cap \in Nat \ {0}
    /\ MaxTroubles \in Nat
    /\ "drainer" \notin Messages

Adapters == {Chain[i] : i \in 1..Len(Chain)}
Tasks    == Messages \cup {"drainer"}

VARIABLES
    up,        \* adapters whose provider answers
    used,      \* calls counted in the current window of each adapter
    queue,     \* messages with a key notifier:redelivery:<id> in Redis
    todo,      \* what is left of the drainer's list_pending()
    task,      \* where each task is, and in which round of Router.notify
    troubles,  \* crashes, lost answers and Redis errors so far
    expired,   \* history: messages whose key has expired
    copies,    \* history: rounds (of a cascade: calls) in which a provider got the message
    faults     \* history: troubles that made somebody send the message again

history == <<expired, copies, faults>>
notifyVars    == <<up, used, queue, todo, task, troubles, history>>

\* A round of Router.notify for message m, at the first adapter.
Round(m) == [pc |-> "notify", msg |-> m, at |-> 1, ok |-> FALSE, got |-> FALSE]

Positions ==
    [pc : {"idle", "notify", "enqueue", "delivered", "deferred", "raised", "lost",
           "pass", "get", "set", "remove"},
     msg : Messages, at : 1..Len(Chain), ok : BOOLEAN, got : BOOLEAN]

NotifyTypeOK ==
    /\ up \subseteq Adapters
    /\ used \in [Adapters -> 0..Cap]
    /\ queue \subseteq Messages
    /\ todo \subseteq Messages
    /\ task \in [Tasks -> Positions]
    /\ troubles \in 0..MaxTroubles
    /\ expired \subseteq Messages
    /\ copies \in [Messages -> Nat]
    /\ faults \in [Messages -> Nat]

NotifyInit ==
    /\ up \in SUBSET Adapters
    /\ used = [a \in Adapters |-> 0]
    /\ queue = {}
    /\ todo = {}
    /\ task = [t \in Tasks |->
                 [Round(IF t = "drainer" THEN CHOOSE m \in Messages : TRUE ELSE t) EXCEPT !.pc = "idle"]]
    /\ troubles = 0
    /\ expired = {}
    /\ copies = [m \in Messages |-> 0]
    /\ faults = [m \in Messages |-> 0]

Trouble == troubles < MaxTroubles /\ troubles' = troubles + 1

Goto(t, pc) == task' = [task EXCEPT ![t].pc = pc]

-----------------------------------------------------------------------------
(* Router.notify: the adapters of the chain one after the other, until one *)
(* succeeds; or, for a critical message, all of them (asyncio.gather; their *)
(* order does not matter).                                                 *)

RoundOk(t, success) == task[t].ok \/ success

\* NotifyResult.succeeded.
OnSuccess(t) == IF t = "drainer" THEN "remove" ELSE "delivered"

\* NotifyExhausted.
OnExhausted(t) == IF t = "drainer" THEN "get" ELSE "enqueue"

\* The round goes on to the next adapter, or ends.
Continue(t, success, received) ==
    LET ok   == RoundOk(t, success)
        done == task[t].at = Len(Chain) \/ (success /\ task[t].msg \notin Critical)
        pc   == IF done THEN (IF ok THEN OnSuccess(t) ELSE OnExhausted(t)) ELSE "notify"
        at   == IF done THEN task[t].at ELSE task[t].at + 1
    IN  task' = [task EXCEPT ![t] = [pc |-> pc, msg |-> task[t].msg, at |-> at, ok |-> ok,
                                     got |-> task[t].got \/ received]]

\* n copies more have reached a provider; the adapters of a parallel round deliver
\* one copy together.
Receive(t, n) ==
    LET m     == task[t].msg
        joint == IF m \in Critical /\ task[t].got THEN 1 ELSE 0
    IN  copies' = [copies EXCEPT ![m] = @ + n - joint]

\* RateLimiter.acquire raises AdapterRateLimit.
Limited(a) == used[a] >= Cap

\* An answer is lost: the provider has the message, the adapter's client has an error.
\* The adapter's own retry sends it once more and succeeds, or fails too.
AnswerLost(t) ==
    /\ Trouble
    /\ \/ Continue(t, TRUE, TRUE) /\ Receive(t, 2)
       \/ Continue(t, FALSE, TRUE) /\ Receive(t, 1)
    /\ faults' = [faults EXCEPT ![task[t].msg] = @ + 1]

\* _try_adapter: AdapterRateLimit before the call, an answer, no answer (AdapterDown,
\* AdapterRejected), or an answer that is lost.
Try(t) ==
    LET a == Chain[task[t].at]
    IN  /\ task[t].pc = "notify"
        /\ \/ /\ Limited(a)
              /\ Continue(t, FALSE, FALSE)
              /\ UNCHANGED <<used, troubles, copies, faults>>
           \/ /\ ~Limited(a)
              /\ used' = [used EXCEPT ![a] = @ + 1]
              /\ \/ a \in up /\ Continue(t, TRUE, TRUE) /\ Receive(t, 1) /\ UNCHANGED <<troubles, faults>>
                 \/ a \notin up /\ Continue(t, FALSE, FALSE) /\ UNCHANGED <<troubles, copies, faults>>
                 \/ a \in up /\ AnswerLost(t)
        /\ UNCHANGED <<up, queue, todo, expired>>

-----------------------------------------------------------------------------
(* notify_with_redelivery.                                                 *)

Send(m) ==
    /\ task[m].pc = "idle"
    /\ task' = [task EXCEPT ![m] = Round(m)]
    /\ UNCHANGED <<up, used, queue, todo, troubles, history>>

Enqueue(m) ==
    /\ task[m].pc = "enqueue"
    /\ queue' = queue \cup {m}
    /\ Goto(m, "deferred")
    /\ UNCHANGED <<up, used, todo, troubles, history>>

\* Redis fails under the enqueue, which is not guarded: the caller gets the error,
\* whether or not the SET was applied.
EnqueueRaises(m) ==
    /\ task[m].pc = "enqueue"
    /\ Trouble
    /\ queue' \in {queue, queue \cup {m}}
    /\ Goto(m, "raised")
    /\ UNCHANGED <<up, used, todo, history>>

-----------------------------------------------------------------------------
(* RedeliveryDrainer.                                                      *)

\* drain_once: list_pending().  A pass over an empty queue does nothing.
ListPending ==
    /\ task["drainer"].pc = "idle"
    /\ queue # {}
    /\ todo' = queue
    /\ Goto("drainer", "pass")
    /\ UNCHANGED <<up, used, queue, troubles, history>>

\* The next message of the pass, whether or not its key still exists.
NextMessage ==
    /\ task["drainer"].pc = "pass"
    /\ \E m \in todo :
         /\ todo' = todo \ {m}
         /\ task' = [task EXCEPT !["drainer"] = Round(m)]
    /\ UNCHANGED <<up, used, queue, troubles, history>>

PassEnds ==
    /\ task["drainer"].pc = "pass"
    /\ todo = {}
    /\ Goto("drainer", "idle")
    /\ UNCHANGED <<up, used, queue, todo, troubles, history>>

Current == task["drainer"].msg

\* update_attempt reads the message (GET); a missing one is left alone.
ReadAttempt ==
    /\ task["drainer"].pc = "get"
    /\ Goto("drainer", IF Current \in queue THEN "set" ELSE "pass")
    /\ UNCHANGED <<up, used, queue, todo, troubles, history>>

\* Faulty variant: a failed attempt drops the message.
AfterAttempt_Dropped == queue \ {Current}

\* The message is written back, with the TTL the key has or, if it expired
\* since the GET, with a second.
AfterAttempt == queue \cup {Current}

WriteAttempt ==
    /\ task["drainer"].pc = "set"
    /\ queue' = AfterAttempt
    /\ Goto("drainer", "pass")
    /\ UNCHANGED <<up, used, todo, troubles, history>>

RemoveDelivered ==
    /\ task["drainer"].pc = "remove"
    /\ queue' = queue \ {Current}
    /\ Goto("drainer", "pass")
    /\ UNCHANGED <<up, used, todo, troubles, history>>

\* The faults of a drainer that stops between a delivery and its DEL: what it
\* delivered will be delivered again.
Interrupted ==
    IF task["drainer"].pc \in {"notify", "remove"} /\ task["drainer"].got
    THEN [faults EXCEPT ![Current] = @ + 1] ELSE faults

\* Faulty variant: the loop does not survive an exception of drain_once.
AfterRaise_Dies == "lost"

AfterRaise == "idle"

\* The queue if the call that raised was applied and only its answer was lost.
Answered ==
    CASE task["drainer"].pc = "set"    -> AfterAttempt
      [] task["drainer"].pc = "remove" -> queue \ {Current}
      [] OTHER                         -> queue

\* Redis fails under the drainer: _loop logs the error and starts a new pass.
DrainRaises ==
    /\ task["drainer"].pc \in {"get", "set", "remove"}
    /\ Trouble
    /\ queue' \in {queue, Answered}
    /\ todo' = {}
    /\ Goto("drainer", AfterRaise)
    /\ faults' = Interrupted
    /\ UNCHANGED <<up, used, expired, copies>>

-----------------------------------------------------------------------------
(* The environment.                                                        *)

ProviderChanges(a) ==
    /\ up' \in {up \cup {a}, up \ {a}}
    /\ UNCHANGED <<used, queue, todo, task, troubles, history>>

WindowPasses(a) ==
    /\ used[a] > 0
    /\ used' = [used EXCEPT ![a] = @ - 1]
    /\ UNCHANGED <<up, queue, todo, task, troubles, history>>

Expire(m) ==
    /\ m \in queue
    /\ queue' = queue \ {m}
    /\ expired' = expired \cup {m}
    /\ UNCHANGED <<up, used, todo, task, troubles, copies, faults>>

\* The process restarts: senders and the drainer's pass are gone, Redis is not.
NotifyCrash ==
    /\ Trouble
    /\ task' = [t \in Tasks |->
                  IF t = "drainer" THEN [task[t] EXCEPT !.pc = "idle"]
                  ELSE IF task[t].pc \in {"notify", "enqueue"} THEN [task[t] EXCEPT !.pc = "lost"]
                  ELSE task[t]]
    /\ todo' = {}
    /\ faults' = Interrupted
    /\ used' = [a \in Adapters |-> 0]
    /\ UNCHANGED <<up, queue, expired, copies>>

Drain == ListPending \/ NextMessage \/ PassEnds \/ ReadAttempt \/ WriteAttempt \/ RemoveDelivered

NotifyNext ==
    \/ \E t \in Tasks : Try(t)
    \/ \E m \in Messages : Send(m) \/ Enqueue(m) \/ EnqueueRaises(m) \/ Expire(m)
    \/ Drain
    \/ DrainRaises
    \/ \E a \in Adapters : ProviderChanges(a) \/ WindowPasses(a)
    \/ NotifyCrash

NotifySpec == NotifyInit /\ [][NotifyNext]_notifyVars

\* The event loop runs every task, the drainer wakes every 60 s, and the windows
\* of the rate limiter pass.  Providers need not recover, keys need not expire.
NotifyFairness ==
    /\ \A t \in Tasks : WF_notifyVars(Try(t))
    /\ \A m \in Messages : WF_notifyVars(Enqueue(m))
    /\ WF_notifyVars(Drain)
    /\ \A a \in Adapters : WF_notifyVars(WindowPasses(a))

FairNotify == NotifySpec /\ NotifyFairness

-----------------------------------------------------------------------------
(* Properties.                                                             *)

\* A message that notify_with_redelivery deferred is never lost: it waits in the
\* queue until a provider has got it or its time has run out, whatever crashes,
\* failed attempts and Redis errors happen to the drainer.
DeferredNotLost ==
    \A m \in Messages : task[m].pc = "deferred" => m \in queue \/ copies[m] > 0 \/ m \in expired

\* The other half of at-least-once: nobody gets a message again unless an answer
\* was lost, or the drainer stopped between a delivery and its DEL.
NoNeedlessCopies == \A m \in Messages : copies[m] <= 1 + faults[m]

\* Both halves of what the queue's docstring promises of a message (redelivery.py:16-17).
AtLeastOnce == DeferredNotLost /\ NoNeedlessCopies

\* A task that was told "delivered" (or that the round succeeded) told the truth.
SuccessMeansReceived ==
    \A t \in Tasks : task[t].pc \in {"delivered", "remove"} => copies[task[t].msg] > 0

\* Plan T1.4: "verify message redelivered within TTL once any adapter recovers":
\* when an adapter is up for good, every deferred message reaches a provider unless
\* its time runs out first.
RecoveredAdapterDelivers ==
    (\E a \in Adapters : <>[](a \in up)) =>
        \A m \in Messages : task[m].pc = "deferred" ~> copies[m] > 0 \/ m \in expired
=============================================================================
