--------------------------- MODULE TriggerDispatch ---------------------------
(***************************************************************************)
(* How a trigger becomes a DAG run: the NATS subscriptions (triggers/      *)
(* nats_events.py behind data_bus.subscribe), the cron jobs and POST /run  *)
(* all call app.route(), which claims an idempotency key in Redis and then *)
(* runs the DAG.  One DAG is modelled: keys of different DAGs never meet.  *)
(*                                                                         *)
(* nats-py runs the callback of a subscription one message at a time, so   *)
(* the events go through one handler task; cron jobs and HTTP requests are *)
(* tasks of their own.  JetStream and Redis are outside the repository:    *)
(* a durable consumer with ack_wait and max_deliver, and SET NX.  The 24 h *)
(* life of a key is longer than any behaviour of the model.                *)
(***************************************************************************)
EXTENDS Naturals, Sequences

CONSTANTS
    Events,      \* messages of one subject
    Direct,      \* cron fires and HTTP requests
    MaxDeliver,  \* max_deliver of the durable consumer
    MaxMinute,   \* bound of the wall clock, in minutes
    MaxCrashes   \* bound on restarts of the orchestrator

ASSUME DispatchAssumption ==
    /\ MaxDeliver \in Nat \ {0}
    /\ MaxMinute \in Nat
    /\ MaxCrashes \in Nat
    /\ "nats" \notin Direct

Tasks   == Direct \cup {"nats"}  \* "nats": the callback task of the subscription
Kinds   == {"event", "cron", "http"}
Minutes == 0..MaxMinute
Keys    == Kinds \X Minutes      \* idempotency_key: (dag_id,) kind, minute

\* What a task is doing: the trigger it handles and how far it has come.
TaskStates == [at : Minutes, kind : Kinds, force : BOOLEAN,
               pc : {"idle", "claim", "run", "ended"}]

VARIABLES
    minute,      \* datetime.now() to the minute
    process,     \* the orchestrator: down, listening to NATS, or deaf to it
    crashes,     \* restarts so far
    server,      \* JetStream's view of each event
    born,        \* history: the minute in which each event was published
    deliveries,  \* times JetStream has delivered each event
    inbox,       \* messages the client has received and not handed to the callback
    task,        \* what each task of the orchestrator is doing
    claimed,     \* keys present in Redis
    runs,        \* history: unforced runs started under each key
    completed    \* history: events one of whose runs returned

history == <<born, runs, completed>>
vars    == <<minute, process, crashes, server, deliveries, inbox, task, claimed, history>>

\* A task that is not handling a trigger.
Idle == [at |-> 0, kind |-> "event", force |-> FALSE, pc |-> "idle"]

Key(t) == <<task[t].kind, task[t].at>>

TypeOK ==
    /\ minute \in Minutes
    /\ process \in {"down", "listening", "deaf"}
    /\ crashes \in 0..MaxCrashes
    /\ server \in [Events -> {"unpublished", "waiting", "outstanding", "acked", "dead"}]
    /\ born \in [Events -> Minutes]
    /\ deliveries \in [Events -> 0..MaxDeliver]
    /\ inbox \in Seq(Events)
    /\ task \in [Tasks -> TaskStates]
    /\ claimed \subseteq Keys
    /\ runs \in [Keys -> Nat]
    /\ completed \subseteq Events

\* The orchestrator has booted once, so its durable consumer exists.
Init ==
    /\ minute = 0
    /\ process = "listening"
    /\ crashes = 0
    /\ server = [e \in Events |-> "unpublished"]
    /\ born = [e \in Events |-> 0]
    /\ deliveries = [e \in Events |-> 0]
    /\ inbox = <<>>
    /\ task = [t \in Tasks |-> Idle]
    /\ claimed = {}
    /\ runs = [k \in Keys |-> 0]
    /\ completed = {}

-----------------------------------------------------------------------------
(* The environment: the clock, the publisher and the JetStream consumer.   *)

Tick ==
    /\ minute < MaxMinute
    /\ minute' = minute + 1
    /\ UNCHANGED <<process, crashes, server, deliveries, inbox, task, claimed, history>>

Publish(e) ==
    /\ server[e] = "unpublished"
    /\ server' = [server EXCEPT ![e] = "waiting"]
    /\ born' = [born EXCEPT ![e] = minute]
    /\ UNCHANGED <<minute, process, crashes, deliveries, inbox, task, claimed, runs, completed>>

\* JetStream pushes a message that waits for its first or its next delivery.
Deliver(e) ==
    /\ process = "listening"
    /\ server[e] = "waiting"
    /\ server' = [server EXCEPT ![e] = "outstanding"]
    /\ deliveries' = [deliveries EXCEPT ![e] = @ + 1]
    /\ inbox' = Append(inbox, e)
    /\ UNCHANGED <<minute, process, crashes, task, claimed, history>>

\* Where a message goes that was not acknowledged: back, or nowhere.
AfterFailure(e) == IF deliveries[e] < MaxDeliver THEN "waiting" ELSE "dead"

\* Thirty seconds without an ack, whatever the client is doing with it.
AckWaitExpires(e) ==
    /\ server[e] = "outstanding"
    /\ server' = [server EXCEPT ![e] = AfterFailure(e)]
    /\ UNCHANGED <<minute, process, crashes, deliveries, inbox, task, claimed, history>>

\* The message the callback task holds: it stays at the head of inbox.
Current == Head(inbox)

\* msg.ack() is a publish without a reply: it arrives or is lost.
Ack ==
    /\ \/ server' = [server EXCEPT ![Current] = "acked"]
       \/ UNCHANGED server
    /\ inbox' = Tail(inbox)

\* msg.nak(): delivered again at once while deliveries remain.
Nak ==
    /\ server' = [server EXCEPT ![Current] = IF @ = "outstanding" THEN AfterFailure(Current) ELSE @]
    /\ inbox' = Tail(inbox)

-----------------------------------------------------------------------------
(* Triggers reach route().                                                 *)

\* The callback of the subscription: fired_at is the moment it starts, not
\* anything in the message.
TakeMessage ==
    /\ process = "listening"
    /\ task["nats"].pc = "idle"
    /\ inbox # <<>>
    /\ task' = [task EXCEPT !["nats"] = [at |-> minute, kind |-> "event", force |-> FALSE, pc |-> "claim"]]
    /\ UNCHANGED <<minute, process, crashes, server, deliveries, inbox, claimed, history>>

\* A cron job fires, or POST /run/{dag_id}?force=... arrives.
Fire(t, kind, force) ==
    /\ process # "down"
    /\ task[t].pc = "idle"
    /\ kind = "cron" => ~force
    /\ task' = [task EXCEPT ![t] = [at |-> minute, kind |-> kind, force |-> force, pc |-> "claim"]]
    /\ UNCHANGED <<minute, process, crashes, server, deliveries, inbox, claimed, history>>

-----------------------------------------------------------------------------
(* route(): claim, run, return.                                            *)

\* claim_or_skip: forced, or SET NX created the key.
MayRun(t) == task[t].force \/ Key(t) \notin claimed

ClaimAndRun(t) ==
    /\ task[t].pc = "claim"
    /\ MayRun(t)
    /\ claimed' = IF task[t].force THEN claimed ELSE claimed \cup {Key(t)}
    /\ task' = [task EXCEPT ![t].pc = "run"]
    /\ runs' = IF task[t].force THEN runs ELSE [runs EXCEPT ![Key(t)] = @ + 1]
    /\ UNCHANGED <<minute, process, crashes, server, born, deliveries, inbox, completed>>

\* A task is done with its trigger.  Each cron fire or request comes once.
Finished(t) == [task EXCEPT ![t] = IF t = "nats" THEN Idle ELSE [Idle EXCEPT !.pc = "ended"]]

\* The key is taken: route() returns None and the callback acks the message.
Skip(t) ==
    /\ task[t].pc = "claim"
    /\ ~MayRun(t)
    /\ task' = Finished(t)
    /\ IF t = "nats" THEN Ack ELSE UNCHANGED <<server, inbox>>
    /\ UNCHANGED <<minute, process, crashes, deliveries, claimed, history>>

\* The DAG ran to its end.
RunReturns(t) ==
    /\ task[t].pc = "run"
    /\ task' = Finished(t)
    /\ IF t = "nats" THEN Ack /\ completed' = completed \cup {Current}
                     ELSE UNCHANGED <<server, inbox, completed>>
    /\ UNCHANGED <<minute, process, crashes, born, deliveries, claimed, runs>>

\* Faulty variant: the callback acknowledges a trigger it could not claim.
ClaimRaises_Acks(t) ==
    /\ task[t].pc = "claim"
    /\ ~task[t].force
    /\ task' = Finished(t)
    /\ claimed' \in {claimed, claimed \cup {Key(t)}}
    /\ IF t = "nats" THEN Ack ELSE UNCHANGED <<server, inbox>>
    /\ UNCHANGED <<minute, process, crashes, deliveries, history>>

\* The connection to Redis fails under the SET, before or after Redis has
\* applied it: the callback naks, the other tasks pass the error on.
ClaimRaises(t) ==
    /\ task[t].pc = "claim"
    /\ ~task[t].force
    /\ task' = Finished(t)
    /\ claimed' \in {claimed, claimed \cup {Key(t)}}
    /\ IF t = "nats" THEN Nak ELSE UNCHANGED <<server, inbox>>
    /\ UNCHANGED <<minute, process, crashes, deliveries, history>>

\* execute() raises: the overall timeout, or a stalled DAG.
RunRaises(t) ==
    /\ task[t].pc = "run"
    /\ task' = Finished(t)
    /\ IF t = "nats" THEN Nak ELSE UNCHANGED <<server, inbox>>
    /\ UNCHANGED <<minute, process, crashes, deliveries, claimed, history>>

-----------------------------------------------------------------------------
(* Restarts.                                                               *)

\* Faulty variant: the keys live in the process (InMemoryIdempotencyStore).
KeysAfterCrash_InMemory == {{}}

\* The keys are in Redis, where a SET that was on its way may still arrive.
KeysAfterCrash ==
    LET sent == {t \in Tasks : task[t].pc = "claim" /\ ~task[t].force}
    IN  {claimed \cup {Key(t) : t \in S} : S \in SUBSET sent}

\* The process stops: its tasks and the messages it had received are gone,
\* the unacknowledged messages of JetStream are not.
Crash ==
    /\ process # "down"
    /\ crashes < MaxCrashes
    /\ process' = "down"
    /\ crashes' = crashes + 1
    /\ inbox' = <<>>
    /\ task' = [t \in Tasks |-> IF task[t].pc \in {"claim", "run"} THEN Finished(t)[t] ELSE task[t]]
    /\ claimed' \in KeysAfterCrash
    /\ UNCHANGED <<minute, server, deliveries, history>>

\* Faulty variant: a new boot gets a new consumer and forgets the old one.
ServerAfterBoot_NotDurable ==
    [e \in Events |-> IF server[e] = "waiting" THEN "unpublished" ELSE server[e]]

\* The consumer is durable: what it had not delivered still waits.
ServerAfterBoot == server

\* _bootstrap: the same Redis keys, the same durable consumer.  When NATS is not
\* reachable the error is logged and the process goes on without subscriptions.
Boot ==
    /\ process = "down"
    /\ process' \in {"listening", "deaf"}
    /\ server' = ServerAfterBoot
    /\ UNCHANGED <<minute, crashes, deliveries, inbox, task, claimed, history>>

Next ==
    \/ Tick
    \/ \E e \in Events : Publish(e) \/ Deliver(e) \/ AckWaitExpires(e)
    \/ TakeMessage
    \/ \E t \in Direct, kind \in {"cron", "http"}, force \in BOOLEAN : Fire(t, kind, force)
    \/ \E t \in Tasks : ClaimAndRun(t) \/ Skip(t) \/ RunReturns(t) \/ ClaimRaises(t) \/ RunRaises(t)
    \/ Crash
    \/ Boot

Spec == Init /\ [][Next]_vars

\* JetStream delivers and times out, the container is restarted, the event
\* loop runs the callback, and a claim or a run ends one way or the other
\* (the agents' HTTP clients have timeouts).
Fairness ==
    /\ \A e \in Events : WF_vars(Deliver(e)) /\ WF_vars(AckWaitExpires(e))
    /\ WF_vars(TakeMessage)
    /\ WF_vars(Boot)
    /\ \A t \in Tasks : WF_vars(ClaimAndRun(t) \/ Skip(t)) /\ WF_vars(RunReturns(t) \/ RunRaises(t))

FairSpec == Spec /\ Fairness

-----------------------------------------------------------------------------
(* Properties.                                                             *)

\* No key is run twice without force, whatever is redelivered, raised or
\* restarted in between (workflows/06: "Restarting the orchestrator does not
\* re-run a DAG whose idempotency key is still in Redis").
KeyRunsOnce == \A k \in Keys : runs[k] <= 1

\* A message that is acknowledged has not been dropped: the key it ran or was
\* skipped under is taken, for a minute in which the event already existed.
AckedIsCovered ==
    \A e \in Events : server[e] = "acked" =>
        \E m \in Minutes : m >= born[e] /\ <<"event", m>> \in claimed

\* Every published event is settled: acknowledged, or given up by JetStream
\* after MaxDeliver deliveries.  Neither crashes nor errors leave one pending for
\* ever; only a boot without NATS does, which app.py calls "deferred" but never
\* tries again.
EventsSettle ==
    \A e \in Events :
        server[e] = "waiting" ~> (server[e] \in {"acked", "dead"} \/ process = "deaf")

\* triggers/nats_events.py: "wake the trading room / event-triage gate on
\* high-impact events": an acknowledged event has had a run of the DAG.
AckedEventRan == \A e \in Events : server[e] = "acked" => e \in completed
=============================================================================
