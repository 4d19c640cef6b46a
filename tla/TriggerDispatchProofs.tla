------------------------ MODULE TriggerDispatchProofs ------------------------
(* Proofs about TriggerDispatch: the state is well typed, and no idempotency *)
(* key is run twice, for any number of events, direct triggers, deliveries   *)
(* and restarts.                                                             *)
EXTENDS TriggerDispatch, TLAPS

\* The part of the type invariant the keys rest on.
KeyTypes ==
    /\ minute \in Minutes
    /\ task \in [Tasks -> TaskStates]
    /\ runs \in [Keys -> Nat]

\* A run was started only under a key that Redis still holds, and only once.
RunsHoldTheirKey == \A k \in Keys : runs[k] <= 1 /\ (runs[k] > 0 => k \in claimed)

LEMMA FinishedTyped ==
    ASSUME KeyTypes, NEW t \in Tasks
    PROVE  Idle \in TaskStates /\ Finished(t) \in [Tasks -> TaskStates]
<1>1. 0 \in Minutes
  BY DispatchAssumption DEF DispatchAssumption, Minutes
<1>2. Idle \in TaskStates /\ [Idle EXCEPT !.pc = "ended"] \in TaskStates
  BY <1>1 DEF Idle, TaskStates, Kinds
<1>3. QED
  BY <1>2 DEF Finished, KeyTypes

\* The clock, the tasks and the run counts keep their types.
THEOREM KeyTypesHold == Spec => []KeyTypes
<1>1. Init => KeyTypes
  <2>1. 0 \in Minutes
    BY DispatchAssumption DEF DispatchAssumption, Minutes
  <2>2. Idle \in TaskStates
    BY <2>1 DEF Idle, TaskStates, Kinds
  <2>3. QED
    BY <2>1, <2>2 DEF Init, KeyTypes
<1>2. KeyTypes /\ [Next]_vars => KeyTypes'
  <2> SUFFICES ASSUME KeyTypes, [Next]_vars PROVE KeyTypes'
    OBVIOUS
  <2> USE DEF KeyTypes, history
  <2>1. CASE Tick
    BY <2>1, DispatchAssumption DEF DispatchAssumption, Tick, Minutes
  <2>2. ASSUME NEW e \in Events, Publish(e) \/ Deliver(e) \/ AckWaitExpires(e) PROVE KeyTypes'
    BY <2>2 DEF Publish, Deliver, AckWaitExpires
  <2>3. CASE TakeMessage
    BY <2>3 DEF TakeMessage, Tasks, Kinds, TaskStates
  <2>4. ASSUME NEW t \in Direct, NEW kind \in {"cron", "http"}, NEW force \in BOOLEAN,
               Fire(t, kind, force) PROVE KeyTypes'
    BY <2>4 DEF Fire, Tasks, Kinds, TaskStates
  <2>5. ASSUME NEW t \in Tasks, ClaimAndRun(t) PROVE KeyTypes'
    <3>1. Key(t) \in Keys
      BY <2>5 DEF Key, Keys, TaskStates
    <3>2. runs' \in [Keys -> Nat]
      BY <2>5, <3>1 DEF ClaimAndRun
    <3>3. QED
      BY <2>5, <3>2 DEF ClaimAndRun, TaskStates
  <2>6. ASSUME NEW t \in Tasks, Skip(t) \/ RunReturns(t) \/ ClaimRaises(t) \/ RunRaises(t)
        PROVE KeyTypes'
    BY <2>6, FinishedTyped DEF Skip, RunReturns, ClaimRaises, RunRaises
  <2>7. CASE Crash
    <3>1. \A t \in Tasks : Finished(t)[t] \in TaskStates
      BY FinishedTyped
    <3>2. QED
      BY <2>7, <3>1 DEF Crash
  <2>8. CASE Boot
    BY <2>8 DEF Boot
  <2>9. CASE UNCHANGED vars
    BY <2>9 DEF vars
  <2>10. QED
    BY <2>1, <2>2, <2>3, <2>4, <2>5, <2>6, <2>7, <2>8, <2>9 DEF Next
<1>3. QED
  BY <1>1, <1>2, PTL DEF Spec

\* What else types the consumer's side: an event that waits has deliveries
\* left, and the callback task holds a message while it handles one.
ConsumerInv ==
    /\ server \in [Events -> {"unpublished", "waiting", "outstanding", "acked", "dead"}]
    /\ deliveries \in [Events -> 0..MaxDeliver]
    /\ \A e \in Events : server[e] = "unpublished" => deliveries[e] = 0
    /\ \A e \in Events : server[e] = "waiting" => deliveries[e] < MaxDeliver
    /\ inbox \in Seq(Events)
    /\ task["nats"].pc \in {"claim", "run"} => inbox # <<>>

LEMMA AckOrNakTyped ==
    ASSUME ConsumerInv, inbox # <<>>, Ack \/ Nak, deliveries' = deliveries
    PROVE  /\ server' \in [Events -> {"unpublished", "waiting", "outstanding", "acked", "dead"}]
           /\ \A e \in Events : server'[e] = "unpublished" => deliveries[e] = 0
           /\ \A e \in Events : server'[e] = "waiting" => deliveries[e] < MaxDeliver
           /\ inbox' \in Seq(Events)
<1>1. inbox' \in Seq(Events)
  <2>1. inbox \in Seq(Events) /\ inbox # <<>>
    BY DEF ConsumerInv
  <2>2. Tail(inbox) \in Seq(Events)
    BY <2>1
  <2>3. inbox' = Tail(inbox)
    BY Zenon DEF Ack, Nak
  <2>4. QED
    BY <2>2, <2>3
<1>2. CASE Ack
  BY <1>1, <1>2 DEF ConsumerInv, Ack
<1>3. CASE Nak
  BY <1>1, <1>3 DEF ConsumerInv, Nak, AfterFailure
<1>4. QED
  BY <1>2, <1>3

\* A step that ends a trigger keeps ConsumerInv, whether it acks, naks or
\* touches no message.
LEMMA EndingTyped ==
    ASSUME KeyTypes, ConsumerInv, NEW t \in Tasks, task[t].pc \in {"claim", "run"},
           task' = Finished(t), deliveries' = deliveries,
           IF t = "nats" THEN Ack \/ Nak ELSE UNCHANGED <<server, inbox>>
    PROVE  ConsumerInv'
<1>1. CASE t = "nats"
  <2>1. inbox # <<>>
    BY <1>1 DEF ConsumerInv
  <2>2. task'["nats"].pc = "idle"
    BY <1>1 DEF Finished, Idle, KeyTypes
  <2>3. QED
    BY <1>1, <2>1, <2>2, AckOrNakTyped DEF ConsumerInv
<1>2. CASE t # "nats"
  <2>1. task'["nats"] = task["nats"]
    BY <1>2 DEF Finished, KeyTypes, Tasks
  <2>2. QED
    BY <1>2, <2>1 DEF ConsumerInv
<1>3. QED
  BY <1>1, <1>2

THEOREM ConsumerInvHolds == Spec => []ConsumerInv
<1>1. Init => ConsumerInv
  BY DispatchAssumption DEF DispatchAssumption, Init, ConsumerInv, Idle, Tasks
<1>2. KeyTypes /\ ConsumerInv /\ [Next]_vars => ConsumerInv'
  <2> SUFFICES ASSUME KeyTypes, ConsumerInv, [Next]_vars PROVE ConsumerInv'
    OBVIOUS
  <2>1. CASE Tick \/ Boot \/ UNCHANGED vars
    BY <2>1 DEF Tick, Boot, ServerAfterBoot, vars, ConsumerInv
  <2>2. ASSUME NEW e \in Events, Publish(e) PROVE ConsumerInv'
    BY <2>2, DispatchAssumption DEF DispatchAssumption, Publish, ConsumerInv
  <2>3. ASSUME NEW e \in Events, Deliver(e) PROVE ConsumerInv'
    <3>1. inbox' \in Seq(Events) /\ inbox' # <<>>
      BY <2>3 DEF Deliver, ConsumerInv
    <3>2. deliveries' \in [Events -> 0..MaxDeliver]
      BY <2>3, DispatchAssumption DEF DispatchAssumption, Deliver, ConsumerInv
    <3>3. QED
      BY <2>3, <3>1, <3>2 DEF Deliver, ConsumerInv
  <2>4. ASSUME NEW e \in Events, AckWaitExpires(e) PROVE ConsumerInv'
    BY <2>4 DEF AckWaitExpires, AfterFailure, ConsumerInv
  <2>5. CASE TakeMessage
    BY <2>5 DEF TakeMessage, ConsumerInv
  <2>6. ASSUME NEW t \in Direct, NEW kind \in {"cron", "http"}, NEW force \in BOOLEAN,
               Fire(t, kind, force) PROVE ConsumerInv'
    <3>1. task'["nats"] = task["nats"]
      BY <2>6, DispatchAssumption DEF DispatchAssumption, Fire, KeyTypes, Tasks
    <3>2. QED
      BY <2>6, <3>1 DEF Fire, ConsumerInv
  <2>7. ASSUME NEW t \in Tasks, ClaimAndRun(t) PROVE ConsumerInv'
    <3>1. task'["nats"].pc \in {"claim", "run"} => task["nats"].pc \in {"claim", "run"}
      BY <2>7 DEF ClaimAndRun, KeyTypes, Tasks, TaskStates
    <3>2. QED
      BY <2>7, <3>1 DEF ClaimAndRun, ConsumerInv
  <2>8. ASSUME NEW t \in Tasks, Skip(t) \/ RunReturns(t) \/ ClaimRaises(t) \/ RunRaises(t)
        PROVE ConsumerInv'
    BY <2>8, EndingTyped DEF Skip, RunReturns, ClaimRaises, RunRaises
  <2>9. CASE Crash
    <3>1. task'["nats"].pc \notin {"claim", "run"}
      BY <2>9 DEF Crash, Finished, Idle, KeyTypes, Tasks, TaskStates
    <3>2. QED
      BY <2>9, <3>1 DEF Crash, ConsumerInv
  <2>10. QED
    BY <2>1, <2>2, <2>3, <2>4, <2>5, <2>6, <2>7, <2>8, <2>9 DEF Next
<1>3. QED
  BY <1>1, <1>2, KeyTypesHold, PTL DEF Spec

\* What is left of the type invariant once the parts above hold.
OtherTypes ==
    /\ process \in {"down", "listening", "deaf"}
    /\ crashes \in 0..MaxCrashes
    /\ born \in [Events -> Minutes]
    /\ claimed \subseteq Keys
    /\ completed \subseteq Events

\* The state is well typed for all values of the constants.
THEOREM DispatchTypeCorrect == Spec => []TypeOK
<1>1. Init => OtherTypes
  <2>1. 0 \in Minutes /\ 0 \in 0..MaxCrashes
    BY DispatchAssumption DEF DispatchAssumption, Minutes
  <2>2. QED
    BY <2>1 DEF Init, OtherTypes
<1>2. KeyTypes /\ ConsumerInv /\ OtherTypes /\ [Next]_vars => OtherTypes'
  <2> SUFFICES ASSUME KeyTypes, ConsumerInv, OtherTypes, [Next]_vars PROVE OtherTypes'
    OBVIOUS
  <2> USE DEF OtherTypes, history
  <2>1. \A t \in Tasks : Key(t) \in Keys
    BY DEF KeyTypes, Key, Keys, TaskStates
  <2>2. task["nats"].pc \in {"claim", "run"} => Current \in Events
    BY DEF ConsumerInv, Current
  <2>3. CASE Tick \/ TakeMessage \/ UNCHANGED vars
    BY <2>3 DEF Tick, TakeMessage, vars
  <2>4. ASSUME NEW e \in Events, Publish(e) \/ Deliver(e) \/ AckWaitExpires(e) PROVE OtherTypes'
    BY <2>4 DEF Publish, Deliver, AckWaitExpires, KeyTypes
  <2>5. ASSUME NEW t \in Direct, NEW kind \in {"cron", "http"}, NEW force \in BOOLEAN,
               Fire(t, kind, force) PROVE OtherTypes'
    BY <2>5 DEF Fire
  <2>6. ASSUME NEW t \in Tasks, ClaimAndRun(t) PROVE OtherTypes'
    BY <2>1, <2>6 DEF ClaimAndRun
  <2>7. ASSUME NEW t \in Tasks, Skip(t) \/ RunReturns(t) \/ ClaimRaises(t) \/ RunRaises(t)
        PROVE OtherTypes'
    BY <2>1, <2>2, <2>7 DEF Skip, RunReturns, ClaimRaises, RunRaises
  <2>8. CASE Crash
    <3>1. claimed' \subseteq Keys
      BY <2>1, <2>8 DEF Crash, KeysAfterCrash
    <3>2. crashes' \in 0..MaxCrashes
      BY <2>8, DispatchAssumption DEF DispatchAssumption, Crash
    <3>3. QED
      BY <2>8, <3>1, <3>2 DEF Crash
  <2>9. CASE Boot
    BY <2>9 DEF Boot
  <2>10. QED
    BY <2>3, <2>4, <2>5, <2>6, <2>7, <2>8, <2>9 DEF Next
<1>3. KeyTypes /\ ConsumerInv /\ OtherTypes => TypeOK
  BY DEF KeyTypes, ConsumerInv, OtherTypes, TypeOK
<1>4. QED
  BY <1>1, <1>2, <1>3, KeyTypesHold, ConsumerInvHolds, PTL DEF Spec

\* No key is run twice without force (with_idempotency over SET NX), whatever
\* is redelivered, raised or restarted.
THEOREM KeysRunOnce == Spec => []KeyRunsOnce
<1>1. Init => RunsHoldTheirKey
  BY DEF Init, RunsHoldTheirKey
<1>2. KeyTypes /\ RunsHoldTheirKey /\ [Next]_vars => RunsHoldTheirKey'
  <2> SUFFICES ASSUME KeyTypes, RunsHoldTheirKey, [Next]_vars PROVE RunsHoldTheirKey'
    OBVIOUS
  <2> USE DEF RunsHoldTheirKey, history
  <2>1. CASE Tick \/ TakeMessage \/ Boot \/ UNCHANGED vars
    BY <2>1 DEF Tick, TakeMessage, Boot, vars
  <2>2. ASSUME NEW e \in Events, Publish(e) \/ Deliver(e) \/ AckWaitExpires(e)
        PROVE RunsHoldTheirKey'
    BY <2>2 DEF Publish, Deliver, AckWaitExpires
  <2>3. ASSUME NEW t \in Direct, NEW kind \in {"cron", "http"}, NEW force \in BOOLEAN,
               Fire(t, kind, force) PROVE RunsHoldTheirKey'
    BY <2>3 DEF Fire
  <2>4. ASSUME NEW t \in Tasks, ClaimAndRun(t) PROVE RunsHoldTheirKey'
    <3>1. Key(t) \in Keys
      BY DEF KeyTypes, Key, Keys, TaskStates
    <3>2. CASE task[t].force
      BY <2>4, <3>2 DEF ClaimAndRun
    <3>3. CASE ~task[t].force
      <4>1. runs[Key(t)] = 0
        BY <2>4, <3>1, <3>3 DEF ClaimAndRun, MayRun, KeyTypes
      <4>2. runs' = [runs EXCEPT ![Key(t)] = 1] /\ claimed' = claimed \cup {Key(t)}
        BY <2>4, <3>3, <4>1 DEF ClaimAndRun, KeyTypes
      <4>3. QED
        BY <3>1, <4>2 DEF KeyTypes
    <3>4. QED
      BY <3>2, <3>3
  <2>5. ASSUME NEW t \in Tasks, Skip(t) \/ RunReturns(t) \/ ClaimRaises(t) \/ RunRaises(t)
        PROVE RunsHoldTheirKey'
    BY <2>5 DEF Skip, RunReturns, ClaimRaises, RunRaises
  <2>6. CASE Crash
    BY <2>6 DEF Crash, KeysAfterCrash
  <2>7. QED
    BY <2>1, <2>2, <2>3, <2>4, <2>5, <2>6 DEF Next
<1>3. RunsHoldTheirKey => KeyRunsOnce
  BY DEF RunsHoldTheirKey, KeyRunsOnce
<1>4. QED
  BY <1>1, <1>2, <1>3, KeyTypesHold, PTL DEF Spec

-----------------------------------------------------------------------------
(* An acknowledgement is sent after a run or a skip, and both leave the key *)
(* of the minute in which the callback took the message: the event existed  *)
(* by then, because only what was published is ever delivered.              *)

\* What is in the client's inbox has been published, by now.
InboxIsPublished ==
    /\ \A e \in Events : born[e] <= minute
    /\ \A i \in 1..Len(inbox) : server[inbox[i]] # "unpublished"

\* The callback handles the message at the head under a key not older than its event.
CallbackKey ==
    task["nats"].pc \in {"claim", "run"} =>
        /\ task["nats"].kind = "event" /\ task["nats"].force = FALSE
        /\ task["nats"].at >= born[Current]
        /\ task["nats"].pc = "run" => Key("nats") \in claimed

\* What the proof takes from the theorems above, and what it adds.
CoverInv == InboxIsPublished /\ CallbackKey /\ AckedIsCovered
DispatchTypes == KeyTypes /\ ConsumerInv /\ born \in [Events -> Minutes]

\* Claimed keys are never given up, so that a covered event stays covered.
LEMMA CoverKept ==
    ASSUME AckedIsCovered, born' = born, claimed \subseteq claimed',
           \A e \in Events : server'[e] = "acked" => server[e] = "acked"
    PROVE  AckedIsCovered'
BY DEF AckedIsCovered

\* A step that ends a trigger: what it acknowledges is covered by the key in hand.
LEMMA EndingCovers ==
    ASSUME DispatchTypes, ConsumerInv', CoverInv, NEW t \in Tasks, task[t].pc \in {"claim", "run"},
           task' = Finished(t), UNCHANGED <<minute, born>>, claimed \subseteq claimed',
           t = "nats" => Nak \/ (Ack /\ Key("nats") \in claimed),
           t # "nats" => UNCHANGED <<server, inbox>>
    PROVE  CoverInv'
<1>1. "nats" \in Tasks
  BY DEF Tasks
<1>2. CASE t # "nats"
  <2>1. task'["nats"] = task["nats"]
    BY <1>1, <1>2 DEF Finished, DispatchTypes, KeyTypes
  <2>2. InboxIsPublished' /\ CallbackKey'
    BY <1>2, <2>1 DEF CoverInv, InboxIsPublished, CallbackKey, Key, Current
  <2> QED
    BY <1>2, <2>2, CoverKept DEF CoverInv
<1>3. CASE t = "nats"
  <2>1. inbox \in Seq(Events) /\ inbox # <<>> /\ Current \in Events /\ Current = inbox[1]
    BY <1>3 DEF DispatchTypes, ConsumerInv, Current
  <2>2. inbox' = Tail(inbox)
    BY <1>3, Zenon DEF Ack, Nak
  <2>3. \A i \in 1..Len(inbox') : i + 1 \in 1..Len(inbox) /\ inbox'[i] = inbox[i + 1]
    BY <2>1, <2>2
  <2>4. \A e \in Events : server[e] # "unpublished" => server'[e] # "unpublished"
    BY <1>3 DEF Ack, Nak, AfterFailure, DispatchTypes, ConsumerInv
  <2>5. \A i \in 1..Len(inbox') : server[inbox'[i]] # "unpublished" /\ inbox'[i] \in Events
    BY <2>1, <2>3 DEF CoverInv, InboxIsPublished
  <2>6. InboxIsPublished'
    BY <2>4, <2>5 DEF CoverInv, InboxIsPublished
  <2>7. task'["nats"].pc = "idle"
    BY <1>1, <1>3 DEF Finished, Idle, DispatchTypes, KeyTypes
  <2>8. CallbackKey'
    BY <2>7 DEF CallbackKey
  <2>9. AckedIsCovered'
    <3>1. CASE Nak
      <4>1. \A e \in Events : server'[e] = "acked" => server[e] = "acked"
        BY <3>1 DEF Nak, AfterFailure, DispatchTypes, ConsumerInv
      <4> QED
        BY <4>1, CoverKept DEF CoverInv
    <3>2. CASE Ack /\ Key("nats") \in claimed
      <4>1. \A e \in Events : server'[e] = "acked" => server[e] = "acked" \/ e = Current
        BY <3>2 DEF Ack, DispatchTypes, ConsumerInv
      <4>2. Key("nats") = <<"event", task["nats"].at>> /\ task["nats"].at >= born[Current]
        BY <1>3 DEF Key, CoverInv, CallbackKey
      <4>3. task["nats"].at \in Minutes
        BY <1>1 DEF DispatchTypes, KeyTypes, TaskStates
      <4>4. <<"event", task["nats"].at>> \in claimed
        BY <3>2, <4>2
      <4>5. \E m \in Minutes : m >= born[Current] /\ <<"event", m>> \in claimed
        BY <4>2, <4>3, <4>4
      <4> QED
        BY <4>1, <4>5 DEF CoverInv, AckedIsCovered
    <3> QED
      BY <1>3, <3>1, <3>2
  <2> QED
    BY <2>6, <2>8, <2>9 DEF CoverInv
<1> QED
  BY <1>2, <1>3

\* A message that is acknowledged was not dropped (subscribe.py: ack after the callback, nak
\* when it raised), for any number of events, triggers, deliveries and restarts.
THEOREM AcksAreCovered == Spec => []AckedIsCovered
<1>1. Init => CoverInv
  BY DispatchAssumption DEF DispatchAssumption, Init, CoverInv, InboxIsPublished, CallbackKey,
     AckedIsCovered, Idle, Tasks, Minutes
<1>2. DispatchTypes /\ DispatchTypes' /\ CoverInv /\ [Next]_vars => CoverInv'
  <2> SUFFICES ASSUME DispatchTypes, DispatchTypes', CoverInv, [Next]_vars PROVE CoverInv'
    OBVIOUS
  <2>0. "nats" \in Tasks
    BY DEF Tasks
  <2>1. CASE Tick \/ Boot \/ UNCHANGED vars
    <3>1. UNCHANGED <<born, server, inbox, task, claimed>>
      BY <2>1 DEF Tick, Boot, ServerAfterBoot, vars, history
    <3>2. minute' >= minute /\ minute \in Nat /\ minute' \in Nat
      BY <2>1, DispatchAssumption
         DEF Tick, Boot, vars, DispatchTypes, KeyTypes, Minutes, DispatchAssumption
    <3>3. \A e \in Events : born[e] <= minute'
      BY <3>2 DEF CoverInv, InboxIsPublished, DispatchTypes, Minutes
    <3>4. InboxIsPublished' /\ CallbackKey'
      BY <3>1, <3>3 DEF CoverInv, InboxIsPublished, CallbackKey, Key, Current
    <3> QED
      BY <3>1, <3>4, CoverKept DEF CoverInv
  <2>2. ASSUME NEW e \in Events, Publish(e) PROVE CoverInv'
    <3>1. /\ server[e] = "unpublished" /\ server' = [server EXCEPT ![e] = "waiting"]
          /\ born' = [born EXCEPT ![e] = minute] /\ UNCHANGED <<minute, inbox, task, claimed>>
      BY <2>2 DEF Publish
    <3>2. \A f \in Events : born'[f] <= minute
      BY <3>1 DEF CoverInv, InboxIsPublished, DispatchTypes, KeyTypes, Minutes
    <3>3. \A i \in 1..Len(inbox) : inbox[i] # e /\ inbox[i] \in Events
      BY <3>1 DEF CoverInv, InboxIsPublished, DispatchTypes, ConsumerInv
    <3>4. InboxIsPublished'
      BY <3>1, <3>2, <3>3 DEF CoverInv, InboxIsPublished, DispatchTypes, ConsumerInv
    <3>5. CallbackKey'
      <4>1. task["nats"].pc \in {"claim", "run"} => Current = inbox[1] /\ 1 \in 1..Len(inbox)
        BY DEF DispatchTypes, ConsumerInv, Current
      <4>2. task["nats"].pc \in {"claim", "run"} => born'[Current] = born[Current]
        BY <3>1, <3>3, <4>1 DEF DispatchTypes
      <4> QED
        BY <3>1, <4>2 DEF CoverInv, CallbackKey, Key, Current
    <3>6. AckedIsCovered'
      BY <3>1 DEF CoverInv, AckedIsCovered, DispatchTypes, ConsumerInv
    <3> QED
      BY <3>4, <3>5, <3>6 DEF CoverInv
  <2>3. ASSUME NEW e \in Events, Deliver(e) PROVE CoverInv'
    <3>1. /\ server[e] = "waiting" /\ server' = [server EXCEPT ![e] = "outstanding"]
          /\ inbox' = Append(inbox, e) /\ UNCHANGED <<minute, born, task, claimed>>
      BY <2>3 DEF Deliver, history
    <3>2. inbox \in Seq(Events)
      BY DEF DispatchTypes, ConsumerInv
    <3>3. \A i \in 1..Len(inbox') : inbox'[i] = e \/ (i \in 1..Len(inbox) /\ inbox'[i] = inbox[i])
      BY <3>1, <3>2
    <3>4. \A f \in Events : server[f] # "unpublished" => server'[f] # "unpublished"
      BY <3>1 DEF DispatchTypes, ConsumerInv
    <3>5. InboxIsPublished'
      BY <3>1, <3>2, <3>3, <3>4 DEF CoverInv, InboxIsPublished, DispatchTypes, ConsumerInv
    <3>6. CallbackKey'
      <4>1. inbox # <<>> => Head(inbox') = Head(inbox)
        BY <3>1, <3>2
      <4> QED
        BY <3>1, <4>1 DEF CoverInv, CallbackKey, Key, Current, DispatchTypes, ConsumerInv
    <3>7. \A f \in Events : server'[f] = "acked" => server[f] = "acked"
      BY <3>1 DEF DispatchTypes, ConsumerInv
    <3> QED
      BY <3>1, <3>5, <3>6, <3>7, CoverKept DEF CoverInv
  <2>4. ASSUME NEW e \in Events, AckWaitExpires(e) PROVE CoverInv'
    <3>1. /\ UNCHANGED <<minute, born, inbox, task, claimed>>
          /\ \A f \in Events : server'[f] = "acked" => server[f] = "acked"
          /\ \A f \in Events : server[f] # "unpublished" => server'[f] # "unpublished"
      BY <2>4 DEF AckWaitExpires, AfterFailure, history, DispatchTypes, ConsumerInv
    <3>2. InboxIsPublished' /\ CallbackKey'
      BY <3>1 DEF CoverInv, InboxIsPublished, CallbackKey, Key, Current, DispatchTypes, ConsumerInv
    <3> QED
      BY <3>1, <3>2, CoverKept DEF CoverInv
  <2>5. CASE TakeMessage
    <3>1. /\ UNCHANGED <<minute, born, server, inbox, claimed>> /\ inbox # <<>>
          /\ task'["nats"] = [at |-> minute, kind |-> "event", force |-> FALSE, pc |-> "claim"]
      BY <2>0, <2>5 DEF TakeMessage, history, DispatchTypes, KeyTypes
    <3>2. Current \in Events
      BY <3>1 DEF DispatchTypes, ConsumerInv, Current
    <3>3. InboxIsPublished' /\ CallbackKey'
      BY <3>1, <3>2 DEF CoverInv, InboxIsPublished, CallbackKey, Current, DispatchTypes, KeyTypes, Minutes
    <3> QED
      BY <3>1, <3>3, CoverKept DEF CoverInv
  <2>6. ASSUME NEW t \in Direct, NEW kind \in {"cron", "http"}, NEW force \in BOOLEAN,
               Fire(t, kind, force) PROVE CoverInv'
    <3>1. UNCHANGED <<minute, born, server, inbox, claimed>> /\ task'["nats"] = task["nats"]
      BY <2>0, <2>6, DispatchAssumption DEF DispatchAssumption, Fire, history, DispatchTypes, KeyTypes
    <3>2. InboxIsPublished' /\ CallbackKey'
      BY <3>1 DEF CoverInv, InboxIsPublished, CallbackKey, Key, Current
    <3> QED
      BY <3>1, <3>2, CoverKept DEF CoverInv
  <2>7. ASSUME NEW t \in Tasks, ClaimAndRun(t) PROVE CoverInv'
    <3>1. UNCHANGED <<minute, born, server, inbox>> /\ claimed \subseteq claimed'
      BY <2>7 DEF ClaimAndRun
    <3>2. /\ task' = [task EXCEPT ![t].pc = "run"] /\ task[t].pc = "claim"
          /\ ~task[t].force => Key(t) \in claimed'
      BY <2>7 DEF ClaimAndRun
    <3>3. CallbackKey'
      <4>1. CASE t = "nats"
        <5>1. /\ task'["nats"].kind = task["nats"].kind /\ task'["nats"].at = task["nats"].at
              /\ task'["nats"].force = task["nats"].force
          BY <2>0, <3>2, <4>1 DEF DispatchTypes, KeyTypes, TaskStates
        <5>2. Key("nats")' = Key("nats")
          BY <5>1 DEF Key
        <5> QED
          BY <3>1, <3>2, <4>1, <5>1, <5>2 DEF CoverInv, CallbackKey, Current
      <4>2. CASE t # "nats"
        <5>1. task'["nats"] = task["nats"]
          BY <2>0, <3>2, <4>2 DEF DispatchTypes, KeyTypes
        <5> QED
          BY <3>1, <5>1 DEF CoverInv, CallbackKey, Key, Current
      <4> QED
        BY <4>1, <4>2
    <3>4. InboxIsPublished'
      BY <3>1 DEF CoverInv, InboxIsPublished
    <3> QED
      BY <3>1, <3>3, <3>4, CoverKept DEF CoverInv
  <2>8. ASSUME NEW t \in Tasks, Skip(t) \/ RunReturns(t) \/ ClaimRaises(t) \/ RunRaises(t)
        PROVE CoverInv'
    <3>1. /\ task[t].pc \in {"claim", "run"} /\ task' = Finished(t)
          /\ UNCHANGED <<minute, born>> /\ claimed \subseteq claimed'
          /\ t # "nats" => UNCHANGED <<server, inbox>>
      BY <2>8 DEF Skip, RunReturns, ClaimRaises, RunRaises, history
    <3>2. t = "nats" => Nak \/ (Ack /\ Key("nats") \in claimed)
      <4>1. CASE Skip(t)
        <5>1. t = "nats" => Ack /\ Key("nats") \in claimed
          BY <4>1, Zenon DEF Skip, MayRun
        <5> QED
          BY <5>1
      <4>2. CASE RunReturns(t)
        <5>1. t = "nats" => Ack /\ task["nats"].pc = "run"
          BY <4>2, Zenon DEF RunReturns
        <5>2. t = "nats" => Key("nats") \in claimed
          BY <5>1 DEF CoverInv, CallbackKey
        <5> QED
          BY <5>1, <5>2
      <4>3. CASE ClaimRaises(t) \/ RunRaises(t)
        BY <4>3, Zenon DEF ClaimRaises, RunRaises
      <4> QED
        BY <2>8, <4>1, <4>2, <4>3
    <3> QED
      BY <3>1, <3>2, EndingCovers DEF DispatchTypes
  <2>9. CASE Crash
    <3>1. /\ UNCHANGED <<minute, born, server>> /\ inbox' = <<>> /\ claimed \subseteq claimed'
      BY <2>9 DEF Crash, KeysAfterCrash, history
    <3>2. task'["nats"].pc \notin {"claim", "run"}
      BY <2>0, <2>9 DEF Crash, Finished, Idle, DispatchTypes, KeyTypes, Tasks, TaskStates
    <3>3. InboxIsPublished' /\ CallbackKey'
      BY <3>1, <3>2 DEF CoverInv, InboxIsPublished, CallbackKey
    <3> QED
      BY <3>1, <3>3, CoverKept DEF CoverInv
  <2> QED
    BY <2>1, <2>2, <2>3, <2>4, <2>5, <2>6, <2>7, <2>8, <2>9 DEF Next
<1>3. CoverInv => AckedIsCovered
  BY DEF CoverInv
<1>4. KeyTypes /\ ConsumerInv /\ TypeOK => DispatchTypes
  BY DEF DispatchTypes, TypeOK
<1> QED
  BY <1>1, <1>2, <1>3, <1>4, KeyTypesHold, ConsumerInvHolds, DispatchTypeCorrect, PTL DEF Spec
=============================================================================
