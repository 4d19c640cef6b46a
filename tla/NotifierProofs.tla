--------------------------- MODULE NotifierProofs ---------------------------
(***************************************************************************)
(* Proofs about Notifier, for any messages, chain of adapters and limits.  *)
(* What a drainer removes has been delivered, because a round succeeds only *)
(* through an adapter whose provider got the message: that chain of facts   *)
(* is the inductive invariant.                                             *)
(***************************************************************************)
EXTENDS Notifier, TLAPS

\* The history of a task's rounds agrees with what the providers have got.
RoundsTruthful ==
    \A t \in Tasks :
        /\ task[t].got => copies[task[t].msg] > 0
        /\ task[t].ok => task[t].got
        /\ task[t].pc \in {"delivered", "remove"} => task[t].ok

IInv == NotifyTypeOK /\ RoundsTruthful /\ DeferredNotLost

LEMMA ChainLength == Len(Chain) \in Nat \ {0}
  BY NotifierAssumption DEF NotifierAssumption

\* Every task starts in a well-formed position, before any round.
LEMMA InitInv == NotifyInit => IInv
<1> SUFFICES ASSUME NotifyInit PROVE IInv
  OBVIOUS
<1>1. 1 \in 1..Len(Chain)
  BY ChainLength
<1>2. (CHOOSE m \in Messages : TRUE) \in Messages
  BY NotifierAssumption DEF NotifierAssumption
<1>3. task \in [Tasks -> Positions]
  BY <1>1, <1>2 DEF NotifyInit, Round, Positions, Tasks
<1>4. \A t \in Tasks : task[t].pc = "idle" /\ task[t].ok = FALSE /\ task[t].got = FALSE
  BY DEF NotifyInit, Round
<1>5. NotifyTypeOK
  <2>1. up \subseteq Adapters /\ queue \subseteq Messages /\ todo \subseteq Messages /\ expired \subseteq Messages
    BY DEF NotifyInit
  <2>2. used \in [Adapters -> 0..Cap] /\ troubles \in 0..MaxTroubles
    <3>1. used = [a \in Adapters |-> 0] /\ troubles = 0
      BY DEF NotifyInit
    <3>2. 0 \in 0..Cap /\ 0 \in 0..MaxTroubles
      BY NotifierAssumption DEF NotifierAssumption
    <3> QED
      BY <3>1, <3>2
  <2>3. copies \in [Messages -> Nat] /\ faults \in [Messages -> Nat]
    BY DEF NotifyInit
  <2> QED
    BY <1>3, <2>1, <2>2, <2>3 DEF NotifyTypeOK
<1>6. RoundsTruthful /\ DeferredNotLost
  BY <1>4 DEF RoundsTruthful, DeferredNotLost, Tasks
<1> QED
  BY <1>5, <1>6 DEF IInv

-----------------------------------------------------------------------------
(* The moves of a task.                                                    *)

\* A Goto leaves everything but the task's pc alone.
LEMMA GotoTyped ==
    ASSUME task \in [Tasks -> Positions], NEW t \in Tasks,
           NEW pc \in {"idle", "notify", "enqueue", "delivered", "deferred", "raised", "lost",
                       "pass", "get", "set", "remove"}, Goto(t, pc)
    PROVE  /\ task' \in [Tasks -> Positions]
           /\ task'[t].pc = pc
           /\ \A u \in Tasks : /\ u # t => task'[u] = task[u]
                               /\ task'[u].msg = task[u].msg
                               /\ task'[u].ok = task[u].ok
                               /\ task'[u].got = task[u].got
  BY DEF Goto, Positions

\* A round goes on: where the task is at, and what it knows.
LEMMA ContinueTyped ==
    ASSUME task \in [Tasks -> Positions], NEW t \in Tasks,
           NEW success \in BOOLEAN, NEW received \in BOOLEAN,
           task[t].pc = "notify", Continue(t, success, received)
    PROVE  /\ task' \in [Tasks -> Positions]
           /\ \A u \in Tasks : u # t => task'[u] = task[u]
           /\ task'[t].msg = task[t].msg
           /\ task'[t].ok = (task[t].ok \/ success)
           /\ task'[t].got = (task[t].got \/ received)
           /\ task'[t].pc \in {"delivered", "remove"} => task'[t].ok
           /\ task'[t].pc # "deferred"
<1> DEFINE done == task[t].at = Len(Chain) \/ (success /\ task[t].msg \notin Critical)
           ok   == task[t].ok \/ success
           at   == IF done THEN task[t].at ELSE task[t].at + 1
           pc   == IF done THEN (IF ok THEN OnSuccess(t) ELSE OnExhausted(t)) ELSE "notify"
<1>1. task[t] \in Positions
  OBVIOUS
<1>2. at \in 1..Len(Chain)
  BY <1>1, ChainLength DEF Positions
<1>3. /\ pc \in {"notify", "remove", "delivered", "get", "enqueue"}
      /\ pc \in {"delivered", "remove"} => ok
  BY DEF OnSuccess, OnExhausted
<1>4. task' = [task EXCEPT ![t] = [pc |-> pc, msg |-> task[t].msg, at |-> at, ok |-> ok,
                                   got |-> task[t].got \/ received]]
  BY DEF Continue, RoundOk
<1>5. ok \in BOOLEAN /\ (task[t].got \/ received) \in BOOLEAN
  OBVIOUS
<1> HIDE DEF done, ok, at, pc
<1>6. [pc |-> pc, msg |-> task[t].msg, at |-> at, ok |-> ok, got |-> task[t].got \/ received] \in Positions
  BY <1>1, <1>2, <1>3, <1>5 DEF Positions
<1>7. /\ task' \in [Tasks -> Positions]
      /\ \A u \in Tasks : u # t => task'[u] = task[u]
      /\ task'[t].msg = task[t].msg
      /\ task'[t].ok = ok
      /\ task'[t].got = (task[t].got \/ received)
      /\ task'[t].pc = pc
  BY <1>4, <1>6
<1> QED
  BY <1>3, <1>7 DEF ok

\* Copies of a message only ever become more, and a receipt is one.
LEMMA ReceiveCounts ==
    ASSUME NotifyTypeOK, NEW t \in Tasks, NEW n \in {1, 2}, RoundsTruthful, Receive(t, n)
    PROVE  /\ copies' \in [Messages -> Nat]
           /\ \A m \in Messages : copies[m] > 0 => copies'[m] > 0
           /\ copies'[task[t].msg] > 0
<1> DEFINE m == task[t].msg
           joint == IF m \in Critical /\ task[t].got THEN 1 ELSE 0
<1>1. m \in Messages /\ copies \in [Messages -> Nat]
  BY DEF NotifyTypeOK, Positions
<1>2. joint \in {0, 1} /\ (joint = 1 => copies[m] > 0)
  BY DEF RoundsTruthful
<1>3. copies' = [copies EXCEPT ![m] = @ + n - joint]
  BY DEF Receive
<1> HIDE DEF m, joint
<1>4. copies[m] + n - joint \in Nat /\ copies[m] + n - joint > 0
  BY <1>1, <1>2
<1> QED
  BY <1>1, <1>3, <1>4 DEF m

-----------------------------------------------------------------------------
(* The steps.                                                              *)

\* Counting one more of something keeps counts natural.
LEMMA CountUp ==
    ASSUME NEW S, NEW f \in [S -> Nat], NEW s \in S PROVE [f EXCEPT ![s] = @ + 1] \in [S -> Nat]
  OBVIOUS

\* One call of an adapter.
LEMMA TryKeepsInv == ASSUME IInv, NEW t \in Tasks, Try(t) PROVE IInv'
<1> DEFINE a == Chain[task[t].at]
<1>1. NotifyTypeOK /\ RoundsTruthful /\ DeferredNotLost
  BY DEF IInv
<1>2. task \in [Tasks -> Positions] /\ task[t].pc = "notify" /\ used \in [Adapters -> 0..Cap]
  BY <1>1 DEF NotifyTypeOK, Try
<1>3. a \in Adapters
  <2>1. task[t].at \in 1..Len(Chain)
    BY <1>2 DEF Positions
  <2> QED
    BY <2>1 DEF Adapters
<1>4. used' \in [Adapters -> 0..Cap]
  <2>1. used' = used \/ (~Limited(a) /\ used' = [used EXCEPT ![a] = @ + 1])
    BY DEF Try
  <2>2. ~Limited(a) => used[a] + 1 \in 0..Cap
    BY <1>2, <1>3, NotifierAssumption DEF Limited, NotifierAssumption
  <2> QED
    BY <1>2, <1>3, <2>1, <2>2
<1>5. PICK success \in BOOLEAN, received \in BOOLEAN :
        /\ Continue(t, success, received)
        /\ success => received
        /\ received => \E n \in {1, 2} : Receive(t, n)
        /\ ~received => copies' = copies
  BY DEF Try, AnswerLost
<1>6. /\ copies' \in [Messages -> Nat]
      /\ \A m \in Messages : copies[m] > 0 => copies'[m] > 0
      /\ received => copies'[task[t].msg] > 0
  BY <1>1, <1>5, ReceiveCounts DEF NotifyTypeOK
<1>7. troubles' \in 0..MaxTroubles /\ faults' \in [Messages -> Nat]
  <2>1. \/ UNCHANGED <<troubles, faults>>
        \/ Trouble /\ faults' = [faults EXCEPT ![task[t].msg] = @ + 1]
    BY DEF Try, AnswerLost
  <2>2. CASE UNCHANGED <<troubles, faults>>
    BY <1>1, <2>2 DEF NotifyTypeOK
  <2>3. CASE Trouble /\ faults' = [faults EXCEPT ![task[t].msg] = @ + 1]
    <3>1. troubles' \in 0..MaxTroubles
      BY <1>1, <2>3, NotifierAssumption DEF NotifyTypeOK, Trouble, NotifierAssumption
    <3>2. faults \in [Messages -> Nat] /\ task[t].msg \in Messages
      BY <1>1 DEF NotifyTypeOK, Positions
    <3>3. [faults EXCEPT ![task[t].msg] = @ + 1] \in [Messages -> Nat]
      BY <3>2, CountUp
    <3> QED
      BY <2>3, <3>1, <3>3
  <2> QED
    BY <2>1, <2>2, <2>3
<1>8. UNCHANGED <<up, queue, todo, expired>>
  BY DEF Try
<1>9. /\ task' \in [Tasks -> Positions]
      /\ \A u \in Tasks : u # t => task'[u] = task[u]
      /\ task'[t].msg = task[t].msg
      /\ task'[t].ok = (task[t].ok \/ success)
      /\ task'[t].got = (task[t].got \/ received)
      /\ task'[t].pc \in {"delivered", "remove"} => task'[t].ok
      /\ task'[t].pc # "deferred"
  BY <1>2, <1>5, ContinueTyped
<1>10. NotifyTypeOK'
  BY <1>1, <1>4, <1>6, <1>7, <1>8, <1>9 DEF NotifyTypeOK
<1>11. RoundsTruthful'
  <2> SUFFICES ASSUME NEW u \in Tasks
               PROVE  /\ task'[u].got => copies'[task'[u].msg] > 0
                      /\ task'[u].ok => task'[u].got
                      /\ task'[u].pc \in {"delivered", "remove"} => task'[u].ok
    BY DEF RoundsTruthful
  <2>1. task[u].msg \in Messages
    BY <1>2 DEF Positions
  <2>2. CASE u # t
    BY <1>1, <1>6, <1>9, <2>1, <2>2 DEF RoundsTruthful
  <2>3. CASE u = t
    BY <1>1, <1>5, <1>6, <1>9, <2>1, <2>3 DEF RoundsTruthful
  <2> QED
    BY <2>2, <2>3
<1>12. DeferredNotLost'
  BY <1>1, <1>6, <1>8, <1>9 DEF DeferredNotLost, Tasks
<1> QED
  BY <1>10, <1>11, <1>12 DEF IInv

\* A task that only changes its pc to one that claims nothing new, and a queue that
\* keeps what is deferred and undelivered.
LEMMA GotoKeepsInv ==
    ASSUME IInv, NEW t \in Tasks,
           NEW pc \in {"idle", "notify", "enqueue", "deferred", "raised", "lost", "pass", "get", "set"},
           Goto(t, pc), pc = "deferred" => t \in queue',
           queue' \subseteq Messages, todo' \subseteq Messages,
           \A m \in queue : m \in queue' \/ copies[m] > 0,
           troubles' \in 0..MaxTroubles, faults' \in [Messages -> Nat],
           UNCHANGED <<up, used, expired, copies>>
    PROVE  IInv'
<1>1. NotifyTypeOK /\ RoundsTruthful /\ DeferredNotLost
  BY DEF IInv
<1>2. /\ task' \in [Tasks -> Positions]
      /\ task'[t].pc = pc
      /\ \A u \in Tasks : /\ u # t => task'[u] = task[u]
                          /\ task'[u].msg = task[u].msg
                          /\ task'[u].ok = task[u].ok
                          /\ task'[u].got = task[u].got
  BY <1>1, GotoTyped DEF NotifyTypeOK
<1>3. NotifyTypeOK'
  BY <1>1, <1>2 DEF NotifyTypeOK
<1>4. RoundsTruthful'
  BY <1>1, <1>2 DEF RoundsTruthful
<1>5. DeferredNotLost'
  BY <1>1, <1>2 DEF DeferredNotLost, Tasks
<1> QED
  BY <1>3, <1>4, <1>5 DEF IInv

\* A new round starts with nothing got.
LEMMA RoundKeepsInv ==
    ASSUME IInv, NEW t \in Tasks, NEW m \in Messages,
           task' = [task EXCEPT ![t] = Round(m)], todo' \subseteq Messages,
           UNCHANGED <<up, used, queue, troubles, history>>
    PROVE  IInv'
<1>1. NotifyTypeOK /\ RoundsTruthful /\ DeferredNotLost
  BY DEF IInv
<1>2. Round(m) \in Positions /\ Round(m).pc = "notify" /\ Round(m).ok = FALSE /\ Round(m).got = FALSE
  <2>1. 1 \in 1..Len(Chain)
    BY ChainLength
  <2> QED
    BY <2>1 DEF Round, Positions
<1>3. /\ task \in [Tasks -> Positions] /\ task' \in [Tasks -> Positions]
      /\ task'[t] = Round(m) /\ \A u \in Tasks : u # t => task'[u] = task[u]
  BY <1>1, <1>2 DEF NotifyTypeOK
<1>4. NotifyTypeOK'
  BY <1>1, <1>3 DEF NotifyTypeOK, history
<1>5. RoundsTruthful'
  BY <1>1, <1>2, <1>3 DEF RoundsTruthful, history
<1>6. DeferredNotLost'
  BY <1>1, <1>2, <1>3 DEF DeferredNotLost, Tasks, history
<1> QED
  BY <1>4, <1>5, <1>6 DEF IInv

\* Troubles are counted within their bound.
LEMMA TroubleCounts == NotifyTypeOK /\ Trouble => troubles' \in 0..MaxTroubles
  BY NotifierAssumption DEF NotifyTypeOK, Trouble, NotifierAssumption

\* What an interrupted drainer adds to the faults.
LEMMA InterruptedTyped == NotifyTypeOK => Interrupted \in [Messages -> Nat]
<1> SUFFICES ASSUME NotifyTypeOK PROVE Interrupted \in [Messages -> Nat]
  OBVIOUS
<1>1. faults \in [Messages -> Nat]
  BY DEF NotifyTypeOK
<1>2. Interrupted = faults \/ Interrupted = [faults EXCEPT ![Current] = @ + 1]
  BY DEF Interrupted
<1> QED
  BY <1>1, <1>2

\* The message the drainer is at is a message, and one it removes has been delivered.
LEMMA CurrentDelivered ==
    ASSUME IInv PROVE Current \in Messages /\ (task["drainer"].pc = "remove" => copies[Current] > 0)
  BY DEF IInv, NotifyTypeOK, RoundsTruthful, Current, Positions, Tasks

\* The steps of a task that sends.
LEMMA SenderKeepsInv ==
    ASSUME IInv, NEW m \in Messages, Send(m) \/ Enqueue(m) \/ EnqueueRaises(m) PROVE IInv'
<1>1. m \in Tasks /\ NotifyTypeOK /\ queue \subseteq Messages /\ todo \subseteq Messages
  BY DEF IInv, NotifyTypeOK, Tasks
<1>2. CASE Send(m)
  BY <1>1, <1>2, RoundKeepsInv DEF Send
<1>3. CASE Enqueue(m)
  BY <1>1, <1>3, GotoKeepsInv DEF Enqueue, NotifyTypeOK, history
<1>4. CASE EnqueueRaises(m)
  BY <1>1, <1>4, GotoKeepsInv, TroubleCounts DEF EnqueueRaises, NotifyTypeOK, history
<1> QED
  BY <1>2, <1>3, <1>4

\* The steps of the drainer.
LEMMA DrainerKeepsInv == ASSUME IInv, Drain \/ DrainRaises PROVE IInv'
<1>1. "drainer" \in Tasks /\ "drainer" \notin Messages /\ NotifyTypeOK /\ queue \subseteq Messages /\ todo \subseteq Messages
  BY NotifierAssumption DEF IInv, NotifyTypeOK, Tasks, NotifierAssumption
<1>2. Current \in Messages /\ (task["drainer"].pc = "remove" => copies[Current] > 0)
  BY CurrentDelivered
<1>3. CASE ListPending
  BY <1>1, <1>3, GotoKeepsInv DEF ListPending, NotifyTypeOK, history
<1>4. CASE NextMessage
  BY <1>1, <1>4, RoundKeepsInv DEF NextMessage
<1>5. CASE PassEnds
  BY <1>1, <1>5, GotoKeepsInv DEF PassEnds, NotifyTypeOK, history
<1>6. CASE ReadAttempt
  BY <1>1, <1>6, GotoKeepsInv DEF ReadAttempt, NotifyTypeOK, history
<1>7. CASE WriteAttempt
  BY <1>1, <1>2, <1>7, GotoKeepsInv DEF WriteAttempt, AfterAttempt, NotifyTypeOK, history
<1>8. CASE RemoveDelivered
  BY <1>1, <1>2, <1>8, GotoKeepsInv DEF RemoveDelivered, NotifyTypeOK, history
<1>9. CASE DrainRaises
  <2>1. queue' \subseteq Messages /\ \A m \in queue : m \in queue' \/ copies[m] > 0
    BY <1>1, <1>2, <1>9 DEF DrainRaises, Answered, AfterAttempt
  <2>2. faults' \in [Messages -> Nat] /\ troubles' \in 0..MaxTroubles
    BY <1>1, <1>9, InterruptedTyped, TroubleCounts DEF DrainRaises
  <2> QED
    BY <1>1, <1>9, <2>1, <2>2, GotoKeepsInv DEF DrainRaises, AfterRaise
<1> QED
  BY <1>3, <1>4, <1>5, <1>6, <1>7, <1>8, <1>9 DEF Drain

\* The steps of providers, windows and keys.
LEMMA EnvironmentKeepsInv ==
    ASSUME IInv,
           \/ \E a \in Adapters : ProviderChanges(a) \/ WindowPasses(a)
           \/ \E m \in Messages : Expire(m)
    PROVE  IInv'
<1>1. NotifyTypeOK /\ RoundsTruthful /\ DeferredNotLost
  BY DEF IInv
<1>2. ASSUME NEW a \in Adapters, ProviderChanges(a) PROVE IInv'
  <2>1. NotifyTypeOK'
    BY <1>1, <1>2 DEF ProviderChanges, NotifyTypeOK, history
  <2>2. RoundsTruthful' /\ DeferredNotLost'
    BY <1>1, <1>2 DEF ProviderChanges, RoundsTruthful, DeferredNotLost, history
  <2> QED
    BY <2>1, <2>2 DEF IInv
<1>3. ASSUME NEW a \in Adapters, WindowPasses(a) PROVE IInv'
  <2>1. used' \in [Adapters -> 0..Cap]
    BY <1>1, <1>3, NotifierAssumption DEF WindowPasses, NotifyTypeOK, NotifierAssumption
  <2>2. NotifyTypeOK'
    BY <1>1, <1>3, <2>1 DEF WindowPasses, NotifyTypeOK, history
  <2>3. RoundsTruthful' /\ DeferredNotLost'
    BY <1>1, <1>3 DEF WindowPasses, RoundsTruthful, DeferredNotLost, history
  <2> QED
    BY <2>2, <2>3 DEF IInv
<1>4. ASSUME NEW m \in Messages, Expire(m) PROVE IInv'
  <2>1. NotifyTypeOK'
    BY <1>1, <1>4 DEF Expire, NotifyTypeOK
  <2>2. RoundsTruthful' /\ DeferredNotLost'
    BY <1>1, <1>4 DEF Expire, RoundsTruthful, DeferredNotLost
  <2> QED
    BY <2>1, <2>2 DEF IInv
<1> QED
  BY <1>2, <1>3, <1>4

\* A restart of the process leaves the queue, and nobody claims more than before.
LEMMA CrashKeepsInv == ASSUME IInv, NotifyCrash PROVE IInv'
<1>1. NotifyTypeOK /\ RoundsTruthful /\ DeferredNotLost
  BY DEF IInv
<1>2. task \in [Tasks -> Positions]
  BY <1>1 DEF NotifyTypeOK
<1>3. /\ task' \in [Tasks -> Positions]
      /\ \A t \in Tasks : /\ task'[t].msg = task[t].msg
                          /\ task'[t].ok = task[t].ok
                          /\ task'[t].got = task[t].got
                          /\ task'[t].pc \in {task[t].pc, "idle", "lost"}
  BY <1>2 DEF NotifyCrash, Positions
<1>4. NotifyTypeOK'
  <2>1. used' \in [Adapters -> 0..Cap]
    BY NotifierAssumption DEF NotifyCrash, NotifierAssumption
  <2>2. faults' \in [Messages -> Nat] /\ troubles' \in 0..MaxTroubles
    BY <1>1, InterruptedTyped, TroubleCounts DEF NotifyCrash
  <2> QED
    BY <1>1, <1>3, <2>1, <2>2 DEF NotifyCrash, NotifyTypeOK
<1>5. RoundsTruthful' /\ DeferredNotLost'
  BY <1>1, <1>3 DEF NotifyCrash, RoundsTruthful, DeferredNotLost, Tasks
<1> QED
  BY <1>4, <1>5 DEF IInv

\* Every step keeps the invariant.
THEOREM NotifierInvariant == NotifySpec => []IInv
<1>1. IInv /\ [NotifyNext]_notifyVars => IInv'
  <2> SUFFICES ASSUME IInv, [NotifyNext]_notifyVars PROVE IInv'
    OBVIOUS
  <2>1. CASE UNCHANGED notifyVars
    BY <2>1 DEF notifyVars, history, IInv, NotifyTypeOK, RoundsTruthful, DeferredNotLost
  <2>2. CASE NotifyNext
    BY <2>2, TryKeepsInv, SenderKeepsInv, DrainerKeepsInv, EnvironmentKeepsInv, CrashKeepsInv DEF NotifyNext
  <2> QED
    BY <2>1, <2>2
<1> QED
  BY InitInv, <1>1, PTL DEF NotifySpec

\* Type correctness, for all constants (the state of Router, RateLimiter and the queue).
THEOREM NotifierTypeCorrect == NotifySpec => []NotifyTypeOK
<1>1. IInv => NotifyTypeOK
  BY DEF IInv
<1> QED
  BY NotifierInvariant, <1>1, PTL

\* notify_with_redelivery returned None: the message is in Redis, received, or expired.
THEOREM DeferredIsNotLost == NotifySpec => []DeferredNotLost
<1>1. IInv => DeferredNotLost
  BY DEF IInv
<1> QED
  BY NotifierInvariant, <1>1, PTL

\* Router.notify reports success only of a message that a provider has got.
THEOREM SuccessIsTrue == NotifySpec => []SuccessMeansReceived
<1>1. IInv => SuccessMeansReceived
  BY DEF IInv, RoundsTruthful, SuccessMeansReceived
<1> QED
  BY NotifierInvariant, <1>1, PTL

-----------------------------------------------------------------------------
(* At most one copy too many per fault: a message has one owner at a time,  *)
(* the task that sends it, the queue or the drainer, and as long as its      *)
(* owner knows of no success, every copy is paid for by a fault.            *)

Draining(m) == task["drainer"].pc \in {"notify", "get", "set", "remove"} /\ Current = m

\* What the drainer is about to remove, or will be.
Succeeded(m) == Draining(m) /\ task["drainer"].ok /\ task["drainer"].pc \in {"notify", "remove"}

Paid(m) == copies[m] <= faults[m]

OwnedOnce ==
  /\ \A m \in Messages : /\ task[m].msg = m
                         /\ task[m].pc \in {"idle", "notify", "enqueue"} =>
                              m \notin queue \cup todo /\ ~Draining(m)
                         /\ task[m].pc \notin {"get", "set", "remove", "pass"}
  /\ \A m \in todo : ~Draining(m)
  /\ task["drainer"].pc \notin {"enqueue", "delivered", "deferred", "raised", "lost"}

CopiesPaid ==
  /\ \A m \in Messages : task[m].pc = "idle" => Paid(m)
  /\ \A t \in Tasks : task[t].pc \in {"notify", "enqueue", "get", "set"} /\ ~task[t].ok => Paid(task[t].msg)
  /\ \A t \in Tasks : task[t].pc \in {"enqueue", "get", "set"} => ~task[t].ok
  /\ \A t \in Tasks : task[t].pc = "notify" /\ task[t].ok => task[t].msg \in Critical
  /\ \A m \in queue \cup todo : Paid(m) \/ Succeeded(m)

CopyInv == IInv /\ OwnedOnce /\ CopiesPaid /\ NoNeedlessCopies

\* Where a round that goes on leads to.
LEMMA ContinueWhere ==
    ASSUME task \in [Tasks -> Positions], NEW t \in Tasks,
           NEW success \in BOOLEAN, NEW received \in BOOLEAN, Continue(t, success, received)
    PROVE  \/ task'[t].pc = "notify" /\ ~(success /\ task[t].msg \notin Critical)
           \/ task'[t].pc = OnSuccess(t) /\ (task[t].ok \/ success)
           \/ task'[t].pc = OnExhausted(t) /\ ~(task[t].ok \/ success)
  BY DEF Continue, RoundOk

\* What one call of an adapter does to the accounts of the message.
LEMMA TryPays ==
    ASSUME CopyInv, NEW t \in Tasks, Try(t), NEW m, m = task[t].msg
    PROVE  \E success \in BOOLEAN, received \in BOOLEAN :
             /\ Continue(t, success, received)
             /\ \A u \in Messages : u # m => copies'[u] = copies[u] /\ faults'[u] = faults[u]
             /\ copies'[m] <= 1 + faults'[m]
             /\ ~(task[t].ok \/ success) => Paid(m)'
<1> DEFINE joint == IF task[t].msg \in Critical /\ task[t].got THEN 1 ELSE 0
<1>1. /\ task[t].pc = "notify" /\ m \in Messages /\ task[t].ok \in BOOLEAN /\ task[t].got \in BOOLEAN
      /\ copies \in [Messages -> Nat] /\ faults \in [Messages -> Nat]
  BY DEF CopyInv, IInv, NotifyTypeOK, Positions, Try
<1>2. /\ joint \in {0, 1}
      /\ task[t].ok => joint = 1
  BY <1>1 DEF CopyInv, IInv, RoundsTruthful, CopiesPaid
<1>3. /\ copies[m] <= 1 + faults[m]
      /\ ~task[t].ok => copies[m] <= faults[m]
  BY <1>1 DEF CopyInv, NoNeedlessCopies, CopiesPaid, Paid
<1>4. PICK success \in BOOLEAN, received \in BOOLEAN :
        /\ Continue(t, success, received)
        /\ \/ ~success /\ copies' = copies /\ faults' = faults
           \/ success /\ Receive(t, 1) /\ faults' = faults
           \/ success /\ Receive(t, 2) /\ faults' = [faults EXCEPT ![m] = @ + 1]
           \/ ~success /\ Receive(t, 1) /\ faults' = [faults EXCEPT ![m] = @ + 1]
  BY DEF Try, AnswerLost
<1>5. \A n : Receive(t, n) => copies' = [copies EXCEPT ![m] = copies[m] + n - joint]
  BY DEF Receive
<1> HIDE DEF joint
<1>6. \A u \in Messages : u # m => copies'[u] = copies[u] /\ faults'[u] = faults[u]
  BY <1>1, <1>4, <1>5
<1>7. CASE ~success /\ copies' = copies /\ faults' = faults
  <2>1. copies'[m] <= 1 + faults'[m]
    BY <1>3, <1>7
  <2>2. ~task[t].ok => Paid(m)'
    BY <1>3, <1>7 DEF Paid
  <2> QED
    BY <1>4, <1>6, <1>7, <2>1, <2>2, Zenon
<1>8. CASE success /\ Receive(t, 1) /\ faults' = faults
  <2>1. copies'[m] = copies[m] + 1 - joint /\ faults'[m] = faults[m]
    BY <1>1, <1>5, <1>8
  <2>2. copies'[m] <= 1 + faults'[m]
    BY <1>1, <1>2, <1>3, <2>1
  <2> QED
    BY <1>4, <1>6, <1>8, <2>2, Zenon
<1>9. CASE success /\ Receive(t, 2) /\ faults' = [faults EXCEPT ![m] = @ + 1]
  <2>1. copies'[m] = copies[m] + 2 - joint /\ faults'[m] = faults[m] + 1
    BY <1>1, <1>5, <1>9
  <2>2. copies'[m] <= 1 + faults'[m]
    BY <1>1, <1>2, <1>3, <2>1
  <2> QED
    BY <1>4, <1>6, <1>9, <2>2, Zenon
<1>10. CASE ~success /\ Receive(t, 1) /\ faults' = [faults EXCEPT ![m] = @ + 1]
  <2>1. copies'[m] = copies[m] + 1 - joint /\ faults'[m] = faults[m] + 1
    BY <1>1, <1>5, <1>10
  <2>2. copies'[m] <= faults'[m] /\ copies'[m] <= 1 + faults'[m]
    BY <1>1, <1>2, <1>3, <2>1
  <2> QED
    BY <1>4, <1>6, <2>2, Zenon DEF Paid
<1> QED
  BY <1>4, <1>7, <1>8, <1>9, <1>10

\* One call of an adapter keeps the accounts.
LEMMA TryKeepsCopies == ASSUME CopyInv, NEW t \in Tasks, Try(t) PROVE CopyInv'
<1>0. PICK m : m = task[t].msg
  OBVIOUS
<1>1. IInv' /\ NotifyTypeOK /\ RoundsTruthful
  BY TryKeepsInv DEF CopyInv, IInv
<1>2. /\ task \in [Tasks -> Positions] /\ task[t].pc = "notify" /\ m \in Messages
      /\ queue' = queue /\ todo' = todo
  BY <1>0, <1>1 DEF NotifyTypeOK, Positions, Try
<1>3. PICK success \in BOOLEAN, received \in BOOLEAN :
        /\ Continue(t, success, received)
        /\ \A u \in Messages : u # m => copies'[u] = copies[u] /\ faults'[u] = faults[u]
        /\ copies'[m] <= 1 + faults'[m]
        /\ ~(task[t].ok \/ success) => Paid(m)'
  BY <1>0, TryPays
<1>4. /\ \A u \in Tasks : u # t => task'[u] = task[u]
      /\ task'[t].msg = m /\ task'[t].ok = (task[t].ok \/ success)
      /\ \/ task'[t].pc = "notify" /\ ~(success /\ m \notin Critical)
         \/ task'[t].pc = OnSuccess(t) /\ task'[t].ok
         \/ task'[t].pc = OnExhausted(t) /\ ~task'[t].ok
  BY <1>0, <1>2, <1>3, ContinueTyped, ContinueWhere
<1>5. /\ t = "drainer" => task'[t].pc \in {"notify", "remove", "get"}
      /\ t # "drainer" => task'[t].pc \in {"notify", "delivered", "enqueue"} /\ t = m
  BY <1>0, <1>4 DEF OnSuccess, OnExhausted, CopyInv, OwnedOnce, Tasks
<1>6. "drainer" \in Tasks /\ "drainer" \notin Messages /\ \A u \in Messages : u \in Tasks
  BY NotifierAssumption DEF Tasks, NotifierAssumption
<1>7. \A u \in Messages : Draining(u)' <=> Draining(u)
  BY <1>0, <1>2, <1>4, <1>5, <1>6 DEF Draining, Current
<1>8. OwnedOnce'
  <2>1. \A u \in Messages : u # t => task'[u] = task[u]
    BY <1>4, <1>6
  <2>2. t \in Messages => task[t].pc = "notify" /\ task'[t].pc \in {"notify", "delivered", "enqueue"}
    BY <1>2, <1>5, <1>6
  <2>3. \A u \in Messages : /\ task'[u].msg = u
                            /\ task'[u].pc \in {"idle", "notify", "enqueue"} =>
                                 u \notin queue' \cup todo' /\ ~Draining(u)'
                            /\ task'[u].pc \notin {"get", "set", "remove", "pass"}
    BY <1>0, <1>2, <1>4, <1>5, <1>7, <2>1, <2>2 DEF CopyInv, OwnedOnce
  <2>4. \A u \in todo' : ~Draining(u)'
    BY <1>1, <1>2, <1>7 DEF CopyInv, OwnedOnce, NotifyTypeOK
  <2>5. task'["drainer"].pc \notin {"enqueue", "delivered", "deferred", "raised", "lost"}
    BY <1>4, <1>5, <1>6 DEF CopyInv, OwnedOnce
  <2> QED
    BY <2>3, <2>4, <2>5 DEF OwnedOnce
<1>9. NoNeedlessCopies'
  BY <1>3 DEF CopyInv, NoNeedlessCopies
<1>10. \A u \in Messages : u # m => (Paid(u)' <=> Paid(u))
  BY <1>3 DEF Paid
<1>11. CopiesPaid'
  <2>1. \A u \in Messages : task'[u].pc = "idle" => Paid(u)'
    <3> SUFFICES ASSUME NEW u \in Messages, task'[u].pc = "idle" PROVE Paid(u)'
      OBVIOUS
    <3>1. u # t /\ task'[u] = task[u]
      BY <1>4, <1>5, <1>6
    <3>2. u # m
      BY <1>0, <1>2, <3>1, <1>5, <1>6 DEF CopyInv, OwnedOnce, Draining, Current
    <3> QED
      BY <1>10, <3>1, <3>2 DEF CopyInv, CopiesPaid
  <2>2. ASSUME NEW u \in Tasks, task'[u].pc \in {"notify", "enqueue", "get", "set"}, ~task'[u].ok
        PROVE  Paid(task[u].msg)'
    <3>1. CASE u = t
      BY <1>3, <1>4, <2>2, <3>1 DEF Paid
    <3>2. CASE u # t
      <4>1. task'[u] = task[u]
        BY <1>4, <3>2
      <4>2. task[u].msg # m /\ task[u].msg \in Messages
        <5>1. CASE u = "drainer"
          BY <1>0, <1>2, <1>5, <2>2, <3>2, <4>1, <5>1
             DEF CopyInv, OwnedOnce, Draining, Current, Positions
        <5>2. CASE t = "drainer"
          BY <1>0, <1>2, <2>2, <3>2, <4>1, <5>2 DEF CopyInv, OwnedOnce, Draining, Current, Tasks
        <5>3. CASE u # "drainer" /\ t # "drainer"
          BY <1>5, <3>2, <5>3 DEF CopyInv, OwnedOnce, Tasks
        <5> QED
          BY <5>1, <5>2, <5>3
      <4>3. Paid(task[u].msg)
        BY <2>2, <4>1 DEF CopyInv, CopiesPaid
      <4>4. copies'[task[u].msg] = copies[task[u].msg] /\ faults'[task[u].msg] = faults[task[u].msg]
        BY <1>3, <4>2
      <4> QED
        BY <4>1, <4>3, <4>4 DEF Paid
    <3> QED
      BY <3>1, <3>2
  <2>3. \A u \in Tasks : task'[u].pc \in {"enqueue", "get", "set"} => ~task'[u].ok
    BY <1>4 DEF CopyInv, CopiesPaid, OnSuccess
  <2>4. \A u \in Tasks : task'[u].pc = "notify" /\ task'[u].ok => task'[u].msg \in Critical
    BY <1>0, <1>2, <1>4 DEF CopyInv, CopiesPaid, OnSuccess, OnExhausted
  <2>5. \A u \in queue' \cup todo' : Paid(u)' \/ Succeeded(u)'
    <3> SUFFICES ASSUME NEW u \in queue \cup todo PROVE Paid(u)' \/ Succeeded(u)'
      BY <1>2
    <3>1. u \in Messages
      BY <1>1 DEF NotifyTypeOK
    <3>2. CASE u # m
      <4>1. Paid(u) \/ Succeeded(u)
        BY DEF CopyInv, CopiesPaid
      <4>2. Succeeded(u) => Succeeded(u)'
        BY <1>0, <1>4, <1>6, <3>2 DEF Succeeded, Draining, Current
      <4> QED
        BY <1>10, <3>1, <3>2, <4>1, <4>2
    <3>3. CASE u = m
      <4>1. t = "drainer"
        BY <1>0, <1>2, <1>5, <3>3 DEF CopyInv, OwnedOnce
      <4>2. CASE task[t].ok \/ success
        BY <1>4, <3>3, <4>1, <4>2 DEF Succeeded, Draining, Current, OnSuccess, OnExhausted
      <4>3. CASE ~(task[t].ok \/ success)
        BY <1>3, <3>3, <4>3
      <4> QED
        BY <4>2, <4>3
    <3> QED
      BY <3>2, <3>3
  <2> QED
    BY <2>1, <2>2, <2>3, <2>4, <2>5 DEF CopiesPaid
<1> QED
  BY <1>1, <1>8, <1>9, <1>11 DEF CopyInv

\* A task goes somewhere without a call of an adapter, and nothing new is received.
LEMMA GotoKeepsCopies ==
    ASSUME CopyInv, IInv', NEW t \in Tasks,
           NEW pc \in {"idle", "notify", "enqueue", "deferred", "raised", "lost", "pass", "get", "set"},
           Goto(t, pc), UNCHANGED copies,
           t = "drainer" => pc \in {"idle", "pass", "get", "set"},
           t \in Messages => pc \in {"deferred", "raised"},
           pc = "set" => task[t].pc = "get", pc = "get" => task[t].pc = "get",
           \A m \in Messages : faults[m] <= faults'[m],
           \A m \in queue' \cup todo' : /\ m \in queue \cup todo \/ Paid(m)
                                        /\ m \in queue \cup todo \/ task'[m].pc \notin {"idle", "notify", "enqueue"}
                                        /\ Succeeded(m) => Paid(m)' \/ Succeeded(m)',
           todo' \subseteq todo \/ task'["drainer"].pc = "pass"
    PROVE  CopyInv'
<1>1. /\ NotifyTypeOK /\ task' \in [Tasks -> Positions] /\ task'[t].pc = pc
      /\ \A u \in Tasks : /\ u # t => task'[u] = task[u]
                          /\ task'[u].msg = task[u].msg
                          /\ task'[u].ok = task[u].ok
                          /\ task'[u].got = task[u].got
  BY GotoTyped DEF CopyInv, IInv, NotifyTypeOK
<1>2. "drainer" \in Tasks /\ "drainer" \notin Messages /\ Tasks = Messages \cup {"drainer"}
  BY NotifierAssumption DEF Tasks, NotifierAssumption
<1>3. /\ queue' \subseteq Messages /\ todo' \subseteq Messages
      /\ \A m \in Messages : copies[m] \in Nat /\ faults[m] \in Nat /\ faults'[m] \in Nat
  BY DEF CopyInv, IInv, NotifyTypeOK
<1>4. \A m \in Messages : Paid(m) => Paid(m)'
  BY <1>3 DEF Paid
<1>5. NoNeedlessCopies'
  <2> SUFFICES ASSUME NEW m \in Messages PROVE copies[m] <= 1 + faults'[m]
    BY DEF NoNeedlessCopies
  <2>1. copies[m] <= 1 + faults[m]
    BY DEF CopyInv, NoNeedlessCopies
  <2> QED
    BY <1>3, <2>1
<1>6. \A m \in Messages : Draining(m)' => Draining(m)
  BY <1>1, <1>2 DEF Draining, Current
<1>7. OwnedOnce'
  <2>1. \A m \in Messages : /\ task'[m].msg = m
                            /\ task'[m].pc \in {"idle", "notify", "enqueue"} => task'[m] = task[m]
                            /\ task'[m].pc \notin {"get", "set", "remove", "pass"}
    BY <1>1, <1>2 DEF CopyInv, OwnedOnce
  <2>2. \A m \in Messages : task'[m].pc \in {"idle", "notify", "enqueue"} =>
                              m \notin queue' \cup todo' /\ ~Draining(m)'
    BY <1>6, <2>1 DEF CopyInv, OwnedOnce
  <2>3. \A m \in todo' : ~Draining(m)'
    BY <1>3, <1>6 DEF CopyInv, OwnedOnce, Draining
  <2>4. task'["drainer"].pc \notin {"enqueue", "delivered", "deferred", "raised", "lost"}
    BY <1>1, <1>2 DEF CopyInv, OwnedOnce
  <2> QED
    BY <2>1, <2>2, <2>3, <2>4 DEF OwnedOnce
<1>8. CopiesPaid'
  <2>1. \A m \in Messages : task'[m].pc = "idle" => Paid(m)'
    BY <1>1, <1>2, <1>4 DEF CopyInv, CopiesPaid
  <2>2. ASSUME NEW u \in Tasks, task'[u].pc \in {"notify", "enqueue", "get", "set"}, ~task'[u].ok
        PROVE  copies'[task'[u].msg] <= faults'[task'[u].msg]
    <3>1. task[u].pc \in {"notify", "enqueue", "get", "set"} /\ ~task[u].ok /\ task[u].msg \in Messages
      BY <1>1, <1>2, <2>2 DEF Positions, NotifyTypeOK
    <3>2. Paid(task[u].msg)
      BY <3>1 DEF CopyInv, CopiesPaid
    <3>3. copies[task[u].msg] <= faults'[task[u].msg]
      BY <1>3, <3>1, <3>2 DEF Paid
    <3> QED
      BY <1>1, <3>3
  <2>3. \A u \in Tasks : task'[u].pc \in {"enqueue", "get", "set"} => ~task'[u].ok
    BY <1>1, <1>2 DEF CopyInv, CopiesPaid
  <2>4. \A u \in Tasks : task'[u].pc = "notify" /\ task'[u].ok => task'[u].msg \in Critical
    BY <1>1, <1>2 DEF CopyInv, CopiesPaid
  <2>5. \A m \in queue' \cup todo' : Paid(m)' \/ Succeeded(m)'
    BY <1>3, <1>4 DEF CopyInv, CopiesPaid
  <2> QED
    BY <2>1, <2>2, <2>3, <2>4, <2>5 DEF CopiesPaid, Paid
<1> QED
  BY <1>5, <1>7, <1>8 DEF CopyInv

LEMMA SenderKeepsCopies ==
    ASSUME CopyInv, IInv', NEW m \in Messages, Send(m) \/ Enqueue(m) \/ EnqueueRaises(m) PROVE CopyInv'
<1>1. /\ m \in Tasks /\ m # "drainer" /\ "drainer" \in Tasks /\ Tasks = Messages \cup {"drainer"}
      /\ NotifyTypeOK /\ task \in [Tasks -> Positions]
  BY NotifierAssumption DEF CopyInv, IInv, NotifyTypeOK, Tasks, NotifierAssumption
<1>2. CASE Enqueue(m) \/ EnqueueRaises(m)
  <2>1. PICK pc \in {"deferred", "raised"} : Goto(m, pc)
    BY <1>2 DEF Enqueue, EnqueueRaises
  <2>2. /\ task[m].pc = "enqueue" /\ queue' \subseteq queue \cup {m} /\ todo' = todo
        /\ copies' = copies /\ faults' = faults
    BY <1>2 DEF Enqueue, EnqueueRaises, history
  <2>3. Paid(m)
    BY <1>1, <2>2 DEF CopyInv, CopiesPaid, OwnedOnce
  <2>4. /\ task'[m].pc = pc /\ task'["drainer"] = task["drainer"]
    BY <1>1, <2>1, GotoTyped
  <2>5. \A u \in Messages : Succeeded(u) => Succeeded(u)'
    BY <2>4 DEF Succeeded, Draining, Current
  <2>6. \A u \in queue' \cup todo' : /\ u \in queue \cup todo \/ Paid(u)
                                     /\ u \in queue \cup todo \/ task'[u].pc \notin {"idle", "notify", "enqueue"}
                                     /\ Succeeded(u) => Paid(u)' \/ Succeeded(u)'
    <3> SUFFICES ASSUME NEW u \in queue' \cup todo'
                 PROVE  /\ u \in queue \cup todo \/ u = m
                        /\ Succeeded(u) => Succeeded(u)'
      BY <2>3, <2>4
    <3>1. u \in Messages
      BY <1>1, <2>2 DEF NotifyTypeOK
    <3> QED
      BY <2>2, <2>5, <3>1
  <2>7. \A u \in Messages : faults[u] <= faults'[u]
    BY <1>1, <2>2 DEF NotifyTypeOK
  <2> QED
    BY <1>1, <2>1, <2>2, <2>6, <2>7, GotoKeepsCopies
<1>3. CASE Send(m)
  <2>1. /\ task[m].pc = "idle" /\ task' = [task EXCEPT ![m] = Round(m)]
        /\ UNCHANGED <<queue, todo, copies, faults>>
    BY <1>3 DEF Send, history
  <2>2. /\ task'[m] = Round(m) /\ \A u \in Tasks : u # m => task'[u] = task[u]
        /\ Round(m).pc = "notify" /\ Round(m).msg = m /\ Round(m).ok = FALSE
    BY <1>1, <2>1 DEF Round
  <2>3. \A u \in Messages : /\ Paid(u)' <=> Paid(u)
                            /\ Draining(u)' <=> Draining(u)
                            /\ Succeeded(u)' <=> Succeeded(u)
    BY <1>1, <2>1, <2>2 DEF Paid, Draining, Succeeded, Current
  <2>4. NoNeedlessCopies'
    BY <2>1 DEF CopyInv, NoNeedlessCopies
  <2>5. OwnedOnce'
    BY <1>1, <2>1, <2>2, <2>3 DEF CopyInv, OwnedOnce, NotifyTypeOK
  <2>6. CopiesPaid'
    <3>1. \A u \in Messages : task'[u].pc = "idle" => Paid(u)'
      BY <1>1, <2>2, <2>3 DEF CopyInv, CopiesPaid
    <3>2. ASSUME NEW u \in Tasks, task'[u].pc \in {"notify", "enqueue", "get", "set"}, ~task'[u].ok
          PROVE  Paid(task[u].msg)'
      <4>1. CASE u = m
        BY <2>1, <2>2, <4>1 DEF CopyInv, CopiesPaid, Paid
      <4>2. CASE u # m
        <5>1. task'[u] = task[u]
          BY <2>2, <4>2
        <5> QED
          BY <2>1, <3>2, <5>1 DEF CopyInv, CopiesPaid, Paid
      <4> QED
        BY <4>1, <4>2
    <3>3. \A u \in Tasks : /\ task'[u].pc \in {"enqueue", "get", "set"} => ~task'[u].ok
                           /\ task'[u].pc = "notify" /\ task'[u].ok => task'[u].msg \in Critical
      BY <2>2 DEF CopyInv, CopiesPaid
    <3>4. \A u \in queue' \cup todo' : Paid(u)' \/ Succeeded(u)'
      BY <1>1, <2>1, <2>3 DEF CopyInv, CopiesPaid, NotifyTypeOK
    <3> QED
      BY <3>1, <3>2, <3>3, <3>4 DEF CopiesPaid
  <2> QED
    BY <2>4, <2>5, <2>6 DEF CopyInv
<1> QED
  BY <1>2, <1>3

LEMMA DrainerKeepsCopies == ASSUME CopyInv, IInv', Drain \/ DrainRaises PROVE CopyInv'
<1>1. /\ "drainer" \in Tasks /\ "drainer" \notin Messages /\ Tasks = Messages \cup {"drainer"}
      /\ NotifyTypeOK /\ task \in [Tasks -> Positions] /\ queue \subseteq Messages /\ todo \subseteq Messages
      /\ \A u \in Messages : copies[u] \in Nat /\ faults[u] \in Nat
  BY NotifierAssumption DEF CopyInv, IInv, NotifyTypeOK, Tasks, NotifierAssumption
<1> DEFINE d == task["drainer"]
<1>2. Current \in Messages /\ Current = d.msg
  BY <1>1 DEF Current, Positions
<1>3. \A u \in Messages : faults[u] <= faults[u]
  BY <1>1
\* The drainer is not in the middle of a message: nothing has succeeded.
<1>4. d.pc \in {"idle", "pass", "get", "set"} => \A u : ~Succeeded(u)
  BY DEF Succeeded
<1>5. \A u \in Messages : copies[u] <= 1 + faults[u]
  BY DEF CopyInv, NoNeedlessCopies
<1>6. d.pc \in {"get", "set"} => Paid(Current)
  BY <1>1, <1>2 DEF CopyInv, CopiesPaid
<1>7. CASE ListPending
  <2>1. /\ d.pc = "idle" /\ todo' = queue /\ queue' = queue /\ Goto("drainer", "pass")
        /\ copies' = copies /\ faults' = faults
    BY <1>7 DEF ListPending, history
  <2>2. task'["drainer"].pc = "pass"
    BY <1>1, <2>1, GotoTyped
  <2> QED
    BY <1>1, <1>3, <1>4, <2>1, <2>2, GotoKeepsCopies
<1>8. CASE PassEnds
  <2>1. /\ d.pc = "pass" /\ todo' = todo /\ queue' = queue /\ Goto("drainer", "idle")
        /\ copies' = copies /\ faults' = faults
    BY <1>8 DEF PassEnds, history
  <2> QED
    BY <1>1, <1>3, <1>4, <2>1, GotoKeepsCopies
<1>9. CASE ReadAttempt
  <2>1. /\ d.pc = "get" /\ todo' = todo /\ queue' = queue
        /\ copies' = copies /\ faults' = faults
    BY <1>9 DEF ReadAttempt, history
  <2>2. PICK pc \in {"set", "pass"} : Goto("drainer", pc)
    BY <1>9 DEF ReadAttempt
  <2> QED
    BY <1>1, <1>3, <1>4, <2>1, <2>2, GotoKeepsCopies
<1>10. CASE WriteAttempt
  <2>1. /\ d.pc = "set" /\ todo' = todo /\ queue' = queue \cup {Current} /\ Goto("drainer", "pass")
        /\ copies' = copies /\ faults' = faults
    BY <1>10 DEF WriteAttempt, AfterAttempt, history
  <2>2. \A u \in Messages : task'[u] = task[u]
    BY <1>1, <2>1, GotoTyped
  <2>3. Draining(Current)
    BY <2>1 DEF Draining
  <2>4. task[Current].pc \notin {"idle", "notify", "enqueue"}
    BY <1>2, <2>3 DEF CopyInv, OwnedOnce
  <2>5. \A u \in queue' \cup todo' : /\ u \in queue \cup todo \/ Paid(u)
                                     /\ u \in queue \cup todo \/ task'[u].pc \notin {"idle", "notify", "enqueue"}
                                     /\ Succeeded(u) => Paid(u)' \/ Succeeded(u)'
    BY <1>2, <1>4, <1>6, <2>1, <2>2, <2>4
  <2> QED
    BY <1>1, <1>3, <2>1, <2>5, GotoKeepsCopies
<1>11. CASE RemoveDelivered
  <2>1. /\ d.pc = "remove" /\ todo' = todo /\ queue' = queue \ {Current} /\ Goto("drainer", "pass")
        /\ copies' = copies /\ faults' = faults
    BY <1>11 DEF RemoveDelivered, history
  <2>2. \A u \in queue' \cup todo' : ~Succeeded(u)
    BY <2>1 DEF Succeeded, Draining, CopyInv, OwnedOnce
  <2>3. \A u \in queue' \cup todo' : u \in queue \cup todo
    BY <2>1
  <2> QED
    BY <1>1, <1>3, <2>1, <2>2, <2>3, GotoKeepsCopies
<1>12. CASE DrainRaises
  <2>1. /\ d.pc \in {"get", "set", "remove"} /\ queue' \in {queue, Answered} /\ todo' = {}
        /\ Goto("drainer", "idle") /\ faults' = Interrupted /\ copies' = copies
    BY <1>12 DEF DrainRaises, AfterRaise
  <2>2. \A u \in Messages : task'[u] = task[u]
    BY <1>1, <2>1, GotoTyped
  <2>3. Draining(Current)
    BY <2>1 DEF Draining
  <2>4. task[Current].pc \notin {"idle", "notify", "enqueue"}
    BY <1>2, <2>3 DEF CopyInv, OwnedOnce
  <2>5. faults' = faults \/ faults' = [faults EXCEPT ![Current] = @ + 1]
    BY <2>1 DEF Interrupted
  <2>6. faults \in [Messages -> Nat]
    BY <1>1 DEF NotifyTypeOK
  <2>7. \A u \in Messages : faults[u] <= faults'[u]
    BY <1>1, <1>2, <2>5, <2>6
  <2>8. d.pc = "remove" => Paid(Current)'
    <3> SUFFICES ASSUME d.pc = "remove" PROVE Paid(Current)'
      OBVIOUS
    <3>1. d.got
      BY <1>1 DEF CopyInv, IInv, RoundsTruthful
    <3>2. faults' = [faults EXCEPT ![Current] = faults[Current] + 1]
      BY <2>1, <3>1 DEF Interrupted
    <3>3. copies[Current] <= faults'[Current]
      BY <1>1, <1>2, <1>5, <2>6, <3>2
    <3>4. Current' = Current
      BY <1>1, <2>1, GotoTyped DEF Current
    <3> QED
      BY <2>1, <3>3, <3>4 DEF Paid
  <2>9. Current' = Current
    BY <1>1, <2>1, GotoTyped DEF Current
  <2>10. \A u \in queue' \cup todo' : u \in queue \cup todo \/ (u = Current /\ Paid(Current))
    BY <1>6, <2>1 DEF Answered, AfterAttempt
  <2>11. \A u : Succeeded(u) => u = Current /\ d.pc = "remove"
    BY <2>1 DEF Succeeded, Draining
  <2>12. \A u : u = Current /\ d.pc = "remove" => Paid(u)'
    BY <2>8, <2>9 DEF Paid
  <2>13. \A u \in queue' \cup todo' : /\ u \in queue \cup todo \/ Paid(u)
                                      /\ u \in queue \cup todo \/ task'[u].pc \notin {"idle", "notify", "enqueue"}
                                      /\ Succeeded(u) => Paid(u)' \/ Succeeded(u)'
    BY <1>2, <2>2, <2>4, <2>10, <2>11, <2>12
  <2> QED
    BY <1>1, <2>1, <2>7, <2>13, GotoKeepsCopies
<1>13. CASE NextMessage
  <2>1. PICK m \in todo : /\ todo' = todo \ {m}
                          /\ task' = [task EXCEPT !["drainer"] = Round(m)]
    BY <1>13 DEF NextMessage
  <2>2. d.pc = "pass" /\ UNCHANGED <<queue, copies, faults>>
    BY <1>13 DEF NextMessage, history
  <2>3. /\ task'["drainer"] = Round(m) /\ \A u \in Tasks : u # "drainer" => task'[u] = task[u]
        /\ Round(m).pc = "notify" /\ Round(m).msg = m /\ Round(m).ok = FALSE /\ m \in Messages
    BY <1>1, <2>1 DEF Round
  <2>4. Paid(m) /\ \A u \in queue \cup todo : Paid(u)
    BY <1>4, <2>1, <2>2 DEF CopyInv, CopiesPaid
  <2>5. /\ \A u : Paid(u)' <=> Paid(u)
        /\ \A u : Draining(u)' <=> u = m
    BY <2>2, <2>3 DEF Paid, Draining, Current
  <2>6. NoNeedlessCopies'
    BY <2>2 DEF CopyInv, NoNeedlessCopies
  <2>7. OwnedOnce'
    BY <1>1, <2>1, <2>2, <2>3, <2>5 DEF CopyInv, OwnedOnce
  <2>8. CopiesPaid'
    <3>1. \A u \in Messages : task'[u].pc = "idle" => Paid(u)'
      BY <1>1, <2>3, <2>5 DEF CopyInv, CopiesPaid
    <3>2. ASSUME NEW u \in Tasks, task'[u].pc \in {"notify", "enqueue", "get", "set"}, ~task'[u].ok
          PROVE  Paid(task[u].msg)'
      <4>1. CASE u = "drainer"
        BY <2>2, <2>3, <2>4, <4>1 DEF Paid
      <4>2. CASE u # "drainer"
        <5>1. task'[u] = task[u]
          BY <2>3, <4>2
        <5> QED
          BY <2>2, <3>2, <5>1 DEF CopyInv, CopiesPaid, Paid
      <4> QED
        BY <4>1, <4>2
    <3>3. \A u \in Tasks : /\ task'[u].pc \in {"enqueue", "get", "set"} => ~task'[u].ok
                           /\ task'[u].pc = "notify" /\ task'[u].ok => task'[u].msg \in Critical
      BY <2>3 DEF CopyInv, CopiesPaid
    <3>4. \A u \in queue' \cup todo' : Paid(u)'
      BY <2>1, <2>2, <2>4, <2>5
    <3> QED
      BY <3>1, <3>2, <3>3, <3>4 DEF CopiesPaid
  <2> QED
    BY <2>6, <2>7, <2>8 DEF CopyInv
<1> QED
  BY <1>7, <1>8, <1>9, <1>10, <1>11, <1>12, <1>13 DEF Drain

LEMMA EnvironmentKeepsCopies ==
    ASSUME CopyInv, IInv',
           \/ \E a \in Adapters : ProviderChanges(a) \/ WindowPasses(a)
           \/ \E m \in Messages : Expire(m)
           \/ UNCHANGED notifyVars
    PROVE  CopyInv'
<1>1. UNCHANGED <<task, todo, copies, faults>> /\ queue' \subseteq queue
  BY DEF ProviderChanges, WindowPasses, Expire, notifyVars, history
<1>2. \A u : /\ Paid(u)' <=> Paid(u)
             /\ Draining(u)' <=> Draining(u)
             /\ Succeeded(u)' <=> Succeeded(u)
  BY <1>1 DEF Paid, Draining, Succeeded, Current
<1>3. NoNeedlessCopies'
  BY <1>1 DEF CopyInv, NoNeedlessCopies
<1>4. OwnedOnce'
  BY <1>1, <1>2 DEF CopyInv, OwnedOnce
<1>5. CopiesPaid'
  <2>1. \A u \in queue' \cup todo' : Paid(u)' \/ Succeeded(u)'
    BY <1>1, <1>2 DEF CopyInv, CopiesPaid
  <2> QED
    BY <1>1, <2>1 DEF CopyInv, CopiesPaid, Paid
<1> QED
  BY <1>3, <1>4, <1>5 DEF CopyInv

\* A restart: what the drainer had delivered and not removed is paid for by a fault.
LEMMA CrashKeepsCopies == ASSUME CopyInv, IInv', NotifyCrash PROVE CopyInv'
<1>1. /\ "drainer" \in Tasks /\ "drainer" \notin Messages /\ Tasks = Messages \cup {"drainer"}
      /\ NotifyTypeOK /\ task \in [Tasks -> Positions] /\ faults \in [Messages -> Nat]
      /\ queue \subseteq Messages
      /\ \A u \in Messages : copies[u] \in Nat /\ faults[u] \in Nat
  BY NotifierAssumption DEF CopyInv, IInv, NotifyTypeOK, Tasks, NotifierAssumption
<1>2. /\ queue' = queue /\ todo' = {} /\ faults' = Interrupted /\ copies' = copies
      /\ \A t \in Tasks : /\ task'[t].msg = task[t].msg /\ task'[t].ok = task[t].ok
                          /\ task'[t].pc \in {task[t].pc, "idle", "lost"}
      /\ task'["drainer"].pc = "idle"
      /\ \A m \in Messages : task'[m] = task[m] \/ task'[m].pc = "lost"
      /\ \A m \in Messages : task'[m].pc \notin {"notify", "enqueue"}
  BY <1>1 DEF NotifyCrash, Positions
<1>3. Current \in Messages /\ Current = task["drainer"].msg
  BY <1>1 DEF Current, Positions
<1>4. faults' = faults \/ faults' = [faults EXCEPT ![Current] = faults[Current] + 1]
  BY <1>2 DEF Interrupted
<1>5. \A u \in Messages : faults[u] <= faults'[u] /\ faults'[u] \in Nat
  BY <1>1, <1>3, <1>4
<1>6. \A u \in Messages : copies[u] <= 1 + faults[u]
  BY DEF CopyInv, NoNeedlessCopies
<1>7. \A u \in Messages : Paid(u) => Paid(u)'
  BY <1>1, <1>2, <1>5 DEF Paid
<1>8. \A u \in Messages : Succeeded(u) => Paid(u)'
  <2> SUFFICES ASSUME NEW u \in Messages, Succeeded(u) PROVE Paid(u)'
    OBVIOUS
  <2>1. u = Current /\ task["drainer"].pc \in {"notify", "remove"} /\ task["drainer"].got
    BY <1>1 DEF Succeeded, Draining, CopyInv, IInv, RoundsTruthful
  <2>2. faults' = [faults EXCEPT ![u] = faults[u] + 1]
    BY <1>2, <2>1 DEF Interrupted
  <2>3. copies[u] <= faults'[u]
    BY <1>1, <1>6, <2>2
  <2> QED
    BY <1>2, <2>3 DEF Paid
<1>9. NoNeedlessCopies'
  <2> SUFFICES ASSUME NEW u \in Messages PROVE copies[u] <= 1 + faults'[u]
    BY <1>2 DEF NoNeedlessCopies
  <2> QED
    BY <1>1, <1>5, <1>6
<1>10. OwnedOnce'
  <2>1. \A u : ~Draining(u)'
    BY <1>2 DEF Draining
  <2>2. \A m \in Messages : task'[m].pc = "idle" => task'[m] = task[m]
    BY <1>2
  <2> QED
    BY <1>1, <1>2, <2>1, <2>2 DEF CopyInv, OwnedOnce
<1>11. CopiesPaid'
  <2>1. \A m \in Messages : task'[m].pc = "idle" => Paid(m)'
    BY <1>2, <1>7 DEF CopyInv, CopiesPaid
  <2>2. \A t \in Tasks : task'[t].pc \notin {"notify", "enqueue", "get", "set"}
    BY <1>1, <1>2 DEF CopyInv, OwnedOnce
  <2>3. \A u \in queue' \cup todo' : Paid(u)'
    BY <1>1, <1>2, <1>7, <1>8 DEF CopyInv, CopiesPaid
  <2> QED
    BY <2>1, <2>2, <2>3 DEF CopiesPaid
<1> QED
  BY <1>9, <1>10, <1>11 DEF CopyInv

\* Nobody gets a message again unless an answer was lost, or the drainer stopped between a
\* delivery and its DEL, whatever else crashes, fails, expires or comes back.
THEOREM CopiesAreNeeded == NotifySpec => []NoNeedlessCopies
<1>1. NotifyInit => CopyInv
  <2> SUFFICES ASSUME NotifyInit PROVE CopyInv
    OBVIOUS
  <2>1. \A t \in Tasks : task[t].pc = "idle" /\ task[t].ok = FALSE
    BY DEF NotifyInit, Round
  <2>2. \A m \in Messages : m \in Tasks /\ task[m].msg = m /\ copies[m] = 0 /\ faults[m] = 0
    BY NotifierAssumption DEF NotifyInit, Round, Tasks, NotifierAssumption
  <2>3. queue = {} /\ todo = {} /\ "drainer" \in Tasks
    BY DEF NotifyInit, Tasks
  <2>4. OwnedOnce
    BY <2>1, <2>2, <2>3 DEF OwnedOnce, Draining
  <2>5. CopiesPaid
    BY <2>1, <2>2, <2>3 DEF CopiesPaid, Paid
  <2>6. NoNeedlessCopies
    <3> SUFFICES ASSUME NEW m \in Messages PROVE copies[m] <= 1 + faults[m]
      BY DEF NoNeedlessCopies
    <3>1. copies[m] = 0 /\ faults[m] = 0
      BY <2>2
    <3> QED
      BY <3>1
  <2> QED
    BY InitInv, <2>4, <2>5, <2>6 DEF CopyInv
<1>2. CopyInv /\ [NotifyNext]_notifyVars /\ IInv' => CopyInv'
  BY TryKeepsCopies, SenderKeepsCopies, DrainerKeepsCopies, EnvironmentKeepsCopies, CrashKeepsCopies
     DEF NotifyNext
<1>3. CopyInv => NoNeedlessCopies
  BY DEF CopyInv
<1> QED
  BY NotifierInvariant, <1>1, <1>2, <1>3, PTL DEF NotifySpec

\* Nothing deferred is lost, and nothing is sent again without a fault to blame.
THEOREM DeliveredAtLeastOnce == NotifySpec => []AtLeastOnce
<1>1. DeferredNotLost /\ NoNeedlessCopies => AtLeastOnce
  BY DEF AtLeastOnce
<1> QED
  BY <1>1, DeferredIsNotLost, CopiesAreNeeded, PTL
=============================================================================
