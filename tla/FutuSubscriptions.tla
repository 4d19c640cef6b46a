-------------------------- MODULE FutuSubscriptions --------------------------
(***************************************************************************)
(* FutuSubscriptionManager (apps/agent_futu/futu/sub_manager.py): add and    *)
(* remove tell OpenD through the quote client, then enter the change in the  *)
(* process, then put the whole set into the KV store and wait for it; load   *)
(* and reconcile bring the set back after a restart.  Calls are concurrent:  *)
(* they interleave at the put.  One subtype; a call is about one ticker, as  *)
(* a call about several does for each what it does for one.                  *)
(*                                                                          *)
(* OpenD and the KV store are external: OpenD may refuse, which the return   *)
(* code tells and nobody looks at, or the call may raise; puts are applied   *)
(* in the order in which they are sent, or they fail.  The subscriptions of  *)
(* a connection that is gone may or may not still be there.                  *)
(***************************************************************************)
EXTENDS Naturals, Sequences, SequencesExt

CONSTANTS
    Tickers,
    MaxSending,  \* bound: puts under way
    MaxFailures, \* bound: refusals, exceptions and failed puts
    MaxRestarts  \* bound: restarts

ASSUME SubsAssumption == {MaxSending, MaxFailures, MaxRestarts} \subseteq Nat

VARIABLES
    subs,       \* the set in the process
    kv,         \* the stored document
    openD,      \* what OpenD has subscribed
    sending,    \* the calls whose put is under way: what they are about, and their document
    reconciled, \* whether reconcile has run since the process started
    promised,   \* history: the tickers whose last call to return was an add
    refused,    \* history: tickers for which OpenD refused a call or raised
    unsaved,    \* history: tickers of a put that failed or was cut off
    failures, restarts

subsVars == <<subs, kv, openD, sending, reconciled, promised, refused, unsaved, failures, restarts>>

SubsTypeOK ==
    /\ subs \subseteq Tickers /\ kv \subseteq Tickers /\ openD \subseteq Tickers
    /\ sending \in Seq([op : {"add", "remove"}, ticker : Tickers, doc : SUBSET Tickers])
    /\ promised \subseteq Tickers /\ refused \subseteq Tickers /\ unsaved \subseteq Tickers
    /\ reconciled \in BOOLEAN /\ failures \in Nat /\ restarts \in Nat

SubsInit ==
    /\ subs = {} /\ kv = {} /\ openD = {} /\ sending = <<>> /\ reconciled = TRUE
    /\ promised = {} /\ refused = {} /\ unsaved = {}
    /\ failures = 0 /\ restarts = 0

With(set, op, t) == IF op = "add" THEN set \cup {t} ELSE set \ {t}

GoesWrong == failures < MaxFailures /\ failures' = failures + 1

-----------------------------------------------------------------------------
(* add and remove.                                                         *)

\* The ticker is already there, or already gone: the call returns at once.
NothingToDo(op, t) ==
    /\ subs = With(subs, op, t)
    /\ promised' = With(promised, op, t)
    /\ UNCHANGED <<subs, kv, openD, sending, reconciled, refused, unsaved, failures, restarts>>

\* Faulty variant: the document is made before the change.
Document_Before(op, t) == subs

\* What _persist puts.
Document(op, t) == With(subs, op, t)

\* OpenD is told, the set changes whatever OpenD answers, and the put is sent.
TellsOpenD(op, t) ==
    /\ subs # With(subs, op, t) /\ Len(sending) < MaxSending
    /\ \/ openD' = With(openD, op, t) /\ UNCHANGED <<refused, failures>>
       \/ GoesWrong /\ refused' = refused \cup {t} /\ UNCHANGED openD
    /\ subs' = With(subs, op, t)
    /\ sending' = Append(sending, [op |-> op, ticker |-> t, doc |-> Document(op, t)])
    /\ UNCHANGED <<kv, reconciled, promised, unsaved, restarts>>

\* The call of OpenD raises, heard or not: the set stays as it is.
OpenDRaises(op, t) ==
    /\ subs # With(subs, op, t) /\ GoesWrong
    /\ openD' \in {openD, With(openD, op, t)}
    /\ refused' = refused \cup {t}
    /\ UNCHANGED <<subs, kv, sending, reconciled, promised, unsaved, restarts>>

\* The first put is applied, and its call returns.
PutApplied ==
    /\ sending # <<>>
    /\ LET put == Head(sending)
       IN  /\ kv' = put.doc
           /\ promised' = With(promised, put.op, put.ticker)
    /\ sending' = Tail(sending)
    /\ UNCHANGED <<subs, openD, reconciled, refused, unsaved, failures, restarts>>

\* A put fails, and so does its call.  OpenD and the set have changed all the same.
PutFails ==
    /\ GoesWrong
    /\ \E i \in DOMAIN sending :
         /\ unsaved' = unsaved \cup {sending[i].ticker}
         /\ sending' = RemoveAt(sending, i)
    /\ UNCHANGED <<subs, kv, openD, reconciled, promised, refused, restarts>>

-----------------------------------------------------------------------------
(* Restart.                                                                *)

Resubscribed == openD \cup subs

\* The process ends, whatever it was sending may still arrive, and load reads the set.
Restarts ==
    /\ restarts < MaxRestarts
    /\ restarts' = restarts + 1
    /\ kv' \in {kv} \cup {put.doc : put \in ToSet(sending)}
    /\ subs' = kv'
    /\ unsaved' = unsaved \cup {put.ticker : put \in ToSet(sending)}
    /\ sending' = <<>>
    /\ openD' \in {openD, {}}
    /\ reconciled' = FALSE
    /\ UNCHANGED <<promised, refused, failures>>

\* reconcile subscribes everything again, once; what OpenD has besides it keeps.
Reconciles ==
    /\ ~reconciled
    /\ \/ openD' = Resubscribed /\ UNCHANGED <<refused, failures>>
       \/ GoesWrong /\ refused' = refused \cup subs /\ UNCHANGED openD
    /\ reconciled' = TRUE
    /\ UNCHANGED <<subs, kv, sending, promised, unsaved, restarts>>

SubsNext ==
    \/ \E op \in {"add", "remove"}, t \in Tickers :
         NothingToDo(op, t) \/ TellsOpenD(op, t) \/ OpenDRaises(op, t)
    \/ PutApplied \/ PutFails \/ Restarts \/ Reconciles

SubsSpec == SubsInit /\ [][SubsNext]_subsVars

-----------------------------------------------------------------------------
(* Properties.                                                             *)

Differing(s, t) == (s \ t) \cup (t \ s)
Pending == {put.ticker : put \in ToSet(sending)}

(* The store.  It has what the process has, up to the puts under way, and what *)
(* a call that has returned promised is kept, over restarts too: only a put    *)
(* that failed can undo it, also when the call was made again and returned,    *)
(* since then there was nothing to do (sub_manager.py:72-76).                  *)
SavedAsPromised ==
    /\ Differing(subs, kv) \subseteq unsaved \cup Pending
    /\ Differing(subs, promised) \subseteq unsaved \cup Pending

(* Once reconciled, OpenD has what the process has, unless it refused a call,  *)
(* which nobody looks at, or what it kept over a restart was never stored      *)
(* (sub_manager.py:74, :96).                                                   *)
OpenDFollows ==
    reconciled => Differing(subs, openD) \subseteq refused \cup unsaved

(* The promise to the caller, the set of the process, the store and OpenD      *)
(* agree on every ticker, but for a put or a call that failed.                 *)
SubscriptionsAgree == SavedAsPromised /\ OpenDFollows
=============================================================================
