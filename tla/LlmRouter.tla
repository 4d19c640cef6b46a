------------------------------ MODULE LlmRouter ------------------------------
(***************************************************************************)
(* packages/llm-client: calls of one caller_id and one tier through the     *)
(* budget gate of the cost meter, the semaphore of the caller, the bucket of *)
(* the provider, the primary and its fallback.                              *)
(*                                                                         *)
(* All of it runs in one event loop: what a call does between two awaits is *)
(* one step.  The store of the spend is the in-memory one the bootstrap     *)
(* wires, so a gate is such a step, too.  Every call costs 1.  There is no  *)
(* cache, as the bootstrap gives the router none; who of the waiting gets a *)
(* semaphore is left open.                                                  *)
(***************************************************************************)
EXTENDS Integers, FiniteSets

CONSTANTS
    Chats,        \* calls of chat and chat_or_skip
    Embeds,       \* calls of embed
    Cap,          \* monthly_cap_usd
    FallbackCap,  \* fallback_cap_usd
    Slots,        \* concurrency of the provider's bucket
    CallerCaps,   \* values the flag llm.concurrency.<caller_id> may take
    MaxChanges    \* bound on changes of that flag

ASSUME RouterAssumption ==
    /\ Chats \cap Embeds = {}
    /\ IsFiniteSet(Chats \cup Embeds)
    /\ Cap \in Nat \ {0} /\ FallbackCap \in Nat
    /\ Slots \in Nat \ {0}
    /\ CallerCaps \subseteq Nat \ {0} /\ CallerCaps # {}
    /\ MaxChanges \in Nat

Calls == Chats \cup Embeds

VARIABLES
    pc,        \* where each call is
    breaker,   \* _state of the cost meter
    cooled,    \* the cooldown since _opened_at has passed
    spent,     \* recorded spend of the last 30 days: by the primary, by the fallback
    flag,      \* value of the concurrency flag
    changes,   \* how often it has changed
    sems,      \* the caller's semaphores, oldest first: cap and free permits
    sem,       \* which of them each call waits for or holds
    slots,     \* free permits of the provider's bucket
    busy,      \* history: the flag changed while calls were in flight
    peak       \* history: most chats ever in flight at once

meter   == <<breaker, cooled, spent>>
limits  == <<sems, sem, slots>>
history == <<busy, peak>>
vars    == <<pc, meter, flag, changes, limits, history>>

Ended    == {"ok", "failed", "denied", "skipped"}
InFlight == {c \in Calls : pc[c] \notin Ended \cup {"idle"}}
Total    == spent.primary + spent.fallback

\* The caller's last semaphore.
Newest == Cardinality(DOMAIN sems)

\* Calls that have a permit of semaphore g, and those that have one of the bucket.
Holders(g)  == {c \in Chats : pc[c] \in {"rateWait", "throttled", "primary", "fallback"} /\ sem[c] = g}
SlotHolders == {c \in Chats : pc[c] \in {"throttled", "primary", "fallback"}}

States == Ended \cup {"idle", "capWait", "rateWait", "throttled", "primary", "fallback"}

TypeOK ==
    /\ pc \in [Calls -> States]
    /\ breaker \in {"closed", "open", "half_open"} /\ cooled \in BOOLEAN
    /\ spent \in [primary : Nat, fallback : Nat]
    /\ flag \in CallerCaps /\ changes \in Nat
    /\ Newest \in Nat /\ DOMAIN sems = 1..Newest
    /\ \A g \in 1..Newest : sems[g] \in [cap : CallerCaps, free : Nat]
    /\ sem \in [Calls -> Nat]
    /\ slots \in Nat /\ peak \in Nat /\ busy \in BOOLEAN

Init ==
    /\ pc = [c \in Calls |-> "idle"]
    /\ breaker = "closed"
    /\ cooled = FALSE
    /\ spent = [primary |-> 0, fallback |-> 0]
    /\ flag \in CallerCaps
    /\ changes = 0
    /\ sems = <<>>
    /\ sem = [c \in Calls |-> 0]
    /\ slots = Slots
    /\ busy = FALSE
    /\ peak = 0

Goto(c, state) == pc' = [pc EXCEPT ![c] = state]

-----------------------------------------------------------------------------
(* The cost meter.                                                         *)

\* Reading `state` turns an open breaker whose cooldown has passed half open.
StateRead == IF breaker = "open" /\ cooled THEN "half_open" ELSE breaker

\* Faulty variant: a half-open breaker lets calls through without a look at the spend.
Affordable_HalfOpen(fallback) ==
    \/ StateRead = "half_open"
    \/ Total < Cap /\ (fallback => spent.fallback < FallbackCap)

Affordable(fallback) == Total < Cap /\ (fallback => spent.fallback < FallbackCap)

\* allow() is TRUE.
Allow(fallback) ==
    /\ StateRead # "open"
    /\ Affordable(fallback)
    /\ breaker' = StateRead
    /\ UNCHANGED <<cooled, spent>>

\* allow() is FALSE, and opens the breaker if it was not open.
Deny(fallback) ==
    \/ StateRead = "open" /\ UNCHANGED meter
    \/ StateRead # "open" /\ ~Affordable(fallback) /\ breaker' = "open" /\ cooled' = FALSE /\ UNCHANGED spent

\* record(): the call cost 1, at the primary or at the fallback.
Record(state) == spent' = [spent EXCEPT ![state] = @ + 1]

CooldownPasses ==
    /\ breaker = "open" /\ ~cooled
    /\ cooled' = TRUE
    /\ UNCHANGED <<pc, breaker, spent, flag, changes, limits, history>>

\* A day leaves the window of 30 days.
WindowSlides ==
    /\ \E state \in {"primary", "fallback"} :
         spent[state] > 0 /\ spent' = [spent EXCEPT ![state] = @ - 1]
    /\ UNCHANGED <<pc, breaker, cooled, flag, changes, limits, history>>

\* The runbook's manual override.
Reset ==
    /\ breaker # "closed"
    /\ breaker' = "closed"
    /\ cooled' = FALSE
    /\ UNCHANGED <<pc, spent, flag, changes, limits, history>>

-----------------------------------------------------------------------------
(* The permits.                                                            *)

\* There is no semaphore yet, or the flag has changed since it was made.
Stale == Newest = 0 \/ sems[Newest].cap # flag

\* _CallerConcurrency.acquire up to its await: the semaphore the call waits for.
\* The old one stays with those that hold or await it.
PickSem(c) ==
    IF Stale
    THEN /\ sems' = [g \in 1..Newest + 1 |-> IF g <= Newest THEN sems[g] ELSE [cap |-> flag, free |-> flag]]
         /\ sem' = [sem EXCEPT ![c] = Newest + 1]
    ELSE UNCHANGED sems /\ sem' = [sem EXCEPT ![c] = Newest]

\* Faulty variant: a failed call keeps its permit.
ReleasedSlots_OnlyOk(c) == slots

ReleasedSlots(c) == IF c \in SlotHolders THEN slots + 1 ELSE slots

\* The finally blocks: whatever call c holds is given back.
ReleaseAll(c) ==
    /\ slots' = ReleasedSlots(c)
    /\ sems' = [g \in DOMAIN sems |-> IF c \in Holders(g) THEN [sems[g] EXCEPT !.free = @ + 1] ELSE sems[g]]
    /\ UNCHANGED sem

-----------------------------------------------------------------------------
(* A call.                                                                 *)

\* The gate lets a chat in.
Enter(c) ==
    /\ pc[c] = "idle" /\ c \in Chats
    /\ Allow(FALSE)
    /\ Goto(c, "capWait")
    /\ PickSem(c)
    /\ peak' = IF Cardinality(InFlight \cap Chats) = peak THEN peak + 1 ELSE peak
    /\ UNCHANGED <<flag, changes, slots, busy>>

\* It lets an embed in, which takes no permit of the caller and has a bucket of its own.
EnterEmbed(c) ==
    /\ pc[c] = "idle" /\ c \in Embeds
    /\ Allow(FALSE)
    /\ Goto(c, "throttled")
    /\ UNCHANGED <<flag, changes, limits, history>>

\* The gate is shut: CostBudgetExceeded, or a synthetic skip.
TurnAway(c) ==
    /\ pc[c] = "idle"
    /\ Deny(FALSE)
    /\ Goto(c, "denied")
    /\ UNCHANGED <<flag, changes, limits, history>>

TakeSem(c) ==
    /\ pc[c] = "capWait"
    /\ sems[sem[c]].free > 0
    /\ sems' = [sems EXCEPT ![sem[c]].free = @ - 1]
    /\ Goto(c, "rateWait")
    /\ UNCHANGED <<meter, flag, changes, sem, slots, history>>

TakeSlot(c) ==
    /\ pc[c] = "rateWait"
    /\ slots > 0
    /\ slots' = slots - 1
    /\ Goto(c, "throttled")
    /\ UNCHANGED <<meter, flag, changes, sems, sem, history>>

\* Its token is due, and the primary is called.
CallPrimary(c) ==
    /\ pc[c] = "throttled"
    /\ Goto(c, "primary")
    /\ UNCHANGED <<meter, flag, changes, limits, history>>

\* The provider answers.  A chat is recorded; an embed is not.
Succeed(c) ==
    /\ pc[c] \in {"primary", "fallback"}
    /\ Goto(c, "ok")
    /\ ReleaseAll(c)
    /\ IF c \in Embeds THEN UNCHANGED spent ELSE Record(pc[c])
    /\ UNCHANGED <<breaker, cooled, flag, changes, history>>

\* The primary is down or times out.  What it may have charged is not recorded.
PrimaryDown(c) ==
    /\ pc[c] = "primary" /\ c \in Chats
    /\ \/ Allow(TRUE) /\ Goto(c, "fallback") /\ UNCHANGED limits
       \/ Deny(TRUE) /\ Goto(c, "denied") /\ ReleaseAll(c)
    /\ UNCHANGED <<flag, changes, history>>

\* Any other error of the primary, or of the fallback, or of an embed.
Break(c) ==
    /\ pc[c] \in {"primary", "fallback"}
    /\ Goto(c, "failed")
    /\ ReleaseAll(c)
    /\ UNCHANGED <<meter, flag, changes, history>>

\* The drain deadline of chat_or_skip, or a client that goes away.
Cancel(c) ==
    /\ c \in InFlight
    /\ Goto(c, "skipped")
    /\ ReleaseAll(c)
    /\ UNCHANGED <<meter, flag, changes, history>>

ChangeFlag ==
    /\ changes < MaxChanges
    /\ flag' \in CallerCaps \ {flag}
    /\ changes' = changes + 1
    /\ busy' = (busy \/ InFlight \cap Chats # {})
    /\ UNCHANGED <<pc, meter, limits, peak>>

Next ==
    \/ \E c \in Calls :
         \/ Enter(c) \/ EnterEmbed(c) \/ TurnAway(c) \/ TakeSem(c) \/ TakeSlot(c) \/ CallPrimary(c)
         \/ Succeed(c) \/ PrimaryDown(c) \/ Break(c) \/ Cancel(c)
    \/ CooldownPasses \/ WindowSlides \/ Reset \/ ChangeFlag

Spec == Init /\ [][Next]_vars

\* The event loop goes on, and every adapter has a timeout.
Fairness ==
    \A c \in Calls :
        /\ WF_vars(TakeSem(c) \/ TakeSlot(c) \/ CallPrimary(c))
        /\ WF_vars(Succeed(c) \/ PrimaryDown(c) \/ Break(c))

FairSpec == Spec /\ Fairness

-----------------------------------------------------------------------------
(* Properties.                                                             *)

\* No permit of a semaphore or of the bucket is lost or given twice, whichever way
\* and at whichever await a call ends.
PermitsBalance ==
    /\ slots + Cardinality(SlotHolders) = Slots
    /\ \A g \in DOMAIN sems : sems[g].free + Cardinality(Holders(g)) = sems[g].cap

\* The calls of a caller that are past its semaphore are within the flag, unless the
\* flag changed while calls were in flight: those stay on the semaphore of the old value.
CallerCapHolds == ~busy => Cardinality(UNION {Holders(g) : g \in DOMAIN sems}) <= flag

\* The gate is passed before the queues and the spend recorded after the answer: the
\* cap is overspent by less than the most chats that ever were in flight at once.
OverspendBounded == Total + Cardinality(InFlight \cap Chats) < Cap + peak \/ Total < Cap

\* What bounds a caller holds on every path: the permits, its own cap, the budget.
LimitsHold == PermitsBalance /\ CallerCapHolds /\ OverspendBounded

\* A call that is let in ends: no permit is waited for in vain.
EveryCallEnds == \A c \in Calls : c \in InFlight ~> pc[c] \in Ended
=============================================================================
