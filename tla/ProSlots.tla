------------------------------- MODULE ProSlots -------------------------------
(***************************************************************************)
(* The system-wide cap on Pro calls (orchestrator/execute/concurrency.py): *)
(* acquire_pro_slot scans the keys lock:pro_concurrency:1..N with SET NX   *)
(* EX and deletes the key it got when its body ends.  The key carries no   *)
(* token of its owner that release would compare, and expires after        *)
(* SLOT_TTL_S whatever the owner does.                                     *)
(*                                                                         *)
(* Every SET and DEL is a round trip to Redis, so another caller may step  *)
(* between any two of them.                                                *)
(***************************************************************************)
EXTENDS Naturals, FiniteSets

CONSTANTS
    Callers,   \* tasks of any process that want a slot
    Capacity,  \* ORCH_PRO_CONCURRENCY
    Ttl,       \* SLOT_TTL_S, in ticks
    Timeout    \* timeout_s of acquire_pro_slot, in ticks

ASSUME SlotAssumption ==
    /\ Capacity \in Nat \ {0}
    /\ Ttl \in Nat \ {0}
    /\ Timeout \in Nat

Slots    == 1..Capacity
MaxClock == Ttl + Timeout  \* the clock of a caller need not count further

VARIABLES
    left,    \* ticks until the key of each slot expires; 0: there is no key
    pc,      \* what each caller is doing
    slot,    \* the slot it tries next, or holds
    clock,   \* ticks it has been waiting, or holding
    outlived \* history: a key has expired while its body was running

vars == <<left, pc, slot, clock, outlived>>

TypeOK ==
    /\ left \in [Slots -> 0..Ttl]
    /\ pc \in [Callers -> {"idle", "trying", "holding", "raised", "crashed"}]
    /\ slot \in [Callers -> Slots]
    /\ clock \in [Callers -> 0..MaxClock]
    /\ outlived \in BOOLEAN

Init ==
    /\ left = [s \in Slots |-> 0]
    /\ pc = [c \in Callers |-> "idle"]
    /\ slot = [c \in Callers |-> 1]
    /\ clock = [c \in Callers |-> 0]
    /\ outlived = FALSE

\* A caller enters acquire_pro_slot, for the first time or again.
Start(c) ==
    /\ pc[c] \in {"idle", "raised"}
    /\ pc' = [pc EXCEPT ![c] = "trying"]
    /\ slot' = [slot EXCEPT ![c] = 1]
    /\ clock' = [clock EXCEPT ![c] = 0]
    /\ UNCHANGED <<left, outlived>>

\* Faulty variant: SET without NX.
Free_NoNx(s) == TRUE

\* SET NX would create the key.
Free(s) == left[s] = 0

\* SET NX EX on a slot without a key.
Claim(c) ==
    /\ pc[c] = "trying"
    /\ Free(slot[c])
    /\ left' = [left EXCEPT ![slot[c]] = Ttl]
    /\ pc' = [pc EXCEPT ![c] = "holding"]
    /\ clock' = [clock EXCEPT ![c] = 0]
    /\ UNCHANGED <<slot, outlived>>

\* The scan is over and the deadline has passed.
GiveUp(c) == slot[c] = Capacity /\ clock[c] > Timeout

NextSlot(s) == IF s = Capacity THEN 1 ELSE s + 1

\* SET NX on a slot that is taken: on to the next slot, back to the first
\* after a sleep, or TimeoutError.
Busy(c) ==
    /\ pc[c] = "trying"
    /\ ~Free(slot[c])
    /\ IF GiveUp(c)
         THEN pc' = [pc EXCEPT ![c] = "raised"] /\ UNCHANGED slot
         ELSE /\ slot' = [slot EXCEPT ![c] = NextSlot(@)]
              /\ UNCHANGED pc
    /\ UNCHANGED <<left, clock, outlived>>

\* The body ends, by return, exception or cancellation: DEL, whosever key it is.
Release(c) ==
    /\ pc[c] = "holding"
    /\ pc' = [pc EXCEPT ![c] = "idle"]
    /\ left' = [left EXCEPT ![slot[c]] = 0]
    /\ UNCHANGED <<slot, clock, outlived>>

\* The caller's process dies with the slot in its hands.
Crash(c) ==
    /\ pc[c] = "holding"
    /\ pc' = [pc EXCEPT ![c] = "crashed"]
    /\ UNCHANGED <<left, slot, clock, outlived>>

\* Faulty variant: keys are set without an expiry.
LeftAfterTick_NoExpiry(s) == left[s]

LeftAfterTick(s) == IF left[s] = 0 THEN 0 ELSE left[s] - 1

\* The key of a running body is about to expire.
Outlives(c) == pc[c] = "holding" /\ clock[c] + 1 >= Ttl

Tick ==
    /\ left' = [s \in Slots |-> LeftAfterTick(s)]
    /\ clock' = [c \in Callers |-> IF pc[c] \in {"trying", "holding"} /\ clock[c] < MaxClock
                                     THEN clock[c] + 1 ELSE clock[c]]
    /\ outlived' = (outlived \/ \E c \in Callers : Outlives(c))
    /\ UNCHANGED <<pc, slot>>

Next ==
    \/ \E c \in Callers : Start(c) \/ Claim(c) \/ Busy(c) \/ Release(c) \/ Crash(c)
    \/ Tick

Spec == Init /\ [][Next]_vars

\* Redis answers, time passes, and a body ends (its LLM call has a timeout).
Fairness ==
    /\ WF_vars(Tick)
    /\ \A c \in Callers : WF_vars(Claim(c) \/ Busy(c)) /\ WF_vars(Release(c))

FairSpec == Spec /\ Fairness

-----------------------------------------------------------------------------
(* Properties.                                                             *)

Holders == {c \in Callers : pc[c] = "holding"}

\* Two bodies never run under the same slot, so DEL removes a body's own key,
\* until some body has outlived its key.
SlotsExclusive ==
    ~outlived =>
        \A c, d \in Callers : pc[c] = "holding" /\ pc[d] = "holding" /\ slot[c] = slot[d] => c = d

\* concurrency.py: "Max 4 in-flight Pro calls system-wide": no more bodies run
\* than there are slots, across crashes, scans and releases, until some body has
\* outlived its key; from then on the code keeps no cap.
NeverOverCapacity == ~outlived => Cardinality(Holders) <= Capacity

\* A slot whose holder died comes back: no key stays without a holder for ever.
CrashedSlotsComeBack ==
    \A s \in Slots : left[s] > 0 ~> (left[s] = 0 \/ \E c \in Holders : slot[c] = s)

\* Nobody waits for ever: each caller gets a slot or a TimeoutError, even when
\* others are always faster to the slots that are freed.
EveryWaitEnds == \A c \in Callers : pc[c] = "trying" ~> pc[c] # "trying"

\* Crashes and expiring keys neither lock a slot up nor shut a caller out.
SlotsGoRound == CrashedSlotsComeBack /\ EveryWaitEnds
=============================================================================
