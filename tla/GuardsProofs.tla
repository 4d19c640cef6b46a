----------------------------- MODULE GuardsProofs -----------------------------
(***************************************************************************)
(* Proofs about the two guards of an agent call, for every number of       *)
(* callers, slots and ticks: CircuitBreaker, for every threshold and       *)
(* cooldown, and ProSlots, where two bodies never share a slot and the cap *)
(* is never exceeded until a body outlives its key.                        *)
(***************************************************************************)
EXTENDS CircuitBreaker, ProSlots, FiniteSetTheorems, TLAPS

-----------------------------------------------------------------------------
(* The circuit breaker.                                                    *)

\* What keeps the probes apart: a probe always holds the slot, and the breaker
\* is half-open only while the slot is taken (perhaps by a probe that was
\* cancelled, or that outlived a re-opening), so no second one is admitted.
SlotInv ==
    /\ Probes # {} => half_open_inflight
    /\ state = "HALF_OPEN" => half_open_inflight

IInv == BreakerTypeOK /\ AtMostOneProbe /\ SlotInv /\ ClosedBelowThreshold

\* Every state of the breaker is well typed: the failure count never leaves the
\* naturals and the age of an opening never passes the cooldown.
THEOREM TypeCorrect == BreakerSpec => []BreakerTypeOK
<1> USE BreakerAssumption DEF BreakerAssumption, BreakerTypeOK
<1>1. BreakerInit => BreakerTypeOK
  <2> SUFFICES ASSUME BreakerInit PROVE BreakerTypeOK
    OBVIOUS
  <2>1. open_age \in 0..Cooldown /\ consecutive_failures \in Nat
    BY DEF BreakerInit
  <2> QED
    BY <2>1 DEF BreakerInit
<1>2. BreakerTypeOK /\ [BreakerNext]_breakerVars => BreakerTypeOK'
  <2> SUFFICES ASSUME BreakerTypeOK, [BreakerNext]_breakerVars PROVE BreakerTypeOK'
    OBVIOUS
  <2>1. ASSUME NEW c \in Calls, Enter(c) PROVE BreakerTypeOK'
    BY <2>1 DEF Enter, AdmitNormal, AdmitProbe, ShortCircuit, StateOnEntry
  <2>2. ASSUME NEW c \in Calls, Succeed(c) PROVE BreakerTypeOK'
    <3>1. half_open_inflight' \in BOOLEAN
      BY <2>2 DEF Succeed, NormalSucceeds, ProbeSucceeds
    <3>2. consecutive_failures' \in Nat /\ open_age' \in 0..Cooldown
      BY <2>2 DEF Succeed, NormalSucceeds, ProbeSucceeds
    <3> QED
      BY <2>2, <3>1, <3>2 DEF Succeed, NormalSucceeds, ProbeSucceeds, Leave
  <2>3. ASSUME NEW c \in Calls, Fail(c) PROVE BreakerTypeOK'
    <3>1. half_open_inflight' \in BOOLEAN
      BY <2>3 DEF Fail, NormalFails, ProbeFails
    <3>2. consecutive_failures' \in Nat /\ open_age' \in 0..Cooldown
      BY <2>3 DEF Fail, NormalFails, ProbeFails
    <3> QED
      BY <2>3, <3>1, <3>2 DEF Fail, NormalFails, ProbeFails, Leave
  <2>4. ASSUME NEW c \in Calls, Cancelled(c) PROVE BreakerTypeOK'
    BY <2>4 DEF Cancelled, Leave
  <2>5. CASE BreakerTick
    BY <2>5 DEF BreakerTick
  <2>6. CASE UNCHANGED breakerVars
    BY <2>6 DEF breakerVars
  <2> QED
    BY <2>1, <2>2, <2>3, <2>4, <2>5, <2>6 DEF BreakerNext
<1> QED
  BY <1>1, <1>2, PTL DEF BreakerSpec

\* IInv is inductive.
LEMMA IInvInductive == BreakerTypeOK /\ IInv /\ [BreakerNext]_breakerVars /\ BreakerTypeOK' => IInv'
<1> USE BreakerAssumption DEF BreakerAssumption, IInv, AtMostOneProbe, SlotInv, ClosedBelowThreshold,
        Probes, BreakerTypeOK
<1> SUFFICES ASSUME BreakerTypeOK, IInv, [BreakerNext]_breakerVars, BreakerTypeOK' PROVE IInv'
  OBVIOUS
<1>1. ASSUME NEW c \in Calls, AdmitNormal(c) PROVE IInv'
  BY <1>1 DEF AdmitNormal
<1>2. ASSUME NEW c \in Calls, AdmitProbe(c) PROVE IInv'
  BY <1>2 DEF AdmitProbe, StateOnEntry
<1>3. ASSUME NEW c \in Calls, ShortCircuit(c) PROVE IInv'
  BY <1>3 DEF ShortCircuit, StateOnEntry
<1>4. ASSUME NEW c \in Calls, NormalSucceeds(c) PROVE IInv'
  BY <1>4 DEF NormalSucceeds, Leave
<1>5. ASSUME NEW c \in Calls, NormalFails(c) PROVE IInv'
  BY <1>5 DEF NormalFails, Leave
<1>6. ASSUME NEW c \in Calls, ProbeSucceeds(c) PROVE IInv'
  BY <1>6 DEF ProbeSucceeds, Leave
<1>7. ASSUME NEW c \in Calls, ProbeFails(c) PROVE IInv'
  BY <1>7 DEF ProbeFails, Leave
<1>8. ASSUME NEW c \in Calls, Cancelled(c) PROVE IInv'
  BY <1>8 DEF Cancelled, Leave
<1>9. CASE BreakerTick
  BY <1>9 DEF BreakerTick
<1>10. CASE UNCHANGED breakerVars
  BY <1>10 DEF breakerVars
<1> QED
  BY <1>1, <1>2, <1>3, <1>4, <1>5, <1>6, <1>7, <1>8, <1>9, <1>10
  DEF BreakerNext, Enter, Succeed, Fail

\* The inductive invariant holds in every reachable state.
THEOREM InductiveInvariant == BreakerSpec => []IInv
<1>1. BreakerInit /\ BreakerTypeOK => IInv
  BY BreakerAssumption DEF BreakerAssumption, BreakerInit, BreakerTypeOK, IInv, AtMostOneProbe, SlotInv,
     ClosedBelowThreshold, Probes
<1>2. BreakerTypeOK /\ BreakerTypeOK' /\ IInv /\ [BreakerNext]_breakerVars => IInv'
  BY IInvInductive
<1> QED
  BY <1>1, <1>2, TypeCorrect, PTL DEF BreakerSpec

\* CircuitBreaker.call never runs two probes of a target at once, even when
\* probes are cancelled and stale calls re-open the breaker.
THEOREM SingleProbe == BreakerSpec => []AtMostOneProbe
BY InductiveInvariant, PTL DEF IInv

\* A closed breaker always stands below its failure threshold.
THEOREM ClosedIsBelowThreshold == BreakerSpec => []ClosedBelowThreshold
BY InductiveInvariant, PTL DEF IInv

\* A call reaches an agent whose breaker is not closed only as a probe, alone,
\* after a full cooldown.
THEOREM OpenIsQuiet == BreakerSpec => QuietWhileOpen
<1>1. IInv /\ [BreakerNext]_breakerVars =>
        [ \A c \in Calls : call[c] = "idle" /\ call'[c] # "idle" =>
            state = "CLOSED" \/ (open_age = Cooldown /\ Probes = {}) ]_breakerVars
  <2> SUFFICES ASSUME IInv, BreakerNext, NEW d \in Calls,
                      call[d] = "idle", call'[d] # "idle"
               PROVE  state = "CLOSED" \/ (open_age = Cooldown /\ Probes = {})
    BY DEF breakerVars
  <2> USE DEF IInv, BreakerTypeOK
  <2>1. ASSUME NEW c \in Calls, Enter(c)
        PROVE  state = "CLOSED" \/ (open_age = Cooldown /\ Probes = {})
    BY <2>1, BreakerAssumption
    DEF BreakerAssumption, Enter, AdmitNormal, AdmitProbe, ShortCircuit,
        StateOnEntry, SlotInv
  <2>2. ASSUME NEW c \in Calls, Succeed(c) \/ Fail(c) \/ Cancelled(c)
        PROVE  FALSE
    BY <2>2 DEF Succeed, Fail, NormalSucceeds, NormalFails, ProbeSucceeds,
       ProbeFails, Cancelled, Leave
  <2>3. CASE BreakerTick
    BY <2>3 DEF BreakerTick
  <2> QED
    BY <2>1, <2>2, <2>3 DEF BreakerNext
<1> QED
  BY <1>1, InductiveInvariant, PTL DEF QuietWhileOpen, BreakerSpec

\* Once a probe was cancelled its slot stays taken, so no other probe runs.
NoProbeAfterAbandon == abandoned => Probes = {}

\* The slot is taken exactly while a probe runs or after one was cancelled: the
\* wedged half-open breaker has no other cause than the SLA's cancellation.
THEOREM SlotIsOwned == BreakerSpec => []ProbeSlotOwned
<1> DEFINE Inv == ProbeSlotOwned /\ NoProbeAfterAbandon
<1>1. BreakerInit => Inv
  BY DEF BreakerInit, ProbeSlotOwned, NoProbeAfterAbandon, Probes
<1>2. Inv /\ IInv /\ [BreakerNext]_breakerVars => Inv'
  <2> USE BreakerAssumption DEF BreakerAssumption, IInv, BreakerTypeOK, AtMostOneProbe, ProbeSlotOwned,
          NoProbeAfterAbandon, Probes
  <2> SUFFICES ASSUME Inv, IInv, [BreakerNext]_breakerVars PROVE Inv'
    OBVIOUS
  <2>1. ASSUME NEW c \in Calls, Enter(c) PROVE Inv'
    BY <2>1 DEF Enter, AdmitNormal, AdmitProbe, ShortCircuit, StateOnEntry
  <2>2. ASSUME NEW c \in Calls, NormalSucceeds(c) \/ NormalFails(c)
        PROVE  Inv'
    BY <2>2 DEF NormalSucceeds, NormalFails, Leave
  <2>3. ASSUME NEW c \in Calls, ProbeSucceeds(c) \/ ProbeFails(c)
        PROVE  Inv'
    BY <2>3 DEF ProbeSucceeds, ProbeFails, Leave
  <2>4. ASSUME NEW c \in Calls, Cancelled(c) PROVE Inv'
    <3>1. CASE call[c] = "probe"
      <4>1. half_open_inflight
        BY <3>1
      <4>2. abandoned' /\ Probes' = {}
        BY <2>4, <3>1 DEF Cancelled, Leave
      <4> QED
        BY <2>4, <4>1, <4>2 DEF Cancelled
    <3>2. CASE call[c] # "probe"
      <4>1. abandoned' = abandoned
        BY <2>4, <3>2 DEF Cancelled
      <4>2. Probes' = Probes
        BY <2>4, <3>2 DEF Cancelled, Leave
      <4> QED
        BY <2>4, <4>1, <4>2 DEF Cancelled
    <3> QED
      BY <3>1, <3>2
  <2>5. CASE BreakerTick \/ UNCHANGED breakerVars
    BY <2>5 DEF BreakerTick, breakerVars
  <2> QED
    BY <2>1, <2>2, <2>3, <2>4, <2>5 DEF BreakerNext, Succeed, Fail
<1> QED
  BY <1>1, <1>2, InductiveInvariant, PTL DEF BreakerSpec

-----------------------------------------------------------------------------
(* The Pro slots.                                                          *)

\* The state is well typed for all values of the constants.
THEOREM SlotsTypeCorrect == Spec => []TypeOK
<1>1. Init => TypeOK
  <2>1. 0 \in 0..Ttl /\ 0 \in 0..MaxClock /\ 1 \in Slots
    BY SlotAssumption DEF SlotAssumption, Slots, MaxClock
  <2>2. QED
    BY <2>1 DEF Init, TypeOK
<1>2. TypeOK /\ [Next]_vars => TypeOK'
  <2> SUFFICES ASSUME TypeOK, [Next]_vars PROVE TypeOK'
    OBVIOUS
  <2> USE SlotAssumption DEF SlotAssumption, TypeOK
  <2>1. ASSUME NEW c \in Callers, Start(c) PROVE TypeOK'
    BY <2>1 DEF Start, Slots, MaxClock
  <2>2. ASSUME NEW c \in Callers, Claim(c) PROVE TypeOK'
    BY <2>2 DEF Claim, MaxClock
  <2>3. ASSUME NEW c \in Callers, Busy(c) PROVE TypeOK'
    <3>1. NextSlot(slot[c]) \in Slots
      BY DEF NextSlot, Slots
    <3>2. slot' \in [Callers -> Slots]
      <4>1. \/ slot' = slot
            \/ slot' = [slot EXCEPT ![c] = NextSlot(slot[c])]
        BY <2>3 DEF Busy
      <4>2. QED
        BY <3>1, <4>1
    <3>3. pc' \in [Callers -> {"idle", "trying", "holding", "raised", "crashed"}]
      BY <2>3 DEF Busy
    <3>4. QED
      BY <2>3, <3>2, <3>3 DEF Busy
  <2>4. ASSUME NEW c \in Callers, Release(c) PROVE TypeOK'
    BY <2>4 DEF Release
  <2>5. ASSUME NEW c \in Callers, Crash(c) PROVE TypeOK'
    BY <2>5 DEF Crash
  <2>6. CASE Tick
    <3>1. left' \in [Slots -> 0..Ttl]
      BY <2>6 DEF Tick, LeftAfterTick
    <3>2. clock' \in [Callers -> 0..MaxClock]
      BY <2>6 DEF Tick, MaxClock
    <3>3. outlived' \in BOOLEAN
      BY <2>6 DEF Tick
    <3>4. QED
      BY <2>6, <3>1, <3>2, <3>3 DEF Tick
  <2>7. CASE UNCHANGED vars
    BY <2>7 DEF vars
  <2>8. QED
    BY <2>1, <2>2, <2>3, <2>4, <2>5, <2>6, <2>7 DEF Next
<1>3. QED
  BY <1>1, <1>2, PTL DEF Spec

\* A body's key is still there, as old as the body.
KeysOutliveBodies ==
    ~outlived =>
        \A c \in Callers : pc[c] = "holding" => clock[c] < Ttl /\ left[slot[c]] = Ttl - clock[c]

\* Bodies never share a slot as long as each has ended before SLOT_TTL_S.
THEOREM SlotsAreExclusive == Spec => []SlotsExclusive
<1> DEFINE Inv == KeysOutliveBodies /\ SlotsExclusive
<1>1. Init => Inv
  BY DEF Init, KeysOutliveBodies, SlotsExclusive
<1>2. TypeOK /\ Inv /\ [Next]_vars => Inv'
  <2> SUFFICES ASSUME TypeOK, Inv, [Next]_vars, ~outlived' PROVE Inv'
    BY DEF KeysOutliveBodies, SlotsExclusive
  <2>0. ~outlived
    <3>1. outlived => outlived'
      BY DEF Next, Start, Claim, Busy, Release, Crash, Tick, vars
    <3>2. QED
      BY <3>1
  <2> USE SlotAssumption, <2>0 DEF SlotAssumption, TypeOK, KeysOutliveBodies, SlotsExclusive
  <2>1. ASSUME NEW c \in Callers, Start(c) PROVE Inv'
    BY <2>1 DEF Start
  <2>2. ASSUME NEW c \in Callers, Claim(c) PROVE Inv'
    <3>1. \A d \in Callers : pc[d] = "holding" => slot[d] # slot[c]
      BY <2>2 DEF Claim, Free
    <3>2. QED
      BY <2>2, <3>1 DEF Claim
  <2>3. ASSUME NEW c \in Callers, Busy(c) PROVE Inv'
    BY <2>3 DEF Busy
  <2>4. ASSUME NEW c \in Callers, Release(c) PROVE Inv'
    BY <2>4 DEF Release
  <2>5. ASSUME NEW c \in Callers, Crash(c) PROVE Inv'
    BY <2>5 DEF Crash
  <2>6. CASE Tick
    <3>1. ASSUME NEW c \in Callers, pc[c] = "holding"
          PROVE  clock'[c] = clock[c] + 1 /\ clock'[c] < Ttl /\ left'[slot[c]] = left[slot[c]] - 1
      <4>0. ~Outlives(c)
        BY <2>6, Zenon DEF Tick
      <4>1. clock[c] + 1 < Ttl
        BY <3>1, <4>0 DEF Outlives
      <4>2. QED
        BY <2>6, <3>1, <4>1 DEF Tick, LeftAfterTick, MaxClock
    <3>2. pc' = pc /\ slot' = slot
      BY <2>6 DEF Tick
    <3>3. QED
      BY <3>1, <3>2
  <2>7. CASE UNCHANGED vars
    BY <2>7 DEF vars
  <2>8. QED
    BY <2>1, <2>2, <2>3, <2>4, <2>5, <2>6, <2>7 DEF Next
<1>3. QED
  BY <1>1, <1>2, SlotsTypeCorrect, PTL DEF Spec

\* "Max 4 in-flight Pro calls system-wide", as long as each ended in SLOT_TTL_S.
THEOREM CapIsKept == Spec => []NeverOverCapacity
<1>1. TypeOK /\ SlotsExclusive => NeverOverCapacity
  <2> SUFFICES ASSUME TypeOK, SlotsExclusive, ~outlived
               PROVE  Cardinality(Holders) <= Capacity
    BY DEF NeverOverCapacity
  <2> DEFINE f == [c \in Holders |-> slot[c]]
  <2>1. f \in Injection(Holders, Slots)
    BY DEF Injection, IsInjective, Holders, TypeOK, SlotsExclusive
  <2>2. IsFiniteSet(Slots) /\ Cardinality(Slots) = Capacity
    BY FS_Interval, SlotAssumption DEF SlotAssumption, Slots
  <2>3. QED
    BY <2>1, <2>2, FS_Injection
<1>2. QED
  BY <1>1, SlotsAreExclusive, SlotsTypeCorrect, PTL
=============================================================================
