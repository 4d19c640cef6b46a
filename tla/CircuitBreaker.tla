---------------------------- MODULE CircuitBreaker ----------------------------
(***************************************************************************)
(* The per-target circuit breaker that HttpxAgentClient puts in front of   *)
(* every agent (orchestrator/plan/breaker.py), together with the three     *)
(* ways a guarded call can end: the awaited function returns, it raises an *)
(* Exception, or the task is cancelled by the hard SLA of its DAG node     *)
(* (orchestrator/execute/sla.py, asyncio.wait_for).  CancelledError is a   *)
(* BaseException, so neither `except Exception` of CircuitBreaker.call     *)
(* sees it.                                                                *)
(*                                                                         *)
(* The registry keeps one state machine per target and none of them reads  *)
(* another, so one target is modelled.  asyncio runs the code between two  *)
(* awaits without interruption: a call is admitted in one step (the lock   *)
(* of the half-open branch is never contended, its body awaits nothing)    *)
(* and ends in one step; everything may happen between the two.            *)
(***************************************************************************)
EXTENDS Naturals

CONSTANTS
    Calls,      \* tasks that may be inside breaker.call(target, fn) at once
    Threshold,  \* failure_threshold
    Cooldown    \* cooldown_s, in ticks of the monotonic clock

ASSUME BreakerAssumption ==
    /\ Threshold \in Nat \ {0}
    /\ Cooldown \in Nat

VARIABLES
    state,                 \* _BreakerState.state
    consecutive_failures,  \* _BreakerState.consecutive_failures
    open_age,              \* time.monotonic() - opened_at, counted up to Cooldown
    half_open_inflight,    \* _BreakerState.half_open_inflight
    call,                  \* where each task is: outside, or awaiting fn()
    abandoned              \* history: a probe has been cancelled

breakerVars == <<state, consecutive_failures, open_age, half_open_inflight, call, abandoned>>

Probes  == {c \in Calls : call[c] = "probe"}

BreakerTypeOK ==
    /\ state \in {"CLOSED", "OPEN", "HALF_OPEN"}
    /\ consecutive_failures \in Nat
    /\ open_age \in 0..Cooldown
    /\ half_open_inflight \in BOOLEAN
    /\ call \in [Calls -> {"idle", "normal", "probe"}]
    /\ abandoned \in BOOLEAN

BreakerInit ==
    /\ state = "CLOSED"
    /\ consecutive_failures = 0
    /\ open_age = Cooldown
    /\ half_open_inflight = FALSE
    /\ call = [c \in Calls |-> "idle"]
    /\ abandoned = FALSE

-----------------------------------------------------------------------------
(* Entering breaker.call.                                                  *)

\* The state after _maybe_transition_to_half_open, which every call awaits
\* first: an open breaker whose cooldown has elapsed becomes half-open.
StateOnEntry ==
    IF state = "OPEN" /\ open_age >= Cooldown THEN "HALF_OPEN" ELSE state

\* The closed branch: fn() is awaited with no bookkeeping before it.
AdmitNormal(c) ==
    /\ call[c] = "idle"
    /\ StateOnEntry = "CLOSED"
    /\ call' = [call EXCEPT ![c] = "normal"]
    /\ UNCHANGED <<state, consecutive_failures, open_age, half_open_inflight, abandoned>>

\* Faulty variant: the probe slot is taken without looking whether it is free.
AdmitProbe_Unchecked(c) ==
    /\ call[c] = "idle"
    /\ StateOnEntry = "HALF_OPEN"
    /\ half_open_inflight' = TRUE
    /\ state' = "HALF_OPEN"
    /\ call' = [call EXCEPT ![c] = "probe"]
    /\ UNCHANGED <<consecutive_failures, open_age, abandoned>>

\* The half-open branch: the first caller takes the probe slot.
AdmitProbe(c) ==
    /\ call[c] = "idle"
    /\ StateOnEntry = "HALF_OPEN"
    /\ ~half_open_inflight
    /\ half_open_inflight' = TRUE
    /\ state' = "HALF_OPEN"
    /\ call' = [call EXCEPT ![c] = "probe"]
    /\ UNCHANGED <<consecutive_failures, open_age, abandoned>>

\* BreakerOpen is raised, which HttpxAgentClient.call turns into the degraded
\* response; the transition to half-open made on entry stays.
ShortCircuit(c) ==
    /\ call[c] = "idle"
    /\ \/ StateOnEntry = "OPEN"
       \/ StateOnEntry = "HALF_OPEN" /\ half_open_inflight
    /\ state' = StateOnEntry
    /\ UNCHANGED <<consecutive_failures, open_age, half_open_inflight, call, abandoned>>

-----------------------------------------------------------------------------
(* Leaving breaker.call.  A call keeps the branch it was admitted in, while *)
(* the breaker may have changed state since.                                *)

Leave(c) == call' = [call EXCEPT ![c] = "idle"]

NormalSucceeds(c) ==
    /\ call[c] = "normal"
    /\ consecutive_failures' = 0
    /\ Leave(c)
    /\ UNCHANGED <<state, open_age, half_open_inflight, abandoned>>

NormalFails(c) ==
    /\ call[c] = "normal"
    /\ consecutive_failures' = consecutive_failures + 1
    /\ IF consecutive_failures + 1 >= Threshold
       THEN state' = "OPEN" /\ open_age' = 0
       ELSE UNCHANGED <<state, open_age>>
    /\ Leave(c)
    /\ UNCHANGED <<half_open_inflight, abandoned>>

\* Faulty variant: the probe slot survives the probe.

ProbeSucceeds_KeepSlot(c) ==
    /\ call[c] = "probe"
    /\ state' = "CLOSED"
    /\ consecutive_failures' = 0
    /\ Leave(c)
    /\ UNCHANGED <<open_age, half_open_inflight, abandoned>>

ProbeSucceeds(c) ==
    /\ call[c] = "probe"
    /\ state' = "CLOSED"
    /\ consecutive_failures' = 0
    /\ half_open_inflight' = FALSE
    /\ Leave(c)
    /\ UNCHANGED <<open_age, abandoned>>

ProbeFails(c) ==
    /\ call[c] = "probe"
    /\ state' = "OPEN"
    /\ open_age' = 0
    /\ consecutive_failures' = Threshold
    /\ half_open_inflight' = FALSE
    /\ Leave(c)
    /\ UNCHANGED abandoned

\* The hard SLA cancels the task: no handler of breaker.call runs.
Cancelled(c) ==
    /\ call[c] # "idle"
    /\ Leave(c)
    /\ abandoned' = (abandoned \/ call[c] = "probe")
    /\ UNCHANGED <<state, consecutive_failures, open_age, half_open_inflight>>

\* time.monotonic() advances.
BreakerTick ==
    /\ open_age < Cooldown
    /\ open_age' = open_age + 1
    /\ UNCHANGED <<state, consecutive_failures, half_open_inflight, call, abandoned>>

Enter(c) == AdmitNormal(c) \/ AdmitProbe(c) \/ ShortCircuit(c)
Succeed(c) == NormalSucceeds(c) \/ ProbeSucceeds(c)
Fail(c) == NormalFails(c) \/ ProbeFails(c)

BreakerNext ==
    \/ \E c \in Calls : Enter(c) \/ Succeed(c) \/ Fail(c) \/ Cancelled(c)
    \/ BreakerTick

BreakerSpec == BreakerInit /\ [][BreakerNext]_breakerVars

\* Time passes, an awaited fn() ends (the client's timeout_s bounds it) and the
\* orchestrator keeps calling the agent: its cron schedule never stops.
BreakerFairness ==
    /\ WF_breakerVars(BreakerTick)
    /\ \A c \in Calls : WF_breakerVars(Succeed(c) \/ Fail(c))
    /\ WF_breakerVars(\E c \in Calls : Enter(c))

BreakerFairSpec == BreakerSpec /\ BreakerFairness

-----------------------------------------------------------------------------
(* Properties.                                                             *)

\* "exactly one probe is allowed": however calls overlap, re-open the breaker
\* and let it cool down again, two probes never run at once.
AtMostOneProbe == \A c, d \in Probes : c = d

\* A closed breaker has fewer failures on its account than the threshold, also
\* when calls admitted before it opened end after it closed again.
ClosedBelowThreshold == state = "CLOSED" => consecutive_failures < Threshold

\* The probe slot is taken exactly while a probe runs, unless a probe has been
\* cancelled, and a half-open breaker has its slot taken: nothing but a
\* cancellation leaves every later call short-circuited.
ProbeSlotOwned ==
    /\ half_open_inflight <=> Probes # {} \/ abandoned
    /\ state = "HALF_OPEN" => half_open_inflight

\* After the breaker opens, no call reaches the agent before the cooldown of the
\* last counted failure has elapsed, unless a probe admitted earlier succeeded.
QuietWhileOpen ==
    [][ \A c \in Calls :
          call[c] = "idle" /\ call'[c] # "idle" =>
             state = "CLOSED" \/ (open_age = Cooldown /\ Probes = {}) ]_breakerVars

\* An agent that stops failing is called again: if from some time on no call
\* raises, the breaker closes and stays closed, or a probe was cancelled.
AgentRecovers ==
    <>[][\A c \in Calls : ~Fail(c)]_breakerVars => <>[](state = "CLOSED" \/ abandoned)

\* breaker.py:10 says of the half-open state "success returns to closed, failure
\* returns to open": a half-open breaker is eventually one of the two.
HalfOpenResolves == state = "HALF_OPEN" ~> state # "HALF_OPEN"
=============================================================================
