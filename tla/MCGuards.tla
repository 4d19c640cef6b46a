------------------------------- MODULE MCGuards -------------------------------
(* The two guards in front of an agent's LLM call, checked in one run: each  *)
(* behaviour is one of the circuit breaker's or one of the Pro slots', which *)
(* share no state.                                                           *)
EXTENDS CircuitBreaker, ProSlots

VARIABLE desk  \* the guard this behaviour is about

GuardsInit == desk \in {"breaker", "slots"} /\ BreakerInit /\ Init

GuardsNext ==
    /\ UNCHANGED desk
    /\ \/ desk = "breaker" /\ BreakerNext /\ UNCHANGED vars
       \/ desk = "slots" /\ Next /\ UNCHANGED breakerVars

\* The fairness of each guard, asked of the guard the behaviour is about.
GuardsFairness ==
    /\ WF_breakerVars(desk = "breaker" /\ BreakerTick)
    /\ \A c \in Calls : WF_breakerVars(desk = "breaker" /\ (Succeed(c) \/ Fail(c)))
    /\ WF_breakerVars(desk = "breaker" /\ \E c \in Calls : Enter(c))
    /\ WF_vars(desk = "slots" /\ Tick)
    /\ \A c \in Callers :
          /\ WF_vars(desk = "slots" /\ (Claim(c) \/ Busy(c)))
          /\ WF_vars(desk = "slots" /\ Release(c))

GuardsSpec ==
    GuardsInit /\ [][GuardsNext]_<<desk, breakerVars, vars>> /\ GuardsFairness
=============================================================================
