----------------------------- MODULE TradingRoom -----------------------------
(***************************************************************************)
(* One run of the trading-room DAG (orchestrator/plan/trading_room.py) for *)
(* a high-impact event: triage, a fan-out to three teams, the Investment   *)
(* Board (agent_board), the secretary's brief and the alert.  The run is a *)
(* chain of five nodes under execute(); DagRunner is its abstraction.      *)
(*                                                                         *)
(* The board is a process of its own: it goes on, and writes to the        *)
(* ledger, when the 60 s of the client have passed or the orchestrator is  *)
(* gone.  Agents answer as in tests/test_trading_room_dag_e2e.py; no agent *)
(* under src/ serves POST /run, where the client of _bootstrap sends.      *)
(* A feature flag may change at any time; the run reads one, in triage.    *)
(***************************************************************************)
EXTENDS TradePlans

CONSTANTS
    QuantInputs,  \* records [mark, z]
    Theses,       \* records [mark, direction, conviction, fair, mos]
    Panels,       \* sequences of the personas' advices
    Confidence    \* of each team's plan

ASSUME RoomAssumption ==
    /\ QuantInputs \subseteq [mark : Nat, z : Int]
    /\ Theses \subseteq [mark : Nat, direction : Directions, conviction : Nat, fair : Nat, mos : Int]
    /\ Confidence \in [Teams -> Nat]

Order  == <<"quant", "fundamental", "persona">>  \* in which n_fanout asks
Agents == Teams \cup {"board", "secretary"}

\* The plans the teams can answer with; where PlanV1 refuses, the endpoint raises.
QuantPlans       == {QuantPlan(i.mark, i.z) : i \in QuantInputs}
FundamentalPlans == {FundamentalPlan(t.mark, t.direction, t.conviction, t.fair, t.mos) : t \in Theses}
PersonaPlans     == {PersonaPlan(p) : p \in Panels}
ValidPlans       == {p \in QuantPlans \cup FundamentalPlans \cup PersonaPlans : PlanValid(p)}

\* Of a plan the room needs no more than whose it is and what the ledger would say.
Offers == {[team |-> p.team, storable |-> Storable(p)] : p \in ValidPlans}

VARIABLES
    wiring,   \* who runs the DAG, which agents its client has a base URL for, and the flag
              \* of the triage as its one read finds it
    trigger,  \* the signals of the event that fired the run
    phase,    \* of execute(): "loop", "gather", or how it ended
    done,     \* nodes completed
    failed,   \* those among them whose NodeResult is not ok
    at,       \* what the node of the wave is doing
    late,     \* the overall deadline has passed
    crashed,  \* the orchestrator has stopped
    room,     \* TradingRoomState
    board,    \* the request the board works on
    ledger,     \* decisions in lake.advice
    alerted    \* the alert has gone out to the operator

dagVars  == <<phase, done, failed, at, late>>
boardVars == <<board, ledger>>
vars == <<wiring, trigger, dagVars, crashed, room, boardVars, alerted>>

None == [made |-> FALSE]

Events  == [overlap : BOOLEAN, signal : {"low", "medium", "big"}]
NoEvent == [overlap |-> FALSE, signal |-> "low"]

\* app.py: _bootstrap gives the client no URL for the board or for a persona panel.
\* Tests call the DAG with both.
Bootstrapped == {"quant", "fundamental", "secretary"}

\* state.trigger_event: route() hands the entry a trigger and a trace id and no payload,
\* and the entry takes an empty event for the missing one.
TriggerEvent == IF wiring.via = "route" THEN NoEvent ELSE trigger

Init ==
    /\ wiring \in [via : {"route", "caller"}, urls : {Bootstrapped, Agents}, gate : BOOLEAN]
    /\ trigger \in Events
    /\ phase = "loop" /\ done = 0 /\ failed = {} /\ at = "over" /\ late = FALSE
    /\ crashed = FALSE
    /\ room = [route |-> "none", plans |-> [t \in Teams |-> {}], failures |-> {},
               degraded |-> FALSE, decision |-> None, brief |-> "none"]
    /\ board = [stage |-> "idle", decision |-> None, degraded |-> FALSE, stored |-> "no"]
    /\ ledger = {}
    /\ alerted = FALSE

-----------------------------------------------------------------------------
(* execute() on the chain.                                                 *)

Ended == {"done", "overdue"}

Running(n) == phase = "gather" /\ done + 1 = n /\ ~crashed

\* Faulty variant: the deadline is looked at only where the graph is stuck.
LoopHead_NoDeadline ==
    /\ phase = "loop"
    /\ ~crashed
    /\ \/ done = 5 /\ phase' = "done" /\ UNCHANGED at
       \/ done < 5 /\ phase' = "gather" /\ at' = "begin"
    /\ UNCHANGED <<wiring, trigger, done, failed, late, crashed, room, boardVars, alerted>>

LoopHead ==
    /\ phase = "loop"
    /\ ~crashed
    /\ \/ done = 5 /\ phase' = "done" /\ UNCHANGED at
       \/ done < 5 /\ late /\ phase' = "overdue" /\ UNCHANGED at
       \/ done < 5 /\ ~late /\ phase' = "gather" /\ at' = "begin"
    /\ UNCHANGED <<wiring, trigger, done, failed, late, crashed, room, boardVars, alerted>>

\* The node of the wave returns, or raises into the SLA wrapper.
Node(result) ==
    /\ at' = "over"
    /\ failed' = IF result = "ok" THEN failed ELSE failed \cup {done + 1}
    /\ UNCHANGED <<wiring, trigger, phase, done, late, crashed>>

Collect ==
    /\ phase = "gather"
    /\ at = "over"
    /\ ~crashed
    /\ phase' = "loop"
    /\ done' = done + 1
    /\ UNCHANGED <<wiring, trigger, failed, at, late, crashed, room, boardVars, alerted>>

DeadlinePasses ==
    /\ phase \notin Ended
    /\ ~late /\ ~crashed
    /\ late' = TRUE
    /\ UNCHANGED <<wiring, trigger, phase, done, failed, at, crashed, room, boardVars, alerted>>

\* The process of the orchestrator ends; nothing resumes the run.
Crash ==
    /\ phase \notin Ended
    /\ ~crashed
    /\ crashed' = TRUE
    /\ UNCHANGED <<wiring, trigger, dagVars, room, boardVars, alerted>>

-----------------------------------------------------------------------------
(* n_triage.                                                               *)

\* _numeric_route; "ask" where the LLM breaks the tie.
NumericRoute ==
    LET event == TriggerEvent
    IN  CASE event.signal = "big" /\ event.overlap     -> "trading_room"
          [] event.signal = "medium" /\ event.overlap  -> "ask"
          [] event.signal = "low" /\ ~event.overlap    -> "drop"
          [] OTHER                                     -> "morning_brief_only"

\* triage: the flag, the numbers, the tie-break.  The LLM may name a route, answer
\* something else, or be skipped by the cost breaker.
Routes ==
    IF ~wiring.gate THEN {"drop"}
    ELSE IF NumericRoute = "ask" THEN {"trading_room", "morning_brief_only", "drop"}
    ELSE {NumericRoute}

Triage ==
    /\ Running(1)
    /\ at = "begin"
    /\ \/ Node("ok") /\ \E route \in Routes : room' = [room EXCEPT !.route = route]
       \/ wiring.gate /\ NumericRoute = "ask" /\ Node("failed") /\ UNCHANGED room
    /\ UNCHANGED <<boardVars, alerted>>

-----------------------------------------------------------------------------
(* n_fanout.                                                               *)

\* How client.call(team) can end: an answer with a plan or without one, an exception
\* (or KeyError where there is no base URL), or the answer of an open breaker.
Answers(team) ==
    [kind : {"failed"}, plan : {{}}] \cup
    IF team \in wiring.urls
    THEN [kind : {"ok"}, plan : {{}} \cup {{p} : p \in {o \in Offers : o.team = team}}]
    ELSE {}

\* The three teams are asked in turn; nobody else sees the state in between.  A team
\* that fails is recorded, a team that answers without a plan is not.
Fanout ==
    /\ Running(2)
    /\ at = "begin"
    /\ Node("ok")
    /\ IF room.route # "trading_room" THEN UNCHANGED room
       ELSE \E q \in Answers("quant"), f \in Answers("fundamental"), p \in Answers("persona") :
              LET answer == [t \in Teams |-> CASE t = "quant" -> q
                                               [] t = "fundamental" -> f
                                               [] t = "persona" -> p]
                  silent == {t \in Teams : answer[t].kind = "failed"}
              IN  room' = [room EXCEPT !.plans = [t \in Teams |-> answer[t].plan],
                                       !.failures = silent,
                                       !.degraded = silent # {}]
    /\ UNCHANGED <<boardVars, alerted>>

-----------------------------------------------------------------------------
(* n_board, and the board.                                                 *)

Received == UNION {room.plans[t] : t \in Teams}

Degrade == room' = [room EXCEPT !.degraded = TRUE]

SkipBoard ==
    /\ Running(3)
    /\ at = "begin"
    /\ Received = {} \/ "board" \in wiring.urls   \* no plans, or the breaker is open
    /\ Degrade
    /\ Node("ok")
    /\ UNCHANGED <<boardVars, alerted>>

\* No base URL, or the connection fails: the node raises.
BoardUnreachable ==
    /\ Running(3)
    /\ at = "begin"
    /\ Received # {}
    /\ Node("failed")
    /\ UNCHANGED <<room, boardVars, alerted>>

AskBoard ==
    /\ Running(3)
    /\ at = "begin"
    /\ Received # {}
    /\ "board" \in wiring.urls
    /\ at' = "await"
    /\ board' = [board EXCEPT !.stage = "asked"]
    /\ UNCHANGED <<wiring, trigger, phase, done, failed, late, crashed, room, ledger, alerted>>

\* decide() with the flag off: an answer without a decision.
BoardDeclines ==
    /\ board.stage = "asked"
    /\ board' = [board EXCEPT !.stage = "answered"]
    /\ UNCHANGED <<wiring, trigger, dagVars, crashed, room, ledger, alerted>>

\* debate(): bull and bear speak in turn; a turn the cost breaker skips ends it.
Debate ==
    /\ board.stage = "asked"
    /\ \E cutShort \in BOOLEAN : board' = [board EXCEPT !.stage = "panel", !.degraded = cutShort]
    /\ UNCHANGED <<wiring, trigger, dagVars, crashed, room, ledger, alerted>>

\* deliberate(), the risk panel, cut short the same way; the chair of a degraded
\* debate has no choice but the fallback, that of a degraded panel has.
Deliberate ==
    /\ board.stage = "panel"
    /\ \E cutShort \in BOOLEAN :
         board' = [board EXCEPT !.stage = IF board.degraded THEN "fallback" ELSE "chair",
                                !.degraded = @ \/ cutShort]
    /\ UNCHANGED <<wiring, trigger, dagVars, crashed, room, ledger, alerted>>

\* max(plans, key=confidence): the first of those with the most.
Best ==
    LET best(t) == /\ room.plans[t] # {}
                   /\ \A u \in Teams : room.plans[u] # {} => Confidence[u] <= Confidence[t]
        first   == CHOOSE i \in 1..3 : best(Order[i]) /\ \A j \in 1..(i-1) : ~best(Order[j])
    IN  room.plans[Order[first]]

Decide(plan, fallback) ==
    board' = [board EXCEPT !.stage = "persist",
                           !.decision = [made |-> TRUE, chosen |-> plan, fallback |-> fallback]]

\* synthesize_decision: the chair names one of the plans; anything else it says, or
\* silence, is the fallback.
Chair ==
    /\ \/ board.stage = "chair" /\ \E plan \in Received : Decide(plan, FALSE)
       \/ board.stage \in {"chair", "fallback"} /\ \E plan \in Best : Decide(plan, TRUE)
    /\ UNCHANGED <<wiring, trigger, dagVars, crashed, room, ledger, alerted>>

\* persist_decision: the projection is refused by AdviceV1, or the append commits,
\* or raises, before or after its commit.  Whatever happens the answer is "ok".
Persist ==
    /\ board.stage = "persist"
    /\ IF board.decision.chosen.storable
       THEN \/ ledger' = ledger \cup {board.decision} /\ board' = [board EXCEPT !.stage = "answered", !.stored = "row"]
            \/ ledger' \in {ledger, ledger \cup {board.decision}}
               /\ board' = [board EXCEPT !.stage = "answered", !.stored = "failed"]
       ELSE ledger' = ledger /\ board' = [board EXCEPT !.stage = "answered", !.stored = "refused"]
    /\ UNCHANGED <<wiring, trigger, dagVars, crashed, room, alerted>>

\* An LLM call raises, the chair's confidence is not a number, or the process ends.
BoardFails ==
    /\ board.stage \in {"asked", "panel", "chair", "fallback", "persist"}
    /\ board' = [board EXCEPT !.stage = "failed"]
    /\ UNCHANGED <<wiring, trigger, dagVars, crashed, room, ledger, alerted>>

\* Faulty variant: the board's own degradation is not taken over.
TakeDecision_Clean ==
    room' = [room EXCEPT !.decision = board.decision, !.degraded = @ \/ ~board.decision.made]
TakeDecision ==
    room' = [room EXCEPT !.decision = board.decision,
                         !.degraded = @ \/ ~board.decision.made \/ board.degraded]

\* The answer arrives in time.  "persist_error" is not looked at.
BoardAnswers ==
    /\ Running(3)
    /\ at = "await"
    /\ board.stage = "answered"
    /\ TakeDecision
    /\ Node("ok")
    /\ UNCHANGED <<boardVars, alerted>>

\* Faulty variants: the exception is caught and the room degraded, as a team's is;
\* the client has no timeout.
BoardRaises_Caught ==
    /\ Running(3)
    /\ at = "await"
    /\ Degrade
    /\ Node("ok")
    /\ UNCHANGED <<boardVars, alerted>>
BoardRaises_NoTimeout ==
    /\ Running(3)
    /\ at = "await"
    /\ board.stage = "failed"
    /\ Node("failed")
    /\ UNCHANGED <<room, boardVars, alerted>>

\* Status 500, or 60 s without an answer: the node raises, the board goes on.
BoardRaises ==
    /\ Running(3)
    /\ at = "await"
    /\ Node("failed")
    /\ UNCHANGED <<room, boardVars, alerted>>

-----------------------------------------------------------------------------
(* n_brief and n_notify.                                                   *)

\* The secretary composes the brief, or answers without a markdown (an open breaker
\* does), or the call raises.
Brief ==
    /\ Running(4)
    /\ at = "begin"
    /\ \/ Node("ok") /\ UNCHANGED room
       \/ room.decision.made /\ Node("failed") /\ UNCHANGED room
       \/ /\ room.decision.made
          /\ Node("ok")
          /\ room' = [room EXCEPT !.brief = IF room.degraded THEN "degraded" ELSE "clean"]
    /\ UNCHANGED <<boardVars, alerted>>

\* No brief, no alert.  A call that raises is "deferred", to nobody; the answer of
\* an open breaker counts as sent; and what raised may have been sent.
Notify ==
    /\ Running(5)
    /\ at = "begin"
    /\ Node("ok")
    /\ alerted' \in IF room.brief = "none" THEN {alerted} ELSE BOOLEAN
    /\ UNCHANGED <<room, boardVars>>

NodeStep ==
    \/ Triage
    \/ Fanout
    \/ SkipBoard \/ BoardUnreachable \/ AskBoard \/ BoardAnswers \/ BoardRaises
    \/ Brief
    \/ Notify

BoardStep == BoardDeclines \/ Debate \/ Deliberate \/ Chair \/ Persist \/ BoardFails

Next == LoopHead \/ NodeStep \/ Collect \/ DeadlinePasses \/ Crash \/ BoardStep

Spec == Init /\ [][Next]_vars

\* The event loop runs, and every call of the client ends: with an answer, an error
\* or the timeout.  Nothing is assumed of the board, nor that a deadline ever passes.
Fairness ==
    /\ WF_vars(LoopHead)
    /\ WF_vars(Collect)
    /\ WF_vars(NodeStep)

FairSpec == Spec /\ Fairness

-----------------------------------------------------------------------------
(* The room as a run of DagRunner.                                         *)

\* build_dag: n_triage, n_fanout, n_board, n_brief and n_notify are nodes 1 to 5.
Edges == {<<i, i + 1>> : i \in 1..4}
RoomGraph == [entry |-> 1, added |-> 1..5, static |-> Edges, cond |-> {}]

Waves == IF phase = "gather" THEN done + 1 ELSE done

Dag == INSTANCE DagRunner WITH
    Nodes     <- 1..5,
    Graphs    <- {RoomGraph},
    Bounded   <- {},
    graph     <- RoomGraph,
    phase     <- phase,
    pending   <- {done + 1} \ {6},
    completed <- 1..done,
    wave      <- {Waves} \ {0},
    running   <- IF phase = "gather" /\ at # "over" THEN {done + 1} ELSE {},
    outcome   <- [n \in 1..5 |-> IF n \in failed THEN "failed"
                                 ELSE IF n < Waves \/ (n = Waves /\ at = "over") THEN "ok"
                                 ELSE "none"],
    rank      <- [n \in 1..5 |-> IF n <= Waves THEN n ELSE 0],
    waves     <- Waves,
    taken     <- {e \in Edges : e[1] <= done},
    late      <- late

-----------------------------------------------------------------------------
(* Properties.                                                             *)

\* Every step of the room, its calls and the board included, is a step of execute()
\* on its graph or none: what DagRunner promises of every graph holds of the room.
RefinesDag == Dag!Spec

\* agent_board/schema.py:18, "Persisted to lake.advice": a decision the operator is
\* briefed on has a row, unless the append raised or the decision follows the persona
\* consensus, the only team whose valid plans can have a projection AdviceV1 refuses
\* (a target that team_plan.py has moved to one per cent from the entry).
UnledgeredBriefHasCause ==
    room.brief # "none" /\ room.decision \notin ledger =>
        board.stored = "failed" \/ room.decision.chosen.team = "persona"

\* The board may write its row after the client has given up or the orchestrator is
\* gone.  Then the run is not reported ok: an ok run knows the decision in the ledger.
OkRunKnowsItsRow ==
    phase = "done" /\ failed = {} /\ ledger # {} => ledger = {room.decision}

\* Ledger, brief and outcome of a run agree on the decision, or the difference has a cause.
BriefAgreesWithLedger == UnledgeredBriefHasCause /\ OkRunKnowsItsRow

\* A brief that does not say "degraded" rests on a room in which no call to a team
\* failed and neither debate of the board was cut short.  (A team that answers without
\* a plan, and a chair that falls back on its own, are not told.)
CleanBriefIsWhole == room.brief = "clean" => room.failures = {} /\ ~board.degraded

\* A run whose board node is ok and that has no decision says so by its degraded flag,
\* whatever kept the decision away.
UndecidedIsDegraded ==
    done >= 3 /\ 3 \notin failed /\ ~room.decision.made => room.degraded

\* The degraded flag is raised for whatever it stands for.
DegradedIsTold == CleanBriefIsWhole /\ UndecidedIsDegraded

\* app.py:183, "wake the trading-room DAG on intel.event.high_impact.v1", and
\* event_triage.py:18-19: an event of high impact on the universe wakes the room once the
\* triage, if it is switched on, has seen it.  The code breaks it: what the triage of a
\* routed run sees is not the event.
HighImpactWakesRoom ==
    wiring.gate /\ trigger = [overlap |-> TRUE, signal |-> "big"] /\ done >= 1 /\ 1 \notin failed
        => room.route = "trading_room"

\* Every run ends unless the orchestrator stops, though no node of the room has an SLA:
\* the timeout of the client is what ends the wait for the board.
RoomEnds == <>(phase \in Ended \/ crashed)
=============================================================================
