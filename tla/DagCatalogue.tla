----------------------------- MODULE DagCatalogue -----------------------------
(***************************************************************************)
(* The DAGs of orchestrator/plan/auxiliary_dags.py and morning_brief.py on *)
(* the runner: their graphs, which agent each node calls, and what a node  *)
(* does to the shared state object when the call ends.  (The trading room, *)
(* a graph of its own, is in TradingRoom.)  Every step is one of DagRunner *)
(* together with what the node's function does.                            *)
(*                                                                         *)
(* A node reads the state before its call and writes it after; between the *)
(* two only nodes of the same wave run, and none of them writes what       *)
(* another reads, so a node is one step.  A call ends with an answer that  *)
(* has what the node looks for ("full"), or has not ("empty"), with the    *)
(* answer of an open breaker ("stub"), or with an exception.               *)
(***************************************************************************)
EXTENDS DagRunner

CONSTANT Personas  \* the nodes n_persona_<slug>

VARIABLES
    urls,  \* the agents the client has a base URL for
    ctx    \* MorningBriefState or _SimpleState, and what the operator was sent

catVars == <<vars, urls, ctx>>

-----------------------------------------------------------------------------
(* The graphs.                                                             *)

Chain(first, E) ==
    [entry |-> first, static |-> E, cond |-> {},
     added |-> {first} \cup {e[1] : e \in E} \cup {e[2] : e \in E}]

Analysts == {"n_fundamental", "n_quant"} \cup Personas

Morning ==
    [entry |-> "n_intel_synth", cond |-> {},
     added |-> {"n_intel_synth", "n_secretary_brief", "n_deliver_brief"} \cup Analysts,
     static |-> ({"n_intel_synth"} \X Analysts) \cup (Analysts \X {"n_secretary_brief"})
                \cup {<<"n_secretary_brief", "n_deliver_brief">>}]

Midday  == Chain("n_intel_pulse", {<<"n_intel_pulse", "n_regime_check">>,
                                   <<"n_regime_check", "n_notify_if_changed">>})
Evening == Chain("n_backtest_mtm", {<<"n_backtest_mtm", "n_recap_brief">>,
                                    <<"n_recap_brief", "n_recap_notify">>})
Weekly  == Chain("n_eval_prompts", {<<"n_eval_prompts", "n_publish_leaderboard">>})

\* The three pulls, the hourly synth and the three event DAGs have one node each.
Pulls   == Chain("n_pull", {})
Hourly  == Chain("n_hourly_synth", {})
Digest  == Chain("n_route", {})
Fill    == Chain("n_notify_fill", {})
Ops     == Chain("n_runbook_hint", {})

Catalogue == {Morning, Midday, Evening, Weekly, Pulls, Hourly, Digest, Fill, Ops}

\* The names that are written out in the code; n_persona_<slug> is none of them.
Named ==
    {"n_intel_synth", "n_fundamental", "n_quant", "n_secretary_brief", "n_deliver_brief",
     "n_intel_pulse", "n_regime_check", "n_notify_if_changed", "n_backtest_mtm", "n_recap_brief",
     "n_recap_notify", "n_eval_prompts", "n_publish_leaderboard", "n_pull", "n_hourly_synth",
     "n_route", "n_notify_fill", "n_runbook_hint"}

ASSUME CatalogueAssumption == Personas \cap Named = {}

\* _bootstrap; the client of the tests answers for every agent.
BaseUrls == {"agent_intelligence", "agent_fundamental", "agent_quant", "agent_secretary",
             "agent_persona"}
AllUrls  == BaseUrls \cup {"agent_backtest"}

Synths == {"n_intel_synth", "n_intel_pulse", "n_hourly_synth"}

AgentOf(n) ==
    CASE n \in Synths \cup {"n_pull"}                         -> "agent_intelligence"
      [] n = "n_fundamental"                                  -> "agent_fundamental"
      [] n \in {"n_quant", "n_regime_check", "n_route"}       -> "agent_quant"
      [] n \in Personas                                       -> "agent_persona"
      [] n \in {"n_backtest_mtm", "n_eval_prompts"}           -> "agent_backtest"
      [] OTHER                                                -> "agent_secretary"

\* Nodes whose function catches what the call raises.
Catching == {"n_deliver_brief", "n_notify_if_changed", "n_recap_notify"}

-----------------------------------------------------------------------------
(* The state.                                                              *)

NoBrief == [made |-> FALSE]

\* What a brief was composed from.
Composed(advices, digest, numbers) ==
    [made |-> TRUE, advices |-> advices, digest |-> digest, numbers |-> numbers]

CatInit ==
    /\ Init
    /\ urls \in {BaseUrls} \cup (IF graph \in Catalogue THEN {AllUrls} ELSE {})
    /\ ctx = [digest |-> "none", advices |-> {}, numbers |-> FALSE,
              changed |-> FALSE, brief |-> NoBrief, sent |-> {}]

-----------------------------------------------------------------------------
(* The functions of the nodes.                                             *)

\* n_intel_synth, n_intel_pulse, n_hourly_synth: the answer is the digest, the stub too.
AfterSynth(answer) == [ctx EXCEPT !.digest = IF answer = "stub" THEN "stub" ELSE "real"]

\* n_fundamental, n_quant, n_persona_<slug>.
AfterAnalyst(n, answer) ==
    [ctx EXCEPT !.advices = IF answer = "full" THEN @ \cup {n} ELSE @]

\* n_secretary_brief.
AfterBrief(answer) ==
    [ctx EXCEPT !.brief = IF answer = "full" THEN Composed(ctx.advices, ctx.digest, FALSE)
                                             ELSE NoBrief]

\* n_regime_check: changed only if the answer says so.
AfterRegimeCheck(answer) == [ctx EXCEPT !.changed = (answer = "full")]

\* n_backtest_mtm, n_eval_prompts.
AfterBacktest(answer) == [ctx EXCEPT !.numbers = (answer = "full")]

\* n_recap_brief: composed from the numbers, or from nothing.
AfterRecap(answer) ==
    [ctx EXCEPT !.brief = IF answer = "full" THEN Composed({}, "none", ctx.numbers) ELSE NoBrief]

\* What the operator gets to see of the leaderboard, a fill or an alert.
Noting == {"n_publish_leaderboard", "n_notify_fill", "n_runbook_hint"}
AfterNote(answer) == [ctx EXCEPT !.sent = IF answer = "stub" THEN @ ELSE @ \cup {"note"}]

After(n, answer) ==
    CASE n \in Synths                             -> AfterSynth(answer)
      [] n \in Analysts                           -> AfterAnalyst(n, answer)
      [] n = "n_secretary_brief"                  -> AfterBrief(answer)
      [] n = "n_regime_check"                     -> AfterRegimeCheck(answer)
      [] n \in {"n_backtest_mtm", "n_eval_prompts"} -> AfterBacktest(answer)
      [] n = "n_recap_brief"                      -> AfterRecap(answer)
      [] n \in Noting                             -> AfterNote(answer)
      [] OTHER                                    -> ctx

\* What a catching node has to say, if anything.  n_deliver_brief, unlike the others,
\* sends the brief it has even if it has none.
Message(n) ==
    CASE n = "n_deliver_brief"     -> {IF ctx.brief.made THEN "brief" ELSE "nothing"}
      [] n = "n_recap_notify"      -> IF ctx.brief.made THEN {"brief"} ELSE {}
      [] n = "n_notify_if_changed" -> IF ctx.changed THEN {"alarm"} ELSE {}
      [] OTHER                     -> {}

Answers(n) == IF AgentOf(n) \in urls THEN {"full", "empty", "stub"} ELSE {}

\* Faulty variant: what the node was cut off from is stored all the same.
Stored_Shielded(n, r) ==
    IF r # "failed" /\ n \notin Catching THEN {After(n, a) : a \in Answers(n)} ELSE {}

\* A node that is ok has stored its answer, one that is not has stored nothing.
Stored(n, r) ==
    IF r = "ok" /\ n \notin Catching THEN {After(n, a) : a \in Answers(n)} ELSE {}

\* What has been sent may be lost; what failed may have been sent.  Without a URL the
\* call raises KeyError at once.
Act(n, r) ==
    \/ ctx' \in Stored(n, r)
    \/ n \in Catching /\ r = "ok" /\ ctx' \in {ctx, [ctx EXCEPT !.sent = @ \cup Message(n)]}
    \/ n \notin Catching /\ r \in {"failed"} \cup (IF AgentOf(n) \in urls THEN {"timed_out"} ELSE {})
       /\ ctx' \in {ctx} \cup (IF n \in Noting THEN {AfterNote("full")} ELSE {})

\* A node of a DAG of the repository; the nodes of other graphs do nothing.
FinishNode(n, r) ==
    /\ Finish(n, r)
    /\ IF graph \in Catalogue THEN Act(n, r) ELSE UNCHANGED ctx
    /\ UNCHANGED urls

RunnerStep == (LoopHead \/ Collect \/ DeadlinePasses) /\ UNCHANGED <<urls, ctx>>

CatNext ==
    \/ RunnerStep
    \/ \E n \in Nodes, r \in {"ok", "failed", "timed_out"} : FinishNode(n, r)

CatSpec == CatInit /\ [][CatNext]_catVars

\* A node without an SLA ends with the timeout of its client, one whose agent has no
\* URL at once, and the SLA cuts off the others.
NodeSettles ==
    \E n \in Nodes :
        \/ n \in Bounded /\ FinishNode(n, "timed_out")
        \/ graph \in Catalogue /\ (n \notin Bounded \/ AgentOf(n) \notin urls)
           /\ \E r \in {"ok", "failed"} : FinishNode(n, r)

\* The event loop runs.
CatFairness == WF_catVars(RunnerStep) /\ WF_catVars(NodeSettles)

CatFairSpec == CatSpec /\ CatFairness

-----------------------------------------------------------------------------
(* Properties.                                                             *)

\* The morning brief waits for everybody and for nobody twice: once it is composed no
\* advice is added, every analyst has ended, and what it is composed from comes from
\* nodes the run reports as ok, whatever was cut off or failed around them.
BriefIsComplete ==
    graph = Morning /\ ctx.brief.made =>
        /\ ctx.brief.advices = ctx.advices
        /\ \A n \in Analysts : outcome[n] # "none"
        /\ \A n \in ctx.advices : outcome[n] = "ok"
        /\ ctx.brief.digest = "none" <=> outcome["n_intel_synth"] # "ok"

\* With the base URLs of _bootstrap no evening recap has numbers and no recap or weekly
\* run is ok: agent_backtest has no URL, and the run goes on, and to the operator,
\* without it.
RecapHasNoNumbers ==
    graph \in {Evening, Weekly} /\ urls = BaseUrls =>
        /\ ctx.brief.made => ~ctx.brief.numbers
        /\ phase = "done" => outcome[graph.entry] = "failed"

\* What a brief shows is what its run has, and no more.
BriefShowsRun == BriefIsComplete /\ RecapHasNoNumbers
=============================================================================
