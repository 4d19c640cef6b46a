------------------------------- MODULE DagRunner -------------------------------
(***************************************************************************)
(* orchestrator/execute/runner.py: execute() runs a StateGraph wave by     *)
(* wave.  A wave is the set of pending nodes whose static parents have all *)
(* completed; it is awaited with asyncio.gather, each node under the SLA   *)
(* wrapper of execute/sla.py, and only then are the successors collected   *)
(* and the overall deadline looked at again.                               *)
(*                                                                         *)
(* The graph is part of the state and never changes, so that one run of    *)
(* the model checker covers every graph in Graphs.  What a node computes   *)
(* is abstracted to whether it succeeded; the targets a condition function *)
(* returns are any of the node's conditional edges.                        *)
(***************************************************************************)
EXTENDS Naturals

CONSTANTS
    Nodes,    \* node names
    Graphs,   \* records [entry: name passed to set_entry, added: names passed to add_node,
              \*          static: add_edge pairs, cond: add_conditional_edges pairs]
    Bounded   \* nodes with a hard SLA: wait_for cancels them

ASSUME DagAssumption ==
    /\ Graphs \subseteq [entry  : Nodes,
                         added  : SUBSET Nodes,
                         static : SUBSET (Nodes \X Nodes),
                         cond   : SUBSET (Nodes \X Nodes)]
    /\ Bounded \subseteq Nodes

VARIABLES
    graph,
    phase,      \* "loop": head of the while loop, "gather": awaiting a wave,
                \* or how execute() ended
    pending, completed,
    wave,       \* `ready`, the nodes gathered by this iteration
    running,    \* the nodes of the wave that have not finished
    outcome,    \* NodeResult of each finished node
    rank,       \* number of the wave a node ran in: its place in `results`
    waves,      \* iterations so far
    taken,      \* edges along which a finished node added a successor
    late        \* loop.time() > overall_deadline

vars == <<graph, phase, pending, completed, wave, running, outcome, rank, waves,
          taken, late>>

Ended == {"done", "stalled", "overdue", "key_error"}

TypeOK ==
    /\ graph \in Graphs
    /\ phase \in {"loop", "gather"} \cup Ended
    /\ pending \subseteq Nodes
    /\ completed \subseteq Nodes
    /\ wave \subseteq Nodes
    /\ running \subseteq wave
    /\ outcome \in [Nodes -> {"none", "ok", "failed", "timed_out"}]
    /\ rank \in [Nodes -> Nat]
    /\ waves \in Nat
    /\ taken \subseteq Nodes \X Nodes
    /\ late \in BOOLEAN

Init ==
    /\ graph \in Graphs
    /\ phase = "loop"
    /\ pending = {graph.entry}
    /\ completed = {}
    /\ wave = {}
    /\ running = {}
    /\ outcome = [n \in Nodes |-> "none"]
    /\ rank = [n \in Nodes |-> 0]
    /\ waves = 0
    /\ taken = {}
    /\ late = FALSE

-----------------------------------------------------------------------------
(* The head of the loop.                                                   *)

\* _compute_parents: only static edges count.
Parents(n) == {m \in Nodes : <<m, n>> \in graph.static}

\* Faulty variant: one finished predecessor is enough.
Ready_AnyParent ==
    {n \in pending : Parents(n) = {} \/ Parents(n) \cap completed # {}}

Ready == {n \in pending : Parents(n) \subseteq completed}

Return ==
    /\ phase = "loop"
    /\ pending = {}
    /\ phase' = "done"
    /\ UNCHANGED <<graph, pending, completed, wave, running, outcome, rank, waves,
                   taken, late>>

RaiseTimeout ==
    /\ phase = "loop"
    /\ pending # {}
    /\ late
    /\ phase' = "overdue"
    /\ UNCHANGED <<graph, pending, completed, wave, running, outcome, rank, waves,
                   taken, late>>

RaiseStalled ==
    /\ phase = "loop"
    /\ pending # {}
    /\ ~late
    /\ Ready = {}
    /\ phase' = "stalled"
    /\ UNCHANGED <<graph, pending, completed, wave, running, outcome, rank, waves,
                   taken, late>>

\* Every ready node starts.  A name that was never added raises KeyError out of
\* gather(), which ends execute() but does not cancel the other nodes.
LaunchWave ==
    /\ phase = "loop"
    /\ ~late
    /\ Ready # {}
    /\ phase' = IF Ready \subseteq graph.added THEN "gather" ELSE "key_error"
    /\ wave' = Ready
    /\ running' = Ready \cap graph.added
    /\ waves' = waves + 1
    /\ rank' = [n \in Nodes |-> IF n \in Ready THEN waves + 1 ELSE rank[n]]
    /\ UNCHANGED <<graph, pending, completed, outcome, taken, late>>

-----------------------------------------------------------------------------
(* The nodes of a wave, and the bookkeeping after it.                      *)

\* Faulty variant: the hard timeout only warns, like the soft one.
Finish_SoftOnly(n, result) ==
    /\ n \in running
    /\ result # "timed_out"
    /\ running' = running \ {n}
    /\ outcome' = [outcome EXCEPT ![n] = result]
    /\ UNCHANGED <<graph, phase, pending, completed, wave, rank, waves, taken, late>>

\* _run_one: a node returns, raises, or is cut off by its hard SLA; with_sla_timeout
\* turns each of the three into a NodeResult.
Finish(n, result) ==
    /\ n \in running
    /\ result = "timed_out" => n \in Bounded
    /\ running' = running \ {n}
    /\ outcome' = [outcome EXCEPT ![n] = result]
    /\ UNCHANGED <<graph, phase, pending, completed, wave, rank, waves, taken, late>>

\* graph.successors of every node of the wave: its static edges and the conditional
\* ones its condition picked.
Followed(chosen) == chosen \cup {e \in graph.static : e[1] \in wave}

\* What is added to pending.  The code goes result by result; whatever their order,
\* a member of the wave ends up completed and not pending.
Queued(edges) == {e[2] : e \in edges} \ (completed \cup wave)

\* Failed and timed-out nodes complete like the others.
Completing == wave

\* The loop body after gather().
Collect ==
    /\ phase = "gather"
    /\ running = {}
    /\ \E chosen \in SUBSET {e \in graph.cond : e[1] \in wave} :
         /\ taken' = taken \cup Followed(chosen)
         /\ pending' = (pending \ wave) \cup Queued(Followed(chosen))
    /\ completed' = completed \cup Completing
    /\ phase' = "loop"
    /\ UNCHANGED <<graph, wave, running, outcome, rank, waves, late>>

\* The overall deadline passes.
DeadlinePasses ==
    /\ phase \notin Ended
    /\ ~late
    /\ late' = TRUE
    /\ UNCHANGED <<graph, phase, pending, completed, wave, running, outcome, rank,
                   waves, taken>>

LoopHead == Return \/ RaiseTimeout \/ RaiseStalled \/ LaunchWave

Next ==
    \/ LoopHead
    \/ \E n \in Nodes, r \in {"ok", "failed", "timed_out"} : Finish(n, r)
    \/ Collect
    \/ DeadlinePasses

Spec == Init /\ [][Next]_vars

-----------------------------------------------------------------------------
(* Properties.                                                             *)

\* No node starts twice in a run, whatever cycles and conditional back edges the
\* graph has: agents are called, and advices appended, once per node.
RunsOnce ==
    [][\A n \in running' \ running : rank[n] = 0]_vars

\* runner.py:67, "the receiver runs only after all predecessors finish", for the
\* static edges, on any graph: a node that has started is in a later wave than each
\* of its static predecessors, cycles and conditional shortcuts notwithstanding.
FanIn ==
    \A n \in Nodes : rank[n] > 0 => \A m \in Parents(n) : m \in completed /\ rank[m] < rank[n]

\* Nodes reached from the entry along edges of E, by repeated steps.
ReachableBy(E) ==
    LET step[k \in Nat] ==
          IF k = 0 THEN {graph.entry}
          ELSE LET before == step[k-1]
               IN  before \cup {e[2] : e \in {f \in E : f[1] \in before}}
    IN  step[waves]

\* A run that returns has run every node that the followed edges and the static
\* ones reach from the entry, however many nodes failed on the way.
ReturnIsComplete ==
    phase = "done" =>
        /\ completed = ReachableBy(graph.static \cup taken)
        /\ \A n \in completed : outcome[n] # "none"

\* A graph built the way the repository's DAGs are: its edges are static, lead from
\* added nodes to added nodes reachable from the entry, and have no cycle.
HasCycle(E) ==
    \E S \in (SUBSET {e[1] : e \in E}) \ {{}} : \A n \in S : \E m \in S : <<m, n>> \in E
WellFormed ==
    /\ graph.cond = {}
    /\ ~HasCycle(graph.static)
    /\ \A n \in Nodes \ {graph.entry} : Parents(n) # {} \/ n \notin graph.added
    /\ \A e \in graph.static : {e[1], e[2]} \subseteq graph.added
    /\ graph.entry \in graph.added

\* A well-formed graph neither stalls nor names an unknown node.
WellFormedNeverStalls == phase \in {"stalled", "key_error"} => ~WellFormed

\* A graph the static edges of which have a cycle reachable from the entry never
\* runs to the end: "cycles are rejected at run time".
CyclesRejected ==
    phase = "done" /\ graph.cond = {} => ~HasCycle({e \in graph.static : e[2] \in completed})

\* How a run ends follows from its graph alone, whatever fails in it.
EndFollowsGraph == ReturnIsComplete /\ WellFormedNeverStalls /\ CyclesRejected

\* Every run ends, on every graph, if each of its nodes does: by its SLA, or because
\* its call has a timeout.
Terminates == <>(phase \in Ended)
=============================================================================
