------------------------------ MODULE MCDagRunner ------------------------------
(* Model-checking instance of DagCatalogue: the DAGs of the repository with one    *)
(* persona node, and families of small graphs whose nodes do nothing.           *)
EXTENDS DagCatalogue

CONSTANTS n0, n1, n2, n3

Three == {n0, n1, n2}
Four  == {n0, n1, n2, n3}

NoSelfLoops(N) == {e \in N \X N : e[1] # e[2]}

\* Every graph of static edges, cycles included, with any nodes missing.
StaticGraphs ==
    [entry : {n0}, added : {S \in SUBSET Three : n0 \in S}, static : SUBSET NoSelfLoops(Three),
     cond : {{}}]

\* Static and conditional edges mixed, back edges included.
MixedGraphs ==
    [entry : {n0}, added : {Three},
     static : SUBSET {<<n0, n1>>, <<n0, n2>>, <<n1, n2>>},
     cond : SUBSET NoSelfLoops(Three)]

\* The shape of the morning brief: a fan-out and a fan-in, plus every other edge
\* a topological order of four nodes allows.
Order == <<n0, n1, n2, n3>>
LayeredGraphs ==
    [entry : {n0}, added : {Four},
     static : SUBSET {<<Order[e[1]], Order[e[2]]>> : e \in {f \in (1..4) \X (1..4) : f[1] < f[2]}},
     cond : {{}}]

AllGraphs == StaticGraphs \cup MixedGraphs \cup LayeredGraphs \cup Catalogue

AllNodes == Four \cup UNION {g.added : g \in Catalogue}

\* Nodes with a hard SLA: those of the small graphs, and of the DAGs all that neither
\* notify nor serve an event.
SlaNodes == AllNodes \ (Catching \cup {"n_route", "n_notify_fill", "n_runbook_hint"})
=============================================================================
