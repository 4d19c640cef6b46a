---------------------------- MODULE DagRunnerProofs ----------------------------
(***************************************************************************)
(* Proofs about DagRunner for every set of nodes and every graph, and      *)
(* about the DAGs of the repository that run on it (DagCatalogue), for     *)
(* every set of personas.                                                  *)
(***************************************************************************)
EXTENDS DagCatalogue, WellFoundedInduction, TLAPS

\* Why no node starts twice: what is pending has not completed, and a node that was
\* given a wave number has completed or belongs to the wave that is running.
OnceInv ==
    /\ pending \cap completed = {}
    /\ phase = "gather" => wave \subseteq pending
    /\ phase = "loop" => \A n \in Nodes : rank[n] > 0 => n \in completed
    /\ phase = "gather" => \A n \in Nodes : rank[n] > 0 => n \in completed \cup wave

\* Why fan-in holds along static edges: a node that has started has all its static
\* parents among the completed nodes, in earlier waves.
FanInv ==
    /\ \A n \in Nodes : rank[n] <= waves
    /\ \A m, n \in Nodes : <<m, n>> \in graph.static /\ rank[n] > 0 =>
          m \in completed /\ rank[m] < rank[n]

\* Every state of a run is well typed.
THEOREM DagTypeCorrect == Spec => []TypeOK
<1> USE DagAssumption DEF DagAssumption, TypeOK, Ended
<1>1. Init => TypeOK
  <2> SUFFICES ASSUME Init PROVE TypeOK
    OBVIOUS
  <2>1. late \in BOOLEAN
    BY DEF Init
  <2>2. rank \in [Nodes -> Nat] /\ waves \in Nat
    BY DEF Init
  <2> QED
    BY <2>1, <2>2 DEF Init
<1>2. TypeOK /\ [Next]_vars => TypeOK'
  <2> SUFFICES ASSUME TypeOK, [Next]_vars PROVE TypeOK'
    OBVIOUS
  <2>1. CASE Return
    BY <2>1 DEF Return
  <2>2. CASE RaiseTimeout
    BY <2>2 DEF RaiseTimeout
  <2>3. CASE RaiseStalled
    BY <2>3 DEF RaiseStalled
  <2>4. CASE LaunchWave
    <3>1. rank' \in [Nodes -> Nat] /\ waves' \in Nat
      BY <2>4 DEF LaunchWave
    <3>2. wave' \subseteq Nodes /\ running' \subseteq wave'
      BY <2>4 DEF LaunchWave, Ready
    <3>3. phase' \in {"gather", "key_error"}
      BY <2>4 DEF LaunchWave
    <3> QED
      BY <2>4, <3>1, <3>2, <3>3 DEF LaunchWave
  <2>5. ASSUME NEW n \in Nodes, NEW r \in {"ok", "failed", "timed_out"}, Finish(n, r)
        PROVE  TypeOK'
    BY <2>5 DEF Finish
  <2>6. CASE Collect
    <3>1. PICK chosen \in SUBSET {e \in graph.cond : e[1] \in wave} :
             /\ taken' = taken \cup Followed(chosen)
             /\ pending' = (pending \ wave) \cup Queued(Followed(chosen))
      BY <2>6 DEF Collect
    <3>2. Followed(chosen) \subseteq Nodes \X Nodes
      BY DEF Followed
    <3>3. Queued(Followed(chosen)) \subseteq Nodes
      BY <3>2 DEF Queued
    <3> QED
      BY <2>6, <3>1, <3>2, <3>3 DEF Collect, Completing
  <2>7. CASE DeadlinePasses
    BY <2>7 DEF DeadlinePasses
  <2>8. CASE UNCHANGED vars
    BY <2>8 DEF vars
  <2> QED
    BY <2>1, <2>2, <2>3, <2>4, <2>5, <2>6, <2>7, <2>8 DEF Next, LoopHead
<1> QED
  BY <1>1, <1>2, PTL DEF Spec

\* OnceInv is inductive.
LEMMA OnceInvHolds == Spec => []OnceInv
<1>1. Init => OnceInv
  BY DagAssumption DEF DagAssumption, Init, OnceInv
<1>2. TypeOK /\ OnceInv /\ [Next]_vars => OnceInv'
  <2> USE DEF TypeOK, OnceInv
  <2> SUFFICES ASSUME TypeOK, OnceInv, [Next]_vars PROVE OnceInv'
    OBVIOUS
  <2>1. CASE Return \/ RaiseTimeout \/ RaiseStalled
    BY <2>1 DEF Return, RaiseTimeout, RaiseStalled
  <2>2. CASE LaunchWave
    BY <2>2 DEF LaunchWave, Ready
  <2>3. ASSUME NEW n \in Nodes, NEW r \in {"ok", "failed", "timed_out"}, Finish(n, r)
        PROVE  OnceInv'
    BY <2>3 DEF Finish
  <2>4. CASE Collect
    BY <2>4 DEF Collect, Queued, Completing
  <2>5. CASE DeadlinePasses \/ UNCHANGED vars
    BY <2>5 DEF DeadlinePasses, vars
  <2> QED
    BY <2>1, <2>2, <2>3, <2>4, <2>5 DEF Next, LoopHead
<1> QED
  BY <1>1, <1>2, DagTypeCorrect, PTL DEF Spec

\* execute() starts no node a second time, whatever the graph: the agents behind the
\* nodes are called once per run.
THEOREM NodesRunOnce == Spec => RunsOnce
<1>1. TypeOK /\ OnceInv /\ [Next]_vars
        => [\A n \in running' \ running : rank[n] = 0]_vars
  <2> SUFFICES ASSUME TypeOK, OnceInv, Next, NEW n \in running' \ running
               PROVE  rank[n] = 0
    BY DEF vars
  <2>1. CASE LaunchWave
    <3>1. n \in pending /\ n \in Nodes /\ phase = "loop"
      BY <2>1 DEF LaunchWave, Ready, TypeOK
    <3>2. ~(rank[n] > 0)
      BY <3>1 DEF OnceInv
    <3> QED
      BY <3>1, <3>2 DEF TypeOK
  <2>2. CASE Return \/ RaiseTimeout \/ RaiseStalled \/ Collect \/ DeadlinePasses
    BY <2>2 DEF Return, RaiseTimeout, RaiseStalled, Collect, DeadlinePasses
  <2>3. ASSUME NEW m \in Nodes, NEW r \in {"ok", "failed", "timed_out"}, Finish(m, r)
        PROVE  FALSE
    BY <2>3 DEF Finish
  <2> QED
    BY <2>1, <2>2, <2>3 DEF Next, LoopHead
<1> QED
  BY <1>1, DagTypeCorrect, OnceInvHolds, PTL DEF Spec, RunsOnce

\* FanInv is inductive.
LEMMA FanInvHolds == Spec => []FanInv
<1>1. Init => FanInv
  BY DagAssumption DEF DagAssumption, Init, FanInv
<1>2. TypeOK /\ OnceInv /\ FanInv /\ [Next]_vars => FanInv'
  <2> SUFFICES ASSUME TypeOK, OnceInv, FanInv, [Next]_vars PROVE FanInv'
    OBVIOUS
  <2> USE DEF TypeOK, FanInv
  <2>1. CASE Return \/ RaiseTimeout \/ RaiseStalled
    BY <2>1 DEF Return, RaiseTimeout, RaiseStalled
  <2>2. CASE LaunchWave
    <3> USE <2>2 DEF LaunchWave
    <3>1. \A n \in Nodes : rank'[n] <= waves'
      OBVIOUS
    <3>2. ASSUME NEW m \in Nodes, NEW n \in Nodes, <<m, n>> \in graph.static, rank'[n] > 0
          PROVE  m \in completed /\ rank'[m] < rank'[n]
      <4>1. m \in completed
        BY <3>2 DEF Ready, Parents
      <4>2. m \notin Ready
        BY <4>1 DEF Ready, OnceInv
      <4>3. rank'[m] = rank[m]
        BY <4>2
      <4>4. CASE n \in Ready
        <5>1. rank'[n] = waves + 1
          BY <4>4
        <5> QED
          BY <4>1, <4>3, <5>1
      <4>5. CASE n \notin Ready
        <5>1. rank'[n] = rank[n]
          BY <4>5
        <5> QED
          BY <4>3, <5>1, <3>2
      <4> QED
        BY <4>1, <4>4, <4>5
    <3> QED
      BY <3>1, <3>2
  <2>3. ASSUME NEW n \in Nodes, NEW r \in {"ok", "failed", "timed_out"}, Finish(n, r)
        PROVE  FanInv'
    BY <2>3 DEF Finish
  <2>4. CASE Collect
    BY <2>4 DEF Collect, Followed, Completing
  <2>5. CASE DeadlinePasses \/ UNCHANGED vars
    BY <2>5 DEF DeadlinePasses, vars
  <2> QED
    BY <2>1, <2>2, <2>3, <2>4, <2>5 DEF Next, LoopHead
<1> QED
  BY <1>1, <1>2, DagTypeCorrect, OnceInvHolds, PTL DEF Spec

\* On every graph, a node runs in a later wave than all its static predecessors.
THEOREM StaticFanIn == Spec => []FanIn
<1>1. TypeOK /\ FanInv => FanIn
  BY DEF TypeOK, FanInv, FanIn, Parents
<1> QED
  BY <1>1, DagTypeCorrect, FanInvHolds, PTL

-----------------------------------------------------------------------------
(* How a run ends.                                                         *)

\* Why the end of a run follows from its graph: what a completed node leads to is not
\* forgotten, nothing is pending or completed without a completed predecessor of an
\* earlier wave, and what stopped the run is still there to be seen.
Ends ==
    /\ phase = "done" => pending = {}
    /\ phase = "stalled" => pending # {} /\ Ready = {}
    /\ phase = "key_error" => ~(pending \subseteq graph.added)

Followings ==
    /\ graph.entry \in completed \cup pending
    /\ taken \subseteq graph.static \cup graph.cond
    /\ \A m, n \in Nodes : <<m, n>> \in taken => m \in completed
    /\ \A m, n \in Nodes : <<m, n>> \in graph.static \cup taken /\ m \in completed
          => n \in completed \cup pending

Caused(n) ==
    \/ n = graph.entry
    \/ \E m \in completed : /\ <<m, n>> \in graph.static \cup taken
                            /\ rank[n] > 0 => rank[m] < rank[n]

Settled ==
    /\ \A n \in completed : rank[n] > 0 /\ outcome[n] # "none"
    /\ phase = "gather" => \A n \in wave : rank[n] > 0 /\ (n \in running \/ outcome[n] # "none")

EndInv == Ends /\ Followings /\ (\A n \in completed \cup pending : Caused(n)) /\ Settled

LEMMA CollectKeepsEnd ==
    ASSUME TypeOK, OnceInv, FanInv, EndInv, Collect PROVE EndInv'
<1> USE DEF TypeOK, EndInv
<1>1. PICK chosen \in SUBSET {e \in graph.cond : e[1] \in wave} :
        /\ taken' = taken \cup Followed(chosen)
        /\ pending' = (pending \ wave) \cup Queued(Followed(chosen))
  BY DEF Collect
<1>2. /\ phase = "gather" /\ phase' = "loop" /\ running = {} /\ completed' = completed \cup wave
      /\ UNCHANGED <<graph, wave, running, outcome, rank, waves, late>>
  BY DEF Collect, Completing
<1>3. /\ graph.static \subseteq Nodes \X Nodes /\ graph.cond \subseteq Nodes \X Nodes
      /\ graph.entry \in Nodes
  BY DagAssumption DEF DagAssumption
<1>4. Followed(chosen) \subseteq (graph.static \cup graph.cond)
  BY DEF Followed
<1>5. \A m, n \in Nodes : <<m, n>> \in Followed(chosen) => m \in wave
  BY <1>3 DEF Followed
<1>6. \A m, n \in Nodes : <<m, n>> \in graph.static /\ m \in wave => <<m, n>> \in Followed(chosen)
  BY DEF Followed
<1>7. \A m, n \in Nodes : <<m, n>> \in Followed(chosen) => n \in completed' \cup pending'
  BY <1>1, <1>2 DEF Queued
<1>8. pending \subseteq completed' \cup pending'
  BY <1>1, <1>2
<1>9. wave \subseteq pending
  BY <1>2 DEF OnceInv
<1>10. Ends'
  BY <1>2 DEF Ends
<1>11. Followings'
  <2>1. graph'.entry \in completed' \cup pending' /\ taken' \subseteq graph'.static \cup graph'.cond
    BY <1>1, <1>2, <1>4, <1>8 DEF Followings
  <2>2. ASSUME NEW m \in Nodes, NEW n \in Nodes, <<m, n>> \in graph.static \cup taken', m \in completed'
        PROVE  n \in completed' \cup pending'
    <3>1. CASE <<m, n>> \in Followed(chosen)
      BY <3>1, <1>7
    <3>2. CASE <<m, n>> \notin Followed(chosen)
      <4>1. <<m, n>> \in graph.static \cup taken
        BY <2>2, <3>2, <1>1
      <4>2. CASE m \in completed
        BY <4>1, <4>2, <1>2, <1>8 DEF Followings
      <4>3. CASE m \in wave
        <5>1. m \notin completed
          BY <4>3, <1>9 DEF OnceInv
        <5> QED
          BY <4>1, <4>3, <5>1, <3>2, <1>6 DEF Followings
      <4> QED
        BY <2>2, <1>2, <4>2, <4>3
    <3> QED
      BY <3>1, <3>2
  <2>3. ASSUME NEW m \in Nodes, NEW n \in Nodes, <<m, n>> \in taken' PROVE m \in completed'
    BY <2>3, <1>1, <1>2, <1>5 DEF Followings
  <2> QED
    BY <1>2, <2>1, <2>2, <2>3 DEF Followings
<1>12. ASSUME NEW n \in completed' \cup pending' PROVE Caused(n)'
  <2>1. CASE n \in completed \cup pending
    <3>1. Caused(n)
      BY <2>1
    <3>2. taken \subseteq taken' /\ completed \subseteq completed'
      BY <1>1, <1>2
    <3> QED
      BY <3>1, <3>2, <1>2 DEF Caused
  <2>2. CASE n \notin completed \cup pending
    <3>1. n \in Queued(Followed(chosen))
      BY <2>2, <1>1, <1>2, <1>9, <1>12
    <3>2. PICK e \in Followed(chosen) : n = e[2]
      BY <3>1 DEF Queued
    <3>3. e \in Nodes \X Nodes
      BY <3>2, <1>3, <1>4
    <3>4. e = <<e[1], n>> /\ e[1] \in Nodes /\ n \in Nodes
      BY <3>2, <3>3
    <3>5. e[1] \in completed'
      BY <1>2, <1>5, <3>2, <3>4
    <3>6. ~(rank[n] > 0)
      BY <1>2, <1>9, <2>2, <3>4 DEF OnceInv
    <3>7. <<e[1], n>> \in graph.static \cup taken'
      BY <3>2, <3>4, <1>1
    <3> QED
      BY <1>2, <3>5, <3>6, <3>7 DEF Caused
  <2> QED
    BY <2>1, <2>2
<1>13. Settled'
  BY <1>2 DEF Settled
<1> QED
  BY <1>10, <1>11, <1>12, <1>13

LEMMA LaunchKeepsEnd ==
    ASSUME TypeOK, OnceInv, FanInv, EndInv, LaunchWave PROVE EndInv'
<1> USE DEF TypeOK, EndInv
<1>1. /\ phase = "loop" /\ phase' = IF Ready \subseteq graph.added THEN "gather" ELSE "key_error"
      /\ wave' = Ready /\ running' = Ready \cap graph.added /\ waves' = waves + 1
      /\ UNCHANGED <<graph, pending, completed, outcome, taken, late>>
  BY DEF LaunchWave
<1>2. \A n \in Nodes : rank'[n] = IF n \in Ready THEN waves + 1 ELSE rank[n]
  BY DEF LaunchWave
<1>3. Ready \subseteq pending /\ pending \cap completed = {}
  BY DEF Ready, OnceInv
<1>4. Ends'
  BY <1>1, <1>3 DEF Ends
<1>5. Followings'
  BY <1>1 DEF Followings
<1>6. ASSUME NEW n \in completed' \cup pending' PROVE Caused(n)'
  <2>1. Caused(n) /\ n \in Nodes
    BY <1>1
  <2>2. CASE n = graph.entry
    BY <2>2, <1>1 DEF Caused
  <2>3. CASE n # graph.entry
    <3>1. PICK m \in completed : <<m, n>> \in graph.static \cup taken /\ (rank[n] > 0 => rank[m] < rank[n])
      BY <2>1, <2>3 DEF Caused
    <3>2. rank'[m] = rank[m] /\ rank[m] < waves + 1
      BY <1>2, <1>3 DEF FanInv
    <3>3. rank'[n] > 0 => rank'[m] < rank'[n]
      BY <1>2, <2>1, <3>1, <3>2
    <3> QED
      BY <1>1, <3>1, <3>3 DEF Caused
  <2> QED
    BY <2>2, <2>3
<1>7. Settled'
  BY <1>1, <1>2, <1>3 DEF Settled
<1> QED
  BY <1>1, <1>4, <1>5, <1>6, <1>7

LEMMA EndInvHolds == Spec => []EndInv
<1>1. Init => EndInv
  BY DagAssumption DEF DagAssumption, Init, EndInv, Ends, Followings, Caused, Settled
<1>2. TypeOK /\ OnceInv /\ FanInv /\ EndInv /\ [Next]_vars => EndInv'
  <2> SUFFICES ASSUME TypeOK, OnceInv, FanInv, EndInv, [Next]_vars PROVE EndInv'
    OBVIOUS
  <2>1. CASE Return \/ RaiseTimeout \/ RaiseStalled
    <3>1. UNCHANGED <<graph, pending, completed, wave, running, outcome, rank, waves, taken>>
      BY <2>1 DEF Return, RaiseTimeout, RaiseStalled
    <3>2. /\ phase' \in {"done", "overdue", "stalled"}
          /\ phase' = "done" => pending = {}
          /\ phase' = "stalled" => pending # {} /\ Ready = {}
      BY <2>1 DEF Return, RaiseTimeout, RaiseStalled
    <3> QED
      BY <3>1, <3>2 DEF EndInv, Ends, Followings, Caused, Settled, Ready, Parents
  <2>2. CASE LaunchWave
    BY <2>2, LaunchKeepsEnd
  <2>3. ASSUME NEW n \in Nodes, NEW r \in {"ok", "failed", "timed_out"}, Finish(n, r)
        PROVE  EndInv'
    <3>1. /\ UNCHANGED <<graph, phase, pending, completed, wave, rank, waves, taken, late>>
          /\ running' = running \ {n} /\ outcome' = [outcome EXCEPT ![n] = r]
      BY <2>3 DEF Finish
    <3>2. \A m \in Nodes : outcome'[m] = IF m = n THEN r ELSE outcome[m]
      BY <3>1 DEF TypeOK
    <3>3. Settled'
      BY <3>1, <3>2 DEF EndInv, Settled, TypeOK
    <3> QED
      BY <3>1, <3>3 DEF EndInv, Ends, Followings, Caused, Ready, Parents
  <2>4. CASE Collect
    BY <2>4, CollectKeepsEnd
  <2>5. CASE DeadlinePasses \/ UNCHANGED vars
    <3>1. UNCHANGED <<graph, phase, pending, completed, wave, running, outcome, rank, waves, taken>>
      BY <2>5 DEF DeadlinePasses, vars
    <3> QED
      BY <3>1 DEF EndInv, Ends, Followings, Caused, Settled, Ready, Parents
  <2> QED
    BY <2>1, <2>2, <2>3, <2>4, <2>5 DEF Next, LoopHead
<1> QED
  BY <1>1, <1>2, DagTypeCorrect, OnceInvHolds, FanInvHolds, PTL DEF Spec

\* What is reached from a node along edges of E in k steps, told by the paths.
Paths(first, E, k) ==
    {p \in [0..k -> Nodes] :
        /\ p[0] = first
        /\ \A i \in 1..k : p[i] = p[i-1] \/ <<p[i-1], p[i]>> \in E}
Reached(first, E, k) == {n \in Nodes : \E p \in Paths(first, E, k) : p[k] = n}

LEMMA ReachedAtOnce ==
    ASSUME NEW first \in Nodes, NEW E PROVE Reached(first, E, 0) = {first}
<1>1. [i \in 0..0 |-> first] \in Paths(first, E, 0)
  BY DEF Paths
<1>2. ASSUME NEW p \in Paths(first, E, 0) PROVE p[0] = first
  BY DEF Paths
<1> QED
  BY <1>1, <1>2 DEF Reached

LEMMA ReachedByAStep ==
    ASSUME NEW first \in Nodes, NEW E, E \subseteq Nodes \X Nodes, NEW k \in Nat \ {0}
    PROVE  Reached(first, E, k) =
             Reached(first, E, k-1) \cup {e[2] : e \in {f \in E : f[1] \in Reached(first, E, k-1)}}
<1> DEFINE more == {e[2] : e \in {f \in E : f[1] \in Reached(first, E, k-1)}}
<1>1. ASSUME NEW n \in Reached(first, E, k) PROVE n \in Reached(first, E, k-1) \cup more
  <2>1. PICK p \in Paths(first, E, k) : p[k] = n
    BY DEF Reached
  <2> DEFINE q == [i \in 0..(k-1) |-> p[i]]
  <2>2. q \in Paths(first, E, k-1)
    BY <2>1 DEF Paths
  <2>3. q[k-1] = p[k-1] /\ p[k-1] \in Nodes
    BY <2>1 DEF Paths
  <2>4. p[k-1] \in Reached(first, E, k-1)
    BY <2>2, <2>3 DEF Reached
  <2>5. n = p[k-1] \/ <<p[k-1], n>> \in E
    BY <2>1 DEF Paths
  <2> QED
    BY <2>4, <2>5
<1>2. ASSUME NEW m \in Reached(first, E, k-1), NEW n \in Nodes, n = m \/ <<m, n>> \in E
      PROVE  n \in Reached(first, E, k)
  <2>1. PICK p \in Paths(first, E, k-1) : p[k-1] = m
    BY DEF Reached
  <2> DEFINE q == [i \in 0..k |-> IF i = k THEN n ELSE p[i]]
  <2>2. p \in [0..(k-1) -> Nodes] /\ p[0] = first
    BY DEF Paths
  <2>3. q \in [0..k -> Nodes] /\ q[0] = first /\ q[k] = n
    BY <2>2
  <2>4. ASSUME NEW i \in 1..k PROVE q[i] = q[i-1] \/ <<q[i-1], q[i]>> \in E
    <3>1. i \in 0..k /\ i-1 \in 0..k /\ i-1 # k /\ (i # k => i \in 1..(k-1))
      OBVIOUS
    <3>2. q[i-1] = p[i-1] /\ q[i] = IF i = k THEN n ELSE p[i]
      BY <3>1
    <3>3. CASE i = k
      BY <2>1, <1>2, <3>2, <3>3
    <3>4. CASE i # k
      <4>1. p[i] = p[i-1] \/ <<p[i-1], p[i]>> \in E
        BY <3>1, <3>4 DEF Paths
      <4> QED
        BY <3>2, <3>4, <4>1
    <3> QED
      BY <3>3, <3>4
  <2>5. q \in Paths(first, E, k)
    BY <2>3, <2>4 DEF Paths
  <2> QED
    BY <2>3, <2>5 DEF Reached
<1>3. Reached(first, E, k-1) \subseteq Nodes /\ more \subseteq Nodes
  BY DEF Reached
<1>4. ASSUME NEW n \in more PROVE \E m \in Reached(first, E, k-1) : <<m, n>> \in E
  OBVIOUS
<1> QED
  BY <1>1, <1>2, <1>3, <1>4

\* The recursion of ReachableBy computes it.
LEMMA ReachableIsReached ==
    ASSUME NEW E, E \subseteq Nodes \X Nodes, graph.entry \in Nodes, waves \in Nat
    PROVE  ReachableBy(E) = Reached(graph.entry, E, waves)
<1> DEFINE W == [k \in Nat |-> Reached(graph.entry, E, k)]
           step[k \in Nat] ==
             IF k = 0 THEN {graph.entry}
             ELSE LET before == step[k-1]
                  IN  before \cup {e[2] : e \in {f \in E : f[1] \in before}}
           Rec(s) == s = [k \in Nat |->
             IF k = 0 THEN {graph.entry}
             ELSE s[k-1] \cup {e[2] : e \in {f \in E : f[1] \in s[k-1]}}]
<1>1. Rec(W)
  <2>1. ASSUME NEW k \in Nat
        PROVE  W[k] = IF k = 0 THEN {graph.entry}
                      ELSE W[k-1] \cup {e[2] : e \in {f \in E : f[1] \in W[k-1]}}
    <3>1. CASE k = 0
      BY <3>1, ReachedAtOnce
    <3>2. CASE k # 0
      <4>1. k \in Nat \ {0} /\ k - 1 \in Nat
        BY <3>2
      <4>2. W[k] = Reached(graph.entry, E, k) /\ W[k-1] = Reached(graph.entry, E, k-1)
        BY <4>1
      <4> QED
        BY <3>2, <4>1, <4>2, ReachedByAStep
    <3> QED
      BY <3>1, <3>2
  <2> HIDE DEF W
  <2>2. W = [k \in Nat |-> W[k]]
    BY DEF W
  <2> QED
    BY <2>1, <2>2
<1>2. step = CHOOSE s : Rec(s)
  OBVIOUS
<1>3. Rec(step)
  <2> HIDE DEF W, Rec, step
  <2> QED
    BY <1>1, <1>2
<1>4. \A k \in Nat : step[k] = IF k = 0 THEN {graph.entry}
                     ELSE step[k-1] \cup {e[2] : e \in {f \in E : f[1] \in step[k-1]}}
  <2> HIDE DEF step
  <2> QED
    BY <1>3
<1>5. \A k \in Nat : W[k] = IF k = 0 THEN {graph.entry}
                     ELSE W[k-1] \cup {e[2] : e \in {f \in E : f[1] \in W[k-1]}}
  <2> HIDE DEF W
  <2> QED
    BY <1>1
<1>6. ReachableBy(E) = step[waves]
  BY DEF ReachableBy
<1> HIDE DEF W, step
<1>7. \A k \in Nat : step[k] = W[k]
  <2> DEFINE T == {k \in Nat : step[k] # W[k]}
  <2> SUFFICES ASSUME T # {} PROVE FALSE
    OBVIOUS
  <2>1. PICK k \in T : \A j \in T : ~(<<j, k>> \in OpToRel(<, Nat))
    BY NatLessThanWellFounded, WFMin
  <2>2. k \in Nat /\ step[k] # W[k] /\ \A j \in Nat : j < k => step[j] = W[j]
    BY <2>1 DEF OpToRel
  <2>3. CASE k = 0
    BY <2>2, <2>3, <1>4, <1>5
  <2>4. CASE k # 0
    <3>1. k - 1 \in Nat /\ step[k-1] = W[k-1]
      BY <2>2, <2>4
    <3>2. step[k] = step[k-1] \cup {e[2] : e \in {f \in E : f[1] \in step[k-1]}}
      BY <1>4, <2>2, <2>4
    <3>3. W[k] = W[k-1] \cup {e[2] : e \in {f \in E : f[1] \in W[k-1]}}
      BY <1>5, <2>2, <2>4
    <3>4. step[k] = W[k]
      BY <3>1, <3>2, <3>3, Zenon
    <3> QED
      BY <2>2, <3>4
  <2> QED
    BY <2>3, <2>4
<1>8. W[waves] = Reached(graph.entry, E, waves)
  BY DEF W
<1> QED
  BY <1>6, <1>7, <1>8

\* A run that returns has completed what its graph reaches from the entry, and nothing else.
LEMMA ReturnsComplete ==
    ASSUME TypeOK, FanInv, EndInv PROVE ReturnIsComplete
<1> SUFFICES ASSUME phase = "done"
             PROVE  /\ completed = ReachableBy(graph.static \cup taken)
                    /\ \A n \in completed : outcome[n] # "none"
  BY DEF ReturnIsComplete
<1> DEFINE E == graph.static \cup taken
<1>1. E \subseteq Nodes \X Nodes /\ graph.entry \in Nodes /\ waves \in Nat
  BY DagAssumption DEF DagAssumption, TypeOK
<1>2. pending = {} /\ completed \subseteq Nodes
  BY DEF EndInv, Ends, TypeOK
<1> HIDE DEF E
<1>3. ASSUME NEW n \in Reached(graph.entry, E, waves) PROVE n \in completed
  <2>1. PICK p \in Paths(graph.entry, E, waves) : p[waves] = n
    BY DEF Reached
  <2> DEFINE T == {i \in 0..waves : p[i] \notin completed}
  <2> SUFFICES ASSUME T # {} PROVE FALSE
    BY <1>1, <2>1
  <2>2. T \subseteq Nat
    BY <1>1
  <2>3. \E i \in 0..waves : p[i] \notin completed /\ \A j \in 0..waves : j < i => p[j] \in completed
    <3>1. PICK i \in T : \A j \in T : ~(<<j, i>> \in OpToRel(<, Nat))
      <4> HIDE DEF T
      <4> QED
        BY <2>2, NatLessThanWellFounded, WFMin
    <3>2. \A j \in T : ~(j < i)
      BY <2>2, <3>1 DEF OpToRel
    <3> QED
      BY <3>2
  <2> PICK i \in 0..waves : p[i] \notin completed /\ \A j \in 0..waves : j < i => p[j] \in completed
    BY <2>3
  <2>4. p \in [0..waves -> Nodes] /\ p[0] = graph.entry
    BY DEF Paths
  <2>5. CASE i = 0
    BY <2>4, <2>5, <1>2 DEF EndInv, Followings
  <2>6. CASE i # 0
    <3>1. i - 1 \in 0..waves /\ i - 1 < i /\ i \in 1..waves
      BY <2>6, <1>1
    <3>2. p[i-1] \in completed /\ p[i-1] \in Nodes /\ p[i] \in Nodes
      BY <2>4, <3>1
    <3>3. p[i] = p[i-1] \/ <<p[i-1], p[i]>> \in E
      BY <3>1 DEF Paths
    <3> QED
      BY <3>2, <3>3, <1>2 DEF EndInv, Followings, E
  <2> QED
    BY <2>5, <2>6
<1>4. ASSUME NEW n \in completed PROVE n \in Reached(graph.entry, E, waves)
  <2> DEFINE Far == {m \in completed : m \notin Reached(graph.entry, E, rank[m])}
             T   == {rank[m] : m \in Far}
  <2>1. rank \in [Nodes -> Nat]
    BY DEF TypeOK
  <2>2. Far = {}
    <3> SUFFICES ASSUME Far # {} PROVE FALSE
      OBVIOUS
    <3>0. T \subseteq Nat /\ T # {}
      BY <1>2, <2>1
    <3>1. PICK k \in T : \A j \in T : ~(<<j, k>> \in OpToRel(<, Nat))
      <4> HIDE DEF T
      <4> QED
        BY <3>0, NatLessThanWellFounded, WFMin
    <3>2. PICK m \in Far : rank[m] = k
      BY <3>1
    <3>3. \A x \in Far : ~(rank[x] < rank[m])
      BY <3>1, <3>2, <1>2, <2>1 DEF OpToRel
    <3>4. m \in completed /\ m \in Nodes /\ m \notin Reached(graph.entry, E, rank[m]) /\ rank[m] \in Nat \ {0}
      BY <3>2, <1>2, <2>1 DEF EndInv, Settled
    <3>5. CASE m = graph.entry
      <4>1. [i \in 0..rank[m] |-> m] \in Paths(graph.entry, E, rank[m])
        BY <3>4, <3>5 DEF Paths
      <4> QED
        BY <3>4, <4>1 DEF Reached
    <3>6. CASE m # graph.entry
      <4>1. PICK x \in completed : <<x, m>> \in E /\ rank[x] < rank[m]
        BY <3>4, <3>6 DEF EndInv, Caused, E
      <4>2. x \in Reached(graph.entry, E, rank[x]) /\ x \in Nodes /\ rank[x] \in Nat
        BY <3>3, <4>1, <1>2, <2>1
      <4>3. PICK p \in Paths(graph.entry, E, rank[x]) : p[rank[x]] = x
        BY <4>2 DEF Reached
      <4> DEFINE r == rank[m]  s == rank[x]
                 q == [i \in 0..r |-> IF i <= s THEN p[i] ELSE m]
      <4>4. p \in [0..s -> Nodes] /\ p[0] = graph.entry /\ p[s] = x
        BY <4>3 DEF Paths
      <4>5. s \in Nat /\ r \in Nat /\ s < r /\ \A i \in 1..s : p[i] = p[i-1] \/ <<p[i-1], p[i]>> \in E
        BY <3>4, <4>1, <4>2 DEF Paths
      <4> HIDE DEF r, s
      <4>6. q \in [0..r -> Nodes] /\ q[0] = graph.entry /\ q[r] = m
        BY <3>4, <4>4, <4>5
      <4>7. ASSUME NEW i \in 1..r PROVE q[i] = q[i-1] \/ <<q[i-1], q[i]>> \in E
        <5>1. CASE i <= s
          BY <4>5, <5>1
        <5>2. CASE i = s + 1
          <6>1. q[i] = m /\ q[i-1] = p[s]
            BY <4>5, <5>2
          <6> QED
            BY <6>1, <4>1, <4>4
        <5>3. CASE i > s + 1
          BY <4>5, <5>3
        <5> QED
          BY <4>5, <5>1, <5>2, <5>3
      <4>8. q \in Paths(graph.entry, E, r)
        BY <4>6, <4>7 DEF Paths
      <4> QED
        BY <3>4, <4>6, <4>8 DEF Reached, r
    <3> QED
      BY <3>5, <3>6
  <2>3. PICK p \in Paths(graph.entry, E, rank[n]) : p[rank[n]] = n
    BY <2>2 DEF Reached
  <2> DEFINE r == rank[n]
             q == [i \in 0..waves |-> IF i <= r THEN p[i] ELSE n]
  <2>4. r \in Nat /\ r <= waves /\ n \in Nodes
    BY <1>2, <2>1 DEF FanInv
  <2>5. p \in [0..r -> Nodes] /\ p[0] = graph.entry /\ p[r] = n /\ \A i \in 1..r : p[i] = p[i-1] \/ <<p[i-1], p[i]>> \in E
    BY <2>3 DEF Paths
  <2> HIDE DEF r
  <2>6. q \in [0..waves -> Nodes] /\ q[0] = graph.entry /\ q[waves] = n
    BY <1>1, <2>4, <2>5
  <2>7. ASSUME NEW i \in 1..waves PROVE q[i] = q[i-1] \/ <<q[i-1], q[i]>> \in E
    <3>1. CASE i <= r
      BY <1>1, <2>4, <2>5, <3>1
    <3>2. CASE i > r
      BY <1>1, <2>4, <2>5, <3>2
    <3> QED
      BY <1>1, <2>4, <3>1, <3>2
  <2>8. q \in Paths(graph.entry, E, waves)
    BY <2>6, <2>7 DEF Paths
  <2> QED
    BY <2>4, <2>6, <2>8 DEF Reached
<1>5. ReachableBy(E) = Reached(graph.entry, E, waves)
  BY <1>1, ReachableIsReached
<1>6. Reached(graph.entry, E, waves) = completed
  BY <1>3, <1>4
<1> QED
  BY <1>5, <1>6 DEF E, EndInv, Settled

\* A well-formed graph stops for nothing but its end or its deadline: where no pending
\* node is ready, the nodes that wait for each other form a cycle.
LEMMA NeverStalls ==
    ASSUME TypeOK, OnceInv, EndInv PROVE WellFormedNeverStalls
<1> SUFFICES ASSUME phase \in {"stalled", "key_error"}, WellFormed PROVE FALSE
  BY DEF WellFormedNeverStalls
<1>1. /\ graph.static \subseteq Nodes \X Nodes /\ graph.entry \in Nodes
      /\ pending \subseteq Nodes /\ completed \subseteq Nodes
  BY DagAssumption DEF DagAssumption, TypeOK
<1>2. /\ graph.cond = {} /\ ~HasCycle(graph.static) /\ graph.entry \in graph.added
      /\ \A n \in Nodes \ {graph.entry} : Parents(n) # {} \/ n \notin graph.added
      /\ \A m, n \in Nodes : <<m, n>> \in graph.static => m \in graph.added /\ n \in graph.added
  <2>1. \A e \in graph.static : e[1] \in graph.added /\ e[2] \in graph.added
    BY DEF WellFormed
  <2>2. ASSUME NEW m \in Nodes, NEW n \in Nodes, <<m, n>> \in graph.static
        PROVE  m \in graph.added /\ n \in graph.added
    BY <2>1, <2>2
  <2> QED
    BY <2>2 DEF WellFormed
<1>3. taken \subseteq graph.static
  BY <1>2 DEF EndInv, Followings
<1>4. CASE phase = "key_error"
  <2>1. PICK n \in pending : n \notin graph.added
    BY <1>4 DEF EndInv, Ends
  <2>2. PICK m \in completed : <<m, n>> \in graph.static
    BY <1>2, <1>3, <2>1 DEF EndInv, Caused
  <2> QED
    BY <1>1, <1>2, <2>1, <2>2
<1>5. CASE phase = "stalled"
  <2>1. PICK n \in pending : n \notin Ready
    BY <1>5 DEF EndInv, Ends
  <2> DEFINE Open == Nodes \ completed
             S    == {m \in Open : \E k \in Open : <<m, k>> \in graph.static}
  <2>2. \A k \in pending : k \in Open /\ \E m \in Open : <<m, k>> \in graph.static
    <3> TAKE k \in pending
    <3>1. k \in Nodes /\ k \notin completed
      BY <1>1 DEF OnceInv
    <3>2. ~(Parents(k) \subseteq completed)
      BY <1>5 DEF EndInv, Ends, Ready
    <3> QED
      BY <3>1, <3>2 DEF Parents
  <2>3. S # {}
    BY <2>1, <2>2
  <2>4. ASSUME NEW m \in S PROVE \E k \in S : <<k, m>> \in graph.static
    <3>1. m \in Open /\ m \in Nodes /\ m \in graph.added
      BY <1>1, <1>2
    <3>2. CASE m \in pending
      BY <2>2, <3>1, <3>2
    <3>3. CASE m \notin pending
      <4>1. m # graph.entry
        BY <3>1, <3>3 DEF EndInv, Followings
      <4>2. PICK k \in Nodes : <<k, m>> \in graph.static
        BY <1>2, <3>1, <4>1 DEF Parents
      <4>3. k \notin completed
        BY <3>1, <3>3, <4>2 DEF EndInv, Followings
      <4> QED
        BY <3>1, <4>2, <4>3
    <3> QED
      BY <3>2, <3>3
  <2>5. S \in SUBSET {e[1] : e \in graph.static}
    <3>1. ASSUME NEW m \in S PROVE m \in {e[1] : e \in graph.static}
      <4>1. PICK k \in Open : <<m, k>> \in graph.static
        OBVIOUS
      <4>2. <<m, k>>[1] = m
        OBVIOUS
      <4> QED
        BY <4>1, <4>2
    <3> HIDE DEF S
    <3> QED
      BY <3>1
  <2> HIDE DEF S
  <2> QED
    BY <1>2, <2>3, <2>4, <2>5 DEF HasCycle
<1> QED
  BY <1>4, <1>5

\* No static cycle is ever completed: its nodes would each have started in a later wave
\* than the next.
LEMMA CyclesEndNoRun ==
    ASSUME TypeOK, FanInv, EndInv PROVE CyclesRejected
<1> SUFFICES ASSUME HasCycle({e \in graph.static : e[2] \in completed}) PROVE FALSE
  BY DEF CyclesRejected
<1>1. PICK S \in (SUBSET {e[1] : e \in {f \in graph.static : f[2] \in completed}}) \ {{}} :
        \A n \in S : \E m \in S : <<m, n>> \in {e \in graph.static : e[2] \in completed}
  BY DEF HasCycle
<1>2. graph.static \subseteq Nodes \X Nodes /\ rank \in [Nodes -> Nat]
  BY DagAssumption DEF DagAssumption, TypeOK
<1>3. S # {} /\ S \subseteq Nodes
  <2>1. ASSUME NEW e \in graph.static PROVE e[1] \in Nodes
    BY <1>2
  <2>2. ASSUME NEW n \in S PROVE n \in Nodes
    <3>1. n \in {e[1] : e \in {f \in graph.static : f[2] \in completed}}
      BY <1>1
    <3>2. PICK e \in {f \in graph.static : f[2] \in completed} : n = e[1]
      BY <3>1
    <3> QED
      BY <2>1, <3>2
  <2>3. S # {}
    BY <1>1
  <2> QED
    BY <2>2, <2>3
<1>4. ASSUME NEW n \in S PROVE \E m \in S : rank[m] < rank[n]
  <2>1. PICK m \in S : <<m, n>> \in graph.static /\ n \in completed
    BY <1>1
  <2>2. rank[n] > 0
    BY <2>1 DEF EndInv, Settled
  <2> QED
    BY <1>3, <2>1, <2>2 DEF FanInv
<1> DEFINE T == {rank[n] : n \in S}
<1>5. T \subseteq Nat /\ T # {}
  BY <1>2, <1>3
<1>6. PICK k \in T : \A j \in T : ~(<<j, k>> \in OpToRel(<, Nat))
  <2> HIDE DEF T
  <2> QED
    BY <1>5, NatLessThanWellFounded, WFMin
<1>7. PICK n \in S : rank[n] = k
  BY <1>6
<1>8. PICK m \in S : rank[m] < rank[n]
  BY <1>4
<1> QED
  BY <1>2, <1>3, <1>6, <1>7, <1>8 DEF OpToRel

\* How a run ends follows from its graph, on every graph and whatever fails in it.
THEOREM EndsFollowGraph == Spec => []EndFollowsGraph
<1>1. TypeOK /\ OnceInv /\ FanInv /\ EndInv => EndFollowsGraph
  BY ReturnsComplete, NeverStalls, CyclesEndNoRun DEF EndFollowsGraph
<1> QED
  BY <1>1, DagTypeCorrect, OnceInvHolds, FanInvHolds, EndInvHolds, PTL
-----------------------------------------------------------------------------
(* The DAGs of the repository.                                             *)

\* What an end of a node may rely on: it runs while it is pending, has been given a wave
\* and has no result yet.
RunningInv ==
    /\ running \subseteq pending \cap graph.added
    /\ phase = "loop" => running = {}
    /\ \A n \in running : rank[n] > 0 /\ outcome[n] = "none"
    /\ \A n \in Nodes : rank[n] = 0 => outcome[n] = "none"

\* RunningInv is inductive.
LEMMA RunningInvHolds == Spec => []RunningInv
<1>1. Init => RunningInv
  BY DagAssumption DEF DagAssumption, Init, RunningInv
<1>2. TypeOK /\ OnceInv /\ RunningInv /\ [Next]_vars => RunningInv'
  <2> USE DEF TypeOK
  <2> SUFFICES ASSUME TypeOK, OnceInv, RunningInv, [Next]_vars PROVE RunningInv'
    OBVIOUS
  <2>1. CASE Return \/ RaiseTimeout \/ RaiseStalled
    BY <2>1 DEF Return, RaiseTimeout, RaiseStalled, RunningInv
  <2>2. CASE LaunchWave
    <3>1. \A n \in Ready : n \in pending /\ rank[n] = 0
      BY <2>2 DEF LaunchWave, Ready, OnceInv
    <3> QED
      BY <2>2, <3>1 DEF LaunchWave, RunningInv
  <2>3. ASSUME NEW n \in Nodes, NEW r \in {"ok", "failed", "timed_out"}, Finish(n, r)
        PROVE  RunningInv'
    BY <2>3 DEF Finish, RunningInv
  <2>4. CASE Collect
    BY <2>4 DEF Collect, RunningInv
  <2>5. CASE DeadlinePasses \/ UNCHANGED vars
    BY <2>5 DEF DeadlinePasses, vars, RunningInv
  <2> QED
    BY <2>1, <2>2, <2>3, <2>4, <2>5 DEF Next, LoopHead
<1> QED
  BY <1>1, <1>2, DagTypeCorrect, OnceInvHolds, PTL DEF Spec

\* A run of the catalogue is a run of the runner: what the nodes' functions do to the
\* shared state never changes which node runs when.
THEOREM CatalogueRunsDag == CatSpec => Spec
<1>1. CatInit => Init
  BY DEF CatInit
<1>2. [CatNext]_catVars => [Next]_vars
  <2> SUFFICES ASSUME [CatNext]_catVars PROVE [Next]_vars
    OBVIOUS
  <2>1. CASE RunnerStep
    BY <2>1 DEF RunnerStep, Next
  <2>2. ASSUME NEW n \in Nodes, NEW r \in {"ok", "failed", "timed_out"}, FinishNode(n, r)
        PROVE  Next
    BY <2>2 DEF FinishNode, Next
  <2>3. CASE UNCHANGED catVars
    BY <2>3 DEF catVars
  <2> QED
    BY <2>1, <2>2, <2>3 DEF CatNext
<1> QED
  BY <1>1, <1>2, PTL DEF CatSpec, Spec

\* The shared state, as far as the briefs depend on it.
Briefs ==
    {NoBrief} \cup [made : {TRUE}, advices : SUBSET Analysts,
                    digest : {"none", "stub", "real"}, numbers : BOOLEAN]
Ctx == [digest : {"none", "stub", "real"}, advices : SUBSET Analysts, numbers : BOOLEAN,
        changed : BOOLEAN, brief : Briefs, sent : SUBSET {"brief", "nothing", "alarm", "note"}]

\* What a node of the morning brief does to the shared state: only a node that is ok
\* writes, each writes its own part, and the brief is composed from what is there.
MorningEffect(n, r) ==
    /\ r # "ok" => ctx'.digest = ctx.digest /\ ctx'.advices = ctx.advices /\ ctx'.brief = ctx.brief
    /\ IF n = "n_intel_synth" THEN r = "ok" => ctx'.digest # "none" ELSE ctx'.digest = ctx.digest
    /\ ctx'.advices = ctx.advices \/ (n \in Analysts /\ ctx'.advices = ctx.advices \cup {n})
    /\ \/ ctx'.brief = ctx.brief
       \/ /\ n = "n_secretary_brief"
          /\ ctx'.brief \in {NoBrief, Composed(ctx.advices, ctx.digest, FALSE)}

\* The names of the nodes are distinct: no analyst is another node of the morning brief,
\* and the clauses of AgentOf and After do not overlap.
LEMMA NodesAreDistinct ==
    /\ Analysts \cap {"n_intel_synth", "n_secretary_brief", "n_deliver_brief", "n_intel_pulse",
                      "n_hourly_synth", "n_regime_check", "n_backtest_mtm", "n_eval_prompts",
                      "n_recap_brief", "n_recap_notify", "n_notify_if_changed",
                      "n_publish_leaderboard", "n_notify_fill", "n_runbook_hint"} = {}
    /\ Synths \cap Analysts = {} /\ Catching \cap Analysts = {} /\ Noting \cap Analysts = {}
  BY CatalogueAssumption
  DEF CatalogueAssumption, Analysts, Named, Synths, Catching, Noting

\* The functions of the morning brief's nodes.
LEMMA MorningNodes ==
    ASSUME ctx \in Ctx, NEW n \in Morning.added, NEW r \in {"ok", "failed", "timed_out"},
           Act(n, r)
    PROVE  ctx' \in Ctx /\ MorningEffect(n, r)
<1>1. CASE n = "n_deliver_brief"
  <2>1. Stored(n, r) = {} /\ n \in Catching
    BY <1>1 DEF Stored, Catching
  <2>2. ctx' \in {ctx, [ctx EXCEPT !.sent = @ \cup Message(n)]}
    BY <2>1 DEF Act
  <2>3. Message(n) \subseteq {"brief", "nothing"}
    BY <1>1 DEF Message
  <2>4. [ctx EXCEPT !.sent = @ \cup Message(n)] \in Ctx
    BY <2>3 DEF Ctx
  <2> QED
    BY <1>1, <2>2, <2>4 DEF MorningEffect, Ctx
<1>2. CASE n # "n_deliver_brief"
  <2>1. n \notin Catching /\ n \notin Noting
    BY <1>2, NodesAreDistinct DEF Morning, Catching, Noting
  <2>2. ctx' \in Stored(n, r) \/ (ctx' = ctx /\ r # "ok")
    BY <2>1 DEF Act
  <2>3. CASE ctx' = ctx /\ r # "ok"
    BY <2>3 DEF MorningEffect
  <2>4. CASE ctx' \in Stored(n, r)
    <3>0. r = "ok" /\ ctx' \in {After(n, a) : a \in Answers(n)}
      BY <2>4 DEF Stored
    <3>1. PICK a \in Answers(n) : r = "ok" /\ ctx' = After(n, a)
      BY <3>0
    <3>2. CASE n = "n_intel_synth"
      <4>1. n \in Synths /\ n \notin Analysts
        BY <3>2, NodesAreDistinct DEF Synths
      <4>2. ctx' = AfterSynth(a)
        BY <3>1, <3>2, <4>1 DEF After, Noting
      <4> QED
        BY <3>1, <3>2, <4>1, <4>2 DEF AfterSynth, Ctx, MorningEffect
    <3>3. CASE n \in Analysts
      <4>1. ctx' = AfterAnalyst(n, a)
        BY <3>1, <3>3, NodesAreDistinct DEF After
      <4>2. n # "n_intel_synth"
        BY <3>3, NodesAreDistinct
      <4> QED
        BY <3>1, <3>3, <4>1, <4>2 DEF AfterAnalyst, Ctx, MorningEffect
    <3>4. CASE n = "n_secretary_brief"
      <4>0. n \notin Synths /\ n \notin Analysts /\ n \notin Noting
        BY <3>4, NodesAreDistinct DEF Synths, Noting
      <4>1. ctx' = AfterBrief(a)
        BY <3>1, <3>4, <4>0 DEF After
      <4>2. Composed(ctx.advices, ctx.digest, FALSE) \in Briefs
        BY DEF Composed, Ctx, Briefs
      <4> QED
        BY <3>1, <3>4, <4>1, <4>2 DEF AfterBrief, Ctx, Briefs, MorningEffect
    <3> QED
      BY <1>2, <3>2, <3>3, <3>4 DEF Morning
  <2> QED
    BY <2>2, <2>3, <2>4
<1> QED
  BY <1>1, <1>2

\* Why a brief of the morning is complete: what has been stored comes from nodes that are
\* ok, and a brief shows the advices and the digest there are, none of which can change
\* once n_secretary_brief has been given a wave.
MorningInv ==
    graph = Morning =>
        /\ ctx \in Ctx
        /\ \A n \in ctx.advices : outcome[n] = "ok"
        /\ ctx.digest = "none" <=> outcome["n_intel_synth"] # "ok"
        /\ ctx.brief.made => /\ rank["n_secretary_brief"] > 0
                             /\ ctx.brief.advices = ctx.advices /\ ctx.brief.digest = ctx.digest

\* The nodes of the morning brief are nodes of the runner, and fan in.
LEMMA MorningFansIn ==
    ASSUME TypeOK, OnceInv, FanInv, EndInv, RunningInv, graph = Morning
    PROVE  /\ Morning.added \subseteq Nodes /\ Analysts \subseteq Morning.added
           /\ {"n_intel_synth", "n_secretary_brief"} \subseteq Morning.added
           /\ rank["n_secretary_brief"] > 0 =>
                /\ \A n \in Analysts : n \notin running /\ outcome[n] # "none"
                /\ "n_intel_synth" \notin running
<1>1. Morning.added \subseteq Nodes
  BY DagAssumption DEF DagAssumption, TypeOK
<1>2. /\ Analysts \subseteq Morning.added
      /\ {"n_intel_synth", "n_secretary_brief"} \subseteq Morning.added
  BY DEF Morning
<1>3. ASSUME rank["n_secretary_brief"] > 0
      PROVE  /\ \A n \in Analysts : n \notin running /\ outcome[n] # "none"
             /\ "n_intel_synth" \notin running
  <2>1. \A n \in Analysts : n \in completed
    <3> TAKE n \in Analysts
    <3>1. <<n, "n_secretary_brief">> \in graph.static
      BY DEF Morning
    <3> QED
      BY <1>1, <1>2, <1>3, <3>1 DEF FanInv
  <2>2. "n_intel_synth" \in completed
    <3>1. <<"n_intel_synth", "n_quant">> \in graph.static /\ "n_quant" \in Analysts
      BY DEF Morning, Analysts
    <3>2. rank["n_quant"] > 0
      BY <2>1, <3>1 DEF EndInv, Settled
    <3> QED
      BY <1>1, <1>2, <3>1, <3>2 DEF FanInv
  <2>3. running \cap completed = {}
    BY DEF OnceInv, RunningInv
  <2> QED
    BY <2>1, <2>2, <2>3 DEF EndInv, Settled
<1> QED
  BY <1>1, <1>2, <1>3

\* MorningInv is inductive, on the invariants of the runner.
LEMMA MorningInvHolds == CatSpec => []MorningInv
<1>1. CatInit => MorningInv
  <2> SUFFICES ASSUME CatInit, graph = Morning PROVE MorningInv
    BY DEF MorningInv
  <2>1. ctx \in Ctx
    BY DEF CatInit, Ctx, Briefs, NoBrief
  <2>2. "n_intel_synth" \in Nodes
    BY DagAssumption DEF DagAssumption, CatInit, Init, Morning
  <2> QED
    BY <2>1, <2>2 DEF CatInit, Init, MorningInv, NoBrief
<1>2. TypeOK /\ OnceInv /\ FanInv /\ EndInv /\ RunningInv /\ MorningInv /\ [CatNext]_catVars
        => MorningInv'
  <2> SUFFICES ASSUME TypeOK, OnceInv, FanInv, EndInv, RunningInv,
                      MorningInv, [CatNext]_catVars, graph' = Morning
               PROVE  MorningInv'
    BY DEF MorningInv
  <2>1. CASE RunnerStep
    <3>1. graph = Morning /\ ctx' = ctx /\ outcome' = outcome
      BY <2>1 DEF RunnerStep, LoopHead, Return, RaiseTimeout, RaiseStalled, LaunchWave,
                  Collect, DeadlinePasses
    <3>2. "n_secretary_brief" \in Nodes
      BY <3>1, MorningFansIn
    <3>3. rank["n_secretary_brief"] > 0 => rank'["n_secretary_brief"] > 0
      BY <2>1, <3>2 DEF RunnerStep, LoopHead, Return, RaiseTimeout, RaiseStalled, LaunchWave,
                        Collect, DeadlinePasses, TypeOK
    <3> QED
      BY <3>1, <3>3 DEF MorningInv
  <2>2. ASSUME NEW n \in Nodes, NEW r \in {"ok", "failed", "timed_out"}, FinishNode(n, r)
        PROVE  MorningInv'
    <3>1. /\ graph = Morning /\ n \in running /\ rank' = rank
          /\ outcome' = [outcome EXCEPT ![n] = r]
      BY <2>2 DEF FinishNode, Finish
    <3>2. n \in Morning.added /\ rank[n] > 0 /\ outcome[n] = "none"
      BY <3>1 DEF RunningInv
    <3>3. Act(n, r)
      BY <2>2, <3>1 DEF FinishNode, Catalogue
    <3>4. ctx \in Ctx
      BY <3>1 DEF MorningInv
    <3>5. ctx' \in Ctx /\ MorningEffect(n, r)
      BY <3>2, <3>3, <3>4, MorningNodes
    <3>6. /\ Morning.added \subseteq Nodes /\ Analysts \subseteq Morning.added
          /\ {"n_intel_synth", "n_secretary_brief"} \subseteq Morning.added
          /\ rank["n_secretary_brief"] > 0 =>
                n \notin Analysts /\ n # "n_intel_synth"
      BY <3>1, MorningFansIn
    <3>7. \A k \in Nodes : outcome'[k] = IF k = n THEN r ELSE outcome[k]
      BY <3>1 DEF TypeOK
    <3>8. \A k \in ctx'.advices : outcome'[k] = "ok"
      <4>1. \A k \in ctx.advices : k # n /\ k \in Nodes /\ outcome[k] = "ok"
        BY <3>1, <3>2, <3>4, <3>6 DEF MorningInv, Ctx
      <4>2. \A k \in ctx'.advices : k \in ctx.advices \/ (k = n /\ r = "ok")
        BY <3>5 DEF MorningEffect
      <4> QED
        BY <3>7, <4>1, <4>2
    <3>9. ctx'.digest = "none" <=> outcome'["n_intel_synth"] # "ok"
      <4>1. CASE n = "n_intel_synth"
        BY <3>1, <3>2, <3>5, <3>7, <4>1 DEF MorningInv, MorningEffect
      <4>2. CASE n # "n_intel_synth"
        BY <3>1, <3>5, <3>6, <3>7, <4>2 DEF MorningInv, MorningEffect
      <4> QED
        BY <4>1, <4>2
    <3>10. ASSUME ctx'.brief.made
           PROVE  /\ rank'["n_secretary_brief"] > 0
                  /\ ctx'.brief.advices = ctx'.advices /\ ctx'.brief.digest = ctx'.digest
      <4>1. CASE ctx'.brief = ctx.brief
        <5>1. /\ rank["n_secretary_brief"] > 0
              /\ ctx.brief.advices = ctx.advices /\ ctx.brief.digest = ctx.digest
          BY <3>1, <3>10, <4>1 DEF MorningInv
        <5>2. n \notin Analysts /\ n # "n_intel_synth"
          BY <3>6, <5>1
        <5> QED
          BY <3>1, <3>5, <4>1, <5>1, <5>2 DEF MorningEffect
      <4>2. CASE ctx'.brief # ctx.brief
        <5>0. ctx'.brief # NoBrief
          <6>1. NoBrief.made = FALSE
            BY DEF NoBrief
          <6> QED
            BY <3>10, <6>1, Zenon
        <5>1. n = "n_secretary_brief" /\ ctx'.brief = Composed(ctx.advices, ctx.digest, FALSE)
          BY <3>5, <4>2, <5>0 DEF MorningEffect
        <5>2. n \notin Analysts /\ n # "n_intel_synth"
          BY <5>1, NodesAreDistinct
        <5> QED
          BY <3>1, <3>2, <3>5, <5>1, <5>2 DEF MorningEffect, Composed
      <4> QED
        BY <4>1, <4>2
    <3> QED
      BY <3>5, <3>8, <3>9, <3>10 DEF MorningInv
  <2>3. CASE UNCHANGED catVars
    BY <2>3 DEF catVars, vars, MorningInv
  <2> QED
    BY <2>1, <2>2, <2>3 DEF CatNext
<1> QED
  BY <1>1, <1>2, CatalogueRunsDag, DagTypeCorrect, OnceInvHolds, FanInvHolds, EndInvHolds,
     RunningInvHolds, PTL DEF CatSpec

\* Why no recap has numbers with the base URLs: its entry node fails at once, and nothing
\* else writes the numbers.
RecapInv ==
    graph \in {Evening, Weekly} /\ urls = BaseUrls =>
        /\ ctx \in Ctx /\ ~ctx.numbers
        /\ ctx.brief.made => ~ctx.brief.numbers
        /\ outcome[graph.entry] \in {"none", "failed"}

\* The nodes of the evening and of the week.
LEMMA RecapNodes ==
    /\ Evening.entry = "n_backtest_mtm" /\ Weekly.entry = "n_eval_prompts"
    /\ Evening.added \subseteq {"n_backtest_mtm", "n_recap_brief", "n_recap_notify"}
    /\ Weekly.added \subseteq {"n_eval_prompts", "n_publish_leaderboard"}
  BY DEF Evening, Weekly, Chain

\* The functions of these nodes, without agent_backtest.
LEMMA RecapEffect ==
    ASSUME ctx \in Ctx, ~ctx.numbers, ctx.brief.made => ~ctx.brief.numbers, urls = BaseUrls,
           NEW n \in Evening.added \cup Weekly.added, NEW r \in {"ok", "failed", "timed_out"},
           Act(n, r)
    PROVE  /\ ctx' \in Ctx /\ ~ctx'.numbers
           /\ ctx'.brief.made => ~ctx'.brief.numbers
           /\ n \in {"n_backtest_mtm", "n_eval_prompts"} => r = "failed"
<1>1. n \in {"n_backtest_mtm", "n_recap_brief", "n_recap_notify", "n_eval_prompts",
             "n_publish_leaderboard"}
  BY RecapNodes
<1>2. n \notin Analysts /\ n \notin Personas /\ n \notin Synths
  BY <1>1, NodesAreDistinct DEF Synths, Analysts
<1>3. CASE n \in {"n_backtest_mtm", "n_eval_prompts"}
  <2>1. AgentOf(n) = "agent_backtest"
    BY <1>2, <1>3 DEF AgentOf
  <2>2. AgentOf(n) \notin urls
    BY <2>1 DEF BaseUrls
  <2>3. n \notin Catching /\ n \notin Noting /\ Stored(n, r) = {}
    BY <1>3, <2>2 DEF Catching, Noting, Stored, Answers
  <2> QED
    BY <2>2, <2>3 DEF Act
<1>4. CASE n = "n_recap_notify"
  <2>1. Stored(n, r) = {} /\ n \in Catching
    BY <1>4 DEF Stored, Catching
  <2>2. Message(n) \subseteq {"brief"}
    BY <1>4 DEF Message
  <2>3. ctx' \in {ctx, [ctx EXCEPT !.sent = @ \cup Message(n)]}
    BY <2>1 DEF Act
  <2> QED
    BY <1>4, <2>2, <2>3 DEF Ctx
<1>5. CASE n = "n_publish_leaderboard"
  <2>1. n \notin Catching /\ n \in Noting
    BY <1>5 DEF Catching, Noting
  <2>2. \A a : After(n, a) = AfterNote(a)
    BY <1>2, <1>5 DEF After, Noting
  <2>3. \/ ctx' = ctx
        \/ \E a \in {"full", "empty", "stub"} : ctx' = AfterNote(a)
    <3>1. \A c \in Stored(n, r) : \E a \in {"full", "empty", "stub"} : c = AfterNote(a)
      BY <2>2 DEF Stored, Answers
    <3> QED
      BY <2>1, <3>1 DEF Act
  <2> QED
    BY <1>5, <2>3 DEF AfterNote, Ctx
<1>6. CASE n = "n_recap_brief"
  <2>1. n \notin Catching /\ n \notin Noting
    BY <1>6 DEF Catching, Noting
  <2>2. \A a : After(n, a) = AfterRecap(a)
    BY <1>2, <1>6 DEF After, Noting
  <2>3. \/ ctx' = ctx
        \/ \E a \in {"full", "empty", "stub"} : ctx' = AfterRecap(a)
    <3>1. \A c \in Stored(n, r) : \E a \in {"full", "empty", "stub"} : c = AfterRecap(a)
      BY <2>2 DEF Stored, Answers
    <3> QED
      BY <2>1, <3>1 DEF Act
  <2>4. Composed({}, "none", ctx.numbers) \in Briefs /\ NoBrief \in Briefs
    BY DEF Composed, Ctx, Briefs
  <2>5. \A a : AfterRecap(a) \in Ctx
    BY <2>4 DEF AfterRecap, Ctx
  <2>6. \A a : ~AfterRecap(a).numbers
    BY <2>4 DEF AfterRecap, Ctx
  <2>7. \A a : AfterRecap(a).brief \in {NoBrief, Composed({}, "none", ctx.numbers)}
    BY <2>4 DEF AfterRecap, Ctx
  <2>8. NoBrief.made = FALSE /\ Composed({}, "none", ctx.numbers).numbers = ctx.numbers
    BY DEF NoBrief, Composed
  <2>9. ASSUME NEW a PROVE AfterRecap(a).brief.made => ~AfterRecap(a).brief.numbers
    <3>1. CASE AfterRecap(a).brief = NoBrief
      BY <2>8, <3>1, Zenon
    <3>2. CASE AfterRecap(a).brief = Composed({}, "none", ctx.numbers)
      BY <2>8, <3>2, Zenon
    <3> QED
      BY <2>7, <3>1, <3>2
  <2> QED
    BY <1>6, <2>3, <2>5, <2>6, <2>9
<1> QED
  BY <1>1, <1>3, <1>4, <1>5, <1>6

\* RecapInv is inductive, on the invariants of the runner.
LEMMA RecapInvHolds == CatSpec => []RecapInv
<1>1. CatInit => RecapInv
  <2> SUFFICES ASSUME CatInit, graph \in {Evening, Weekly} PROVE RecapInv
    BY DEF RecapInv
  <2>1. ctx \in Ctx /\ ~ctx.numbers /\ ctx.brief = NoBrief
    BY DEF CatInit, Ctx, Briefs, NoBrief
  <2>2. ~NoBrief.made
    BY DEF NoBrief
  <2>3. graph.entry \in Nodes /\ outcome[graph.entry] = "none"
    BY DagAssumption DEF DagAssumption, CatInit, Init
  <2> QED
    BY <2>1, <2>2, <2>3, Zenon DEF RecapInv
<1>2. TypeOK /\ RunningInv /\ RecapInv /\ [CatNext]_catVars => RecapInv'
  <2> SUFFICES ASSUME TypeOK, RunningInv, RecapInv, [CatNext]_catVars
               PROVE  RecapInv'
    OBVIOUS
  <2>1. CASE RunnerStep
    BY <2>1 DEF RunnerStep, LoopHead, Return, RaiseTimeout, RaiseStalled, LaunchWave,
                Collect, DeadlinePasses, RecapInv
  <2>2. ASSUME NEW n \in Nodes, NEW r \in {"ok", "failed", "timed_out"}, FinishNode(n, r)
        PROVE  RecapInv'
    <3>1. /\ graph' = graph /\ urls' = urls /\ n \in running
          /\ outcome' = [outcome EXCEPT ![n] = r]
      BY <2>2 DEF FinishNode, Finish
    <3> SUFFICES ASSUME graph \in {Evening, Weekly}, urls = BaseUrls
                 PROVE  /\ ctx' \in Ctx /\ ~ctx'.numbers
                        /\ ctx'.brief.made => ~ctx'.brief.numbers
                        /\ outcome'[graph.entry] \in {"none", "failed"}
      BY <3>1 DEF RecapInv
    <3>2. n \in graph.added
      BY <3>1 DEF RunningInv
    <3>3. Act(n, r)
      BY <2>2 DEF FinishNode, Catalogue
    <3>4. /\ ctx \in Ctx /\ ~ctx.numbers
          /\ ctx.brief.made => ~ctx.brief.numbers
          /\ outcome[graph.entry] \in {"none", "failed"}
      BY DEF RecapInv
    <3>5. /\ ctx' \in Ctx /\ ~ctx'.numbers
          /\ ctx'.brief.made => ~ctx'.brief.numbers
          /\ n \in {"n_backtest_mtm", "n_eval_prompts"} => r = "failed"
      BY <3>2, <3>3, <3>4, RecapEffect
    <3>6. graph.entry \in {"n_backtest_mtm", "n_eval_prompts"}
      BY RecapNodes
    <3> QED
      BY <3>1, <3>4, <3>5, <3>6 DEF TypeOK
  <2>3. CASE UNCHANGED catVars
    BY <2>3 DEF catVars, vars, RecapInv
  <2> QED
    BY <2>1, <2>2, <2>3 DEF CatNext
<1> QED
  BY <1>1, <1>2, CatalogueRunsDag, DagTypeCorrect, RunningInvHolds, PTL DEF CatSpec

\* Whatever fails, is cut off or answers with a stub on the way, the morning brief shows all
\* that the run has and nothing that changes after it, and with the base URLs of _bootstrap
\* no recap has numbers.
THEOREM BriefsShowRuns == CatSpec => []BriefShowsRun
<1>1. TypeOK /\ OnceInv /\ FanInv /\ EndInv /\ RunningInv /\ MorningInv => BriefIsComplete
  BY MorningFansIn DEF MorningInv, BriefIsComplete
<1>2. TypeOK /\ EndInv /\ RecapInv => RecapHasNoNumbers
  <2> SUFFICES ASSUME TypeOK, EndInv, RecapInv, graph \in {Evening, Weekly}, urls = BaseUrls,
                      phase = "done"
               PROVE  outcome[graph.entry] = "failed"
    BY DEF RecapHasNoNumbers, RecapInv
  <2>1. graph.entry \in completed
    BY DEF EndInv, Ends, Followings
  <2> QED
    BY <2>1 DEF EndInv, Settled, RecapInv
<1> QED
  BY <1>1, <1>2, MorningInvHolds, RecapInvHolds, CatalogueRunsDag, DagTypeCorrect,
     OnceInvHolds, FanInvHolds, EndInvHolds, RunningInvHolds, PTL DEF BriefShowsRun

\* What the runner promises of every graph it promises of the DAGs of the repository: each
\* agent is called once in a run, after all the nodes its own depends on, and the run ends
\* as its graph says.
THEOREM CatalogueKeepsPromises ==
    CatSpec => RunsOnce /\ []FanIn /\ []EndFollowsGraph
  BY CatalogueRunsDag, NodesRunOnce, StaticFanIn, EndsFollowGraph
=========================================================================
