SPECIFICATION CatFairSpec
CONSTANTS
    n0 = n0
    n1 = n1
    n2 = n2
    n3 = n3
    Personas = {"n_persona_a"}
    Nodes <- AllNodes
    Graphs <- AllGraphs
    Bounded <- SlaNodes
INVARIANTS
    FanIn
    EndFollowsGraph
    BriefShowsRun
PROPERTIES Terminates
CHECK_DEADLOCK FALSE
