SPECIFICATION GuardsSpec
CONSTANTS
    Calls = {c1, c2, c3, c4}
    Threshold = 2
    Cooldown = 2
    Callers = {p1, p2, p3}
    Capacity = 2
    Ttl = 2
    Timeout = 1
INVARIANTS AtMostOneProbe NeverOverCapacity
PROPERTIES AgentRecovers SlotsGoRound
