SPECIFICATION CallersSpec
CONSTANTS
    w1 = w1
    w2 = w2
    w3 = w3
    w4 = w4
    Writers <- AllWriters
    Process <- TwoProcesses
    Genesis = Genesis
    Rotations <- OneRotation
    Original = Original
    Limit = 2
    Window = 1
    MaxNow = 2
INVARIANTS ForkNeedsRace DisorderShows TrailTellsEdits AuditTellsCalls
CHECK_DEADLOCK FALSE
