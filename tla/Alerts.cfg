SPECIFICATION AlertsSpec
CONSTANTS
    QuantInputs <- MCQuantInputs
    Theses <- MCTheses
    Panels <- MCPanels
    Confidence <- MCConfidence
    Messages = {m1, m2}
    Critical = {m1}
    Chain <- TwoAdapters
    Cap = 1
    MaxTroubles = 1
INVARIANTS
    BriefAgreesWithLedger
    DegradedIsTold
    AtLeastOnce
PROPERTIES
    RefinesDag
    RoomEnds
    RecoveredAdapterDelivers
CHECK_DEADLOCK FALSE
