SPECIFICATION Spec
CONSTANTS
    QuantInputs <- MCQuantInputs
    Theses <- MCTheses
    Panels <- MCPanels
    Confidence <- MCConfidence
INVARIANT HighImpactWakesRoom
CHECK_DEADLOCK FALSE
