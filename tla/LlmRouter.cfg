SPECIFICATION FairSpec
CONSTANTS
    Chats = {c1, c2, c3}
    Embeds = {e}
    Cap = 1
    FallbackCap = 1
    Slots = 1
    CallerCaps = {1, 2}
    MaxChanges = 1
INVARIANTS LimitsHold
PROPERTY EveryCallEnds
CHECK_DEADLOCK FALSE
