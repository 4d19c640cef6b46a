SPECIFICATION FairSpec
CONSTANTS
    Events = {e1, e2}
    Direct = {d1}
    MaxDeliver = 1
    MaxMinute = 0
    MaxCrashes = 0
INVARIANT AckedEventRan
CHECK_DEADLOCK FALSE
