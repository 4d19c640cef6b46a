SPECIFICATION FairSpec
CONSTANTS
    Events = {e1}
    Direct = {d1, d2}
    MaxDeliver = 2
    MaxMinute = 1
    MaxCrashes = 1
INVARIANTS KeyRunsOnce AckedIsCovered
PROPERTY EventsSettle
CHECK_DEADLOCK FALSE
