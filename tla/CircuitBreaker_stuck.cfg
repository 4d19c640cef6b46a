SPECIFICATION BreakerFairSpec
CONSTANTS
    Calls = {c1, c2}
    Threshold = 1
    Cooldown = 1
PROPERTY HalfOpenResolves
