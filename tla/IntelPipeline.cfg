SPECIFICATION Spec
CONSTANTS
    a = a
    b = b
    c = c
    Items <- MCItems
    Undated <- MCUndated
    Unlinked <- MCUnlinked
    Similar <- MCSimilar
    MaxRuns = 2
    Window = 1
    HashTTL = 2
    MaxDay = 2
INVARIANTS DropsAreCovered SiblingsNeedRace
CHECK_DEADLOCK FALSE
