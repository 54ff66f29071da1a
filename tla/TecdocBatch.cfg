SPECIFICATION Spec
CONSTANTS
    Views = {v1, v2}
    MaxRuns = 2
    Tasks = {t1, t2}
    MaxMishaps = 1
CHECK_DEADLOCK FALSE
INVARIANTS
    TypeOK
    OneBatch
    Stoppable
PROPERTIES
    EndedStays
    NoRunIsForgotten
