SPECIFICATION Spec
CONSTANTS
    Workers = {w1, w2}
    Lists = {l1, l2}
    MaxQueued = 1
INVARIANTS
    TypeOK
    OnePipeline
    NothingOldWaits
PROPERTIES
    MomentIsMet
