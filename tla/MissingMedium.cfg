SPECIFICATION Spec
CONSTANTS
    Workers = {w1}
    Requests = {r1}
    Newest = 1
    MediaLimit = 1
    Files = {f1}
    MaxRetries = 3
    MaxRuns = 1
    MaxLost = 1
    NoFile = NoFile
SYMMETRY Symmetry
CHECK_DEADLOCK FALSE
INVARIANTS MissingIsReported
