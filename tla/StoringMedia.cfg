SPECIFICATION Spec
CONSTANTS
    Workers = {w1, w2}
    Requests = {r1}
    Newest = 2
    MediaLimit = 1
    Files = {f1, f2, f3, f4}
    MaxRetries = 2
    MaxRuns = 4
    MaxLost = 1
    NoFile = NoFile
SYMMETRY Symmetry
CHECK_DEADLOCK FALSE
INVARIANTS RowsHaveObjects FoundMediaExist OrphansOfFailures
PROPERTIES AlbumsWrittenOnce
