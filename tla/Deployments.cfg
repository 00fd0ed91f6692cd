SPECIFICATION Spec
CONSTANTS
    Deployable = {6, 11, 15}
    MaxDeploys = 2
    MaxCommands = 1
    MaxCrashes = 1
    MaxInserts = 2
CHECK_DEADLOCK FALSE
INVARIANTS DoneIsWhole HeadIsModel RefusedForRows ValuesWritten
