SPECIFICATION Spec
CONSTANTS
    Workers = {w1}
    Tasks = {t1, t2, t3}
    Channels = {c1, c2}
    Requests = {r1, r2}
    Invites = {}
    OperatorTasks = {}
    Minutes = 2
    MaxHour = 2
    Scheduler = scheduler
    NoTask = NoTask
    NoChannel = NoChannel
    NoOwner = NoOwner
    NoRow = NoRow
    Deleted = Deleted
    Resolves <- OneChannel
    Prompt <- PromptTransactions
SYMMETRY Symmetry
INVARIANTS OneIdleTaskPerChannel LoadSpread
PROPERTIES ExistsHasLiveSibling
