SPECIFICATION Spec
CONSTANTS
    Workers = {w1,w2}
    Tasks = {t1, t2}
    Channels = {c1}
    Requests = {r1}
    Invites = {t1, t2}
    OperatorTasks = {}
    Minutes = 1
    MaxHour = 2
    Scheduler = scheduler
    NoTask = NoTask
    NoChannel = NoChannel
    NoOwner = NoOwner
    NoRow = NoRow
    Deleted = Deleted
    Resolves <- OneChannel
    Prompt <- PromptTransactions
SYMMETRY Symmetry
INVARIANTS OneIdleTaskPerChannel
