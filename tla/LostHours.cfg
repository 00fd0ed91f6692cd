SPECIFICATION FairSpec
CONSTANTS
    Workers = {w1, w2}
    Tasks = {t1}
    Channels = {c1}
    Requests = {r1}
    Invites = {t1}
    OperatorTasks = {t1}
    Minutes = 2
    MaxHour = 2
    Scheduler = scheduler
    NoTask = NoTask
    NoChannel = NoChannel
    NoOwner = NoOwner
    NoRow = NoRow
    Deleted = Deleted
    Resolves <- OneChannel
    Prompt <- PromptTransactions
PROPERTIES DueTaskIsClaimed
