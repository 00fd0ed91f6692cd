SPECIFICATION FairSpec
CONSTANTS
    Tasks = {t1}
    Workers = {w1}
    Consumers = {c1, c2}
    Scheduler = Scheduler
    MaxHour = 2
    MaxFailures = 1
    NoTask = NoTask
    NoOwner = NoOwner
INVARIANTS OnePublishPerHour SchedulerYields MessagesKept
PROPERTIES DueIsClaimed
