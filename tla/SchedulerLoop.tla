--------------------------- MODULE SchedulerLoop ---------------------------
(***************************************************************************)
(* The scheduler loop, which claims every due task in one transaction and  *)
(* publishes each before that transaction commits, beside workers that     *)
(* claim one task at a time, and the queue it publishes to.                *)
(*                                                                         *)
(* Tasks are IDLE and in the first bucket: ParsingTasks has the others.    *)
(* Times are the hours they fall in.                                       *)
(***************************************************************************)
EXTENDS Integers, FiniteSets, Functions

CONSTANTS
    Tasks,
    Workers,     \* processes that run ClaimTask
    Consumers,   \* users of MessageBroker.get_task
    Scheduler,   \* the process that runs GetTasks
    MaxHour,     \* bound of the clock
    MaxFailures, \* bound on the transactions that fail
    NoTask, NoOwner

ASSUME BoundsAssumption == MaxHour \in Nat \ {0} /\ MaxFailures \in Nat
ASSUME MarkersAssumption ==
    Scheduler \notin Workers /\ NoTask \notin Tasks /\ NoOwner \notin Workers \cup {Scheduler}

Claimers == Workers \cup {Scheduler}
Hours == 0 .. MaxHour
Claim == [task : Tasks, hour : Hours, by : Claimers]

\* A claim transaction: where it is, the hour its clock showed, the tasks its
\* snapshot saw claimed, the rows it locked, the claims it inserted, and the
\* task that is being published.
Tx == [pc : {"out", "asked", "looked", "claiming", "publish"}, hour : Hours,
       seen : SUBSET Tasks, rows : SUBSET Tasks, made : SUBSET Claim,
       task : Tasks \cup {NoTask}]

VARIABLES
    hour,
    lastParsed, \* parsing_task.last_parsed_at, or -1 for NULL
    claims,     \* the committed rows of task_claim_history
    lock,       \* row locks on parsing_task
    tx,         \* the open transaction of each process
    queue,      \* messages of each task that wait in the queue
    held,       \* the unacknowledged message of each consumer
    settled,    \* messages that were acknowledged or rejected
    sent,       \* messages published for the claims of each hour
    failures    \* transactions that failed

vars == <<hour, lastParsed, claims, lock, tx, queue, held, settled, sent, failures>>
broker == <<queue, held, settled>>
table == <<lastParsed, claims, lock>>

NoTx == [pc |-> "out", hour |-> 0, seen |-> {}, rows |-> {}, made |-> {}, task |-> NoTask]

Init ==
    /\ hour = 1
    /\ lastParsed \in [Tasks -> {-1, 0}]
    /\ claims = {} /\ lock = [t \in Tasks |-> NoOwner]
    /\ tx = [p \in Claimers |-> NoTx]
    /\ queue = [t \in Tasks |-> 0] /\ held = [c \in Consumers |-> NoTask]
    /\ settled = [t \in Tasks |-> 0]
    /\ sent = [t \in Tasks |-> [h \in Hours |-> 0]]
    /\ failures = 0

Tick ==
    /\ hour < MaxHour
    /\ hour' = hour + 1
    /\ UNCHANGED <<table, tx, broker, sent, failures>>

-----------------------------------------------------------------------------
(* get_scheduled_tasks, for both *)

ClaimedSince(h) == {c.task : c \in {d \in claims : d.hour >= h}}

\* The row is read as it is, the claims as the snapshot saw them.
\* Mutants: the claims, or the row, are not looked at.
DueUnclaimed(p) == {t \in Tasks : lastParsed[t] < tx[p].hour /\ lock[t] = NoOwner}
DueUnparsed(p) == {t \in Tasks \ tx[p].seen : lock[t] = NoOwner}
Due(p) == {t \in Tasks \ tx[p].seen : lastParsed[t] < tx[p].hour /\ lock[t] = NoOwner}

Release(p) == lock' = [t \in Tasks |-> IF lock[t] = p THEN NoOwner ELSE lock[t]]
\* Mutant: a transaction that fails keeps its locks.
ReleaseNothing(p) == UNCHANGED lock
RollBack(p) == Release(p)

ThisHour == hour

Ask(p) ==
    /\ tx[p].pc = "out"
    /\ tx' = [tx EXCEPT ![p] = [NoTx EXCEPT !.pc = "asked", !.hour = ThisHour]]
    /\ UNCHANGED <<hour, table, broker, sent, failures>>

\* the snapshot of the statement
Look(p) ==
    /\ tx[p].pc = "asked"
    /\ tx' = [tx EXCEPT ![p].pc = "looked", ![p].seen = ClaimedSince(tx[p].hour)]
    /\ UNCHANGED <<hour, table, broker, sent, failures>>

-----------------------------------------------------------------------------
(* GetTasks and the loop around it *)

LockRows ==
    LET rows == Due(Scheduler) IN
    /\ tx[Scheduler].pc = "looked"
    /\ lock' = [t \in Tasks |-> IF t \in rows THEN Scheduler ELSE lock[t]]
    /\ tx' = [tx EXCEPT ![Scheduler].pc = "claiming", ![Scheduler].rows = rows]
    /\ UNCHANGED <<hour, lastParsed, claims, broker, sent, failures>>

Unclaimed(p) == tx[p].rows \ {c.task : c \in tx[p].made}

\* claimed_at is the time of the INSERT
ClaimNext ==
    /\ tx[Scheduler].pc = "claiming"
    /\ \E t \in Unclaimed(Scheduler) :
          tx' = [tx EXCEPT ![Scheduler].pc = "publish", ![Scheduler].task = t,
                           ![Scheduler].made = @ \cup {[task |-> t, hour |-> hour, by |-> Scheduler]}]
    /\ UNCHANGED <<hour, table, broker, sent, failures>>

\* the hour of the claim that is being published
PublishHour ==
    CHOOSE h \in Hours : \E c \in tx[Scheduler].made : c.task = tx[Scheduler].task /\ c.hour = h

\* An error of publish_task is logged and forgotten, whether or not the
\* message reached the queue.
Publish ==
    LET t == tx[Scheduler].task IN
    /\ tx[Scheduler].pc = "publish"
    /\ \/ /\ queue' = [queue EXCEPT ![t] = @ + 1]
          /\ sent' = [sent EXCEPT ![t][PublishHour] = @ + 1]
       \/ UNCHANGED <<queue, sent>>
    /\ tx' = [tx EXCEPT ![Scheduler].pc = "claiming", ![Scheduler].task = NoTask]
    /\ UNCHANGED <<hour, table, held, settled, failures>>

\* the commit at the end of GetTasks; last_parsed_at is left alone
CommitIteration ==
    /\ tx[Scheduler].pc = "claiming" /\ Unclaimed(Scheduler) = {}
    /\ claims' = claims \cup tx[Scheduler].made
    /\ Release(Scheduler)
    /\ tx' = [tx EXCEPT ![Scheduler] = NoTx]
    /\ UNCHANGED <<hour, lastParsed, broker, sent, failures>>

-----------------------------------------------------------------------------
(* ClaimTask *)

TakeRow(w) ==
    /\ tx[w].pc = "looked"
    /\ \E t \in Due(w) :
          /\ lock' = [lock EXCEPT ![t] = w]
          /\ tx' = [tx EXCEPT ![w].pc = "claiming", ![w].rows = {t},
                              ![w].made = {[task |-> t, hour |-> hour, by |-> w]}]
    /\ UNCHANGED <<hour, lastParsed, claims, broker, sent, failures>>

NoRow(w) ==
    /\ tx[w].pc = "looked" /\ Due(w) = {}
    /\ tx' = [tx EXCEPT ![w] = NoTx]
    /\ UNCHANGED <<hour, table, broker, sent, failures>>

CommitClaim(w) ==
    /\ tx[w].pc = "claiming"
    /\ claims' = claims \cup tx[w].made
    /\ \E c \in tx[w].made : lastParsed' = [lastParsed EXCEPT ![c.task] = c.hour]
    /\ Release(w)
    /\ tx' = [tx EXCEPT ![w] = NoTx]
    /\ UNCHANGED <<hour, broker, sent, failures>>

\* an error or the end of the process: the database rolls back
Fail(p) ==
    /\ tx[p].pc # "out" /\ failures < MaxFailures
    /\ failures' = failures + 1
    /\ RollBack(p)
    /\ tx' = [tx EXCEPT ![p] = NoTx]
    /\ UNCHANGED <<hour, lastParsed, claims, broker, sent>>

-----------------------------------------------------------------------------
(* MessageBroker.get_task: prefetch_count is one *)

Deliver(c, t) ==
    /\ held[c] = NoTask /\ queue[t] > 0
    /\ queue' = [queue EXCEPT ![t] = @ - 1]
    /\ held' = [held EXCEPT ![c] = t]
    /\ UNCHANGED <<hour, table, tx, settled, sent, failures>>

\* acknowledged, or rejected for good when it or its task is invalid
Settle(c) ==
    /\ held[c] # NoTask
    /\ settled' = [settled EXCEPT ![held[c]] = @ + 1]
    /\ held' = [held EXCEPT ![c] = NoTask]
    /\ UNCHANGED <<hour, table, tx, queue, sent, failures>>

\* back into the queue: an error, a lost connection, or a timeout that closes
\* the iterator while the message was on its way
\* Mutant: it is dropped.
Dropped(c) == UNCHANGED queue
Requeued(c) == queue' = [queue EXCEPT ![held[c]] = @ + 1]
Return(c) ==
    /\ held[c] # NoTask
    /\ Requeued(c)
    /\ held' = [held EXCEPT ![c] = NoTask]
    /\ UNCHANGED <<hour, table, tx, settled, sent, failures>>

-----------------------------------------------------------------------------
Iteration == Ask(Scheduler) \/ Look(Scheduler) \/ LockRows \/ ClaimNext \/ Publish \/ CommitIteration
WorkerClaim(w) == Ask(w) \/ Look(w) \/ TakeRow(w) \/ NoRow(w) \/ CommitClaim(w)
Consume(c) == Settle(c) \/ Return(c) \/ \E t \in Tasks : Deliver(c, t)

Next ==
    \/ Tick
    \/ Iteration
    \/ \E w \in Workers : WorkerClaim(w)
    \/ \E p \in Claimers : Fail(p)
    \/ \E c \in Consumers : Consume(c)

Spec == Init /\ [][Next]_vars

\* The loop runs again 30 seconds after each iteration, also a failed one,
\* and the workers end their claims.
FairSpec == Spec /\ WF_vars(Iteration) /\ \A w \in Workers : WF_vars(WorkerClaim(w))

-----------------------------------------------------------------------------
(* Properties                                                              *)

\* The tables, the transactions and the queue have their types.
TypeOK ==
    /\ hour \in Hours
    /\ lastParsed \in [Tasks -> Hours \cup {-1}]
    /\ claims \subseteq Claim
    /\ lock \in [Tasks -> Claimers \cup {NoOwner}]
    /\ tx \in [Claimers -> Tx]
    /\ queue \in [Tasks -> Nat] /\ settled \in [Tasks -> Nat]
    /\ held \in [Consumers -> Tasks \cup {NoTask}]
    /\ sent \in [Tasks -> [Hours -> Nat]]
    /\ failures \in 0 .. MaxFailures

\* A task is published once for an hour, and once more for each iteration
\* that failed after it had published: publishing is not undone.
OnePublishPerHour == \A t \in Tasks, h \in Hours : sent[t][h] <= 1 + failures

\* The scheduler does not take a task that a worker has claimed for the hour
\* it asked about, however long the iteration lasts.
SchedulerYields ==
    \A c \in claims : c.by # Scheduler /\ c.task \in tx[Scheduler].rows
                      => c.hour < tx[Scheduler].hour

\* No message gets lost between consumers, and none is settled twice.
MessagesKept ==
    \A t \in Tasks :
        FoldFunction(+, 0, sent[t])
          = queue[t] + settled[t] + Cardinality({c \in Consumers : held[c] = t})

\* A task that is due in the last hour is claimed in it, whatever failed.
DueIsClaimed ==
    \A t \in Tasks :
        hour = MaxHour /\ lastParsed[t] < MaxHour ~> \E c \in claims : c.task = t /\ c.hour = MaxHour
=============================================================================
