---------------------------- MODULE ParsingTasks ----------------------------
(***************************************************************************)
(* The parsing_task table, the claim history beside it, and the processes  *)
(* that share them: API requests that add a channel, and worker processes  *)
(* that claim one task at a time, parse its channel and settle its status. *)
(*                                                                         *)
(* The database is MySQL (InnoDB) at READ COMMITTED: a plain SELECT and a  *)
(* subquery read a snapshot, SELECT ... FOR UPDATE SKIP LOCKED reads and   *)
(* locks the current rows it may lock, an UPDATE waits for the row's lock. *)
(* One action is what happens between two awaits that touch the database.  *)
(*                                                                         *)
(* Every timestamp of these tables is only ever compared with the start of *)
(* an hour, so a timestamp is the number of the hour it falls in.          *)
(***************************************************************************)
EXTENDS Integers, Sequences, FiniteSets

CONSTANTS
    Tasks,       \* the URLs that may be added, each with at most one row
    Channels,    \* Telegram channel ids
    Resolves,    \* Resolves[t]: the channels Telegram may answer for t's URL
    Invites,     \* the tasks whose URL is an invite link
    Workers,     \* worker processes
    Scheduler,   \* the scheduler process, a lock owner like a worker
    Requests,    \* concurrent API requests that add a task
    OperatorTasks, \* tasks whose row an operator may delete by hand
    Minutes,     \* minutes in an hour: the buckets are 0 .. Minutes - 1
    MaxHour,     \* bound of the clock: the last hour the model looks at
    Prompt,      \* control points a worker leaves before the hour ends
    NoTask, NoChannel, NoOwner,
    NoRow, Deleted \* the row of a task never added, and of a deleted one

Statuses == {"IDLE", "SKIP", "EXISTS", "ERROR"}
Buckets == 0 .. (Minutes - 1)

\* Where a worker can be.  A claim runs "asked", "snapshot", "locked"; the
\* run of the claimed task goes from "verify" to "messages"; "settle" and
\* "settling" are the transaction that writes a failed run's status.
ClaimPoints == {"asked", "snapshot", "locked"}
RunPoints == {"verify", "resolve", "dupcheck", "fetch", "save", "saved",
              "messages", "settle", "settling"}
WorkerPoints == {"idle"} \cup ClaimPoints \cup RunPoints

ASSUME MinutesAssumption == Minutes \in Nat \ {0}
ASSUME MaxHourAssumption == MaxHour \in Nat
ASSUME ResolvesAssumption == Resolves \in [Tasks -> SUBSET Channels]
\* a server answers finitely many requests at once
ASSUME RequestsAssumption == IsFiniteSet(Requests)
ASSUME InvitesAssumption == Invites \subseteq Tasks
ASSUME OperatorAssumption == OperatorTasks \subseteq Tasks
ASSUME PromptAssumption == Prompt \subseteq WorkerPoints
ASSUME MarkersAssumption == /\ NoTask \notin Tasks
                            /\ NoChannel \notin Channels
                            /\ Scheduler \notin Workers
                            /\ NoOwner \notin Workers \cup {Scheduler}

\* last_parsed_at IS NULL: before every hour
Never == -1

Row == [status : Statuses, channel : Channels \cup {NoChannel},
        bucket : Buckets, lastParsed : Nat \cup {Never}, created : Nat]

\* The locals of a claim (the clock it read, the claims it saw, its `now`),
\* of a run (the channel it resolved, whether it inserts the channel's row,
\* the status it will settle, the columns it read, its `now`) and of AddTask.
\* `since` is history: the hour the run's claim was committed in.
ClaimTx == [hour : Nat, minute : Buckets, seen : SUBSET Tasks, stamp : Nat]
TaskRun == [task : Tasks \cup {NoTask}, channel : Channels \cup {NoChannel},
            fresh : BOOLEAN, verdict : Statuses,
            read : [status : Statuses, channel : Channels \cup {NoChannel}],
            stamp : Nat, since : Nat]
Adding == [task : Tasks \cup {NoTask}, bucket : Buckets]
ASSUME NoRowAssumption == NoRow \notin Row /\ Deleted \notin Row /\ NoRow # Deleted

VARIABLES
    hour, minute,  \* the clock the hosts and the database share
    rows,          \* parsing_task: Tasks -> Row, NoRow or Deleted
    claims,        \* task_claim_history: per task, the hours of claimed_at
    channels,      \* ids present in the channel table
    lock,          \* who holds the row lock of a task
    pc,            \* where each worker is
    tx,            \* the claim transaction of each worker
    run,           \* the run of each worker
    adding,        \* the AddTask call of each request
    overlaps       \* history: the tasks claimed while another run of them was under way

db == <<rows, claims, channels, lock>>
vars == <<hour, minute, rows, claims, channels, lock, pc, tx, run, adding, overlaps>>

-----------------------------------------------------------------------------
(* Helpers *)

Present(t) == rows[t] \notin {NoRow, Deleted}
Idle(t) == Present(t) /\ rows[t].status = "IDLE"

\* TIMESTAMP has no fractional part and MySQL rounds a Python datetime: a
\* stamp taken in the last half second of an hour is stored in the next one.
Stored(h) == IF minute = Minutes - 1 THEN {h, h + 1} ELSE {h}

\* Mutants: last_parsed_at or the status is not looked at.
DueAnyStatus(r, h, m) ==
    /\ r.bucket <= m
    /\ IF r.lastParsed = Never THEN r.created < h ELSE r.lastParsed < h
DueUnparsed(r, h, m) == r.status = "IDLE" /\ r.bucket <= m /\ r.created < h

\* The conditions of get_scheduled_tasks on the row itself.
Due(r, h, m) ==
    /\ r.status = "IDLE"
    /\ r.bucket <= m
    /\ IF r.lastParsed = Never THEN r.created < h ELSE r.lastParsed < h

\* Mutant: the claim of the hour before still counts.
ClaimedLately(h) == {t \in Tasks : \E i \in 1 .. Len(claims[t]) : claims[t][i] >= h - 1}

\* get_scheduled_tasks: the subquery on the claims, and the rows it leaves
\* to an owner that saw `seen` there.
ClaimedSince(h) == {t \in Tasks : \E i \in 1 .. Len(claims[t]) : claims[t][i] >= h}
Lockable(seen, h, m) ==
    {t \in Tasks : /\ Present(t) /\ lock[t] = NoOwner
                   /\ Due(rows[t], h, m) /\ t \notin seen}
FirstOf(S) == {t \in S : \A u \in S : rows[t].bucket <= rows[u].bucket}

\* get_buckets_loading and the choice AddTask makes from it
Load(b) == Cardinality({t \in Tasks : /\ Present(t)
                                      /\ rows[t].status \in {"IDLE", "SKIP"}
                                      /\ rows[t].bucket = b})
\* Mutant: any bucket, however loaded.
BucketAny == Buckets
BucketChoices ==
    LET free == {b \in Buckets : Load(b) = 0}
    IN  IF free # {} THEN {b \in free : \A c \in free : b <= c}
                     ELSE {b \in Buckets : \A c \in Buckets : Load(b) <= Load(c)}

NoTx == [hour |-> 0, minute |-> 0, seen |-> {}, stamp |-> 0]
NoRun == [task |-> NoTask, channel |-> NoChannel, fresh |-> FALSE,
          verdict |-> "IDLE", read |-> [status |-> "IDLE", channel |-> NoChannel],
          stamp |-> 0, since |-> 0]
NoAdd == [task |-> NoTask, bucket |-> 0]

Init ==
    /\ hour = 0 /\ minute = 0
    /\ rows = [t \in Tasks |-> NoRow]
    /\ claims = [t \in Tasks |-> <<>>]
    /\ channels = {}
    /\ lock = [t \in Tasks |-> NoOwner]
    /\ pc = [w \in Workers |-> "idle"]
    /\ tx = [w \in Workers |-> NoTx]
    /\ run = [w \in Workers |-> NoRun]
    /\ adding = [r \in Requests |-> NoAdd]
    /\ overlaps = {}

-----------------------------------------------------------------------------
(* The clock.  An hour does not end while a worker is at a point of Prompt. *)

NextMinute ==
    /\ minute < Minutes - 1
    /\ minute' = minute + 1
    /\ UNCHANGED hour

NextHour ==
    /\ minute = Minutes - 1 /\ hour < MaxHour
    /\ \A w \in Workers : pc[w] \notin Prompt
    /\ minute' = 0 /\ hour' = hour + 1

Tick ==
    /\ NextMinute \/ NextHour
    /\ UNCHANGED <<rows, claims, channels, lock, pc, tx, run, adding, overlaps>>

-----------------------------------------------------------------------------
(* AddTask: find by url, choose a bucket, insert.                          *)

\* An existing row is returned as it is, which changes nothing.
AddFind(r, t) ==
    /\ adding[r] = NoAdd
    /\ rows[t] = NoRow
    /\ \E b \in BucketChoices : adding' = [adding EXCEPT ![r] = [task |-> t, bucket |-> b]]
    /\ UNCHANGED <<hour, minute, overlaps, rows, claims, channels, lock, pc, tx, run>>

\* A lost race on the unique url is an IntegrityError: the call rolls back
\* and answers with the row that won.
AddInsert(r) ==
    LET t == adding[r].task IN
    /\ adding[r] # NoAdd
    /\ rows' = IF rows[t] # NoRow THEN rows
               ELSE [rows EXCEPT ![t] =
                       [status |-> "IDLE", channel |-> NoChannel,
                        bucket |-> adding[r].bucket, lastParsed |-> Never,
                        created |-> hour]]
    /\ adding' = [adding EXCEPT ![r] = NoAdd]
    /\ UNCHANGED <<hour, minute, overlaps, claims, channels, lock, pc, tx, run>>

\* External: a row deleted by hand takes its claims with it (ON DELETE
\* CASCADE).  No code under src/ deletes a task, several handlers expect it.
\* A url added again would be a task with another id: it is not modelled.
OperatorDelete(t) ==
    /\ Present(t) /\ lock[t] = NoOwner
    /\ rows' = [rows EXCEPT ![t] = Deleted]
    /\ claims' = [claims EXCEPT ![t] = <<>>]
    /\ UNCHANGED <<hour, minute, overlaps, channels, lock, pc, tx, run, adding>>

-----------------------------------------------------------------------------
(* ClaimTask, by a worker                                                  *)

Go(w, point) == pc' = [pc EXCEPT ![w] = point]

\* The worker's transaction is over and it forgets its task.
Leave(w) ==
    /\ Go(w, "idle")
    /\ tx' = [tx EXCEPT ![w] = NoTx]
    /\ run' = [run EXCEPT ![w] = NoRun]
    /\ lock' = [t \in Tasks |-> IF lock[t] = w THEN NoOwner ELSE lock[t]]

\* now_utc of get_scheduled_tasks is read before the statement is sent
ClaimAsk(w) ==
    /\ pc[w] = "idle"
    /\ Go(w, "asked")
    /\ tx' = [tx EXCEPT ![w].hour = hour, ![w].minute = minute]
    /\ UNCHANGED <<hour, minute, overlaps, db, run, adding>>

\* the statement opens its read view, which the subquery on claims uses
ClaimSnapshot(w) ==
    /\ pc[w] = "asked"
    /\ Go(w, "snapshot")
    /\ tx' = [tx EXCEPT ![w].seen = ClaimedSince(tx[w].hour)]
    /\ UNCHANGED <<hour, minute, overlaps, db, run, adding>>

\* The statement locks every due row it may lock (bucket has no index, so
\* the rows are sorted before LIMIT), returns the first, and the worker
\* takes `now`.
ClaimLock(w) ==
    /\ pc[w] = "snapshot"
    /\ LET S == Lockable(tx[w].seen, tx[w].hour, tx[w].minute) IN
       \E t \in FirstOf(S) : \E n \in Stored(hour) :
          /\ lock' = [u \in Tasks |-> IF u \in S THEN w ELSE lock[u]]
          /\ run' = [run EXCEPT ![w].task = t]
          /\ tx' = [tx EXCEPT ![w].stamp = n]
    /\ Go(w, "locked")
    /\ UNCHANGED <<hour, minute, overlaps, rows, claims, channels, adding>>

\* no row: ClaimTask returns None and the worker sleeps
ClaimNone(w) ==
    /\ pc[w] = "snapshot"
    /\ Lockable(tx[w].seen, tx[w].hour, tx[w].minute) = {}
    /\ Leave(w)
    /\ UNCHANGED <<hour, minute, overlaps, rows, claims, channels, adding>>

\* The workers that are on a run of t.  Nothing bounds a run: one of an earlier
\* hour may still be under way when the task is claimed again.
Runners(t) == {w \in Workers : pc[w] \in RunPoints /\ run[w].task = t}

\* last_parsed_at = now, the claim row with the server's time, commit
ClaimCommit(w) ==
    LET t == run[w].task IN
    /\ pc[w] = "locked"
    /\ rows' = [rows EXCEPT ![t].lastParsed = tx[w].stamp]
    /\ claims' = [claims EXCEPT ![t] = Append(@, hour)]
    /\ lock' = [u \in Tasks |-> IF lock[u] = w THEN NoOwner ELSE lock[u]]
    /\ tx' = [tx EXCEPT ![w] = NoTx]
    /\ Go(w, "verify")
    /\ run' = [run EXCEPT ![w].since = hour]
    /\ overlaps' = IF Runners(t) = {} THEN overlaps ELSE overlaps \cup {t}
    /\ UNCHANGED <<hour, minute, channels, adding>>

-----------------------------------------------------------------------------
(* The run of a claimed task                                               *)

\* start(): a second transaction looks at the task again
Verify(w) ==
    LET t == run[w].task IN
    /\ pc[w] = "verify"
    /\ \/ /\ Idle(t)
          /\ Go(w, "resolve")
          /\ UNCHANGED <<lock, tx, run>>
       \/ /\ ~Idle(t)
          /\ Leave(w)
    /\ UNCHANGED <<hour, minute, overlaps, rows, claims, channels, adding>>

\* a TaskError, TaskExists or TemporaryCannotProcessTask reaches the handler
Fails(w, verdict) ==
    /\ Go(w, "settle")
    /\ run' = [run EXCEPT ![w].verdict = verdict]

\* _get_channel with an invite link: the channel it names, a TaskError, or a
\* TemporaryCannotProcessTask while the request to join waits for approval
ResolveInvite(w) ==
    /\ run[w].task \in Invites
    /\ \/ \E c \in Resolves[run[w].task] :
            /\ Go(w, "dupcheck")
            /\ run' = [run EXCEPT ![w].channel = c]
       \/ Fails(w, "ERROR")
       \/ Fails(w, "IDLE")

\* _get_channel with a username: the channel, or a TaskError
ResolveName(w) ==
    /\ run[w].task \notin Invites
    /\ \/ \E c \in Resolves[run[w].task] :
            /\ Go(w, "dupcheck")
            /\ run' = [run EXCEPT ![w].channel = c]
       \/ Fails(w, "ERROR")

Resolve(w) ==
    /\ pc[w] = "resolve"
    /\ ResolveInvite(w) \/ ResolveName(w)
    /\ UNCHANGED <<hour, minute, overlaps, db, tx, adding>>

\* another IDLE task on the same channel makes this one EXISTS
\* Mutants: nothing is a duplicate; a task out of the schedule is one.
NoDuplicates(t, c) == {}
DuplicatesAnyStatus(t, c) == {u \in Tasks \ {t} : Present(u) /\ rows[u].channel = c}
Duplicates(t, c) ==
    {u \in Tasks \ {t} : Idle(u) /\ rows[u].channel = c}
DupCheck(w) ==
    LET duplicates == Duplicates(run[w].task, run[w].channel) IN
    /\ pc[w] = "dupcheck"
    /\ \/ /\ duplicates # {}
          /\ Fails(w, "EXISTS")
       \/ /\ duplicates = {}
          /\ Go(w, "fetch")
          /\ UNCHANGED run
    /\ UNCHANGED <<hour, minute, overlaps, db, tx, adding>>

\* GetFullChannel, the messages, and then the look for the channel's row
FetchChannel(w) ==
    /\ pc[w] = "fetch"
    /\ \/ /\ Go(w, "save")
          /\ run' = [run EXCEPT ![w].fresh = run[w].channel \notin channels]
       \/ Fails(w, "ERROR")
    /\ UNCHANGED <<hour, minute, overlaps, db, tx, adding>>

\* An INSERT of a channel waits for an uncommitted one with the same key,
\* and is an IntegrityError after a committed one.
InsertWaits(w) ==
    \E v \in Workers \ {w} : /\ pc[v] = "saved" /\ run[v].fresh
                             /\ run[v].channel = run[w].channel
SaveTask(w) ==
    LET t == run[w].task IN
    /\ pc[w] = "save"
    /\ \/ /\ run[w].fresh /\ run[w].channel \in channels
          /\ Leave(w)
       \/ /\ run[w].fresh => /\ run[w].channel \notin channels
                             /\ ~InsertWaits(w)
          /\ \/ /\ ~Present(t)
                /\ Fails(w, "ERROR")
             \/ /\ Present(t)
                /\ Go(w, "saved")
                /\ run' = [run EXCEPT ![w].read.channel = rows[t].channel]
          /\ UNCHANGED <<lock, tx>>
    /\ UNCHANGED <<hour, minute, overlaps, rows, claims, channels, adding>>

\* An UPDATE carries the columns that differ from what was read; one whose
\* row is gone is a StaleDataError and rolls the transaction back.
SaveCommit(w) ==
    LET t == run[w].task IN
    /\ pc[w] = "saved" /\ lock[t] = NoOwner
    /\ \/ /\ Present(t) \/ run[w].read.channel = run[w].channel
          /\ channels' = channels \cup {run[w].channel}
          /\ rows' = IF run[w].read.channel = run[w].channel THEN rows
                     ELSE [rows EXCEPT ![t].channel = run[w].channel]
          /\ Go(w, "messages")
          /\ UNCHANGED <<lock, tx, run>>
       \/ /\ ~Present(t) /\ run[w].read.channel # run[w].channel
          /\ Leave(w)
          /\ UNCHANGED <<rows, channels>>
    /\ UNCHANGED <<hour, minute, overlaps, claims, adding>>

\* _process_messages, a transaction of its own, ends the run
ProcessMessages(w) ==
    /\ pc[w] = "messages"
    /\ IF run[w].channel \in channels
       THEN Leave(w)
       ELSE Fails(w, "ERROR") /\ UNCHANGED <<lock, tx>>
    /\ UNCHANGED <<hour, minute, overlaps, rows, claims, channels, adding>>

-----------------------------------------------------------------------------
(* change_task_status: read the row, then write the verdict                *)

SettleRead(w) ==
    LET t == run[w].task IN
    /\ pc[w] = "settle"
    /\ \/ /\ ~Present(t)
          /\ Leave(w)
       \/ /\ Present(t)
          /\ \E n \in Stored(hour) :
               run' = [run EXCEPT
                 ![w].read = [status |-> rows[t].status, channel |-> rows[t].channel],
                 ![w].stamp = n]
          /\ Go(w, "settling")
          /\ UNCHANGED <<lock, tx>>
    /\ UNCHANGED <<hour, minute, overlaps, rows, claims, channels, adding>>

\* Mutants: a failed task keeps its channel; a settled one is due at once.
VerdictKeepsChannel(w) == run[w].channel
SettledUnparsed(w) == [rows[run[w].task] EXCEPT !.status = run[w].verdict, !.lastParsed = Never]

\* TaskExists carries the channel, the other two verdicts clear it
VerdictChannel(w) == IF run[w].verdict = "EXISTS" THEN run[w].channel ELSE NoChannel

Settled(w) ==
    LET t == run[w].task
        old == rows[t]
        read == run[w].read
    IN  [old EXCEPT
          !.status = IF read.status = run[w].verdict THEN old.status ELSE run[w].verdict,
          !.channel = IF read.channel = VerdictChannel(w) THEN old.channel
                      ELSE VerdictChannel(w),
          !.lastParsed = run[w].stamp]

SettleCommit(w) ==
    LET t == run[w].task IN
    /\ pc[w] = "settling" /\ lock[t] = NoOwner
    /\ rows' = IF Present(t) THEN [rows EXCEPT ![t] = Settled(w)] ELSE rows
    /\ Leave(w)
    /\ UNCHANGED <<hour, minute, overlaps, claims, channels, adding>>

\* A Telegram error that ends the session, an unknown error that is logged,
\* or the end of the process: the open transaction is rolled back and the
\* task is left as it is.
Abandon(w) ==
    /\ pc[w] # "idle"
    /\ Leave(w)
    /\ UNCHANGED <<hour, minute, overlaps, rows, claims, channels, adding>>

-----------------------------------------------------------------------------
Claim(w) == ClaimAsk(w) \/ ClaimSnapshot(w) \/ ClaimLock(w) \/ ClaimNone(w) \/ ClaimCommit(w)
Run(w) == Verify(w) \/ Resolve(w) \/ DupCheck(w) \/ FetchChannel(w) \/ SaveTask(w)
          \/ SaveCommit(w) \/ ProcessMessages(w) \/ SettleRead(w) \/ SettleCommit(w)
WorkerStep(w) == Claim(w) \/ Run(w)
RequestStep(r) == AddInsert(r) \/ \E t \in Tasks : AddFind(r, t)

Next ==
    \/ Tick
    \/ \E r \in Requests : RequestStep(r)
    \/ \E t \in OperatorTasks : OperatorDelete(t)
    \/ \E w \in Workers : WorkerStep(w) \/ Abandon(w)

Spec == Init /\ [][Next]_vars

\* Every await of a worker returns.  A worker that dies is restarted and is
\* not killed at each of its attempts, so a claim it could make for ever
\* again is made: strong fairness on the steps of the claim.
Fairness ==
    \A w \in Workers :
        /\ WF_vars(ClaimAsk(w)) /\ SF_vars(ClaimSnapshot(w))
        /\ SF_vars(ClaimLock(w)) /\ SF_vars(ClaimNone(w)) /\ SF_vars(ClaimCommit(w))
        /\ WF_vars(Run(w))
FairSpec == Spec /\ Fairness

-----------------------------------------------------------------------------
(* Properties                                                              *)

\* The state of the tables and of the processes is what their code can hold.
TypeOK ==
    /\ hour \in Nat /\ minute \in Buckets
    /\ rows \in [Tasks -> Row \cup {NoRow, Deleted}]
    /\ claims \in [Tasks -> Seq(Nat)]
    /\ channels \subseteq Channels
    /\ lock \in [Tasks -> Workers \cup {Scheduler, NoOwner}]
    /\ pc \in [Workers -> WorkerPoints]
    /\ tx \in [Workers -> ClaimTx]
    /\ run \in [Workers -> TaskRun]
    /\ adding \in [Requests -> Adding]
    /\ overlaps \subseteq Tasks

\* The worker claims a task at most once in an hour: the claim history of a
\* task never holds two rows of the same hour, whatever workers interleave,
\* and its rows are committed in the order of their time.
ClaimedOncePerHour ==
    \A t \in Tasks : \A i, j \in 1 .. Len(claims[t]) :
        i < j => claims[t][i] < claims[t][j]

\* The claim protocol implements HourlyRuns: each commit of a claim hands out
\* a task that was not handed out in this hour, and nothing else does.
Hourly == INSTANCE HourlyRuns WITH now <- hour, runs <- claims
RunsHourly == Hourly!Spec

\* Within an hour a task has one worker: when two are on runs of it at once, one
\* of them claimed it in an earlier hour and has outlasted that hour.
RunExclusive ==
    \A v, w \in Workers :
        /\ pc[v] \in RunPoints /\ pc[w] \in RunPoints
        /\ run[v].task = run[w].task /\ run[v].since = run[w].since
        => v = w

\* A channel that a task names has a row.  A task that never had two runs at
\* once names a channel when it is EXISTS and none when it is ERROR; a run that
\* outlasts its hour may write its channel over the verdict of the next one.
StatusMatchesChannel ==
    \A t \in Tasks : Present(t) =>
        /\ rows[t].channel \in channels \cup {NoChannel}
        /\ t \notin overlaps =>
              /\ rows[t].status = "EXISTS" => rows[t].channel # NoChannel
              /\ rows[t].status = "ERROR" => rows[t].channel = NoChannel

\* last_parsed_at is never older than a claim of the task: no late write of a
\* worker takes back the mark that keeps the others from claiming again.
LastParsedCoversClaims ==
    \A t \in Tasks : Present(t) =>
        \A i \in 1 .. Len(claims[t]) : claims[t][i] <= rows[t].lastParsed

\* No worker starts a run of a task that is settled as EXISTS or ERROR, however
\* stale its snapshot.  A run that was under way when the task was settled may
\* still write a verdict of its own over it (change_task_status looks at no
\* status), and ends with that; when no such run is left, the status is final.
SettledIsFinal ==
    [][\A t \in Tasks :
         Present(t) /\ rows[t].status \in {"EXISTS", "ERROR"} =>
           /\ Runners(t)' \subseteq Runners(t)
           /\ Present(t)' /\ rows'[t].status # rows[t].status =>
                \E w \in Runners(t) : w \notin Runners(t)']_vars

\* One row per channel stays scheduled: two IDLE tasks never have the same
\* channel.
OneIdleTaskPerChannel ==
    \A t, u \in Tasks :
        /\ Idle(t) /\ Idle(u)
        /\ rows[t].channel = rows[u].channel /\ rows[t].channel # NoChannel
        => t = u

\* A task becomes EXISTS only while another task keeps its channel parsed.
ExistsHasLiveSibling ==
    [][\A t \in Tasks :
         Idle(t) /\ Present(t)' /\ rows'[t].status = "EXISTS"
         => \E u \in Tasks \ {t} : Idle(u)' /\ rows'[u].channel = rows'[t].channel]_vars

\* AddTask spreads the tasks over the minutes of an hour: as long as no task
\* has left the schedule (and, after two runs at once, come back to it), two
\* buckets differ by at most the number of requests that choose from the same
\* stale counts.
LoadSpread ==
    overlaps = {} /\ (\A t \in Tasks : rows[t] = NoRow \/ Idle(t)) =>
        \A b, c \in Buckets : Load(b) - Load(c) <= Cardinality(Requests)

\* A task that was there when the hour began, was not parsed since and whose
\* minute has come is claimed, or leaves the schedule, even if the clock
\* stays where it is: no race, crash or skipped lock keeps it waiting for ever.
Waiting(t) ==
    /\ Idle(t) /\ rows[t].bucket <= minute
    /\ rows[t].created < hour /\ rows[t].lastParsed < hour
    /\ \A i \in 1 .. Len(claims[t]) : claims[t][i] < hour
DueTaskIsClaimed == \A t \in Tasks : Waiting(t) ~> ~Waiting(t)
-----------------------------------------------------------------------------
(* The inductive invariant of the claim protocol.  The statements about    *)
(* hours need a claim and a settling transaction to commit in the hour     *)
(* they stamped: {"locked", "settling"} is part of Prompt.                 *)

\* A worker past its claim holds a task, and past _get_channel a channel.
RunHasTask ==
    \A w \in Workers :
        /\ pc[w] \in {"locked"} \cup RunPoints => run[w].task \in Tasks
        /\ pc[w] \in {"dupcheck", "fetch", "save", "saved", "messages"}
             => run[w].channel \in Channels

\* A claim transaction has locked the row it is about to write, and found it IDLE.
LockHeld ==
    \A w \in Workers : pc[w] = "locked" =>
        /\ Present(run[w].task) /\ lock[run[w].task] = w
        /\ rows[run[w].task].status = "IDLE"

\* No claim is ahead of the clock, and a task without a row has none.
ClaimsBehindClock ==
    \A t \in Tasks :
        /\ \A i \in 1 .. Len(claims[t]) : claims[t][i] <= hour
        /\ ~Present(t) => claims[t] = <<>>

\* What a claim transaction has read stays true until it commits: its clock is
\* not ahead, and its task was last parsed before its hour began.
ClaimHolds ==
    \A w \in Workers :
        /\ pc[w] \in ClaimPoints => tx[w].hour <= hour
        /\ pc[w] = "locked" =>
             /\ rows[run[w].task].lastParsed < tx[w].hour
             /\ hour <= tx[w].stamp

\* The time a settling transaction is about to write is not in the past.
SettlesOnTime == \A w \in Workers : pc[w] = "settling" => hour <= run[w].stamp

ClaimInv == /\ TypeOK /\ RunHasTask /\ LockHeld
            /\ ClaimsBehindClock /\ ClaimHolds /\ SettlesOnTime
            /\ LastParsedCoversClaims /\ ClaimedOncePerHour
=============================================================================
