------------------------ MODULE ParsingTasks_proofs ------------------------
(***************************************************************************)
(* Theorems about ParsingTasks, for every set of tasks, workers, channels  *)
(* and requests, every number of minutes and every bound of the clock.     *)
(***************************************************************************)
EXTENDS ParsingTasks, FiniteSetTheorems, TLAPS

TypeInv == TypeOK /\ RunHasTask /\ LockHeld

\* The records a worker and a request start from have their types.
LEMMA NothingTyped ==
    /\ 0 \in Buckets
    /\ NoTx \in ClaimTx /\ NoRun \in TaskRun /\ NoAdd \in Adding
<1>1. 0 \in Buckets
  BY MinutesAssumption DEF Buckets
<1>2. QED
  BY <1>1 DEF NoTx, NoRun, NoAdd, ClaimTx, TaskRun, Adding, Statuses

\* Leaving a task keeps the types of all that Leave writes.
LEMMA LeaveTyped ==
    ASSUME TypeInv, NEW w \in Workers, Leave(w)
    PROVE  /\ pc' \in [Workers -> WorkerPoints]
           /\ lock' \in [Tasks -> Workers \cup {Scheduler, NoOwner}]
           /\ tx' \in [Workers -> ClaimTx]
           /\ run' \in [Workers -> TaskRun]
           /\ RunHasTask'
  BY NothingTyped
  DEF Leave, Go, TypeInv, TypeOK, RunHasTask, WorkerPoints, RunPoints, ClaimPoints

\* A verdict only moves the worker to the handler.
LEMMA FailsTyped ==
    ASSUME TypeInv, NEW w \in Workers, NEW v \in Statuses, Fails(w, v),
           pc[w] \in RunPoints
    PROVE  /\ pc' \in [Workers -> WorkerPoints]
           /\ run' \in [Workers -> TaskRun]
           /\ RunHasTask'
<1>1. run[w] \in TaskRun
  BY DEF TypeInv, TypeOK
<1>2. [run[w] EXCEPT !.verdict = v] \in TaskRun
  BY <1>1 DEF TaskRun
<1>3. run' \in [Workers -> TaskRun]
  BY <1>2 DEF Fails, TypeInv, TypeOK
<1>4. pc' \in [Workers -> WorkerPoints]
  BY DEF Fails, Go, TypeInv, TypeOK, WorkerPoints, RunPoints
<1>5. RunHasTask'
  BY <1>1 DEF Fails, Go, TypeInv, TypeOK, TaskRun, RunHasTask, RunPoints
<1>6. QED
  BY <1>3, <1>4, <1>5

\* While a claim transaction is open, no step of another worker touches its
\* locals, its lock, or the row and the claims of its task.
LEMMA ClaimIsolated ==
    ASSUME TypeInv, NEW v \in Workers, NEW w \in Workers, v # w,
           pc[v] = "locked", WorkerStep(w) \/ Abandon(w)
    PROVE  LET u == run[v].task IN
           /\ pc'[v] = pc[v] /\ run'[v] = run[v] /\ tx'[v] = tx[v]
           /\ lock'[u] = v /\ rows'[u] = rows[u] /\ claims'[u] = claims[u]
<1> DEFINE u == run[v].task
<1> USE DEF TypeInv, TypeOK
<1>1. u \in Tasks /\ lock[u] = v /\ Present(u) /\ v # NoOwner
  BY MarkersAssumption DEF RunHasTask, LockHeld
<1>2. ASSUME Leave(w) PROVE pc'[v] = pc[v] /\ run'[v] = run[v] /\ tx'[v] = tx[v] /\ lock'[u] = v
  BY <1>1, <1>2 DEF Leave, Go
<1>3. CASE ClaimAsk(w) \/ ClaimSnapshot(w)
  BY <1>1, <1>3 DEF ClaimAsk, ClaimSnapshot, Go, db
<1>4. CASE ClaimLock(w)
  <2>1. u \notin Lockable(tx[w].seen, tx[w].hour, tx[w].minute)
    BY <1>1 DEF Lockable
  <2>2. QED
    BY <1>1, <1>4, <2>1 DEF ClaimLock, Go
<1>5. CASE ClaimNone(w) \/ Abandon(w)
  BY <1>2, <1>5 DEF ClaimNone, Abandon
<1>6. CASE ClaimCommit(w)
  <2>1. run[w].task # u /\ run[w].task \in Tasks
    BY <1>1, <1>6 DEF ClaimCommit, LockHeld, RunHasTask
  <2>2. QED
    BY <1>1, <1>6, <2>1 DEF ClaimCommit, Go
<1>7. CASE Verify(w)
  BY <1>1, <1>2, <1>7 DEF Verify, Go
<1>8. CASE Resolve(w) \/ DupCheck(w) \/ FetchChannel(w)
  BY <1>1, <1>8 DEF Resolve, ResolveInvite, ResolveName, DupCheck, FetchChannel, Fails, Go, db
<1>9. CASE SaveTask(w) \/ ProcessMessages(w) \/ SettleRead(w)
  BY <1>1, <1>2, <1>9 DEF SaveTask, ProcessMessages, SettleRead, Fails, Go
<1>10. CASE SaveCommit(w)
  <2>1. run[w].task # u
    BY <1>1, <1>10 DEF SaveCommit
  <2>2. QED
    BY <1>1, <1>2, <1>10, <2>1 DEF SaveCommit, Go
<1>11. CASE SettleCommit(w)
  <2>1. run[w].task # u
    BY <1>1, <1>11 DEF SettleCommit
  <2>2. QED
    BY <1>1, <1>2, <1>11, <2>1 DEF SettleCommit
<1>12. QED
  BY <1>3, <1>4, <1>5, <1>6, <1>7, <1>8, <1>9, <1>10, <1>11 DEF WorkerStep, Claim, Run

\* A worker enters a claim transaction by ClaimLock only.
LEMMA LockedByClaimLock ==
    ASSUME TypeInv, NEW w \in Workers, WorkerStep(w) \/ Abandon(w), pc'[w] = "locked"
    PROVE  ClaimLock(w)
  BY DEF TypeInv, TypeOK, WorkerStep, Claim, Run, Abandon, Leave, Fails, Go, ClaimAsk,
         ClaimSnapshot, ClaimNone, ClaimCommit, Verify, Resolve, ResolveInvite, ResolveName, DupCheck, FetchChannel,
         SaveTask, SaveCommit, ProcessMessages, SettleRead, SettleCommit

\* The row a claim has locked is neither deleted nor unlocked under it.
LEMMA LockStep == TypeInv /\ [Next]_vars => LockHeld'
<1> DEFINE Held(v) == /\ rows'[run'[v].task] \notin {NoRow, Deleted}
                      /\ lock'[run'[v].task] = v
                      /\ rows'[run'[v].task].status = "IDLE"
<1> SUFFICES ASSUME TypeInv, [Next]_vars, NEW v \in Workers, pc'[v] = "locked"
             PROVE  Held(v)
  BY DEF LockHeld, Present
<1> USE DEF TypeInv, TypeOK
<1>1. ASSUME pc[v] = "locked" PROVE /\ run[v].task \in Tasks /\ Present(run[v].task)
                                    /\ lock[run[v].task] = v /\ v # NoOwner
                                    /\ rows[run[v].task].status = "IDLE"
  BY <1>1, MarkersAssumption DEF LockHeld, RunHasTask
<1>2. CASE Tick \/ UNCHANGED vars \/ \E r \in Requests : \E t \in Tasks : AddFind(r, t)
  BY <1>1, <1>2 DEF Tick, vars, AddFind, Present
<1>3. ASSUME NEW r \in Requests, AddInsert(r)
      PROVE  Held(v)
  BY <1>1, <1>3 DEF AddInsert, Present
<1>4. ASSUME NEW t \in Tasks, OperatorDelete(t)
      PROVE  Held(v)
  BY <1>1, <1>4 DEF OperatorDelete, Present
<1>5. ASSUME NEW w \in Workers, w # v, WorkerStep(w) \/ Abandon(w)
      PROVE  Held(v)
  <2>1. pc[v] = "locked"
    BY <1>5 DEF WorkerStep, Claim, Run, Abandon, Leave, Fails, Go, ClaimAsk,
         ClaimSnapshot, ClaimLock, ClaimNone, ClaimCommit, Verify, Resolve, ResolveInvite, ResolveName, DupCheck, FetchChannel,
         SaveTask, SaveCommit, ProcessMessages, SettleRead, SettleCommit
  <2>2. QED
    BY <1>1, <1>5, <2>1, ClaimIsolated DEF Present
<1>6. ASSUME WorkerStep(v) \/ Abandon(v)
      PROVE  Held(v)
  <2>1. ClaimLock(v)
    BY <1>6, LockedByClaimLock
  <2>2. PICK t \in FirstOf(Lockable(tx[v].seen, tx[v].hour, tx[v].minute)) :
           /\ lock' = [s \in Tasks |-> IF s \in Lockable(tx[v].seen, tx[v].hour, tx[v].minute)
                                       THEN v ELSE lock[s]]
           /\ run' = [run EXCEPT ![v].task = t]
    BY <2>1 DEF ClaimLock
  <2>3. /\ t \in Lockable(tx[v].seen, tx[v].hour, tx[v].minute) /\ t \in Tasks /\ Present(t)
        /\ rows[t].status = "IDLE"
    BY DEF FirstOf, Lockable, Due
  <2>4. rows' = rows /\ run'[v].task = t
    BY <2>1, <2>2 DEF ClaimLock, TaskRun
  <2>5. QED
    BY <2>2, <2>3, <2>4 DEF Present
<1>7. QED
  BY <1>2, <1>3, <1>4, <1>5, <1>6, OperatorAssumption DEF Next, RequestStep

\* The type of every table and process, and what a run holds at each point of
\* it, are kept by every step of AddTask, ClaimTask and the worker's run.
LEMMA TypeStep == TypeInv /\ [Next]_vars => TypeInv'
<1> SUFFICES ASSUME TypeInv, [Next]_vars PROVE (TypeOK /\ RunHasTask)'
  BY LockStep DEF TypeInv
<1> USE DEF TypeInv, TypeOK
<1>1. CASE Tick
  <2>1. hour' \in Nat /\ minute' \in Buckets
    BY <1>1, MinutesAssumption DEF Tick, NextMinute, NextHour, Buckets
  <2>2. QED
    BY <1>1, <2>1 DEF Tick, RunHasTask
<1>2. ASSUME NEW r \in Requests, NEW t \in Tasks, AddFind(r, t) PROVE (TypeOK /\ RunHasTask)'
  <2>1. BucketChoices \subseteq Buckets
    BY DEF BucketChoices
  <2>2. QED
    BY <1>2, <2>1 DEF AddFind, RunHasTask, Adding
<1>3. ASSUME NEW r \in Requests, AddInsert(r) PROVE (TypeOK /\ RunHasTask)'
  <2>1. adding' \in [Requests -> Adding]
    BY <1>3, NothingTyped DEF AddInsert
  <2>2. [status |-> "IDLE", channel |-> NoChannel, bucket |-> adding[r].bucket,
         lastParsed |-> Never, created |-> hour] \in Row
    BY DEF Row, Statuses, Adding, Never
  <2>3. rows' \in [Tasks -> Row \cup {NoRow, Deleted}]
    BY <1>3, <2>2 DEF AddInsert
  <2>4. QED
    BY <1>3, <2>1, <2>3 DEF AddInsert, RunHasTask
<1>4. ASSUME NEW t \in Tasks, OperatorDelete(t) PROVE (TypeOK /\ RunHasTask)'
  <2>1. claims' \in [Tasks -> Seq(Nat)]
    BY <1>4 DEF OperatorDelete
  <2>2. QED
    BY <1>4, <2>1 DEF OperatorDelete, RunHasTask
<1>5. ASSUME NEW w \in Workers, ClaimAsk(w) PROVE (TypeOK /\ RunHasTask)'
  BY <1>5 DEF ClaimAsk, Go, ClaimTx, RunHasTask, WorkerPoints, ClaimPoints, RunPoints, db
<1>6. ASSUME NEW w \in Workers, ClaimSnapshot(w) PROVE (TypeOK /\ RunHasTask)'
  <2>1. ClaimedSince(tx[w].hour) \subseteq Tasks
    BY DEF ClaimedSince
  <2>2. QED
    BY <1>6, <2>1 DEF ClaimSnapshot, Go, ClaimTx, RunHasTask, WorkerPoints, ClaimPoints, RunPoints, db
<1>7. ASSUME NEW w \in Workers, ClaimLock(w) PROVE (TypeOK /\ RunHasTask)'
  <2>1. PICK t \in Tasks, n \in Nat :
           /\ run' = [run EXCEPT ![w].task = t]
           /\ tx' = [tx EXCEPT ![w].stamp = n]
    <3>1. Stored(hour) \subseteq Nat
      BY DEF Stored
    <3>2. QED
      BY <1>7, <3>1 DEF ClaimLock, FirstOf, Lockable
  <2>2. lock' \in [Tasks -> Workers \cup {Scheduler, NoOwner}]
    BY <1>7 DEF ClaimLock
  <2>3. run' \in [Workers -> TaskRun] /\ tx' \in [Workers -> ClaimTx]
    <3>1. run[w] \in TaskRun /\ tx[w] \in ClaimTx
      OBVIOUS
    <3>2. /\ [run[w] EXCEPT !.task = t] \in TaskRun
          /\ [tx[w] EXCEPT !.stamp = n] \in ClaimTx
      BY <3>1 DEF TaskRun, ClaimTx
    <3>3. QED
      BY <2>1, <3>2
  <2>4. RunHasTask'
    BY <1>7, <2>1 DEF ClaimLock, Go, RunHasTask, WorkerPoints, ClaimPoints, RunPoints, TaskRun
  <2>5. QED
    BY <1>7, <2>2, <2>3, <2>4 DEF ClaimLock, Go, WorkerPoints, ClaimPoints
<1>8. ASSUME NEW w \in Workers, ClaimNone(w) PROVE (TypeOK /\ RunHasTask)'
  BY <1>8, LeaveTyped DEF ClaimNone
<1>9. ASSUME NEW w \in Workers, ClaimCommit(w) PROVE (TypeOK /\ RunHasTask)'
  <2> DEFINE t == run[w].task
  <2>1. t \in Tasks
    BY <1>9 DEF ClaimCommit, RunHasTask
  <2>2. claims' \in [Tasks -> Seq(Nat)]
    BY <1>9, <2>1 DEF ClaimCommit
  <2>3. rows' \in [Tasks -> Row \cup {NoRow, Deleted}]
    <3>1. rows[t] \in Row
      BY <1>9, <2>1 DEF ClaimCommit, LockHeld, Present
    <3>2. [rows[t] EXCEPT !.lastParsed = tx[w].stamp] \in Row
      BY <3>1 DEF Row, ClaimTx
    <3>3. QED
      BY <1>9, <2>1, <3>2 DEF ClaimCommit
  <2>4. lock' \in [Tasks -> Workers \cup {Scheduler, NoOwner}]
    BY <1>9 DEF ClaimCommit
  <2>5. RunHasTask'
    BY <1>9, <2>1 DEF ClaimCommit, Go, RunHasTask, WorkerPoints, ClaimPoints, RunPoints, TaskRun
  <2>6. run' \in [Workers -> TaskRun]
    <3>1. [run[w] EXCEPT !.since = hour] \in TaskRun
      BY DEF TaskRun
    <3>2. QED
      BY <1>9, <3>1 DEF ClaimCommit
  <2>7. overlaps' \subseteq Tasks
    BY <1>9, <2>1 DEF ClaimCommit
  <2>8. QED
    BY <1>9, <2>2, <2>3, <2>4, <2>5, <2>6, <2>7, NothingTyped
    DEF ClaimCommit, Go, WorkerPoints, ClaimPoints, RunPoints
<1>10. ASSUME NEW w \in Workers, Verify(w) PROVE (TypeOK /\ RunHasTask)'
  <2>1. CASE Leave(w)
    BY <1>10, <2>1, LeaveTyped DEF Verify
  <2>2. CASE Go(w, "resolve") /\ UNCHANGED <<lock, tx, run>>
    BY <1>10, <2>2 DEF Verify, Go, RunHasTask, WorkerPoints, ClaimPoints, RunPoints
  <2>3. QED
    BY <1>10, <2>1, <2>2 DEF Verify
<1>11. ASSUME NEW w \in Workers, Resolve(w) PROVE (TypeOK /\ RunHasTask)'
  <2>1. ASSUME NEW c \in Resolves[run[w].task], Go(w, "dupcheck"),
               run' = [run EXCEPT ![w].channel = c]
        PROVE  (TypeOK /\ RunHasTask)'
    <3>1. c \in Channels
      BY <1>11, ResolvesAssumption DEF Resolve, ResolveInvite, ResolveName, RunHasTask, RunPoints
    <3>2. run' \in [Workers -> TaskRun]
      <4>1. [run[w] EXCEPT !.channel = c] \in TaskRun
        BY <3>1 DEF TaskRun
      <4>2. QED
        BY <2>1, <4>1
    <3>3. QED
      BY <1>11, <2>1, <3>1, <3>2
      DEF Resolve, ResolveInvite, ResolveName, Go, RunHasTask, WorkerPoints, ClaimPoints, RunPoints, db, TaskRun
  <2>2. ASSUME NEW v \in Statuses, Fails(w, v) PROVE (TypeOK /\ RunHasTask)'
    BY <1>11, <2>2, FailsTyped DEF Resolve, ResolveInvite, ResolveName, RunPoints, db
  <2>3. QED
    BY <1>11, <2>1, <2>2 DEF Resolve, ResolveInvite, ResolveName, Statuses
<1>12. ASSUME NEW w \in Workers, DupCheck(w) PROVE (TypeOK /\ RunHasTask)'
  <2>1. CASE Fails(w, "EXISTS")
    BY <1>12, <2>1, FailsTyped DEF DupCheck, RunPoints, Statuses, db
  <2>2. CASE Go(w, "fetch") /\ UNCHANGED run
    BY <1>12, <2>2 DEF DupCheck, Go, RunHasTask, WorkerPoints, ClaimPoints, RunPoints, db
  <2>3. QED
    BY <1>12, <2>1, <2>2 DEF DupCheck
<1>13. ASSUME NEW w \in Workers, FetchChannel(w) PROVE (TypeOK /\ RunHasTask)'
  <2>1. CASE Fails(w, "ERROR")
    BY <1>13, <2>1, FailsTyped DEF FetchChannel, RunPoints, Statuses, db
  <2>2. CASE Go(w, "save") /\ run' = [run EXCEPT ![w].fresh = run[w].channel \notin channels]
    <3>1. run' \in [Workers -> TaskRun]
      <4>1. ASSUME NEW b \in BOOLEAN, run' = [run EXCEPT ![w].fresh = b]
            PROVE  run' \in [Workers -> TaskRun]
        <5>1. [run[w] EXCEPT !.fresh = b] \in TaskRun
          BY DEF TaskRun
        <5>2. QED
          BY <4>1, <5>1
      <4>2. (run[w].channel \notin channels) \in BOOLEAN
        OBVIOUS
      <4>3. QED
        BY <2>2, <4>1, <4>2, Zenon
    <3>2. QED
      BY <1>13, <2>2, <3>1
      DEF FetchChannel, Go, RunHasTask, WorkerPoints, ClaimPoints, RunPoints, db, TaskRun
  <2>3. QED
    BY <1>13, <2>1, <2>2 DEF FetchChannel
<1>14. ASSUME NEW w \in Workers, SaveTask(w) PROVE (TypeOK /\ RunHasTask)'
  <2>1. CASE Leave(w)
    BY <1>14, <2>1, LeaveTyped DEF SaveTask
  <2>2. CASE Fails(w, "ERROR") /\ UNCHANGED <<lock, tx>>
    BY <1>14, <2>2, FailsTyped DEF SaveTask, RunPoints, Statuses
  <2>3. CASE /\ Present(run[w].task) /\ Go(w, "saved") /\ UNCHANGED <<lock, tx>>
             /\ run' = [run EXCEPT ![w].read.channel = rows[run[w].task].channel]
    <3>1. rows[run[w].task] \in Row
      BY <1>14, <2>3 DEF SaveTask, Present, RunHasTask, RunPoints
    <3>2. run' \in [Workers -> TaskRun]
      <4>1. run[w] \in TaskRun /\ rows[run[w].task].channel \in Channels \cup {NoChannel}
        BY <3>1 DEF Row
      <4>2. [run[w].read EXCEPT !.channel = rows[run[w].task].channel]
               \in [status : Statuses, channel : Channels \cup {NoChannel}]
        BY <4>1 DEF TaskRun
      <4>3. [run[w] EXCEPT !.read = [run[w].read EXCEPT !.channel = rows[run[w].task].channel]]
               \in TaskRun
        BY <4>1, <4>2 DEF TaskRun
      <4>4. QED
        BY <2>3, <4>3
    <3>3. QED
      BY <1>14, <2>3, <3>2
      DEF SaveTask, Go, RunHasTask, WorkerPoints, ClaimPoints, RunPoints, TaskRun
  <2>4. QED
    BY <1>14, <2>1, <2>2, <2>3 DEF SaveTask
<1>15. ASSUME NEW w \in Workers, SaveCommit(w) PROVE (TypeOK /\ RunHasTask)'
  <2>1. CASE Leave(w) /\ UNCHANGED <<rows, channels>>
    BY <1>15, <2>1, LeaveTyped DEF SaveCommit
  <2>2. CASE /\ Present(run[w].task) \/ run[w].read.channel = run[w].channel
             /\ channels' = channels \cup {run[w].channel}
             /\ rows' = IF run[w].read.channel = run[w].channel THEN rows
                        ELSE [rows EXCEPT ![run[w].task].channel = run[w].channel]
             /\ Go(w, "messages")
             /\ UNCHANGED <<lock, tx, run>>
    <3>1. run[w].channel \in Channels /\ run[w].task \in Tasks
      BY <1>15 DEF SaveCommit, RunHasTask, RunPoints
    <3>2. rows' \in [Tasks -> Row \cup {NoRow, Deleted}]
      <4>1. CASE run[w].read.channel = run[w].channel
        BY <2>2, <4>1
      <4>2. CASE run[w].read.channel # run[w].channel
        <5>1. rows[run[w].task] \in Row
          BY <2>2, <3>1, <4>2 DEF Present
        <5>2. [rows[run[w].task] EXCEPT !.channel = run[w].channel] \in Row
          BY <3>1, <5>1 DEF Row
        <5>3. QED
          BY <2>2, <4>2, <5>2
      <4>3. QED
        BY <4>1, <4>2
    <3>3. QED
      BY <1>15, <2>2, <3>1, <3>2
      DEF SaveCommit, Go, RunHasTask, WorkerPoints, ClaimPoints, RunPoints
  <2>3. QED
    BY <1>15, <2>1, <2>2 DEF SaveCommit
<1>16. ASSUME NEW w \in Workers, ProcessMessages(w) PROVE (TypeOK /\ RunHasTask)'
  <2>1. CASE Leave(w)
    BY <1>16, <2>1, LeaveTyped DEF ProcessMessages
  <2>2. CASE Fails(w, "ERROR") /\ UNCHANGED <<lock, tx>>
    BY <1>16, <2>2, FailsTyped DEF ProcessMessages, RunPoints, Statuses
  <2>3. QED
    BY <1>16, <2>1, <2>2 DEF ProcessMessages
<1>17. ASSUME NEW w \in Workers, SettleRead(w) PROVE (TypeOK /\ RunHasTask)'
  <2>1. CASE Leave(w)
    BY <1>17, <2>1, LeaveTyped DEF SettleRead
  <2>2. CASE ~Leave(w)
    <3>1. PICK n \in Nat :
            run' = [run EXCEPT
              ![w].read = [status |-> rows[run[w].task].status,
                           channel |-> rows[run[w].task].channel],
              ![w].stamp = n]
      <4>1. Stored(hour) \subseteq Nat
        BY DEF Stored
      <4>2. QED
        BY <1>17, <2>2, <4>1 DEF SettleRead
    <3>2. rows[run[w].task] \in Row
      BY <1>17, <2>2 DEF SettleRead, Present, RunHasTask, RunPoints
    <3>3. run' \in [Workers -> TaskRun]
      <4>1. [run[w] EXCEPT !.read = [status |-> rows[run[w].task].status,
                                     channel |-> rows[run[w].task].channel]] \in TaskRun
        BY <3>2 DEF TaskRun, Row
      <4>2. [[run[w] EXCEPT !.read = [status |-> rows[run[w].task].status,
                                     channel |-> rows[run[w].task].channel]]
               EXCEPT !.stamp = n] \in TaskRun
        BY <4>1 DEF TaskRun
      <4>3. QED
        BY <3>1, <4>2
    <3>4. QED
      BY <1>17, <2>2, <3>1, <3>3
      DEF SettleRead, Go, RunHasTask, WorkerPoints, ClaimPoints, RunPoints, TaskRun
  <2>3. QED
    BY <2>1, <2>2
<1>18. ASSUME NEW w \in Workers, SettleCommit(w) PROVE (TypeOK /\ RunHasTask)'
  <2>1. rows' \in [Tasks -> Row \cup {NoRow, Deleted}]
    <3>1. CASE Present(run[w].task)
      <4>1. rows[run[w].task] \in Row
        BY <1>18, <3>1 DEF SettleCommit, Present, RunHasTask, RunPoints
      <4>2. Settled(w) \in Row
        BY <4>1 DEF Settled, VerdictChannel, Row, TaskRun
      <4>3. QED
        BY <1>18, <3>1, <4>2 DEF SettleCommit
    <3>2. QED
      BY <1>18, <3>1 DEF SettleCommit
  <2>2. QED
    BY <1>18, <2>1, LeaveTyped DEF SettleCommit
<1>19. ASSUME NEW w \in Workers, Abandon(w) PROVE (TypeOK /\ RunHasTask)'
  BY <1>19, LeaveTyped DEF Abandon
<1>20. CASE UNCHANGED vars
  BY <1>20 DEF vars, RunHasTask
<1>21. OperatorTasks \subseteq Tasks
  BY OperatorAssumption
<1>22. QED
  BY <1>1, <1>2, <1>3, <1>4, <1>5, <1>6, <1>7, <1>8, <1>9, <1>10, <1>11, <1>12, <1>13,
     <1>14, <1>15, <1>16, <1>17, <1>18, <1>19, <1>20, <1>21
  DEF Next, RequestStep, WorkerStep, Claim, Run

\* TypeOK: at every moment the task table, the claim history and the locals of
\* every worker and request hold values the code can hold.
THEOREM TypeCorrect == Spec => []TypeOK
<1>1. Init => TypeInv
  BY NothingTyped DEF Init, TypeInv, TypeOK, RunHasTask, LockHeld, WorkerPoints, RunPoints, Never
<1>2. TypeInv => TypeOK
  BY DEF TypeInv
<1>3. QED
  BY <1>1, <1>2, TypeStep, PTL DEF Spec
-----------------------------------------------------------------------------
(* One claim per task and hour.  The assumption: a transaction that has    *)
(* stamped a time commits before the hour of the clock changes.            *)

PromptCommits == {"locked", "settling"} \subseteq Prompt

\* The statements about the hours that one step must keep.
HoursInv == ClaimsBehindClock /\ ClaimHolds /\ SettlesOnTime
            /\ LastParsedCoversClaims /\ ClaimedOncePerHour

\* A step that writes no row, no claim and no clock, and in which workers only
\* leave points where they were bound by a time, keeps what is true of the hours.
LEMMA NoHourChange ==
    ASSUME TypeInv, HoursInv, TypeInv',
           UNCHANGED <<hour, claims>>,
           \A t \in Tasks : /\ Present(t)' <=> Present(t)
                            /\ Present(t) => rows'[t].lastParsed = rows[t].lastParsed,
           \A v \in Workers :
              /\ pc'[v] \in ClaimPoints => pc[v] \in ClaimPoints /\ tx'[v].hour = tx[v].hour
              /\ pc'[v] = "locked" => /\ pc[v] = "locked" /\ tx'[v] = tx[v]
                                      /\ run'[v].task = run[v].task
              /\ pc'[v] = "settling" => pc[v] = "settling" /\ run'[v].stamp = run[v].stamp
    PROVE  HoursInv'
<1>1. ClaimsBehindClock'
  BY DEF HoursInv, ClaimsBehindClock
<1>2. ClaimHolds'
  BY DEF HoursInv, ClaimHolds, TypeInv, LockHeld, RunHasTask
<1>3. SettlesOnTime'
  BY DEF HoursInv, SettlesOnTime
<1>4. LastParsedCoversClaims' /\ ClaimedOncePerHour'
  BY DEF HoursInv, LastParsedCoversClaims, ClaimedOncePerHour
<1>5. QED
  BY <1>1, <1>2, <1>3, <1>4 DEF HoursInv

\* The commit of a claim: the locked task was last parsed before the hour the
\* claim asked for, so no claim of this hour is in its history yet.
LEMMA ClaimCommitStep ==
    ASSUME TypeInv, HoursInv, TypeInv', NEW w \in Workers, ClaimCommit(w)
    PROVE  HoursInv' /\ \A i \in 1 .. Len(claims[run[w].task]) : claims[run[w].task][i] < hour
<1> DEFINE t == run[w].task
<1> USE DEF TypeInv, TypeOK
<1>1. /\ t \in Tasks /\ rows[t] \in Row /\ Present(t) /\ lock[t] = w
      /\ rows[t].lastParsed < tx[w].hour /\ tx[w].hour <= hour /\ hour <= tx[w].stamp
      /\ hour \in Nat /\ tx[w].hour \in Nat /\ tx[w].stamp \in Nat
  BY DEF ClaimCommit, RunHasTask, LockHeld, Present, HoursInv, ClaimHolds, ClaimPoints, ClaimTx
<1>2. rows[t].lastParsed \in Int
  BY <1>1 DEF Row, Never
<1>3. \A i \in 1 .. Len(claims[t]) : claims[t][i] \in Nat /\ claims[t][i] < hour
  BY <1>1, <1>2 DEF HoursInv, LastParsedCoversClaims
<1>4. /\ claims'[t] = Append(claims[t], hour)
      /\ \A u \in Tasks \ {t} : claims'[u] = claims[u] /\ rows'[u] = rows[u]
      /\ rows'[t].lastParsed = tx[w].stamp
      /\ hour' = hour
  BY <1>1 DEF ClaimCommit, Row
<1>5. /\ Len(claims'[t]) = Len(claims[t]) + 1
      /\ \A i \in 1 .. Len(claims[t]) : claims'[t][i] = claims[t][i]
      /\ claims'[t][Len(claims[t]) + 1] = hour
      /\ Len(claims[t]) \in Nat
  BY <1>1, <1>4
<1>6. rows'[t] \notin {NoRow, Deleted}
  <2>1. rows'[t] = [rows[t] EXCEPT !.lastParsed = tx[w].stamp]
    BY <1>1 DEF ClaimCommit
  <2>2. rows'[t] \in Row
    BY <1>1, <2>1 DEF Row
  <2>3. QED
    BY <2>2, NoRowAssumption
<1>7. ClaimsBehindClock'
  <2>1. ASSUME NEW i \in 1 .. Len(claims'[t]) PROVE claims'[t][i] <= hour
    <3>1. CASE i = Len(claims[t]) + 1
      BY <1>1, <1>5, <3>1
    <3>2. CASE i \in 1 .. Len(claims[t])
      <4>1. claims'[t][i] = claims[t][i] /\ claims[t][i] \in Nat /\ claims[t][i] < hour
        BY <1>3, <1>5, <3>2
      <4>2. QED
        BY <1>1, <4>1
    <3>3. QED
      BY <1>5, <3>1, <3>2
  <2>2. ASSUME NEW u \in Tasks
        PROVE  /\ \A i \in 1 .. Len(claims'[u]) : claims'[u][i] <= hour'
               /\ ~Present(u)' => claims'[u] = <<>>
    <3>1. CASE u = t
      BY <1>4, <1>6, <2>1, <3>1 DEF Present
    <3>2. CASE u # t
      BY <1>4, <3>2 DEF ClaimsBehindClock, HoursInv, Present
    <3>3. QED
      BY <3>1, <3>2
  <2>3. QED
    BY <2>2 DEF ClaimsBehindClock
<1>8. ClaimHolds'
  <2>1. ASSUME NEW v \in Workers, v # w, pc'[v] = "locked"
        PROVE  rows'[run'[v].task].lastParsed < tx'[v].hour /\ hour' <= tx'[v].stamp
    <3>1. pc[v] = "locked"
      BY <2>1 DEF ClaimCommit, Go
    <3>2. run'[v] = run[v] /\ tx'[v] = tx[v] /\ rows'[run[v].task] = rows[run[v].task]
      BY <2>1, <3>1, ClaimIsolated DEF WorkerStep, Claim
    <3>3. QED
      BY <1>4, <3>1, <3>2 DEF HoursInv, ClaimHolds
  <2>2. pc'[w] = "verify"
    BY DEF ClaimCommit, Go
  <2>3. ASSUME NEW v \in Workers, v # w, pc'[v] \in ClaimPoints
        PROVE  tx'[v].hour <= hour'
    BY <1>4, <2>3 DEF ClaimCommit, Go, HoursInv, ClaimHolds
  <2>4. QED
    BY <2>1, <2>2, <2>3 DEF ClaimHolds, ClaimPoints
<1>9. SettlesOnTime'
  BY <1>4 DEF SettlesOnTime, HoursInv, ClaimCommit, Go
<1>10. LastParsedCoversClaims'
  <2>1. ASSUME NEW i \in 1 .. Len(claims'[t]) PROVE claims'[t][i] <= rows'[t].lastParsed
    BY <1>1, <1>3, <1>4, <1>5
  <2>2. QED
    BY <1>4, <2>1 DEF LastParsedCoversClaims, HoursInv, Present
<1>11. ClaimedOncePerHour'
  <2>1. ASSUME NEW i \in 1 .. Len(claims'[t]), NEW j \in 1 .. Len(claims'[t]), i < j
        PROVE  claims'[t][i] < claims'[t][j]
    <3>1. i \in 1 .. Len(claims[t])
      BY <1>5, <2>1
    <3>2. CASE j = Len(claims[t]) + 1
      BY <1>3, <1>5, <3>1, <3>2
    <3>3. CASE j \in 1 .. Len(claims[t])
      BY <1>1, <1>5, <2>1, <3>1, <3>3 DEF HoursInv, ClaimedOncePerHour
    <3>4. QED
      BY <1>5, <3>2, <3>3
  <2>2. QED
    BY <1>4, <2>1 DEF ClaimedOncePerHour, HoursInv
<1>12. QED
  BY <1>3, <1>7, <1>8, <1>9, <1>10, <1>11 DEF HoursInv

\* Every step keeps the statements about the hours.
LEMMA HoursStep == PromptCommits /\ TypeInv /\ HoursInv /\ [Next]_vars => HoursInv'
<1> SUFFICES ASSUME PromptCommits, TypeInv, HoursInv, [Next]_vars PROVE HoursInv'
  OBVIOUS
<1>0. TypeInv'
  BY TypeStep
<1> USE DEF TypeInv, TypeOK
<1>1. CASE Tick
  <2>1. CASE NextMinute
    BY <1>0, <1>1, <2>1, NoHourChange DEF Tick, NextMinute, Present
  <2>2. CASE NextHour
    <3>1. \A v \in Workers : pc[v] # "locked" /\ pc[v] # "settling"
      BY <2>2 DEF NextHour, PromptCommits
    <3>2. hour \in Nat /\ hour' = hour + 1
      BY <2>2 DEF NextHour
    <3>3. ClaimsBehindClock'
      <4>1. \A t \in Tasks : \A i \in 1 .. Len(claims[t]) : claims[t][i] \in Nat
        OBVIOUS
      <4>2. QED
        BY <1>1, <3>2, <4>1 DEF Tick, HoursInv, ClaimsBehindClock, Present
    <3>4. ClaimHolds'
      <4>1. \A v \in Workers : tx[v].hour \in Nat
        BY DEF ClaimTx
      <4>2. QED
        BY <1>1, <3>1, <3>2, <4>1 DEF Tick, HoursInv, ClaimHolds
    <3>5. SettlesOnTime'
      BY <1>1, <3>1 DEF Tick, SettlesOnTime
    <3>6. QED
      BY <1>1, <3>3, <3>4, <3>5
      DEF Tick, HoursInv, LastParsedCoversClaims, ClaimedOncePerHour, Present
  <2>3. QED
    BY <1>1, <2>1, <2>2 DEF Tick
<1>2. ASSUME NEW r \in Requests, NEW t \in Tasks, AddFind(r, t) PROVE HoursInv'
  BY <1>0, <1>2, NoHourChange DEF AddFind, Present
<1>3. ASSUME NEW r \in Requests, AddInsert(r) PROVE HoursInv'
  <2>1. \A t \in Tasks : Present(t) => Present(t)' /\ rows'[t] = rows[t]
    BY <1>3 DEF AddInsert, Present
  <2>2. \A t \in Tasks : ~Present(t) => claims[t] = <<>>
    BY DEF HoursInv, ClaimsBehindClock
  <2>3. UNCHANGED <<hour, claims, lock, pc, tx, run>>
    BY <1>3 DEF AddInsert
  <2>4. ClaimsBehindClock'
    BY <2>1, <2>2, <2>3 DEF ClaimsBehindClock, HoursInv
  <2>5. ClaimHolds' /\ SettlesOnTime'
    BY <2>1, <2>3 DEF ClaimHolds, SettlesOnTime, HoursInv, LockHeld, RunHasTask
  <2>6. LastParsedCoversClaims' /\ ClaimedOncePerHour'
    <3>1. \A t \in Tasks : ~Present(t) => 1 .. Len(claims[t]) = {}
      BY <2>2
    <3>2. ClaimedOncePerHour'
      BY <2>3 DEF ClaimedOncePerHour, HoursInv
    <3>3. ASSUME NEW t \in Tasks, NEW i \in 1 .. Len(claims'[t])
          PROVE  claims'[t][i] <= rows'[t].lastParsed
      <4>1. Present(t) /\ i \in 1 .. Len(claims[t])
        BY <2>3, <3>1
      <4>2. claims[t][i] <= rows[t].lastParsed
        BY <4>1 DEF LastParsedCoversClaims, HoursInv
      <4>3. QED
        BY <2>1, <2>3, <4>1, <4>2
    <3>4. LastParsedCoversClaims'
      BY <3>3, Zenon DEF LastParsedCoversClaims
    <3>5. QED
      BY <3>2, <3>4
  <2>7. QED
    BY <2>4, <2>5, <2>6 DEF HoursInv
<1>4. ASSUME NEW t \in Tasks, OperatorDelete(t) PROVE HoursInv'
  <2>1. /\ claims'[t] = <<>> /\ ~Present(t)'
        /\ \A u \in Tasks \ {t} : claims'[u] = claims[u] /\ rows'[u] = rows[u]
        /\ UNCHANGED <<hour, lock, pc, tx, run>>
    BY <1>4 DEF OperatorDelete, Present
  <2>2. \A v \in Workers : pc[v] = "locked" => run[v].task \in Tasks \ {t}
    BY <1>4, MarkersAssumption DEF OperatorDelete, LockHeld, RunHasTask
  <2>3. ClaimsBehindClock'
    BY <2>1 DEF ClaimsBehindClock, HoursInv, Present
  <2>4. ClaimHolds' /\ SettlesOnTime'
    BY <2>1, <2>2 DEF ClaimHolds, SettlesOnTime, HoursInv
  <2>5. LastParsedCoversClaims' /\ ClaimedOncePerHour'
    <3>1. LastParsedCoversClaims'
      BY <2>1 DEF LastParsedCoversClaims, HoursInv, Present
    <3>2. \A u \in Tasks : claims'[u] = claims[u] \/ 1 .. Len(claims'[u]) = {}
      BY <2>1
    <3>3. ClaimedOncePerHour'
      BY <3>2 DEF ClaimedOncePerHour, HoursInv
    <3>4. QED
      BY <3>1, <3>3
  <2>6. QED
    BY <2>3, <2>4, <2>5 DEF HoursInv
<1>5. ASSUME NEW w \in Workers, ClaimAsk(w) PROVE HoursInv'
  <2>1. /\ UNCHANGED <<hour, rows, claims, lock, run>>
        /\ pc' = [pc EXCEPT ![w] = "asked"] /\ tx'[w].hour = hour
        /\ \A v \in Workers \ {w} : tx'[v] = tx[v]
    BY <1>5 DEF ClaimAsk, Go, db, ClaimTx
  <2>2. ClaimHolds' /\ SettlesOnTime'
    BY <2>1 DEF ClaimHolds, SettlesOnTime, HoursInv, ClaimPoints
  <2>3. QED
    BY <2>1, <2>2 DEF HoursInv, ClaimsBehindClock, LastParsedCoversClaims,
                      ClaimedOncePerHour, Present
<1>6. ASSUME NEW w \in Workers, ClaimSnapshot(w) PROVE HoursInv'
  BY <1>0, <1>6, NoHourChange DEF ClaimSnapshot, Go, db, ClaimPoints, Present, ClaimTx
<1>7. ASSUME NEW w \in Workers, ClaimLock(w) PROVE HoursInv'
  <2> DEFINE S == Lockable(tx[w].seen, tx[w].hour, tx[w].minute)
  <2>1. PICK t \in FirstOf(S), n \in Stored(hour) :
           /\ run' = [run EXCEPT ![w].task = t]
           /\ tx' = [tx EXCEPT ![w].stamp = n]
    BY <1>7 DEF ClaimLock
  <2>2. /\ UNCHANGED <<hour, rows, claims>>
        /\ pc[w] = "snapshot" /\ pc' = [pc EXCEPT ![w] = "locked"]
    BY <1>7 DEF ClaimLock, Go
  <2>3. /\ run'[w].task = t /\ tx'[w].hour = tx[w].hour /\ tx'[w].stamp = n
        /\ \A v \in Workers \ {w} : tx'[v] = tx[v] /\ run'[v] = run[v]
    BY <2>1 DEF ClaimTx, TaskRun
  <2>4. n \in Nat /\ hour <= n
    BY DEF Stored
  <2>5. rows[t].lastParsed < tx[w].hour
    <3>1. Due(rows[t], tx[w].hour, tx[w].minute) /\ tx[w].hour \in Nat
      BY DEF FirstOf, Lockable, ClaimTx
    <3>2. QED
      BY <3>1 DEF Due, Never
  <2>6. tx[w].hour <= hour
    BY <2>2 DEF HoursInv, ClaimHolds, ClaimPoints
  <2>7. ClaimHolds'
    BY <2>2, <2>3, <2>4, <2>5, <2>6 DEF ClaimHolds, HoursInv, ClaimPoints
  <2>8. SettlesOnTime'
    BY <2>2, <2>3 DEF SettlesOnTime, HoursInv
  <2>9. QED
    BY <2>2, <2>7, <2>8 DEF HoursInv, ClaimsBehindClock, LastParsedCoversClaims,
                            ClaimedOncePerHour, Present
<1>8. ASSUME NEW w \in Workers, ClaimNone(w) \/ Abandon(w) PROVE HoursInv'
  BY <1>0, <1>8, NoHourChange DEF ClaimNone, Abandon, Leave, Go, ClaimPoints, Present
<1>9. ASSUME NEW w \in Workers, ClaimCommit(w) PROVE HoursInv'
  BY <1>0, <1>9, ClaimCommitStep
<1>10. ASSUME NEW w \in Workers, Verify(w) \/ ProcessMessages(w) PROVE HoursInv'
  BY <1>0, <1>10, NoHourChange
  DEF Verify, ProcessMessages, Leave, Fails, Go, ClaimPoints, Present, TaskRun
<1>11. ASSUME NEW w \in Workers, Resolve(w) \/ DupCheck(w) \/ FetchChannel(w) PROVE HoursInv'
  BY <1>0, <1>11, NoHourChange
  DEF Resolve, ResolveInvite, ResolveName, DupCheck, FetchChannel, Fails, Go, ClaimPoints, Present, db
<1>12. ASSUME NEW w \in Workers, SaveTask(w) PROVE HoursInv'
  BY <1>0, <1>12, NoHourChange DEF SaveTask, Leave, Fails, Go, ClaimPoints, Present
<1>13. ASSUME NEW w \in Workers, SaveCommit(w) PROVE HoursInv'
  <2>1. run[w].task \in Tasks
    BY <1>13 DEF SaveCommit, RunHasTask, RunPoints
  <2>2. \A t \in Tasks : /\ Present(t)' <=> Present(t)
                         /\ Present(t) => rows'[t].lastParsed = rows[t].lastParsed
    <3>1. CASE rows' = rows
      BY <3>1 DEF Present
    <3>2. CASE /\ rows' = [rows EXCEPT ![run[w].task].channel = run[w].channel]
               /\ Present(run[w].task)
      <4>1. rows[run[w].task] \in Row
        BY <2>1, <3>2 DEF Present
      <4>2. /\ rows'[run[w].task] \in Row
            /\ rows'[run[w].task].lastParsed = rows[run[w].task].lastParsed
        <5>1. rows'[run[w].task] = [rows[run[w].task] EXCEPT !.channel = run[w].channel]
          BY <2>1, <3>2
        <5>2. run[w].channel \in Channels \cup {NoChannel}
          BY DEF TaskRun
        <5>3. QED
          BY <4>1, <5>1, <5>2 DEF Row
      <4>3. QED
        BY <2>1, <3>2, <4>2, NoRowAssumption DEF Present
    <3>3. QED
      BY <1>13, <3>1, <3>2 DEF SaveCommit
  <2>3. QED
    BY <1>0, <1>13, <2>2, NoHourChange DEF SaveCommit, Leave, Go, ClaimPoints
<1>14. ASSUME NEW w \in Workers, SettleRead(w) PROVE HoursInv'
  <2>1. CASE Leave(w)
    BY <1>0, <1>14, <2>1, NoHourChange DEF SettleRead, Leave, Go, ClaimPoints, Present
  <2>2. CASE ~Leave(w)
    <3>1. PICK n \in Stored(hour) :
            run' = [run EXCEPT
              ![w].read = [status |-> rows[run[w].task].status,
                           channel |-> rows[run[w].task].channel],
              ![w].stamp = n]
      BY <1>14, <2>2 DEF SettleRead
    <3>2. /\ run'[w].stamp = n /\ \A v \in Workers \ {w} : run'[v] = run[v]
          /\ pc' = [pc EXCEPT ![w] = "settling"]
          /\ UNCHANGED <<hour, rows, claims, lock, tx>>
      <4>1. run[w] \in TaskRun /\ run \in [Workers -> TaskRun]
        OBVIOUS
      <4>2. /\ run'[w] = [[run[w] EXCEPT
                  !.read = [status |-> rows[run[w].task].status,
                            channel |-> rows[run[w].task].channel]] EXCEPT !.stamp = n]
            /\ \A v \in Workers \ {w} : run'[v] = run[v]
        BY <3>1, <4>1
      <4>3. run'[w].stamp = n
        BY <4>1, <4>2 DEF TaskRun
      <4>4. QED
        BY <1>14, <2>2, <4>2, <4>3 DEF SettleRead, Go
    <3>3. hour <= n
      BY DEF Stored
    <3>4. ClaimHolds' /\ SettlesOnTime'
      BY <3>2, <3>3 DEF ClaimHolds, SettlesOnTime, HoursInv, ClaimPoints
    <3>5. QED
      BY <3>2, <3>4 DEF HoursInv, ClaimsBehindClock, LastParsedCoversClaims,
                        ClaimedOncePerHour, Present
  <2>3. QED
    BY <2>1, <2>2
<1>15. ASSUME NEW w \in Workers, SettleCommit(w) PROVE HoursInv'
  <2> DEFINE t == run[w].task
  <2>1. CASE ~Present(t)
    BY <1>0, <1>15, <2>1, NoHourChange DEF SettleCommit, Leave, Go, ClaimPoints, Present
  <2>2. CASE Present(t)
    <3>1. /\ t \in Tasks /\ rows[t] \in Row /\ lock[t] = NoOwner
          /\ run[w].stamp \in Nat /\ hour <= run[w].stamp
      BY <1>15, <2>2
      DEF SettleCommit, RunHasTask, RunPoints, Present, TaskRun, HoursInv, SettlesOnTime
    <3>2. /\ rows' = [rows EXCEPT ![t] = Settled(w)]
          /\ UNCHANGED <<hour, claims>> /\ pc' = [pc EXCEPT ![w] = "idle"]
          /\ \A v \in Workers \ {w} : tx'[v] = tx[v] /\ run'[v] = run[v]
      BY <1>15, <2>2 DEF SettleCommit, Leave, Go
    <3>3. Settled(w) \in Row /\ Settled(w).lastParsed = run[w].stamp
      BY <3>1 DEF Settled, VerdictChannel, Row, TaskRun
    <3>4. rows'[t].lastParsed = run[w].stamp /\ rows'[t] \notin {NoRow, Deleted}
      <4>1. rows'[t] = Settled(w)
        BY <3>1, <3>2
      <4>2. rows'[t] \in Row /\ rows'[t].lastParsed = run[w].stamp
        BY <3>3, <4>1
      <4>3. QED
        BY <4>2, NoRowAssumption
    <3>5. \A v \in Workers : pc[v] = "locked" => run[v].task \in Tasks \ {t}
      BY <3>1, MarkersAssumption DEF LockHeld, RunHasTask
    <3>6. ClaimsBehindClock'
      <4>1. \A u \in Tasks \ {t} : Present(u)' <=> Present(u)
        BY <3>2 DEF Present
      <4>2. QED
        BY <3>2, <3>4, <4>1 DEF HoursInv, ClaimsBehindClock, Present
    <3>7. ClaimHolds' /\ SettlesOnTime'
      BY <3>2, <3>5 DEF HoursInv, ClaimHolds, SettlesOnTime, ClaimPoints
    <3>8. LastParsedCoversClaims'
      <4>1. \A i \in 1 .. Len(claims[t]) : claims[t][i] \in Nat /\ claims[t][i] <= hour
        BY <3>1 DEF HoursInv, ClaimsBehindClock
      <4>2. \A i \in 1 .. Len(claims[t]) : claims[t][i] <= rows'[t].lastParsed
        BY <3>1, <3>4, <4>1
      <4>3. QED
        BY <3>2, <4>2 DEF HoursInv, LastParsedCoversClaims, Present
    <3>9. ClaimedOncePerHour'
      BY <3>2 DEF HoursInv, ClaimedOncePerHour
    <3>10. QED
      BY <3>6, <3>7, <3>8, <3>9 DEF HoursInv
  <2>3. QED
    BY <2>1, <2>2
<1>16. CASE UNCHANGED vars
  BY <1>0, <1>16, NoHourChange DEF vars, Present
<1>17. QED
  BY <1>1, <1>2, <1>3, <1>4, <1>5, <1>6, <1>7, <1>8, <1>9, <1>10, <1>11, <1>12, <1>13,
     <1>14, <1>15, <1>16, OperatorAssumption
  DEF Next, RequestStep, WorkerStep, Claim, Run

\* The claim invariant: what the claims, last_parsed_at and the open transactions
\* say of the hour agrees at every moment.
THEOREM ClaimInvariant == PromptCommits => (Spec => []ClaimInv)
<1> SUFFICES ASSUME PromptCommits PROVE Spec => []ClaimInv
  OBVIOUS
<1>1. Init => TypeInv /\ HoursInv
  BY NothingTyped
  DEF Init, TypeInv, TypeOK, RunHasTask, LockHeld, WorkerPoints, RunPoints, Never, HoursInv,
      ClaimsBehindClock, ClaimHolds, SettlesOnTime, LastParsedCoversClaims, ClaimedOncePerHour,
      ClaimPoints, Present
<1>2. TypeInv /\ HoursInv <=> ClaimInv
  BY DEF TypeInv, HoursInv, ClaimInv
<1>3. TypeInv /\ HoursInv /\ [Next]_vars => (TypeInv /\ HoursInv)'
  BY TypeStep, HoursStep
<1>4. QED
  BY <1>1, <1>2, <1>3, PTL DEF Spec

\* ClaimedOncePerHour: however the workers interleave, die and come back, the
\* history of a task never holds two claims of one hour.
THEOREM OneClaimPerHour == PromptCommits => (Spec => []ClaimedOncePerHour)
<1>1. ClaimInv => ClaimedOncePerHour
  BY DEF ClaimInv
<1>2. QED
  BY <1>1, ClaimInvariant, PTL

\* A step of the tables is a step of HourlyRuns or leaves its variables alone.
LEMMA HourlyStep ==
    ClaimInv /\ ClaimInv' /\ [Next]_vars => [Hourly!Next]_<<hour, claims>>
<1> SUFFICES ASSUME ClaimInv, ClaimInv', [Next]_vars PROVE [Hourly!Next]_<<hour, claims>>
  OBVIOUS
<1>1. CASE Tick
  BY <1>1 DEF Tick, NextMinute, NextHour, Hourly!Next, Hourly!NextHour
<1>2. ASSUME NEW r \in Requests, RequestStep(r) PROVE UNCHANGED <<hour, claims>>
  BY <1>2 DEF RequestStep, AddFind, AddInsert
<1>3. ASSUME NEW t \in Tasks, OperatorDelete(t) PROVE Hourly!Forget(t)
  BY <1>3 DEF OperatorDelete, Hourly!Forget
<1>4. ASSUME NEW w \in Workers, ClaimCommit(w) PROVE Hourly!Hand(run[w].task)
  <2>1. \A i \in 1 .. Len(claims[run[w].task]) : claims[run[w].task][i] < hour
    BY <1>4, ClaimCommitStep DEF ClaimInv, TypeInv, HoursInv
  <2>2. QED
    BY <1>4, <2>1 DEF ClaimCommit, Hourly!Hand
<1>5. ASSUME NEW w \in Workers, ClaimCommit(w) PROVE run[w].task \in Tasks
  BY <1>5 DEF ClaimCommit, ClaimInv, RunHasTask
<1>6. ASSUME NEW w \in Workers, WorkerStep(w) \/ Abandon(w), ~ClaimCommit(w)
      PROVE  UNCHANGED <<hour, claims>>
  BY <1>6 DEF WorkerStep, Claim, Run, Abandon, ClaimAsk, ClaimSnapshot, ClaimLock, ClaimNone,
     Verify, Resolve, ResolveInvite, ResolveName, DupCheck, FetchChannel, SaveTask, SaveCommit, ProcessMessages,
     SettleRead, SettleCommit, db
<1>7. CASE UNCHANGED vars
  BY <1>7 DEF vars
<1>8. QED
  BY <1>1, <1>2, <1>3, <1>4, <1>5, <1>6, <1>7, OperatorAssumption DEF Next, Hourly!Next

\* RunsHourly: the claims of any number of workers, requests and operators
\* implement HourlyRuns, which hands a task out at most once an hour.
THEOREM ImplementsHourlyRuns == PromptCommits => (Spec => RunsHourly)
<1>1. Init => Hourly!Init
  BY DEF Init, Hourly!Init
<1>2. QED
  BY <1>1, ClaimInvariant, HourlyStep, PTL DEF Spec, RunsHourly, Hourly!Spec
-----------------------------------------------------------------------------
(* The runs of a task: one for each hour it was claimed in, some of which  *)
(* may outlast their hour; and with one worker process, one scheduled task *)
(* for a channel.                                                          *)
Busy(w) == pc[w] \in RunPoints
\* past the second look at the task
Looked(w) == pc[w] \in RunPoints \ {"verify"}

\* A worker on a run works on a row that was added, that is marked as parsed
\* since the hour of the claim unless it was deleted, and that stays scheduled
\* once the worker has found it so, as long as no second run overlaps it.
RunHolds ==
    \A w \in Workers : Busy(w) =>
        /\ rows[run[w].task] # NoRow
        /\ run[w].since <= hour
        /\ Present(run[w].task) =>
              /\ rows[run[w].task].lastParsed >= run[w].since
              /\ Looked(w) /\ run[w].task \notin overlaps => rows[run[w].task].status = "IDLE"

\* Two runs of a task at once have been noticed when the second was claimed.
Alone ==
    \A v, w \in Workers :
        Busy(v) /\ Busy(w) /\ run[v].task = run[w].task /\ v # w => run[v].task \in overlaps

RunInv == RunHolds /\ RunExclusive /\ Alone

-----------------------------------------------------------------------------
\* A step in which no worker starts a run, and no row that is there changes but
\* in columns the runs do not look at, keeps what is known of the runs.
LEMMA QuietRuns ==
    ASSUME ClaimInv, RunInv, ClaimInv', hour <= hour', overlaps' = overlaps,
           \A t \in Tasks : /\ rows[t] # NoRow => rows'[t] # NoRow
                            /\ rows[t] # NoRow /\ Present(t)' => Present(t)
                            /\ Present(t) /\ Present(t)' =>
                                  /\ rows'[t].lastParsed = rows[t].lastParsed
                                  /\ rows'[t].status = rows[t].status,
           \A w \in Workers : Busy(w)' => /\ Busy(w) /\ run'[w].task = run[w].task
                                          /\ run'[w].since = run[w].since,
           \A w \in Workers : Looked(w)' => Looked(w) \/ Idle(run[w].task)
    PROVE  RunInv'
<1>1. \A w \in Workers : Busy(w)' => run[w].task \in Tasks
  BY DEF ClaimInv, RunHasTask, Busy
<1>2. RunExclusive' /\ Alone'
  BY DEF RunInv, RunExclusive, Alone, Busy
<1>3. RunHolds'
  <2> SUFFICES ASSUME NEW w \in Workers, Busy(w)'
               PROVE  /\ rows'[run'[w].task] # NoRow
                      /\ run'[w].since <= hour'
                      /\ Present(run[w].task)' =>
                            /\ rows'[run'[w].task].lastParsed >= run'[w].since
                            /\ Looked(w)' /\ run'[w].task \notin overlaps
                                 => rows'[run'[w].task].status = "IDLE"
    BY DEF RunHolds, Present
  <2> DEFINE t == run[w].task
  <2>1. t \in Tasks /\ run'[w].task = t /\ run'[w].since = run[w].since /\ Busy(w)
    BY <1>1
  <2>2. /\ rows[t] # NoRow /\ run[w].since <= hour
        /\ Present(t) => /\ rows[t].lastParsed >= run[w].since
                         /\ Looked(w) /\ t \notin overlaps => rows[t].status = "IDLE"
    BY <2>1 DEF RunInv, RunHolds
  <2>3. rows'[t] # NoRow /\ (Present(t)' => Present(t))
    BY <2>1, <2>2
  <2>4. Present(t)' => rows'[t].lastParsed = rows[t].lastParsed /\ rows'[t].status = rows[t].status
    BY <2>1, <2>3
  <2>5. Present(t)' /\ Looked(w)' /\ t \notin overlaps => rows[t].status = "IDLE"
    BY <2>1, <2>2, <2>3 DEF Idle
  <2>6. run[w].since <= hour'
    <3>1. hour \in Nat /\ hour' \in Nat /\ run[w].since \in Nat
      BY DEF ClaimInv, TypeOK, TaskRun
    <3>2. QED
      BY <2>2, <3>1
  <2>7. QED
    BY <2>1, <2>2, <2>3, <2>4, <2>5, <2>6 DEF Present
<1>4. QED
  BY <1>2, <1>3 DEF RunInv

\* The commit of a claim starts a run: its row was last parsed before this
\* hour, so the runs of it that are under way were claimed before.
LEMMA ClaimStartsRun ==
    ASSUME ClaimInv, RunInv, NEW w \in Workers, ClaimCommit(w)
    PROVE  RunInv'
<1> DEFINE t == run[w].task
<1>1. /\ t \in Tasks /\ rows \in [Tasks -> Row \cup {NoRow, Deleted}] /\ rows[t] \in Row
      /\ Present(t) /\ pc[w] = "locked"
      /\ rows[t].lastParsed < tx[w].hour /\ tx[w].hour <= hour /\ hour <= tx[w].stamp
      /\ hour \in Nat /\ tx[w].hour \in Nat /\ tx[w].stamp \in Nat
      /\ run \in [Workers -> TaskRun]
  BY DEF ClaimCommit, ClaimInv, TypeOK, RunHasTask, LockHeld, Present, ClaimHolds, ClaimPoints, ClaimTx
<1>2. rows[t].lastParsed \in Int /\ ~(rows[t].lastParsed >= hour)
  BY <1>1 DEF Row, Never
<1>3. \A v \in Workers : run[v].since \in Nat
  BY <1>1 DEF TaskRun
<1>4. \A v \in Workers : Busy(v) /\ run[v].task = t => run[v].since # hour
  BY <1>1, <1>2, <1>3 DEF RunInv, RunHolds
<1>5. /\ rows' = [rows EXCEPT ![t].lastParsed = tx[w].stamp]
      /\ run' = [run EXCEPT ![w].since = hour] /\ hour' = hour
      /\ overlaps' = IF Runners(t) = {} THEN overlaps ELSE overlaps \cup {t}
      /\ pc' = [pc EXCEPT ![w] = "verify"] /\ pc \in [Workers -> WorkerPoints]
  BY DEF ClaimCommit, Go, ClaimInv, TypeOK
<1>6. /\ \A u \in Tasks \ {t} : rows'[u] = rows[u]
      /\ rows'[t].lastParsed = tx[w].stamp /\ rows'[t].status = rows[t].status
      /\ rows'[t] \in Row
  BY <1>1, <1>5 DEF Row
<1>7. \A v \in Workers \ {w} : pc'[v] = pc[v] /\ run'[v] = run[v]
  BY <1>1, <1>5
<1>8. /\ pc'[w] = "verify" /\ ~Looked(w)' /\ ~Busy(w)
      /\ run'[w].task = t /\ run'[w].since = hour
  BY <1>1, <1>5 DEF Looked, Busy, RunPoints, TaskRun
<1>9. overlaps \subseteq overlaps'
      /\ \A v \in Workers : Busy(v) /\ run[v].task = t => t \in overlaps'
  BY <1>5 DEF Busy, Runners
<1>10. RunExclusive'
  BY <1>4, <1>7, <1>8 DEF RunInv, RunExclusive, Busy
<1>11. Alone'
  BY <1>7, <1>8, <1>9 DEF RunInv, Alone, Busy
<1>12. RunHolds'
  <2> SUFFICES ASSUME NEW v \in Workers, Busy(v)'
               PROVE  /\ rows'[run'[v].task] # NoRow
                      /\ run'[v].since <= hour
                      /\ rows'[run'[v].task] \notin {NoRow, Deleted} =>
                            /\ rows'[run'[v].task].lastParsed >= run'[v].since
                            /\ Looked(v)' /\ run'[v].task \notin overlaps'
                                 => rows'[run'[v].task].status = "IDLE"
    BY <1>5 DEF RunHolds, Present
  <2>1. CASE v = w
    BY <1>1, <1>6, <1>8, <2>1, NoRowAssumption
  <2>2. CASE v # w
    <3>1. /\ Busy(v) /\ run[v].task \in Tasks /\ run'[v] = run[v]
          /\ (Looked(v)' <=> Looked(v))
      BY <1>7, <2>2 DEF Busy, Looked, ClaimInv, RunHasTask
    <3>2. /\ rows[run[v].task] # NoRow /\ run[v].since <= hour
          /\ Present(run[v].task) =>
                /\ rows[run[v].task].lastParsed >= run[v].since
                /\ Looked(v) /\ run[v].task \notin overlaps => rows[run[v].task].status = "IDLE"
      BY <3>1 DEF RunInv, RunHolds
    <3>3. CASE run[v].task # t
      BY <1>6, <1>9, <3>1, <3>2, <3>3 DEF Present
    <3>4. CASE run[v].task = t
      BY <1>1, <1>3, <1>6, <1>9, <3>1, <3>2, <3>4, NoRowAssumption
    <3>5. QED
      BY <3>3, <3>4
  <2>3. QED
    BY <2>1, <2>2
<1>13. QED
  BY <1>10, <1>11, <1>12 DEF RunInv

\* A verdict is written with a time that is not behind the hour; when another
\* worker is on the task, the task is known to be run twice.
LEMMA SettleEndsRun ==
    ASSUME ClaimInv, RunInv, NEW w \in Workers, SettleCommit(w)
    PROVE  RunInv'
<1> DEFINE t == run[w].task
<1>1. /\ pc[w] = "settling" /\ Busy(w) /\ t \in Tasks /\ hour <= run[w].stamp
  BY DEF SettleCommit, Busy, RunPoints, ClaimInv, RunHasTask, SettlesOnTime
<1>2. /\ pc' = [pc EXCEPT ![w] = "idle"] /\ pc \in [Workers -> WorkerPoints]
      /\ run' = [run EXCEPT ![w] = NoRun] /\ run \in [Workers -> TaskRun]
      /\ hour' = hour /\ hour \in Nat /\ rows \in [Tasks -> Row \cup {NoRow, Deleted}]
      /\ overlaps' = overlaps
  BY DEF SettleCommit, Leave, Go, ClaimInv, TypeOK
<1>3. \A u \in Tasks \ {t} : rows'[u] = rows[u]
  BY <1>1, <1>2 DEF SettleCommit
<1>4. \A v \in Workers : Busy(v)' => /\ v # w /\ Busy(v) /\ run'[v] = run[v]
                                     /\ (Looked(v)' <=> Looked(v))
                                     /\ run[v].task \in Tasks
  BY <1>2 DEF Busy, Looked, RunPoints, ClaimInv, RunHasTask
<1>5. RunExclusive' /\ Alone'
  BY <1>2, <1>4 DEF RunInv, RunExclusive, Alone, Busy
<1>6. /\ rows[t] # NoRow => rows'[t] # NoRow
      /\ rows'[t] \notin {NoRow, Deleted} => rows'[t].lastParsed = run[w].stamp
  <2>1. CASE Present(t)
    <3>1. rows[t] \in Row /\ run[w] \in TaskRun
      BY <1>1, <1>2, <2>1 DEF Present
    <3>2. Settled(w) \in Row /\ Settled(w).lastParsed = run[w].stamp
      BY <3>1 DEF Settled, VerdictChannel, Row, TaskRun
    <3>3. QED
      BY <1>1, <1>2, <2>1, <3>2, NoRowAssumption DEF SettleCommit
  <2>2. CASE ~Present(t)
    BY <2>2 DEF SettleCommit, Present
  <2>3. QED
    BY <2>1, <2>2
<1>7. RunHolds'
  <2> SUFFICES ASSUME NEW v \in Workers, Busy(v)'
               PROVE  /\ rows'[run[v].task] # NoRow
                      /\ run[v].since <= hour
                      /\ rows'[run[v].task] \notin {NoRow, Deleted} =>
                            /\ rows'[run[v].task].lastParsed >= run[v].since
                            /\ Looked(v) /\ run[v].task \notin overlaps
                                 => rows'[run[v].task].status = "IDLE"
    BY <1>2, <1>4 DEF RunHolds, Present
  <2>1. /\ rows[run[v].task] # NoRow /\ run[v].since <= hour
        /\ Present(run[v].task) =>
              /\ rows[run[v].task].lastParsed >= run[v].since
              /\ Looked(v) /\ run[v].task \notin overlaps => rows[run[v].task].status = "IDLE"
    BY <1>4 DEF RunInv, RunHolds
  <2>2. CASE run[v].task # t
    BY <1>3, <1>4, <2>1, <2>2 DEF Present
  <2>3. CASE run[v].task = t
    <3>1. run[v].task \in overlaps
      BY <1>1, <1>4, <2>3 DEF RunInv, Alone
    <3>2. run[v].since \in Nat /\ run[w].stamp \in Nat
      BY <1>2 DEF TaskRun
    <3>3. QED
      BY <1>1, <1>2, <1>6, <2>1, <2>3, <3>1, <3>2
  <2>4. QED
    BY <2>2, <2>3
<1>8. QED
  BY <1>5, <1>7 DEF RunInv

\* What a worker does but the commits of a claim and of a verdict.
LEMMA OtherSteps ==
    ASSUME ClaimInv, ClaimInv', RunInv, NEW w \in Workers, WorkerStep(w) \/ Abandon(w),
           ~ClaimCommit(w), ~SettleCommit(w)
    PROVE  RunInv'
<1>1. pc \in [Workers -> WorkerPoints] /\ run \in [Workers -> TaskRun]
      /\ rows \in [Tasks -> Row \cup {NoRow, Deleted}] /\ hour \in Nat
  BY DEF ClaimInv, TypeOK
<1>2. hour' = hour /\ overlaps' = overlaps /\ hour <= hour'
  <2>1. hour' = hour /\ overlaps' = overlaps
    BY DEF WorkerStep, Claim, Run, Abandon, ClaimAsk, ClaimSnapshot, ClaimLock, ClaimNone,
       Verify, Resolve, DupCheck, FetchChannel, SaveTask, SaveCommit, ProcessMessages, SettleRead
  <2>2. QED
    BY <1>1, <2>1
<1>3. CASE rows' = rows
  <2>1. \A v \in Workers : Busy(v)' => /\ Busy(v) /\ run'[v].task = run[v].task
                                       /\ run'[v].since = run[v].since
    BY <1>1 DEF Busy, WorkerStep, Claim, Run, Abandon, Leave, Fails, Go, ClaimAsk, ClaimSnapshot,
       ClaimLock, ClaimNone, Verify, Resolve, ResolveInvite, ResolveName, DupCheck, FetchChannel,
       SaveTask, SaveCommit, ProcessMessages, SettleRead, RunPoints, TaskRun
  <2>2. \A v \in Workers : Looked(v)' => Looked(v) \/ Idle(run[v].task)
    BY <1>1 DEF Looked, WorkerStep, Claim, Run, Abandon, Leave, Fails, Go, ClaimAsk, ClaimSnapshot,
       ClaimLock, ClaimNone, Verify, Resolve, ResolveInvite, ResolveName, DupCheck, FetchChannel,
       SaveTask, SaveCommit, ProcessMessages, SettleRead, RunPoints
  <2>3. QED
    BY <1>2, <1>3, <2>1, <2>2, QuietRuns DEF Present
<1>4. CASE SaveCommit(w)
  <2>1. run[w].task \in Tasks
    BY <1>4 DEF SaveCommit, ClaimInv, RunHasTask, RunPoints
  <2>2. CASE rows' = [rows EXCEPT ![run[w].task].channel = run[w].channel] /\ Go(w, "messages")
             /\ UNCHANGED run /\ Present(run[w].task)
    <3>1. \A v \in Workers : /\ Busy(v)' => /\ Busy(v) /\ run'[v].task = run[v].task
                                            /\ run'[v].since = run[v].since
                             /\ Looked(v)' => Looked(v)
      BY <1>1, <1>4, <2>2 DEF Busy, Looked, Go, SaveCommit, RunPoints
    <3>2. LET t == run[w].task IN
          /\ rows[t] \in Row /\ rows'[t].lastParsed = rows[t].lastParsed
          /\ rows'[t].status = rows[t].status
          /\ \A u \in Tasks \ {t} : rows'[u] = rows[u]
      BY <1>1, <2>1, <2>2 DEF Row, Present
    <3>3. rows'[run[w].task] \in Row
      BY <1>1, <1>4, <2>1, <2>2, <3>2 DEF Row, SaveCommit, ClaimInv, RunHasTask
    <3>4. \A t \in Tasks : /\ rows[t] # NoRow => rows'[t] # NoRow
                           /\ rows[t] # NoRow /\ Present(t)' => Present(t)
                           /\ Present(t) /\ Present(t)' =>
                                  /\ rows'[t].lastParsed = rows[t].lastParsed
                                  /\ rows'[t].status = rows[t].status
      BY <2>1, <2>2, <3>2, <3>3, NoRowAssumption DEF Present
    <3>5. QED
      BY <1>2, <3>1, <3>4, QuietRuns
  <2>3. QED
    BY <1>3, <1>4, <2>2 DEF SaveCommit
<1>5. rows' = rows \/ SaveCommit(w)
  BY DEF WorkerStep, Claim, Run, Abandon, ClaimAsk, ClaimSnapshot, ClaimLock, ClaimNone,
     Verify, Resolve, DupCheck, FetchChannel, SaveTask, ProcessMessages, SettleRead, db
<1>6. QED
  BY <1>3, <1>4, <1>5

\* A run may go on when its hour ends, and when its task is claimed again.
LEMMA RunStep ==
    ASSUME ClaimInv, ClaimInv', RunInv, [Next]_vars
    PROVE  RunInv'
<1>0. hour \in Nat
  BY DEF ClaimInv, TypeOK
<1>1. CASE Tick
  <2>1. hour <= hour'
    BY <1>0, <1>1 DEF Tick, NextMinute, NextHour
  <2>2. QED
    BY <1>1, <2>1, QuietRuns DEF Tick, Busy, Looked, Present
<1>2. ASSUME NEW r \in Requests, RequestStep(r) PROVE RunInv'
  <2>1. /\ UNCHANGED <<hour, pc, run, overlaps>> /\ hour <= hour'
        /\ \A t \in Tasks : rows'[t] = rows[t] \/ rows[t] = NoRow
    BY <1>0, <1>2 DEF RequestStep, AddFind, AddInsert, ClaimInv, TypeOK
  <2>2. \A t \in Tasks : rows'[t] = NoRow => rows[t] = NoRow
    BY <1>2, NoRowAssumption, <2>1
  <2>3. QED
    BY <2>1, <2>2, QuietRuns DEF Busy, Looked, Present
<1>3. ASSUME NEW t \in Tasks, OperatorDelete(t) PROVE RunInv'
  <2>1. /\ UNCHANGED <<hour, pc, run, overlaps>> /\ hour <= hour'
        /\ rows'[t] = Deleted /\ \A u \in Tasks \ {t} : rows'[u] = rows[u]
    BY <1>0, <1>3 DEF OperatorDelete, ClaimInv, TypeOK
  <2>2. QED
    BY <1>3, <2>1, QuietRuns, NoRowAssumption DEF Busy, Looked, Present, OperatorDelete
<1>4. ASSUME NEW w \in Workers, WorkerStep(w) \/ Abandon(w) PROVE RunInv'
  BY <1>4, ClaimStartsRun, SettleEndsRun, OtherSteps
<1>5. CASE UNCHANGED vars
  <2>1. hour <= hour'
    BY <1>0, <1>5 DEF vars
  <2>2. QED
    BY <1>5, <2>1, QuietRuns DEF vars, Busy, Looked, Present
<1>6. QED
  BY <1>1, <1>2, <1>3, <1>4, <1>5, OperatorAssumption DEF Next

\* The invariant of the runs, beside that of the claims.
THEOREM RunInvariant == PromptCommits => (Spec => []RunInv)
<1> SUFFICES ASSUME PromptCommits PROVE Spec => []RunInv
  OBVIOUS
<1>1. Init => RunInv
  BY DEF Init, RunInv, RunHolds, RunExclusive, Alone, Busy, RunPoints
<1>2. ClaimInv /\ ClaimInv' /\ RunInv /\ [Next]_vars => RunInv'
  BY RunStep
<1>3. Spec => []ClaimInv
  BY ClaimInvariant
<1>4. QED
  BY <1>1, <1>2, <1>3, PTL DEF Spec

\* RunExclusive: within an hour a task has one worker, whoever dies, whatever is
\* deleted and however many runs outlast their hours.
THEOREM OneRunPerTask == PromptCommits => (Spec => []RunExclusive)
<1>1. RunInv => RunExclusive
  BY DEF RunInv
<1>2. QED
  BY <1>1, RunInvariant, PTL

\* A worker comes on a run by the commit of its claim only.
LEMMA RunsAreClaimed ==
    ASSUME TypeInv, NEW w \in Workers, WorkerStep(w) \/ Abandon(w), NEW v \in Workers, Busy(v)'
    PROVE  \/ Busy(v) /\ run'[v].task = run[v].task
           \/ v = w /\ ClaimCommit(w) /\ run'[v].task = run[v].task
<1>1. pc \in [Workers -> WorkerPoints] /\ run \in [Workers -> TaskRun]
  BY DEF TypeInv, TypeOK
<1>2. CASE v = w /\ ClaimCommit(w)
  BY <1>1, <1>2 DEF ClaimCommit, TaskRun
<1>4. CASE v = w /\ ~ClaimCommit(w)
  BY <1>1, <1>4 DEF Busy, WorkerStep, Claim, Run, Abandon, Leave, Fails, Go, ClaimAsk, ClaimSnapshot,
     ClaimLock, ClaimNone, Verify, Resolve, ResolveInvite, ResolveName, DupCheck,
     FetchChannel, SaveTask, SaveCommit, ProcessMessages, SettleRead, SettleCommit, RunPoints, TaskRun
<1>3. CASE v # w
  BY <1>1, <1>3 DEF Busy, WorkerStep, Claim, Run, Abandon, Leave, Fails, Go, ClaimAsk, ClaimSnapshot,
     ClaimLock, ClaimNone, ClaimCommit, Verify, Resolve, ResolveInvite, ResolveName, DupCheck,
     FetchChannel, SaveTask, SaveCommit, ProcessMessages, SettleRead, SettleCommit
<1>5. QED
  BY <1>2, <1>3, <1>4

\* A step changes the status of a row only by a verdict, and that ends a run.
LEMMA StatusBySettling ==
    ASSUME TypeInv, [Next]_vars, NEW t \in Tasks,
           Present(t), Present(t)', rows'[t].status # rows[t].status
    PROVE  \E w \in Workers : SettleCommit(w) /\ run[w].task = t
<1>1. rows \in [Tasks -> Row \cup {NoRow, Deleted}] /\ rows[t] \in Row
  BY DEF TypeInv, TypeOK, Present
<1>2. ~Tick /\ ~UNCHANGED vars
  BY DEF Tick, vars
<1>3. \A r \in Requests : ~RequestStep(r)
  BY <1>1 DEF RequestStep, AddFind, AddInsert, Present
<1>4. \A u \in Tasks : ~OperatorDelete(u)
  BY <1>1 DEF OperatorDelete, Present
<1>5. PICK w \in Workers : WorkerStep(w) \/ Abandon(w)
  BY <1>2, <1>3, <1>4, OperatorAssumption DEF Next
<1>6. ~ClaimCommit(w)
  BY <1>1 DEF ClaimCommit, Row
<1>7. ~SaveCommit(w)
  BY <1>1 DEF SaveCommit, Row
<1>8. CASE ~SettleCommit(w)
  <2>1. rows' = rows
    BY <1>5, <1>6, <1>7, <1>8 DEF WorkerStep, Claim, Run, Abandon, ClaimAsk, ClaimSnapshot, ClaimLock,
       ClaimNone, Verify, Resolve, DupCheck, FetchChannel, SaveTask, ProcessMessages, SettleRead, db
  <2>2. QED
    BY <2>1
<1>9. CASE SettleCommit(w)
  BY <1>1, <1>9 DEF SettleCommit, TypeInv, RunHasTask, RunPoints
<1>10. QED
  BY <1>8, <1>9

\* SettledIsFinal: no run of a task that is settled as EXISTS or ERROR is
\* started, and only a run that was under way then, as it ends, may change what
\* was settled.  Nothing is assumed: the claim has locked the row it found IDLE.
THEOREM SettledStays == Spec => SettledIsFinal
<1> DEFINE Final == \A t \in Tasks :
         Present(t) /\ rows[t].status \in {"EXISTS", "ERROR"} =>
           /\ Runners(t)' \subseteq Runners(t)
           /\ Present(t)' /\ rows'[t].status # rows[t].status =>
                \E w \in Runners(t) : w \notin Runners(t)'
<1>1. Init => TypeInv
  BY NothingTyped DEF Init, TypeInv, TypeOK, RunHasTask, LockHeld, WorkerPoints, RunPoints, Never
<1>2. TypeInv /\ [Next]_vars => [Final]_vars
  <2> SUFFICES ASSUME TypeInv, [Next]_vars, NEW t \in Tasks,
                      Present(t), rows[t].status \in {"EXISTS", "ERROR"}
               PROVE  /\ Runners(t)' \subseteq Runners(t)
                      /\ Present(t)' /\ rows'[t].status # rows[t].status =>
                           \E w \in Runners(t) : w \notin Runners(t)'
    OBVIOUS
  <2>1. Runners(t)' \subseteq Runners(t)
    <3>1. CASE \E w \in Workers : WorkerStep(w) \/ Abandon(w)
      <4>1. PICK w \in Workers : WorkerStep(w) \/ Abandon(w)
        BY <3>1
      <4>2. ClaimCommit(w) => run[w].task # t
        BY DEF ClaimCommit, TypeInv, LockHeld
      <4>3. QED
        BY <4>1, <4>2, RunsAreClaimed DEF Runners, Busy
    <3>2. CASE UNCHANGED <<pc, run>>
      BY <3>2 DEF Runners
    <3>3. QED
      BY <3>1, <3>2 DEF Next, Tick, RequestStep, AddFind, AddInsert, OperatorDelete, vars
  <2>2. ASSUME Present(t)', rows'[t].status # rows[t].status
        PROVE  \E w \in Runners(t) : w \notin Runners(t)'
    <3>1. PICK w \in Workers : SettleCommit(w) /\ run[w].task = t
      BY <2>2, StatusBySettling
    <3>2. w \in Runners(t) /\ pc'[w] = "idle"
      BY <3>1 DEF Runners, RunPoints, SettleCommit, Leave, Go, TypeInv, TypeOK
    <3>3. QED
      BY <3>2 DEF Runners, RunPoints
  <2>3. QED
    BY <2>1, <2>2
<1>3. QED
  BY <1>1, <1>2, TypeStep, PTL DEF Spec, SettledIsFinal

\* Until two runs of a task overlap, a step changes its status only from IDLE.
LEMMA StatusStep ==
    ASSUME ClaimInv, RunInv, [Next]_vars, NEW t \in Tasks, t \notin overlaps,
           Present(t), rows[t].status # "IDLE", Present(t)'
    PROVE  rows'[t].status = rows[t].status
<1> SUFFICES ASSUME rows'[t].status # rows[t].status PROVE FALSE
  OBVIOUS
<1>1. PICK w \in Workers : SettleCommit(w) /\ run[w].task = t
  BY StatusBySettling DEF ClaimInv, TypeInv
<1>2. Looked(w) /\ Busy(w)
  BY <1>1 DEF SettleCommit, Looked, Busy, RunPoints
<1>3. QED
  BY <1>1, <1>2 DEF RunInv, RunHolds
-----------------------------------------------------------------------------
(* What the verdicts say of channels                                       *)

\* What a handler is about to write: EXISTS for a channel that has a row, over
\* columns that are what it has read unless another run of the task overlaps.
Settling(v) ==
    /\ pc[v] \in {"settle", "settling"} /\ run[v].verdict = "EXISTS" => run[v].channel \in channels
    /\ pc[v] = "settling" /\ run[v].task \notin overlaps /\ Present(run[v].task) =>
          /\ rows[run[v].task].status = run[v].read.status
          /\ rows[run[v].task].channel = run[v].read.channel

VerdictInv == StatusMatchesChannel /\ \A v \in Workers : Settling(v)

\* A step that changes no row's status or channel, and in which a worker comes
\* to a handler only with a verdict that fits.
LEMMA QuietVerdicts ==
    ASSUME ClaimInv, VerdictInv, channels \subseteq channels', overlaps \subseteq overlaps',
           \A t \in Tasks : Present(t)' => /\ Present(t)
                                           /\ rows'[t].status = rows[t].status
                                           /\ rows'[t].channel = rows[t].channel,
           \A v \in Workers : pc'[v] = "settling" => pc[v] = "settling" /\ run'[v] = run[v],
           \A v \in Workers :
               pc'[v] \in {"settle", "settling"} /\ run'[v].verdict = "EXISTS" =>
                   \/ run'[v].channel \in channels
                   \/ pc[v] \in {"settle", "settling"} /\ run'[v] = run[v]
    PROVE  VerdictInv'
<1>1. StatusMatchesChannel'
  BY DEF VerdictInv, StatusMatchesChannel
<1>2. ASSUME NEW v \in Workers PROVE Settling(v)'
  <2>1. pc[v] = "settling" => run[v].task \in Tasks
    BY DEF ClaimInv, RunHasTask, RunPoints
  <2>2. Settling(v)
    BY DEF VerdictInv
  <2>3. pc'[v] = "settling" /\ run'[v].task \notin overlaps' /\ Present(run[v].task)' =>
          /\ rows'[run'[v].task].status = run'[v].read.status
          /\ rows'[run'[v].task].channel = run'[v].read.channel
    BY <2>1, <2>2 DEF Settling, Present
  <2>4. pc'[v] \in {"settle", "settling"} /\ run'[v].verdict = "EXISTS" => run'[v].channel \in channels'
    BY <2>2 DEF Settling
  <2>5. QED
    BY <2>3, <2>4 DEF Settling, Present
<1>3. QED
  BY <1>1, <1>2 DEF VerdictInv

\* A task is found to be a duplicate of one whose channel has a row.
LEMMA DuplicateStored ==
    ASSUME ClaimInv, VerdictInv, NEW w \in Workers, DupCheck(w)
    PROVE  VerdictInv'
<1>1. run[w].channel \in Channels /\ run[w].task \in Tasks /\ run[w] \in TaskRun
      /\ pc \in [Workers -> WorkerPoints] /\ run \in [Workers -> TaskRun]
  BY DEF DupCheck, ClaimInv, RunHasTask, RunPoints, TypeOK
<1>2. run[w].channel # NoChannel
  BY <1>1, MarkersAssumption
<1>3. Duplicates(run[w].task, run[w].channel) # {} => run[w].channel \in channels
  BY <1>2 DEF Duplicates, Idle, VerdictInv, StatusMatchesChannel
<1>4. \A v \in Workers : /\ pc'[v] = "settling" => pc[v] = "settling" /\ run'[v] = run[v]
                         /\ pc'[v] = "settle" => \/ pc[v] = "settle" /\ run'[v] = run[v]
                                                 \/ run'[v].channel \in channels
  BY <1>1, <1>3 DEF DupCheck, Fails, Go, TaskRun
<1>5. UNCHANGED <<rows, channels, overlaps>>
  BY DEF DupCheck, db
<1>6. QED
  BY <1>4, <1>5, QuietVerdicts DEF Present

\* The handler reads the row it is about to write.
LEMMA ReadIsCurrent ==
    ASSUME ClaimInv, VerdictInv, NEW w \in Workers, SettleRead(w)
    PROVE  VerdictInv'
<1>1. run[w].task \in Tasks /\ run[w] \in TaskRun /\ pc[w] = "settle"
      /\ pc \in [Workers -> WorkerPoints] /\ run \in [Workers -> TaskRun]
  BY DEF SettleRead, ClaimInv, RunHasTask, RunPoints, TypeOK
<1>2. UNCHANGED <<rows, channels, overlaps>>
  BY DEF SettleRead
<1>3. ASSUME NEW v \in Workers PROVE Settling(v)'
  <2>1. CASE v # w
    BY <1>1, <1>2, <2>1 DEF SettleRead, Leave, Go, VerdictInv, Settling, Present
  <2>2. CASE v = w /\ Leave(w)
    BY <1>1, <2>2 DEF Leave, Go, Settling
  <2>3. CASE v = w /\ ~Leave(w)
    BY <1>1, <1>2, <2>3 DEF SettleRead, Go, VerdictInv, Settling, Present, TaskRun
  <2>4. QED
    BY <2>1, <2>2, <2>3
<1>4. QED
  BY <1>2, <1>3 DEF VerdictInv, StatusMatchesChannel, Present

\* The write of a handler leaves its verdict in the row, whole: the columns it
\* does not write are what it has read.
LEMMA VerdictLanded ==
    ASSUME ClaimInv, VerdictInv, NEW w \in Workers, SettleCommit(w), Present(run[w].task),
           run[w].task \notin overlaps
    PROVE  /\ rows'[run[w].task].status = run[w].verdict
           /\ rows'[run[w].task].channel = VerdictChannel(w)
<1>1. /\ pc[w] = "settling" /\ run[w].task \in Tasks /\ run[w] \in TaskRun
      /\ rows \in [Tasks -> Row \cup {NoRow, Deleted}]
  BY DEF SettleCommit, RunPoints, ClaimInv, RunHasTask, TypeOK
<1>2. rows[run[w].task] \in Row /\ rows'[run[w].task] = Settled(w)
  BY <1>1 DEF SettleCommit, Present
<1>3. /\ rows[run[w].task].status = run[w].read.status
      /\ rows[run[w].task].channel = run[w].read.channel
  BY <1>1 DEF VerdictInv, Settling
<1>4. QED
  BY <1>2, <1>3 DEF Settled, Row

\* The handler writes its verdict and the channel that goes with it.
LEMMA VerdictWritten ==
    ASSUME ClaimInv, RunInv, VerdictInv, NEW w \in Workers, SettleCommit(w)
    PROVE  VerdictInv'
<1> DEFINE t == run[w].task
<1>1. /\ pc[w] = "settling" /\ Busy(w) /\ t \in Tasks /\ run[w] \in TaskRun
      /\ pc' = [pc EXCEPT ![w] = "idle"] /\ pc \in [Workers -> WorkerPoints]
      /\ run' = [run EXCEPT ![w] = NoRun] /\ run \in [Workers -> TaskRun]
      /\ channels' = channels /\ rows \in [Tasks -> Row \cup {NoRow, Deleted}]
      /\ overlaps' = overlaps /\ channels \subseteq Channels
  BY DEF SettleCommit, Leave, Go, Busy, RunPoints, ClaimInv, RunHasTask, TypeOK
<1>2. \A u \in Tasks \ {t} : rows'[u] = rows[u]
  BY <1>1 DEF SettleCommit
<1>3. rows'[t] \notin {NoRow, Deleted} => Present(t)
  BY <1>1 DEF SettleCommit, Present
<1>4. Settling(w)
  BY DEF VerdictInv
<1>5. Present(t) /\ t \notin overlaps =>
         rows'[t].status = run[w].verdict /\ rows'[t].channel = VerdictChannel(w)
  BY VerdictLanded
<1>6. run[w].verdict = "EXISTS" => run[w].channel \in channels /\ run[w].channel # NoChannel
  BY <1>1, <1>4, MarkersAssumption DEF Settling
<1>7. Present(t) => rows'[t].channel \in {rows[t].channel, VerdictChannel(w)}
  <2>1. Present(t) => rows[t] \in Row /\ rows'[t] = Settled(w)
    BY <1>1 DEF SettleCommit, Present
  <2>2. QED
    BY <2>1 DEF Settled, Row
<1>8. StatusMatchesChannel'
  <2> SUFFICES ASSUME NEW u \in Tasks, Present(u)'
               PROVE  /\ rows'[u].channel \in channels \cup {NoChannel}
                      /\ u \notin overlaps =>
                            /\ rows'[u].status = "EXISTS" => rows'[u].channel # NoChannel
                            /\ rows'[u].status = "ERROR" => rows'[u].channel = NoChannel
    BY <1>1 DEF StatusMatchesChannel
  <2>1. CASE u = t
    <3>1. Present(t)
      BY <1>3, <2>1 DEF Present
    <3>2. rows[t].channel \in channels \cup {NoChannel}
      BY <1>1, <3>1 DEF VerdictInv, StatusMatchesChannel
    <3>3. VerdictChannel(w) \in channels \cup {NoChannel}
      BY <1>6 DEF VerdictChannel
    <3>4. rows'[u].channel \in channels \cup {NoChannel}
      BY <1>7, <2>1, <3>1, <3>2, <3>3
    <3>5. QED
      BY <1>5, <1>6, <2>1, <3>1, <3>4 DEF VerdictChannel
  <2>2. CASE u # t
    BY <1>2, <2>2 DEF VerdictInv, StatusMatchesChannel, Present
  <2>3. QED
    BY <2>1, <2>2
<1>9. ASSUME NEW v \in Workers PROVE Settling(v)'
  <2>1. CASE v = w
    BY <1>1, <2>1 DEF Settling
  <2>2. CASE v # w
    <3>1. pc[v] = "settling" /\ run[v].task \notin overlaps => run[v].task \in Tasks \ {t}
      BY <1>1, <2>2 DEF RunInv, Alone, Busy, RunPoints, ClaimInv, RunHasTask
    <3>2. pc'[v] = pc[v] /\ run'[v] = run[v]
      BY <1>1, <2>2
    <3>3. QED
      BY <1>1, <1>2, <3>1, <3>2 DEF VerdictInv, Settling, Present
  <2>3. QED
    BY <2>1, <2>2
<1>10. QED
  BY <1>8, <1>9 DEF VerdictInv

\* A run stores the channel of its task with the channel's row.
LEMMA ChannelWritten ==
    ASSUME ClaimInv, RunInv, VerdictInv, NEW w \in Workers, SaveCommit(w), ~Leave(w)
    PROVE  VerdictInv'
<1> DEFINE t == run[w].task
<1>1. /\ pc[w] = "saved" /\ Busy(w) /\ Looked(w) /\ t \in Tasks /\ run[w].channel \in Channels
      /\ pc' = [pc EXCEPT ![w] = "messages"] /\ pc \in [Workers -> WorkerPoints]
      /\ run' = run
      /\ channels' = channels \cup {run[w].channel}
      /\ rows \in [Tasks -> Row \cup {NoRow, Deleted}]
      /\ overlaps' = overlaps
  BY DEF SaveCommit, Go, Busy, Looked, RunPoints, ClaimInv, RunHasTask, TypeOK
<1>2. /\ Present(t) => rows[t] \in Row
      /\ Present(t) /\ t \notin overlaps => rows[t].status = "IDLE"
  BY <1>1 DEF Present, RunInv, RunHolds
<1>3. \A u \in Tasks \ {t} : rows'[u] = rows[u]
  BY <1>1 DEF SaveCommit
<1>4. \/ rows' = rows
      \/ /\ Present(t) /\ rows'[t].channel = run[w].channel
         /\ t \notin overlaps => rows'[t].status = "IDLE"
  BY <1>1, <1>2 DEF SaveCommit, Row
<1>5. ASSUME NEW u \in Tasks, Present(u)'
      PROVE  /\ rows'[u].channel \in channels' \cup {NoChannel}
             /\ u \notin overlaps =>
                   /\ rows'[u].status = "EXISTS" => rows'[u].channel # NoChannel
                   /\ rows'[u].status = "ERROR" => rows'[u].channel = NoChannel
  <2>1. CASE rows'[u] = rows[u]
    BY <1>1, <1>5, <2>1 DEF VerdictInv, StatusMatchesChannel, Present
  <2>2. CASE u = t /\ rows'[u] # rows[u]
    BY <1>1, <1>4, <2>2
  <2>3. QED
    BY <1>3, <2>1, <2>2
<1>6. ASSUME NEW v \in Workers PROVE Settling(v)'
  <2>1. CASE v = w
    BY <1>1, <2>1 DEF Settling
  <2>2. CASE v # w
    <3>1. pc[v] = "settling" /\ run[v].task \notin overlaps => run[v].task \in Tasks \ {t}
      BY <1>1, <2>2 DEF RunInv, Alone, Busy, RunPoints, ClaimInv, RunHasTask
    <3>2. pc'[v] = pc[v] /\ Settling(v)
      BY <1>1, <2>2 DEF VerdictInv
    <3>3. QED
      BY <1>1, <1>3, <3>1, <3>2 DEF Settling, Present
  <2>3. QED
    BY <2>1, <2>2
<1>7. QED
  BY <1>1, <1>5, <1>6 DEF VerdictInv, StatusMatchesChannel

\* What else a worker does changes no row but in the time it was parsed.
LEMMA QuietRows ==
    ASSUME ClaimInv, NEW w \in Workers, WorkerStep(w) \/ Abandon(w),
           ~SettleCommit(w), SaveCommit(w) => Leave(w)
    PROVE  \A t \in Tasks : Present(t)' => /\ Present(t)
                                           /\ rows'[t].status = rows[t].status
                                           /\ rows'[t].channel = rows[t].channel
<1>1. pc \in [Workers -> WorkerPoints] /\ run \in [Workers -> TaskRun]
      /\ rows \in [Tasks -> Row \cup {NoRow, Deleted}]
  BY DEF ClaimInv, TypeOK
<1>2. CASE rows' = rows
  BY <1>2 DEF Present
<1>3. CASE ClaimCommit(w)
  <2>1. run[w].task \in Tasks /\ Present(run[w].task) /\ rows[run[w].task] \in Row
    BY <1>1, <1>3 DEF ClaimCommit, ClaimInv, RunHasTask, LockHeld, Present
  <2>2. QED
    BY <1>1, <1>3, <2>1 DEF ClaimCommit, Row, Present
<1>4. rows' = rows \/ ClaimCommit(w)
  BY <1>1 DEF WorkerStep, Claim, Run, Abandon, ClaimAsk, ClaimSnapshot, ClaimLock, ClaimNone,
     Verify, Resolve, DupCheck, FetchChannel, SaveTask, SaveCommit, ProcessMessages, SettleRead,
     Leave, Go, db
<1>5. QED
  BY <1>2, <1>3, <1>4

\* What else a worker does.
LEMMA OtherVerdicts ==
    ASSUME ClaimInv, VerdictInv, NEW w \in Workers, WorkerStep(w) \/ Abandon(w),
           ~DupCheck(w), ~SettleRead(w), ~SettleCommit(w), SaveCommit(w) => Leave(w)
    PROVE  VerdictInv'
<1>1. pc \in [Workers -> WorkerPoints] /\ run \in [Workers -> TaskRun]
      /\ rows \in [Tasks -> Row \cup {NoRow, Deleted}]
  BY DEF ClaimInv, TypeOK
<1>2. channels' = channels /\ overlaps \subseteq overlaps'
  BY <1>1 DEF WorkerStep, Claim, Run, Abandon, ClaimAsk, ClaimSnapshot, ClaimLock, ClaimNone, ClaimCommit,
     Verify, Resolve, FetchChannel, SaveTask, SaveCommit, ProcessMessages, Leave, Go, db
<1>3. \A t \in Tasks : Present(t)' => /\ Present(t)
                                      /\ rows'[t].status = rows[t].status
                                      /\ rows'[t].channel = rows[t].channel
  BY QuietRows
<1>4. \A v \in Workers : pc'[v] = "settling" => pc[v] = "settling" /\ run'[v] = run[v]
  BY <1>1 DEF WorkerStep, Claim, Run, Abandon, Leave, Fails, Go, ClaimAsk, ClaimSnapshot,
     ClaimLock, ClaimNone, ClaimCommit, Verify, Resolve, ResolveInvite, ResolveName, FetchChannel,
     SaveTask, SaveCommit, ProcessMessages
<1>5. \A v \in Workers :
        pc'[v] = "settle" => \/ run'[v].verdict # "EXISTS"
                             \/ pc[v] = "settle" /\ run'[v] = run[v]
  BY <1>1 DEF WorkerStep, Claim, Run, Abandon, Leave, Fails, Go, ClaimAsk, ClaimSnapshot,
     ClaimLock, ClaimNone, ClaimCommit, Verify, Resolve, ResolveInvite, ResolveName, FetchChannel,
     SaveTask, SaveCommit, ProcessMessages, TaskRun
<1>6. QED
  BY <1>2, <1>3, <1>4, <1>5, QuietVerdicts

\* Every step keeps the verdicts.
LEMMA VerdictStep ==
    ASSUME ClaimInv, RunInv, VerdictInv, [Next]_vars
    PROVE  VerdictInv'
<1>1. CASE Tick \/ UNCHANGED vars
  BY <1>1, QuietVerdicts DEF Tick, vars, Present
<1>2. ASSUME NEW r \in Requests, RequestStep(r) PROVE VerdictInv'
  <2>1. /\ UNCHANGED <<channels, pc, run, overlaps>>
        /\ \A t \in Tasks : \/ rows'[t] = rows[t]
                            \/ /\ rows[t] = NoRow /\ rows'[t].status = "IDLE"
                               /\ rows'[t].channel = NoChannel
    BY <1>2 DEF RequestStep, AddFind, AddInsert, ClaimInv, TypeOK
  <2>2. \A v \in Workers : pc[v] = "settling" => run[v].task \in Tasks /\ rows[run[v].task] # NoRow
    BY DEF RunInv, RunHolds, Busy, RunPoints, ClaimInv, RunHasTask
  <2>3. ASSUME NEW v \in Workers PROVE Settling(v)'
    BY <2>1, <2>2 DEF VerdictInv, Settling, Present
  <2>4. QED
    BY <2>1, <2>3 DEF VerdictInv, StatusMatchesChannel, Present
<1>3. ASSUME NEW t \in Tasks, OperatorDelete(t) PROVE VerdictInv'
  <2>1. /\ UNCHANGED <<channels, pc, run, overlaps>>
        /\ rows'[t] = Deleted /\ \A u \in Tasks \ {t} : rows'[u] = rows[u]
    BY <1>3 DEF OperatorDelete, ClaimInv, TypeOK
  <2>2. QED
    BY <2>1, QuietVerdicts DEF Present
<1>4. ASSUME NEW w \in Workers, WorkerStep(w) \/ Abandon(w) PROVE VerdictInv'
  BY <1>4, DuplicateStored, ReadIsCurrent, VerdictWritten, ChannelWritten, OtherVerdicts
<1>5. QED
  BY <1>1, <1>2, <1>3, <1>4, OperatorAssumption DEF Next

\* The invariants together.
LEMMA AllInvariants ==
    ASSUME PromptCommits
    PROVE  /\ Spec => []ClaimInv
           /\ Spec => []RunInv
           /\ Spec => []VerdictInv
<1>2. Init => VerdictInv
  BY DEF Init, VerdictInv, StatusMatchesChannel, Settling, Present
<1>3. ClaimInv /\ RunInv /\ VerdictInv /\ [Next]_vars => VerdictInv'
  BY VerdictStep
<1>4. (Spec => []ClaimInv) /\ (Spec => []RunInv)
  BY ClaimInvariant, RunInvariant
<1>5. QED
  BY <1>2, <1>3, <1>4, PTL DEF Spec

\* StatusMatchesChannel: a channel that a task names is stored, whatever runs
\* overlap; and until two runs of it do, an EXISTS task names a channel and an
\* ERROR task none, although a run writes its channel and its verdict in
\* different transactions, each only the columns that have changed for it.
THEOREM VerdictsMatchChannels == PromptCommits => (Spec => []StatusMatchesChannel)
<1> SUFFICES ASSUME PromptCommits PROVE Spec => []StatusMatchesChannel
  OBVIOUS
<1>1. VerdictInv => StatusMatchesChannel
  BY DEF VerdictInv
<1>2. Spec => []VerdictInv
  BY AllInvariants
<1>3. QED
  BY <1>1, <1>2, PTL

-----------------------------------------------------------------------------
(* What one worker alone guarantees                                        *)

\* one worker process
Sole == PromptCommits /\ \A v, w \in Workers : v = w

\* the points between the look for duplicates and the write of the channel
Checked == {"fetch", "save", "saved"}

\* What the look for duplicates has found is still so when the channel is
\* written: the look and the write are in different transactions.
SoleInv ==
    /\ OneIdleTaskPerChannel
    /\ overlaps = {}
    /\ \A w \in Workers : pc[w] \in Checked => Duplicates(run[w].task, run[w].channel) = {}

\* ... and when the verdict is.
SiblingFound ==
    \A w \in Workers :
        pc[w] \in {"settle", "settling"} /\ run[w].verdict = "EXISTS" =>
            \E u \in Tasks \ {run[w].task} : Idle(u) /\ rows[u].channel = run[w].channel

\* A step that changes no status and no channel, and adds rows without one.
LEMMA QuietSole ==
    ASSUME ClaimInv, SoleInv,
           \A t \in Tasks : Present(t)' =>
               \/ /\ Present(t) /\ rows'[t].status = rows[t].status
                  /\ rows'[t].channel = rows[t].channel
               \/ rows'[t].channel = NoChannel,
           \A w \in Workers : pc'[w] \in Checked =>
               /\ run'[w].task = run[w].task /\ run'[w].channel = run[w].channel
               /\ run[w].channel # NoChannel
               /\ Duplicates(run[w].task, run[w].channel) = {},
           overlaps' = {}
    PROVE  SoleInv'
<1>1. \A t \in Tasks : Idle(t)' /\ rows'[t].channel # NoChannel =>
         Idle(t) /\ rows'[t].channel = rows[t].channel
  BY DEF Idle
<1>2. OneIdleTaskPerChannel'
  BY <1>1 DEF SoleInv, OneIdleTaskPerChannel
<1>3. ASSUME NEW w \in Workers, pc'[w] \in Checked
      PROVE  Duplicates(run[w].task, run[w].channel)' = {}
  BY <1>1, <1>3 DEF Duplicates
<1>4. QED
  BY <1>2, <1>3 DEF SoleInv

\* The steps of the one worker.
LEMMA SoleWorkerStep ==
    ASSUME Sole, ClaimInv, RunInv, VerdictInv, SoleInv,
           NEW w \in Workers, WorkerStep(w) \/ Abandon(w)
    PROVE  SoleInv'
<1>1. /\ pc \in [Workers -> WorkerPoints] /\ run \in [Workers -> TaskRun]
      /\ rows \in [Tasks -> Row \cup {NoRow, Deleted}]
      /\ \A v \in Workers : v = w
  BY DEF ClaimInv, TypeOK, Sole
<1>0. overlaps' = {}
  <2>1. ClaimCommit(w) => Runners(run[w].task) = {}
    BY <1>1 DEF ClaimCommit, Runners, RunPoints
  <2>2. QED
    BY <2>1 DEF SoleInv, WorkerStep, Claim, Run, Abandon, ClaimAsk, ClaimSnapshot,
       ClaimLock, ClaimNone, ClaimCommit, Verify, Resolve, DupCheck, FetchChannel, SaveTask,
       SaveCommit, ProcessMessages, SettleRead, SettleCommit
<1>2. CASE SettleCommit(w)
  <2>0. PICK t : t = run[w].task
    OBVIOUS
  <2>1. /\ t \in Tasks /\ run[w] \in TaskRun
        /\ \A u \in Tasks \ {t} : rows'[u] = rows[u]
        /\ rows'[t] \notin {NoRow, Deleted} => Present(t)
    BY <1>1, <1>2, <2>0 DEF SettleCommit, RunPoints, ClaimInv, RunHasTask, Present
  <2>2. Idle(t)' => rows'[t].channel = NoChannel
    BY <1>1, <1>2, <2>0, <2>1, VerdictLanded DEF Idle, Present, VerdictChannel, SoleInv
  <2>3. OneIdleTaskPerChannel'
    BY <2>1, <2>2 DEF SoleInv, OneIdleTaskPerChannel, Idle, Present
  <2>4. pc'[w] = "idle"
    BY <1>1, <1>2 DEF SettleCommit, Leave, Go
  <2>5. QED
    BY <1>0, <1>1, <2>3, <2>4 DEF SoleInv, Checked
<1>3. CASE SaveCommit(w) /\ ~Leave(w)
  <2>0. PICK t : t = run[w].task
    OBVIOUS
  <2>1. /\ pc[w] = "saved" /\ t \in Tasks
        /\ pc'[w] = "messages"
        /\ \A u \in Tasks \ {t} : rows'[u] = rows[u]
        /\ rows' = rows \/ (Present(t) /\ rows' = [rows EXCEPT ![t].channel = run[w].channel])
    BY <1>1, <1>3, <2>0 DEF SaveCommit, Go, RunPoints, ClaimInv, RunHasTask
  <2>2. Duplicates(t, run[w].channel) = {}
    BY <2>0, <2>1 DEF SoleInv, Checked
  <2>3. CASE rows' = rows
    BY <1>0, <1>1, <2>1, <2>3 DEF SoleInv, OneIdleTaskPerChannel, Idle, Present, Checked
  <2>4. CASE rows' # rows
    <3>1. rows[t] \in Row /\ rows'[t].channel = run[w].channel
      BY <1>1, <2>1, <2>4 DEF Present, Row
    <3>2. \A u \in Tasks \ {t} : ~(Idle(u)' /\ rows'[u].channel = run[w].channel)
      BY <2>1, <2>2 DEF Duplicates, Idle, Present
    <3>3. OneIdleTaskPerChannel'
      BY <2>1, <3>1, <3>2 DEF SoleInv, OneIdleTaskPerChannel, Idle, Present
    <3>4. QED
      BY <1>0, <1>1, <2>1, <3>3 DEF SoleInv, Checked
  <2>5. QED
    BY <2>3, <2>4
<1>4. CASE ~SettleCommit(w) /\ (SaveCommit(w) => Leave(w))
  <2>1. \A t \in Tasks : Present(t)' => /\ Present(t)
                                        /\ rows'[t].status = rows[t].status
                                        /\ rows'[t].channel = rows[t].channel
    BY <1>4, QuietRows
  <2>2. pc'[w] \in Checked => \/ pc[w] \in Checked
                              \/ DupCheck(w) /\ Duplicates(run[w].task, run[w].channel) = {}
    BY <1>1, <1>4 DEF Checked, WorkerStep, Claim, Run, Abandon, Leave, Fails, Go, ClaimAsk, ClaimSnapshot,
       ClaimLock, ClaimNone, ClaimCommit, Verify, Resolve, ResolveInvite, ResolveName, DupCheck,
       FetchChannel, SaveTask, SaveCommit, ProcessMessages, SettleRead
  <2>3. pc'[w] \in Checked => run'[w].task = run[w].task /\ run'[w].channel = run[w].channel
    BY <1>1, <1>4 DEF Checked, WorkerStep, Claim, Run, Abandon, Leave, Fails, Go, ClaimAsk, ClaimSnapshot,
       ClaimLock, ClaimNone, ClaimCommit, Verify, Resolve, ResolveInvite, ResolveName, DupCheck,
       FetchChannel, SaveTask, SaveCommit, ProcessMessages, SettleRead, TaskRun
  <2>4. pc'[w] \in Checked => run[w].channel # NoChannel
    BY <2>2, MarkersAssumption DEF Checked, DupCheck, ClaimInv, RunHasTask
  <2>5. pc'[w] \in Checked => Duplicates(run[w].task, run[w].channel) = {}
    BY <2>2 DEF SoleInv
  <2>6. QED
    BY <1>0, <1>1, <2>1, <2>3, <2>4, <2>5, QuietSole
<1>5. QED
  BY <1>2, <1>3, <1>4

\* What has been found keeps as long as the one worker writes no other row.
LEMMA SiblingStep ==
    ASSUME Sole, ClaimInv, SiblingFound, NEW w \in Workers, WorkerStep(w) \/ Abandon(w)
    PROVE  SiblingFound'
<1>1. /\ pc \in [Workers -> WorkerPoints] /\ run \in [Workers -> TaskRun]
      /\ rows \in [Tasks -> Row \cup {NoRow, Deleted}]
      /\ \A v \in Workers : v = w
  BY DEF ClaimInv, TypeOK, Sole
<1>2. ASSUME pc'[w] \in {"settle", "settling"}, run'[w].verdict = "EXISTS"
      PROVE  /\ rows' = rows /\ run'[w].task = run[w].task /\ run'[w].channel = run[w].channel
             /\ \/ pc[w] \in {"settle", "settling"} /\ run[w].verdict = "EXISTS"
                \/ Duplicates(run[w].task, run[w].channel) # {}
  <2>1. CASE DupCheck(w)
    BY <1>1, <1>2, <2>1 DEF DupCheck, Fails, Go, db, TaskRun
  <2>2. CASE SettleRead(w)
    BY <1>1, <1>2, <2>2 DEF SettleRead, Leave, Go, TaskRun
  <2>3. CASE ~DupCheck(w) /\ ~SettleRead(w)
    BY <1>1, <1>2, <2>3 DEF WorkerStep, Claim, Run, Abandon, Leave, Fails, Go, ClaimAsk, ClaimSnapshot,
       ClaimLock, ClaimNone, ClaimCommit, Verify, Resolve, ResolveInvite, ResolveName,
       FetchChannel, SaveTask, SaveCommit, ProcessMessages, SettleCommit, TaskRun
  <2>4. QED
    BY <2>1, <2>2, <2>3
<1>3. QED
  BY <1>1, <1>2 DEF SiblingFound, Duplicates, Idle, Present

\* Every step keeps what the one worker has found.
LEMMA SoleStep ==
    ASSUME Sole, ClaimInv, RunInv, VerdictInv, SoleInv, [Next]_vars
    PROVE  SoleInv'
<1>0. \A w \in Workers : pc[w] \in Checked =>
         run[w].channel # NoChannel /\ Duplicates(run[w].task, run[w].channel) = {}
  BY MarkersAssumption DEF Checked, SoleInv, ClaimInv, RunHasTask
<1>1. CASE Tick \/ UNCHANGED vars
  BY <1>0, <1>1, QuietSole DEF Tick, vars, Present, SoleInv
<1>2. ASSUME NEW r \in Requests, RequestStep(r) PROVE SoleInv'
  <2>1. /\ UNCHANGED <<pc, run, overlaps>>
        /\ \A t \in Tasks : rows'[t] = rows[t] \/ rows'[t].channel = NoChannel
    BY <1>2 DEF RequestStep, AddFind, AddInsert, ClaimInv, TypeOK
  <2>2. QED
    BY <1>0, <2>1, QuietSole DEF Present, SoleInv
<1>3. ASSUME NEW t \in Tasks, OperatorDelete(t) PROVE SoleInv'
  <2>1. /\ UNCHANGED <<pc, run, overlaps>>
        /\ rows'[t] = Deleted /\ \A u \in Tasks \ {t} : rows'[u] = rows[u]
    BY <1>3 DEF OperatorDelete, ClaimInv, TypeOK
  <2>2. QED
    BY <1>0, <2>1, QuietSole DEF Present, SoleInv
<1>4. QED
  BY <1>1, <1>2, <1>3, SoleWorkerStep, OperatorAssumption DEF Next

LEMMA SoleInvariant == Sole => (Spec => []SoleInv)
<1> SUFFICES ASSUME Sole PROVE Spec => []SoleInv
  OBVIOUS
<1>1. Init => SoleInv
  BY DEF Init, SoleInv, OneIdleTaskPerChannel, Idle, Present, Checked
<1>2. ClaimInv /\ RunInv /\ VerdictInv /\ SoleInv /\ [Next]_vars => SoleInv'
  BY SoleStep
<1>3. (Spec => []ClaimInv) /\ (Spec => []RunInv) /\ (Spec => []VerdictInv)
  BY AllInvariants DEF Sole
<1>4. QED
  BY <1>1, <1>2, <1>3, PTL DEF Spec

\* OneIdleTaskPerChannel: one worker alone never leaves two tasks scheduled on
\* one channel, which two workers do.
THEOREM OneTaskAChannel == Sole => (Spec => []OneIdleTaskPerChannel)
<1>1. SoleInv => OneIdleTaskPerChannel
  BY DEF SoleInv
<1>2. QED
  BY <1>1, SoleInvariant, PTL

\* ExistsHasLiveSibling: and unless a row is deleted by hand, it gives up a task
\* only for another that stays scheduled.
THEOREM ExistsKeepsSibling == Sole /\ OperatorTasks = {} => (Spec => ExistsHasLiveSibling)
<1> SUFFICES ASSUME Sole, OperatorTasks = {} PROVE Spec => ExistsHasLiveSibling
  OBVIOUS
<1> DEFINE Kept == \A t \in Tasks :
         Idle(t) /\ Present(t)' /\ rows'[t].status = "EXISTS"
         => \E u \in Tasks \ {t} : Idle(u)' /\ rows'[u].channel = rows'[t].channel
<1>1. Init => SiblingFound
  BY DEF Init, SiblingFound
<1>2. ClaimInv /\ SiblingFound /\ [Next]_vars => SiblingFound'
  <2> SUFFICES ASSUME ClaimInv, SiblingFound, [Next]_vars PROVE SiblingFound'
    OBVIOUS
  <2>1. CASE Tick \/ UNCHANGED vars
    BY <2>1 DEF Tick, vars, SiblingFound, Idle, Present
  <2>2. ASSUME NEW r \in Requests, RequestStep(r) PROVE SiblingFound'
    <3>1. /\ UNCHANGED <<pc, run>>
          /\ \A t \in Tasks : rows'[t] = rows[t] \/ rows[t] = NoRow
      BY <2>2 DEF RequestStep, AddFind, AddInsert, ClaimInv, TypeOK
    <3>2. QED
      BY <3>1 DEF SiblingFound, Idle, Present
  <2>3. QED
    BY <2>1, <2>2, SiblingStep DEF Next
<1>3. ClaimInv /\ VerdictInv /\ SoleInv /\ SiblingFound /\ [Next]_vars => [Kept]_vars
  <2> SUFFICES ASSUME ClaimInv, VerdictInv, SoleInv, SiblingFound, Next,
                      NEW t \in Tasks, Idle(t), Present(t)', rows'[t].status = "EXISTS"
               PROVE  \E u \in Tasks \ {t} : Idle(u)' /\ rows'[u].channel = rows'[t].channel
    OBVIOUS
  <2>1. rows \in [Tasks -> Row \cup {NoRow, Deleted}] /\ rows[t].status = "IDLE"
    BY DEF ClaimInv, TypeOK, Idle
  <2>2. ~Tick /\ \A r \in Requests : ~RequestStep(r)
    BY <2>1 DEF Tick, RequestStep, AddFind, AddInsert, Idle, Present
  <2>3. PICK w \in Workers : WorkerStep(w) \/ Abandon(w)
    BY <2>2 DEF Next
  <2>4. CASE SettleCommit(w)
    <3>1. /\ pc[w] = "settling" /\ run[w].task \in Tasks
          /\ \A u \in Tasks \ {run[w].task} : rows'[u] = rows[u]
      BY <2>1, <2>4 DEF SettleCommit, RunPoints, ClaimInv, RunHasTask
    <3>2. t = run[w].task /\ Present(t)
      BY <2>1, <3>1 DEF Idle
    <3>3. run[w].verdict = "EXISTS" /\ rows'[t].channel = run[w].channel
      BY <2>4, <3>2, VerdictLanded DEF VerdictChannel, SoleInv
    <3>4. PICK u \in Tasks \ {t} : Idle(u) /\ rows[u].channel = run[w].channel
      BY <3>1, <3>2, <3>3 DEF SiblingFound
    <3>5. QED
      BY <3>1, <3>2, <3>3, <3>4 DEF Idle, Present
  <2>5. CASE SaveCommit(w) /\ ~Leave(w)
    BY <2>1, <2>5 DEF SaveCommit, Idle, Present, Row
  <2>6. CASE ~SettleCommit(w) /\ (SaveCommit(w) => Leave(w))
    BY <2>1, <2>3, <2>6, QuietRows
  <2>7. QED
    BY <2>4, <2>5, <2>6
<1>4. (Spec => []ClaimInv) /\ (Spec => []VerdictInv) /\ (Spec => []SoleInv)
  BY AllInvariants, SoleInvariant DEF Sole
<1>5. QED
  BY <1>1, <1>2, <1>3, <1>4, PTL DEF Spec, ExistsHasLiveSibling
-----------------------------------------------------------------------------
(* How AddTask spreads the tasks over the buckets                          *)

\* The tasks a bucket holds, and the requests that have chosen it and have not
\* inserted their row yet.
Held(b) == {t \in Tasks : rows[t] # NoRow /\ rows[t].bucket = b}
Pending(b) == {r \in Requests : adding[r] # NoAdd /\ adding[r].bucket = b}
Added == {t \in Tasks : rows[t] # NoRow}

\* No task has left the schedule.
NoneLeft == \A t \in Tasks : rows[t] = NoRow \/ Idle(t)

\* The requests that wait to fill a bucket are part of the difference: a bucket
\* with what is on its way to it is ahead of another by no more than all the
\* requests there are.
SpreadInv ==
    /\ IsFiniteSet(Added)
    /\ overlaps = {} /\ NoneLeft => \A b, c \in Buckets :
          Cardinality(Held(b)) + Cardinality(Pending(b)) - Cardinality(Held(c))
            <= Cardinality(Requests)

\* While no task has left, the load AddTask counts is what the bucket holds.
LEMMA LoadIsHeld ==
    ASSUME NoneLeft, NEW b \in Buckets
    PROVE  Load(b) = Cardinality(Held(b))
<1>1. {t \in Tasks : /\ Present(t)
                     /\ rows[t].status \in {"IDLE", "SKIP"}
                     /\ rows[t].bucket = b} = Held(b)
  BY DEF NoneLeft, Idle, Present, Held
<1>2. QED
  BY <1>1 DEF Load

\* The sizes are numbers.
LEMMA HeldFinite ==
    ASSUME IsFiniteSet(Added), NEW b \in Buckets
    PROVE  /\ IsFiniteSet(Held(b)) /\ Cardinality(Held(b)) \in Nat
           /\ IsFiniteSet(Pending(b)) /\ Cardinality(Pending(b)) \in Nat
           /\ Cardinality(Requests) \in Nat
<1>1. Held(b) \in SUBSET Added /\ Pending(b) \in SUBSET Requests
  BY DEF Held, Added, Pending
<1>2. QED
  BY <1>1, FS_Subset, FS_CardinalityType, RequestsAssumption

\* A bucket AddTask may choose has the least load.
LEMMA ChoiceIsLeast ==
    ASSUME IsFiniteSet(Added), NoneLeft, NEW b \in BucketChoices
    PROVE  b \in Buckets /\ \A c \in Buckets : Cardinality(Held(b)) <= Cardinality(Held(c))
<1>1. \A c \in Buckets : Load(c) = Cardinality(Held(c)) /\ Cardinality(Held(c)) \in Nat
  BY LoadIsHeld, HeldFinite
<1>2. b \in Buckets /\ (Load(b) = 0 \/ \A c \in Buckets : Load(b) <= Load(c))
  BY DEF BucketChoices
<1>3. QED
  BY <1>1, <1>2

\* A row that is not scheduled never is again, unless two runs of it overlapped,
\* and no row changes its bucket.
LEMMA LeftForGood ==
    ASSUME ClaimInv, RunInv, [Next]_vars, NEW t \in Tasks, rows[t] # NoRow
    PROVE  /\ rows'[t] # NoRow
           /\ t \notin overlaps /\ Idle(t)' => Idle(t) /\ rows'[t].bucket = rows[t].bucket
<1>1. /\ rows \in [Tasks -> Row \cup {NoRow, Deleted}]
      /\ \A u \in Tasks : Present(u) => rows[u] \in Row
  BY DEF ClaimInv, TypeOK, Present
<1> DEFINE Kept == /\ rows'[t] # NoRow /\ (Present(t)' => Present(t))
                   /\ Present(t)' => rows'[t].bucket = rows[t].bucket
<1>2. Kept
  <2>1. CASE Tick \/ UNCHANGED vars
    BY <2>1 DEF Tick, vars, Present
  <2>2. ASSUME NEW r \in Requests, RequestStep(r) PROVE Kept
    BY <1>1, <2>2 DEF RequestStep, AddFind, AddInsert, Present
  <2>3. ASSUME NEW u \in Tasks, OperatorDelete(u) PROVE Kept
    BY <1>1, <2>3, NoRowAssumption DEF OperatorDelete, Present
  <2>4. ASSUME NEW w \in Workers, ClaimCommit(w) PROVE Kept
    <3>1. run[w].task \in Tasks /\ rows[run[w].task] \in Row /\ tx[w].stamp \in Nat
      BY <1>1, <2>4 DEF ClaimCommit, ClaimInv, RunHasTask, LockHeld, TypeOK, ClaimTx
    <3>2. [rows[run[w].task] EXCEPT !.lastParsed = tx[w].stamp] \in Row
      BY <3>1 DEF Row
    <3>3. QED
      BY <1>1, <2>4, <3>1, <3>2, NoRowAssumption DEF ClaimCommit, Present, Row
  <2>5. ASSUME NEW w \in Workers, SaveCommit(w) PROVE Kept
    <3>1. run[w].task \in Tasks /\ run[w].channel \in Channels
      BY <2>5 DEF SaveCommit, ClaimInv, RunHasTask, RunPoints
    <3>2. Present(run[w].task) => [rows[run[w].task] EXCEPT !.channel = run[w].channel] \in Row
      BY <1>1, <3>1 DEF Row
    <3>3. run[w].read.channel = run[w].channel \/ Present(run[w].task) \/ rows' = rows
      BY <2>5 DEF SaveCommit
    <3>4. QED
      BY <1>1, <2>5, <3>1, <3>2, <3>3, NoRowAssumption DEF SaveCommit, Present, Row
  <2>6. ASSUME NEW w \in Workers, SettleCommit(w) PROVE Kept
    <3>1. run[w].task \in Tasks /\ run[w] \in TaskRun
      BY <2>6 DEF SettleCommit, ClaimInv, RunHasTask, RunPoints, TypeOK
    <3>2. Present(run[w].task) => /\ Settled(w) \in Row
                                  /\ Settled(w).bucket = rows[run[w].task].bucket
      BY <1>1, <3>1 DEF Settled, VerdictChannel, Row, TaskRun
    <3>3. QED
      BY <1>1, <2>6, <3>1, <3>2, NoRowAssumption DEF SettleCommit, Present
  <2>7. ASSUME NEW w \in Workers, WorkerStep(w) \/ Abandon(w),
               ~SettleCommit(w), ~ClaimCommit(w), ~SaveCommit(w)
        PROVE  rows' = rows
    BY <2>7 DEF WorkerStep, Claim, Run, Abandon, ClaimAsk, ClaimSnapshot, ClaimLock, ClaimNone,
       Verify, Resolve, DupCheck, FetchChannel, SaveTask, ProcessMessages, SettleRead, db
  <2>8. QED
    BY <2>1, <2>2, <2>3, <2>4, <2>5, <2>6, <2>7, OperatorAssumption DEF Next, Present
<1>3. t \notin overlaps /\ Idle(t)' => Idle(t)
  BY <1>2, StatusStep DEF Idle
<1>4. QED
  BY <1>2, <1>3 DEF Idle, Present

\* What has overlapped is not forgotten.
LEMMA OverlapsGrow ==
    ASSUME [Next]_vars
    PROVE  overlaps \subseteq overlaps'
  BY DEF Next, vars, Tick, RequestStep, AddFind, AddInsert, OperatorDelete, WorkerStep, Claim, Run,
     Abandon, ClaimAsk, ClaimSnapshot, ClaimLock, ClaimNone, ClaimCommit, Verify, Resolve, DupCheck,
     FetchChannel, SaveTask, SaveCommit, ProcessMessages, SettleRead, SettleCommit

\* A step that adds no row and moves no request.
LEMMA QuietSpread ==
    ASSUME ClaimInv, RunInv, SpreadInv, [Next]_vars, adding' = adding,
           \A t \in Tasks : rows[t] = NoRow => rows'[t] = NoRow
    PROVE  SpreadInv'
<1>1. \A t \in Tasks : /\ rows'[t] = NoRow <=> rows[t] = NoRow
                       /\ overlaps = {} /\ rows[t] # NoRow /\ Idle(t)' => Idle(t) /\ rows'[t].bucket = rows[t].bucket
  BY LeftForGood
<1>2. Added' = Added
  BY <1>1 DEF Added
<1>3. ASSUME NoneLeft', overlaps' = {}
      PROVE  /\ NoneLeft /\ overlaps = {}
             /\ \A b \in Buckets : Held(b)' = Held(b) /\ Pending(b)' = Pending(b)
  BY <1>1, <1>3, OverlapsGrow DEF NoneLeft, Held, Pending
<1>4. QED
  BY <1>2, <1>3 DEF SpreadInv

\* A request chooses a bucket that holds least: what is on its way to it are
\* requests, and no more than there are.
LEMMA ChooseSpread ==
    ASSUME ClaimInv, SpreadInv, NEW r \in Requests, NEW t \in Tasks, AddFind(r, t)
    PROVE  SpreadInv'
<1>1. /\ rows' = rows /\ adding \in [Requests -> Adding] /\ adding[r] = NoAdd
      /\ overlaps' = overlaps
  BY DEF AddFind, ClaimInv, TypeOK
<1>2. PICK d \in BucketChoices : adding' = [adding EXCEPT ![r] = [task |-> t, bucket |-> d]]
  BY DEF AddFind
<1>3. Added' = Added /\ (NoneLeft' <=> NoneLeft) /\ \A b \in Buckets : Held(b)' = Held(b)
  BY <1>1 DEF Added, NoneLeft, Idle, Present, Held
<1>4. /\ \A s \in Requests : s # r => adding'[s] = adding[s]
      /\ adding'[r] = [task |-> t, bucket |-> d] /\ adding'[r].bucket = d
  BY <1>1, <1>2
<1> SUFFICES ASSUME NoneLeft, overlaps = {}, NEW b \in Buckets, NEW c \in Buckets
             PROVE  Cardinality(Held(b)) + Cardinality(Pending(b)') - Cardinality(Held(c))
                      <= Cardinality(Requests)
  BY <1>1, <1>3 DEF SpreadInv
<1>5. /\ Cardinality(Held(b)) \in Nat /\ Cardinality(Held(c)) \in Nat
      /\ Cardinality(Requests) \in Nat
  BY HeldFinite DEF SpreadInv
<1>6. /\ Cardinality(Pending(b)') <= Cardinality(Requests)
      /\ Cardinality(Pending(b)') \in Nat
  <2>1. Pending(b)' \in SUBSET Requests
    BY DEF Pending
  <2>2. QED
    BY <2>1, FS_Subset, FS_CardinalityType, RequestsAssumption
<1>7. CASE b = d
  BY <1>5, <1>6, <1>7, ChoiceIsLeast DEF SpreadInv
<1>8. CASE b # d
  <2>1. Pending(b)' \in SUBSET Pending(b)
    BY <1>4, <1>8 DEF Pending
  <2>2. /\ Cardinality(Pending(b)') <= Cardinality(Pending(b))
        /\ Cardinality(Pending(b)) \in Nat
    BY <2>1, HeldFinite, FS_Subset DEF SpreadInv
  <2>3. Cardinality(Held(b)) + Cardinality(Pending(b)) - Cardinality(Held(c)) <= Cardinality(Requests)
    BY DEF SpreadInv
  <2>4. QED
    BY <1>5, <1>6, <2>2, <2>3
<1>9. QED
  BY <1>7, <1>8

\* A request inserts its row: the bucket holds one more and waits for one less.
LEMMA InsertSpread ==
    ASSUME ClaimInv, RunInv, SpreadInv, [Next]_vars, NEW r \in Requests, AddInsert(r)
    PROVE  SpreadInv'
<1> DEFINE u == adding[r].task
           d == adding[r].bucket
<1>1. /\ adding \in [Requests -> Adding] /\ rows \in [Tasks -> Row \cup {NoRow, Deleted}]
      /\ adding[r] # NoAdd /\ adding' = [adding EXCEPT ![r] = NoAdd]
      /\ d \in Buckets
  BY DEF AddInsert, ClaimInv, TypeOK, Adding
<1>2. \/ rows' = rows
      \/ /\ u \in Tasks /\ rows[u] = NoRow /\ rows'[u].bucket = d
         /\ \A t \in Tasks : t # u => rows'[t] = rows[t]
  BY <1>1 DEF AddInsert
<1>3. \A t \in Tasks : rows[t] # NoRow =>
         rows'[t] # NoRow /\ (overlaps = {} /\ Idle(t)' => Idle(t) /\ rows'[t].bucket = rows[t].bucket)
  BY LeftForGood
<1>4. IsFiniteSet(Added')
  <2>1. Added' \in SUBSET (Added \cup {u})
    BY <1>2 DEF Added
  <2>2. IsFiniteSet(Added \cup {u})
    BY FS_AddElement DEF SpreadInv
  <2>3. QED
    BY <2>1, <2>2, FS_Subset
<1> SUFFICES ASSUME NoneLeft', overlaps' = {}, NEW b \in Buckets, NEW c \in Buckets
             PROVE  Cardinality(Held(b)') + Cardinality(Pending(b)') - Cardinality(Held(c)')
                      <= Cardinality(Requests)
  BY <1>4 DEF SpreadInv
<1>5. NoneLeft /\ overlaps = {}
  BY <1>3, OverlapsGrow DEF NoneLeft
<1>6. /\ Cardinality(Held(b)) + Cardinality(Pending(b)) - Cardinality(Held(c)) <= Cardinality(Requests)
      /\ Cardinality(Requests) \in Nat
      /\ \A e \in Buckets : /\ IsFiniteSet(Held(e)) /\ Cardinality(Held(e)) \in Nat
                            /\ IsFiniteSet(Pending(e)) /\ Cardinality(Pending(e)) \in Nat
  BY <1>5, HeldFinite DEF SpreadInv
<1>7. \A s \in Requests : s # r => adding'[s] = adding[s]
  BY <1>1
<1>8. Pending(b)' = IF b = d THEN Pending(b) \ {r} ELSE Pending(b)
  BY <1>1, <1>7 DEF Pending
<1>9. ASSUME NEW e \in Buckets
      PROVE  /\ Held(e) \in SUBSET Held(e)'
             /\ Held(e)' \in SUBSET (IF e = d THEN Held(e) \cup {u} ELSE Held(e))
  BY <1>2 DEF Held
<1>10. ASSUME NEW e \in Buckets
       PROVE  /\ Cardinality(Held(e)') \in Nat
              /\ Cardinality(Held(e)) <= Cardinality(Held(e)')
              /\ Cardinality(Held(e)') <= Cardinality(Held(e)) + (IF e = d THEN 1 ELSE 0)
  <2>0. IsFiniteSet(Held(e)) /\ Cardinality(Held(e)) \in Nat
    BY <1>6
  <2>1. /\ IsFiniteSet(Held(e) \cup {u})
        /\ Cardinality(Held(e) \cup {u}) <= Cardinality(Held(e)) + 1
    <3>1. /\ IsFiniteSet(Held(e) \cup {u})
          /\ Cardinality(Held(e) \cup {u}) =
               IF u \in Held(e) THEN Cardinality(Held(e)) ELSE Cardinality(Held(e)) + 1
      BY <2>0, FS_AddElement
    <3>2. QED
      BY <2>0, <3>1
  <2>2. IsFiniteSet(Held(e)')
    BY <1>6, <1>9, <2>1, FS_Subset
  <2>3. /\ Cardinality(Held(e)') \in Nat
        /\ Cardinality(Held(e)) <= Cardinality(Held(e)')
    BY <1>9, <2>2, FS_Subset, FS_CardinalityType
  <2>4. CASE e = d
    <3>1. Cardinality(Held(e)') <= Cardinality(Held(e) \cup {u})
      BY <1>9, <2>1, <2>4, FS_Subset
    <3>2. Cardinality(Held(e) \cup {u}) \in Nat
      BY <2>1, FS_CardinalityType
    <3>3. QED
      BY <1>6, <2>1, <2>3, <2>4, <3>1, <3>2
  <2>5. CASE e # d
    <3>1. Held(e)' = Held(e)
      BY <1>9, <2>5
    <3>2. QED
      BY <1>6, <2>5, <3>1
  <2>6. QED
    BY <2>3, <2>4, <2>5
<1>11. CASE b = d
  <2>1. r \in Pending(b)
    BY <1>1, <1>11 DEF Pending
  <2>2. Cardinality(Pending(b)') = Cardinality(Pending(b)) - 1
    BY <1>6, <1>8, <1>11, <2>1, FS_RemoveElement
  <2>3. Cardinality(Held(b)') <= Cardinality(Held(b)) + 1
    BY <1>10, <1>11
  <2>4. QED
    BY <1>6, <1>10, <2>2, <2>3
<1>12. CASE b # d
  BY <1>6, <1>8, <1>10, <1>12
<1>13. QED
  BY <1>11, <1>12

LEMMA SpreadStep == ClaimInv /\ RunInv /\ SpreadInv /\ [Next]_vars => SpreadInv'
<1> SUFFICES ASSUME ClaimInv, RunInv, SpreadInv, [Next]_vars PROVE SpreadInv'
  OBVIOUS
<1>0. rows \in [Tasks -> Row \cup {NoRow, Deleted}]
  BY DEF ClaimInv, TypeOK
<1>1. CASE Tick \/ UNCHANGED vars
  BY <1>1, QuietSpread DEF Tick, vars
<1>2. ASSUME NEW r \in Requests, RequestStep(r) PROVE SpreadInv'
  BY <1>2, ChooseSpread, InsertSpread DEF RequestStep
<1>3. ASSUME NEW t \in Tasks, OperatorDelete(t) PROVE SpreadInv'
  BY <1>0, <1>3, QuietSpread DEF OperatorDelete, Present
<1>4. ASSUME NEW w \in Workers, WorkerStep(w) \/ Abandon(w) PROVE SpreadInv'
  <2>1. adding' = adding
    BY <1>4 DEF WorkerStep, Claim, Run, Abandon, ClaimAsk, ClaimSnapshot, ClaimLock, ClaimNone,
       ClaimCommit, Verify, Resolve, DupCheck, FetchChannel, SaveTask, SaveCommit,
       ProcessMessages, SettleRead, SettleCommit
  <2>2. ASSUME ClaimCommit(w) PROVE \A t \in Tasks : rows[t] = NoRow => rows'[t] = NoRow
    BY <1>0, <2>2 DEF ClaimCommit, ClaimInv, LockHeld, Present
  <2>3. ASSUME SaveCommit(w) \/ SettleCommit(w)
        PROVE  \A t \in Tasks : rows[t] = NoRow => rows'[t] = NoRow
    <3>1. run[w].task \in Tasks
      BY <2>3 DEF SaveCommit, SettleCommit, ClaimInv, RunHasTask, RunPoints
    <3>2. SettleCommit(w) => rows' = rows \/ Present(run[w].task)
      BY DEF SettleCommit
    <3>3. SaveCommit(w) => rows' = rows \/ Present(run[w].task)
      BY DEF SaveCommit
    <3>4. QED
      BY <1>0, <2>3, <3>1, <3>2, <3>3 DEF SaveCommit, SettleCommit, Present
  <2>4. ASSUME ~SettleCommit(w), ~ClaimCommit(w), ~SaveCommit(w) PROVE rows' = rows
    BY <1>4, <2>4 DEF WorkerStep, Claim, Run, Abandon, ClaimAsk, ClaimSnapshot, ClaimLock, ClaimNone,
       Verify, Resolve, DupCheck, FetchChannel, SaveTask, ProcessMessages, SettleRead, db
  <2>5. QED
    BY <2>1, <2>2, <2>3, <2>4, QuietSpread
<1>5. QED
  BY <1>1, <1>2, <1>3, <1>4, OperatorAssumption DEF Next

\* LoadSpread: until two runs of a task overlap, requests that choose a bucket from stale counts
\* fill it by no more than their number over any other, however many tasks are
\* added and whatever the workers do meanwhile.
THEOREM BucketsStaySpread == PromptCommits => (Spec => []LoadSpread)
<1> SUFFICES ASSUME PromptCommits PROVE Spec => []LoadSpread
  OBVIOUS
<1>1. Init => SpreadInv
  <2> SUFFICES ASSUME Init PROVE SpreadInv
    OBVIOUS
  <2>1. Added = {} /\ \A b \in Buckets : Held(b) = {} /\ Pending(b) = {}
    BY DEF Init, Added, Held, Pending
  <2>2. Cardinality({}) = 0 /\ IsFiniteSet({}) /\ Cardinality(Requests) \in Nat
    BY FS_EmptySet, FS_CardinalityType, RequestsAssumption
  <2>3. ASSUME NEW b \in Buckets, NEW c \in Buckets
        PROVE  Cardinality(Held(b)) + Cardinality(Pending(b)) - Cardinality(Held(c))
                 <= Cardinality(Requests)
    <3>1. /\ Cardinality(Held(b)) = 0 /\ Cardinality(Pending(b)) = 0
          /\ Cardinality(Held(c)) = 0
      BY <2>1, <2>2
    <3>2. QED
      BY <2>2, <3>1
  <2>4. QED
    BY <2>1, <2>2, <2>3 DEF SpreadInv
<1>2. SpreadInv => LoadSpread
  <2> SUFFICES ASSUME SpreadInv, overlaps = {}, NoneLeft, NEW b \in Buckets, NEW c \in Buckets
               PROVE  Load(b) - Load(c) <= Cardinality(Requests)
    BY DEF LoadSpread, NoneLeft
  <2>1. Load(b) = Cardinality(Held(b)) /\ Load(c) = Cardinality(Held(c))
    BY LoadIsHeld
  <2>2. /\ Cardinality(Held(b)) \in Nat /\ Cardinality(Held(c)) \in Nat
        /\ Cardinality(Pending(b)) \in Nat /\ Cardinality(Requests) \in Nat
    BY HeldFinite DEF SpreadInv
  <2>3. Cardinality(Held(b)) + Cardinality(Pending(b)) - Cardinality(Held(c)) <= Cardinality(Requests)
    BY DEF SpreadInv
  <2>4. QED
    BY <2>1, <2>2, <2>3
<1>3. (Spec => []ClaimInv) /\ (Spec => []RunInv)
  BY AllInvariants
<1>4. QED
  BY <1>1, <1>2, <1>3, SpreadStep, PTL DEF Spec
=============================================================================
