------------------------ MODULE SchedulerLoop_proofs ------------------------
(***************************************************************************)
(* Theorems about SchedulerLoop, for every set of tasks, of workers and of *)
(* consumers, every length of the clock and every number of failures.      *)
(***************************************************************************)
EXTENDS SchedulerLoop, Sums_proofs

Iterating == tx[Scheduler]

\* A worker that has inserted its claim holds the row it is about, nobody has
\* parsed that task later, and the claim is the only one.
WorkerInv(w) ==
    /\ tx[w].pc \in {"out", "asked", "looked", "claiming"}
    /\ tx[w].pc = "claiming" =>
          /\ \A c \in tx[w].made : /\ c.by = w /\ lock[c.task] = w
                                   /\ lastParsed[c.task] <= c.hour /\ c.hour <= hour
          /\ \A c, d \in tx[w].made : c = d

\* last_parsed_at is never ahead of the clock, nor behind a claim of a worker.
ParsedInv ==
    /\ \A t \in Tasks : lastParsed[t] <= hour
    /\ \A c \in claims : c.by # Scheduler => c.hour <= lastParsed[c.task]

\* What an iteration knows: what its snapshot saw, the rows it holds, and the
\* claims it has inserted, one for a row.
IterationInv ==
    /\ Iterating.pc \in {"out", "asked", "looked"} => Iterating.rows = {} /\ Iterating.made = {}
    /\ Iterating.pc # "publish" => Iterating.task = NoTask
    /\ Iterating.hour <= hour
    /\ Iterating.pc \in {"looked", "claiming", "publish"} =>
          \A c \in claims : c.by = Scheduler /\ c.hour >= Iterating.hour
                            => c.task \in Iterating.seen
    /\ \A t \in Iterating.rows :
          t \notin Iterating.seen /\ lock[t] = Scheduler /\ lastParsed[t] < Iterating.hour
    /\ \A c \in Iterating.made :
          c.by = Scheduler /\ c.task \in Iterating.rows /\ Iterating.hour <= c.hour
    /\ \A c, d \in Iterating.made : c.task = d.task => c = d
    /\ Iterating.pc = "publish" => \E c \in Iterating.made : c.task = Iterating.task

\* The claim of an hour by the scheduler is committed, or its message is out.
Passed(t, h) ==
    \/ \E c \in claims : c.by = Scheduler /\ c.task = t /\ c.hour = h
    \/ \E c \in Iterating.made : c.task = t /\ c.hour = h /\ Iterating.task # t

\* Each failure repeats one message at most.
SentInv == \A t \in Tasks, h \in Hours : sent[t][h] <= failures + IF Passed(t, h) THEN 1 ELSE 0

LoopInv ==
    /\ TypeOK
    /\ \A w \in Workers : WorkerInv(w)
    /\ ParsedInv
    /\ IterationInv
    /\ SentInv

-----------------------------------------------------------------------------
(* Types *)

\* The scheduler is a claimer and no worker, and no owner is none of them.
LEMMA ClaimersFacts ==
    /\ Scheduler \in Claimers /\ Scheduler \notin Workers
    /\ Workers \subseteq Claimers /\ NoOwner \notin Claimers
    /\ \A p \in Claimers : p = Scheduler \/ p \in Workers
BY MarkersAssumption DEF Claimers

\* The transaction a process starts from has its type.
LEMMA NoTxTyped ==
    /\ NoTx \in Tx /\ NoTx.pc = "out" /\ NoTx.hour = 0 /\ NoTx.rows = {} /\ NoTx.made = {}
    /\ NoTx.task = NoTask
BY BoundsAssumption DEF NoTx, Tx, Hours

\* What is compared is a number.
LEMMA Numbers ==
    ASSUME TypeOK
    PROVE  /\ hour \in Int /\ failures \in Int
           /\ \A t \in Tasks : lastParsed[t] \in Int
           /\ \A t \in Tasks, h \in Hours : sent[t][h] \in Int
           /\ \A c \in claims : c.hour \in Int /\ c.task \in Tasks
           /\ \A p \in Claimers : tx[p].hour \in Int
           /\ \A p \in Claimers : \A c \in tx[p].made : c.hour \in Int /\ c.task \in Tasks
BY BoundsAssumption DEF TypeOK, Hours, Claim, Tx

\* A process that leaves its transaction.
LEMMA LeaveTyped ==
    ASSUME tx \in [Claimers -> Tx], NEW p \in Claimers, tx' = [tx EXCEPT ![p] = NoTx]
    PROVE  /\ tx' \in [Claimers -> Tx] /\ tx'[p] = NoTx
           /\ \A q \in Claimers : q # p => tx'[q] = tx[q]
BY NoTxTyped

\* A process that releases its locks keeps them typed, and everyone else's.
LEMMA ReleaseTyped ==
    ASSUME lock \in [Tasks -> Claimers \cup {NoOwner}], NEW p \in Claimers, Release(p)
    PROVE  /\ lock' \in [Tasks -> Claimers \cup {NoOwner}]
           /\ \A t \in Tasks : lock[t] # p => lock'[t] = lock[t]
BY DEF Release

\* What asking and looking do to the transaction.
LEMMA AskTyped ==
    ASSUME TypeOK, NEW p \in Claimers, Ask(p)
    PROVE  /\ tx' \in [Claimers -> Tx]
           /\ tx'[p].pc = "asked" /\ tx'[p].hour = hour /\ tx'[p].rows = {} /\ tx'[p].made = {}
           /\ tx'[p].task = NoTask
           /\ \A q \in Claimers : q # p => tx'[q] = tx[q]
<1> DEFINE new == [NoTx EXCEPT !.pc = "asked", !.hour = ThisHour]
<1>1. /\ new \in Tx /\ new.pc = "asked" /\ new.hour = hour /\ new.rows = {} /\ new.made = {}
      /\ new.task = NoTask
  BY BoundsAssumption DEF NoTx, Tx, ThisHour, TypeOK
<1>2. tx' = [tx EXCEPT ![p] = new]
  BY DEF Ask
<1> HIDE DEF new
<1> QED
  BY <1>1, <1>2 DEF TypeOK

LEMMA LookTyped ==
    ASSUME TypeOK, NEW p \in Claimers, Look(p)
    PROVE  /\ tx' \in [Claimers -> Tx]
           /\ tx'[p].pc = "looked" /\ tx'[p].hour = tx[p].hour /\ tx'[p].rows = tx[p].rows
           /\ tx'[p].made = tx[p].made /\ tx'[p].task = tx[p].task
           /\ tx'[p].seen = ClaimedSince(tx[p].hour)
           /\ \A q \in Claimers : q # p => tx'[q] = tx[q]
<1>1. ClaimedSince(tx[p].hour) \subseteq Tasks
  BY DEF ClaimedSince, TypeOK, Claim
<1> QED
  BY <1>1 DEF Look, TypeOK, Tx

\* The tables and the transactions have their types at the start, and the
\* tasks were not parsed in the hour the clock starts with.
LEMMA LoopInit == Init => LoopInv
<1> SUFFICES ASSUME Init PROVE LoopInv
  OBVIOUS
<1> USE BoundsAssumption, ClaimersFacts, NoTxTyped
<1>1. TypeOK
  BY DEF Init, TypeOK, Hours
<1>2. \A p \in Claimers : tx[p] = NoTx
  BY DEF Init
<1>3. \A w \in Workers : WorkerInv(w)
  BY <1>2 DEF WorkerInv
<1>4. ParsedInv
  BY DEF Init, ParsedInv
<1>5. IterationInv
  BY <1>2 DEF IterationInv, Iterating, Init
<1>6. SentInv
  BY <1>2 DEF SentInv, Init, Passed
<1> QED
  BY <1>1, <1>3, <1>4, <1>5, <1>6 DEF LoopInv

-----------------------------------------------------------------------------
(* Steps that leave the claims alone *)

\* The clock and the consumers keep the invariant.
LEMMA ClaimsAlone ==
    ASSUME LoopInv, TypeOK', hour' \in Nat, hour' >= hour, failures' >= failures,
           UNCHANGED <<lastParsed, claims, lock, tx, sent>>
    PROVE  LoopInv'
<1> USE DEF LoopInv
<1>1. \A w \in Workers : WorkerInv(w)'
  BY ClaimersFacts, Numbers DEF WorkerInv
<1>2. ParsedInv'
  BY Numbers DEF ParsedInv
<1>3. IterationInv'
  BY ClaimersFacts, Numbers DEF IterationInv, Iterating
<1>4. SentInv'
  <2>1. ASSUME NEW t \in Tasks, NEW h \in Hours PROVE Passed(t, h)' <=> Passed(t, h)
    BY DEF Passed, Iterating
  <2>2. failures \in Int /\ failures' \in Int
    BY BoundsAssumption DEF TypeOK
  <2> QED
    BY <2>1, <2>2, Numbers DEF SentInv
<1> QED
  BY <1>1, <1>2, <1>3, <1>4

LEMMA ClockAndConsumers ==
    ASSUME LoopInv, Tick \/ (\E c \in Consumers : Consume(c)) PROVE LoopInv'
<1> USE DEF LoopInv
<1>1. CASE Tick
  <2>1. hour' \in Hours /\ hour' >= hour /\ hour' \in Nat
    BY <1>1, BoundsAssumption DEF Tick, TypeOK, Hours
  <2> QED
    BY <1>1, <2>1, ClaimsAlone DEF Tick, TypeOK, table, broker
<1>2. ASSUME NEW c \in Consumers, Consume(c) PROVE LoopInv'
  <2>1. /\ queue' \in [Tasks -> Nat] /\ settled' \in [Tasks -> Nat]
        /\ held' \in [Consumers -> Tasks \cup {NoTask}]
    <3>1. ASSUME NEW t \in Tasks, Deliver(c, t)
          PROVE  /\ queue' \in [Tasks -> Nat] /\ settled' \in [Tasks -> Nat]
                 /\ held' \in [Consumers -> Tasks \cup {NoTask}]
      BY <3>1 DEF Deliver, TypeOK
    <3>2. CASE Settle(c)
      BY <3>2 DEF Settle, TypeOK
    <3>3. CASE Return(c)
      BY <3>3 DEF Return, Requeued, TypeOK
    <3> QED
      BY <1>2, <3>1, <3>2, <3>3 DEF Consume
  <2>2. UNCHANGED <<hour, lastParsed, claims, lock, tx, sent, failures>>
    BY <1>2 DEF Consume, Deliver, Settle, Return, table
  <2>3. hour' \in Nat /\ hour' >= hour /\ failures' >= failures
    BY <2>2, BoundsAssumption DEF TypeOK, Hours
  <2> QED
    BY <2>1, <2>2, <2>3, ClaimsAlone DEF TypeOK
<1> QED
  BY <1>1, <1>2

-----------------------------------------------------------------------------
(* Steps of the workers *)

\* What a step of a worker may do: take a row that nobody holds, release its
\* own, and commit a claim of its own on a row it held.
LEMMA WorkerStep ==
    ASSUME LoopInv, NEW w \in Workers, TypeOK', WorkerInv(w)', ParsedInv',
           hour' = hour, sent' = sent, failures' >= failures,
           \A q \in Claimers : q # w => tx'[q] = tx[q],
           \A t \in Tasks : lock[t] # w /\ lock[t] # NoOwner => lock'[t] = lock[t],
           \A t \in Tasks : lock[t] # w => lastParsed'[t] = lastParsed[t],
           claims \subseteq claims', \A c \in claims' \ claims : c.by = w
    PROVE  LoopInv'
<1> USE ClaimersFacts DEF LoopInv
<1>0. Iterating' = Iterating
  BY DEF Iterating
<1>1. ASSUME NEW v \in Workers, v # w PROVE WorkerInv(v)'
  <2>1. tx'[v] = tx[v] /\ WorkerInv(v)
    BY <1>1
  <2>2. ASSUME tx[v].pc = "claiming", NEW c \in tx[v].made
        PROVE  c.by = v /\ lock'[c.task] = v /\ lastParsed'[c.task] <= c.hour /\ c.hour <= hour
    <3>1. c.task \in Tasks
      BY <2>2 DEF TypeOK, Tx, Claim
    <3> QED
      BY <1>1, <2>1, <2>2, <3>1 DEF WorkerInv
  <2> QED
    BY <2>1, <2>2 DEF WorkerInv
<1>2. IterationInv'
  <2>1. Iterating.rows \subseteq Tasks
    BY DEF Iterating, TypeOK, Tx
  <2>2. \A t \in Iterating.rows : lock'[t] = Scheduler /\ lastParsed'[t] = lastParsed[t]
    BY <2>1 DEF IterationInv
  <2>3. \A c \in claims' : c.by = Scheduler => c \in claims
    OBVIOUS
  <2> QED
    BY <1>0, <2>2, <2>3 DEF IterationInv
<1>3. SentInv'
  <2>1. ASSUME NEW t \in Tasks, NEW h \in Hours PROVE Passed(t, h)' <=> Passed(t, h)
    BY <1>0 DEF Passed
  <2> QED
    BY <2>1 DEF SentInv, TypeOK
<1> QED
  BY <1>1, <1>2, <1>3

\* Every step of a claim by a worker keeps the invariant.
LEMMA WorkerSteps ==
    ASSUME LoopInv, NEW w \in Workers, WorkerClaim(w) PROVE LoopInv'
<1> USE ClaimersFacts DEF LoopInv
<1>0. WorkerInv(w) /\ w \in Claimers
  OBVIOUS
<1>1. CASE Ask(w)
  <2>1. WorkerInv(w)'
    BY <1>1, AskTyped DEF WorkerInv
  <2>2. UNCHANGED <<hour, lastParsed, claims, lock, queue, held, settled, sent, failures>>
    BY <1>1 DEF Ask, table, broker
  <2>3. TypeOK' /\ ParsedInv' /\ failures' >= failures
    BY <1>1, <2>2, AskTyped, Numbers DEF TypeOK, ParsedInv
  <2> QED
    BY <1>1, <2>1, <2>2, <2>3, AskTyped, WorkerStep
<1>2. CASE Look(w)
  <2>1. WorkerInv(w)'
    BY <1>2, LookTyped DEF WorkerInv
  <2>2. UNCHANGED <<hour, lastParsed, claims, lock, queue, held, settled, sent, failures>>
    BY <1>2 DEF Look, table, broker
  <2>3. TypeOK' /\ ParsedInv' /\ failures' >= failures
    BY <1>2, <2>2, LookTyped, Numbers DEF TypeOK, ParsedInv
  <2> QED
    BY <1>2, <2>1, <2>2, <2>3, LookTyped, WorkerStep
<1>3. CASE TakeRow(w)
  <2>1. PICK t \in Due(w) :
             /\ lock' = [lock EXCEPT ![t] = w]
             /\ tx' = [tx EXCEPT ![w].pc = "claiming", ![w].rows = {t},
                                 ![w].made = {[task |-> t, hour |-> hour, by |-> w]}]
    BY <1>3 DEF TakeRow
  <2>2. t \in Tasks /\ lock[t] = NoOwner /\ lastParsed[t] <= hour
    BY DEF Due, ParsedInv
  <2>3. lock' \in [Tasks -> Claimers \cup {NoOwner}] /\ lock'[t] = w
        /\ \A u \in Tasks : lock[u] # NoOwner => lock'[u] = lock[u]
    BY <2>1, <2>2 DEF TypeOK
  <2>4. [task |-> t, hour |-> hour, by |-> w] \in Claim
    BY <2>2 DEF Claim, TypeOK
  <2>5. /\ tx' \in [Claimers -> Tx] /\ tx'[w].pc = "claiming"
        /\ tx'[w].made = {[task |-> t, hour |-> hour, by |-> w]}
        /\ \A q \in Claimers : q # w => tx'[q] = tx[q]
    <3>1. {t} \subseteq Tasks /\ {[task |-> t, hour |-> hour, by |-> w]} \subseteq Claim
      BY <2>2, <2>4
    <3> DEFINE mine == {[task |-> t, hour |-> hour, by |-> w]}
    <3> HIDE DEF mine
    <3>2. tx' = [tx EXCEPT ![w].pc = "claiming", ![w].rows = {t}, ![w].made = mine]
      BY <2>1 DEF mine
    <3>3. mine \subseteq Claim
      BY <3>1 DEF mine
    <3>4. tx \in [Claimers -> Tx]
      BY DEF TypeOK
    <3>5. /\ tx' \in [Claimers -> Tx] /\ tx'[w].pc = "claiming" /\ tx'[w].made = mine
          /\ \A q \in Claimers : q # w => tx'[q] = tx[q]
      <4>1. {t} \in SUBSET Tasks /\ mine \in SUBSET Claim
        BY <3>1, <3>3
      <4> DEFINE row == {t}
      <4> HIDE DEF row
      <4>2. tx' = [tx EXCEPT ![w].pc = "claiming", ![w].rows = row, ![w].made = mine]
        BY <3>2 DEF row
      <4>3. row \in SUBSET Tasks
        BY <4>1 DEF row
      <4>4. tx' \in [Claimers -> Tx]
        <5> DEFINE new == [tx[w] EXCEPT !.pc = "claiming", !.rows = row, !.made = mine]
        <5>1. new \in Tx
          BY <1>0, <3>4, <4>1, <4>3 DEF Tx
        <5>2. tx' = [tx EXCEPT ![w] = new]
          BY <1>0, <3>4, <4>2
        <5> HIDE DEF new
        <5> QED
          BY <1>0, <3>4, <5>1, <5>2
      <4>5. tx'[w].pc = "claiming" /\ tx'[w].made = mine
        BY <1>0, <3>4, <4>2 DEF Tx
      <4>6. \A q \in Claimers : q # w => tx'[q] = tx[q]
        BY <3>4, <4>2
      <4> QED
        BY <4>4, <4>5, <4>6
    <3> QED
      BY <3>5 DEF mine
  <2>6. UNCHANGED <<hour, lastParsed, claims, sent, failures>>
    BY <1>3 DEF TakeRow
  <2>7. WorkerInv(w)'
    BY <2>2, <2>3, <2>5, <2>6 DEF WorkerInv, TypeOK, Hours
  <2>8. TypeOK' /\ ParsedInv' /\ failures' >= failures
    BY <1>3, <2>3, <2>5, <2>6 DEF TakeRow, TypeOK, ParsedInv, broker
  <2> QED
    BY <2>3, <2>5, <2>6, <2>7, <2>8, WorkerStep
<1>4. CASE NoRow(w)
  <2>1. WorkerInv(w)'
    BY <1>4, LeaveTyped, NoTxTyped DEF NoRow, WorkerInv, TypeOK
  <2>2. UNCHANGED <<hour, lastParsed, claims, lock, queue, held, settled, sent, failures>>
    BY <1>4 DEF NoRow, table, broker
  <2>3. tx' \in [Claimers -> Tx] /\ \A q \in Claimers : q # w => tx'[q] = tx[q]
    BY <1>4, LeaveTyped DEF NoRow, TypeOK
  <2>4. TypeOK' /\ ParsedInv' /\ failures' >= failures
    BY <2>2, <2>3, Numbers DEF TypeOK, ParsedInv
  <2> QED
    BY <2>1, <2>2, <2>3, <2>4, WorkerStep
<1>5. CASE CommitClaim(w)
  <2>1. PICK c \in tx[w].made : lastParsed' = [lastParsed EXCEPT ![c.task] = c.hour]
    BY <1>5 DEF CommitClaim
  <2>2. /\ tx[w].pc = "claiming" /\ claims' = claims \cup tx[w].made
        /\ hour' = hour /\ sent' = sent /\ failures' = failures
    BY <1>5 DEF CommitClaim
  <2>3. /\ c \in Claim /\ c.task \in Tasks /\ c.hour \in Hours /\ c.by = w
        /\ lock[c.task] = w /\ lastParsed[c.task] <= c.hour /\ c.hour <= hour
        /\ tx[w].made = {c}
    BY <2>1, <2>2 DEF WorkerInv, TypeOK, Tx, Claim
  <2>4. lastParsed' \in [Tasks -> Hours \cup {-1}] /\ lastParsed'[c.task] = c.hour
        /\ \A t \in Tasks : t # c.task => lastParsed'[t] = lastParsed[t]
    BY <2>1, <2>3 DEF TypeOK
  <2>5. ParsedInv'
    <3>1. \A t \in Tasks : lastParsed'[t] <= hour
      BY <2>3, <2>4 DEF ParsedInv
    <3>2. ASSUME NEW d \in claims, d.by # Scheduler PROVE d.hour <= lastParsed'[d.task]
      <4>1. d.task \in Tasks /\ d.hour <= lastParsed[d.task]
            /\ d.hour \in Int /\ lastParsed[d.task] \in Int /\ c.hour \in Int
        BY <2>3, <3>2, Numbers, BoundsAssumption DEF ParsedInv, Hours
      <4> QED
        BY <2>3, <2>4, <4>1, Numbers, BoundsAssumption DEF Hours
    <3> QED
      BY <2>2, <2>3, <2>4, <3>1, <3>2, BoundsAssumption DEF ParsedInv, Hours
  <2>6. lock' \in [Tasks -> Claimers \cup {NoOwner}]
        /\ \A t \in Tasks : lock[t] # w => lock'[t] = lock[t]
    BY <1>5, ReleaseTyped DEF CommitClaim, TypeOK
  <2>7. tx' \in [Claimers -> Tx] /\ tx'[w] = NoTx /\ \A q \in Claimers : q # w => tx'[q] = tx[q]
    BY <1>5, LeaveTyped DEF CommitClaim, TypeOK
  <2>8. TypeOK' /\ WorkerInv(w)' /\ failures' >= failures
    BY <1>5, <2>2, <2>3, <2>4, <2>6, <2>7, NoTxTyped
       DEF CommitClaim, TypeOK, WorkerInv, broker
  <2> QED
    BY <2>2, <2>3, <2>4, <2>5, <2>6, <2>7, <2>8, WorkerStep
<1> QED
  BY <1>1, <1>2, <1>3, <1>4, <1>5 DEF WorkerClaim

-----------------------------------------------------------------------------
(* Steps of the scheduler *)

\* What a step of the scheduler may do: take rows that nobody holds, release
\* its own, and commit claims of its own; it parses nothing.
LEMMA SchedulerStep ==
    ASSUME LoopInv, TypeOK', IterationInv', SentInv',
           hour' = hour, lastParsed' = lastParsed,
           \A w \in Workers : tx'[w] = tx[w],
           \A t \in Tasks : lock[t] \in Workers => lock'[t] = lock[t],
           claims \subseteq claims', \A c \in claims' \ claims : c.by = Scheduler
    PROVE  LoopInv'
<1> USE ClaimersFacts DEF LoopInv
<1>1. ASSUME NEW w \in Workers PROVE WorkerInv(w)'
  <2>1. \A c \in tx[w].made : c.task \in Tasks
    BY Numbers
  <2> QED
    BY <2>1 DEF WorkerInv
<1>2. ParsedInv'
  BY DEF ParsedInv
<1> QED
  BY <1>1, <1>2

\* Messages and claims that are as they were keep their bound.
LEMMA SentAlone ==
    ASSUME LoopInv, UNCHANGED <<sent, failures>>,
           \A t \in Tasks, h \in Hours : Passed(t, h) => Passed(t, h)'
    PROVE  SentInv'
BY Numbers DEF LoopInv, SentInv

LEMMA ScheduleAsk == LoopInv /\ Ask(Scheduler) => LoopInv'
<1> SUFFICES ASSUME LoopInv, Ask(Scheduler) PROVE LoopInv'
  OBVIOUS
<1> USE ClaimersFacts DEF LoopInv
<1>1. UNCHANGED <<hour, lastParsed, claims, lock, queue, held, settled, sent, failures>>
  BY DEF Ask, table, broker
<1>2. TypeOK' /\ \A w \in Workers : tx'[w] = tx[w]
  BY <1>1, AskTyped DEF TypeOK
<1>3. IterationInv'
  BY <1>1, AskTyped, Numbers DEF IterationInv, Iterating
<1>4. Iterating.made = {}
  BY DEF Ask, IterationInv, Iterating
<1>5. \A t \in Tasks, h \in Hours : Passed(t, h) => Passed(t, h)'
  BY <1>1, <1>4 DEF Passed
<1> QED
  BY <1>1, <1>2, <1>3, <1>5, SentAlone, SchedulerStep

LEMMA ScheduleLook == LoopInv /\ Look(Scheduler) => LoopInv'
<1> SUFFICES ASSUME LoopInv, Look(Scheduler) PROVE LoopInv'
  OBVIOUS
<1> USE ClaimersFacts DEF LoopInv
<1>1. UNCHANGED <<hour, lastParsed, claims, lock, queue, held, settled, sent, failures>>
  BY DEF Look, table, broker
<1>2. TypeOK' /\ \A w \in Workers : tx'[w] = tx[w]
  BY <1>1, LookTyped DEF TypeOK
<1>3. IterationInv'
  <2>1. tx[Scheduler].pc = "asked"
    BY DEF Look
  <2>2. \A c \in claims : c.hour >= tx[Scheduler].hour => c.task \in ClaimedSince(tx[Scheduler].hour)
    BY DEF ClaimedSince
  <2> QED
    BY <1>1, <2>1, <2>2, LookTyped DEF IterationInv, Iterating
<1>4. Iterating.made = {}
  BY DEF Look, IterationInv, Iterating
<1>5. \A t \in Tasks, h \in Hours : Passed(t, h) => Passed(t, h)'
  BY <1>1, <1>4 DEF Passed
<1> QED
  BY <1>1, <1>2, <1>3, <1>5, SentAlone, SchedulerStep

\* The rows an iteration locks are neither claimed for its hour, as far as its
\* snapshot saw, nor parsed in it, nor held.
LEMMA ScheduleLock == LoopInv /\ LockRows => LoopInv'
<1> SUFFICES ASSUME LoopInv, LockRows PROVE LoopInv'
  OBVIOUS
<1> USE ClaimersFacts DEF LoopInv
<1> DEFINE rows == Due(Scheduler)
<1>1. UNCHANGED <<hour, lastParsed, claims, queue, held, settled, sent, failures>>
  BY DEF LockRows, broker
<1>2. /\ tx[Scheduler].pc = "looked"
      /\ lock' = [t \in Tasks |-> IF t \in rows THEN Scheduler ELSE lock[t]]
      /\ tx' = [tx EXCEPT ![Scheduler].pc = "claiming", ![Scheduler].rows = rows]
  BY DEF LockRows
<1>3. rows \in SUBSET Tasks
      /\ \A t \in rows : /\ t \notin tx[Scheduler].seen /\ lock[t] = NoOwner
                         /\ lastParsed[t] < tx[Scheduler].hour
  BY DEF Due
<1> HIDE DEF rows
<1>4. /\ lock' \in [Tasks -> Claimers \cup {NoOwner}]
      /\ \A t \in rows : lock'[t] = Scheduler
      /\ \A t \in Tasks : lock[t] # NoOwner => lock'[t] = lock[t]
  BY <1>2, <1>3 DEF TypeOK
<1>5. tx' \in [Claimers -> Tx] /\ \A w \in Workers : tx'[w] = tx[w]
  <2> DEFINE new == [tx[Scheduler] EXCEPT !.pc = "claiming", !.rows = rows]
  <2>0. tx[Scheduler] \in Tx
    BY DEF TypeOK
  <2>1. new \in Tx
    BY <1>3, <2>0 DEF Tx
  <2>2. tx' = [tx EXCEPT ![Scheduler] = new]
    BY <1>2 DEF TypeOK
  <2> HIDE DEF new
  <2> QED
    BY <2>1, <2>2 DEF TypeOK
<1>6. /\ Iterating'.pc = "claiming" /\ Iterating'.rows = rows
      /\ Iterating'.hour = Iterating.hour /\ Iterating'.seen = Iterating.seen
      /\ Iterating'.made = Iterating.made /\ Iterating'.task = Iterating.task
  BY <1>2 DEF TypeOK, Tx, Iterating
<1>7. Iterating.made = {} /\ Iterating.task = NoTask /\ Iterating.pc = "looked"
  BY <1>2 DEF IterationInv, Iterating
<1>8. IterationInv'
  BY <1>1, <1>3, <1>4, <1>6, <1>7 DEF IterationInv, Iterating
<1>9. TypeOK'
  BY <1>1, <1>4, <1>5 DEF TypeOK
<1>10. \A t \in Tasks, h \in Hours : Passed(t, h) => Passed(t, h)'
  BY <1>1, <1>7 DEF Passed
<1>11. SentInv' /\ claims' = claims
  BY <1>1, <1>10, SentAlone
<1>12. ASSUME NEW u \in Tasks, lock[u] \in Workers PROVE lock'[u] = lock[u]
  <2>1. lock[u] # NoOwner
    BY <1>12
  <2> QED
    BY <1>4, <2>1
<1> QED
  BY <1>1, <1>5, <1>8, <1>9, <1>11, <1>12, SchedulerStep

\* A claim is inserted for a row that has none yet.
LEMMA ScheduleClaim == LoopInv /\ ClaimNext => LoopInv'
<1> SUFFICES ASSUME LoopInv, ClaimNext PROVE LoopInv'
  OBVIOUS
<1> USE ClaimersFacts DEF LoopInv
<1>1. UNCHANGED <<hour, lastParsed, claims, lock, queue, held, settled, sent, failures>>
  BY DEF ClaimNext, table, broker
<1>2. PICK t \in Unclaimed(Scheduler) :
           tx' = [tx EXCEPT ![Scheduler].pc = "publish", ![Scheduler].task = t,
                            ![Scheduler].made = @ \cup {[task |-> t, hour |-> hour, by |-> Scheduler]}]
  BY DEF ClaimNext
<1> DEFINE c == [task |-> t, hour |-> hour, by |-> Scheduler]
           made == Iterating.made \cup {c}
<1>3. /\ t \in Tasks /\ t \in Iterating.rows
      /\ \A d \in Iterating.made : d.task # t
      /\ tx[Scheduler].pc = "claiming" /\ Iterating.made \in SUBSET Claim
  BY DEF Unclaimed, Iterating, TypeOK, Tx, ClaimNext
<1>4. c \in Claim /\ c.task = t /\ c.hour = hour /\ c.by = Scheduler
  BY <1>3 DEF Claim, TypeOK
<1> HIDE DEF c
<1>5. made \in SUBSET Claim
  BY <1>3, <1>4
<1>6. tx' = [tx EXCEPT ![Scheduler].pc = "publish", ![Scheduler].task = t,
                       ![Scheduler].made = made]
  BY <1>2 DEF c, Iterating, TypeOK
<1>m. \A d : d \in made <=> d \in Iterating.made \/ d = c
  OBVIOUS
<1> HIDE DEF made
<1>7. tx' \in [Claimers -> Tx] /\ \A w \in Workers : tx'[w] = tx[w]
  <2> DEFINE new == [tx[Scheduler] EXCEPT !.pc = "publish", !.task = t, !.made = made]
  <2>0. tx[Scheduler] \in Tx
    BY DEF TypeOK
  <2>1. new \in Tx
    BY <1>3, <1>5, <2>0 DEF Tx
  <2>2. tx' = [tx EXCEPT ![Scheduler] = new]
    BY <1>6 DEF TypeOK
  <2> HIDE DEF new
  <2> QED
    BY <2>1, <2>2 DEF TypeOK
<1>8. /\ Iterating'.pc = "publish" /\ Iterating'.rows = Iterating.rows
      /\ Iterating'.hour = Iterating.hour /\ Iterating'.seen = Iterating.seen
      /\ Iterating'.made = made /\ Iterating'.task = t
  BY <1>6 DEF TypeOK, Tx, Iterating
<1>9. Iterating.pc = "claiming" /\ Iterating.task = NoTask /\ Iterating.hour <= hour
  BY <1>3 DEF IterationInv, Iterating
<1>10. IterationInv'
  <2>1. \A d \in made : d.by = Scheduler /\ d.task \in Iterating.rows /\ Iterating.hour <= d.hour
    BY <1>m, <1>3, <1>4, <1>9 DEF IterationInv
  <2>2. \A d, e \in made : d.task = e.task => d = e
    BY <1>m, <1>3, <1>4 DEF IterationInv
  <2>3. \E d \in made : d.task = t
    BY <1>m, <1>4
  <2> QED
    BY <1>1, <1>8, <1>9, <2>1, <2>2, <2>3 DEF IterationInv
<1>11. TypeOK'
  BY <1>1, <1>7 DEF TypeOK
<1>12. \A u \in Tasks, h \in Hours : Passed(u, h) => Passed(u, h)'
  <2> SUFFICES ASSUME NEW u \in Tasks, NEW h \in Hours, Passed(u, h) PROVE Passed(u, h)'
    OBVIOUS
  <2>1. CASE \E d \in claims : d.by = Scheduler /\ d.task = u /\ d.hour = h
    BY <1>1, <2>1 DEF Passed
  <2>2. CASE \E d \in Iterating.made : d.task = u /\ d.hour = h
    BY <1>m, <1>3, <1>8, <2>2 DEF Passed
  <2> QED
    BY <2>1, <2>2 DEF Passed
<1> QED
  BY <1>1, <1>7, <1>10, <1>11, <1>12, SentAlone, SchedulerStep

\* The message that is published is of a claim this iteration has inserted.
LEMMA PublishedClaim ==
    ASSUME LoopInv, Iterating.pc = "publish"
    PROVE  \E c \in Iterating.made :
              /\ c.task = Iterating.task /\ c.hour = PublishHour /\ PublishHour \in Hours
              /\ c.task \in Tasks
              /\ \A d \in Iterating.made : d.task = c.task => d = c
<1>1. PICK c \in Iterating.made : c.task = Iterating.task
  BY DEF LoopInv, IterationInv
<1>2. c.hour \in Hours /\ c.task \in Tasks
  BY <1>1, ClaimersFacts DEF LoopInv, TypeOK, Tx, Claim, Iterating
<1>3. \A d \in Iterating.made : d.task = c.task => d = c
  BY <1>1 DEF LoopInv, IterationInv
<1>4. PublishHour = CHOOSE h \in Hours : \E d \in Iterating.made : d.task = Iterating.task /\ d.hour = h
  BY DEF PublishHour, Iterating
<1>5. PublishHour \in Hours /\ \E d \in Iterating.made : d.task = Iterating.task /\ d.hour = PublishHour
  BY <1>1, <1>2, <1>4
<1> QED
  BY <1>1, <1>2, <1>3, <1>5

\* A message is published for an hour whose claims are not committed, and
\* for a row whose message was not published in this iteration.
LEMMA SchedulePublish == LoopInv /\ Publish => LoopInv'
<1> SUFFICES ASSUME LoopInv, Publish PROVE LoopInv'
  OBVIOUS
<1> USE ClaimersFacts DEF LoopInv
<1>1. UNCHANGED <<hour, lastParsed, claims, lock, held, settled, failures>>
  BY DEF Publish, table
<1>2. /\ tx[Scheduler].pc = "publish" /\ Iterating.pc = "publish"
      /\ tx' = [tx EXCEPT ![Scheduler].pc = "claiming", ![Scheduler].task = NoTask]
  BY DEF Publish, Iterating
<1>3. PICK c \in Iterating.made :
           /\ c.task = Iterating.task /\ c.hour = PublishHour /\ PublishHour \in Hours
           /\ c.task \in Tasks
           /\ \A d \in Iterating.made : d.task = c.task => d = c
  BY <1>2, PublishedClaim
<1>4. tx' \in [Claimers -> Tx] /\ \A w \in Workers : tx'[w] = tx[w]
  <2> DEFINE new == [tx[Scheduler] EXCEPT !.pc = "claiming", !.task = NoTask]
  <2>0. tx[Scheduler] \in Tx
    BY DEF TypeOK
  <2>1. new \in Tx
    BY <2>0 DEF Tx
  <2>2. tx' = [tx EXCEPT ![Scheduler] = new]
    BY <1>2 DEF TypeOK
  <2> HIDE DEF new
  <2> QED
    BY <2>1, <2>2 DEF TypeOK
<1>5. /\ Iterating'.pc = "claiming" /\ Iterating'.rows = Iterating.rows
      /\ Iterating'.hour = Iterating.hour /\ Iterating'.seen = Iterating.seen
      /\ Iterating'.made = Iterating.made /\ Iterating'.task = NoTask
  BY <1>2 DEF TypeOK, Tx, Iterating
<1>6. IterationInv'
  BY <1>1, <1>2, <1>5 DEF IterationInv
<1>7. /\ queue' \in [Tasks -> Nat] /\ sent' \in [Tasks -> [Hours -> Nat]]
      /\ \A t \in Tasks, h \in Hours :
            sent'[t][h] <= sent[t][h] + IF t = c.task /\ h = c.hour THEN 1 ELSE 0
  <2>1. CASE UNCHANGED <<queue, sent>>
    BY <2>1, Numbers DEF TypeOK
  <2>2. CASE /\ queue' = [queue EXCEPT ![c.task] = @ + 1]
             /\ sent' = [sent EXCEPT ![c.task][c.hour] = @ + 1]
    BY <1>3, <2>2, Numbers DEF TypeOK
  <2> QED
    BY <1>3, <2>1, <2>2 DEF Publish, Iterating
<1>8. TypeOK'
  BY <1>1, <1>4, <1>7 DEF TypeOK
<1>9. SentInv'
  <2> SUFFICES ASSUME NEW t \in Tasks, NEW h \in Hours
              PROVE  sent'[t][h] <= failures + IF Passed(t, h)' THEN 1 ELSE 0
    BY <1>1 DEF SentInv
  <2>0. failures \in Int /\ sent[t][h] \in Int /\ sent'[t][h] \in Int
    BY <1>7, Numbers
  <2>1. sent[t][h] <= failures + IF Passed(t, h) THEN 1 ELSE 0
    BY DEF SentInv
  <2>2. Passed(t, h) => Passed(t, h)'
    BY <1>1, <1>5, MarkersAssumption DEF Passed
  <2>3. CASE t = c.task /\ h = c.hour
    <3>1. ~Passed(t, h)
      <4>1. ASSUME NEW d \in claims, d.by = Scheduler, d.task = t, d.hour = h PROVE FALSE
        <5>1. c.task \in Iterating.rows /\ Iterating.hour <= c.hour
          BY DEF IterationInv
        <5>2. Iterating.hour \in Int /\ c.hour \in Int
          BY Numbers DEF Iterating
        <5>3. d.task \in Iterating.seen
          BY <1>2, <2>3, <4>1, <5>1, <5>2 DEF IterationInv
        <5> QED
          BY <2>3, <4>1, <5>1, <5>3 DEF IterationInv
      <4>2. ~\E d \in Iterating.made : d.task = t /\ d.hour = h /\ Iterating.task # t
        BY <1>3, <2>3
      <4> QED
        BY <4>1, <4>2 DEF Passed
    <3>2. Passed(t, h)'
      BY <1>3, <1>5, <2>3, MarkersAssumption DEF Passed
    <3> QED
      BY <1>7, <2>0, <2>1, <2>3, <3>1, <3>2
  <2>4. CASE ~(t = c.task /\ h = c.hour)
    BY <1>7, <2>0, <2>1, <2>2, <2>4
  <2> QED
    BY <2>3, <2>4
<1> QED
  BY <1>1, <1>4, <1>6, <1>8, <1>9, SchedulerStep

\* The commit makes the claims of the iteration those of the table.
LEMMA ScheduleCommit == LoopInv /\ CommitIteration => LoopInv'
<1> SUFFICES ASSUME LoopInv, CommitIteration PROVE LoopInv'
  OBVIOUS
<1> USE ClaimersFacts DEF LoopInv
<1>1. UNCHANGED <<hour, lastParsed, queue, held, settled, sent, failures>>
  BY DEF CommitIteration, broker
<1>2. /\ Iterating.pc = "claiming" /\ claims' = claims \cup Iterating.made
      /\ tx' = [tx EXCEPT ![Scheduler] = NoTx]
  BY DEF CommitIteration, Iterating
<1>3. Iterating.made \subseteq Claim /\ \A c \in Iterating.made : c.by = Scheduler
  BY DEF TypeOK, Tx, Iterating, IterationInv
<1>4. /\ tx' \in [Claimers -> Tx] /\ Iterating' = NoTx
      /\ \A w \in Workers : tx'[w] = tx[w]
  BY <1>2, LeaveTyped DEF TypeOK, Iterating
<1>5. /\ lock' \in [Tasks -> Claimers \cup {NoOwner}]
      /\ \A t \in Tasks : lock[t] # Scheduler => lock'[t] = lock[t]
  BY ReleaseTyped DEF CommitIteration, TypeOK
<1>6. TypeOK'
  BY <1>1, <1>2, <1>3, <1>4, <1>5 DEF TypeOK
<1>7. IterationInv'
  BY <1>1, <1>4, NoTxTyped, BoundsAssumption DEF IterationInv, TypeOK, Hours
<1>8. \A t \in Tasks, h \in Hours : Passed(t, h) => Passed(t, h)'
  BY <1>2, <1>3 DEF Passed
<1>9. SentInv'
  BY <1>1, <1>8, SentAlone
<1> QED
  BY <1>1, <1>2, <1>3, <1>4, <1>5, <1>6, <1>7, <1>9, SchedulerStep

-----------------------------------------------------------------------------
(* Failures *)

\* A transaction that is rolled back leaves its messages in the queue: the
\* hour of its claims may be published again, which the failure counts for.
LEMMA FailStep == ASSUME LoopInv, NEW p \in Claimers, Fail(p) PROVE LoopInv'
<1> USE ClaimersFacts DEF LoopInv
<1>1. /\ UNCHANGED <<hour, lastParsed, claims, queue, held, settled, sent>>
      /\ failures' = failures + 1 /\ failures' \in 0 .. MaxFailures
  BY BoundsAssumption DEF Fail, broker, TypeOK
<1>2. tx' \in [Claimers -> Tx] /\ tx'[p] = NoTx /\ \A q \in Claimers : q # p => tx'[q] = tx[q]
  BY LeaveTyped DEF Fail, TypeOK
<1>3. /\ lock' \in [Tasks -> Claimers \cup {NoOwner}]
      /\ \A t \in Tasks : lock[t] # p => lock'[t] = lock[t]
  BY ReleaseTyped DEF Fail, RollBack, TypeOK
<1>4. TypeOK' /\ ParsedInv'
  BY <1>1, <1>2, <1>3 DEF TypeOK, ParsedInv
<1>5. CASE p \in Workers
  <2>1. WorkerInv(p)'
    BY <1>2, NoTxTyped DEF WorkerInv
  <2>2. failures' >= failures
    BY <1>1, Numbers
  <2> QED
    BY <1>1, <1>2, <1>3, <1>4, <1>5, <2>1, <2>2, WorkerStep
<1>6. CASE p = Scheduler
  <2>1. Iterating' = NoTx /\ \A w \in Workers : tx'[w] = tx[w]
    BY <1>2, <1>6 DEF Iterating
  <2>2. IterationInv'
    BY <1>1, <2>1, NoTxTyped, BoundsAssumption DEF IterationInv, TypeOK, Hours
  <2>3. SentInv'
    <3> SUFFICES ASSUME NEW t \in Tasks, NEW h \in Hours
                PROVE  sent[t][h] <= failures + 1 + IF Passed(t, h)' THEN 1 ELSE 0
      BY <1>1 DEF SentInv
    <3>1. sent[t][h] <= failures + IF Passed(t, h) THEN 1 ELSE 0
      BY DEF SentInv
    <3>2. failures \in Int /\ sent[t][h] \in Int
      BY Numbers
    <3> QED
      BY <3>1, <3>2
  <2> QED
    BY <1>1, <1>3, <1>4, <1>6, <2>1, <2>2, <2>3, SchedulerStep
<1> QED
  BY <1>5, <1>6

\* Every step keeps the invariant.
LEMMA LoopNext == LoopInv /\ [Next]_vars => LoopInv'
<1>1. LoopInv /\ UNCHANGED vars => LoopInv'
  BY DEF LoopInv, TypeOK, WorkerInv, ParsedInv, IterationInv, Iterating, SentInv, Passed, vars
<1> QED
  BY <1>1, ClockAndConsumers, WorkerSteps, ScheduleAsk, ScheduleLook, ScheduleLock,
     ScheduleClaim, SchedulePublish, ScheduleCommit, FailStep DEF Next, Iteration

\* The inductive invariant of the scheduler loop, of the workers that claim
\* beside it and of the queue it publishes to.
THEOREM LoopInvariant == Spec => []LoopInv
BY LoopInit, LoopNext, PTL DEF Spec

\* The tables, the transactions and the queue keep their types.
THEOREM LoopTypeCorrect == Spec => []TypeOK
BY LoopInvariant, PTL DEF LoopInv

\* However long an iteration lasts, it takes no task that a worker has
\* claimed for the hour the iteration asked about.
THEOREM SchedulerAlwaysYields == Spec => []SchedulerYields
<1>1. LoopInv => SchedulerYields
  <2> SUFFICES ASSUME LoopInv, NEW c \in claims, c.by # Scheduler, c.task \in Iterating.rows
              PROVE  c.hour < Iterating.hour
    BY DEF SchedulerYields, Iterating
  <2>1. c.hour <= lastParsed[c.task] /\ lastParsed[c.task] < Iterating.hour
    BY DEF LoopInv, ParsedInv, IterationInv
  <2>2. c.hour \in Int /\ lastParsed[c.task] \in Int /\ Iterating.hour \in Int
    BY Numbers, ClaimersFacts DEF LoopInv, Iterating
  <2> QED
    BY <2>1, <2>2
<1> QED
  BY <1>1, LoopInvariant, PTL

\* A task is published once for an hour, and once more for each transaction
\* that failed.
THEOREM PublishedOncePerHour == Spec => []OnePublishPerHour
<1>1. LoopInv => OnePublishPerHour
  <2> SUFFICES ASSUME LoopInv, NEW t \in Tasks, NEW h \in Hours
              PROVE  sent[t][h] <= 1 + failures
    BY DEF OnePublishPerHour
  <2>1. sent[t][h] <= failures + IF Passed(t, h) THEN 1 ELSE 0
    BY DEF LoopInv, SentInv
  <2>2. sent[t][h] \in Int /\ failures \in Int
    BY Numbers DEF LoopInv
  <2> QED
    BY <2>1, <2>2
<1> QED
  BY <1>1, LoopInvariant, PTL

-----------------------------------------------------------------------------
(* Messages *)

Holders(t) == {c \in Consumers : held[c] = t}

\* Whatever was published for a task waits, is held or was settled.
KeptInv ==
    \A t \in Tasks :
        /\ IsFiniteSet(Holders(t))
        /\ Sum(sent[t]) = queue[t] + settled[t] + Cardinality(Holders(t))

\* What is counted is a number.
LEMMA Counts ==
    ASSUME TypeOK, KeptInv, NEW t \in Tasks
    PROVE  /\ queue[t] \in Nat /\ settled[t] \in Nat /\ Cardinality(Holders(t)) \in Nat
           /\ sent[t] \in [Hours -> Nat]
BY FS_CardinalityType DEF TypeOK, KeptInv

\* The clock's hours are finitely many.
LEMMA HoursFinite == IsFiniteSet(Hours)
<1>1. 0 \in Int /\ MaxHour \in Int
  BY BoundsAssumption
<1> QED
  BY <1>1, FS_Interval DEF Hours

\* Nothing was published and nothing is held at the start.
LEMMA KeptInit == Init => KeptInv
<1> SUFFICES ASSUME Init, NEW t \in Tasks
             PROVE  IsFiniteSet(Holders(t))
                    /\ Sum(sent[t]) = queue[t] + settled[t] + Cardinality(Holders(t))
  BY DEF KeptInv
<1>1. Holders(t) = {} /\ queue[t] = 0 /\ settled[t] = 0
  BY MarkersAssumption DEF Init, Holders
<1>2. IsFiniteSet({}) /\ Cardinality({}) = 0
  BY FS_EmptySet
<1>3. sent[t] \in [Hours -> Nat] /\ \A h \in Hours : sent[t][h] = 0
  BY DEF Init
<1>4. Sum(sent[t]) = 0
  BY <1>3, HoursFinite, SumTyped
<1> QED
  BY <1>1, <1>2, <1>4

\* A message is counted as published when it enters the queue.
LEMMA KeptPublish == ASSUME LoopInv, KeptInv, Publish PROVE KeptInv'
<1> DEFINE t == Iterating.task
<1>1. UNCHANGED <<held, settled>> /\ Iterating.pc = "publish"
  BY DEF Publish, Iterating
<1>2. \A u \in Tasks : Holders(u)' = Holders(u)
  BY <1>1 DEF Holders
<1>3. PublishHour \in Hours /\ t \in Tasks
  BY <1>1, PublishedClaim
<1>4. CASE UNCHANGED <<queue, sent>>
  BY <1>1, <1>2, <1>4 DEF KeptInv
<1>5. CASE queue' = [queue EXCEPT ![t] = @ + 1] /\ sent' = [sent EXCEPT ![t][PublishHour] = @ + 1]
  <2> SUFFICES ASSUME NEW u \in Tasks
               PROVE  IsFiniteSet(Holders(u))'
                      /\ Sum(sent'[u]) = queue'[u] + settled'[u] + Cardinality(Holders(u)')
    BY DEF KeptInv
  <2>1. /\ IsFiniteSet(Holders(u))
        /\ Sum(sent[u]) = queue[u] + settled[u] + Cardinality(Holders(u))
    BY DEF KeptInv
  <2>2. /\ queue[u] \in Nat /\ settled[u] \in Nat /\ Cardinality(Holders(u)) \in Nat
        /\ sent[u] \in [Hours -> Nat]
    BY Counts DEF LoopInv
  <2>3. CASE u = t
    <3>1. sent'[u] = [sent[u] EXCEPT ![PublishHour] = @ + 1] /\ queue'[u] = queue[u] + 1
      BY <1>3, <1>5, <2>3 DEF LoopInv, TypeOK
    <3>2. Sum(sent'[u]) = Sum(sent[u]) + 1
      BY <1>3, <2>2, <3>1, HoursFinite, SumAdds
    <3> QED
      BY <1>1, <1>2, <2>1, <2>2, <3>1, <3>2
  <2>4. CASE u # t
    <3>1. sent'[u] = sent[u] /\ queue'[u] = queue[u]
      BY <1>5, <2>4 DEF LoopInv, TypeOK
    <3> QED
      BY <1>1, <1>2, <2>1, <3>1
  <2> QED
    BY <2>3, <2>4
<1> QED
  BY <1>4, <1>5 DEF Publish, Iterating

\* A message leaves the queue for a consumer that holds none.
LEMMA KeptDeliver ==
    ASSUME LoopInv, KeptInv, NEW c \in Consumers, NEW t \in Tasks, Deliver(c, t)
    PROVE  KeptInv'
<1> SUFFICES ASSUME NEW u \in Tasks
             PROVE  IsFiniteSet(Holders(u)')
                    /\ Sum(sent'[u]) = queue'[u] + settled'[u] + Cardinality(Holders(u)')
  BY DEF KeptInv
<1>1. /\ held[c] = NoTask /\ queue[t] > 0 /\ UNCHANGED <<settled, sent>>
      /\ queue' = [queue EXCEPT ![t] = @ - 1] /\ held' = [held EXCEPT ![c] = t]
  BY DEF Deliver
<1>2. /\ IsFiniteSet(Holders(u))
      /\ Sum(sent[u]) = queue[u] + settled[u] + Cardinality(Holders(u))
  BY DEF KeptInv
<1>3. queue[u] \in Nat /\ settled[u] \in Nat /\ Cardinality(Holders(u)) \in Nat
  BY Counts DEF LoopInv
<1>4. CASE u = t
  <2>1. Holders(u)' = Holders(u) \cup {c} /\ c \notin Holders(u)
    BY <1>1, <1>4, MarkersAssumption DEF Holders, LoopInv, TypeOK
  <2>2. IsFiniteSet(Holders(u)') /\ Cardinality(Holders(u)') = Cardinality(Holders(u)) + 1
    BY <1>2, <2>1, FS_AddElement
  <2>3. queue'[u] = queue[u] - 1
    BY <1>1, <1>4 DEF LoopInv, TypeOK
  <2> QED
    BY <1>1, <1>2, <1>3, <2>2, <2>3
<1>5. CASE u # t
  <2>1. Holders(u)' = Holders(u) /\ queue'[u] = queue[u]
    BY <1>1, <1>5, MarkersAssumption DEF Holders, LoopInv, TypeOK
  <2> QED
    BY <1>1, <1>2, <2>1
<1> QED
  BY <1>4, <1>5

\* A consumer that lets its message go is one holder less of that task.
LEMMA HolderLeaves ==
    ASSUME LoopInv, KeptInv, NEW c \in Consumers, held[c] # NoTask,
           held' = [held EXCEPT ![c] = NoTask]
    PROVE  /\ held[c] \in Tasks
           /\ \A u \in Tasks :
                 /\ IsFiniteSet(Holders(u)')
                 /\ u = held[c] => Cardinality(Holders(u)') = Cardinality(Holders(u)) - 1
                 /\ u # held[c] => Holders(u)' = Holders(u)
<1>1. held[c] \in Tasks
  BY DEF LoopInv, TypeOK
<1>2. \A u \in Tasks : IsFiniteSet(Holders(u))
  BY DEF KeptInv
<1>3. ASSUME NEW u \in Tasks, u = held[c]
      PROVE  IsFiniteSet(Holders(u)') /\ Cardinality(Holders(u)') = Cardinality(Holders(u)) - 1
  <2>1. Holders(u)' = Holders(u) \ {c} /\ c \in Holders(u)
    BY <1>3, MarkersAssumption DEF Holders, LoopInv, TypeOK
  <2> QED
    BY <1>2, <2>1, FS_RemoveElement
<1>4. ASSUME NEW u \in Tasks, u # held[c] PROVE Holders(u)' = Holders(u)
  BY <1>4, MarkersAssumption DEF Holders, LoopInv, TypeOK
<1> QED
  BY <1>1, <1>2, <1>3, <1>4

\* A message that is settled is settled once, one that is returned waits again.
LEMMA KeptLeave ==
    ASSUME LoopInv, KeptInv, NEW c \in Consumers, Settle(c) \/ Return(c)
    PROVE  KeptInv'
<1> SUFFICES ASSUME NEW u \in Tasks
             PROVE  IsFiniteSet(Holders(u)')
                    /\ Sum(sent'[u]) = queue'[u] + settled'[u] + Cardinality(Holders(u)')
  BY DEF KeptInv
<1>1. held[c] # NoTask /\ held' = [held EXCEPT ![c] = NoTask] /\ UNCHANGED sent
  BY DEF Settle, Return
<1>2. /\ held[c] \in Tasks /\ IsFiniteSet(Holders(u)')
      /\ u = held[c] => Cardinality(Holders(u)') = Cardinality(Holders(u)) - 1
      /\ u # held[c] => Holders(u)' = Holders(u)
  BY <1>1, HolderLeaves
<1>3. Sum(sent[u]) = queue[u] + settled[u] + Cardinality(Holders(u))
  BY DEF KeptInv
<1>4. queue[u] \in Nat /\ settled[u] \in Nat /\ Cardinality(Holders(u)) \in Nat
  BY Counts DEF LoopInv
<1>5. /\ u = held[c] => queue'[u] + settled'[u] = queue[u] + settled[u] + 1
      /\ u # held[c] => queue'[u] = queue[u] /\ settled'[u] = settled[u]
  <2>1. CASE UNCHANGED queue /\ settled' = [settled EXCEPT ![held[c]] = @ + 1]
    BY <1>4, <2>1 DEF LoopInv, TypeOK
  <2>2. CASE UNCHANGED settled /\ queue' = [queue EXCEPT ![held[c]] = @ + 1]
    BY <1>4, <2>2 DEF LoopInv, TypeOK
  <2> QED
    BY <2>1, <2>2 DEF Settle, Return, Requeued
<1>6. CASE u = held[c]
  <2>1. queue'[u] \in Nat /\ settled'[u] \in Nat
    BY <1>2, <1>4, <1>6 DEF Settle, Return, Requeued, LoopInv, TypeOK
  <2> QED
    BY <1>1, <1>2, <1>3, <1>4, <1>5, <1>6, <2>1
<1>7. CASE u # held[c]
  BY <1>1, <1>2, <1>3, <1>5, <1>7
<1> QED
  BY <1>6, <1>7

\* No step loses a message or settles it twice.
LEMMA KeptNext == LoopInv /\ KeptInv /\ [Next]_vars => KeptInv'
<1> SUFFICES ASSUME LoopInv, KeptInv, [Next]_vars PROVE KeptInv'
  OBVIOUS
<1>1. CASE UNCHANGED <<broker, sent>>
  BY <1>1 DEF KeptInv, Holders, broker
<1>2. CASE Publish
  BY <1>2, KeptPublish
<1>3. ASSUME NEW c \in Consumers, Consume(c) PROVE KeptInv'
  BY <1>3, KeptDeliver, KeptLeave DEF Consume
<1>4. CASE Tick \/ Ask(Scheduler) \/ Look(Scheduler) \/ LockRows \/ ClaimNext \/ CommitIteration
  BY <1>1, <1>4 DEF Tick, Ask, Look, LockRows, ClaimNext, CommitIteration
<1>5. ASSUME NEW w \in Workers, WorkerClaim(w) PROVE KeptInv'
  BY <1>1, <1>5 DEF WorkerClaim, Ask, Look, TakeRow, NoRow, CommitClaim
<1>6. ASSUME NEW p \in Claimers, Fail(p) PROVE KeptInv'
  BY <1>1, <1>6 DEF Fail
<1>7. CASE UNCHANGED vars
  BY <1>1, <1>7 DEF vars, broker
<1> QED
  BY <1>2, <1>3, <1>4, <1>5, <1>6, <1>7 DEF Next, Iteration

\* No message gets lost between consumers, and none is settled twice, however
\* often it is returned.
THEOREM MessagesAlwaysKept == Spec => []MessagesKept
<1>1. KeptInv => MessagesKept
  BY DEF KeptInv, MessagesKept, Sum, Holders
<1>2. Spec => []KeptInv
  BY KeptInit, KeptNext, LoopInvariant, PTL DEF Spec
<1> QED
  BY <1>1, <1>2, PTL
=============================================================================
