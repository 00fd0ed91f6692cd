------------------------ MODULE SessionQueue_proofs ------------------------
(***************************************************************************)
(* Theorems about SessionQueue, for every set of accounts and workers,     *)
(* every length of a flood wait and every number of faults.                *)
(***************************************************************************)
EXTENDS SessionQueue, Sums_proofs

\* A worker that holds no session owns no message, one that does works with
\* a client of the table, and a delay is as long as a flood wait.
Local(s) ==
    /\ s.pc \in {"out", "waiting"} => ~s.owned
    /\ s.pc \notin {"out", "waiting"} => s.account \in clients
    /\ s.pc = "delay" => s.wait \in 1 .. MaxWait

\* Messages are sessions of clients of the table.
OfClients ==
    \A a \in Accounts : queue[a] > 0 \/ (\E d \in Delays : delayed[a][d] > 0) => a \in clients

LocalInv == TypeOK /\ (\A w \in Workers : Local(session[w])) /\ OfClients

-----------------------------------------------------------------------------
(* Steps of the queues *)

\* The delays are numbers, the first of them among them.
LEMMA DelaysFacts == Delays \subseteq Nat /\ 1 \in Delays /\ MaxWait \in Nat /\ Margin \in Nat
BY WaitsAssumption DEF Delays

\* A flood wait with its margin is a delay.
LEMMA DelayTyped == \A n \in 1 .. MaxWait : Delay(n) \in Delays
BY WaitsAssumption DEF Delay, Delays

\* A message that is put into the queue keeps it typed, and every other one.
LEMMA PutTyped ==
    ASSUME queue \in [Accounts -> Nat], NEW a \in Accounts, Put(a)
    PROVE  /\ queue' \in [Accounts -> Nat]
           /\ queue'[a] > 0
           /\ \A b \in Accounts : b # a => queue'[b] = queue[b]
BY DEF Put

\* The locals a worker starts from have their type.
LEMMA NothingTyped == NoSession \in Session /\ NoSession.pc = "out" /\ ~NoSession.owned
BY WaitsAssumption DEF NoSession, Session

\* The locals of a worker after it goes on keep their type.
LEMMA GoTyped ==
    ASSUME session \in [Workers -> Session], NEW w \in Workers,
           NEW pc \in {"out", "waiting", "received", "using", "publish", "delay", "ack",
                       "remove", "ban", "stuck"}, Go(w, pc)
    PROVE  /\ session' \in [Workers -> Session]
           /\ session'[w].pc = pc
           /\ session'[w].account = session[w].account
           /\ session'[w].owned = session[w].owned
           /\ session'[w].wait = session[w].wait
           /\ \A v \in Workers : v # w => session'[v] = session[v]
BY DEF Go, Session

\* A worker that leaves has the locals it started from.
LEMMA LeaveTyped ==
    ASSUME session \in [Workers -> Session], NEW w \in Workers, Leave(w)
    PROVE  /\ session' \in [Workers -> Session]
           /\ session'[w] = NoSession
           /\ \A v \in Workers : v # w => session'[v] = session[v]
BY NothingTyped DEF Leave

\* The fields of a session.
LEMMA SessionFields ==
    ASSUME NEW s \in Session
    PROVE  /\ s.account \in Accounts \cup {NoAccount} /\ s.owned \in BOOLEAN
           /\ s.wait \in 0 .. MaxWait
           /\ s.pc \in {"out", "waiting", "received", "using", "publish", "delay", "ack",
                        "remove", "ban", "stuck"}
BY DEF Session

\* A message that is put into the delayed exchange keeps it typed.
LEMMA PutDelayedTyped ==
    ASSUME delayed \in [Accounts -> [Delays -> Nat]], NEW w \in Workers,
           session[w].account \in Accounts, session[w].wait \in 1 .. MaxWait, PutDelayed(w)
    PROVE  /\ delayed' \in [Accounts -> [Delays -> Nat]]
           /\ \E d \in Delays : delayed'[session[w].account][d] > 0
           /\ \A b \in Accounts : b # session[w].account => delayed'[b] = delayed[b]
           /\ \A b \in Accounts, d \in Delays : delayed[b][d] > 0 => delayed'[b][d] > 0
<1> DEFINE a == session[w].account
           n == Delay(session[w].wait)
<1>1. n \in Delays
  BY DelayTyped
<1>2. delayed' = [delayed EXCEPT ![a][n] = @ + 1]
  BY DEF PutDelayed
<1>3. a \in Accounts
  OBVIOUS
<1> HIDE DEF a, n
<1>4. /\ delayed' \in [Accounts -> [Delays -> Nat]]
      /\ delayed'[a][n] > 0
      /\ \A b \in Accounts : b # a => delayed'[b] = delayed[b]
      /\ \A b \in Accounts, d \in Delays : delayed[b][d] > 0 => delayed'[b][d] > 0
  BY <1>1, <1>2, <1>3
<1> QED
  BY <1>1, <1>4 DEF a

-----------------------------------------------------------------------------
(* The invariant of the locals *)

\* The types, the locals and the owners of the messages are right at the
\* start.
LEMMA LocalInit == Init => LocalInv
BY WaitsAssumption, DelaysFacts, NothingTyped
   DEF Init, LocalInv, TypeOK, Local, OfClients, NoSession, Session

\* What a step of a worker must do to the locals.
LEMMA WorkerStep ==
    ASSUME LocalInv, NEW w \in Workers,
           UNCHANGED <<clients, adding, unpublished>>,
           banned' \in SUBSET clients, removed' \in SUBSET clients,
           queue' \in [Accounts -> Nat], delayed' \in [Accounts -> [Delays -> Nat]],
           cool' \in [Accounts -> 0 .. MaxWait], faults' \in 0 .. MaxFaults,
           session' \in [Workers -> Session],
           \A v \in Workers : v # w => session'[v] = session[v],
           Local(session'[w]),
           \A a \in Accounts : a \notin clients =>
               queue'[a] = queue[a] /\ delayed'[a] = delayed[a]
    PROVE  LocalInv'
<1>1. TypeOK'
  BY DEF LocalInv, TypeOK
<1>2. \A v \in Workers : Local(session[v])'
  BY DEF LocalInv, Local
<1>3. OfClients'
  <2> SUFFICES ASSUME NEW a \in Accounts, a \notin clients
              PROVE  ~(queue'[a] > 0) /\ ~\E d \in Delays : delayed'[a][d] > 0
    BY DEF OfClients
  <2>1. ~(queue[a] > 0) /\ ~\E d \in Delays : delayed[a][d] > 0
    BY DEF LocalInv, OfClients
  <2> QED
    BY <2>1
<1> QED
  BY <1>1, <1>2, <1>3 DEF LocalInv

\* The steps of the clock and of add_client keep the invariant.
LEMMA LocalTables ==
    LocalInv /\ (Tick \/ \E a \in Accounts : Add(a)) => LocalInv'
<1> SUFFICES ASSUME LocalInv, Tick \/ \E a \in Accounts : Add(a) PROVE LocalInv'
  OBVIOUS
<1> USE DEF LocalInv
<1>1. CASE Tick
  <2>1. queue' \in [Accounts -> Nat] /\ delayed' \in [Accounts -> [Delays -> Nat]]
        /\ cool' \in [Accounts -> 0 .. MaxWait]
    BY <1>1, DelaysFacts DEF Tick, TypeOK
  <2>2. OfClients'
    BY <1>1, DelaysFacts DEF Tick, TypeOK, OfClients, table
  <2> QED
    BY <1>1, <2>1, <2>2 DEF Tick, TypeOK, Local, table
<1>2. ASSUME NEW a \in Accounts, AddCommit(a) PROVE LocalInv'
  BY <1>2 DEF AddCommit, Created, TypeOK, Local, OfClients, rest
<1>3. ASSUME NEW a \in Accounts, AddSession(a) PROVE LocalInv'
  BY <1>3, PutTyped DEF AddSession, TypeOK, Local, OfClients, rest
<1>4. ASSUME NEW a \in Accounts, AddFails(a) PROVE LocalInv'
  BY <1>4, WaitsAssumption, PutTyped DEF AddFails, Fault, TypeOK, Local, OfClients, rest
<1> QED
  BY <1>1, <1>2, <1>3, <1>4 DEF Add

\* A worker that rejects its message keeps the queue typed, and touches the
\* messages of no account but its own.
LEMMA RejectTyped ==
    ASSUME LocalInv, NEW w \in Workers, session[w].pc \notin {"out", "waiting"}, Reject(w)
    PROVE  /\ queue' \in [Accounts -> Nat]
           /\ \A a \in Accounts : queue'[a] >= queue[a]
           /\ session[w].owned => queue'[session[w].account] > 0
           /\ \A a \in Accounts : a # session[w].account => queue'[a] = queue[a]
<1>1. session[w].account \in Accounts
  BY DEF LocalInv, Local, TypeOK
<1>2. queue \in [Accounts -> Nat]
  BY DEF LocalInv, TypeOK
<1>3. CASE session[w].owned
  BY <1>1, <1>2, <1>3 DEF Reject, Put
<1>4. CASE ~session[w].owned
  BY <1>2, <1>4 DEF Reject
<1> QED
  BY <1>3, <1>4

\* The steps of get_client keep the invariant.
LEMMA LocalWorker ==
    ASSUME LocalInv, NEW w \in Workers,
           GetClient(w) \/ Disconnect(w) \/ Crash(w) \/ ConsumerTimeout(w)
    PROVE  LocalInv'
<1> DEFINE a == session[w].account
<1>0. TypeOK /\ Local(session[w]) /\ OfClients /\ session[w] \in Session
  BY DEF LocalInv, TypeOK
<1> USE <1>0, WaitsAssumption
<1>a. session[w].pc \notin {"out", "waiting"} => a \in clients /\ a \in Accounts
  BY DEF Local, TypeOK
<1>l. Leave(w) => Local(session'[w])
  BY LeaveTyped, NothingTyped DEF Local, TypeOK
<1>1. CASE Start(w)
  <2>1. Local(session'[w])
    BY <1>1, GoTyped DEF Start, Local, TypeOK, table
  <2> QED
    BY <1>1, <2>1, GoTyped, WorkerStep DEF Start, TypeOK, table, rest
<1>2. CASE Timeout(w)
  BY <1>2, <1>l, LeaveTyped, WorkerStep DEF Timeout, TypeOK, table, rest
<1>3. CASE Receive(w)
  <2>1. PICK b \in Accounts :
             /\ queue[b] > 0
             /\ queue' = [queue EXCEPT ![b] = @ - 1]
             /\ session' = [session EXCEPT ![w] =
                              [NoSession EXCEPT !.pc = "received", !.account = b, !.owned = TRUE]]
    BY <1>3 DEF Receive
  <2>2. b \in clients
    BY <2>1 DEF OfClients
  <2>3. queue' \in [Accounts -> Nat] /\ \A c \in Accounts : c # b => queue'[c] = queue[c]
    BY <2>1 DEF TypeOK
  <2>4. session' \in [Workers -> Session] /\ Local(session'[w])
        /\ \A v \in Workers : v # w => session'[v] = session[v]
    <3> DEFINE t == [NoSession EXCEPT !.pc = "received", !.account = b, !.owned = TRUE]
    <3>1. /\ t \in Session /\ t.pc = "received" /\ t.account = b
      <4>1. NoSession \in Session
        BY NothingTyped
      <4> QED
        BY <4>1 DEF Session
    <3>2. session' = [session EXCEPT ![w] = t] /\ clients' = clients
      BY <1>3, <2>1 DEF Receive, table
    <3> HIDE DEF t
    <3> QED
      BY <2>2, <3>1, <3>2 DEF TypeOK, Local
  <2> QED
    BY <1>3, <2>2, <2>3, <2>4, WorkerStep DEF Receive, TypeOK, table, rest
<1>4. CASE Look(w)
  <2>1. session' \in [Workers -> Session] /\ Local(session'[w])
        /\ \A v \in Workers : v # w => session'[v] = session[v]
    BY <1>4, <1>a, GoTyped DEF Look, Local, TypeOK, table
  <2> QED
    BY <1>4, <2>1, WorkerStep DEF Look, TypeOK, table, rest
<1>5. CASE EndUse(w)
  <2>1. CASE Go(w, "publish") \/ Go(w, "remove")
    <3>1. session' \in [Workers -> Session] /\ Local(session'[w])
          /\ \A v \in Workers : v # w => session'[v] = session[v]
      BY <1>5, <1>a, <2>1, GoTyped DEF EndUse, Local, TypeOK, table
    <3>2. cool' \in [Accounts -> 0 .. MaxWait] /\ delayed' = delayed
      BY <1>5 DEF EndUse, TypeOK, rest
    <3> QED
      BY <1>5, <3>1, <3>2, WorkerStep DEF EndUse, TypeOK, table
  <2>2. ASSUME NEW d \in 1 .. MaxWait,
               session' = [session EXCEPT ![w].pc = "delay", ![w].wait = d],
               cool' = [cool EXCEPT ![session[w].account] = d],
               UNCHANGED delayed
        PROVE  LocalInv'
    <3>1. session' \in [Workers -> Session] /\ Local(session'[w])
          /\ \A v \in Workers : v # w => session'[v] = session[v]
      <4>1. d \in 0 .. MaxWait /\ session \in [Workers -> Session]
        BY DEF TypeOK
      <4>2. session' \in [Workers -> Session]
        BY <2>2, <4>1 DEF Session
      <4>3. /\ session'[w].pc = "delay" /\ session'[w].account = a /\ session'[w].wait = d
            /\ \A v \in Workers : v # w => session'[v] = session[v]
        BY <2>2, <4>1 DEF Session
      <4>4. clients' = clients /\ a \in clients
        BY <1>5, <1>a DEF EndUse, table
      <4> QED
        BY <4>2, <4>3, <4>4 DEF Local
    <3>2. cool' \in [Accounts -> 0 .. MaxWait]
      <4>1. d \in 0 .. MaxWait
        OBVIOUS
      <4>2. cool \in [Accounts -> 0 .. MaxWait] /\ cool' = [cool EXCEPT ![a] = d]
        BY <2>2 DEF TypeOK
      <4> HIDE DEF a
      <4> QED
        BY <4>1, <4>2
    <3> QED
      BY <1>5, <2>2, <3>1, <3>2, WorkerStep DEF EndUse, TypeOK, table
  <2> QED
    BY <1>5, <2>1, <2>2 DEF EndUse
<1>6. CASE UseFails(w)
  BY <1>6, <1>a, <1>l, LeaveTyped, RejectTyped, WorkerStep
     DEF UseFails, TypeOK, table, rest
<1>7. CASE Publish(w)
  <2>1. session' \in [Workers -> Session] /\ Local(session'[w])
        /\ \A v \in Workers : v # w => session'[v] = session[v]
    BY <1>7, <1>a, GoTyped DEF Publish, Local, TypeOK, table
  <2> QED
    BY <1>7, <1>a, <2>1, PutTyped, WorkerStep DEF Publish, TypeOK, table, rest
<1>8. CASE PublishFails(w)
  <2>1. queue' \in [Accounts -> Nat] /\ \A b \in Accounts : b # a => queue'[b] = queue[b]
    BY <1>8, <1>a, RejectTyped DEF PublishFails, TypeOK
  <2>2. faults' \in 0 .. MaxFaults
    BY <1>8 DEF PublishFails, Fault, TypeOK
  <2> QED
    BY <1>8, <1>a, <1>l, <2>1, <2>2, LeaveTyped, WorkerStep DEF PublishFails, TypeOK, table, rest
<1>9. CASE PublishDelayed(w)
  <2>1. session' \in [Workers -> Session] /\ Local(session'[w])
        /\ \A v \in Workers : v # w => session'[v] = session[v]
    BY <1>9, <1>a, GoTyped DEF PublishDelayed, Local, TypeOK, table
  <2>2. delayed' \in [Accounts -> [Delays -> Nat]]
        /\ \A b \in Accounts : b # a => delayed'[b] = delayed[b]
    BY <1>9, <1>a, PutDelayedTyped DEF PublishDelayed, TypeOK, Local
  <2> QED
    BY <1>9, <1>a, <2>1, <2>2, WorkerStep DEF PublishDelayed, TypeOK, table
<1>10. CASE DelayFails(w)
  <2>1. session' \in [Workers -> Session] /\ Local(session'[w])
        /\ \A v \in Workers : v # w => session'[v] = session[v]
    BY <1>10, <1>a, <1>l, GoTyped, LeaveTyped DEF DelayFails, Local, TypeOK, table
  <2>2. delayed' \in [Accounts -> [Delays -> Nat]]
        /\ \A b \in Accounts : b # a => delayed'[b] = delayed[b]
    BY <1>10, <1>a, PutDelayedTyped DEF DelayFails, TypeOK, Local
  <2>3. faults' \in 0 .. MaxFaults
    BY <1>10 DEF DelayFails, Fault, TypeOK
  <2> QED
    BY <1>10, <1>a, <2>1, <2>2, <2>3, WorkerStep DEF DelayFails, TypeOK, table
<1>11. CASE Ack(w)
  BY <1>11, <1>l, LeaveTyped, WorkerStep DEF Ack, Acked, TypeOK, table, rest
<1>12. CASE Remove(w)
  <2>1. session' \in [Workers -> Session] /\ Local(session'[w])
        /\ \A v \in Workers : v # w => session'[v] = session[v]
    BY <1>12, <1>a, <1>l, GoTyped, LeaveTyped DEF Remove, Local, TypeOK, table
  <2>2. removed' \in SUBSET clients
    BY <1>12, <1>a DEF Remove, TypeOK
  <2> QED
    BY <1>12, <2>1, <2>2, WorkerStep DEF Remove, TypeOK, table, rest
<1>13. CASE Ban(w)
  BY <1>13, <1>a, <1>l, LeaveTyped, WorkerStep DEF Ban, TypeOK, rest
<1>14. CASE Disconnect(w)
  <2>1. session[w].pc \notin {"out", "waiting"}
    BY <1>14 DEF Disconnect, Unacknowledged, Local
  <2>2. session' \in [Workers -> Session] /\ Local(session'[w])
        /\ \A v \in Workers : v # w => session'[v] = session[v]
    BY <1>14, <1>a, <2>1 DEF Disconnect, Local, TypeOK, Session, table
  <2>3. faults' \in 0 .. MaxFaults
    BY <1>14 DEF Disconnect, Fault, TypeOK
  <2> QED
    BY <1>14, <1>a, <2>1, <2>2, <2>3, PutTyped, WorkerStep DEF Disconnect, TypeOK, table, rest
<1>15. CASE Crash(w)
  <2>1. queue' \in [Accounts -> Nat] /\ \A b \in Accounts : b \notin clients => queue'[b] = queue[b]
    BY <1>15, <1>a, PutTyped DEF Crash, Unacknowledged, Local, TypeOK
  <2>2. faults' \in 0 .. MaxFaults
    BY <1>15 DEF Crash, Fault, TypeOK
  <2> QED
    BY <1>15, <1>l, <2>1, <2>2, LeaveTyped, WorkerStep DEF Crash, TypeOK, table, rest
<1>16. CASE ConsumerTimeout(w)
  BY <1>16, <1>a, <1>l, LeaveTyped, PutTyped, WorkerStep DEF ConsumerTimeout, TypeOK, table, rest
<1> QED
  BY <1>1, <1>2, <1>3, <1>4, <1>5, <1>6, <1>7, <1>8, <1>9, <1>10, <1>11, <1>12, <1>13,
     <1>14, <1>15, <1>16 DEF GetClient

\* A step that changes nothing keeps the invariant.
LEMMA LocalStutter == LocalInv /\ UNCHANGED vars => LocalInv'
BY DEF LocalInv, TypeOK, Local, OfClients, vars

\* Every step keeps the locals right.
LEMMA LocalStep == LocalInv /\ [Next]_vars => LocalInv'
BY LocalTables, LocalWorker, LocalStutter DEF Next

\* The tables, the queues and the locals of the workers have their types, and
\* every message is the session of a client of the table.
THEOREM QueueTypeCorrect == Spec => []LocalInv
BY LocalInit, LocalStep, PTL DEF Spec

-----------------------------------------------------------------------------
(* No session is lost                                                      *)
(*                                                                         *)
(* Every step leaves a session that is in the broker in the broker, or     *)
(* takes the account out for good.                                         *)

Stays == \A a \in clients : InBroker(a) => InBroker(a)' \/ a \in removed'

\* A step that adds no client and keeps what is in the broker loses none.
LEMMA StaysKept ==
    ASSUME SessionKept, Stays, UNCHANGED <<clients, adding, unpublished>>, removed \subseteq removed'
    PROVE  SessionKept'
BY DEF SessionKept, Stays

\* A worker that takes no message from the queues and lets go of its own
\* only for another copy loses none.
LEMMA WorkerStays ==
    ASSUME LocalInv, NEW w \in Workers,
           \A a \in Accounts : queue'[a] >= queue[a],
           \A a \in Accounts, d \in Delays : delayed[a][d] > 0 => delayed'[a][d] > 0,
           \A v \in Workers : v # w => session'[v] = session[v],
           queue' \in [Accounts -> Nat],
           NEW b, b = session[w].account,
           Unacknowledged(w) /\ session[w].pc # "ack" => InBroker(b)' \/ b \in removed'
    PROVE  Stays
<1> SUFFICES ASSUME NEW a \in clients, InBroker(a) PROVE InBroker(a)' \/ a \in removed'
  BY DEF Stays
<1>0. a \in Accounts /\ queue \in [Accounts -> Nat]
  BY DEF LocalInv, TypeOK
<1>1. CASE queue[a] > 0
  BY <1>0, <1>1 DEF InBroker
<1>2. CASE \E d \in Delays : delayed[a][d] > 0
  BY <1>0, <1>2 DEF InBroker
<1>3. CASE Holders(a) # {}
  <2>1. PICK v \in Workers : v \in Holders(a)
    BY <1>3 DEF Holders
  <2>2. CASE v = w
    BY <2>1, <2>2 DEF Holders
  <2>3. CASE v # w
    BY <2>1, <2>3 DEF Holders, Unacknowledged, InBroker
  <2> QED
    BY <2>2, <2>3
<1> QED
  BY <1>1, <1>2, <1>3 DEF InBroker

\* A worker that holds its message after the step keeps it in the broker.
LEMMA HolderInBroker ==
    ASSUME NEW w \in Workers, Unacknowledged(w)', session'[w].pc # "ack",
           NEW b, session'[w].account = b
    PROVE  InBroker(b)'
BY DEF InBroker, Holders

\* A rejected or published message is in the queue again.
LEMMA PutStays ==
    ASSUME LocalInv, NEW b \in Accounts, Put(b)
    PROVE  /\ \A a \in Accounts : queue'[a] >= queue[a]
           /\ queue' \in [Accounts -> Nat]
           /\ InBroker(b)'
<1>1. queue \in [Accounts -> Nat]
  BY DEF LocalInv, TypeOK
<1>2. queue' \in [Accounts -> Nat] /\ queue'[b] > 0
      /\ \A a \in Accounts : queue'[a] >= queue[a]
  BY <1>1 DEF Put
<1> QED
  BY <1>2 DEF InBroker

\* The clock and add_client lose no session.
LEMMA KeptTables ==
    ASSUME LocalInv, SessionKept, Tick \/ \E a \in Accounts : Add(a)
    PROVE  SessionKept'
<1> USE DEF LocalInv
<1>1. CASE Tick
  <2>1. SUFFICES ASSUME NEW a \in clients, InBroker(a) PROVE InBroker(a)'
    BY <1>1, StaysKept DEF Tick, Stays, table
  <2>0. a \in Accounts
    BY DEF TypeOK
  <2>2. CASE queue[a] > 0
    BY <1>1, <2>0, <2>2, DelaysFacts DEF Tick, TypeOK, InBroker
  <2>3. CASE \E d \in Delays : delayed[a][d] > 0
    <3>1. PICK d \in Delays : delayed[a][d] > 0
      BY <2>3
    <3>2. CASE d = 1
      BY <1>1, <2>0, <3>1, <3>2, DelaysFacts DEF Tick, TypeOK, InBroker
    <3>3. CASE d # 1
      <4>1. d - 1 \in Delays /\ d - 1 + 1 = d
        BY <3>3, WaitsAssumption DEF Delays
      <4>2. delayed'[a][d - 1] = delayed[a][d]
        BY <1>1, <2>0, <4>1 DEF Tick
      <4> QED
        BY <3>1, <4>1, <4>2 DEF InBroker
    <3> QED
      BY <3>2, <3>3
  <2>4. CASE Holders(a) # {}
    BY <1>1, <2>4 DEF Tick, InBroker, Holders, Unacknowledged
  <2> QED
    BY <2>1, <2>2, <2>3, <2>4 DEF InBroker
<1>2. ASSUME NEW a \in Accounts, AddCommit(a) PROVE SessionKept'
  BY <1>2 DEF AddCommit, Created, SessionKept, InBroker, Holders, Unacknowledged, rest
<1>3. ASSUME NEW a \in Accounts, AddSession(a) PROVE SessionKept'
  <2>1. queue' \in [Accounts -> Nat] /\ queue'[a] > 0
        /\ \A b \in Accounts : b # a => queue'[b] = queue[b]
    BY <1>3, PutTyped DEF AddSession, TypeOK
  <2> QED
    BY <1>3, <2>1 DEF AddSession, SessionKept, TypeOK, InBroker, Holders, Unacknowledged, rest
<1>4. ASSUME NEW a \in Accounts, AddFails(a) PROVE SessionKept'
  <2>1. CASE Put(a) /\ UNCHANGED unpublished
    <3>1. queue' \in [Accounts -> Nat] /\ queue'[a] > 0
          /\ \A b \in Accounts : b # a => queue'[b] = queue[b]
      BY <2>1, PutTyped DEF TypeOK
    <3> QED
      BY <1>4, <2>1, <3>1 DEF AddFails, SessionKept, TypeOK, InBroker, Holders, Unacknowledged, rest
  <2>2. CASE unpublished' = unpublished \cup {a} /\ UNCHANGED queue
    BY <1>4, <2>2 DEF AddFails, SessionKept, InBroker, Holders, Unacknowledged, rest
  <2> QED
    BY <1>4, <2>1, <2>2 DEF AddFails
<1> QED
  BY <1>1, <1>2, <1>3, <1>4 DEF Add

\* No step of get_client, no lost connection and no crash loses a session.
LEMMA KeptWorker ==
    ASSUME LocalInv, SessionKept, NEW w \in Workers,
           GetClient(w) \/ Disconnect(w) \/ Crash(w) \/ ConsumerTimeout(w)
    PROVE  SessionKept'
<1>z. PICK a : a = session[w].account
  OBVIOUS
<1>0. /\ TypeOK /\ Local(session[w]) /\ session[w] \in Session
      /\ queue \in [Accounts -> Nat] /\ \A b \in Accounts : queue[b] >= queue[b]
  BY DEF LocalInv, TypeOK
<1> USE <1>0, <1>z
<1>a. session[w].pc \notin {"out", "waiting"} => a \in clients /\ a \in Accounts
  BY DEF Local, TypeOK
<1>b. Unacknowledged(w) => session[w].pc \notin {"out", "waiting"}
  BY DEF Unacknowledged, Local
<1>1. CASE Start(w)
  BY <1>1, <1>b, GoTyped, WorkerStays, StaysKept DEF Start, TypeOK, table, rest
<1>2. CASE Timeout(w)
  BY <1>2, <1>b, LeaveTyped, WorkerStays, StaysKept DEF Timeout, TypeOK, table, rest
<1>3. CASE Receive(w)
  <2>1. PICK b \in Accounts :
             /\ queue[b] > 0
             /\ queue' = [queue EXCEPT ![b] = @ - 1]
             /\ session' = [session EXCEPT ![w] =
                              [NoSession EXCEPT !.pc = "received", !.account = b, !.owned = TRUE]]
    BY <1>3 DEF Receive
  <2>2. session'[w].pc = "received" /\ session'[w].account = b /\ session'[w].owned = TRUE
        /\ \A v \in Workers : v # w => session'[v] = session[v]
    BY <2>1, NothingTyped DEF TypeOK, Session
  <2>3. InBroker(b)'
    BY <2>2 DEF InBroker, Holders, Unacknowledged
  <2>4. \A c \in Accounts : c # b => queue'[c] = queue[c]
    BY <2>1
  <2>5. delayed' = delayed /\ UNCHANGED <<clients, adding, unpublished, removed>>
    BY <1>3 DEF Receive, table, rest
  <2>6. ASSUME NEW c \in clients, c # b, InBroker(c) PROVE InBroker(c)'
    <3>1. \A v \in Holders(c) : v # w
      BY <1>3 DEF Holders, Unacknowledged, Receive, Local
    <3>2. c \in Accounts
      BY DEF TypeOK
    <3>3. CASE Holders(c) # {}
      BY <2>2, <3>1, <3>3 DEF Holders, Unacknowledged, InBroker
    <3> QED
      BY <2>4, <2>5, <2>6, <3>2, <3>3 DEF InBroker
  <2> QED
    BY <2>3, <2>5, <2>6, StaysKept DEF Stays
<1>4. CASE Look(w)
  BY <1>4, GoTyped, HolderInBroker, WorkerStays, StaysKept
     DEF Look, Unacknowledged, TypeOK, table, rest
<1>5. CASE EndUse(w)
  <2>1. delayed' = delayed /\ queue' = queue /\ removed' = removed
        /\ UNCHANGED <<clients, adding, unpublished>>
    BY <1>5 DEF EndUse, rest, table
  <2>2. /\ session'[w].pc \notin {"ack", "ban"} /\ session'[w].account = a
        /\ session'[w].owned = session[w].owned
        /\ \A v \in Workers : v # w => session'[v] = session[v]
    BY <1>5, GoTyped DEF EndUse, TypeOK, Session
  <2> QED
    BY <2>1, <2>2, HolderInBroker, WorkerStays, StaysKept DEF Unacknowledged
<1>6. CASE UseFails(w)
  <2>1. /\ \A b \in Accounts : queue'[b] >= queue[b]
        /\ queue' \in [Accounts -> Nat]
        /\ Unacknowledged(w) => InBroker(a)'
    BY <1>6, <1>a, RejectTyped DEF UseFails, Unacknowledged, InBroker
  <2> QED
    BY <1>6, <2>1, LeaveTyped, WorkerStays, StaysKept DEF UseFails, TypeOK, table, rest
<1>7. CASE Publish(w)
  BY <1>7, <1>a, GoTyped, PutStays, WorkerStays, StaysKept DEF Publish, TypeOK, table, rest
<1>8. CASE PublishFails(w)
  <2>1. /\ \A b \in Accounts : queue'[b] >= queue[b]
        /\ queue' \in [Accounts -> Nat]
        /\ session[w].owned => queue'[a] > 0
    BY <1>8, <1>a, RejectTyped DEF PublishFails
  <2> QED
    BY <1>8, <1>a, <2>1, LeaveTyped, WorkerStays, StaysKept
       DEF PublishFails, Unacknowledged, InBroker, TypeOK, table, rest
<1>9. CASE PublishDelayed(w)
  <2>1. /\ \E d \in Delays : delayed'[a][d] > 0
        /\ \A b \in Accounts, d \in Delays : delayed[b][d] > 0 => delayed'[b][d] > 0
    BY <1>9, <1>a, PutDelayedTyped DEF PublishDelayed, TypeOK, Local
  <2> QED
    BY <1>9, <2>1, GoTyped, WorkerStays, StaysKept DEF PublishDelayed, InBroker, TypeOK, table
<1>10. CASE DelayFails(w)
  <2>1. \A b \in Accounts, d \in Delays : delayed[b][d] > 0 => delayed'[b][d] > 0
    BY <1>10, <1>a, PutDelayedTyped DEF DelayFails, TypeOK, Local
  <2>2. queue' = queue /\ removed' = removed /\ UNCHANGED <<clients, adding, unpublished>>
    BY <1>10 DEF DelayFails, table
  <2>3. CASE session[w].owned
    BY <1>10, <2>1, <2>2, <2>3, GoTyped, HolderInBroker, WorkerStays, StaysKept
       DEF DelayFails, Unacknowledged, TypeOK
  <2>4. CASE ~session[w].owned
    BY <1>10, <2>1, <2>2, <2>4, LeaveTyped, WorkerStays, StaysKept
       DEF DelayFails, Unacknowledged, TypeOK
  <2> QED
    BY <2>3, <2>4
<1>11. CASE Ack(w)
  BY <1>11, LeaveTyped, WorkerStays, StaysKept DEF Ack, Acked, TypeOK, table, rest
<1>12. CASE Remove(w)
  <2>1. UNCHANGED <<clients, adding, unpublished, queue, delayed>>
    BY <1>12 DEF Remove, table, rest
  <2>2. CASE session[w].owned
    BY <1>12, <2>1, <2>2, GoTyped, WorkerStays, StaysKept DEF Remove, TypeOK
  <2>3. CASE ~session[w].owned
    BY <1>12, <2>1, <2>3, LeaveTyped, WorkerStays, StaysKept DEF Remove, Unacknowledged, TypeOK
  <2> QED
    BY <2>2, <2>3
<1>13. CASE Ban(w)
  BY <1>13, LeaveTyped, WorkerStays, StaysKept DEF Ban, Unacknowledged, TypeOK, rest
<1>14. CASE Disconnect(w)
  BY <1>14, <1>a, <1>b, PutStays, WorkerStays, StaysKept DEF Disconnect, TypeOK, table, rest
<1>15. CASE Crash(w)
  <2>1. CASE Unacknowledged(w)
    BY <1>15, <1>a, <1>b, <2>1, LeaveTyped, PutStays, WorkerStays, StaysKept
       DEF Crash, TypeOK, table, rest
  <2>2. CASE ~Unacknowledged(w)
    BY <1>15, <2>2, LeaveTyped, WorkerStays, StaysKept DEF Crash, TypeOK, table, rest
  <2> QED
    BY <2>1, <2>2
<1>16. CASE ConsumerTimeout(w)
  BY <1>16, <1>a, LeaveTyped, PutStays, WorkerStays, StaysKept
     DEF ConsumerTimeout, TypeOK, table, rest
<1> QED
  BY <1>1, <1>2, <1>3, <1>4, <1>5, <1>6, <1>7, <1>8, <1>9, <1>10, <1>11, <1>12, <1>13,
     <1>14, <1>15, <1>16 DEF GetClient

\* The session of an account is in the broker, in the delayed exchange or
\* with a worker that owes an acknowledgement, from the moment it was
\* published until Telegram or the table refuses it: whatever fails.
THEOREM SessionNeverLost == Spec => []SessionKept
<1>1. Init => SessionKept
  BY DEF Init, SessionKept
<1>2. LocalInv /\ SessionKept /\ [Next]_vars => SessionKept'
  <2>1. LocalInv /\ SessionKept /\ UNCHANGED vars => SessionKept'
    BY DEF SessionKept, InBroker, Holders, Unacknowledged, vars
  <2> QED
    BY <2>1, KeptTables, KeptWorker DEF Next
<1> QED
  BY <1>1, <1>2, QueueTypeCorrect, PTL DEF Spec
-----------------------------------------------------------------------------
(* Before the first fault a session is in one place, and rests there until *)
(* its flood wait is over.                                                 *)

\* the points at which a worker has a session
Having == {"received", "using", "publish", "delay", "remove"}
Has(w, a) == session[w].account = a /\ session[w].pc \in Having

\* The one place of a session is the queue, a slot of the delayed exchange, or
\* a worker; that of an account that is not published yet is none of them.
OncePlaced(a) ==
    /\ queue[a] <= 1
    /\ \A d \in Delays : delayed[a][d] <= 1
    /\ \A d, e \in Delays : delayed[a][d] > 0 /\ delayed[a][e] > 0 => d = e
    /\ queue[a] > 0 => \A d \in Delays : delayed[a][d] = 0
    /\ \A w \in Workers : Has(w, a) => queue[a] = 0 /\ \A d \in Delays : delayed[a][d] = 0
    /\ \A v, w \in Workers : Has(v, a) /\ Has(w, a) => v = w
    /\ a \notin clients \ adding =>
          /\ queue[a] = 0 /\ \A d \in Delays : delayed[a][d] = 0
          /\ \A w \in Workers : ~Has(w, a)

\* A session that waits for nothing, or is used, belongs to a rested account.
Rested(a) ==
    /\ queue[a] > 0 => cool[a] = 0
    /\ \A d \in Delays : delayed[a][d] > 0 => cool[a] <= d
    /\ \A w \in Workers :
          Has(w, a) => IF session[w].pc = "delay" THEN cool[a] <= session[w].wait ELSE cool[a] = 0
    /\ a \notin clients \ adding => cool[a] = 0

\* A worker with a session owns its message.
Owning == \A w \in Workers : /\ session[w].pc \in Having => session[w].owned
                             /\ session[w].pc # "stuck"

UntilFault == faults = 0 => Owning /\ \A a \in Accounts : OncePlaced(a) /\ Rested(a)

\* What a step of a worker does to the accounts it does not work on.
LEMMA OtherPlaces ==
    ASSUME NEW a \in Accounts, OncePlaced(a), Rested(a), NEW w \in Workers,
           UNCHANGED <<clients, adding>>,
           queue'[a] = queue[a], delayed'[a] = delayed[a], cool'[a] = cool[a],
           \A v \in Workers : v # w => session'[v] = session[v],
           session'[w].account # a \/ session'[w].pc \notin Having
    PROVE  OncePlaced(a)' /\ Rested(a)'
<1>1. \A v \in Workers : Has(v, a)' => v # w /\ Has(v, a) /\ session'[v] = session[v]
  BY DEF Has
<1> QED
  BY <1>1 DEF OncePlaced, Rested

\* The clock moves what rests, all by one tick.
LEMMA TickPlaces ==
    ASSUME LocalInv, UntilFault, Tick
    PROVE  UntilFault'
<1> SUFFICES ASSUME faults = 0, NEW a \in Accounts PROVE Owning' /\ OncePlaced(a)' /\ Rested(a)'
  BY DEF UntilFault, Tick
<1>0. /\ Owning /\ OncePlaced(a) /\ Rested(a)
      /\ queue[a] \in Nat /\ delayed[a] \in [Delays -> Nat] /\ cool[a] \in Nat
  BY DEF UntilFault, LocalInv, TypeOK
<1>1. /\ UNCHANGED <<clients, adding, session>>
      /\ queue'[a] = queue[a] + delayed[a][1]
      /\ \A d \in Delays : delayed'[a][d] = IF d + 1 \in Delays THEN delayed[a][d + 1] ELSE 0
      /\ cool'[a] = IF cool[a] > 0 THEN cool[a] - 1 ELSE 0
  BY DEF Tick, table
<1>2. \A w \in Workers : Has(w, a)' <=> Has(w, a)
  BY <1>1 DEF Has
<1>3. \A d \in Delays : d \in Nat /\ d >= 1
  BY DEF Delays
<1>4. \A d \in Delays : delayed'[a][d] > 0 => d + 1 \in Delays /\ delayed'[a][d] = delayed[a][d + 1]
  BY <1>1
<1>5. \A d \in Delays : delayed'[a][d] <= 1
  BY <1>0, <1>1 DEF OncePlaced
<1>6. \A d, e \in Delays : delayed'[a][d] > 0 /\ delayed'[a][e] > 0 => d = e
  <2> SUFFICES ASSUME NEW d \in Delays, NEW e \in Delays, delayed'[a][d] > 0, delayed'[a][e] > 0
               PROVE  d = e
    OBVIOUS
  <2>1. d + 1 \in Delays /\ e + 1 \in Delays /\ delayed[a][d + 1] > 0 /\ delayed[a][e + 1] > 0
    BY <1>4
  <2>2. d + 1 = e + 1
    BY <1>0, <2>1 DEF OncePlaced
  <2> QED
    BY <1>3, <2>2
<1>7. queue'[a] <= 1 /\ (queue'[a] > 0 => \A d \in Delays : delayed'[a][d] = 0)
  <2>1. CASE queue[a] > 0
    BY <1>0, <1>1, <2>1, DelaysFacts DEF OncePlaced
  <2>2. CASE ~(queue[a] > 0)
    <3>1. queue'[a] = delayed[a][1] /\ delayed[a][1] \in Nat /\ delayed[a][1] <= 1
      BY <1>0, <1>1, <2>2, DelaysFacts DEF OncePlaced
    <3>2. ASSUME delayed[a][1] > 0, NEW d \in Delays PROVE delayed'[a][d] = 0
      <4>1. d + 1 \in Delays => delayed[a][d + 1] = 0
        BY <1>0, <1>3, <3>2, DelaysFacts DEF OncePlaced
      <4> QED
        BY <1>1, <4>1
    <3> QED
      BY <3>1, <3>2
  <2> QED
    BY <2>1, <2>2
<1>8. \A w \in Workers : Has(w, a) => queue'[a] = 0 /\ \A d \in Delays : delayed'[a][d] = 0
  BY <1>0, <1>1, DelaysFacts DEF OncePlaced
<1>9. a \notin clients \ adding => queue'[a] = 0 /\ \A d \in Delays : delayed'[a][d] = 0
  BY <1>0, <1>1, DelaysFacts DEF OncePlaced
<1>10. OncePlaced(a)'
  BY <1>0, <1>1, <1>2, <1>5, <1>6, <1>7, <1>8, <1>9 DEF OncePlaced
<1>11. Rested(a)'
  <2>1. queue'[a] > 0 => cool'[a] = 0
    <3>1. queue'[a] > 0 => queue[a] > 0 \/ delayed[a][1] > 0
      BY <1>0, <1>1, DelaysFacts
    <3> QED
      BY <1>0, <1>1, <3>1, DelaysFacts DEF Rested
  <2>2. \A d \in Delays : delayed'[a][d] > 0 => cool'[a] <= d
    BY <1>0, <1>1, <1>3, <1>4 DEF Rested
  <2>3. ASSUME NEW w \in Workers, Has(w, a)
        PROVE  IF session[w].pc = "delay" THEN cool'[a] <= session[w].wait ELSE cool'[a] = 0
    <3>1. session[w].wait \in Nat
      BY WaitsAssumption DEF LocalInv, TypeOK, Session
    <3> QED
      BY <1>0, <1>1, <2>3, <3>1 DEF Rested
  <2>4. a \notin clients \ adding => cool'[a] = 0
    BY <1>0, <1>1 DEF Rested
  <2> QED
    BY <1>1, <1>2, <2>1, <2>2, <2>3, <2>4 DEF Rested
<1> QED
  BY <1>0, <1>1, <1>10, <1>11 DEF Owning

\* A worker that goes on with its session, or lets go of it for good, moves
\* nothing.
LEMMA KeepsPlaces ==
    ASSUME LocalInv, UntilFault, faults = 0, NEW w \in Workers,
           UNCHANGED <<clients, adding, queue, delayed, cool, faults>>,
           \A v \in Workers : v # w => session'[v] = session[v],
           session'[w].pc # "stuck",
           session'[w].pc \in Having =>
               /\ session[w].pc \in Having \ {"delay"} /\ session'[w].pc # "delay"
               /\ session'[w].account = session[w].account /\ session'[w].owned = session[w].owned
    PROVE  UntilFault'
<1> SUFFICES Owning' /\ \A a \in Accounts : OncePlaced(a)' /\ Rested(a)'
  BY DEF UntilFault
<1>1. Owning'
  BY DEF Owning, UntilFault
<1>2. ASSUME NEW a \in Accounts PROVE OncePlaced(a)' /\ Rested(a)'
  <2>1. OncePlaced(a) /\ Rested(a)
    BY DEF UntilFault
  <2>2. \A v \in Workers :
           Has(v, a)' => Has(v, a) /\ (IF session'[v].pc = "delay"
                                       THEN session[v].pc = "delay" /\ session'[v] = session[v]
                                       ELSE session[v].pc # "delay")
    BY DEF Has
  <2> QED
    BY <2>1, <2>2 DEF OncePlaced, Rested
<1> QED
  BY <1>1, <1>2

\* A worker moves the session of one account at a time.
LEMMA MovesOne ==
    ASSUME LocalInv, UntilFault, faults = 0, NEW w \in Workers, NEW b \in Accounts,
           UNCHANGED <<clients, adding, faults>>,
           \A a \in Accounts : a # b => /\ queue'[a] = queue[a] /\ delayed'[a] = delayed[a]
                                        /\ cool'[a] = cool[a],
           \A v \in Workers : v # w => session'[v] = session[v],
           session'[w].account = b \/ session'[w].pc \notin Having,
           session'[w].pc \in Having => session'[w].owned,
           session'[w].pc # "stuck",
           OncePlaced(b)', Rested(b)'
    PROVE  UntilFault'
<1> SUFFICES Owning' /\ \A a \in Accounts : OncePlaced(a)' /\ Rested(a)'
  BY DEF UntilFault
<1>1. Owning'
  BY DEF Owning, UntilFault
<1>2. ASSUME NEW a \in Accounts, a # b PROVE OncePlaced(a)' /\ Rested(a)'
  BY <1>2, OtherPlaces DEF UntilFault
<1> QED
  BY <1>1, <1>2

\* What a worker has is nowhere else.
LEMMA HadAlone ==
    ASSUME LocalInv, UntilFault, faults = 0, NEW w \in Workers, session[w].pc \in Having
    PROVE  LET b == session[w].account IN
           /\ b \in Accounts /\ b \in clients \ adding /\ session[w].owned
           /\ queue[b] = 0 /\ \A d \in Delays : delayed[b][d] = 0
           /\ \A v \in Workers : Has(v, b) => v = w
           /\ IF session[w].pc = "delay" THEN cool[b] <= session[w].wait ELSE cool[b] = 0
<1>1. session[w].account \in clients /\ session[w].account \in Accounts
  BY DEF LocalInv, Local, TypeOK, Having
<1> QED
  BY <1>1 DEF UntilFault, OncePlaced, Rested, Owning, Has

\* The message of a session that ends goes back to the queue.
LEMMA PutBack ==
    ASSUME LocalInv, UntilFault, faults = 0,
           NEW w \in Workers, session[w].pc \in Having \ {"delay"},
           NEW b, b = session[w].account, Put(b), UNCHANGED <<clients, adding, delayed, cool, faults>>,
           \A v \in Workers : v # w => session'[v] = session[v],
           session'[w].pc \notin Having \cup {"stuck"}
    PROVE  UntilFault'
<1>0. b \in Accounts /\ queue \in [Accounts -> Nat]
  BY DEF LocalInv, Local, TypeOK, Having
<1>1. OncePlaced(b)' /\ Rested(b)'
  <2>1. /\ b \in clients \ adding /\ queue[b] = 0 /\ \A d \in Delays : delayed[b][d] = 0
        /\ \A v \in Workers : Has(v, b) => v = w
        /\ cool[b] = 0
    BY HadAlone
  <2>2. queue'[b] = 1
    BY <1>0, <2>1 DEF Put
  <2>3. \A v \in Workers : ~Has(v, b)'
    BY <2>1 DEF Has
  <2> QED
    BY <2>1, <2>2, <2>3 DEF OncePlaced, Rested
<1>2. \A a \in Accounts : a # b => queue'[a] = queue[a]
  BY <1>0 DEF Put
<1> QED
  BY <1>0, <1>1, <1>2, MovesOne

\* The steps of get_client.
LEMMA WorkerPlaces ==
    ASSUME LocalInv, UntilFault, faults = 0, NEW w \in Workers, GetClient(w), faults' = faults
    PROVE  UntilFault'
<1>0. session \in [Workers -> Session] /\ session[w] \in Session /\ TypeOK
      /\ faults \in Nat /\ NoSession.pc = "out"
  BY NothingTyped, WaitsAssumption DEF LocalInv, TypeOK
<1>1. CASE Start(w) \/ Timeout(w) \/ Look(w) \/ Ack(w) \/ Remove(w) \/ Ban(w)
  <2>1. UNCHANGED <<clients, adding, queue, delayed, cool, faults>>
    BY <1>1 DEF Start, Timeout, Look, Ack, Acked, Remove, Ban, table, rest
  <2>2. /\ \A v \in Workers : v # w => session'[v] = session[v]
        /\ session'[w].pc # "stuck"
        /\ session'[w].pc \in Having =>
               /\ session[w].pc \in Having \ {"delay"} /\ session'[w].pc # "delay"
               /\ session'[w].account = session[w].account /\ session'[w].owned = session[w].owned
    BY <1>0, <1>1, GoTyped, LeaveTyped DEF Start, Timeout, Look, Ack, Remove, Ban, Having
  <2> QED
    BY <2>1, <2>2, KeepsPlaces
<1>2. CASE Receive(w)
  <2>1. PICK b \in Accounts :
             /\ queue[b] > 0
             /\ queue' = [queue EXCEPT ![b] = @ - 1]
             /\ session' = [session EXCEPT ![w] =
                              [NoSession EXCEPT !.pc = "received", !.account = b, !.owned = TRUE]]
    BY <1>2 DEF Receive
  <2>2. session'[w].pc = "received" /\ session'[w].account = b /\ session'[w].owned = TRUE
        /\ \A v \in Workers : v # w => session'[v] = session[v]
    BY <1>0, <2>1, NothingTyped DEF Session
  <2>3. UNCHANGED <<clients, adding, delayed, cool, faults>>
    BY <1>2 DEF Receive, table, rest
  <2>4. queue'[b] = queue[b] - 1 /\ \A a \in Accounts : a # b => queue'[a] = queue[a]
    BY <1>0, <2>1 DEF TypeOK
  <2>5. OncePlaced(b)' /\ Rested(b)'
    <3>1. OncePlaced(b) /\ Rested(b) /\ queue[b] \in Nat
      BY <1>0 DEF UntilFault, TypeOK
    <3>2. queue[b] = 1 /\ \A v \in Workers : ~Has(v, b)
      BY <2>1, <3>1 DEF OncePlaced
    <3>3. queue'[b] = 0 /\ \A v \in Workers : Has(v, b)' => v = w
      BY <2>2, <2>4, <3>2 DEF Has
    <3>4. b \in clients \ adding /\ cool[b] = 0 /\ \A d \in Delays : delayed[b][d] = 0
      BY <3>1, <3>2 DEF OncePlaced, Rested
    <3> QED
      BY <2>2, <2>3, <3>3, <3>4 DEF OncePlaced, Rested, Has
  <2> QED
    BY <2>2, <2>3, <2>4, <2>5, MovesOne
<1>3. CASE EndUse(w)
  <2>1. CASE (Go(w, "publish") \/ Go(w, "remove")) /\ UNCHANGED rest
    <3>1. UNCHANGED <<clients, adding, queue, delayed, cool, faults>> /\ session[w].pc = "using"
      BY <1>3, <2>1 DEF EndUse, table, rest
    <3> QED
      BY <1>0, <2>1, <3>1, GoTyped, KeepsPlaces DEF Having
  <2>2. ASSUME NEW n \in 1 .. MaxWait,
               session' = [session EXCEPT ![w].pc = "delay", ![w].wait = n],
               cool' = [cool EXCEPT ![session[w].account] = n], UNCHANGED delayed
        PROVE  UntilFault'
    <3>z. PICK b : b = session[w].account
      OBVIOUS
    <3>0. session[w].pc = "using" /\ UNCHANGED <<clients, adding, queue, delayed, faults>>
      BY <1>3, <2>2 DEF EndUse, table
    <3>1. b \in Accounts
      BY <1>0, <3>z, <3>0 DEF LocalInv, Local, TypeOK
    <3>2. /\ session'[w].pc = "delay" /\ session'[w].wait = n /\ session'[w].account = b
          /\ session'[w].owned = session[w].owned
          /\ \A v \in Workers : v # w => session'[v] = session[v]
      BY <1>0, <2>2, <3>z DEF Session
    <3>3. cool'[b] = n /\ \A a \in Accounts : a # b => cool'[a] = cool[a]
      BY <1>0, <2>2, <3>z, <3>1 DEF TypeOK
    <3>4. /\ b \in clients \ adding /\ session[w].owned
          /\ queue[b] = 0 /\ \A d \in Delays : delayed[b][d] = 0
          /\ \A v \in Workers : Has(v, b) => v = w
      BY <3>z, <3>0, HadAlone DEF Having
    <3>5. \A v \in Workers : Has(v, b)' => v = w
      BY <3>2, <3>4 DEF Has
    <3>6. OncePlaced(b)' /\ Rested(b)'
      BY <3>0, <3>2, <3>3, <3>4, <3>5 DEF OncePlaced, Rested
    <3> QED
      BY <3>0, <3>1, <3>2, <3>3, <3>4, <3>6, MovesOne
  <2> QED
    BY <1>3, <2>1, <2>2 DEF EndUse
<1>4. CASE UseFails(w)
  <2>1. session[w].pc \in {"received", "using"} /\ Leave(w)
        /\ UNCHANGED <<clients, adding, delayed, cool, faults>>
    BY <1>4 DEF UseFails, table, rest
  <2>2. Put(session[w].account)
    BY <1>4, <2>1, HadAlone DEF UseFails, Reject, Having
  <2> QED
    BY <1>0, <2>1, <2>2, LeaveTyped, PutBack DEF Having
<1>5. CASE Publish(w)
  BY <1>0, <1>5, GoTyped, PutBack DEF Publish, Having, table, rest
<1>6. CASE PublishDelayed(w)
  <2>z. PICK b : b = session[w].account
    OBVIOUS
  <2>1. /\ session[w].pc = "delay" /\ PutDelayed(w) /\ Go(w, "ack")
        /\ UNCHANGED <<clients, adding, queue, cool, faults>>
    BY <1>6 DEF PublishDelayed, table
  <2>2. /\ b \in Accounts /\ b \in clients \ adding
        /\ queue[b] = 0 /\ \A d \in Delays : delayed[b][d] = 0
        /\ \A v \in Workers : Has(v, b) => v = w
        /\ cool[b] <= session[w].wait /\ cool[b] \in Nat
    BY <1>0, <2>z, <2>1, HadAlone DEF Having, TypeOK
  <2>3. session[w].wait \in 1 .. MaxWait /\ Delay(session[w].wait) \in Delays
    BY <2>1, DelayTyped DEF LocalInv, Local
  <2>4. PICK n \in Delays : n = Delay(session[w].wait)
    BY <2>3
  <2>5. delayed' = [delayed EXCEPT ![b][n] = @ + 1]
    BY <2>z, <2>1, <2>4 DEF PutDelayed
  <2>6. /\ \A a \in Accounts : a # b => delayed'[a] = delayed[a]
        /\ delayed'[b][n] = 1 /\ \A d \in Delays : d # n => delayed'[b][d] = 0
    BY <1>0, <2>2, <2>5 DEF TypeOK
  <2>7. cool[b] <= n
    BY <2>2, <2>3, <2>4, WaitsAssumption DEF Delay
  <2>8. /\ session'[w].pc = "ack" /\ \A v \in Workers : v # w => session'[v] = session[v]
    BY <1>0, <2>1, GoTyped
  <2>9. \A v \in Workers : ~Has(v, b)'
    BY <2>2, <2>8 DEF Has, Having
  <2>10. OncePlaced(b)' /\ Rested(b)'
    BY <2>1, <2>2, <2>6, <2>7, <2>9 DEF OncePlaced, Rested
  <2> QED
    BY <2>1, <2>2, <2>6, <2>8, <2>10, MovesOne DEF Having
<1>7. CASE PublishFails(w) \/ DelayFails(w)
  BY <1>0, <1>7 DEF PublishFails, DelayFails, Fault
<1> QED
  BY <1>1, <1>2, <1>3, <1>4, <1>5, <1>6, <1>7 DEF GetClient

\* A new client has no session anywhere until its own is published.
LEMMA AddPlaces ==
    ASSUME LocalInv, UntilFault, faults = 0, faults' = faults, NEW b \in Accounts, Add(b)
    PROVE  UntilFault'
<1>0. TypeOK /\ faults \in Nat /\ OncePlaced(b) /\ Rested(b)
  BY WaitsAssumption DEF LocalInv, TypeOK, UntilFault
<1>1. CASE AddCommit(b)
  <2>1. \A a \in Accounts : a \in clients' \ adding' <=> a \in clients \ adding
    BY <1>0, <1>1 DEF AddCommit, Created, TypeOK
  <2>2. UNCHANGED <<queue, delayed, cool, session>>
    BY <1>1 DEF AddCommit, rest
  <2> QED
    BY <2>1, <2>2 DEF UntilFault, Owning, OncePlaced, Rested, Has
<1>2. CASE AddSession(b)
  <2>1. /\ b \in adding /\ adding' = adding \ {b} /\ Put(b)
        /\ UNCHANGED <<clients, delayed, cool, session>>
    BY <1>2 DEF AddSession, rest
  <2>2. queue'[b] = queue[b] + 1 /\ \A a \in Accounts : a # b => queue'[a] = queue[a]
    BY <1>0, <2>1 DEF Put, TypeOK
  <2>3. /\ queue[b] = 0 /\ cool[b] = 0 /\ \A d \in Delays : delayed[b][d] = 0
        /\ \A w \in Workers : ~Has(w, b)
    BY <1>0, <2>1 DEF OncePlaced, Rested
  <2>4. OncePlaced(b)' /\ Rested(b)'
    <3>1. b \in clients' \ adding' /\ queue'[b] = 1 /\ UNCHANGED <<delayed, cool, session>>
      BY <1>0, <2>1, <2>2, <2>3 DEF TypeOK
    <3>2. \A w \in Workers : ~Has(w, b)'
      BY <2>3, <3>1 DEF Has
    <3> QED
      BY <2>3, <3>1, <3>2 DEF OncePlaced, Rested
  <2>5. \A a \in Accounts : a # b => (a \in clients' \ adding' <=> a \in clients \ adding)
    BY <2>1
  <2>6. ASSUME NEW a \in Accounts, a # b PROVE OncePlaced(a)' /\ Rested(a)'
    BY <2>1, <2>2, <2>5, <2>6 DEF UntilFault, OncePlaced, Rested, Has
  <2> QED
    BY <2>1, <2>4, <2>6 DEF UntilFault, Owning
<1>3. CASE AddFails(b)
  BY <1>0, <1>3 DEF AddFails, Fault
<1> QED
  BY <1>1, <1>2, <1>3 DEF Add

\* A step is a fault or counts none.
LEMMA FaultOrNot ==
    ASSUME LocalInv, [Next]_vars
    PROVE  faults \in Nat /\ (faults' = faults \/ Fault)
<1>1. CASE UNCHANGED vars \/ Tick
  BY <1>1, WaitsAssumption DEF vars, Tick, LocalInv, TypeOK
<1>2. ASSUME NEW a \in Accounts, Add(a) PROVE faults' = faults \/ Fault
  BY <1>2, Zenon DEF Add, AddCommit, AddSession, AddFails
<1>3. ASSUME NEW w \in Workers, GetClient(w) PROVE faults' = faults \/ Fault
  BY <1>3, Zenon DEF GetClient, Start, Timeout, Receive, Look, EndUse, UseFails, Publish,
     PublishFails, PublishDelayed, DelayFails, Ack, Remove, Ban
<1>4. ASSUME NEW w \in Workers, Disconnect(w) \/ Crash(w) \/ ConsumerTimeout(w)
      PROVE  faults' = faults \/ Fault
  BY <1>4, Zenon DEF Disconnect, Crash, ConsumerTimeout
<1>5. faults \in Nat
  BY WaitsAssumption DEF LocalInv, TypeOK
<1> QED
  BY <1>1, <1>2, <1>3, <1>4, <1>5 DEF Next

\* The steps before the first fault: the clock, add_client and get_client.
LEMMA FaultlessStep ==
    ASSUME LocalInv, UntilFault, [Next]_vars, faults' = 0
    PROVE  /\ faults = 0 /\ faults' = faults
           /\ \/ UNCHANGED vars \/ Tick
              \/ \E a \in Accounts : Add(a)
              \/ \E w \in Workers : GetClient(w)
<1>1. faults \in Nat /\ (faults' = faults \/ Fault)
  BY FaultOrNot
<1>2. faults = 0 /\ faults' = faults
  BY <1>1 DEF Fault
<1>3. ASSUME NEW w \in Workers, Disconnect(w) \/ Crash(w) \/ ConsumerTimeout(w) PROVE FALSE
  <2>1. session[w].pc # "stuck"
    BY <1>2 DEF UntilFault, Owning
  <2>2. ~Fault
    BY <1>1, <1>2 DEF Fault
  <2> QED
    BY <1>3, <2>1, <2>2, Zenon DEF Disconnect, Crash, ConsumerTimeout
<1> QED
  BY <1>2, <1>3 DEF Next

\* Until something fails every session is in its one place, and rests there.
LEMMA UntilFaultInvariant == Spec => [](LocalInv /\ UntilFault)
<1>1. Init => UntilFault
  BY NothingTyped DEF Init, UntilFault, Owning, OncePlaced, Rested, Has, Having
<1>2. LocalInv /\ UntilFault /\ [Next]_vars => UntilFault'
  <2> SUFFICES ASSUME LocalInv, UntilFault, [Next]_vars, faults' = 0 PROVE UntilFault'
    BY DEF UntilFault
  <2>1. CASE UNCHANGED vars
    BY <2>1 DEF vars, UntilFault, Owning, OncePlaced, Rested, Has
  <2> QED
    BY <2>1, FaultlessStep, TickPlaces, AddPlaces, WorkerPlaces
<1> QED
  BY <1>1, <1>2, QueueTypeCorrect, PTL DEF Spec

-----------------------------------------------------------------------------
(* Until the first fault the queue implements AccountLeases                *)

\* What a step of get_client means for the account of its worker: it takes
\* it, returns it, is about to ban it, bans it, or does none of these.
Quiet(w) == /\ session[w].pc # "using" /\ session'[w].pc \notin {"using", "ban"}
            /\ UNCHANGED <<banned, cool>>
Takes(w) == /\ session[w].pc = "received" /\ session'[w].pc = "using"
            /\ session'[w].account = session[w].account /\ session[w].account \notin banned
            /\ UNCHANGED <<banned, cool>>
Returns(w) == /\ session[w].pc = "using" /\ session'[w].pc \notin {"using", "ban"}
              /\ UNCHANGED banned
              /\ cool' = [cool EXCEPT ![session[w].account] = cool'[session[w].account]]
WillBan(w) == /\ session[w].pc = "remove" /\ session'[w].pc = "ban"
              /\ session'[w].account = session[w].account
              /\ UNCHANGED <<banned, cool>>
Bans(w) == /\ session[w].pc = "ban" /\ session'[w].pc = "out"
           /\ banned' = banned \cup {session[w].account} /\ UNCHANGED cool

LEMMA GetClientMoves ==
    ASSUME LocalInv, faults = 0, faults' = faults, NEW w \in Workers, GetClient(w)
    PROVE  /\ UNCHANGED <<clients, adding>>
           /\ \A v \in Workers : v # w => session'[v] = session[v]
           /\ Quiet(w) \/ Takes(w) \/ Returns(w) \/ WillBan(w) \/ Bans(w)
<1>0. /\ session \in [Workers -> Session] /\ session[w] \in Session /\ NoSession.pc = "out"
      /\ cool \in [Accounts -> 0 .. MaxWait]
  BY NothingTyped DEF LocalInv, TypeOK
<1>1. UNCHANGED <<clients, adding>>
  BY Zenon DEF GetClient, Start, Timeout, Receive, Look, EndUse, UseFails, Publish,
     PublishFails, PublishDelayed, DelayFails, Ack, Remove, Ban, table
<1>2. CASE Start(w) \/ Timeout(w)
  BY <1>0, <1>1, <1>2, GoTyped, LeaveTyped DEF Start, Timeout, table, rest, Quiet
<1>3. CASE Receive(w)
  <2>1. PICK b \in Accounts : session' = [session EXCEPT ![w] =
            [NoSession EXCEPT !.pc = "received", !.account = b, !.owned = TRUE]]
    BY <1>3 DEF Receive
  <2>2. session'[w].pc = "received" /\ \A v \in Workers : v # w => session'[v] = session[v]
    BY <1>0, <2>1, NothingTyped DEF Session
  <2> QED
    BY <1>1, <1>3, <2>2 DEF Receive, table, rest, Quiet
<1>4. CASE Look(w)
  BY <1>0, <1>1, <1>4, GoTyped DEF Look, table, rest, Quiet, Takes
<1>5. CASE EndUse(w)
  <2>1. CASE (Go(w, "publish") \/ Go(w, "remove")) /\ UNCHANGED rest
    <3>1. session[w].pc = "using" /\ UNCHANGED <<banned, cool>>
      BY <1>5, <2>1 DEF EndUse, table, rest
    <3> QED
      BY <1>0, <1>1, <2>1, <3>1, GoTyped DEF Returns
  <2>2. ASSUME NEW n \in 1 .. MaxWait,
               session' = [session EXCEPT ![w].pc = "delay", ![w].wait = n],
               cool' = [cool EXCEPT ![session[w].account] = n]
        PROVE  Returns(w) /\ \A v \in Workers : v # w => session'[v] = session[v]
    <3>1. session[w].pc = "using" /\ UNCHANGED banned /\ session[w].account \in Accounts
      BY <1>5 DEF EndUse, table, LocalInv, Local, TypeOK
    <3>2. /\ session'[w].pc = "delay" /\ \A v \in Workers : v # w => session'[v] = session[v]
      BY <1>0, <2>2 DEF Session
    <3>3. cool'[session[w].account] = n
      BY <1>0, <2>2, <3>1
    <3> QED
      BY <2>2, <3>1, <3>2, <3>3 DEF Returns
  <2> QED
    BY <1>1, <1>5, <2>1, <2>2 DEF EndUse
<1>6. CASE UseFails(w)
  BY <1>0, <1>1, <1>6, LeaveTyped DEF UseFails, table, rest, Quiet, Returns
<1>7. CASE Publish(w) \/ PublishDelayed(w)
  BY <1>0, <1>1, <1>7, GoTyped DEF Publish, PublishDelayed, table, rest, Quiet
<1>8. CASE PublishFails(w) \/ DelayFails(w)
  BY <1>8 DEF PublishFails, DelayFails, Fault
<1>9. CASE Ack(w)
  BY <1>0, <1>1, <1>9, LeaveTyped DEF Ack, table, rest, Quiet
<1>10. CASE Remove(w)
  BY <1>0, <1>1, <1>10, GoTyped, LeaveTyped DEF Remove, table, rest, Quiet, WillBan
<1>11. CASE Ban(w)
  BY <1>0, <1>1, <1>11, LeaveTyped DEF Ban, rest, Bans
<1> QED
  BY <1>2, <1>3, <1>4, <1>5, <1>6, <1>7, <1>8, <1>9, <1>10, <1>11 DEF GetClient

\* A worker that is about to ban a client had its published session.
BanKnown ==
    faults = 0 => \A w \in Workers :
        session[w].pc = "ban" => session[w].account \in clients \ adding

\* The account a worker is about to ban stays published.
LEMMA BanKnownStep == LocalInv /\ UntilFault /\ BanKnown /\ [Next]_vars => BanKnown'
<1> SUFFICES ASSUME LocalInv, UntilFault, BanKnown, [Next]_vars, faults' = 0,
                    NEW v \in Workers, session'[v].pc = "ban"
             PROVE  session'[v].account \in clients' \ adding'
  BY DEF BanKnown
<1>0. faults = 0 /\ faults' = faults
  BY FaultlessStep
<1>1. CASE UNCHANGED vars \/ Tick
  BY <1>0, <1>1 DEF BanKnown, vars, Tick, table
<1>2. ASSUME NEW a \in Accounts, Add(a) PROVE session'[v].account \in clients' \ adding'
  <2>1. \A b \in clients \ adding : b \in clients' \ adding'
    BY <1>2 DEF Add, AddCommit, AddSession, AddFails, Created
  <2>2. session' = session
    BY <1>2 DEF Add, AddCommit, AddSession, AddFails
  <2> QED
    BY <1>0, <2>1, <2>2 DEF BanKnown
<1>3. ASSUME NEW w \in Workers, GetClient(w) PROVE session'[v].account \in clients' \ adding'
  <2>1. /\ UNCHANGED <<clients, adding>>
        /\ \A u \in Workers : u # w => session'[u] = session[u]
        /\ Quiet(w) \/ Takes(w) \/ Returns(w) \/ WillBan(w) \/ Bans(w)
    BY <1>0, <1>3, GetClientMoves
  <2>2. CASE v # w
    BY <1>0, <2>1, <2>2 DEF BanKnown
  <2>3. CASE v = w
    <3>1. session[w].pc = "remove" /\ session'[w].account = session[w].account
      BY <2>1, <2>3 DEF Quiet, Takes, Returns, WillBan, Bans
    <3>2. session[w].account \in clients \ adding
      BY <1>0, <3>1, HadAlone DEF Having
    <3> QED
      BY <2>1, <2>3, <3>1, <3>2
  <2> QED
    BY <2>2, <2>3
<1> QED
  BY <1>1, <1>2, <1>3, FaultlessStep

\* The steps of get_client, on the leases.
LEMMA GetClientLeases ==
    ASSUME LocalInv, LocalInv', UntilFault, BanKnown, faults = 0, faults' = faults,
           NEW w \in Workers, GetClient(w)
    PROVE  Leases!Next \/ UNCHANGED Leases!vars
<1> DEFINE holding == [v \in Workers |-> Held(v)]
<1>1. /\ UNCHANGED <<clients, adding>>
      /\ \A v \in Workers : v # w => session'[v] = session[v]
      /\ Quiet(w) \/ Takes(w) \/ Returns(w) \/ WillBan(w) \/ Bans(w)
  BY GetClientMoves
<1>2. holding' = [holding EXCEPT ![w] = Held(w)']
  BY <1>1 DEF Held
<1>3. ASSUME Held(w)' = Held(w) PROVE holding' = holding
  BY <1>2, <1>3
<1>4. CASE Quiet(w) \/ WillBan(w)
  <2>1. Held(w)' = Held(w) /\ UNCHANGED <<banned, cool>>
    BY <1>4 DEF Quiet, WillBan, Held
  <2> QED
    BY <1>1, <1>3, <2>1 DEF Leases!vars
<1>5. CASE Takes(w)
  <2>1. PICK a \in Accounts : a = session[w].account
    BY <1>5 DEF Takes, LocalInv, Local, TypeOK
  <2>2. /\ a \in clients \ adding /\ cool[a] = 0
        /\ \A v \in Workers : Has(v, a) => v = w
    BY <1>5, <2>1, HadAlone DEF Takes, Having
  <2>3. Held(w) = NoAccount /\ Held(w)' = a
    BY <1>5, <2>1 DEF Takes, Held
  <2>4. \A v \in Workers : Held(v) # a
    BY <2>2, <2>3, NoAccountAssumption DEF Held, Has, Having
  <2>5. Leases!Take(w, a)
    BY <1>1, <1>2, <1>5, <2>1, <2>2, <2>3, <2>4 DEF Leases!Take, Takes
  <2> QED
    BY <2>5 DEF Leases!Next
<1>6. CASE Returns(w)
  <2>1. session[w].account \in Accounts
    BY <1>6 DEF Returns, LocalInv, Local, TypeOK
  <2>2. Held(w) = session[w].account /\ Held(w)' = NoAccount /\ Held(w) # NoAccount
    BY <1>6, <2>1, NoAccountAssumption DEF Returns, Held
  <2>3. cool'[session[w].account] \in Nat
    BY <2>1, WaitsAssumption DEF LocalInv, TypeOK
  <2>4. Leases!Return(w)
    BY <1>1, <1>2, <1>6, <2>2, <2>3 DEF Leases!Return, Returns
  <2> QED
    BY <2>4 DEF Leases!Next
<1>7. CASE Bans(w)
  <2>1. PICK a \in Accounts : a = session[w].account /\ a \in clients \ adding
    BY <1>7 DEF Bans, BanKnown, LocalInv, TypeOK
  <2>2. Held(w)' = Held(w)
    BY <1>7 DEF Bans, Held
  <2>3. Leases!Ban(a)
    BY <1>1, <1>3, <1>7, <2>1, <2>2 DEF Leases!Ban, Bans
  <2> QED
    BY <2>3 DEF Leases!Next
<1> QED
  BY <1>1, <1>4, <1>5, <1>6, <1>7

\* Every step is one of the leases, leaves them alone, or is or follows a fault.
LEMMA LeasesStep ==
    LocalInv /\ LocalInv' /\ UntilFault /\ BanKnown /\ [Next]_vars => [Leases!Step]_Leases!vars
<1> SUFFICES ASSUME LocalInv, LocalInv', UntilFault, BanKnown, [Next]_vars, ~(faults > 0)'
             PROVE  (Leases!Next /\ (faults > 0)' = (faults > 0)) \/ UNCHANGED Leases!vars
  BY DEF Leases!Step
<1>0. faults' = 0
  BY WaitsAssumption DEF LocalInv, TypeOK
<1>1. /\ faults = 0 /\ faults' = faults
      /\ \/ UNCHANGED vars \/ Tick
         \/ \E a \in Accounts : Add(a)
         \/ \E w \in Workers : GetClient(w)
  BY <1>0, FaultlessStep
<1>2. CASE Tick
  <2>1. cool' = [a \in Accounts |-> IF cool[a] = 0 THEN 0 ELSE cool[a] - 1]
    BY <1>2, WaitsAssumption DEF Tick, LocalInv, TypeOK
  <2>2. UNCHANGED <<clients, adding, banned, session>>
    BY <1>2 DEF Tick, table
  <2>3. Leases!Pass
    BY <2>1, <2>2 DEF Leases!Pass, Held
  <2> QED
    BY <1>1, <2>3 DEF Leases!Next
<1>3. CASE UNCHANGED vars
  BY <1>3 DEF vars, Leases!vars, Held
<1>4. ASSUME NEW a \in Accounts, Add(a) PROVE Leases!Next \/ UNCHANGED Leases!vars
  <2>1. UNCHANGED <<banned, cool, session>>
    BY <1>4 DEF Add, AddCommit, AddSession, AddFails, rest
  <2>2. UNCHANGED [w \in Workers |-> Held(w)]
    BY <2>1 DEF Held
  <2>3. CASE AddSession(a)
    <3>1. a \in adding /\ a \in clients /\ clients' = clients /\ adding' = adding \ {a}
      BY <2>3 DEF AddSession, LocalInv, TypeOK
    <3>2. Leases!Enrol(a)
      BY <2>1, <2>2, <3>1 DEF Leases!Enrol
    <3> QED
      BY <3>2 DEF Leases!Next
  <2>4. CASE AddCommit(a)
    <3>1. (clients \ adding)' = clients \ adding
      BY <2>4 DEF AddCommit, Created, LocalInv, TypeOK
    <3> QED
      BY <1>1, <2>1, <2>2, <3>1 DEF Leases!vars
  <2>5. ~AddFails(a)
    BY <1>1 DEF AddFails, Fault
  <2> QED
    BY <1>4, <2>3, <2>4, <2>5 DEF Add
<1> QED
  BY <1>1, <1>2, <1>3, <1>4, GetClientLeases

\* LeasesUntilFault: until the first lost connection, failed publish or killed
\* worker the messages, their delays and their acknowledgements implement
\* AccountLeases, as the rows and locks of the account pool do.
THEOREM QueueImplementsLeases == Spec => LeasesUntilFault
<1>1. Init => Leases!Init
  BY NothingTyped DEF Init, Leases!Init, Held
<1>2. Init => BanKnown
  BY NothingTyped DEF Init, BanKnown
<1> QED
  BY <1>1, <1>2, UntilFaultInvariant, BanKnownStep, LeasesStep, PTL
  DEF Spec, LeasesUntilFault, Leases!Spec

-----------------------------------------------------------------------------
(* How many copies of a session there are. A worker that has the session   *)
(* bears one until it has published the next or let go of it for good,     *)
(* although the broker may have given its message to another.              *)

Bears(w, a) == session[w].account = a /\ session[w].pc \in Having \cup {"stuck"}
Bearers(a) == {w \in Workers : Bears(w, a)}
Tokens(a) == queue[a] + Sum(delayed[a]) + Cardinality(Bearers(a))

\* Only a fault makes another copy, and there is none before the first
\* message of an account is published.
TokenInv ==
    /\ \A a \in Accounts : IsFiniteSet(Bearers(a)) /\ Tokens(a) <= 1 + faults
    /\ \A a \in Accounts : a \notin clients \ adding => Tokens(a) = 0
    /\ \A w \in Workers :
          session[w].pc \notin {"out", "waiting"} => session[w].account \in clients \ adding

\* The delays are finitely many.
LEMMA DelaysFinite == IsFiniteSet(Delays)
<1>1. 1 \in Int /\ MaxWait + Margin \in Int
  BY WaitsAssumption
<1> QED
  BY <1>1, FS_Interval DEF Delays

\* What the copies are counted with.
LEMMA TokenTypes ==
    ASSUME TypeOK, NEW a \in Accounts, IsFiniteSet(Bearers(a))
    PROVE  /\ queue[a] \in Nat /\ delayed[a] \in [Delays -> Nat] /\ Sum(delayed[a]) \in Nat
           /\ Cardinality(Bearers(a)) \in Nat /\ Tokens(a) \in Nat /\ faults \in Nat
<1>1. queue[a] \in Nat /\ delayed[a] \in [Delays -> Nat] /\ faults \in Nat
  BY WaitsAssumption DEF TypeOK
<1>2. Sum(delayed[a]) \in Nat
  BY <1>1, DelaysFinite, SumTyped
<1>3. Cardinality(Bearers(a)) \in Nat
  BY FS_CardinalityType
<1> QED
  BY <1>1, <1>2, <1>3 DEF Tokens

\* There is no session at the start.
LEMMA TokenInit == Init => TokenInv
<1> SUFFICES ASSUME Init PROVE TokenInv
  OBVIOUS
<1>1. ASSUME NEW a \in Accounts PROVE IsFiniteSet(Bearers(a)) /\ Tokens(a) = 0
  <2>1. Bearers(a) = {}
    BY NothingTyped DEF Init, Bearers, Bears, Having
  <2>2. IsFiniteSet(Bearers(a)) /\ Cardinality(Bearers(a)) = 0
    BY <2>1, FS_EmptySet
  <2>3. delayed[a] \in [Delays -> Nat] /\ (\A d \in Delays : delayed[a][d] = 0) /\ queue[a] = 0
    BY DEF Init
  <2>4. Sum(delayed[a]) = 0
    BY <2>3, DelaysFinite, SumTyped
  <2> QED
    BY <2>2, <2>3, <2>4 DEF Tokens
<1>2. \A w \in Workers : session[w].pc = "out"
  BY NothingTyped DEF Init
<1>3. faults = 0
  BY DEF Init
<1> QED
  BY <1>1, <1>2, <1>3 DEF TokenInv

\* How the number of bearers of a session changes with one worker.
LEMMA BearersChange ==
    ASSUME NEW a \in Accounts, IsFiniteSet(Bearers(a)), NEW w \in Workers,
           \A v \in Workers : v # w => session'[v] = session[v]
    PROVE  /\ IsFiniteSet(Bearers(a)')
           /\ (Bears(w, a) <=> Bears(w, a)') => Bearers(a)' = Bearers(a)
           /\ Bears(w, a) /\ ~Bears(w, a)'
              => Cardinality(Bearers(a)') = Cardinality(Bearers(a)) - 1
           /\ ~Bears(w, a) /\ Bears(w, a)'
              => Cardinality(Bearers(a)') = Cardinality(Bearers(a)) + 1
<1>1. \A v \in Workers : v # w => (Bears(v, a)' <=> Bears(v, a))
  BY DEF Bears
<1>2. CASE Bears(w, a) <=> Bears(w, a)'
  BY <1>1, <1>2 DEF Bearers
<1>3. CASE Bears(w, a) /\ ~Bears(w, a)'
  <2>1. Bearers(a)' = Bearers(a) \ {w} /\ w \in Bearers(a)
    BY <1>1, <1>3 DEF Bearers
  <2> QED
    BY <1>3, <2>1, FS_RemoveElement
<1>4. CASE ~Bears(w, a) /\ Bears(w, a)'
  <2>1. Bearers(a)' = Bearers(a) \cup {w} /\ w \notin Bearers(a)
    BY <1>1, <1>4 DEF Bearers
  <2> QED
    BY <1>4, <2>1, FS_AddElement
<1> QED
  BY <1>2, <1>3, <1>4

\* What a step of a worker must do to the copies of the one session it moves.
LEMMA TokenStep ==
    ASSUME LocalInv, TokenInv, NEW w \in Workers, NEW b \in clients \ adding, b \in Accounts,
           UNCHANGED <<clients, adding>>, faults' \in Nat, faults' >= faults,
           \A a \in Accounts : a # b => queue'[a] = queue[a] /\ delayed'[a] = delayed[a],
           \A v \in Workers : v # w => session'[v] = session[v],
           session[w].account # b => session[w].pc \in {"out", "waiting"},
           session'[w].account # b => session'[w].pc \in {"out", "waiting"},
           queue'[b] \in Nat, Sum(delayed'[b]) \in Nat,
           queue'[b] + Sum(delayed'[b]) + (IF Bears(w, b)' THEN 1 ELSE 0) + faults
             <= queue[b] + Sum(delayed[b]) + (IF Bears(w, b) THEN 1 ELSE 0) + faults'
    PROVE  TokenInv'
<1>0. \A a \in Accounts : IsFiniteSet(Bearers(a)) /\ Tokens(a) <= 1 + faults
  BY DEF TokenInv
<1>1. ASSUME NEW a \in Accounts, a # b
      PROVE  Bearers(a)' = Bearers(a) /\ Tokens(a)' = Tokens(a) /\ Tokens(a) \in Nat /\ faults \in Nat
  <2>1. ~Bears(w, a) /\ ~Bears(w, a)'
    BY <1>1 DEF Bears, Having
  <2>2. Bearers(a)' = Bearers(a)
    BY <1>0, <2>1, BearersChange
  <2>3. Tokens(a)' = Tokens(a)
    BY <1>1, <2>2 DEF Tokens
  <2> QED
    BY <1>0, <2>2, <2>3, TokenTypes DEF LocalInv
<1>2. IsFiniteSet(Bearers(b)') /\ Tokens(b)' <= 1 + faults'
  <2>1. /\ IsFiniteSet(Bearers(b)') /\ faults \in Nat
        /\ queue[b] + Sum(delayed[b]) \in Nat /\ queue'[b] + Sum(delayed'[b]) \in Nat
    BY <1>0, BearersChange, TokenTypes DEF LocalInv
  <2>2. PICK n \in Nat : n = Cardinality(Bearers(b))
    BY <1>0, FS_CardinalityType
  <2>3. PICK m \in Nat : m = Cardinality(Bearers(b)')
    BY <2>1, FS_CardinalityType
  <2>4. PICK q \in Nat : q = queue[b] + Sum(delayed[b])
    BY <2>1
  <2>5. PICK r \in Nat : r = queue'[b] + Sum(delayed'[b])
    BY <2>1
  <2>6. PICK f \in Nat, g \in Nat : f = faults /\ g = faults'
    BY <2>1
  <2>7. PICK i \in {0, 1} : i = IF Bears(w, b) THEN 1 ELSE 0
    OBVIOUS
  <2>8. PICK j \in {0, 1} : j = IF Bears(w, b)' THEN 1 ELSE 0
    OBVIOUS
  <2>9. m + i = n + j
    <3>1. CASE Bears(w, b) <=> Bears(w, b)'
      BY <1>0, <2>2, <2>3, <2>7, <2>8, <3>1, BearersChange
    <3>2. CASE Bears(w, b) /\ ~Bears(w, b)'
      BY <1>0, <2>2, <2>3, <2>7, <2>8, <3>2, BearersChange
    <3>3. CASE ~Bears(w, b) /\ Bears(w, b)'
      BY <1>0, <2>2, <2>3, <2>7, <2>8, <3>3, BearersChange
    <3> QED
      BY <3>1, <3>2, <3>3
  <2>10. r + j + f <= q + i + g
    BY <2>4, <2>5, <2>6, <2>7, <2>8
  <2>11. Tokens(b) = q + n /\ Tokens(b)' = r + m
    BY <2>2, <2>3, <2>4, <2>5 DEF Tokens
  <2>12. q + n <= 1 + f
    BY <1>0, <2>6, <2>11
  <2>13. r + m <= 1 + g
    BY <2>9, <2>10, <2>12
  <2> QED
    BY <2>1, <2>6, <2>11, <2>13
<1>3. \A a \in Accounts : IsFiniteSet(Bearers(a)') /\ Tokens(a)' <= 1 + faults'
  BY <1>0, <1>1, <1>2
<1>4. \A a \in Accounts : a \notin clients' \ adding' => Tokens(a)' = 0
  BY <1>1 DEF TokenInv
<1>5. \A v \in Workers : session'[v].pc \notin {"out", "waiting"} => session'[v].account \in clients' \ adding'
  BY DEF TokenInv
<1> QED
  BY <1>3, <1>4, <1>5 DEF TokenInv

\* What is due moves from the delayed exchange to the queue.
LEMMA TokenTick == ASSUME LocalInv, TokenInv, Tick PROVE TokenInv'
<1>1. UNCHANGED <<clients, adding, session, faults>>
  BY DEF Tick, table
<1>2. ASSUME NEW a \in Accounts
      PROVE  Bearers(a)' = Bearers(a) /\ Tokens(a)' = Tokens(a)
  <2>1. Bearers(a)' = Bearers(a)
    BY <1>1 DEF Bearers, Bears
  <2>2. /\ queue'[a] = queue[a] + delayed[a][1]
        /\ delayed'[a] = [d \in Delays |-> IF d + 1 \in Delays THEN delayed[a][d + 1] ELSE 0]
    BY DEF Tick
  <2>3. /\ queue[a] \in Nat /\ delayed[a] \in [Delays -> Nat] /\ Sum(delayed[a]) \in Nat
        /\ Cardinality(Bearers(a)) \in Nat
    BY TokenTypes DEF LocalInv, TokenInv
  <2>4. PICK n \in Nat \ {0} : Delays = 1 .. n
    BY WaitsAssumption DEF Delays
  <2>5. Sum(delayed[a]) = delayed[a][1] + Sum(delayed'[a])
    <3>1. delayed[a] \in [1 .. n -> Nat]
      BY <2>3, <2>4
    <3>2. delayed'[a] = [d \in 1 .. n |-> IF d + 1 \in 1 .. n THEN delayed[a][d + 1] ELSE 0]
      BY <2>2, <2>4
    <3> QED
      BY <3>1, <3>2, SumShifts
  <2>6. Sum(delayed'[a]) \in Nat /\ delayed[a][1] \in Nat
    <3>1. delayed'[a] \in [Delays -> Nat] /\ 1 \in Delays
      BY <2>2, <2>3, DelaysFacts
    <3> QED
      BY <2>3, <3>1, DelaysFinite, SumTyped
  <2> QED
    BY <2>1, <2>2, <2>3, <2>5, <2>6 DEF Tokens
<1> QED
  BY <1>1, <1>2 DEF TokenInv

\* A client has no session until its first is published.
LEMMA TokenAdd == ASSUME LocalInv, TokenInv, NEW b \in Accounts, Add(b) PROVE TokenInv'
<1>0. TypeOK /\ \A a \in Accounts : IsFiniteSet(Bearers(a)) /\ Tokens(a) \in Nat /\ faults \in Nat
  BY TokenTypes DEF LocalInv, TokenInv
<1>1. UNCHANGED <<session, delayed>>
  BY DEF Add, AddCommit, AddSession, AddFails, rest
<1>2. \A a \in Accounts : Bearers(a)' = Bearers(a)
  BY <1>1 DEF Bearers, Bears
<1>3. CASE AddCommit(b)
  <2>1. /\ UNCHANGED <<queue, faults>> /\ b \notin clients
        /\ clients' = clients \cup {b} /\ adding' = adding \cup {b}
    BY <1>3 DEF AddCommit, Created
  <2>2. \A a \in Accounts : Tokens(a)' = Tokens(a)
    BY <1>1, <1>2, <2>1 DEF Tokens
  <2> QED
    BY <1>0, <1>1, <1>2, <2>1, <2>2 DEF TokenInv, TypeOK
<1>4. CASE AddSession(b) \/ (AddFails(b) /\ Put(b))
  <2>1. /\ UNCHANGED clients /\ b \in adding /\ (faults' = faults \/ faults' = faults + 1)
        /\ adding' = adding \ {b} /\ Put(b)
    BY <1>4 DEF AddSession, AddFails, Fault
  <2>2. Tokens(b) = 0
    BY <2>1 DEF TokenInv
  <2>3. Tokens(b)' = 1
    <3>1. queue'[b] = queue[b] + 1 /\ queue[b] \in Nat
      BY <1>0, <2>1 DEF Put, TypeOK
    <3>2. Sum(delayed[b]) \in Nat /\ Cardinality(Bearers(b)) \in Nat
      BY <1>0, TokenTypes
    <3> QED
      BY <1>1, <1>2, <2>2, <3>1, <3>2 DEF Tokens
  <2>4. \A a \in Accounts : a # b => Tokens(a)' = Tokens(a)
    BY <1>0, <1>1, <1>2, <2>1 DEF Tokens, Put, TypeOK
  <2>5. \A a \in Accounts : IsFiniteSet(Bearers(a)') /\ Tokens(a)' <= 1 + faults'
    BY <1>0, <1>2, <2>1, <2>3, <2>4 DEF TokenInv
  <2>6. \A a \in Accounts : a \notin clients' \ adding' => Tokens(a)' = 0
    BY <1>0, <2>1, <2>4 DEF TokenInv, TypeOK
  <2> QED
    BY <1>1, <2>1, <2>5, <2>6 DEF TokenInv
<1>5. CASE AddFails(b) /\ UNCHANGED queue
  <2>1. /\ UNCHANGED <<clients, queue>> /\ b \in adding
        /\ adding' = adding \ {b} /\ faults' = faults + 1
    BY <1>5 DEF AddFails, Fault
  <2>2. \A a \in Accounts : Tokens(a)' = Tokens(a)
    BY <1>1, <1>2, <2>1 DEF Tokens
  <2>3. \A a \in Accounts : a \notin clients' \ adding' => Tokens(a)' = 0
    BY <2>1, <2>2 DEF TokenInv
  <2>4. \A a \in Accounts : IsFiniteSet(Bearers(a)') /\ Tokens(a)' <= 1 + faults'
    BY <1>0, <1>2, <2>1, <2>2 DEF TokenInv
  <2> QED
    BY <1>1, <2>1, <2>3, <2>4 DEF TokenInv
<1> QED
  BY <1>3, <1>4, <1>5 DEF Add, AddFails

\* A session of an account that is published can be received.
LEMMA TokenReceive == ASSUME LocalInv, TokenInv, NEW w \in Workers, Receive(w) PROVE TokenInv'
<1>0. TypeOK /\ NoSession \in Session
  BY NothingTyped DEF LocalInv
<1>1. PICK b \in Accounts :
           /\ queue[b] > 0
           /\ queue' = [queue EXCEPT ![b] = @ - 1]
           /\ session' = [session EXCEPT ![w] =
                            [NoSession EXCEPT !.pc = "received", !.account = b, !.owned = TRUE]]
  BY DEF Receive
<1>2. /\ session'[w].pc = "received" /\ session'[w].account = b
      /\ \A v \in Workers : v # w => session'[v] = session[v]
  BY <1>0, <1>1 DEF Session, TypeOK
<1>3. session[w].pc = "waiting" /\ UNCHANGED <<clients, adding, delayed, faults>>
  BY DEF Receive, table, rest
<1>4. /\ queue[b] \in Nat /\ Sum(delayed[b]) \in Nat /\ Cardinality(Bearers(b)) \in Nat
      /\ faults \in Nat
  BY <1>0, TokenTypes DEF TokenInv
<1>5. b \in clients \ adding
  <2>1. Tokens(b) > 0
    BY <1>1, <1>4 DEF Tokens
  <2> QED
    BY <2>1 DEF TokenInv
<1>6. queue'[b] = queue[b] - 1 /\ \A a \in Accounts : a # b => queue'[a] = queue[a]
  BY <1>0, <1>1 DEF TypeOK
<1>7. Bears(w, b)' /\ ~Bears(w, b)
  BY <1>2, <1>3 DEF Bears, Having
<1>8. queue'[b] + Sum(delayed'[b]) + 1 + faults <= queue[b] + Sum(delayed[b]) + 0 + faults'
  BY <1>3, <1>4, <1>6
<1>9. queue'[b] \in Nat
  BY <1>1, <1>4, <1>6
<1> QED
  BY <1>2, <1>3, <1>4, <1>5, <1>6, <1>7, <1>8, <1>9, TokenStep

\* What a worker does to the queue it puts its session back to.
LEMMA Returned ==
    ASSUME LocalInv, NEW w \in Workers, NEW b \in Accounts, b = session[w].account
    PROVE  /\ Put(b) => queue'[b] = queue[b] + 1 /\ \A a \in Accounts : a # b => queue'[a] = queue[a]
           /\ Reject(w) => /\ queue'[b] = queue[b] + IF session[w].owned THEN 1 ELSE 0
                           /\ \A a \in Accounts : a # b => queue'[a] = queue[a]
<1>1. queue \in [Accounts -> Nat]
  BY DEF LocalInv, TypeOK
<1> QED
  BY <1>1 DEF Put, Reject

\* What a worker does to the delayed exchange with a session that rests.
LEMMA PutOff ==
    ASSUME LocalInv, NEW w \in Workers, session[w].pc = "delay", PutDelayed(w),
           NEW b \in Accounts, b = session[w].account
    PROVE  /\ Sum(delayed'[b]) = Sum(delayed[b]) + 1
           /\ \A a \in Accounts : a # b => delayed'[a] = delayed[a]
<1>1. PICK n \in Delays : n = Delay(session[w].wait)
  BY DelayTyped DEF LocalInv, Local
<1>2. delayed' = [delayed EXCEPT ![b][n] = @ + 1] /\ delayed \in [Accounts -> [Delays -> Nat]]
  BY <1>1 DEF PutDelayed, LocalInv, TypeOK
<1>3. delayed'[b] = [delayed[b] EXCEPT ![n] = @ + 1] /\ delayed[b] \in [Delays -> Nat]
  BY <1>2
<1> QED
  BY <1>2, <1>3, DelaysFinite, SumAdds

\* The other steps of a worker: what it gives back it no longer bears, unless
\* a fault is counted.
LEMMA TokenWorker ==
    ASSUME LocalInv, TokenInv, NEW w \in Workers, session[w].pc \notin {"out", "waiting"},
           GetClient(w) \/ Disconnect(w) \/ Crash(w) \/ ConsumerTimeout(w)
    PROVE  TokenInv'
<1>0. /\ TypeOK /\ session \in [Workers -> Session] /\ session[w] \in Session
      /\ NoSession.pc = "out" /\ Local(session[w])
  BY NothingTyped DEF LocalInv, TypeOK
<1>z. PICK b : b = session[w].account
  OBVIOUS
<1>1. b \in Accounts /\ b \in clients \ adding
  BY <1>0, <1>z DEF TokenInv, TypeOK
<1>2. queue[b] \in Nat /\ delayed[b] \in [Delays -> Nat] /\ Sum(delayed[b]) \in Nat /\ faults \in Nat
  BY <1>0, <1>1, TokenTypes DEF TokenInv
<1>3. Leave(w) => /\ session'[w].pc = "out" /\ ~Bears(w, b)'
                  /\ \A v \in Workers : v # w => session'[v] = session[v]
  BY <1>0, LeaveTyped DEF Bears, Having
<1>4. Fault => faults' = faults + 1
  BY DEF Fault
<1> DEFINE i == IF Bears(w, b) THEN 1 ELSE 0
           j == IF Bears(w, b)' THEN 1 ELSE 0
           Moved == /\ UNCHANGED <<clients, adding>>
                    /\ \A a \in Accounts : a # b => queue'[a] = queue[a] /\ delayed'[a] = delayed[a]
                    /\ \A v \in Workers : v # w => session'[v] = session[v]
                    /\ session'[w].account = b \/ session'[w].pc \in {"out", "waiting"}
           Paid == /\ queue'[b] \in Nat /\ Sum(delayed'[b]) \in Nat /\ faults' \in Nat
                   /\ faults' >= faults
                   /\ queue'[b] + Sum(delayed'[b]) + j + faults
                        <= queue[b] + Sum(delayed[b]) + i + faults'
<1>5. Moved /\ Paid => TokenInv'
  BY <1>1, <1>z, TokenStep
<1>6. i \in {0, 1} /\ j \in {0, 1}
  OBVIOUS
<1> HIDE DEF Moved, Paid
<1>7. CASE Look(w) \/ EndUse(w)
  <2>1. /\ Bears(w, b) /\ Bears(w, b)' /\ session'[w].account = b
        /\ \A v \in Workers : v # w => session'[v] = session[v]
    BY <1>0, <1>z, <1>7 DEF Look, EndUse, Go, Session, Bears, Having
  <2>2. UNCHANGED <<clients, adding, queue, delayed, faults>>
    BY <1>7 DEF Look, EndUse, table, rest
  <2> QED
    BY <1>2, <1>5, <2>1, <2>2 DEF Moved, Paid
<1>8. CASE UseFails(w)
  <2>1. /\ session[w].pc \in {"received", "using"} /\ Leave(w) /\ Reject(w)
        /\ UNCHANGED <<clients, adding, delayed, faults>>
    BY <1>8 DEF UseFails, table, rest
  <2>2. Bears(w, b)
    BY <1>z, <2>1 DEF Bears, Having
  <2> QED
    BY <1>1, <1>2, <1>z, <1>3, <1>5, <2>1, <2>2, Returned DEF Moved, Paid
<1>9. CASE Publish(w)
  <2>1. /\ session[w].pc = "publish" /\ Put(b) /\ Go(w, "ack")
        /\ UNCHANGED <<clients, adding, delayed, faults>>
    BY <1>9, <1>z DEF Publish, table, rest
  <2>2. Bears(w, b) /\ ~Bears(w, b)' /\ session'[w].account = b
        /\ \A v \in Workers : v # w => session'[v] = session[v]
    BY <1>0, <1>z, <2>1, GoTyped DEF Bears, Having
  <2> QED
    BY <1>1, <1>2, <1>z, <1>5, <2>1, <2>2, Returned DEF Moved, Paid
<1>10. CASE PublishFails(w)
  <2>1. /\ session[w].pc = "publish" /\ Leave(w) /\ faults' = faults + 1
        /\ UNCHANGED <<clients, adding, delayed>>
    BY <1>10, <1>4 DEF PublishFails, table, rest
  <2>2. Bears(w, b)
    BY <1>z, <2>1 DEF Bears, Having
  <2>3. /\ \A a \in Accounts : a # b => queue'[a] = queue[a]
        /\ queue'[b] \in Nat /\ queue'[b] <= queue[b] + 2
    <3>1. CASE Reject(w)
      BY <1>1, <1>2, <1>z, <3>1, Returned
    <3>2. CASE queue' = [queue EXCEPT ![b] = @ + IF session[w].owned THEN 2 ELSE 1]
      <4>1. queue \in [Accounts -> Nat]
        BY <1>0 DEF TypeOK
      <4> QED
        BY <1>1, <1>2, <3>2, <4>1
    <3> QED
      BY <1>10, <1>z, <3>1, <3>2 DEF PublishFails
  <2> QED
    BY <1>2, <1>3, <1>5, <2>1, <2>2, <2>3 DEF Moved, Paid
<1>11. CASE PublishDelayed(w)
  <2>1. /\ session[w].pc = "delay" /\ PutDelayed(w) /\ Go(w, "ack")
        /\ UNCHANGED <<clients, adding, queue, faults>>
    BY <1>11 DEF PublishDelayed, table
  <2>2. Bears(w, b) /\ ~Bears(w, b)' /\ session'[w].account = b
        /\ \A v \in Workers : v # w => session'[v] = session[v]
    BY <1>0, <1>z, <2>1, GoTyped DEF Bears, Having
  <2>3. /\ Sum(delayed'[b]) = Sum(delayed[b]) + 1
        /\ \A a \in Accounts : a # b => delayed'[a] = delayed[a]
    BY <1>1, <1>z, <2>1, PutOff
  <2> QED
    BY <1>2, <1>5, <2>1, <2>2, <2>3 DEF Moved, Paid
<1>12. CASE DelayFails(w)
  <2>1. /\ session[w].pc = "delay" /\ (PutDelayed(w) \/ UNCHANGED delayed) /\ faults' = faults + 1
        /\ IF session[w].owned THEN Go(w, "stuck") ELSE Leave(w)
        /\ UNCHANGED <<clients, adding, queue>>
    BY <1>12, <1>4 DEF DelayFails, table
  <2>2. /\ Bears(w, b) /\ (session'[w].account = b \/ session'[w].pc \in {"out", "waiting"})
        /\ \A v \in Workers : v # w => session'[v] = session[v]
    BY <1>0, <1>z, <1>3, <2>1, GoTyped DEF Bears, Having
  <2>3. /\ Sum(delayed'[b]) \in Nat /\ Sum(delayed'[b]) <= Sum(delayed[b]) + 1
        /\ \A a \in Accounts : a # b => delayed'[a] = delayed[a]
    BY <1>1, <1>2, <1>z, <2>1, PutOff
  <2> QED
    BY <1>2, <1>5, <2>1, <2>2, <2>3 DEF Moved, Paid
<1>13. CASE Ack(w) \/ Remove(w) \/ Ban(w)
  <2>1. UNCHANGED <<clients, adding, queue, delayed, faults>>
    BY <1>13 DEF Ack, Acked, Remove, Ban, table, rest
  <2>2. Leave(w) \/ (session[w].pc = "remove" /\ Go(w, "ban"))
    BY <1>13 DEF Ack, Remove, Ban
  <2>3. /\ ~Bears(w, b)' /\ (session'[w].account = b \/ session'[w].pc \in {"out", "waiting"})
        /\ \A v \in Workers : v # w => session'[v] = session[v]
    BY <1>0, <1>z, <1>3, <2>2, GoTyped DEF Bears, Having
  <2> QED
    BY <1>2, <1>5, <2>1, <2>3 DEF Moved, Paid
<1>14. CASE Disconnect(w)
  <2>1. /\ Put(b) /\ session' = [session EXCEPT ![w].owned = FALSE] /\ faults' = faults + 1
        /\ UNCHANGED <<clients, adding, delayed>>
    BY <1>14, <1>z, <1>4 DEF Disconnect, table, rest
  <2>2. /\ session'[w].pc = session[w].pc /\ session'[w].account = session[w].account
        /\ \A v \in Workers : v # w => session'[v] = session[v]
    BY <1>0, <2>1 DEF Session
  <2>3. Bears(w, b)' <=> Bears(w, b)
    BY <2>2 DEF Bears
  <2> QED
    BY <1>1, <1>2, <1>z, <1>5, <2>1, <2>2, <2>3, Returned DEF Moved, Paid
<1>15. CASE Crash(w)
  <2>1. /\ Leave(w) /\ faults' = faults + 1 /\ (Put(b) \/ UNCHANGED queue)
        /\ UNCHANGED <<clients, adding, delayed>>
    BY <1>15, <1>z, <1>4 DEF Crash, table, rest
  <2> QED
    BY <1>1, <1>2, <1>z, <1>3, <1>5, <2>1, Returned DEF Moved, Paid
<1>16. CASE ConsumerTimeout(w)
  <2>1. /\ session[w].pc = "stuck" /\ Leave(w) /\ Put(b)
        /\ UNCHANGED <<clients, adding, delayed, faults>>
    BY <1>16, <1>z DEF ConsumerTimeout, table, rest
  <2>2. Bears(w, b)
    BY <1>z, <2>1 DEF Bears
  <2> QED
    BY <1>1, <1>2, <1>z, <1>3, <1>5, <2>1, <2>2, Returned DEF Moved, Paid
<1>17. ~(Start(w) \/ Timeout(w) \/ Receive(w))
  BY DEF Start, Timeout, Receive
<1> QED
  BY <1>7, <1>8, <1>9, <1>10, <1>11, <1>12, <1>13, <1>14, <1>15, <1>16, <1>17 DEF GetClient

\* A worker without a session bears none, whatever it does but receive one.
LEMMA TokenIdle ==
    ASSUME LocalInv, TokenInv, NEW w \in Workers, session[w].pc \in {"out", "waiting"},
           Start(w) \/ Timeout(w) \/ Crash(w)
    PROVE  TokenInv'
<1>0. session \in [Workers -> Session] /\ NoSession.pc = "out" /\ ~session[w].owned
  BY NothingTyped DEF LocalInv, TypeOK, Local
<1>1. /\ UNCHANGED <<clients, adding, queue, delayed>>
      /\ Go(w, "waiting") \/ Leave(w)
      /\ faults' = faults \/ faults' = faults + 1
  BY <1>0 DEF Start, Timeout, Crash, Fault, Unacknowledged, table, rest
<1>2. /\ session'[w].pc \in {"out", "waiting"}
      /\ \A v \in Workers : v # w => session'[v] = session[v]
  BY <1>0, <1>1, GoTyped, LeaveTyped
<1>3. \A a \in Accounts : ~Bears(w, a) /\ ~Bears(w, a)'
  BY <1>2 DEF Bears, Having
<1>4. \A a \in Accounts : Bearers(a)' = Bearers(a)
  BY <1>2, <1>3, BearersChange DEF TokenInv
<1>5. \A a \in Accounts : Tokens(a)' = Tokens(a)
  BY <1>1, <1>4 DEF Tokens
<1>6. \A a \in Accounts : Tokens(a) \in Nat /\ faults \in Nat
  BY TokenTypes DEF LocalInv, TokenInv
<1>7. \A a \in Accounts : IsFiniteSet(Bearers(a)') /\ Tokens(a)' <= 1 + faults'
  BY <1>1, <1>4, <1>5, <1>6 DEF TokenInv
<1> QED
  BY <1>1, <1>2, <1>5, <1>7 DEF TokenInv

\* Every step pays for the copies it makes.
LEMMA TokenNext == LocalInv /\ TokenInv /\ [Next]_vars => TokenInv'
<1> SUFFICES ASSUME LocalInv, TokenInv, [Next]_vars PROVE TokenInv'
  OBVIOUS
<1>1. CASE UNCHANGED vars
  BY <1>1 DEF vars, TokenInv, Tokens, Bearers, Bears
<1>2. ASSUME NEW w \in Workers, GetClient(w) \/ Disconnect(w) \/ Crash(w) \/ ConsumerTimeout(w)
      PROVE  TokenInv'
  <2>1. CASE session[w].pc \notin {"out", "waiting"}
    BY <1>2, <2>1, TokenWorker
  <2>2. CASE session[w].pc \in {"out", "waiting"}
    <3>1. ~session[w].owned
      BY <2>2 DEF LocalInv, Local
    <3>2. Start(w) \/ Timeout(w) \/ Receive(w) \/ Crash(w)
      BY <1>2, <2>2, <3>1 DEF GetClient, Look, EndUse, UseFails, Publish, PublishFails,
         PublishDelayed, DelayFails, Ack, Remove, Ban, Disconnect, Unacknowledged, ConsumerTimeout
    <3> QED
      BY <2>2, <3>2, TokenReceive, TokenIdle
  <2> QED
    BY <2>1, <2>2
<1> QED
  BY <1>1, <1>2, TokenTick, TokenAdd DEF Next

\* The inductive invariant of the copies of a session.
LEMMA TokenInvariant == Spec => [](LocalInv /\ TokenInv)
BY TokenInit, TokenNext, QueueTypeCorrect, PTL DEF Spec

\* A fault makes one copy of a session at most, however the acknowledgements,
\* the republished messages and the lost connections interleave.
THEOREM CopiesAlwaysBounded == Spec => []CopiesBounded
<1>1. LocalInv /\ TokenInv => CopiesBounded
  <2> SUFFICES ASSUME LocalInv, TokenInv, NEW a \in Accounts PROVE Copies(a) <= 1 + faults
    BY DEF CopiesBounded
  <2>1. Holders(a) \subseteq Bearers(a)
    BY SessionFields DEF Holders, Bearers, Bears, Having, Unacknowledged, LocalInv, TypeOK, Local
  <2>2. IsFiniteSet(Bearers(a)) /\ Tokens(a) <= 1 + faults
    BY DEF TokenInv
  <2>3. Cardinality(Holders(a)) <= Cardinality(Bearers(a)) /\ Cardinality(Holders(a)) \in Nat
    BY <2>1, <2>2, FS_Subset, FS_CardinalityType
  <2>4. /\ queue[a] \in Nat /\ Sum(delayed[a]) \in Nat /\ faults \in Nat
        /\ Cardinality(Bearers(a)) \in Nat
    BY <2>2, TokenTypes DEF LocalInv
  <2>5. Copies(a) = queue[a] + Sum(delayed[a]) + Cardinality(Holders(a))
    BY DEF Copies, Sum
  <2> QED
    BY <2>2, <2>3, <2>4, <2>5 DEF Tokens
<1> QED
  BY <1>1, TokenInvariant, PTL

\* Two workers use one session only when a fault gave it to the second.
THEOREM OneUserPerFault == Spec => []OneUser
<1>1. LocalInv /\ TokenInv => OneUser
  <2> SUFFICES ASSUME LocalInv, TokenInv, NEW a \in Accounts
               PROVE  Cardinality(Users(a)) <= 1 + faults
    BY DEF OneUser
  <2>1. Users(a) \subseteq Bearers(a)
    BY DEF Users, Bearers, Bears, Having
  <2>2. IsFiniteSet(Bearers(a)) /\ Tokens(a) <= 1 + faults
    BY DEF TokenInv
  <2>3. Cardinality(Users(a)) <= Cardinality(Bearers(a)) /\ Cardinality(Users(a)) \in Nat
    BY <2>1, <2>2, FS_Subset, FS_CardinalityType
  <2>4. /\ queue[a] \in Nat /\ Sum(delayed[a]) \in Nat /\ faults \in Nat
        /\ Cardinality(Bearers(a)) \in Nat
    BY <2>2, TokenTypes DEF LocalInv
  <2> QED
    BY <2>2, <2>3, <2>4 DEF Tokens
<1> QED
  BY <1>1, TokenInvariant, PTL
=============================================================================
