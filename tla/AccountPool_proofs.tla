------------------------ MODULE AccountPool_proofs -------------------------
(***************************************************************************)
(* Theorems about AccountPool, for every set of accounts, workers and      *)
(* requests and every length of a lock, a session, a task and a wait.      *)
(***************************************************************************)
EXTENDS AccountPool, TLAPS

\* The locals a session and a request start from have their types.
LEMMA NothingTyped == NoSession \in Session /\ NoAdd \in Adding
<1>1. 0 \in 0 .. (SessionTime + 1)
  BY LockAssumption
<1>2. QED
  BY <1>1 DEF NoSession, NoAdd, Session, Adding

\* The fields of a session.
LEMMA SessionFields ==
    ASSUME NEW s \in Session
    PROVE  /\ s.account \in Accounts \cup {NoAccount} /\ s.hold \in Nat
           /\ s.slow \in Nat /\ s.age \in 0 .. (SessionTime + 1) /\ s.wait \in Waits \cup {0}
           /\ s.free \in SUBSET Accounts /\ s.spent \in Nat
BY DEF Session

\* Every record a step makes of the locals of a session is one of a session.
LEMMA SessionUpdates ==
    ASSUME NEW s \in Session
    PROVE  /\ [s EXCEPT !.spent = 0] \in Session
           /\ \A S \in SUBSET Accounts : [s EXCEPT !.free = S] \in Session
           /\ \A n \in Waits : [s EXCEPT !.wait = n, !.spent = 0] \in Session
           /\ \A a \in Accounts, n \in Nat :
                 [NoSession EXCEPT !.account = a, !.hold = n] \in Session
BY NothingTyped DEF Session

\* A wait is a number of ticks.
LEMMA WaitNat ==
    ASSUME NEW s \in Session
    PROVE  s.wait \in Nat /\ Margin \in Nat
<1>1. s.wait \in Waits \cup {0}
  BY SessionFields
<1>2. 0 \in Nat
  OBVIOUS
<1>3. QED
  BY <1>1, <1>2, WaitsAssumption

\* Time that passes stays a time.
LEMMA PassedNat == \A n \in Nat : Passed(n) \in Nat /\ Passed(n) <= n
BY DEF Passed

\* A stored time is a time.
LEMMA StoredNat == \A n \in Nat : Stored(n) \subseteq Nat
BY DEF Stored

\* A tick keeps the locals of a session typed.
LEMMA OlderTyped ==
    ASSUME NEW w \in Workers, session[w] \in Session
    PROVE  Older(w) \in Session
<1> DEFINE s == session[w]
<1>1. /\ Passed(s.hold) \in Nat
      /\ (IF pc[w] \in ConnectingPoints THEN s.slow + 1 ELSE s.slow) \in Nat
      /\ (IF pc[w] \in Connected /\ s.age <= SessionTime THEN s.age + 1 ELSE s.age)
           \in 0 .. (SessionTime + 1)
      /\ (IF pc[w] \in TimedPoints THEN s.spent + 1 ELSE s.spent) \in Nat
  BY SessionFields, PassedNat, LockAssumption
<1>2. QED
  BY <1>1 DEF Older, Session

\* A tick leaves a worker where it is, with the account it has.
LEMMA TickMove ==
    ASSUME TypeOK, Tick, NEW w \in Workers
    PROVE  /\ pc'[w] = pc[w] /\ session'[w].account = session[w].account
           /\ session'[w].free = session[w].free
           /\ session'[w].hold = Passed(session[w].hold)
<1>1. session'[w] = Older(w) /\ pc' = pc /\ session[w] \in Session
  BY DEF Tick, TypeOK
<1>2. QED
  BY <1>1 DEF Older, Session

\* The session of a worker stays typed in the moves all actions are made of.
LEMMA MoveTyped ==
    ASSUME TypeOK, NEW w \in Workers
    PROVE  /\ \A p \in Points : Go(w, p) => pc' \in [Workers -> Points]
           /\ \A p \in Points : Enter(w, p) => /\ pc' \in [Workers -> Points]
                                               /\ session' \in [Workers -> Session]
           /\ Leave(w) => /\ pc' \in [Workers -> Points]
                          /\ session' \in [Workers -> Session]
           /\ Unlock(w) => lock' \in [Accounts -> Workers \cup {NoWorker}]
<1>1. [session[w] EXCEPT !.spent = 0] \in Session
  BY SessionUpdates DEF TypeOK
<1>2. "out" \in Points
  BY DEF Points
<1>3. QED
  BY <1>1, <1>2, NothingTyped DEF TypeOK, Go, Enter, Leave, Unlock

\* A usage row keeps the table typed.
LEMMA RecordTyped ==
    ASSUME TypeOK, NEW a \in Accounts, NEW n \in Nat, Record(a, n)
    PROVE  /\ untils' \in [Accounts -> SUBSET Nat]
           /\ fresh' \in [Accounts -> BOOLEAN]
           /\ misled' \in [Workers -> SUBSET Accounts]
<1>1. \A v \in Workers : misled[v] \cup {a} \in SUBSET Accounts
  BY DEF TypeOK
<1>2. QED
  BY <1>1 DEF TypeOK, Record

-----------------------------------------------------------------------------
(* Types *)

\* The tables start with their types.
LEMMA TypeInit == Init => TypeOK
<1>1. "out" \in Points
  BY DEF Points
<1>2. QED
  BY <1>1, NothingTyped DEF Init, TypeOK

\* The clock keeps the types.
LEMMA TypeTick == TypeOK /\ Tick => TypeOK'
<1> SUFFICES ASSUME TypeOK, Tick PROVE TypeOK'
  OBVIOUS
<1>1. \A a \in Accounts : {Passed(n) : n \in untils[a]} \in SUBSET Nat
  BY PassedNat DEF TypeOK
<1>2. \A a \in Accounts : Passed(cool[a]) \in Nat
  BY PassedNat DEF TypeOK
<1>3. \A w \in Workers : Older(w) \in Session
  BY OlderTyped DEF TypeOK
<1>4. untils' \in [Accounts -> SUBSET Nat] /\ cool' \in [Accounts -> Nat]
  BY <1>1, <1>2 DEF Tick
<1>5. /\ fresh' \in [Accounts -> BOOLEAN] /\ session' \in [Workers -> Session]
      /\ doubted' \subseteq Accounts
  BY <1>3 DEF Tick, TypeOK
<1>6. QED
  BY <1>4, <1>5 DEF Tick, TypeOK

\* add_client keeps the types.
LEMMA TypeRequest ==
    ASSUME TypeOK, NEW r \in Requests, RequestStep(r)
    PROVE  TypeOK'
<1> USE DEF TypeOK, history
<1>1. adding[r] \in Adding
  OBVIOUS
<1>2. \A t \in {"create", "session"} : [adding[r] EXCEPT !.step = t] \in Adding
  BY <1>1 DEF Adding
<1>3. CASE AddCreate(r)
  <2>1. adding' \in [Requests -> Adding]
    BY <1>2, <1>3, NothingTyped DEF AddCreate
  <2>2. clients' \in [Accounts -> {"absent", "bare", "ready"}]
    BY <1>3 DEF AddCreate
  <2>3. QED
    BY <1>3, <2>1, <2>2 DEF AddCreate
<1>4. CASE AddSession(r)
  BY <1>4, NothingTyped DEF AddSession
<1>5. CASE AddFails(r)
  BY <1>5, NothingTyped DEF AddFails
<1>6. ASSUME NEW a \in Accounts, AddFind(r, a) PROVE TypeOK'
  BY <1>6 DEF AddFind, Adding
<1>7. QED
  BY <1>3, <1>4, <1>5, <1>6 DEF RequestStep

\* A worker that keeps its account still has one.
LEMMA AccountMove ==
    ASSUME TypeOK, HasAccount, NEW w \in Workers,
           Account(w) \in Accounts, session'[w].account = Account(w),
           \A v \in Workers \ {w} : pc'[v] = pc[v] /\ session'[v] = session[v]
    PROVE  HasAccount'
BY DEF HasAccount, Account

\* A worker that leaves needs no account.
LEMMA LeaveHas ==
    ASSUME TypeOK, HasAccount, NEW w \in Workers, Leave(w)
    PROVE  HasAccount'
BY DEF TypeOK, HasAccount, Leave, Go, HoldingPoints, Connected, Account

\* A worker that goes on keeps its account.
LEMMA EnterHas ==
    ASSUME TypeOK, HasAccount, NEW w \in Workers, NEW p, Enter(w, p), Account(w) \in Accounts
    PROVE  HasAccount'
<1>1. session'[w].account = Account(w)
  BY DEF Enter, TypeOK, Account, Session
<1>2. QED
  BY <1>1, AccountMove DEF Enter, Go, TypeOK

\* Trouble keeps the types and the account.
LEMMA DisturbedTyped ==
    ASSUME TypeOK, HasAccount, NEW w \in Workers, Disturbed(w), Account(w) \in Accounts
    PROVE  /\ pc' \in [Workers -> Points] /\ session' \in [Workers -> Session]
           /\ HasAccount'
<1>1. "ban" \in Points /\ "flood" \in Points
  BY DEF Points, TimedPoints
<1>2. CASE Enter(w, "ban")
  BY <1>1, <1>2, MoveTyped, EnterHas
<1>3. ASSUME NEW n \in Waits, Go(w, "flood"),
             session' = [session EXCEPT ![w].wait = n, ![w].spent = 0]
      PROVE  /\ pc' \in [Workers -> Points] /\ session' \in [Workers -> Session]
             /\ HasAccount'
  <2>1. /\ session[w] \in Session
        /\ session' = [session EXCEPT ![w] = [session[w] EXCEPT !.wait = n, !.spent = 0]]
    BY <1>3 DEF TypeOK
  <2>2. session' \in [Workers -> Session]
    BY <2>1, SessionUpdates DEF TypeOK
  <2>3. session'[w].account = Account(w)
    BY <2>1 DEF TypeOK, Account, Session
  <2>4. HasAccount'
    BY <1>3, <2>1, <2>3, AccountMove DEF Go, TypeOK
  <2>5. QED
    BY <1>1, <1>3, <2>2, <2>4 DEF Go, TypeOK
<1>4. QED
  BY <1>2, <1>3 DEF Disturbed

\* get_session keeps the types.
LEMMA TypeAcquire ==
    ASSUME TypeOK, HasAccount, NEW w \in Workers, Start(w) \/ Acquire(w)
    PROVE  TypeOK' /\ HasAccount'
<1> USE DEF TypeOK, history
<1>1. session[w] \in Session
  OBVIOUS
<1>2. {"search", "looking", "chosen", "leased", "out"} \subseteq Points
  BY DEF Points, TimedPoints
<1>3. CASE Start(w)
  BY <1>2, <1>3, MoveTyped DEF Start, Go, HasAccount, HoldingPoints, Connected, Account
<1>4. CASE Search(w)
  <2>1. PICK S \in SeenFree : /\ session' = [session EXCEPT ![w].free = S]
                             /\ Misled(w, S \cap Tied)
    BY <1>4 DEF Search
  <2>2. S \in SUBSET Accounts
    BY DEF SeenFree
  <2>3. /\ session' \in [Workers -> Session]
        /\ misled' \in [Workers -> SUBSET Accounts]
    BY <1>1, <2>1, <2>2, SessionUpdates DEF Misled
  <2>4. HasAccount'
    BY <1>4, <2>1 DEF Search, Go, HasAccount, HoldingPoints, Connected, Account
  <2>5. QED
    BY <1>2, <1>4, <2>3, <2>4, MoveTyped DEF Search
<1>5. CASE Choose(w)
  <2>1. PICK a \in Choices(w), n \in Stored(LockTime) :
           /\ lock' = [lock EXCEPT ![a] = w]
           /\ session' = [session EXCEPT ![w] = [NoSession EXCEPT !.account = a, !.hold = n]]
           /\ doubted' = doubted \cup (misled[w] \cap {a})
    BY <1>5 DEF Choose
  <2>2. a \in Accounts /\ n \in Nat
    BY <1>1, SessionFields, StoredNat, LockAssumption DEF Choices
  <2>3. [NoSession EXCEPT !.account = a, !.hold = n] \in Session
    BY <1>1, <2>2, SessionUpdates
  <2>4. session' \in [Workers -> Session]
    BY <2>1, <2>3
  <2>5. session'[w].account = a
    BY <2>1 DEF NoSession
  <2>6. HasAccount'
    BY <1>5, <2>1, <2>2, <2>5 DEF Choose, Go, HasAccount, Account
  <2>7. misled' \in [Workers -> SUBSET Accounts] /\ doubted' \subseteq Accounts
    BY <1>5, <2>1 DEF Choose, Misled
  <2>8. QED
    BY <1>2, <1>5, <2>1, <2>4, <2>6, <2>7, MoveTyped DEF Choose
<1>6. CASE NoneFound(w)
  <2> misled' \in [Workers -> SUBSET Accounts]
    BY <1>6 DEF NoneFound, Misled
  <2>1. CASE Leave(w)
    BY <1>6, <2>1, MoveTyped, LeaveHas DEF NoneFound
  <2>2. CASE Go(w, "search") /\ session' = [session EXCEPT ![w].free = {}]
    <3>1. session' \in [Workers -> Session]
      BY <1>1, <2>2, SessionUpdates
    <3>2. HasAccount'
      BY <2>2 DEF Go, HasAccount, HoldingPoints, Connected, Account
    <3>3. QED
      BY <1>2, <1>6, <2>2, <3>1, <3>2, MoveTyped DEF NoneFound
  <2>3. QED
    BY <1>6, <2>1, <2>2 DEF NoneFound
<1>7. CASE Lease(w)
  <2>1. Account(w) \in Accounts /\ session[w].hold \in Nat
    BY <1>1, <1>7, SessionFields DEF Lease, HasAccount
  <2>2. /\ untils' \in [Accounts -> SUBSET Nat] /\ fresh' \in [Accounts -> BOOLEAN]
        /\ misled' \in [Workers -> SUBSET Accounts]
    BY <1>7, <2>1, RecordTyped DEF Lease
  <2>3. HasAccount'
    BY <1>7, <2>1, EnterHas DEF Lease
  <2>4. QED
    BY <1>2, <1>7, <2>2, <2>3, MoveTyped DEF Lease
<1>8. QED
  BY <1>3, <1>4, <1>5, <1>6, <1>7 DEF Acquire

\* A session keeps the types.
LEMMA TypeUse ==
    ASSUME TypeOK, HasAccount, NEW w \in Workers, Use(w)
    PROVE  TypeOK' /\ HasAccount'
<1>1. /\ pc[w] \in {"leased", "connect", "between", "task"}
      /\ UNCHANGED <<clients, banned, untils, fresh, cool, lock, adding, misled, doubted>>
      /\ (\E p \in Points : Enter(w, p)) \/ Disturbed(w)
  <2>1. {"ban", "connect", "between", "task", "done"} \subseteq Points
    BY DEF Points, TimedPoints
  <2>2. QED
    BY <2>1 DEF Use, FindClient, Connect, NextTask, Task, history
<1>2. Account(w) \in Accounts
  BY <1>1 DEF HasAccount, HoldingPoints, Connected
<1>3. /\ pc' \in [Workers -> Points] /\ session' \in [Workers -> Session]
      /\ HasAccount'
  BY <1>1, <1>2, MoveTyped, EnterHas, DisturbedTyped
<1>4. QED
  BY <1>1, <1>3 DEF TypeOK

\* The end of a session keeps the types.
LEMMA TypeFinish ==
    ASSUME TypeOK, HasAccount, NEW w \in Workers, Finish(w) \/ Crash(w)
    PROVE  TypeOK' /\ HasAccount'
<1> USE DEF TypeOK
<1>1. session[w] \in Session /\ 0 \in Nat
  OBVIOUS
<1>2. Leave(w)
  BY DEF Finish, Complete, RecordFlood, Ban, Crash
<1>3. /\ pc' \in [Workers -> Points] /\ session' \in [Workers -> Session]
      /\ HasAccount' /\ doubted' \subseteq Accounts
  <2>1. doubted' \subseteq doubted
    BY DEF Finish, Complete, RecordFlood, Ban, Crash
  <2>2. QED
    BY <1>2, <2>1, MoveTyped, LeaveHas
<1>4. CASE Complete(w)
  <2>1. PICK n \in Stored(0) : Record(Account(w), n)
    BY <1>4 DEF Complete
  <2>2. n \in Nat /\ Account(w) \in Accounts
    BY <1>1, <1>4, StoredNat DEF Complete, HasAccount, HoldingPoints
  <2>3. QED
    BY <1>3, <1>4, <2>1, <2>2, RecordTyped DEF Complete
<1>5. CASE RecordFlood(w)
  <2>1. PICK n \in Stored(Rest(w)) : Record(Account(w), n)
    BY <1>5 DEF RecordFlood
  <2>2. session[w].wait \in Nat /\ Margin \in Nat
    BY <1>1, WaitNat
  <2>3. n \in Nat /\ Account(w) \in Accounts
    BY <1>5, <2>2, StoredNat DEF RecordFlood, HasAccount, HoldingPoints, Rest
  <2>4. QED
    BY <1>3, <1>5, <2>1, <2>2, <2>3, RecordTyped DEF RecordFlood
<1>6. CASE Ban(w)
  BY <1>3, <1>6 DEF Ban
<1>7. CASE Crash(w)
  BY <1>3, <1>7, MoveTyped DEF Crash, Misled
<1>8. QED
  BY <1>4, <1>5, <1>6, <1>7 DEF Finish

\* The clock and the requests take no account from a worker.
LEMMA HasAccountElsewhere ==
    ASSUME TypeOK, HasAccount,
           Tick \/ \E r \in Requests : RequestStep(r)
    PROVE  HasAccount'
<1>1. CASE Tick
  <2>1. \A w \in Workers : session'[w].account = session[w].account
    BY <1>1, TickMove
  <2>2. QED
    BY <1>1, <2>1 DEF Tick, HasAccount, Account
<1>2. ASSUME NEW r \in Requests, RequestStep(r) PROVE HasAccount'
  BY <1>2 DEF RequestStep, AddCreate, AddSession, AddFails, AddFind, HasAccount, Account
<1>3. QED
  BY <1>1, <1>2

\* Every step keeps the types, and the accounts of those that have one.
LEMMA TypeStep ==
    ASSUME TypeOK, HasAccount, [Next]_vars
    PROVE  TypeOK' /\ HasAccount'
<1>1. CASE UNCHANGED vars
  BY <1>1 DEF vars, pool, history, TypeOK, HasAccount, Account
<1>2. CASE Tick
  BY <1>2, TypeTick, HasAccountElsewhere
<1>3. ASSUME NEW r \in Requests, RequestStep(r) PROVE TypeOK' /\ HasAccount'
  BY <1>3, TypeRequest, HasAccountElsewhere
<1>4. ASSUME NEW w \in Workers, WorkerStep(w) \/ Crash(w) PROVE TypeOK' /\ HasAccount'
  BY <1>4, TypeAcquire, TypeUse, TypeFinish DEF WorkerStep
<1>5. QED
  BY <1>1, <1>2, <1>3, <1>4 DEF Next

\* The tables of accounts and the locals of workers and requests keep their
\* types, and a worker that records a row has an account to record it for.
THEOREM PoolTypeCorrect == Spec => []TypeOK
<1>1. Init => HasAccount
  BY DEF Init, HasAccount, HoldingPoints, Connected
<1>2. TypeOK /\ HasAccount /\ [Next]_vars => (TypeOK /\ HasAccount)'
  BY TypeStep
<1>3. QED
  BY <1>1, <1>2, TypeInit, PTL DEF Spec

-----------------------------------------------------------------------------
(* The lock outlasts its session                                           *)

\* A worker moves only itself.
LEMMA OthersStay ==
    ASSUME TypeOK, NEW w \in Workers, WorkerStep(w) \/ Crash(w),
           NEW v \in Workers, v # w
    PROVE  pc'[v] = pc[v] /\ session'[v] = session[v]
<1>1. CASE Start(w) \/ Acquire(w)
  BY <1>1 DEF TypeOK, Start, Acquire, Search, Choose, NoneFound, Lease, Go, Enter, Leave
<1>2. CASE Use(w)
  BY <1>2 DEF TypeOK, Use, FindClient, Connect, NextTask, Task, Disturbed, Go, Enter
<1>3. CASE Finish(w) \/ Crash(w)
  BY <1>3 DEF TypeOK, Finish, Complete, RecordFlood, Ban, Crash, Go, Leave
<1>4. QED
  BY <1>1, <1>2, <1>3 DEF WorkerStep

\* A tick takes from the lock what it adds to the time a session took.
LEMMA SufficesTick ==
    ASSUME TypeOK, HoldSuffices, Tick, NEW w \in Workers
    PROVE  Suffices(w)'
<1> DEFINE s == session[w]
<1>1. /\ s.hold \in Nat /\ s.slow \in Nat /\ s.spent \in Nat /\ s.age \in Nat
      /\ SessionTime \in Nat /\ LockTime \in Nat
  BY SessionFields, LockAssumption DEF TypeOK
<1>2. /\ session'[w].hold = Passed(s.hold)
      /\ session'[w].slow = IF pc[w] \in ConnectingPoints THEN s.slow + 1 ELSE s.slow
      /\ session'[w].age = IF pc[w] \in Connected /\ s.age <= SessionTime THEN s.age + 1 ELSE s.age
      /\ session'[w].spent = IF pc[w] \in TimedPoints THEN s.spent + 1 ELSE s.spent
      /\ pc'[w] = pc[w]
  BY DEF Tick, Older, TypeOK, Session
<1>3. Suffices(w)
  BY DEF HoldSuffices
<1>4. Passed(s.hold) \in Nat /\ Passed(s.hold) + 1 >= s.hold
  BY <1>1 DEF Passed
<1>5. QED
  BY <1>1, <1>2, <1>3, <1>4 DEF Suffices, Connected, ConnectingPoints, TimedPoints

\* A fresh lock has all of its time.
LEMMA SufficesAcquire ==
    ASSUME TypeOK, HoldSuffices, NEW w \in Workers, Start(w) \/ Acquire(w)
    PROVE  Suffices(w)'
<1> USE DEF TypeOK
<1>1. Suffices(w) /\ session[w] \in Session
  BY DEF HoldSuffices
<1>2. CASE Start(w) \/ Search(w) \/ NoneFound(w)
  <2>1. pc'[w] \in {"search", "looking", "out"}
    BY <1>2 DEF Start, Search, NoneFound, Go, Leave
  <2>2. QED
    BY <2>1 DEF Suffices, ConnectingPoints, Connected
<1>3. CASE Choose(w)
  <2>1. PICK a \in Choices(w), n \in Stored(LockTime) :
           session' = [session EXCEPT ![w] = [NoSession EXCEPT !.account = a, !.hold = n]]
    BY <1>3 DEF Choose
  <2>2. pc'[w] = "chosen" /\ session'[w].hold = n /\ session'[w].slow = 0
    BY <1>3, <2>1 DEF Choose, Go, NoSession
  <2>3. n \in Nat /\ n >= LockTime /\ LockTime \in Nat
    BY LockAssumption DEF Stored
  <2>4. QED
    BY <2>2, <2>3 DEF Suffices, ConnectingPoints, Connected
<1>4. CASE Lease(w)
  <2>1. /\ pc[w] = "chosen" /\ pc'[w] = "leased"
        /\ session'[w].hold = session[w].hold /\ session'[w].slow = session[w].slow
    BY <1>1, <1>4 DEF Lease, Enter, Go, Session
  <2>2. QED
    BY <1>1, <2>1 DEF Suffices, ConnectingPoints, Connected
<1>5. QED
  BY <1>2, <1>3, <1>4 DEF Acquire

\* Trouble leaves the lock of a session as it is.
LEMMA DisturbedMove ==
    ASSUME TypeOK, NEW w \in Workers, Disturbed(w)
    PROVE  /\ pc'[w] \in {"flood", "ban"}
           /\ session'[w].hold = session[w].hold /\ session'[w].spent = 0
           /\ session'[w].account = session[w].account
<1>1. session[w] \in Session
  BY DEF TypeOK
<1>2. CASE Enter(w, "ban")
  BY <1>1, <1>2 DEF TypeOK, Enter, Go, Session
<1>3. ASSUME NEW n \in Waits, Go(w, "flood"),
             session' = [session EXCEPT ![w].wait = n, ![w].spent = 0]
      PROVE  /\ pc'[w] = "flood"
             /\ session'[w].hold = session[w].hold /\ session'[w].spent = 0
             /\ session'[w].account = session[w].account
  <2>1. session' = [session EXCEPT ![w] = [session[w] EXCEPT !.wait = n, !.spent = 0]]
    BY <1>3 DEF TypeOK
  <2>2. QED
    BY <1>1, <1>3, <2>1 DEF TypeOK, Go, Session
<1>4. QED
  BY <1>2, <1>3 DEF Disturbed

\* The loop begins a task only while the session is young enough.
LEMMA SufficesUse ==
    ASSUME TypeOK, HoldSuffices, NEW w \in Workers, Use(w)
    PROVE  Suffices(w)'
<1> USE DEF TypeOK
<1> DEFINE s == session[w]
<1>1. /\ s \in Session /\ Suffices(w)
      /\ s.hold \in Nat /\ s.slow \in Nat /\ s.spent \in Nat /\ s.age \in Nat
      /\ SessionTime \in Nat /\ LockTime \in Nat
  BY SessionFields, LockAssumption DEF HoldSuffices
<1>2. ASSUME NEW p \in Points, Enter(w, p)
      PROVE  /\ pc'[w] = p /\ session'[w].hold = s.hold /\ session'[w].slow = s.slow
             /\ session'[w].age = s.age /\ session'[w].spent = 0
  BY <1>1, <1>2 DEF Enter, Go, Session
<1>3. Disturbed(w) => Suffices(w)'
  BY DisturbedMove DEF Suffices, ConnectingPoints, Connected
<1>4. {"ban", "connect", "between", "task", "done"} \subseteq Points
  BY DEF Points, TimedPoints
<1>5. CASE FindClient(w)
  BY <1>1, <1>2, <1>4, <1>5 DEF FindClient, Suffices, ConnectingPoints, Connected
<1>6. CASE Connect(w)
  BY <1>1, <1>2, <1>3, <1>4, <1>6 DEF Connect, Suffices, ConnectingPoints, Connected
<1>7. CASE NextTask(w)
  BY <1>1, <1>2, <1>4, <1>7
  DEF NextTask, SessionOver, Suffices, ConnectingPoints, Connected
<1>8. CASE Task(w)
  BY <1>1, <1>2, <1>3, <1>4, <1>8 DEF Task, Suffices, ConnectingPoints, Connected
<1>9. QED
  BY <1>5, <1>6, <1>7, <1>8 DEF Use

\* What is left of a lock covers its session, at every step.
LEMMA SufficesStep ==
    ASSUME TypeOK, HoldSuffices, [Next]_vars
    PROVE  HoldSuffices'
<1>1. ASSUME NEW v \in Workers, pc'[v] = pc[v], session'[v] = session[v]
      PROVE  Suffices(v)'
  BY <1>1 DEF HoldSuffices, Suffices
<1>2. CASE UNCHANGED vars
  BY <1>1, <1>2 DEF vars, pool, HoldSuffices
<1>3. CASE Tick
  BY <1>3, SufficesTick DEF HoldSuffices
<1>4. ASSUME NEW r \in Requests, RequestStep(r) PROVE HoldSuffices'
  BY <1>1, <1>4
  DEF RequestStep, AddCreate, AddSession, AddFails, AddFind, HoldSuffices
<1>5. ASSUME NEW w \in Workers, WorkerStep(w) \/ Crash(w) PROVE HoldSuffices'
  <2>1. Suffices(w)'
    <3>1. CASE Finish(w) \/ Crash(w)
      <4>1. pc'[w] = "out"
        BY <3>1 DEF Finish, Complete, RecordFlood, Ban, Crash, Leave, Go, TypeOK
      <4>2. QED
        BY <4>1 DEF Suffices, ConnectingPoints, Connected
    <3>2. QED
      BY <1>5, <3>1, SufficesAcquire, SufficesUse DEF WorkerStep
  <2>2. QED
    BY <1>1, <1>5, <2>1, OthersStay DEF HoldSuffices
<1>6. QED
  BY <1>2, <1>3, <1>4, <1>5 DEF Next

-----------------------------------------------------------------------------
(* One worker at an account                                                *)

\* Row locks are held from the choice to the commit.
LEMMA LockStep ==
    ASSUME TypeOK, HasAccount, LockIsChoice, [Next]_vars
    PROVE  LockIsChoice'
<1> USE DEF TypeOK
<1>1. ASSUME lock' = lock,
             \A v \in Workers :
                \/ pc'[v] = pc[v] /\ session'[v].account = session[v].account
                \/ pc[v] # "chosen" /\ pc'[v] # "chosen"
      PROVE  LockIsChoice'
  BY <1>1 DEF LockIsChoice, Chosen, Account
<1>2. CASE UNCHANGED vars
  BY <1>1, <1>2 DEF vars, pool
<1>3. CASE Tick
  BY <1>1, <1>3, TickMove DEF Tick
<1>4. ASSUME NEW r \in Requests, RequestStep(r) PROVE LockIsChoice'
  BY <1>1, <1>4 DEF RequestStep, AddCreate, AddSession, AddFails, AddFind
<1>5. ASSUME NEW w \in Workers, WorkerStep(w) \/ Crash(w) PROVE LockIsChoice'
  <2>1. ASSUME NEW v \in Workers, v # w
        PROVE  pc'[v] = pc[v] /\ session'[v] = session[v]
    BY <1>5, <2>1, OthersStay
  <2>2. CASE Start(w) \/ Search(w) \/ NoneFound(w)
    <3>1. lock' = lock /\ pc[w] # "chosen" /\ pc'[w] # "chosen"
      BY <2>2 DEF Start, Search, NoneFound, Go, Leave
    <3>2. QED
      BY <1>1, <2>1, <3>1
  <2>3. CASE Use(w)
    <3>1. lock' = lock /\ pc[w] # "chosen"
      BY <2>3 DEF Use, FindClient, Connect, NextTask, Task
    <3>2. pc'[w] # "chosen"
      BY <2>3, DisturbedMove DEF Use, FindClient, Connect, NextTask, Task, Enter, Go
    <3>3. QED
      BY <1>1, <2>1, <3>1, <3>2
  <2>4. CASE Finish(w)
    <3>1. lock' = lock /\ pc[w] # "chosen" /\ pc'[w] # "chosen"
      BY <2>4 DEF Finish, Complete, RecordFlood, Ban, Go, Leave
    <3>2. QED
      BY <1>1, <2>1, <3>1
  <2>5. CASE Choose(w)
    <3>1. PICK a \in Choices(w), n \in Stored(LockTime) :
             /\ lock' = [lock EXCEPT ![a] = w]
             /\ session' = [session EXCEPT ![w] = [NoSession EXCEPT !.account = a, !.hold = n]]
      BY <2>5 DEF Choose
    <3>2. /\ a \in Accounts /\ lock[a] = NoWorker /\ pc[w] = "looking"
          /\ pc'[w] = "chosen" /\ session'[w].account = a
      BY <2>5, <3>1, SessionFields DEF Choose, Choices, Go, NoSession
    <3>3. QED
      BY <2>1, <3>1, <3>2, MarkersAssumption DEF LockIsChoice, Chosen, Account
  <2>6. CASE Lease(w) \/ Crash(w)
    <3>1. pc'[w] # "chosen"
      BY <2>6 DEF Lease, Crash, Enter, Leave, Go
    <3>2. lock' = [a \in Accounts |-> IF lock[a] = w THEN NoWorker ELSE lock[a]]
      BY <2>6 DEF Lease, Crash, Unlock
    <3>3. QED
      BY <2>1, <3>1, <3>2, MarkersAssumption DEF LockIsChoice, Chosen, Account
  <2>7. QED
    BY <1>5, <2>2, <2>3, <2>4, <2>5, <2>6 DEF WorkerStep, Acquire
<1>6. QED
  BY <1>2, <1>3, <1>4, <1>5 DEF Next

Clean(a) == OneSession(a) /\ RestInsideLock(a)

\* A step that writes no usage row of an account and brings nobody to it.
LEMMA QuietKeeps ==
    ASSUME NEW a \in Accounts, Clean(a), untils'[a] = untils[a], cool'[a] = cool[a],
           \A v \in Workers :
              /\ Holds(v, a)' => Holds(v, a) /\ session'[v].hold = session[v].hold
              /\ Chosen(v, a)' => Chosen(v, a) /\ session'[v].hold = session[v].hold
              /\ Sees(v, a)' => Sees(v, a) /\ (a \in misled[v] => a \in misled'[v])
    PROVE  Clean(a)'
BY DEF Clean, OneSession, RestInsideLock, Guarded

\* An account nobody is at, and which need not rest, is clean.
LEMMA LeftIsClean ==
    ASSUME NEW a \in Accounts, cool'[a] = 0,
           \A v \in Workers : ~Holds(v, a)' /\ ~Chosen(v, a)'
    PROVE  Clean(a)'
BY DEF Clean, OneSession, RestInsideLock

\* What somebody holds, or what still has to rest, nobody has chosen, and
\* whoever sees it free was misled.
LEMMA TakenIsGuarded ==
    ASSUME TypeOK, NEW a \in Accounts, Clean(a),
           cool[a] # 0 \/ \E v \in Workers : Holds(v, a)
    PROVE  Guarded(a) /\ \E n \in untils[a] : n > 0
<1>1. CASE cool[a] # 0
  <2>1. cool[a] > 0 /\ cool[a] \in Nat /\ untils[a] \subseteq Nat
    BY <1>1 DEF TypeOK
  <2>2. Guarded(a) /\ \E n \in untils[a] : n >= cool[a]
    BY <2>1 DEF Clean, RestInsideLock
  <2>3. ASSUME NEW n \in untils[a], n >= cool[a] PROVE n > 0
    BY <2>1, <2>3
  <2>4. QED
    BY <2>2, <2>3
<1>2. CASE \E v \in Workers : Holds(v, a)
  BY <1>2 DEF Clean, OneSession
<1>3. QED
  BY <1>1, <1>2

\* What the others do at an account when one worker moves.
LEMMA OthersAt ==
    ASSUME TypeOK, NEW w \in Workers, WorkerStep(w) \/ Crash(w),
           NEW v \in Workers, v # w, NEW a \in Accounts
    PROVE  /\ Holds(v, a)' <=> Holds(v, a)
           /\ Chosen(v, a)' <=> Chosen(v, a)
           /\ Sees(v, a)' <=> Sees(v, a)
           /\ session'[v] = session[v]
<1>1. pc'[v] = pc[v] /\ session'[v] = session[v]
  BY OthersStay
<1>2. QED
  BY <1>1 DEF Holds, Chosen, Sees, Account

\* The steps that neither choose nor record leave every account as clean.
LEMMA CleanMove ==
    ASSUME TypeOK, InNoDoubt, NEW w \in Workers, Start(w) \/ NoneFound(w) \/ Use(w)
    PROVE  InNoDoubt'
<1> USE DEF TypeOK
<1>1. /\ UNCHANGED <<untils, cool, doubted>>
      /\ \A v \in Workers : v # w => misled'[v] = misled[v]
  BY DEF Start, NoneFound, Misled, Use, FindClient, Connect, NextTask, Task, history
<1>2. ASSUME NEW a \in Accounts
      PROVE  /\ Holds(w, a)' => Holds(w, a) /\ session'[w].hold = session[w].hold
             /\ ~Chosen(w, a)' /\ ~Sees(w, a)'
  <2>1. CASE Start(w) \/ NoneFound(w)
    BY <2>1
    DEF Start, NoneFound, Leave, Go, Holds, Chosen, Sees, HoldingPoints, Connected
  <2>2. CASE Use(w)
    <3>1. pc[w] \in HoldingPoints
      BY <2>2 DEF Use, FindClient, Connect, NextTask, Task, HoldingPoints, Connected
    <3>2. session'[w].account = session[w].account /\ session'[w].hold = session[w].hold
      BY <2>2, DisturbedMove DEF Use, FindClient, Connect, NextTask, Task, Enter, Session
    <3>3. pc'[w] \notin {"looking", "chosen"}
      BY <2>2, DisturbedMove DEF Use, FindClient, Connect, NextTask, Task, Enter, Go
    <3>4. QED
      BY <3>1, <3>2, <3>3 DEF Holds, Chosen, Sees, Account
  <2>3. QED
    BY <2>1, <2>2
<1>3. ASSUME NEW a \in Accounts \ doubted PROVE Clean(a)'
  <2>1. Clean(a)
    BY DEF InNoDoubt, Clean
  <2>2. ASSUME NEW v \in Workers, v # w
        PROVE  /\ Holds(v, a)' => Holds(v, a) /\ session'[v].hold = session[v].hold
               /\ Chosen(v, a)' => Chosen(v, a) /\ session'[v].hold = session[v].hold
               /\ Sees(v, a)' => Sees(v, a) /\ misled'[v] = misled[v]
    BY <1>1, <2>2, OthersAt DEF WorkerStep, Acquire
  <2>3. QED
    BY <1>1, <1>2, <2>1, <2>2, QuietKeeps
<1>4. QED
  BY <1>1, <1>3 DEF InNoDoubt, Clean

\* Locks, waits and what a session believes of them age together, and a lock
\* that runs out puts its account in doubt.
LEMMA CleanTick ==
    ASSUME TypeOK, InNoDoubt, Tick
    PROVE  InNoDoubt'
<1>1. ASSUME NEW w \in Workers
      PROVE  /\ pc'[w] = pc[w] /\ session'[w].account = session[w].account
             /\ session'[w].free = session[w].free
             /\ session'[w].hold = Passed(session[w].hold)
  BY TickMove
<1>2. ASSUME NEW w \in Workers, NEW a \in Accounts
      PROVE  /\ Holds(w, a)' <=> Holds(w, a)
             /\ Chosen(w, a)' <=> Chosen(w, a)
             /\ Sees(w, a)' <=> Sees(w, a)
  BY <1>1 DEF Holds, Chosen, Sees, Account
<1>3. misled' = misled
  BY DEF Tick
<1>4. ASSUME NEW a \in Accounts, a \notin doubted' PROVE Clean(a)'
  <2>1. /\ untils'[a] = {Passed(n) : n \in untils[a]} /\ cool'[a] = Passed(cool[a])
        /\ untils[a] \subseteq Nat /\ cool[a] \in Nat
    BY DEF Tick, TypeOK
  <2>2. a \notin doubted /\ Clean(a)
    BY <1>4 DEF Tick, InNoDoubt, Clean
  <2>3. Guarded(a)' <=> Guarded(a)
    BY <1>2, <1>3 DEF Guarded
  <2>4. ASSUME NEW w \in Workers, Chosen(w, a) \/ Holds(w, a)
        PROVE  session'[w].hold > 0
    <3>1. ~(session[w].hold <= 1) /\ session[w].hold \in Nat
      BY <1>4, <2>4, SessionFields DEF Tick, TypeOK
    <3>2. QED
      BY <1>1, <3>1 DEF Passed
  <2>5. ASSUME NEW w \in Workers, Holds(w, a)
        PROVE  session'[w].hold \in untils'[a] /\ cool'[a] = 0
    BY <1>1, <2>1, <2>2, <2>5 DEF Clean, OneSession, Passed
  <2>6. OneSession(a)'
    BY <1>2, <2>2, <2>3, <2>4, <2>5 DEF Clean, OneSession
  <2>7. RestInsideLock(a)'
    <3> SUFFICES ASSUME cool'[a] > 0
                 PROVE  (\E n \in untils'[a] : n >= cool'[a]) /\ Guarded(a)'
      BY DEF RestInsideLock
    <3>1. cool[a] > 0 /\ cool'[a] = cool[a] - 1
      BY <2>1 DEF Passed
    <3>2. PICK n \in untils[a] : n >= cool[a]
      BY <2>2, <3>1 DEF Clean, RestInsideLock
    <3>3. Passed(n) \in untils'[a] /\ Passed(n) >= cool'[a]
      BY <2>1, <3>1, <3>2 DEF Passed
    <3>4. QED
      BY <2>2, <2>3, <3>1, <3>3 DEF Clean, RestInsideLock
  <2>8. QED
    BY <2>6, <2>7 DEF Clean
<1>5. QED
  BY <1>4 DEF InNoDoubt, Clean

\* A search sees free what somebody holds, or what has to rest, only over a tie.
LEMMA CleanSearch ==
    ASSUME TypeOK, InNoDoubt, NEW w \in Workers, Search(w)
    PROVE  InNoDoubt'
<1> USE DEF TypeOK
<1>1. PICK S \in SeenFree : /\ session' = [session EXCEPT ![w].free = S]
                            /\ Misled(w, S \cap Tied)
  BY DEF Search
<1>2. /\ UNCHANGED <<untils, cool, doubted>>
      /\ pc[w] = "search" /\ pc'[w] = "looking" /\ session'[w].free = S
      /\ misled' = [misled EXCEPT ![w] = S \cap Tied]
  <2>1. session[w] \in Session /\ session' = [session EXCEPT ![w] = [session[w] EXCEPT !.free = S]]
    BY <1>1
  <2>2. session'[w].free = S
    BY <2>1 DEF Session
  <2>3. QED
    BY <1>1, <2>2 DEF Search, Go, Misled
<1>3. ASSUME NEW a \in Accounts \ doubted PROVE Clean(a)'
  <2>1. Clean(a)
    BY DEF InNoDoubt, Clean
  <2>2. ASSUME NEW v \in Workers
        PROVE  /\ Holds(v, a)' <=> Holds(v, a)
               /\ Chosen(v, a)' <=> Chosen(v, a)
               /\ Sees(v, a)' => Sees(v, a) \/ (v = w /\ a \in S)
               /\ session'[v].hold = session[v].hold
    <3>1. CASE v = w
      <4>1. session[w] \in Session /\ session' = [session EXCEPT ![w] = [session[w] EXCEPT !.free = S]]
        BY <1>1
      <4>2. session'[w].hold = session[w].hold
        BY <4>1 DEF Session
      <4>3. QED
        BY <1>2, <3>1, <4>2 DEF Holds, Chosen, Sees, HoldingPoints, Connected
    <3>2. CASE v # w
      BY <3>2, OthersAt DEF WorkerStep, Acquire
    <3>3. QED
      BY <3>1, <3>2
  <2>3. ASSUME cool[a] # 0 \/ \E v \in Workers : Holds(v, a) PROVE Guarded(a)'
    <3>1. Guarded(a) /\ \E n \in untils[a] : n > 0
      BY <2>1, <2>3, TakenIsGuarded
    <3>2. a \in S => a \in Tied
      BY <3>1 DEF SeenFree, Tied
    <3>3. ASSUME NEW v \in Workers
          PROVE  ~Chosen(v, a)' /\ (Sees(v, a)' => a \in misled'[v])
      BY <1>2, <2>2, <3>1, <3>2 DEF Guarded, Sees
    <3>4. QED
      BY <3>3 DEF Guarded
  <2>4. OneSession(a)'
    BY <1>2, <2>1, <2>2, <2>3 DEF Clean, OneSession
  <2>5. RestInsideLock(a)'
    BY <1>2, <2>1, <2>3 DEF Clean, RestInsideLock
  <2>6. QED
    BY <2>4, <2>5 DEF Clean
<1>4. QED
  BY <1>2, <1>3 DEF InNoDoubt, Clean

\* A search that was not misled chooses an account that nobody holds and that
\* has rested.
LEMMA CleanChoose ==
    ASSUME TypeOK, InNoDoubt, NEW w \in Workers, Choose(w)
    PROVE  InNoDoubt'
<1> USE DEF TypeOK
<1>1. PICK b \in Choices(w), n \in Stored(LockTime) :
         /\ session' = [session EXCEPT ![w] = [NoSession EXCEPT !.account = b, !.hold = n]]
         /\ doubted' = doubted \cup (misled[w] \cap {b})
  BY DEF Choose
<1>2. /\ Sees(w, b) /\ pc'[w] = "chosen" /\ n > 0
      /\ session'[w].account = b /\ session'[w].hold = n
      /\ UNCHANGED <<untils, cool>> /\ misled' = [misled EXCEPT ![w] = {}]
  <2>1. n > 0
    BY LockAssumption DEF Stored
  <2>2. b \in session[w].free
    BY DEF Choices
  <2>3. session'[w].account = b /\ session'[w].hold = n
    BY <1>1 DEF NoSession
  <2>4. QED
    BY <2>1, <2>2, <2>3 DEF Choose, Go, Sees, Misled
<1>3. ASSUME NEW a \in Accounts, a \notin doubted' PROVE Clean(a)'
  <2>1. a \notin doubted /\ Clean(a)
    BY <1>1, <1>3 DEF InNoDoubt, Clean
  <2>2. /\ ~Holds(w, a)' /\ ~Sees(w, a)' /\ (Chosen(w, a)' <=> a = b)
    BY <1>2 DEF Holds, Sees, Chosen, HoldingPoints, Connected, Account
  <2>3. ASSUME NEW v \in Workers, v # w
        PROVE  /\ Holds(v, a)' <=> Holds(v, a)
               /\ Chosen(v, a)' <=> Chosen(v, a)
               /\ Sees(v, a)' <=> Sees(v, a)
               /\ session'[v] = session[v] /\ misled'[v] = misled[v]
    BY <1>2, <2>3, OthersAt DEF WorkerStep, Acquire
  <2>4. CASE a # b
    BY <1>2, <2>1, <2>2, <2>3, <2>4, QuietKeeps
  <2>5. CASE a = b
    <3>1. a \notin misled[w]
      BY <1>1, <1>3, <2>5
    <3>2. ~Guarded(a)
      BY <1>2, <2>5, <3>1 DEF Guarded
    <3>3. cool[a] = 0 /\ \A v \in Workers : ~Holds(v, a)
      BY <2>1, <3>2, TakenIsGuarded
    <3>4. \A v \in Workers : Chosen(v, a)' => session'[v].hold > 0
      BY <1>2, <2>1, <2>3 DEF Clean, OneSession
    <3>5. \A v \in Workers : ~Holds(v, a)'
      BY <2>2, <2>3, <3>3
    <3>6. QED
      BY <1>2, <3>3, <3>4, <3>5 DEF Clean, OneSession, RestInsideLock
  <2>6. QED
    BY <2>4, <2>5
<1>4. QED
  BY <1>3 DEF InNoDoubt, Clean

\* The new holder was the only one to choose the account, and whoever still
\* sees it free is misled by this.
LEMMA CleanLease ==
    ASSUME TypeOK, HasAccount, LockIsChoice, InNoDoubt, NEW w \in Workers, Lease(w)
    PROVE  InNoDoubt'
<1> USE DEF TypeOK
<1> DEFINE b == Account(w)
           n == session[w].hold
<1>1. /\ pc[w] = "chosen" /\ b \in Accounts /\ Chosen(w, b) /\ lock[b] = w
      /\ n \in Nat /\ session[w] \in Session
  BY SessionFields DEF Lease, HasAccount, Chosen, LockIsChoice
<1>2. /\ pc'[w] = "leased" /\ session'[w].account = b /\ session'[w].hold = n
      /\ UNCHANGED <<cool, doubted>>
  BY <1>1 DEF Lease, Enter, Go, Account, Session
<1>3. /\ n \in untils'[b] /\ \A a \in Accounts : a # b => untils'[a] = untils[a]
      /\ \A v \in Workers : misled'[v] = IF n > 0 /\ Sees(v, b) THEN misled[v] \cup {b} ELSE misled[v]
  BY <1>1 DEF Lease, Record
<1>4. ASSUME NEW a \in Accounts \ doubted PROVE Clean(a)'
  <2>1. Clean(a)
    BY DEF InNoDoubt, Clean
  <2>2. /\ ~Chosen(w, a)' /\ ~Sees(w, a)' /\ (Holds(w, a)' <=> a = b)
    BY <1>2 DEF Holds, Sees, Chosen, HoldingPoints, Account
  <2>3. ASSUME NEW v \in Workers, v # w
        PROVE  /\ Holds(v, a)' <=> Holds(v, a)
               /\ Chosen(v, a)' <=> Chosen(v, a)
               /\ Sees(v, a)' <=> Sees(v, a)
               /\ session'[v] = session[v]
    BY <2>3, OthersAt DEF WorkerStep, Acquire
  <2>4. CASE a # b
    <3>1. \A v \in Workers : a \in misled[v] => a \in misled'[v]
      BY <1>3
    <3>2. QED
      BY <1>2, <1>3, <2>1, <2>2, <2>3, <2>4, <3>1, QuietKeeps
  <2>5. CASE a = b
    <3>1. n > 0
      BY <1>1, <2>1, <2>5 DEF Clean, OneSession
    <3>2. cool[a] = 0 /\ \A v \in Workers : ~Holds(v, a)
      BY <1>1, <2>1, <2>5, TakenIsGuarded DEF Guarded
    <3>3. \A v \in Workers : Holds(v, a)' => v = w
      BY <2>3, <3>2
    <3>4. \A v \in Workers : ~Chosen(v, a)'
      BY <1>1, <2>2, <2>3, <2>5 DEF LockIsChoice
    <3>5. \A v \in Workers : Sees(v, a)' => a \in misled'[v]
      BY <1>3, <2>2, <2>3, <2>5, <3>1
    <3>6. Guarded(a)'
      BY <3>4, <3>5 DEF Guarded
    <3>7. QED
      BY <1>2, <1>3, <2>5, <3>1, <3>2, <3>3, <3>4, <3>6 DEF Clean, OneSession, RestInsideLock
  <2>6. QED
    BY <2>4, <2>5
<1>5. QED
  BY <1>2, <1>4 DEF InNoDoubt, Clean

\* Where a worker has left, its account is clean when it was, or when nobody
\* else is at it.
LEMMA CleanLeave ==
    ASSUME TypeOK, HasAccount, InNoDoubt, NEW w \in Workers, Finish(w) \/ Crash(w)
    PROVE  InNoDoubt'
<1> USE DEF TypeOK
<1>1. pc'[w] = "out" /\ doubted' = doubted \ LeftBy(w)
  BY DEF Finish, Complete, RecordFlood, Ban, Crash, Leave, Go
<1>2. ASSUME NEW v \in Workers, v # w, NEW a \in Accounts
      PROVE  /\ Holds(v, a)' <=> Holds(v, a)
             /\ Chosen(v, a)' <=> Chosen(v, a)
             /\ Sees(v, a)' <=> Sees(v, a)
             /\ session'[v] = session[v]
  BY <1>2, OthersAt DEF WorkerStep
<1>3. \A a \in Accounts : ~Holds(w, a)' /\ ~Chosen(w, a)' /\ ~Sees(w, a)'
  BY <1>1 DEF Holds, Sees, Chosen, HoldingPoints, Connected
<1>4. ASSUME NEW a \in LeftBy(w) PROVE a \in Accounts /\ Clean(a)'
  <2>1. /\ a \in Accounts /\ cool'[a] = 0
        /\ \A v \in Workers \ {w} : ~Chosen(v, a) /\ ~Holds(v, a)
    BY DEF LeftBy
  <2>2. \A v \in Workers : ~Holds(v, a)' /\ ~Chosen(v, a)'
    BY <1>2, <1>3, <2>1
  <2>3. QED
    BY <2>1, <2>2, LeftIsClean
<1>5. ASSUME NEW a \in Accounts \ doubted, untils'[a] = untils[a], cool'[a] = cool[a],
             \A v \in Workers : v # w => (a \in misled[v] => a \in misled'[v])
      PROVE  Clean(a)'
  <2>1. Clean(a)
    BY DEF InNoDoubt, Clean
  <2>2. QED
    BY <1>2, <1>3, <1>5, <2>1, QuietKeeps
<1>6. CASE Ban(w) \/ Crash(w)
  <2>1. UNCHANGED <<untils, cool>> /\ \A v \in Workers : v # w => misled'[v] = misled[v]
    BY <1>6 DEF Ban, Crash, Misled
  <2>2. QED
    BY <1>1, <1>4, <1>5, <2>1 DEF InNoDoubt, Clean
<1>7. ASSUME NEW b \in Accounts, NEW n \in Nat, Record(b, n), Holds(w, b),
             \/ cool' = cool
             \/ \E c \in Nat : cool' = [cool EXCEPT ![b] = c] /\ n >= c
      PROVE  InNoDoubt'
  <2>1. /\ n \in untils'[b] /\ \A a \in Accounts : a # b => untils'[a] = untils[a]
        /\ \A v \in Workers : misled'[v] = IF n > 0 /\ Sees(v, b) THEN misled[v] \cup {b} ELSE misled[v]
        /\ \A a \in Accounts : a # b => cool'[a] = cool[a]
    BY <1>7 DEF Record
  <2>2. ASSUME NEW a \in Accounts \ doubted, a # b PROVE Clean(a)'
    BY <1>5, <2>1, <2>2
  <2>3. ASSUME b \notin doubted PROVE Clean(b)'
    <3>1. /\ cool[b] = 0 /\ Guarded(b)
          /\ \A v \in Workers \ {w} : ~Holds(v, b)
      BY <1>7, <2>3 DEF InNoDoubt, OneSession
    <3>2. \A v \in Workers : ~Holds(v, b)' /\ ~Chosen(v, b)'
      BY <1>2, <1>3, <1>7, <3>1 DEF Guarded
    <3>3. CASE cool'[b] = 0
      BY <1>7, <3>2, <3>3, LeftIsClean
    <3>4. CASE cool'[b] # 0
      <4>1. n >= cool'[b] /\ cool'[b] \in Nat
        BY <1>7, <3>1, <3>4
      <4>2. n > 0
        BY <3>4, <4>1
      <4>3. \A v \in Workers : Sees(v, b)' => b \in misled'[v]
        BY <1>2, <1>3, <1>7, <2>1, <4>2
      <4>4. QED
        BY <2>1, <3>2, <4>1, <4>3 DEF Clean, OneSession, RestInsideLock, Guarded
    <3>5. QED
      BY <3>3, <3>4
  <2>4. QED
    BY <1>1, <1>4, <2>2, <2>3 DEF InNoDoubt, Clean
<1>8. CASE Complete(w) \/ RecordFlood(w)
  <2>1. PICK b \in Accounts : b = Account(w) /\ Holds(w, b)
    BY <1>8 DEF Complete, RecordFlood, HasAccount, Holds, HoldingPoints
  <2>2. CASE Complete(w)
    <3>1. PICK n \in Stored(0) : Record(b, n)
      BY <2>1, <2>2 DEF Complete
    <3>2. n \in Nat /\ cool' = cool
      BY <2>2, StoredNat DEF Complete
    <3>3. QED
      BY <1>7, <2>1, <3>1, <3>2
  <2>3. CASE RecordFlood(w)
    <3>1. PICK n \in Stored(Rest(w)) : Record(b, n)
      BY <2>1, <2>3 DEF RecordFlood
    <3>2. session[w] \in Session
      OBVIOUS
    <3>3. session[w].wait \in Nat /\ Margin \in Nat
      BY <3>2, WaitNat
    <3>4. n \in Nat /\ n >= session[w].wait
      BY <3>3 DEF Stored, Rest
    <3>5. cool' = [cool EXCEPT ![b] = session[w].wait]
      BY <2>1, <2>3 DEF RecordFlood
    <3>6. QED
      BY <1>7, <2>1, <3>1, <3>3, <3>4, <3>5
  <2>4. QED
    BY <1>8, <2>2, <2>3
<1>9. QED
  BY <1>6, <1>8 DEF Finish

\* The invariant of the pool is inductive.
LEMMA PoolStep ==
    ASSUME PoolInv, [Next]_vars
    PROVE  PoolInv'
<1> USE DEF PoolInv
<1>1. TypeOK' /\ HasAccount' /\ LockIsChoice' /\ HoldSuffices'
  BY TypeStep, LockStep, SufficesStep
<1>2. ASSUME UNCHANGED <<untils, cool, pc, session, misled, doubted>> PROVE InNoDoubt'
  <2>1. ASSUME NEW a \in Accounts \ doubted PROVE Clean(a)'
    <3>1. Clean(a)
      BY DEF InNoDoubt, Clean
    <3>2. QED
      BY <1>2, <3>1, QuietKeeps DEF Holds, Chosen, Sees, Account
  <2>2. QED
    BY <1>2, <2>1 DEF InNoDoubt, Clean
<1>3. ASSUME UNCHANGED vars PROVE InNoDoubt'
  BY <1>2, <1>3 DEF vars, pool, history
<1>4. ASSUME Tick PROVE InNoDoubt'
  BY <1>4, CleanTick
<1>5. ASSUME NEW r \in Requests, RequestStep(r) PROVE InNoDoubt'
  BY <1>2, <1>5 DEF RequestStep, AddCreate, AddSession, AddFails, AddFind, history
<1>6. ASSUME NEW w \in Workers, WorkerStep(w) \/ Crash(w) PROVE InNoDoubt'
  BY <1>6, CleanMove, CleanSearch, CleanChoose, CleanLease, CleanLeave
  DEF WorkerStep, Acquire
<1>7. QED
  BY <1>1, <1>3, <1>4, <1>5, <1>6 DEF Next

\* It holds of an empty pool.
LEMMA PoolInit == Init => PoolInv
<1> SUFFICES ASSUME Init PROVE PoolInv
  OBVIOUS
<1>1. \A w \in Workers : pc[w] = "out"
  BY DEF Init
<1>2. \A w \in Workers : Suffices(w)
  BY <1>1 DEF Suffices, ConnectingPoints, Connected
<1>3. \A a \in Accounts : OneSession(a) /\ RestInsideLock(a)
  BY <1>1 DEF Init, OneSession, RestInsideLock, Holds, Chosen, HoldingPoints, Connected
<1>4. HasAccount /\ LockIsChoice
  BY <1>1, MarkersAssumption
  DEF Init, HasAccount, LockIsChoice, Chosen, HoldingPoints, Connected
<1>5. QED
  BY <1>2, <1>3, <1>4, TypeInit DEF PoolInv, HoldSuffices, InNoDoubt

\* The inductive invariant of the leases, whatever the time a session takes:
\* outside of the doubt that a misled search or a lock that ran out leaves, a
\* lock of a session, and a flood wait, stand among the newest rows of their
\* account and keep every search away that is not misled.
THEOREM PoolInvariant == Spec => []PoolInv
<1>1. PoolInv /\ [Next]_vars => PoolInv'
  BY PoolStep
<1>2. QED
  BY <1>1, PoolInit, PTL DEF Spec

\* However many workers lease however many accounts, and however long their
\* sessions take, two are connected with one account only after a search was
\* misled or a lock ran out, since somebody held it last.
THEOREM OneHolderAlways == Spec => []OneHolder
<1>1. TypeOK /\ HasAccount /\ InNoDoubt => OneHolder
  BY DEF HasAccount, InNoDoubt, OneSession, OneHolder, Holds, HoldingPoints
<1>2. PoolInv => OneHolder
  BY <1>1 DEF PoolInv
<1>3. QED
  BY <1>2, PoolInvariant, PTL

\* A session outlives its lock only when connecting and its last task take
\* longer than what a session is shorter than a lock: no other task is begun.
THEOREM SessionsInsideLocks == Spec => []SessionInsideLock
<1>1. ASSUME PoolInv, NEW w \in Workers, pc[w] = "task"
      PROVE  session[w].hold + session[w].spent + session[w].slow >= LockTime - SessionTime
  <2>1. /\ session[w].hold \in Nat /\ session[w].slow \in Nat /\ session[w].spent \in Nat
        /\ SessionTime \in Nat /\ LockTime \in Nat
    BY <1>1, SessionFields, LockAssumption DEF PoolInv, TypeOK
  <2>2. session[w].hold + session[w].slow + SessionTime + session[w].spent >= LockTime
    BY <1>1 DEF PoolInv, HoldSuffices, Suffices
  <2>3. QED
    BY <2>1, <2>2
<1>2. PoolInv => SessionInsideLock
  BY <1>1 DEF SessionInsideLock
<1>3. QED
  BY <1>2, PoolInvariant, PTL

\* Only Choose takes an account, and it takes one that its search saw free.
LEMMA ChoiceSeen ==
    ASSUME PoolInv, [Next]_vars, NEW w \in Workers, pc[w] = "looking", pc'[w] = "chosen"
    PROVE  \E a \in Accounts : Sees(w, a) /\ session'[w].account = a
<1> USE DEF PoolInv, TypeOK
<1>1. Choose(w)
  <2>1. \A v \in Workers \ {w} : ~WorkerStep(v) /\ ~Crash(v)
    BY OthersStay
  <2>2. ~Tick /\ ~UNCHANGED vars /\ \A r \in Requests : ~RequestStep(r)
    BY DEF Tick, vars, pool, RequestStep, AddCreate, AddSession, AddFails, AddFind
  <2>3. WorkerStep(w) \/ Crash(w)
    BY <2>1, <2>2 DEF Next
  <2>4. ~Crash(w) /\ ~Finish(w) /\ ~Use(w) /\ ~Start(w) /\ ~Search(w) /\ ~Lease(w) /\ ~NoneFound(w)
    BY DEF Crash, Finish, Complete, RecordFlood, Ban, Use, FindClient, Connect, NextTask,
           Task, Start, Search, Lease, NoneFound, Leave, Go
  <2>5. QED
    BY <2>3, <2>4 DEF WorkerStep, Acquire
<1>2. PICK a \in Choices(w), n \in Stored(LockTime) :
         session' = [session EXCEPT ![w] = [NoSession EXCEPT !.account = a, !.hold = n]]
  BY <1>1 DEF Choose
<1>3. a \in Accounts /\ a \in session[w].free /\ session'[w].account = a
  BY <1>2, SessionFields DEF Choices, NoSession
<1>4. QED
  BY <1>3 DEF Sees

\* A search returns an account that a session has locked only when it was
\* misled, by a tie or by a lock committed after its snapshot, or when the
\* account was in doubt before.
THEOREM LocksAreSeen == Spec => LockSeen
<1>1. ASSUME PoolInv, [Next]_vars, NEW v \in Workers, NEW w \in Workers,
             pc[w] = "looking", pc'[w] = "chosen", Locks(v)
      PROVE  session'[w].account # Account(v) \/ Account(v) \in misled[w] \cup doubted
  <2>1. PICK a \in Accounts : Sees(w, a) /\ session'[w].account = a
    BY <1>1, ChoiceSeen
  <2>2. ASSUME a = Account(v), a \notin doubted PROVE a \in misled[w]
    <3>1. Holds(v, a)
      BY <1>1, <2>2 DEF Locks, Holds, HoldingPoints
    <3>2. Guarded(a)
      BY <1>1, <2>2, <3>1 DEF PoolInv, InNoDoubt, OneSession
    <3>3. QED
      BY <2>1, <3>2 DEF Guarded
  <2>3. QED
    BY <2>1, <2>2
<1>2. PoolInv /\ [Next]_vars =>
        [\A v, w \in Workers :
           pc[w] = "looking" /\ pc'[w] = "chosen" /\ Locks(v)
           => session'[w].account # Account(v) \/ Account(v) \in misled[w] \cup doubted]_vars
  BY <1>1
<1>3. QED
  BY <1>2, PoolInvariant, PTL DEF Spec, LockSeen

-----------------------------------------------------------------------------
(* add_client *)

\* Between the two transactions of a call its client has a row without a
\* session, and no other call is there with it.
CreatorInv ==
    /\ TypeOK /\ OneCreator
    /\ \A r \in Requests :
          /\ adding[r].step # "none" => adding[r].account \in Accounts
          /\ adding[r].step = "session" => clients[adding[r].account] = "bare"

\* What a call does keeps the others apart from its account.
LEMMA CreatorRequest ==
    ASSUME CreatorInv, NEW r \in Requests, RequestStep(r)
    PROVE  CreatorInv'
<1> USE DEF CreatorInv
<1>1. TypeOK'
  BY TypeRequest
<1>2. /\ adding \in [Requests -> Adding] /\ clients \in [Accounts -> {"absent", "bare", "ready"}]
      /\ NoAdd.step = "none"
  BY DEF TypeOK, NoAdd
<1>3. ASSUME NEW a \in Accounts, AddFind(r, a) PROVE CreatorInv'
  BY <1>1, <1>2, <1>3 DEF AddFind, OneCreator
<1>4. CASE AddFails(r)
  BY <1>1, <1>2, <1>4 DEF AddFails, OneCreator
<1>5. CASE AddSession(r)
  <2>1. \A q \in Requests : q # r => adding'[q] = adding[q]
    BY <1>2, <1>5 DEF AddSession
  <2>2. adding'[r].step = "none" /\ adding[r].account \in Accounts \cup {NoAccount}
    BY <1>2, <1>5 DEF AddSession, Adding
  <2>3. \A q \in Requests :
          q # r /\ adding[q].step = "session" => adding[q].account # adding[r].account
    BY <1>5 DEF AddSession, OneCreator
  <2>4. \A b \in Accounts : b # adding[r].account => clients'[b] = clients[b]
    BY <1>2, <1>5 DEF AddSession
  <2>5. \A q \in Requests : adding[q].step = "session" => adding[q].account \in Accounts
    OBVIOUS
  <2>6. QED
    BY <1>1, <2>1, <2>2, <2>3, <2>4, <2>5 DEF OneCreator
<1>6. CASE AddCreate(r)
  <2>1. CASE ~Creates(r)
    BY <1>1, <1>2, <1>6, <2>1 DEF AddCreate, Creates, OneCreator
  <2>2. CASE Creates(r)
    <3>1. /\ \A q \in Requests : q # r => adding'[q] = adding[q]
          /\ adding'[r].step = "session" /\ adding'[r].account = adding[r].account
      BY <1>2, <1>6, <2>2 DEF AddCreate, Creates, Adding
    <3>2. adding[r].account \in Accounts /\ clients[adding[r].account] = "absent"
      BY <1>6, <2>2 DEF AddCreate, Creates
    <3>3. /\ clients'[adding[r].account] = "bare"
          /\ \A b \in Accounts : b # adding[r].account => clients'[b] = clients[b]
      BY <1>2, <1>6, <2>2, <3>2 DEF AddCreate, Creates
    <3>4. \A q \in Requests : adding[q].step = "session" => adding[q].account # adding[r].account
      BY <3>2
    <3>5. QED
      BY <1>1, <3>1, <3>2, <3>3, <3>4 DEF OneCreator
  <2>3. QED
    BY <2>1, <2>2
<1>7. QED
  BY <1>3, <1>4, <1>5, <1>6 DEF RequestStep

\* It holds whatever requests come.
LEMMA CreatorInvariant == Spec => []CreatorInv
<1>1. Init => CreatorInv
  BY TypeInit DEF Init, CreatorInv, OneCreator, NoAdd
<1>2. CreatorInv /\ TypeOK' /\ [Next]_vars => CreatorInv'
  <2>1. CreatorInv /\ TypeOK' /\ UNCHANGED <<clients, adding>> => CreatorInv'
    BY DEF CreatorInv, OneCreator
  <2>2. ASSUME NEW w \in Workers, WorkerStep(w) \/ Crash(w)
        PROVE  UNCHANGED <<clients, adding>>
    <3>1. CASE Start(w) \/ Acquire(w)
      BY <3>1, Zenon DEF Start, Acquire, Search, Choose, NoneFound, Lease
    <3>2. CASE Use(w)
      BY <3>2, Zenon DEF Use, FindClient, Connect, NextTask, Task
    <3>3. CASE Finish(w) \/ Crash(w)
      BY <3>3, Zenon DEF Finish, Complete, RecordFlood, Ban, Crash
    <3>4. QED
      BY <2>2, <3>1, <3>2, <3>3 DEF WorkerStep
  <2>3. Tick \/ UNCHANGED vars => UNCHANGED <<clients, adding>>
    BY DEF Tick, vars, pool
  <2>4. QED
    BY <2>1, <2>2, <2>3, CreatorRequest DEF Next
<1>3. QED
  BY <1>1, <1>2, PoolTypeCorrect, PTL DEF Spec

\* OneCreator: one call creates the row of a client and goes on to store its
\* session, however many calls bring the same account at once.
THEOREM OneCreatorAlways == Spec => []OneCreator
<1>1. CreatorInv => OneCreator
  BY DEF CreatorInv
<1>2. QED
  BY <1>1, CreatorInvariant, PTL

-----------------------------------------------------------------------------
(* The pool implements AccountLeases                                       *)

\* A worker that has an account got it from a stored session, and between
\* the choice of an account and its commit the row lock keeps it from being
\* banned.
ChosenWorks ==
    \A w \in Workers :
        /\ pc[w] \in HoldingPoints \cup {"chosen", "ban"} => clients[Account(w)] = "ready"
        /\ pc[w] = "chosen" => ~banned[Account(w)]

\* add_client takes no session away, and bans nobody.
LEMMA RequestKeeps ==
    ASSUME TypeOK, NEW r \in Requests, RequestStep(r)
    PROVE  /\ UNCHANGED <<banned, untils, fresh, cool, pc, session>>
           /\ \A a \in Accounts : clients[a] = "ready" => clients'[a] = "ready"
<1>1. CASE AddCreate(r)
  BY <1>1 DEF AddCreate, Creates, TypeOK
<1>2. CASE AddSession(r)
  BY <1>2 DEF AddSession, TypeOK
<1>3. CASE AddFails(r)
  BY <1>3 DEF AddFails
<1>4. ASSUME NEW a \in Accounts, AddFind(r, a)
      PROVE  UNCHANGED <<clients, banned, untils, fresh, cool, pc, session>>
  BY <1>4 DEF AddFind
<1>5. QED
  BY <1>1, <1>2, <1>3, <1>4 DEF RequestStep

\* What a worker has after a step it had before, or has just chosen.
LEMMA KeepsAccount ==
    ASSUME TypeOK, NEW w \in Workers, WorkerStep(w) \/ Crash(w),
           pc'[w] \in HoldingPoints \cup {"chosen", "ban"}
    PROVE  \/ /\ pc[w] \in HoldingPoints \cup {"chosen"} /\ pc'[w] # "chosen"
              /\ session'[w].account = session[w].account
           \/ /\ Choose(w) /\ pc'[w] = "chosen" /\ session'[w].account \in Choices(w)
<1> USE DEF TypeOK, HoldingPoints, Connected
<1>1. session[w] \in Session
  OBVIOUS
<1>2. CASE Start(w) \/ Search(w) \/ NoneFound(w)
  BY <1>2 DEF Start, Search, NoneFound, Go, Leave
<1>3. CASE Choose(w)
  <2>1. PICK a \in Choices(w), n \in Stored(LockTime) :
           session' = [session EXCEPT ![w] = [NoSession EXCEPT !.account = a, !.hold = n]]
    BY <1>3 DEF Choose
  <2>2. session'[w].account = a /\ pc'[w] = "chosen"
    BY <1>3, <2>1 DEF Choose, Go, NoSession
  <2>3. QED
    BY <1>3, <2>2
<1>4. CASE Lease(w)
  BY <1>1, <1>4 DEF Lease, Enter, Go, Session
<1>5. CASE Use(w)
  <2>1. ASSUME NEW p, Enter(w, p)
        PROVE  session'[w].account = session[w].account /\ pc'[w] = p
    BY <1>1, <2>1 DEF Enter, Go, Session
  <2>2. Disturbed(w) => /\ session'[w].account = session[w].account
                        /\ pc'[w] \in {"flood", "ban"}
    BY DisturbedMove
  <2>3. QED
    BY <1>5, <2>1, <2>2 DEF Use, FindClient, Connect, NextTask, Task
<1>6. CASE Finish(w) \/ Crash(w)
  BY <1>6 DEF Finish, Complete, RecordFlood, Ban, Crash, Leave, Go
<1>7. QED
  BY <1>2, <1>3, <1>4, <1>5, <1>6 DEF WorkerStep, Acquire

\* Only Ban bans, and only an account nobody has locked.
LEMMA BansUnlocked ==
    ASSUME TypeOK, HasAccount, [Next]_vars, NEW a \in Accounts, banned'[a] # banned[a]
    PROVE  lock[a] = NoWorker
<1>1. ASSUME UNCHANGED banned PROVE FALSE
  BY <1>1
<1>2. UNCHANGED vars \/ Tick => UNCHANGED banned
  BY DEF vars, pool, Tick
<1>3. ASSUME NEW r \in Requests, RequestStep(r) PROVE UNCHANGED banned
  BY <1>3, RequestKeeps
<1>4. ASSUME NEW w \in Workers, WorkerStep(w) \/ Crash(w), ~Ban(w) PROVE UNCHANGED banned
  <2>1. Start(w) \/ Acquire(w) => UNCHANGED banned
    BY Zenon DEF Start, Acquire, Search, Choose, NoneFound, Lease
  <2>2. Use(w) => UNCHANGED banned
    BY Zenon DEF Use, FindClient, Connect, NextTask, Task
  <2>3. Complete(w) \/ RecordFlood(w) \/ Crash(w) => UNCHANGED banned
    BY Zenon DEF Complete, RecordFlood, Crash
  <2>4. QED
    BY <1>4, <2>1, <2>2, <2>3 DEF WorkerStep, Finish
<1>5. ASSUME NEW w \in Workers, Ban(w) PROVE lock[a] = NoWorker
  BY <1>5 DEF Ban, HasAccount, TypeOK
<1>6. QED
  BY <1>1, <1>2, <1>3, <1>4, <1>5 DEF Next

\* A stored session is never taken away.
LEMMA ReadyStays ==
    ASSUME TypeOK, [Next]_vars, NEW a \in Accounts, clients[a] = "ready"
    PROVE  clients'[a] = "ready"
<1>1. UNCHANGED vars \/ Tick => UNCHANGED clients
  BY DEF vars, pool, Tick
<1>2. ASSUME NEW w \in Workers, WorkerStep(w) \/ Crash(w) PROVE UNCHANGED clients
  <2>1. Start(w) \/ Acquire(w) => UNCHANGED clients
    BY Zenon DEF Start, Acquire, Search, Choose, NoneFound, Lease
  <2>2. Use(w) => UNCHANGED clients
    BY Zenon DEF Use, FindClient, Connect, NextTask, Task
  <2>3. Finish(w) \/ Crash(w) => UNCHANGED clients
    BY Zenon DEF Finish, Complete, RecordFlood, Ban, Crash
  <2>4. QED
    BY <1>2, <2>1, <2>2, <2>3 DEF WorkerStep
<1>3. QED
  BY <1>1, <1>2, RequestKeeps DEF Next

\* ChosenWorks is kept by every step.
LEMMA ChosenStep ==
    ASSUME TypeOK, HasAccount, LockIsChoice, ChosenWorks, [Next]_vars
    PROVE  ChosenWorks'
<1> DEFINE Had(v) == pc[v] \in HoldingPoints \cup {"chosen", "ban"}
           Works(v) == /\ Had(v) => clients[Account(v)] = "ready"
                       /\ pc[v] = "chosen" => ~banned[Account(v)]
<1>1. ASSUME NEW v \in Workers, Had(v), pc'[v] # "chosen" \/ pc[v] = "chosen",
             session'[v].account = session[v].account
      PROVE  Works(v)'
  <2>1. Account(v) \in Accounts /\ Account(v)' = Account(v)
    BY <1>1 DEF HasAccount, Account
  <2>2. clients[Account(v)] = "ready" /\ (pc[v] = "chosen" => ~banned[Account(v)])
    BY <1>1 DEF ChosenWorks
  <2>3. clients'[Account(v)] = "ready"
    BY <2>1, <2>2, ReadyStays
  <2>4. ASSUME pc[v] = "chosen" PROVE ~banned'[Account(v)]
    <3>1. lock[Account(v)] = v
      BY <2>1, <2>4 DEF LockIsChoice, Chosen
    <3>2. lock[Account(v)] # NoWorker
      BY <3>1, MarkersAssumption
    <3>3. banned'[Account(v)] = banned[Account(v)]
      BY <2>1, <3>2, BansUnlocked
    <3>4. QED
      BY <2>2, <2>4, <3>3
  <2>5. QED
    BY <1>1, <2>1, <2>3, <2>4
<1>2. ASSUME NEW v \in Workers, pc'[v] = pc[v], session'[v].account = session[v].account
      PROVE  Works(v)'
  <2>1. CASE Had(v)
    BY <1>1, <1>2, <2>1
  <2>2. CASE ~Had(v)
    BY <1>2, <2>2
  <2>3. QED
    BY <2>1, <2>2
<1>3. ASSUME UNCHANGED <<pc, session>> PROVE \A v \in Workers : Works(v)'
  BY <1>2, <1>3
<1>4. ASSUME Tick PROVE \A v \in Workers : Works(v)'
  <2>1. \A v \in Workers : session'[v].account = session[v].account /\ pc'[v] = pc[v]
    BY <1>4, TickMove
  <2>2. QED
    BY <1>2, <2>1
<1>5. ASSUME NEW w \in Workers, WorkerStep(w) \/ Crash(w) PROVE \A v \in Workers : Works(v)'
  <2>1. ASSUME NEW v \in Workers, v # w PROVE Works(v)'
    BY <1>2, <1>5, <2>1, OthersStay
  <2>2. ASSUME Had(w)' PROVE Works(w)'
    <3>1. CASE /\ pc[w] \in HoldingPoints \cup {"chosen"} /\ pc'[w] # "chosen"
               /\ session'[w].account = session[w].account
      BY <1>1, <3>1
    <3>2. CASE Choose(w) /\ pc'[w] = "chosen" /\ session'[w].account \in Choices(w)
      <4>1. Working(session'[w].account) /\ UNCHANGED <<clients, banned>>
        BY <3>2 DEF Choices, Choose
      <4>2. QED
        BY <4>1 DEF Working, Account
    <3>3. QED
      BY <1>5, <2>2, <3>1, <3>2, KeepsAccount
  <2>3. QED
    BY <2>1, <2>2
<1>6. \A v \in Workers : Works(v)'
  BY <1>3, <1>4, <1>5, RequestKeeps DEF Next, vars, pool
<1>7. QED
  BY <1>6 DEF ChosenWorks

\* The point a worker reaches with its account, by a step of a session.
LEMMA UseMoves ==
    ASSUME TypeOK, NEW w \in Workers, Use(w)
    PROVE  /\ pc[w] \in HoldingPoints /\ pc'[w] \in HoldingPoints \cup {"ban"}
           /\ session'[w].account = session[w].account
           /\ UNCHANGED <<clients, banned, cool>>
<1> USE DEF TypeOK, HoldingPoints, Connected
<1>1. ASSUME NEW p, Enter(w, p)
      PROVE  session'[w].account = session[w].account /\ pc'[w] = p
  <2>1. session[w] \in Session
    OBVIOUS
  <2>2. QED
    BY <1>1, <2>1 DEF Enter, Go, Session
<1>2. Disturbed(w) => /\ session'[w].account = session[w].account
                      /\ pc'[w] \in {"flood", "ban"}
  BY DisturbedMove
<1>3. QED
  BY <1>1, <1>2 DEF Use, FindClient, Connect, NextTask, Task

\* What a worker holds changes by its own steps.
LEMMA HoldingMove ==
    ASSUME TypeOK, NEW w \in Workers, WorkerStep(w) \/ Crash(w)
    PROVE  [v \in Workers |-> Held(v)]' = [[v \in Workers |-> Held(v)] EXCEPT ![w] = Held(w)']
<1>1. \A v \in Workers : v # w => Held(v)' = Held(v)
  BY OthersStay DEF Held, Account
<1>2. QED
  BY <1>1

\* The commit of a lease takes an account that is known, not banned, rested
\* and held by nobody.
LEMMA LeaseTakes ==
    ASSUME PoolInv, ChosenWorks, doubted = {}, NEW w \in Workers, Lease(w)
    PROVE  Account(w) \in Accounts /\ Leases!Take(w, Account(w))
<1> USE DEF PoolInv, TypeOK
<1> DEFINE a == Account(w)
<1>1. /\ pc[w] = "chosen" /\ pc'[w] = "leased" /\ a \in Accounts
      /\ session'[w].account = a /\ UNCHANGED <<clients, banned, cool>>
  <2>1. session[w] \in Session
    OBVIOUS
  <2>2. QED
    BY <2>1 DEF Lease, HasAccount, Enter, Go, Account, Session
<1>2. clients[a] = "ready" /\ ~banned[a]
  BY <1>1 DEF ChosenWorks
<1>3. cool[a] = 0 /\ \A v \in Workers : ~Holds(v, a)
  <2>1. Clean(a) /\ Chosen(w, a)
    BY <1>1 DEF InNoDoubt, Clean, Chosen
  <2>2. QED
    BY <1>1, <2>1, TakenIsGuarded DEF Guarded
<1>4. Held(w) = NoAccount /\ Held(w)' = a
  BY <1>1 DEF Held, Account, HoldingPoints, Connected
<1>5. \A v \in Workers : Held(v) # a
  BY <1>1, <1>3, MarkersAssumption DEF Held, Holds
<1>6. [v \in Workers |-> Held(v)]' = [[v \in Workers |-> Held(v)] EXCEPT ![w] = a]
  BY <1>4, HoldingMove DEF WorkerStep, Acquire
<1>7. QED
  BY <1>1, <1>2, <1>3, <1>4, <1>5, <1>6 DEF Leases!Take

\* Whatever ends a session returns its account, with the flood wait that was
\* recorded or with none.
LEMMA EndReturns ==
    ASSUME PoolInv, PoolInv', NEW w \in Workers, WorkerStep(w) \/ Crash(w),
           pc[w] \in HoldingPoints, pc'[w] \notin HoldingPoints,
           UNCHANGED <<clients, banned>>,
           cool' = [cool EXCEPT ![Account(w)] = cool'[Account(w)]]
    PROVE  Leases!Return(w)
<1>1. Account(w) \in Accounts /\ Account(w) # NoAccount
  BY MarkersAssumption DEF PoolInv, HasAccount
<1>2. Held(w) = Account(w) /\ Held(w)' = NoAccount
  BY DEF Held
<1>3. cool'[Account(w)] \in Nat
  BY <1>1 DEF PoolInv, TypeOK
<1>4. [v \in Workers |-> Held(v)]' = [[v \in Workers |-> Held(v)] EXCEPT ![w] = NoAccount]
  BY <1>2, HoldingMove DEF PoolInv
<1>5. [v \in Workers |-> Held(v)][w] = Account(w)
  BY <1>2
<1>6. QED
  BY <1>1, <1>3, <1>4, <1>5 DEF Leases!Return

\* A step that leaves a worker where its lease stands changes nothing of it.
LEMMA HoldingStays ==
    ASSUME TypeOK, NEW w \in Workers, WorkerStep(w) \/ Crash(w), Held(w)' = Held(w),
           UNCHANGED <<clients, banned, cool, doubted>>
    PROVE  UNCHANGED Leases!vars
<1>1. [v \in Workers |-> Held(v)]' = [v \in Workers |-> Held(v)]
  BY HoldingMove
<1>2. QED
  BY <1>1 DEF Leases!vars

\* The steps of a worker, on the leases.
LEMMA WorkerLeases ==
    ASSUME PoolInv, PoolInv', ChosenWorks, doubted = {}, doubted' = {},
           NEW w \in Workers, WorkerStep(w) \/ Crash(w)
    PROVE  Leases!Next \/ UNCHANGED Leases!vars
<1> USE DEF PoolInv
<1>1. CASE Lease(w)
  BY <1>1, LeaseTakes DEF Leases!Next
<1>2. CASE Start(w) \/ Search(w) \/ Choose(w) \/ NoneFound(w)
  <2>1. /\ pc[w] \notin HoldingPoints /\ pc'[w] \notin HoldingPoints
        /\ UNCHANGED <<clients, banned, cool>>
    BY <1>2 DEF TypeOK, Start, Search, Choose, NoneFound, Go, Leave, HoldingPoints, Connected
  <2>2. Held(w)' = Held(w)
    BY <2>1 DEF Held
  <2>3. QED
    BY <2>1, <2>2, HoldingStays
<1>3. CASE Use(w)
  <2>1. /\ pc[w] \in HoldingPoints /\ pc'[w] \in HoldingPoints \cup {"ban"}
        /\ session'[w].account = session[w].account
        /\ UNCHANGED <<clients, banned, cool>>
    BY <1>3, UseMoves
  <2>2. CASE pc'[w] \in HoldingPoints
    <3>1. Held(w)' = Held(w)
      BY <2>1, <2>2 DEF Held, Account
    <3>2. QED
      BY <2>1, <3>1, HoldingStays
  <2>3. CASE pc'[w] \notin HoldingPoints
    <3>1. cool' = [cool EXCEPT ![Account(w)] = cool'[Account(w)]]
      BY <2>1 DEF TypeOK
    <3>2. QED
      BY <2>1, <2>3, <3>1, EndReturns DEF Leases!Next
  <2>4. QED
    BY <2>2, <2>3
<1>4. CASE Complete(w) \/ RecordFlood(w)
  <2>1. /\ pc[w] \in HoldingPoints /\ pc'[w] = "out" /\ UNCHANGED <<clients, banned>>
        /\ cool' = cool \/ cool' = [cool EXCEPT ![Account(w)] = session[w].wait]
    BY <1>4 DEF TypeOK, Complete, RecordFlood, Leave, Go, HoldingPoints
  <2>2. cool' = [cool EXCEPT ![Account(w)] = cool'[Account(w)]]
    BY <2>1 DEF TypeOK, HasAccount
  <2>3. "out" \notin HoldingPoints
    BY DEF HoldingPoints, Connected
  <2>4. QED
    BY <2>1, <2>2, <2>3, EndReturns DEF Leases!Next
<1>5. CASE Ban(w)
  <2>1. /\ pc[w] = "ban" /\ pc'[w] = "out" /\ Account(w) \in Accounts
        /\ banned' = [banned EXCEPT ![Account(w)] = TRUE]
        /\ UNCHANGED <<clients, cool>>
    BY <1>5 DEF TypeOK, HasAccount, Ban, Leave, Go
  <2>2. Held(w)' = Held(w)
    BY <2>1 DEF Held, HoldingPoints, Connected
  <2>3. [v \in Workers |-> Held(v)]' = [v \in Workers |-> Held(v)]
    BY <1>5, <2>2, HoldingMove
  <2>4. clients[Account(w)] = "ready"
    BY <2>1 DEF ChosenWorks
  <2>5. {a \in Accounts : banned[a]}' = {a \in Accounts : banned[a]} \cup {Account(w)}
    BY <2>1 DEF TypeOK
  <2>6. PICK a \in Accounts : a = Account(w)
    BY <2>1
  <2>7. Leases!Ban(a)
    BY <2>1, <2>3, <2>4, <2>5, <2>6 DEF Leases!Ban
  <2>8. QED
    BY <2>7 DEF Leases!Next
<1>6. CASE Crash(w)
  <2>1. pc'[w] = "out" /\ UNCHANGED <<clients, banned, cool>>
    BY <1>6 DEF TypeOK, Crash, Leave, Go
  <2>2. pc'[w] \notin HoldingPoints
    BY <2>1 DEF HoldingPoints, Connected
  <2>3. CASE pc[w] \in HoldingPoints
    <3>1. cool' = [cool EXCEPT ![Account(w)] = cool'[Account(w)]]
      BY <2>1 DEF TypeOK
    <3>2. QED
      BY <2>1, <2>2, <2>3, <3>1, EndReturns DEF Leases!Next
  <2>4. CASE pc[w] \notin HoldingPoints
    BY <2>1, <2>2, <2>4, HoldingStays DEF Held
  <2>5. QED
    BY <2>3, <2>4
<1>7. QED
  BY <1>1, <1>2, <1>3, <1>4, <1>5, <1>6 DEF WorkerStep, Acquire, Finish

\* add_client makes one account known, or changes nothing of the leases.
LEMMA RequestLeases ==
    ASSUME PoolInv, CreatorInv, doubted = {}, doubted' = {},
           NEW r \in Requests, RequestStep(r)
    PROVE  Leases!Next \/ UNCHANGED Leases!vars
<1> USE DEF PoolInv, TypeOK
<1>1. UNCHANGED <<banned, cool, pc, session>>
  BY RequestKeeps
<1>2. UNCHANGED <<[v \in Workers |-> Held(v)], {a \in Accounts : banned[a]}>>
  BY <1>1 DEF Held, Account
<1>3. CASE AddSession(r)
  <2>1. /\ adding[r].account \in Accounts /\ clients[adding[r].account] = "bare"
        /\ clients' = [clients EXCEPT ![adding[r].account] = "ready"]
    BY <1>3 DEF AddSession, CreatorInv
  <2>2. PICK a \in Accounts : a = adding[r].account
    BY <2>1
  <2>3. Leases!Enrol(a)
    BY <1>1, <1>2, <2>1, <2>2 DEF Leases!Enrol
  <2>4. QED
    BY <2>3 DEF Leases!Next
<1>4. CASE ~AddSession(r)
  <2>1. {a \in Accounts : clients[a] = "ready"}' = {a \in Accounts : clients[a] = "ready"}
    <3>1. CASE AddCreate(r)
      BY <3>1 DEF AddCreate, Creates
    <3>2. AddFails(r) \/ (\E a \in Accounts : AddFind(r, a)) => UNCHANGED clients
      BY DEF AddFails, AddFind
    <3>3. QED
      BY <1>4, <3>1, <3>2 DEF RequestStep
  <2>2. QED
    BY <1>1, <1>2, <2>1 DEF Leases!vars
<1>5. QED
  BY <1>3, <1>4

\* Every step of the pool is one of the leases or leaves them alone, while no
\* account is in doubt.
LEMMA LeasesStep ==
    PoolInv /\ PoolInv' /\ ChosenWorks /\ CreatorInv /\ [Next]_vars => [Leases!Step]_Leases!vars
<1> SUFFICES ASSUME PoolInv, PoolInv', ChosenWorks, CreatorInv, [Next]_vars,
                    doubted = {}, doubted' = {}
             PROVE  Leases!Next \/ UNCHANGED Leases!vars
  BY DEF Leases!Step
<1>1. CASE Tick
  <2>1. cool' = [a \in Accounts |-> IF cool[a] = 0 THEN 0 ELSE cool[a] - 1]
    BY <1>1 DEF Tick, Passed
  <2>2. \A v \in Workers : session'[v].account = session[v].account
    BY <1>1, TickMove DEF PoolInv
  <2>3. [v \in Workers |-> Held(v)]' = [v \in Workers |-> Held(v)]
    BY <1>1, <2>2 DEF Tick, Held, Account
  <2>4. UNCHANGED <<clients, banned>>
    BY <1>1 DEF Tick
  <2>5. Leases!Pass
    BY <2>1, <2>3, <2>4 DEF Leases!Pass
  <2>6. QED
    BY <2>5 DEF Leases!Next
<1>2. CASE UNCHANGED vars
  BY <1>2 DEF vars, pool, history, Leases!vars, Held, Account
<1>3. QED
  BY <1>1, <1>2, RequestLeases, WorkerLeases DEF Next

\* KeepsLeases: the rows of usage, their times and the row locks of any number
\* of workers and requests implement AccountLeases while no account is in
\* doubt: an account is leased to one worker at a time, once its session is
\* stored, never after it was banned and not before its flood wait is over.
THEOREM ImplementsLeases == Spec => KeepsLeases
<1>1. Init => Leases!Init
  BY DEF Init, Leases!Init, Held, HoldingPoints, Connected
<1>2. Init => ChosenWorks
  BY DEF Init, ChosenWorks, HoldingPoints, Connected
<1>3. PoolInv /\ ChosenWorks /\ [Next]_vars => ChosenWorks'
  BY ChosenStep DEF PoolInv
<1>4. QED
  BY <1>1, <1>2, <1>3, PoolInvariant, CreatorInvariant, LeasesStep, PTL
  DEF Spec, KeepsLeases, Leases!Spec
=============================================================================
