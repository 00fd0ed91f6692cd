---------------------------- MODULE AccountPool ----------------------------
(***************************************************************************)
(* The pool of Telegram accounts: API requests add an account, a worker    *)
(* leases one for a session, and the rows of worker_account_usage say      *)
(* until when it is nobody else's.                                         *)
(*                                                                         *)
(* The newest row of an account decides, and created_at has seconds: rows  *)
(* of one second have no order.  A tick of the clock is the start of a     *)
(* second, and every time is how many ticks are left, so that the clock    *)
(* itself has no bound.  Older rows are never read and are not kept.       *)
(***************************************************************************)
EXTENDS Integers, FiniteSets

CONSTANTS
    Accounts,     \* telegram ids
    Workers,      \* worker processes
    Requests,     \* concurrent calls of add_client
    LockTime,     \* account_lock_hours
    SessionTime,  \* max_session_duration: half an hour less than the lock
    Waits,        \* flood waits Telegram may ask for
    Margin,       \* what get_session adds to a flood wait
    Lasts,        \* Lasts[p]: the bound on the ticks a worker spends at the point p
    NoAccount, NoWorker

\* Where a worker can be: outside a session, in get_session ("search",
\* "looking", "chosen"), in get_client ("leased", "connect"), in the loop of
\* start ("between" two tasks, in a "task"), or leaving the session.
TimedPoints == {"chosen", "leased", "connect", "between", "task", "done", "flood"}
Connected == {"between", "task"}
HoldingPoints == {"leased", "connect", "done", "flood"} \cup Connected
ConnectingPoints == {"chosen", "leased", "connect"}
Points == TimedPoints \cup {"out", "search", "looking", "ban"}

ASSUME LockAssumption == LockTime \in Nat \ {0} /\ SessionTime \in Nat
ASSUME WaitsAssumption == Waits \subseteq Nat /\ Margin \in Nat
ASSUME LastsAssumption == Lasts \in [TimedPoints -> Nat]
ASSUME MarkersAssumption == NoAccount \notin Accounts /\ NoWorker \notin Workers

\* The locals of a session: its account, what is left of the lock it took,
\* how long it took to connect, its age, the wait Telegram asked for, the
\* accounts its search saw free, and how long it has been at its point.
Session == [account : Accounts \cup {NoAccount}, hold : Nat, slow : Nat,
            age : 0 .. (SessionTime + 1), wait : Waits \cup {0},
            free : SUBSET Accounts, spent : Nat]
Adding == [account : Accounts \cup {NoAccount}, step : {"none", "create", "session"}]

VARIABLES
    clients, \* telegram_client: "absent", "bare" without session_string, "ready"
    banned,  \* the banned column of each account
    untils,  \* what is left of locked_until in the newest usage rows
    fresh,   \* whether those rows were created in this second
    cool,    \* what is left of the flood wait last recorded for an account
    lock,    \* who holds the row lock of a client
    pc, session, \* the point and the locals of each worker
    adding,  \* the add_client call of each request
    misled,  \* history: the accounts each search saw free over a tie of two
             \* rows of a second, or that were locked since its snapshot
    doubted  \* history: the accounts chosen by such a search or held longer
             \* than their lock, until nobody holds them and they are rested

pool == <<clients, banned, untils, fresh, cool, lock, pc, session, adding>>
history == <<misled, doubted>>
vars == <<pool, history>>

-----------------------------------------------------------------------------
(* Helpers *)

NoSession == [account |-> NoAccount, hold |-> 0, slow |-> 0, age |-> 0, wait |-> 0,
              free |-> {}, spent |-> 0]
NoAdd == [account |-> NoAccount, step |-> "none"]

Passed(n) == IF n = 0 THEN 0 ELSE n - 1

\* TIMESTAMP has no fraction: a time in the second half of a second is stored
\* as the next one.
Stored(n) == {n, n + 1}

\* banned = FALSE and session_string IS NOT NULL
\* Mutant: a banned client is found as well.
WorkingBanned(a) == clients[a] = "ready"
Working(a) == clients[a] = "ready" /\ ~banned[a]

\* latest_locked_until IS NULL OR latest_locked_until <= now, where any of
\* the newest rows may be the latest
\* Mutants: the rows are not looked at; a lock that ran out is one for ever.
SeenFreeUnlocked == SUBSET Accounts
SeenFreeNeverAgain == {{a \in Accounts : untils[a] = {}}}
SeenFree ==
    {S \in SUBSET Accounts :
        \A a \in Accounts : /\ a \in S => untils[a] = {} \/ 0 \in untils[a]
                            /\ a \notin S => \E n \in untils[a] : n > 0}

Account(w) == session[w].account
Holds(w, a) == pc[w] \in HoldingPoints /\ Account(w) = a
Sees(w, a) == pc[w] = "looking" /\ a \in session[w].free
Chosen(w, a) == pc[w] = "chosen" /\ Account(w) = a

\* a committed row of worker_account_usage, which no snapshot taken before has
Record(a, n) ==
    /\ untils' = [untils EXCEPT ![a] = IF fresh[a] THEN @ \cup {n} ELSE {n}]
    /\ fresh' = [fresh EXCEPT ![a] = TRUE]
    /\ misled' = [v \in Workers |->
                     IF n > 0 /\ Sees(v, a) THEN misled[v] \cup {a} ELSE misled[v]]

\* one row of a second is a lock that runs, another one a lock that is over
Tied == {a \in Accounts : 0 \in untils[a] /\ \E n \in untils[a] : n > 0}

\* the accounts that nobody but w is at and whose flood waits are over
LeftBy(w) ==
    {a \in Accounts : /\ cool'[a] = 0
                      /\ \A v \in Workers \ {w} : ~Chosen(v, a) /\ ~Holds(v, a)}
Unlock(w) == lock' = [a \in Accounts |-> IF lock[a] = w THEN NoWorker ELSE lock[a]]
Go(w, p) == pc' = [pc EXCEPT ![w] = p]
Enter(w, p) == Go(w, p) /\ session' = [session EXCEPT ![w].spent = 0]
Leave(w) == Go(w, "out") /\ session' = [session EXCEPT ![w] = NoSession]
Misled(w, S) == misled' = [misled EXCEPT ![w] = S]

Init ==
    /\ clients = [a \in Accounts |-> "absent"]
    /\ banned = [a \in Accounts |-> FALSE]
    /\ untils = [a \in Accounts |-> {}]
    /\ fresh = [a \in Accounts |-> FALSE]
    /\ cool = [a \in Accounts |-> 0]
    /\ lock = [a \in Accounts |-> NoWorker]
    /\ pc = [w \in Workers |-> "out"]
    /\ session = [w \in Workers |-> NoSession]
    /\ adding = [r \in Requests |-> NoAdd]
    /\ misled = [w \in Workers |-> {}]
    /\ doubted = {}

-----------------------------------------------------------------------------
(* The clock *)

Older(w) == [session[w] EXCEPT
                !.hold = Passed(@),
                !.slow = IF pc[w] \in ConnectingPoints THEN @ + 1 ELSE @,
                !.age = IF pc[w] \in Connected /\ @ <= SessionTime THEN @ + 1 ELSE @,
                !.spent = IF pc[w] \in TimedPoints THEN @ + 1 ELSE @]

Tick ==
    /\ \A w \in Workers : pc[w] \in TimedPoints => session[w].spent < Lasts[pc[w]]
    /\ untils' = [a \in Accounts |-> {Passed(n) : n \in untils[a]}]
    /\ fresh' = [a \in Accounts |-> FALSE]
    /\ cool' = [a \in Accounts |-> Passed(cool[a])]
    /\ session' = [w \in Workers |-> Older(w)]
    /\ doubted' = doubted \cup {a \in Accounts : \E w \in Workers :
                                 (Chosen(w, a) \/ Holds(w, a)) /\ session[w].hold <= 1}
    /\ UNCHANGED <<clients, banned, lock, pc, adding, misled>>

-----------------------------------------------------------------------------
(* add_client *)

\* an account that exists is an InvalidClient, which changes nothing
AddFind(r, a) ==
    /\ adding[r] = NoAdd /\ clients[a] = "absent"
    /\ adding' = [adding EXCEPT ![r] = [account |-> a, step |-> "create"]]
    /\ UNCHANGED <<clients, banned, untils, fresh, cool, lock, pc, session, history>>

\* create and commit; the second INSERT of an account is an IntegrityError
\* Mutant: the second INSERT goes through.
CreatesAnyway(r) == TRUE
Creates(r) == clients[adding[r].account] = "absent"
AddCreate(r) ==
    LET a == adding[r].account IN
    /\ adding[r].step = "create"
    /\ \/ /\ Creates(r)
          /\ clients' = [clients EXCEPT ![a] = "bare"]
          /\ adding' = [adding EXCEPT ![r].step = "session"]
       \/ /\ ~Creates(r)
          /\ adding' = [adding EXCEPT ![r] = NoAdd]
          /\ UNCHANGED clients
    /\ UNCHANGED <<banned, untils, fresh, cool, lock, pc, session, history>>

\* add_session, a transaction of its own
AddSession(r) ==
    /\ adding[r].step = "session" /\ lock[adding[r].account] = NoWorker
    /\ clients' = [clients EXCEPT ![adding[r].account] = "ready"]
    /\ adding' = [adding EXCEPT ![r] = NoAdd]
    /\ UNCHANGED <<banned, untils, fresh, cool, lock, pc, session, history>>

\* an error, or the end of the API process
AddFails(r) ==
    /\ adding[r] # NoAdd
    /\ adding' = [adding EXCEPT ![r] = NoAdd]
    /\ UNCHANGED <<clients, banned, untils, fresh, cool, lock, pc, session, history>>

-----------------------------------------------------------------------------
(* get_client and get_session *)

\* without a working client NoWorkingClientsFoundError ends the attempt
\* (run_worker sleeps a minute between two attempts, which only delays)
Start(w) ==
    /\ pc[w] = "out"
    /\ \E a \in Accounts : Working(a)
    /\ Go(w, "search")
    /\ UNCHANGED <<clients, banned, untils, fresh, cool, lock, session, adding, history>>

\* find_available_account: the subquery on worker_account_usage is a snapshot
Search(w) ==
    /\ pc[w] = "search"
    /\ \E S \in SeenFree :
          /\ session' = [session EXCEPT ![w].free = S]
          /\ Misled(w, S \cap Tied)
    /\ Go(w, "looking")
    /\ UNCHANGED <<clients, banned, untils, fresh, cool, lock, adding, doubted>>

\* ... and the client is read, and locked, as it is now; then locked_until
\* Mutant: a locked row is not skipped.
ChoicesUnlocked(w) == {a \in session[w].free : Working(a)}
Choices(w) == {a \in session[w].free : Working(a) /\ lock[a] = NoWorker}
Choose(w) ==
    /\ pc[w] = "looking"
    /\ \E a \in Choices(w), n \in Stored(LockTime) :
          /\ lock' = [lock EXCEPT ![a] = w]
          /\ session' = [session EXCEPT ![w] = [NoSession EXCEPT !.account = a, !.hold = n]]
          /\ doubted' = doubted \cup (misled[w] \cap {a})
    /\ Go(w, "chosen") /\ Misled(w, {})
    /\ UNCHANGED <<clients, banned, untils, fresh, cool, adding>>

\* nothing found: sleep and search again, or a TimeoutError
NoneFound(w) ==
    /\ pc[w] = "looking" /\ Choices(w) = {}
    /\ \/ Go(w, "search") /\ session' = [session EXCEPT ![w].free = {}]
       \/ Leave(w)
    /\ Misled(w, {})
    /\ UNCHANGED <<clients, banned, untils, fresh, cool, lock, adding, doubted>>

\* the usage row and the commit
Lease(w) ==
    /\ pc[w] = "chosen"
    /\ Record(Account(w), session[w].hold)
    /\ Enter(w, "leased")
    /\ Unlock(w)
    /\ UNCHANGED <<clients, banned, cool, adding, doubted>>

\* find_with_proxy: a client banned meanwhile is an InvalidClient
FindClient(w) ==
    /\ pc[w] = "leased"
    /\ Enter(w, IF banned[Account(w)] THEN "ban" ELSE "connect")
    /\ UNCHANGED <<clients, banned, untils, fresh, cool, lock, adding, history>>

\* A FloodWait, also the one made from a connection error, or a ClientBanned
Disturbed(w) ==
    \/ \E n \in Waits : /\ Go(w, "flood")
                        /\ session' = [session EXCEPT ![w].wait = n, ![w].spent = 0]
    \/ Enter(w, "ban")

Connect(w) ==
    /\ pc[w] = "connect"
    /\ Enter(w, "between") \/ Disturbed(w)
    /\ UNCHANGED <<clients, banned, untils, fresh, cool, lock, adding, history>>

\* Mutant: a session that never ends by itself.
SessionNeverOver(w) == FALSE
SessionOver(w) == session[w].age > SessionTime

\* the loop of start: break, or one more task
NextTask(w) ==
    /\ pc[w] = "between"
    /\ Enter(w, IF SessionOver(w) THEN "done" ELSE "task")
    /\ UNCHANGED <<clients, banned, untils, fresh, cool, lock, adding, history>>

Task(w) ==
    /\ pc[w] = "task"
    /\ Enter(w, "between") \/ Disturbed(w)
    /\ UNCHANGED <<clients, banned, untils, fresh, cool, lock, adding, history>>

\* usage_completed; the row's foreign key waits for the lock of the client
Complete(w) ==
    /\ pc[w] = "done" /\ lock[Account(w)] = NoWorker
    /\ \E n \in Stored(0) : Record(Account(w), n)
    /\ Leave(w)
    /\ UNCHANGED <<clients, banned, cool, lock, adding>>
    /\ doubted' = doubted \ LeftBy(w)

\* flood_wait: the account rests for the wait and a margin
Rest(w) == session[w].wait + Margin
RecordFlood(w) ==
    /\ pc[w] = "flood" /\ lock[Account(w)] = NoWorker
    /\ \E n \in Stored(Rest(w)) : Record(Account(w), n)
    /\ cool' = [cool EXCEPT ![Account(w)] = session[w].wait]
    /\ Leave(w)
    /\ UNCHANGED <<clients, banned, lock, adding>>
    /\ doubted' = doubted \ LeftBy(w)

\* InvalidClient: get_client marks the client banned
Ban(w) ==
    /\ pc[w] = "ban" /\ lock[Account(w)] = NoWorker
    /\ banned' = [banned EXCEPT ![Account(w)] = TRUE]
    /\ Leave(w)
    /\ UNCHANGED <<clients, untils, fresh, cool, lock, adding, misled>>
    /\ doubted' = doubted \ LeftBy(w)

\* the end of the process, or an error get_session does not know: the lock
\* it took stays
Crash(w) ==
    /\ pc[w] # "out"
    /\ Leave(w) /\ Misled(w, {})
    /\ Unlock(w)
    /\ UNCHANGED <<clients, banned, untils, fresh, cool, adding>>
    /\ doubted' = doubted \ LeftBy(w)

-----------------------------------------------------------------------------
Acquire(w) == Search(w) \/ Choose(w) \/ NoneFound(w) \/ Lease(w)
Use(w) == FindClient(w) \/ Connect(w) \/ NextTask(w) \/ Task(w)
Finish(w) == Complete(w) \/ RecordFlood(w) \/ Ban(w)
WorkerStep(w) == Start(w) \/ Acquire(w) \/ Use(w) \/ Finish(w)
RequestStep(r) == AddCreate(r) \/ AddSession(r) \/ AddFails(r) \/ \E a \in Accounts : AddFind(r, a)

Next ==
    \/ Tick
    \/ \E r \in Requests : RequestStep(r)
    \/ \E w \in Workers : WorkerStep(w) \/ Crash(w)

Spec == Init /\ [][Next]_vars

\* Time passes, the worker loop searches again and again (run_worker), and
\* its awaits return; a worker is not killed at each of its attempts.
Fairness ==
    /\ WF_vars(Tick)
    /\ \A w \in Workers : /\ WF_vars(WorkerStep(w))
                          /\ SF_vars(Search(w)) /\ SF_vars(Choose(w)) /\ SF_vars(Lease(w))
FairSpec == Spec /\ Fairness

-----------------------------------------------------------------------------
(* Properties                                                              *)

\* The tables and the locals of workers and requests have their types.
TypeOK ==
    /\ clients \in [Accounts -> {"absent", "bare", "ready"}]
    /\ banned \in [Accounts -> BOOLEAN]
    /\ untils \in [Accounts -> SUBSET Nat]
    /\ fresh \in [Accounts -> BOOLEAN]
    /\ cool \in [Accounts -> Nat]
    /\ lock \in [Accounts -> Workers \cup {NoWorker}]
    /\ pc \in [Workers -> Points]
    /\ session \in [Workers -> Session]
    /\ adding \in [Requests -> Adding]
    /\ misled \in [Workers -> SUBSET Accounts]
    /\ doubted \subseteq Accounts

\* No two workers are connected with the same account, as Telegram revokes an
\* authorization key that is used from two places, unless a search was misled
\* or a lock ran out under its session since somebody held the account last.
OneHolder ==
    \A v, w \in Workers :
        /\ pc[v] \in Connected /\ pc[w] \in Connected
        /\ Account(v) = Account(w) /\ Account(v) \notin doubted
        => v = w

\* A session begins a task only while its lock has the half hour left that a
\* session is shorter, less the time it took to connect: a session outlives
\* its lock only when connecting and its last task take longer than that.
SessionInsideLock ==
    \A w \in Workers : pc[w] = "task" =>
        session[w].hold + session[w].spent + session[w].slow >= LockTime - SessionTime

\* v works with an account and the lock that it took
Locks(v) == pc[v] \in {"leased", "connect"} \cup Connected /\ session[v].hold > 0

\* find_available_account overlooks the lock of a session under way only over
\* a tie, or when it was committed after the snapshot, or when the account
\* was in doubt before.
LockSeen ==
    [][\A v, w \in Workers :
         pc[w] = "looking" /\ pc'[w] = "chosen" /\ Locks(v)
         => session'[w].account # Account(v) \/ Account(v) \in misled[w] \cup doubted]_vars

\* The pool implements AccountLeases whenever no account is in doubt:
\* add_session makes an account known, the commit of Lease takes it, and
\* whatever ends the session, also a crash, returns it with the flood wait
\* that was recorded.
Held(w) == IF pc[w] \in HoldingPoints THEN Account(w) ELSE NoAccount
Leases == INSTANCE AccountLeases WITH
    known <- {a \in Accounts : clients[a] = "ready"},
    banned <- {a \in Accounts : banned[a]},
    holding <- [w \in Workers |-> Held(w)],
    rest <- cool,
    broken <- doubted # {}
KeepsLeases == Leases!Spec

\* One call creates the row of a client, and that call stores its session.
OneCreator ==
    \A r, s \in Requests :
        /\ adding[r].step = "session" /\ adding[s].step = "session"
        /\ adding[r].account = adding[s].account
        => r = s

\* A working account is leased again, whatever crashed while it held the lock.
AccountComesBack ==
    \A a \in Accounts :
        Working(a) ~> (\E w \in Workers : pc[w] = "leased" /\ Account(w) = a) \/ ~Working(a)

-----------------------------------------------------------------------------
(* The inductive invariant of AccountPool_proofs                           *)

\* A worker that has chosen an account has one ...
HasAccount ==
    \A w \in Workers :
        pc[w] \in HoldingPoints \cup {"chosen", "ban"} => Account(w) \in Accounts

\* ... and holds a row lock from its choice to its commit.
LockIsChoice ==
    \A w \in Workers, a \in Accounts : lock[a] = w <=> Chosen(w, a)

\* What is left of a lock, the time to connect and the age of the session add
\* up to the lock at least, until the session is over.
Suffices(w) ==
    LET s == session[w] IN
    /\ pc[w] \in ConnectingPoints => s.hold + s.slow >= LockTime
    /\ pc[w] \in Connected /\ s.age <= SessionTime => s.hold + s.slow + s.age >= LockTime
    /\ pc[w] = "task" => s.hold + s.slow + SessionTime + s.spent >= LockTime
HoldSuffices == \A w \in Workers : Suffices(w)

\* Nobody is about to take the account but by a search that was misled.
Guarded(a) ==
    \A w \in Workers : ~Chosen(w, a) /\ (Sees(w, a) => a \in misled[w])

\* The lock of a session is among the newest rows of its account, nobody else
\* holds the account, or is about to, ...
OneSession(a) ==
    \A w \in Workers :
        /\ Chosen(w, a) \/ Holds(w, a) => session[w].hold > 0
        /\ Holds(w, a) => /\ session[w].hold \in untils[a] /\ cool[a] = 0
                          /\ \A v \in Workers : Holds(v, a) => v = w
                          /\ Guarded(a)

\* ... and so does a flood wait that is not over.
RestInsideLock(a) ==
    cool[a] > 0 => (\E n \in untils[a] : n >= cool[a]) /\ Guarded(a)

InNoDoubt == \A a \in Accounts \ doubted : OneSession(a) /\ RestInsideLock(a)

PoolInv == TypeOK /\ HasAccount /\ LockIsChoice /\ HoldSuffices /\ InNoDoubt
=============================================================================
