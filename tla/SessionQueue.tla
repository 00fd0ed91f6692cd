---------------------------- MODULE SessionQueue ----------------------------
(***************************************************************************)
(* RabbitMQSessionStorage, the other storage of Telegram sessions: a       *)
(* session is a message, whoever takes it uses the account, and a session  *)
(* that rests is a message of the delayed exchange. Telegram.add_client    *)
(* and Telegram.get_client around it are those of AccountPool.             *)
(*                                                                         *)
(* Times are the ticks that are left of them.                              *)
(***************************************************************************)
EXTENDS Integers, FiniteSets, Functions

CONSTANTS
    Accounts,
    Workers,
    MaxWait,   \* the longest FloodWait
    Margin,    \* what is added to it
    MaxFaults, \* bound on the lost connections and failed publishes
    NoAccount

ASSUME WaitsAssumption == MaxWait \in Nat \ {0} /\ Margin \in Nat /\ MaxFaults \in Nat
ASSUME NoAccountAssumption == NoAccount \notin Accounts

Delays == 1 .. MaxWait + Margin

\* owned: the message is the worker's to acknowledge; it is not once the
\* broker has given it back to the queue
Session == [pc : {"out", "waiting", "received", "using", "publish", "delay", "ack",
                  "remove", "ban", "stuck"},
            account : Accounts \cup {NoAccount}, owned : BOOLEAN, wait : 0 .. MaxWait]

VARIABLES
    clients, banned, \* telegram_client
    adding,          \* clients that are committed and not yet published
    unpublished,     \* clients whose session was never published
    removed,         \* accounts whose message was taken out for good
    queue,           \* messages of each account that wait
    delayed,         \* messages of each account in the delayed exchange
    cool,            \* what is left of the last FloodWait of each account
    session,         \* the locals of each worker
    faults

vars == <<clients, banned, adding, unpublished, removed, queue, delayed, cool, session, faults>>
table == <<clients, banned, adding, unpublished>>
rest == <<delayed, cool>>

NoSession == [pc |-> "out", account |-> NoAccount, owned |-> FALSE, wait |-> 0]

Init ==
    /\ clients = {} /\ banned = {} /\ adding = {} /\ unpublished = {} /\ removed = {}
    /\ queue = [a \in Accounts |-> 0]
    /\ delayed = [a \in Accounts |-> [d \in Delays |-> 0]]
    /\ cool = [a \in Accounts |-> 0]
    /\ session = [w \in Workers |-> NoSession]
    /\ faults = 0

Put(a) == queue' = [queue EXCEPT ![a] = @ + 1]
Go(w, pc) == session' = [session EXCEPT ![w].pc = pc]
Leave(w) == session' = [session EXCEPT ![w] = NoSession]
Fault == faults < MaxFaults /\ faults' = faults + 1

\* The delayed exchange passes on what is due.
Tick ==
    /\ \E a \in Accounts : cool[a] > 0 \/ \E d \in Delays : delayed[a][d] > 0
    /\ queue' = [a \in Accounts |-> queue[a] + delayed[a][1]]
    /\ delayed' = [a \in Accounts |->
                      [d \in Delays |-> IF d + 1 \in Delays THEN delayed[a][d + 1] ELSE 0]]
    /\ cool' = [a \in Accounts |-> IF cool[a] > 0 THEN cool[a] - 1 ELSE 0]
    /\ UNCHANGED <<table, removed, session, faults>>

-----------------------------------------------------------------------------
(* add_client, add_session *)

Created(a) == clients \cup {a}

AddCommit(a) ==
    /\ a \notin clients
    /\ clients' = Created(a) /\ adding' = adding \cup {a}
    /\ UNCHANGED <<banned, unpublished, removed, queue, rest, session, faults>>

AddSession(a) ==
    /\ a \in adding
    /\ Put(a)
    /\ adding' = adding \ {a}
    /\ UNCHANGED <<clients, banned, unpublished, removed, rest, session, faults>>

\* The publish fails, before or after the broker stored the message.
AddFails(a) ==
    /\ a \in adding
    /\ Fault
    /\ \/ unpublished' = unpublished \cup {a} /\ UNCHANGED queue
       \/ Put(a) /\ UNCHANGED unpublished
    /\ adding' = adding \ {a}
    /\ UNCHANGED <<clients, banned, removed, rest, session>>

-----------------------------------------------------------------------------
(* get_client, get_session *)

\* is_working_clients_exists
Start(w) ==
    /\ session[w].pc = "out" /\ clients \ banned # {}
    /\ Go(w, "waiting")
    /\ UNCHANGED <<table, removed, queue, rest, faults>>

Timeout(w) ==
    /\ session[w].pc = "waiting"
    /\ Leave(w)
    /\ UNCHANGED <<table, removed, queue, rest, faults>>

Receive(w) ==
    /\ session[w].pc = "waiting"
    /\ \E a \in Accounts :
          /\ queue[a] > 0
          /\ queue' = [queue EXCEPT ![a] = @ - 1]
          /\ session' = [session EXCEPT ![w] =
                            [NoSession EXCEPT !.pc = "received", !.account = a, !.owned = TRUE]]
    /\ UNCHANGED <<table, removed, rest, faults>>

\* find_with_proxy: a banned client is an InvalidClient
Look(w) ==
    /\ session[w].pc = "received"
    /\ Go(w, IF session[w].account \in banned THEN "remove" ELSE "using")
    /\ UNCHANGED <<table, removed, queue, rest, faults>>

\* how the use of the session ends: well, with a FloodWait, or a ClientBanned
EndUse(w) ==
    /\ session[w].pc = "using"
    /\ \/ Go(w, "publish") /\ UNCHANGED rest
       \/ Go(w, "remove") /\ UNCHANGED rest
       \/ \E d \in 1 .. MaxWait :
             /\ session' = [session EXCEPT ![w].pc = "delay", ![w].wait = d]
             /\ cool' = [cool EXCEPT ![session[w].account] = d]
             /\ UNCHANGED delayed
    /\ UNCHANGED <<table, removed, queue, faults>>

\* reject(requeue=True); it raises when the message is not the worker's.
\* Mutant: requeue=False.
RejectForGood(w) == UNCHANGED queue
Reject(w) == IF session[w].owned THEN Put(session[w].account) ELSE UNCHANGED queue

\* another exception
UseFails(w) ==
    /\ session[w].pc \in {"received", "using"}
    /\ Reject(w) /\ Leave(w)
    /\ UNCHANGED <<table, removed, rest, faults>>

Publish(w) ==
    /\ session[w].pc = "publish"
    /\ Put(session[w].account) /\ Go(w, "ack")
    /\ UNCHANGED <<table, removed, rest, faults>>

\* The publish fails, before or after the broker stored the message, and the
\* first message is rejected.
PublishFails(w) ==
    /\ session[w].pc = "publish"
    /\ Fault
    /\ \/ Reject(w)
       \/ queue' = [queue EXCEPT ![session[w].account] = @ + IF session[w].owned THEN 2 ELSE 1]
    /\ Leave(w)
    /\ UNCHANGED <<table, removed, rest>>

\* Mutant: the margin alone.
DelayOfMargin(wait) == Margin
Delay(wait) == wait + Margin

PutDelayed(w) ==
    delayed' = [delayed EXCEPT ![session[w].account][Delay(session[w].wait)] = @ + 1]

PublishDelayed(w) ==
    /\ session[w].pc = "delay"
    /\ PutDelayed(w) /\ Go(w, "ack")
    /\ UNCHANGED <<table, removed, queue, cool, faults>>

\* Nothing handles an error in the handler of FloodWait: the message is
\* neither acknowledged nor rejected, and prefetch_count is one.
DelayFails(w) ==
    /\ session[w].pc = "delay"
    /\ Fault
    /\ PutDelayed(w) \/ UNCHANGED delayed
    /\ IF session[w].owned THEN Go(w, "stuck") ELSE Leave(w)
    /\ UNCHANGED <<table, removed, queue, cool>>

\* Mutant: the message is given back instead.
AckRequeues(w) == Put(session[w].account)
Acked(w) == UNCHANGED queue

Ack(w) ==
    /\ session[w].pc = "ack"
    /\ Acked(w) /\ Leave(w)
    /\ UNCHANGED <<table, removed, rest, faults>>

\* The handlers of ClientBanned and InvalidClient acknowledge first. When
\* that raises, the client is not banned.
Remove(w) ==
    /\ session[w].pc = "remove"
    /\ IF session[w].owned
       THEN Go(w, "ban") /\ removed' = removed \cup {session[w].account}
       ELSE Leave(w) /\ UNCHANGED removed
    /\ UNCHANGED <<table, queue, rest, faults>>

Ban(w) ==
    /\ session[w].pc = "ban"
    /\ banned' = banned \cup {session[w].account}
    /\ Leave(w)
    /\ UNCHANGED <<clients, adding, unpublished, removed, queue, rest, faults>>

-----------------------------------------------------------------------------
(* The broker and the processes *)

Unacknowledged(w) == session[w].owned /\ session[w].pc # "ban"

\* The connection is lost and the worker goes on with the session.
Disconnect(w) ==
    /\ Unacknowledged(w) /\ session[w].pc # "stuck"
    /\ Fault
    /\ Put(session[w].account)
    /\ session' = [session EXCEPT ![w].owned = FALSE]
    /\ UNCHANGED <<table, removed, rest>>

Crash(w) ==
    /\ session[w].pc # "out"
    /\ Fault
    /\ IF Unacknowledged(w) THEN Put(session[w].account) ELSE UNCHANGED queue
    /\ Leave(w)
    /\ UNCHANGED <<table, removed, rest>>

\* consumer_timeout, a day after the delivery, which a flood wait may outlast;
\* a worker that is not stuck by then is disconnected
ConsumerTimeout(w) ==
    /\ session[w].pc = "stuck"
    /\ Put(session[w].account) /\ Leave(w)
    /\ UNCHANGED <<table, removed, rest, faults>>

-----------------------------------------------------------------------------
Add(a) == AddCommit(a) \/ AddSession(a) \/ AddFails(a)
GetClient(w) ==
    \/ Start(w) \/ Timeout(w) \/ Receive(w) \/ Look(w)
    \/ EndUse(w) \/ UseFails(w) \/ Publish(w) \/ PublishFails(w)
    \/ PublishDelayed(w) \/ DelayFails(w) \/ Ack(w) \/ Remove(w) \/ Ban(w)

Next ==
    \/ Tick
    \/ \E a \in Accounts : Add(a)
    \/ \E w \in Workers : GetClient(w) \/ Disconnect(w) \/ Crash(w) \/ ConsumerTimeout(w)

Spec == Init /\ [][Next]_vars

\* The clock runs, calls return, and the broker ends what is stuck.
FairSpec ==
    /\ Spec /\ WF_vars(Tick)
    /\ \A w \in Workers : WF_vars(GetClient(w)) /\ WF_vars(ConsumerTimeout(w))
    /\ \A a \in Accounts : WF_vars(AddSession(a))

-----------------------------------------------------------------------------
(* Properties                                                              *)

\* The tables, the queues and the locals have their types.
TypeOK ==
    /\ clients \subseteq Accounts /\ banned \subseteq clients
    /\ adding \subseteq clients /\ unpublished \subseteq clients /\ removed \subseteq clients
    /\ queue \in [Accounts -> Nat]
    /\ delayed \in [Accounts -> [Delays -> Nat]]
    /\ cool \in [Accounts -> 0 .. MaxWait]
    /\ session \in [Workers -> Session]
    /\ faults \in 0 .. MaxFaults

\* At "ack" the next message has been published and this one is used up.
Holders(a) == {w \in Workers : session[w].account = a /\ Unacknowledged(w) /\ session[w].pc # "ack"}
Copies(a) == queue[a] + FoldFunction(+, 0, delayed[a]) + Cardinality(Holders(a))

InBroker(a) == queue[a] > 0 \/ (\E d \in Delays : delayed[a][d] > 0) \/ Holders(a) # {}

\* The session of an account is never lost, whatever fails: it leaves the
\* broker only when Telegram or the table refuses it.
SessionKept == \A a \in clients \ (adding \cup unpublished \cup removed) : InBroker(a)

\* A fault makes one copy of a session at most.
CopiesBounded == \A a \in Accounts : Copies(a) <= 1 + faults

Users(a) == {w \in Workers : session[w].account = a /\ session[w].pc = "using"}

\* One worker uses a session until a fault, and one more for each fault since:
\* of three workers a third one needs a second fault.
OneUser == \A a \in Accounts : Cardinality(Users(a)) <= 1 + faults

\* Until the first fault the queue implements AccountLeases: a session that
\* is published is known, a worker takes it when it finds its client not
\* banned, and returns it when its use ends, before anything is published.
Held(w) == IF session[w].pc = "using" THEN session[w].account ELSE NoAccount
Leases == INSTANCE AccountLeases WITH
    known <- clients \ adding,
    banned <- banned,
    holding <- [w \in Workers |-> Held(w)],
    rest <- cool,
    broken <- faults > 0
LeasesUntilFault == Leases!Spec

\* A session that is in the broker comes to the head of the queue again,
\* or is removed.
SessionComesBack == \A a \in Accounts : Copies(a) > 0 ~> (queue[a] > 0 \/ a \in removed)
=============================================================================
