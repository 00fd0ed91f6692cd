--------------------------- MODULE AccountLeases ---------------------------
(***************************************************************************)
(* What a storage of Telegram sessions promises, whichever it is: an       *)
(* account is leased to one worker at a time, only once add_client has     *)
(* stored its session, never after it was banned, and not before the flood *)
(* wait it was returned with is over.  A storage promises nothing while it *)
(* is broken; one that is not, is held to all of this.                     *)
(***************************************************************************)
EXTENDS Naturals

CONSTANTS Accounts, Workers, NoAccount

VARIABLES
    known,   \* accounts whose session is stored
    banned,
    holding, \* the account each worker has leased
    rest,    \* what is left of the flood wait of each account
    broken

vars == <<known, banned, holding, rest, broken>>

Init ==
    /\ known = {} /\ banned = {}
    /\ holding = [w \in Workers |-> NoAccount]
    /\ rest = [a \in Accounts |-> 0]
    /\ broken = FALSE

\* an account is added once
Enrol(a) ==
    /\ a \notin known
    /\ known' = known \cup {a}
    /\ UNCHANGED <<banned, holding, rest>>

Take(w, a) ==
    /\ a \in known \ banned /\ rest[a] = 0
    /\ holding[w] = NoAccount /\ \A v \in Workers : holding[v] # a
    /\ holding' = [holding EXCEPT ![w] = a]
    /\ UNCHANGED <<known, banned, rest>>

\* with a flood wait, or without one
Return(w) ==
    LET a == holding[w] IN
    /\ a # NoAccount
    /\ holding' = [holding EXCEPT ![w] = NoAccount]
    /\ rest'[a] \in Nat /\ rest' = [rest EXCEPT ![a] = rest'[a]]
    /\ UNCHANGED <<known, banned>>

\* also while another worker has leased the account since
Ban(a) ==
    /\ a \in known
    /\ banned' = banned \cup {a}
    /\ UNCHANGED <<known, holding, rest>>

Pass ==
    /\ rest' = [a \in Accounts |-> IF rest[a] = 0 THEN 0 ELSE rest[a] - 1]
    /\ UNCHANGED <<known, banned, holding>>

Next ==
    \/ Pass
    \/ \E a \in Accounts : Enrol(a) \/ Ban(a) \/ \E w \in Workers : Take(w, a)
    \/ \E w \in Workers : Return(w)

\* a step of a storage that works, or one that begins or follows a fault
Step == broken \/ broken' \/ Next

Spec == Init /\ [][Step]_vars
=============================================================================
