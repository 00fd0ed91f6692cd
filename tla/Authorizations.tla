--------------------------- MODULE Authorizations ---------------------------
(***************************************************************************)
(* The sessions of a Telegram account as its server knows them, and how    *)
(* opentele's client ends them (tl/telethon.py: TerminateSession,          *)
(* TerminateAllSessions).  A session is its authorization key.             *)
(***************************************************************************)
EXTENDS Integers, FiniteSets

CONSTANTS
    Sessions,       \* authorization keys
    NoSession,
    Apis,           \* APIData, by what they hold
    NobodySweeps    \* no TerminateAllSessions is going on

ASSUME SessionAssumption ==
    /\ Sessions \subseteq Nat
    /\ NoSession \notin Sessions

VARIABLES
    server,     \* for each session: unknown, accepted, authorized, terminated
    apiOf,      \* the API each session was authorized with
    sweep       \* the TerminateAllSessions that is going on

Authorized == {s \in Sessions : server[s] = "authorized"}

-----------------------------------------------------------------------------
\* TerminateSession by the client of another session, or by the owner of the
\* account in an app; a refusal of the server, for a hash that is gone or a
\* client of less than 24 hours, changes nothing
TerminateSession(s) ==
    /\ server[s] = "authorized"
    /\ server' = [server EXCEPT ![s] = "terminated"]
    /\ UNCHANGED <<apiOf, sweep>>

\* TerminateAllSessions reads the list of sessions once
GetSessions(by) ==
    /\ sweep = NobodySweeps
    /\ server[by] = "authorized"
    /\ sweep' = [by |-> by, left |-> Authorized \ {by}]
    /\ UNCHANGED <<server, apiOf>>

\* and ends them one by one: a session that is gone meanwhile is a
\* HashInvalidError, a client of less than 24 hours a
\* FreshResetAuthorisationForbiddenError, and like a request without an answer,
\* done or not, they leave the rest of the list alone
TerminateNext ==
    /\ sweep # NobodySweeps
    /\ \/ sweep' = NobodySweeps /\ UNCHANGED server
       \/ \E s \in sweep.left :
             /\ server[sweep.by] = "authorized" /\ server[s] = "authorized"
             /\ server' = [server EXCEPT ![s] = "terminated"]
             /\ sweep' \in {[sweep EXCEPT !.left = @ \ {s}], NobodySweeps}
    /\ UNCHANGED apiOf
=============================================================================
