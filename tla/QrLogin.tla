------------------------------- MODULE QrLogin -------------------------------
(***************************************************************************)
(* QRLoginToNewClient of opentele (tl/telethon.py): a client that is       *)
(* logged in lets a new client log in with a token, instead of a person    *)
(* who scans a code.                                                       *)
(*                                                                         *)
(* Each request to the server may fail after or before it has done its     *)
(* work, with a TimeoutError or another error.  The sessions are of one    *)
(* account, and its data center is theirs.  A client that is logged in has *)
(* thus no switch of the data center to make, and the switches of the      *)
(* others change a key that nobody knows yet; that connect switches before *)
(* it looks, and throws away the key of a session file of an account in    *)
(* another data center, is left out with that account.  Whether the        *)
(* account has a two-step verification password is the server's choice:    *)
(* its owner may set or remove one.                                        *)
(***************************************************************************)
EXTENDS Authorizations

CONSTANTS
    apiId(_),       \* the api_id of an API
    Attempts        \* request_retries, 5 by default

ASSUME LoginAssumption ==
    Attempts \in Nat \ {0}

VARIABLES
    file,       \* the session in the session file, or NoSession
    login       \* the login that is going on, or how the last one ended

loginVars == <<server, apiOf, file, login>>

NoLogin == [at |-> "idle"]

\* where a login is: the points between two awaits, and its two ends
Points == {"connect", "check", "ask", "accept", "wait", "password", "leave"}
Ends == {"returned", "CannotConnect", "AuthToken", "NoPasswordProvided",
         "PasswordIncorrect", "TimeoutError", "RequestError"}

At(point) == login.at = point
Running == login.at \in Points

Goto(point) == login' = [login EXCEPT !.at = point]

-----------------------------------------------------------------------------
\* TelegramClient(session): the session in the file if there is one, a new
\* key else; the memory session of a login without a file has always a new key
FreshKeys == {s \in Sessions : server[s] = "unknown" /\ s # file}

QRLoginToNewClient(by, api, toFile, for) ==
    /\ At("idle")
    /\ server[by] = "authorized"
    /\ \E s \in IF toFile /\ file # NoSession THEN {file}
                ELSE {k \in FreshKeys : \A l \in FreshKeys : k <= l} :
          login' = [ at |-> "connect", key |-> s, by |-> by, api |-> api,
                     toFile |-> toFile, for |-> for, attempt |-> 0, timedOut |-> FALSE,
                     unseen |-> FALSE, before |-> Authorized ]
    /\ UNCHANGED <<server, apiOf, file>>

\* connect writes the key of the client into its session file; an OSError is
\* raised as "Cannot connect"
Connect ==
    /\ At("connect")
    /\ \/ /\ Goto("check")
          /\ file' = IF login.toFile THEN login.key ELSE file
       \/ /\ Goto("CannotConnect")
          /\ UNCHANGED file
    /\ UNCHANGED <<server, apiOf>>

\* mutant: a file that is logged in is returned whatever its API
CheckAnyFile ==
    /\ At("check")
    /\ Goto(IF server[login.key] = "authorized" THEN "returned" ELSE "ask")
    /\ UNCHANGED <<server, apiOf, file>>

\* a call that raises: a request that fails, or is not answered
CallFails == Goto("TimeoutError") \/ Goto("RequestError")

\* a file that is logged in is returned as it is when its api_id is the one
\* asked for; else it is deleted, and the login starts again with a new key.
\* When the list of sessions has no current one, the login goes on with the
\* client that is logged in; the requests of the check may fail.
CheckFile ==
    /\ At("check")
    /\ \/ /\ server[login.key] # "authorized"
          /\ Goto("ask")
          /\ UNCHANGED file
       \/ /\ server[login.key] = "authorized"
          /\ apiId(apiOf[login.key]) = apiId(login.api)
          /\ Goto("returned")
          /\ UNCHANGED file
       \/ /\ server[login.key] = "authorized"
          /\ apiId(apiOf[login.key]) # apiId(login.api)
          /\ file' = NoSession
          /\ \E s \in {k \in FreshKeys : \A l \in FreshKeys : k <= l} :
                login' = [login EXCEPT !.at = "connect", !.key = s]
       \/ /\ server[login.key] = "authorized"
          /\ login' = [login EXCEPT !.at = "ask", !.unseen = TRUE]
          /\ UNCHANGED file
       \/ CallFails /\ UNCHANGED file
    /\ UNCHANGED <<server, apiOf>>

\* mutant: the next attempt is made with a new client
TimedOutAnew(l) ==
    [l EXCEPT !.timedOut = TRUE, !.attempt = @ + 1,
              !.key = CHOOSE k \in FreshKeys \cup {l.key} : k # l.key \/ FreshKeys \subseteq {k},
              !.at = IF l.attempt + 1 < Attempts THEN "ask" ELSE "leave"]

\* a TimeoutError is remembered, and the next attempt begins if there is one
TimedOut(l) ==
    [l EXCEPT !.timedOut = TRUE, !.attempt = @ + 1,
              !.at = IF l.attempt + 1 < Attempts THEN "ask" ELSE "leave"]

Authorize == /\ server[login.key] # "terminated"
             /\ server' = [server EXCEPT ![login.key] = "authorized"]
             /\ apiOf' = [apiOf EXCEPT ![login.key] = login.api]

\* a request without an answer ends the attempt with a TimeoutError, or the
\* login with another error of the connection
Failed(l) == {TimedOut(l), [l EXCEPT !.at = "RequestError"]}

\* a request that has done its work, and was answered or was not
Done(point) == login' \in {[login EXCEPT !.at = point]} \cup Failed(login)

\* a request that has done nothing
Nothing == login' \in Failed(login) /\ UNCHANGED <<server, apiOf>>

\* is_user_authorized from the second attempt on, then qr_login: a token that
\* the other client has accepted before logs this one in, or asks for the
\* password; one that is logged in, unseen, gets a token or a success
Ask ==
    /\ At("ask")
    /\ \/ /\ login.attempt > 0 \/ login.unseen
          /\ server[login.key] = "authorized"
          /\ Goto("leave")
          /\ UNCHANGED <<server, apiOf>>
       \/ /\ \/ server[login.key] = "unknown"
             \/ login.unseen /\ login.attempt = 0 /\ server[login.key] = "authorized"
          /\ Goto("accept")
          /\ UNCHANGED <<server, apiOf>>
       \/ /\ server[login.key] = "accepted"
          /\ Goto("password")
          /\ UNCHANGED <<server, apiOf>>
       \/ /\ server[login.key] = "accepted"
          /\ Authorize
          /\ Done("leave")
       \/ Nothing
    /\ UNCHANGED file

\* AcceptLoginTokenRequest of the client that is logged in: the three errors
\* of a token are raised to the caller
Accept ==
    /\ At("accept")
    /\ \/ /\ server[login.by] = "authorized"
          /\ server' = [server EXCEPT ![login.key] = IF @ = "unknown" THEN "accepted" ELSE @]
          /\ Done("wait")
          /\ UNCHANGED apiOf
       \/ /\ Goto("AuthToken")
          /\ UNCHANGED <<server, apiOf>>
       \/ Nothing
    /\ UNCHANGED file

\* qr_login.wait: the update that the token was accepted, then a request that
\* logs in or asks for the password; either may not come through
Wait ==
    /\ At("wait")
    /\ \/ /\ Goto("password")
          /\ UNCHANGED <<server, apiOf>>
       \/ /\ Authorize
          /\ Done("leave")
       \/ Nothing
    /\ UNCHANGED file

\* the argument password is only looked at here, and may be missing, wrong or
\* right; CheckPasswordRequest is sent inside the handler of the error that asked
\* for it: a request that fails there ends the login at once
Password ==
    /\ At("password")
    /\ \/ /\ Goto("NoPasswordProvided")
          /\ UNCHANGED <<server, apiOf>>
       \/ /\ Goto("PasswordIncorrect")
          /\ UNCHANGED <<server, apiOf>>
       \/ /\ Authorize
          /\ Goto("leave") \/ CallFails
       \/ /\ CallFails
          /\ UNCHANGED <<server, apiOf>>
    /\ UNCHANGED file

\* after the loop: a timeout of any attempt is raised, also after a later
\* attempt has logged in
Leave ==
    /\ At("leave")
    /\ Goto(IF login.timedOut THEN "TimeoutError" ELSE "returned")
    /\ UNCHANGED <<server, apiOf, file>>

LoginStep ==
    /\ Connect \/ CheckFile \/ Ask \/ Accept \/ Wait \/ Password \/ Leave
    /\ UNCHANGED sweep

-----------------------------------------------------------------------------
\* A login that returns a client has it authorized, with an API of the api_id
\* that was asked for, unless its file was logged in already and the check did
\* not see that; one that raises another error than a failed request has
\* authorized nothing (telethon.py: QRLoginToNewClient).
LoginOutcome ==
    /\ At("returned") =>
          \/ server[login.key] = "terminated"
          \/ /\ login.key \in Authorized
             /\ login.unseen \/ apiId(apiOf[login.key]) = apiId(login.api)
    /\ login.at \in Ends \ {"returned", "TimeoutError", "RequestError"} =>
          Authorized \subseteq login.before

\* However often a login asks again, it authorizes one session at most
\* (telethon.py: QRLoginToNewClient).
OneNewSession ==
    ~At("idle") => Cardinality(Authorized \ login.before) <= 1
=============================================================================
