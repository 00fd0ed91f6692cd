-------------------------- MODULE DesktopAccounts --------------------------
(***************************************************************************)
(* Conversions between tdata folders and clients (opentele): a program     *)
(* with one TDesktop object and some clients, the folder and the session   *)
(* file they are kept in, and the sessions the server has authorized.      *)
(*                                                                         *)
(* A conversion with CreateNewSession runs a QR login, and other           *)
(* coroutines of the program may load and save the folder meanwhile; one   *)
(* login runs at a time.                                                   *)
(***************************************************************************)
EXTENDS TDesktop, QrLogin

VARIABLES
    clients,    \* the sessions that clients of the program hold
    calls       \* how many calls have been made, up to MaxCalls

vars == <<deskVars, loginVars, sweep, clients, calls>>

CONSTANTS
    MaxCalls,       \* a bound on the calls of the program and of the owner
    OldSessions,    \* the sessions of the folder, and of the first client
    OpenApis,       \* arguments api of TDesktop()
    CallApis,       \* arguments api of the conversions
    DefaultApi      \* API.TelegramDesktop, which has authorized them

\* the folder is one of Telegram Desktop, whose sessions are logged in
ASSUME ProgramAssumption ==
    /\ OldSessions \subseteq Sessions /\ 1 \in OldSessions
    /\ \A folder \in Folders :
          /\ DOMAIN folder = Paths(Names)
          /\ \A p \in Paths(Names) : folder[p] \notin {Absent, Torn} =>
                /\ p[1] = "key" => /\ folder[p].local \in Keys
                                   /\ folder[p].active \in Int
                                   /\ folder[p].indexes \in Seq(Int)
                /\ p[1] = "mtp" => folder[p].session \in OldSessions \cup {NoSession}

Init ==
    /\ DeskInit
    /\ server = [s \in Sessions |-> IF s \in OldSessions THEN "authorized" ELSE "unknown"]
    /\ apiOf = [s \in Sessions |-> DefaultApi]
    /\ sweep = NobodySweeps
    /\ file = NoSession
    /\ login = NoLogin
    /\ clients = {1}
    /\ calls = 0

-----------------------------------------------------------------------------
(* Account.FromTelethon, TDesktop.FromTelethon *)

\* the object an account is added to: the owner, or a new object whose key
\* TDesktop.FromTelethon has generated
Owner(for) ==
    IF for = "owner" THEN {desk} ELSE GenerateLocalKey(NewTDesktop(DefaultApi))

AddTo(for, session, api) ==
    \E d \in Owner(for) :
        /\ desk' = Added(d, session, api)
        /\ incidents' = incidents \cup AddIncidents(d)

CanOwn(for) == Idle /\ (for = "owner" <=> desk # NoDesk)

\* UseCurrentSession: the session of the client becomes an account
UseClient(for, s, api) ==
    /\ CanOwn(for)
    /\ s \in clients
    /\ for = "owner" => ~Full(desk)
    /\ AddTo(for, s, api)
    /\ UNCHANGED <<disk, saving, performance, saved, loginVars, sweep, clients>>

\* CreateNewSession: a client that is connected, or connects and finds
\* itself authorized, accepts the login of a new one
FromTelethon(for, by, api) ==
    /\ CanOwn(for)
    /\ by \in clients
    /\ QRLoginToNewClient(by, api, FALSE, for)
    /\ UNCHANGED <<deskVars, sweep, clients>>

\* the number of accounts is looked at when the new session is authorized:
\* a get_me of the new client that fails, and the MaxAccountLimit, leave the
\* session without an account
Convert ==
    /\ At("returned") /\ login.for \in {"owner", "newDesk"} /\ CanOwn(login.for)
    /\ \/ /\ login.for = "owner" => ~Full(desk)
          /\ AddTo(login.for, login.key, login.api)
       \/ UNCHANGED <<desk, incidents>>
    /\ login' = NoLogin
    /\ UNCHANGED <<disk, saving, performance, saved, server, apiOf, file, sweep, clients>>

-----------------------------------------------------------------------------
(* ToTelethon, FromTDesktop *)

\* the main account is asserted: a load that was stopped can leave accounts
\* without one
HasMain == desk # NoDesk /\ desk.loaded /\ desk.accounts # <<>> /\ desk.main # NoSession

\* UseCurrentSession: a session file gets the key of the main account, also
\* the file of a login that is going on
UseMain(toFile) ==
    /\ HasMain
    /\ clients' = clients \cup {desk.main}
    /\ file' = IF toFile THEN desk.main ELSE file
    /\ UNCHANGED <<deskVars, server, apiOf, login, sweep>>

\* CreateNewSession: a client of the main account, which must be authorized,
\* accepts the login of a new client
FromTDesktop(api, toFile) ==
    /\ HasMain
    /\ QRLoginToNewClient(desk.main, api, toFile, "client")
    /\ UNCHANGED <<deskVars, sweep, clients>>

Returned ==
    /\ At("returned") /\ login.for = "client"
    /\ clients' = clients \cup {login.key}
    /\ login' = NoLogin
    /\ UNCHANGED <<deskVars, server, apiOf, file, sweep>>

\* the caller of a login gets its error
Raised ==
    /\ login.at \in Ends \ {"returned"}
    /\ login' = NoLogin
    /\ UNCHANGED <<deskVars, server, apiOf, file, sweep, clients>>

-----------------------------------------------------------------------------
\* TelegramClient(session file), when the program starts
OpenFile ==
    /\ file # NoSession /\ server[file] = "authorized"
    /\ clients' = clients \cup {file}
    /\ UNCHANGED <<deskVars, loginVars, sweep>>

\* the process dies with its object, its clients and its login
Exit ==
    /\ Die
    /\ clients' = {}
    /\ login' = NoLogin
    /\ UNCHANGED <<server, apiOf, file, sweep>>

Call == calls < MaxCalls /\ calls' = calls + 1

\* calls of the program on its object and its folder
DeskCall ==
    /\ \/ \E api \in OpenApis, p \in Passcodes, k \in KeyFiles \cup {"data"} : Open(api, p, k)
       \/ \E api \in OpenApis : Create(api)
       \/ \E p \in Passcodes, k \in KeyFiles \cup {"none"} : LoadTData(p, k)
       \/ \E p \in Passcodes \cup {"none"}, k \in KeyFiles \cup {"none"} : SaveTData(p, k)
       \/ PerformanceMode
    /\ UNCHANGED <<loginVars, sweep, clients>>

\* calls that turn accounts into clients and clients into accounts
ConversionCall ==
    \/ \E for \in {"owner", "newDesk"}, api \in CallApis, s \in Sessions :
          \/ UseClient(for, s, api)
          \/ FromTelethon(for, s, api)
    \/ \E toFile \in BOOLEAN :
          \/ UseMain(toFile)
          \/ \E api \in CallApis : FromTDesktop(api, toFile)
    \/ OpenFile

\* sessions are ended by the owner of the account, or by a client
ServerCall ==
    /\ \/ \E s \in Sessions : TerminateSession(s)
       \/ \E s \in clients : GetSessions(s)
    /\ UNCHANGED <<deskVars, file, login, clients>>

\* what goes on in a call
DeskStep == /\ WriteFile \/ EndSave
            /\ UNCHANGED <<loginVars, sweep, clients>>

SweepStep == TerminateNext /\ UNCHANGED <<deskVars, file, login, clients>>

Next ==
    \/ Call /\ (DeskCall \/ ConversionCall \/ ServerCall)
    \/ /\ \/ DeskStep
          \/ SweepStep
          \/ LoginStep /\ UNCHANGED <<deskVars, clients>>
          \/ Convert \/ Returned \/ Raised
          \/ Exit
       /\ UNCHANGED calls

Spec == Init /\ [][Next]_vars
=============================================================================
