----------------------- MODULE DesktopAccounts_proofs -----------------------
(***************************************************************************)
(* Theorems about DesktopAccounts, for every set of sessions and APIs,     *)
(* every number of attempts and of calls, and every folder that Telegram   *)
(* Desktop can have left: what a login authorizes and how it ends, what a  *)
(* saved folder gives back, and what a process that dies while it saves    *)
(* can take with it.                                                       *)
(***************************************************************************)
EXTENDS DesktopAccounts, Sums_proofs

-----------------------------------------------------------------------------
(* Sequences *)

\* The recursion that flattens a sequence of sequences.
Flattens(f, seqs, n) ==
    f = [i \in 1 .. n |-> IF i = 1 THEN seqs[i] ELSE f[i - 1] \o seqs[i]]

LEMMA FlattenExists == \A seqs : \A n \in Nat : \E f : Flattens(f, seqs, n)
<1> TAKE seqs
<1> DEFINE Good == {n \in Nat : \E f : Flattens(f, seqs, n)}
<1>1. 0 \in Good
  <2>1. Flattens([i \in 1 .. 0 |-> {}], seqs, 0)
    BY DEF Flattens
  <2> QED
    BY <2>1
<1>2. ASSUME NEW n \in Nat, n \in Good PROVE n + 1 \in Good
  <2>1. PICK f : Flattens(f, seqs, n)
    BY <1>2
  <2> DEFINE g == [i \in 1 .. n + 1 |->
                      IF i = 1 THEN seqs[i] ELSE f[i - 1] \o seqs[i]]
  <2>2. ASSUME NEW i \in 1 .. n + 1, i # 1 PROVE g[i - 1] = f[i - 1]
    <3>1. i - 1 \in 1 .. n /\ i - 1 \in 1 .. n + 1
      BY <2>2
    <3> QED
      BY <2>1, <3>1 DEF Flattens
  <2>3. g = [i \in 1 .. n + 1 |-> IF i = 1 THEN seqs[i] ELSE g[i - 1] \o seqs[i]]
    BY <2>2, Zenon
  <2> HIDE DEF g
  <2>4. Flattens(g, seqs, n + 1)
    BY <2>3 DEF Flattens
  <2> QED
    BY <2>4
<1> QED
  BY <1>1, <1>2, NumberInduction

\* Flattening takes its elements from the sequences it is given.
LEMMA FlattenFrom ==
    ASSUME NEW S, NEW seqs \in Seq(Seq(S))
    PROVE  FlattenSeq(seqs) \in Seq(S)
<1>1. CASE Len(seqs) = 0
  BY <1>1 DEF FlattenSeq
<1>2. CASE Len(seqs) # 0
  <2> DEFINE f == CHOOSE h : Flattens(h, seqs, Len(seqs))
             Good == {n \in Nat : n \in 1 .. Len(seqs) => f[n] \in Seq(S)}
  <2>1. FlattenSeq(seqs) = f[Len(seqs)]
    BY <1>2 DEF FlattenSeq, Flattens
  <2>2. Flattens(f, seqs, Len(seqs))
    <3>1. Len(seqs) \in Nat
      OBVIOUS
    <3>2. \E h : Flattens(h, seqs, Len(seqs))
      BY <3>1, FlattenExists
    <3> QED
      BY <3>2
  <2> HIDE DEF f
  <2>3. 0 \in Good
    OBVIOUS
  <2>4. ASSUME NEW n \in Nat, n \in Good PROVE n + 1 \in Good
    <3> SUFFICES ASSUME n + 1 \in 1 .. Len(seqs) PROVE f[n + 1] \in Seq(S)
      OBVIOUS
    <3>1. seqs[n + 1] \in Seq(S)
      OBVIOUS
    <3>2. CASE n = 0
      BY <2>2, <3>1, <3>2 DEF Flattens
    <3>3. CASE n # 0
      <4>1. f[n] \in Seq(S)
        BY <2>4, <3>3
      <4>2. \A i \in 1 .. Len(seqs) : i # 1 => f[i] = f[i - 1] \o seqs[i]
        BY <2>2, Zenon DEF Flattens
      <4>3. (n + 1) - 1 = n /\ n + 1 # 1
        BY <3>3
      <4>4. f[n + 1] = f[n] \o seqs[n + 1]
        BY <4>2, <4>3, Zenon
      <4>5. f[n] \o seqs[n + 1] \in Seq(S)
        BY <3>1, <4>1
      <4> QED
        BY <4>4, <4>5
    <3> QED
      BY <3>2, <3>3
  <2> HIDE DEF Good
  <2>5. Nat \subseteq Good
    BY <2>3, <2>4, NumberInduction
  <2>6. Len(seqs) \in Nat /\ Len(seqs) \in 1 .. Len(seqs)
    BY <1>2
  <2> QED
    BY <2>1, <2>5, <2>6 DEF Good
<1> QED
  BY <1>1, <1>2

\* Every finite set of natural numbers that is not empty has a greatest one.
LEMMA GreatestNumber ==
    ASSUME NEW P \in SUBSET Nat, IsFiniteSet(P), P # {}
    PROVE  \E m \in P : \A j \in P : j <= m
<1> DEFINE Good == {T \in SUBSET P : T # {} => \E m \in T : \A j \in T : j <= m}
<1>1. ASSUME NEW T \in SUBSET P, \A U \in SUBSET T : U # T => U \in Good
      PROVE  T \in Good
  <2> SUFFICES ASSUME NEW x \in T PROVE \E m \in T : \A j \in T : j <= m
    OBVIOUS
  <2> DEFINE U == T \ {x}
  <2>1. U \in SUBSET T /\ U # T
    OBVIOUS
  <2>2. U \in Good
    BY <1>1, <2>1
  <2>3. CASE U = {}
    <3>1. \A j \in T : j = x
      BY <2>3
    <3> QED
      BY <3>1
  <2>4. CASE U # {}
    <3>1. PICK m \in U : \A j \in U : j <= m
      BY <2>2, <2>4
    <3>2. m \in Nat /\ x \in Nat /\ \A j \in T : j = x \/ j \in U
      OBVIOUS
    <3> QED
      BY <3>1, <3>2
  <2> QED
    BY <2>3, <2>4
<1> HIDE DEF Good
<1>2. SUBSET P \subseteq Good
  BY <1>1, SubsetInduction
<1>3. P \in Good
  BY <1>2
<1> QED
  BY <1>3 DEF Good

\* Among finitely many numbers, each rank from 1 on is taken.
LEMMA RankTaken ==
    ASSUME NEW P \in SUBSET Nat, IsFiniteSet(P), NEW k \in 1 .. Cardinality(P)
    PROVE  \E i \in P : Cardinality({j \in P : j <= i}) = k
<1> DEFINE Good == {T \in SUBSET P : \A n \in 1 .. Cardinality(T) :
                       \E i \in T : Cardinality({j \in T : j <= i}) = n}
<1>1. ASSUME NEW T \in SUBSET P, \A U \in SUBSET T : U # T => U \in Good
      PROVE  T \in Good
  <2> SUFFICES ASSUME NEW n \in 1 .. Cardinality(T)
               PROVE  \E i \in T : Cardinality({j \in T : j <= i}) = n
    OBVIOUS
  <2>1. IsFiniteSet(T) /\ T # {} /\ Cardinality(T) \in Nat
    <3>1. IsFiniteSet(T)
      BY FS_Subset
    <3> QED
      BY <3>1, FS_CardinalityType, FS_EmptySet
  <2>2. PICK m \in T : \A j \in T : j <= m
    BY <2>1, GreatestNumber
  <2> DEFINE U == T \ {m}
  <2>3. IsFiniteSet(U) /\ Cardinality(U) = Cardinality(T) - 1
    BY <2>1, FS_RemoveElement
  <2>4. CASE n = Cardinality(T)
    <3>1. {j \in T : j <= m} = T
      BY <2>2
    <3> QED
      BY <2>4, <3>1
  <2>5. CASE n # Cardinality(T)
    <3>1. n \in 1 .. Cardinality(U)
      BY <2>1, <2>3, <2>5
    <3>2. U \in SUBSET T /\ U # T
      OBVIOUS
    <3>3. PICK i \in U : Cardinality({j \in U : j <= i}) = n
      BY <1>1, <3>1, <3>2
    <3>4. ~ (m <= i)
      BY <2>2
    <3>5. {j \in T : j <= i} = {j \in U : j <= i}
      BY <3>4
    <3> QED
      BY <3>3, <3>5
  <2> QED
    BY <2>4, <2>5
<1> HIDE DEF Good
<1>2. SUBSET P \subseteq Good
  BY <1>1, SubsetInduction
<1>3. P \in Good
  BY <1>2
<1> QED
  BY <1>3 DEF Good

\* The elements at some places of a sequence are elements of it.
LEMMA PickedFrom ==
    ASSUME NEW S, NEW s \in Seq(S), NEW places \in SUBSET DOMAIN s
    PROVE  /\ Picked(s, places) \in Seq({s[i] : i \in places})
           /\ Picked(s, places) = <<>> => places = {}
<1>1. DOMAIN s = 1 .. Len(s) /\ IsFiniteSet(1 .. Len(s))
  BY FS_Interval
<1>2. IsFiniteSet(places) /\ places \in SUBSET Nat
  BY <1>1, FS_Subset
<1>3. Cardinality(places) \in Nat
  BY <1>2, FS_CardinalityType
<1> DEFINE at(k) == CHOOSE i \in places : Cardinality({j \in places : j <= i}) = k
<1>4. \A k \in 1 .. Cardinality(places) : at(k) \in places
  BY <1>2, RankTaken
<1>5. Picked(s, places) = [k \in 1 .. Cardinality(places) |-> s[at(k)]]
  BY DEF Picked
<1> HIDE DEF at
<1>6. Picked(s, places) \in [1 .. Cardinality(places) -> {s[i] : i \in places}]
  BY <1>4, <1>5
<1>7. Picked(s, places) \in Seq({s[i] : i \in places}) /\ Len(Picked(s, places)) = Cardinality(places)
  BY <1>3, <1>6
<1>8. Picked(s, places) = <<>> => places = {}
  BY <1>2, <1>7, FS_EmptySet
<1> QED
  BY <1>7, <1>8

-----------------------------------------------------------------------------
(* The sessions a login authorizes *)

IsLogin ==
    \/ login = NoLogin
    \/ login = [ at |-> login.at, key |-> login.key, by |-> login.by, api |-> login.api,
                 toFile |-> login.toFile, for |-> login.for, attempt |-> login.attempt,
                 timedOut |-> login.timedOut, unseen |-> login.unseen, before |-> login.before ]

\* The arguments of a login, which no step of it changes.
SameCall == /\ login'.by = login.by /\ login'.api = login.api
            /\ login'.toFile = login.toFile /\ login'.for = login.for

\* What is authorized was so when the login began, or is the session that
\* the login has now; before the login asks for a token, it is the former.
NewSessions ==
    /\ ~At("idle") => Authorized \subseteq login.before \cup {login.key}
    /\ At("connect") \/ At("check") => Authorized \subseteq login.before

LoginInv ==
    /\ server \in [Sessions -> {"unknown", "accepted", "authorized", "terminated"}]
    /\ IsLogin
    /\ NewSessions

-----------------------------------------------------------------------------
\* No login is going on at the start.
LEMMA LoginInit == Init => LoginInv
BY DEF Init, LoginInv, IsLogin, NewSessions, NoLogin, At

\* The fields of a login after it has gone to another point.
LEMMA GotoFields ==
    ASSUME IsLogin, ~At("idle"), NEW point, Goto(point)
    PROVE  /\ IsLogin' /\ login'.at = point
           /\ login'.key = login.key /\ login'.before = login.before
           /\ SameCall
           /\ login'.attempt = login.attempt /\ login'.timedOut = login.timedOut
           /\ login'.unseen = login.unseen
BY DEF IsLogin, At, NoLogin, Goto, SameCall

\* The fields of a login after a request has failed.
LEMMA FailedFields ==
    ASSUME IsLogin, ~At("idle"), login' \in Failed(login)
    PROVE  /\ IsLogin' /\ login'.at \in {"ask", "leave", "RequestError"}
           /\ login'.key = login.key /\ login'.before = login.before
           /\ SameCall /\ login'.unseen = login.unseen
           /\ login'.at # "RequestError" => login'.timedOut
<1>1. CASE login' = TimedOut(login)
  <2>1. login # NoLogin
    BY DEF At, NoLogin
  <2>2. PICK point \in {"ask", "leave"} :
             login' = [login EXCEPT !.timedOut = TRUE, !.attempt = @ + 1, !.at = point]
    BY <1>1 DEF TimedOut
  <2> QED
    BY <2>1, <2>2 DEF IsLogin, SameCall
<1>2. CASE login' = [login EXCEPT !.at = "RequestError"]
  BY <1>2 DEF IsLogin, At, NoLogin, SameCall
<1> QED
  BY <1>1, <1>2 DEF Failed

\* The fields of a login after a request has done its work.
LEMMA DoneFields ==
    ASSUME IsLogin, ~At("idle"), NEW point, Done(point)
    PROVE  /\ IsLogin' /\ login'.at \in {point, "ask", "leave", "RequestError"}
           /\ login'.key = login.key /\ login'.before = login.before
           /\ SameCall /\ login'.unseen = login.unseen
           /\ login'.at \notin {point, "RequestError"} => login'.timedOut
<1>1. CASE login' = [login EXCEPT !.at = point]
  BY <1>1, GotoFields DEF Goto
<1>2. CASE login' \in Failed(login)
  BY <1>2, FailedFields
<1> QED
  BY <1>1, <1>2 DEF Done

\* Steps that leave the server's sessions and the login alone, or end
\* sessions, keep the invariant.
LEMMA LoginAlone ==
    ASSUME LoginInv, UNCHANGED login,
           server' \in [Sessions -> {"unknown", "accepted", "authorized", "terminated"}],
           Authorized' \subseteq Authorized
    PROVE  LoginInv'
BY DEF LoginInv, IsLogin, NewSessions, At

\* A login that has ended, and been left, keeps the invariant.
LEMMA LoginOver ==
    ASSUME LoginInv, login' = NoLogin, UNCHANGED server
    PROVE  LoginInv'
BY DEF LoginInv, IsLogin, NewSessions, At, NoLogin

\* A step of a login that authorizes no session but its own, after it has
\* asked for a token, keeps the invariant.
LEMMA LoginGoesOn ==
    ASSUME LoginInv, ~At("idle"), IsLogin',
           server' \in [Sessions -> {"unknown", "accepted", "authorized", "terminated"}],
           login'.key = login.key, login'.before = login.before,
           login'.at \notin {"connect", "check"},
           Authorized' \subseteq Authorized \cup {login.key}
    PROVE  LoginInv'
BY DEF LoginInv, NewSessions, At

\* Authorizing the session of the login authorizes no other one.
LEMMA AuthorizeOne ==
    ASSUME LoginInv, Authorize
    PROVE  /\ server' \in [Sessions -> {"unknown", "accepted", "authorized", "terminated"}]
           /\ Authorized' \subseteq Authorized \cup {login.key}
BY DEF LoginInv, Authorize, Authorized

\* A login begins with the sessions that are authorized.
LEMMA LoginBegins ==
    ASSUME LoginInv, NEW by, NEW api, NEW toFile, NEW for, QRLoginToNewClient(by, api, toFile, for)
    PROVE  LoginInv'
<1>1. PICK s : login' = [ at |-> "connect", key |-> s, by |-> by, api |-> api,
                          toFile |-> toFile, for |-> for, attempt |-> 0, timedOut |-> FALSE,
                          unseen |-> FALSE, before |-> Authorized ]
  BY DEF QRLoginToNewClient
<1>2. server' = server
  BY DEF QRLoginToNewClient
<1> QED
  BY <1>1, <1>2 DEF LoginInv, IsLogin, NewSessions, At, Authorized

\* Every step of a login keeps the invariant.
LEMMA LoginSteps == LoginInv /\ LoginStep => LoginInv'
<1> SUFFICES ASSUME LoginInv, LoginStep PROVE LoginInv'
  OBVIOUS
<1>0. IsLogin
  BY DEF LoginInv
<1> USE <1>0
<1>1. CASE Connect
  <2>1. ~At("idle") /\ server' = server
    BY <1>1 DEF Connect, At
  <2>2. Goto("check") \/ Goto("CannotConnect")
    BY <1>1 DEF Connect
  <2> QED
    BY <1>1, <2>1, <2>2, GotoFields DEF Connect, LoginInv, NewSessions, At, Authorized
<1>2. CASE CheckFile
  <2>1. ~At("idle") /\ At("check") /\ server' = server
    BY <1>2 DEF CheckFile, At
  <2>2. CASE Goto("ask") \/ Goto("returned") \/ CallFails
    BY <2>1, <2>2, GotoFields, LoginGoesOn DEF LoginInv, Authorized, CallFails
  <2>3. CASE \E s \in Sessions : login' = [login EXCEPT !.at = "connect", !.key = s]
    <3>1. PICK s \in Sessions : login' = [login EXCEPT !.at = "connect", !.key = s]
      BY <2>3
    <3>2. login # NoLogin
      BY <2>1 DEF At, NoLogin
    <3>3. IsLogin' /\ login'.at = "connect" /\ login'.before = login.before
      BY <3>1, <3>2 DEF IsLogin
    <3> QED
      BY <2>1, <3>3 DEF LoginInv, NewSessions, At, Authorized
  <2>4. CASE login' = [login EXCEPT !.at = "ask", !.unseen = TRUE]
    <3>1. login # NoLogin
      BY <2>1 DEF At, NoLogin
    <3>2. /\ IsLogin' /\ login'.at = "ask"
          /\ login'.key = login.key /\ login'.before = login.before
      BY <2>4, <3>1 DEF IsLogin
    <3> QED
      BY <2>1, <3>2, LoginGoesOn DEF LoginInv, Authorized
  <2> QED
    BY <1>2, <2>2, <2>3, <2>4 DEF CheckFile, FreshKeys
<1>3. ASSUME Nothing, ~At("idle") PROVE LoginInv'
  BY <1>3, FailedFields, LoginGoesOn DEF Nothing, LoginInv, Authorized
<1>4. CASE Ask
  <2>1. ~At("idle")
    BY <1>4 DEF Ask, At
  <2>2. CASE (Goto("leave") \/ Goto("accept") \/ Goto("password")) /\ UNCHANGED server
    BY <2>1, <2>2, GotoFields, LoginGoesOn DEF LoginInv, Authorized
  <2>3. CASE Authorize /\ Done("leave")
    BY <2>1, <2>3, AuthorizeOne, DoneFields, LoginGoesOn
  <2> QED
    BY <1>3, <1>4, <2>1, <2>2, <2>3 DEF Ask
<1>5. CASE Accept
  <2>1. ~At("idle")
    BY <1>5 DEF Accept, At
  <2>2. CASE /\ server' = [server EXCEPT ![login.key] = IF @ = "unknown" THEN "accepted" ELSE @]
             /\ Done("wait")
    <3>1. server' \in [Sessions -> {"unknown", "accepted", "authorized", "terminated"}]
          /\ Authorized' \subseteq Authorized
      BY <2>2 DEF LoginInv, Authorized
    <3> QED
      BY <2>1, <2>2, <3>1, DoneFields, LoginGoesOn
  <2>3. CASE Goto("AuthToken") /\ UNCHANGED server
    BY <2>1, <2>3, GotoFields, LoginGoesOn DEF LoginInv, Authorized
  <2> QED
    BY <1>3, <1>5, <2>1, <2>2, <2>3 DEF Accept
<1>6. CASE Wait
  <2>1. ~At("idle")
    BY <1>6 DEF Wait, At
  <2>2. CASE Goto("password") /\ UNCHANGED server
    BY <2>1, <2>2, GotoFields, LoginGoesOn DEF LoginInv, Authorized
  <2>3. CASE Authorize /\ Done("leave")
    BY <2>1, <2>3, AuthorizeOne, DoneFields, LoginGoesOn
  <2> QED
    BY <1>3, <1>6, <2>1, <2>2, <2>3 DEF Wait
<1>7. CASE Password
  <2>1. ~At("idle")
    BY <1>7 DEF Password, At
  <2>2. /\ \/ Goto("NoPasswordProvided") \/ Goto("PasswordIncorrect") \/ Goto("leave")
           \/ Goto("TimeoutError") \/ Goto("RequestError")
        /\ Authorize \/ UNCHANGED server
    BY <1>7 DEF Password, CallFails
  <2>3. /\ server' \in [Sessions -> {"unknown", "accepted", "authorized", "terminated"}]
        /\ Authorized' \subseteq Authorized \cup {login.key}
    BY <2>2, AuthorizeOne DEF LoginInv, Authorized
  <2>4. /\ IsLogin' /\ login'.key = login.key /\ login'.before = login.before
        /\ login'.at \notin {"connect", "check"}
    BY <2>1, <2>2, GotoFields
  <2> QED
    BY <2>1, <2>3, <2>4, LoginGoesOn
<1>8. CASE Leave
  <2>1. ~At("idle") /\ server' = server /\ (Goto("TimeoutError") \/ Goto("returned"))
    BY <1>8 DEF Leave, At
  <2> QED
    BY <2>1, GotoFields, LoginGoesOn DEF LoginInv, Authorized
<1> QED
  BY <1>1, <1>2, <1>4, <1>5, <1>6, <1>7, <1>8 DEF LoginStep

\* Ending sessions authorizes none.
LEMMA SessionsEnd ==
    ASSUME LoginInv, (\E s \in Sessions : TerminateSession(s))
                     \/ (\E s \in clients : GetSessions(s)) \/ TerminateNext
    PROVE  /\ server' \in [Sessions -> {"unknown", "accepted", "authorized", "terminated"}]
           /\ Authorized' \subseteq Authorized
BY DEF LoginInv, TerminateSession, GetSessions, TerminateNext, Authorized

\* Every step of the program keeps the invariant.
LEMMA LoginNext == LoginInv /\ [Next]_vars => LoginInv'
<1> SUFFICES ASSUME LoginInv, [Next]_vars PROVE LoginInv'
  OBVIOUS
<1>0. ASSUME UNCHANGED <<server, login>> PROVE LoginInv'
  BY <1>0, LoginAlone DEF LoginInv, Authorized
<1>1. CASE UNCHANGED vars
  BY <1>0, <1>1 DEF vars, loginVars
<1>2. CASE DeskCall \/ DeskStep
  BY <1>0, <1>2 DEF DeskCall, DeskStep, loginVars
<1>3. CASE ConversionCall
  <2>1. ASSUME NEW for, NEW api, NEW s, UseClient(for, s, api) PROVE LoginInv'
    BY <1>0, <2>1 DEF UseClient, loginVars
  <2>2. ASSUME NEW for, NEW api, NEW s, FromTelethon(for, s, api) PROVE LoginInv'
    BY <2>2, LoginBegins DEF FromTelethon
  <2>3. ASSUME NEW toFile, UseMain(toFile) PROVE LoginInv'
    BY <1>0, <2>3 DEF UseMain
  <2>4. ASSUME NEW toFile, NEW api, FromTDesktop(api, toFile) PROVE LoginInv'
    BY <2>4, LoginBegins DEF FromTDesktop
  <2>5. CASE OpenFile
    BY <1>0, <2>5 DEF OpenFile, loginVars
  <2> QED
    BY <1>3, <2>1, <2>2, <2>3, <2>4, <2>5 DEF ConversionCall
<1>4. CASE ServerCall \/ SweepStep
  BY <1>4, SessionsEnd, LoginAlone DEF ServerCall, SweepStep
<1>5. CASE LoginStep
  BY <1>5, LoginSteps
<1>6. CASE Convert \/ Returned \/ Raised \/ Exit
  BY <1>6, LoginOver DEF Convert, Returned, Raised, Exit
<1> QED
  BY <1>1, <1>2, <1>3, <1>4, <1>5, <1>6 DEF Next

\* However often a login asks again, whatever fails, and whatever else the
\* program and the owner of the account do meanwhile, the login authorizes
\* one session at most.
THEOREM OneNewSessionALogin == Spec => []OneNewSession
<1>1. Init => LoginInv
  BY LoginInit
<1>2. LoginInv /\ [Next]_vars => LoginInv'
  BY LoginNext
<1>3. LoginInv => OneNewSession
  <2> SUFFICES ASSUME LoginInv, ~At("idle")
              PROVE  Cardinality(Authorized \ login.before) <= 1
    BY DEF OneNewSession
  <2>1. Authorized \ login.before \subseteq {login.key}
    BY DEF LoginInv, NewSessions
  <2>2. IsFiniteSet({login.key}) /\ Cardinality({login.key}) = 1
    BY FS_Singleton
  <2>3. /\ Cardinality(Authorized \ login.before) <= Cardinality({login.key})
    BY <2>1, <2>2, FS_Subset
  <2> QED
    BY <2>2, <2>3
<1> QED
  BY <1>1, <1>2, <1>3, PTL DEF Spec

-----------------------------------------------------------------------------
(* How a login ends *)

\* The sessions the server has authorized at some time.
Real == {s \in Sessions : server[s] \in {"authorized", "terminated"}}

\* The session of the login has been authorized, with the API asked for.
Given == login.key \in Real /\ apiOf[login.key] = login.api

\* What is known of the session of a login at each of its points: a token is
\* accepted once, for a session that nobody has logged in yet or for that of a
\* file whose check did not see that it is logged in.
PointsHold ==
    /\ login.key \in Sessions
    /\ login.for # "client" => ~login.toFile
    /\ At("connect") \/ At("check") => /\ login.toFile \/ server[login.key] = "unknown"
                                     /\ ~login.unseen
    /\ login.unseen => login.toFile /\ login.key \in Real \cap login.before
    /\ login.at \in {"connect", "check", "ask"} => login.attempt = 0 \/ login.timedOut
    /\ At("accept") => server[login.key] = "unknown" \/ login.unseen
    /\ At("wait") \/ At("password") => server[login.key] = "accepted" \/ login.unseen
    /\ At("leave") => login.timedOut \/ Given \/ login.unseen
    /\ At("returned") => /\ login.key \in Real
                         /\ login.unseen \/ apiId(apiOf[login.key]) = apiId(login.api)
                         /\ login.toFile \/ Given
    /\ login.at \in Ends \ {"returned", "TimeoutError", "RequestError"} =>
          Authorized \subseteq login.before

EndInv ==
    /\ LoginInv
    /\ apiOf = [s \in Sessions |-> apiOf[s]]
    /\ file \in Sessions \cup {NoSession}
    /\ ~At("idle") => PointsHold

\* A session that has been authorized stays so until it is ended.
InUseStays == \A s \in Real : s \in Real'

\* Sessions are ended, and no more.
OnlyEnds ==
    /\ apiOf' = apiOf
    /\ server' \in [Sessions -> {"unknown", "accepted", "authorized", "terminated"}]
    /\ \A s \in Sessions : \/ server'[s] = server[s]
                           \/ server[s] = "authorized" /\ server'[s] = "terminated"

LEMMA EndInit == Init => EndInv
BY LoginInit DEF Init, EndInv, NoLogin, At

\* What ends sessions leaves the others alone.
LEMMA EndsOnly ==
    ASSUME LoginInv, (\E s \in Sessions : TerminateSession(s))
                     \/ (\E s \in clients : GetSessions(s)) \/ TerminateNext
    PROVE  OnlyEnds
BY DEF LoginInv, TerminateSession, GetSessions, TerminateNext, OnlyEnds

\* A login is where it was when sessions end.
LEMMA PointsStay ==
    ASSUME EndInv, LoginInv', OnlyEnds, UNCHANGED login,
           file' \in Sessions \cup {NoSession}
    PROVE  EndInv' /\ InUseStays
<1>1. InUseStays
  BY DEF InUseStays, OnlyEnds, Real
<1>2. apiOf' = [s \in Sessions |-> apiOf'[s]]
  BY DEF EndInv, OnlyEnds
<1>3. ASSUME ~At("idle") PROVE PointsHold'
  <2>1. PointsHold
    BY <1>3 DEF EndInv
  <2>2. Authorized' \subseteq Authorized
    BY DEF OnlyEnds, Authorized
  <2>3. /\ login.key \in Sessions
        /\ server[login.key] \in {"unknown", "accepted"} => server'[login.key] = server[login.key]
    BY <2>1 DEF PointsHold, OnlyEnds
  <2>4. Given => Given'
    BY <1>1 DEF Given, InUseStays, OnlyEnds
  <2>5. login.key \in Real => login.key \in Real' /\ apiOf'[login.key] = apiOf[login.key]
    BY <1>1 DEF InUseStays, OnlyEnds
  <2> QED
    BY <2>1, <2>2, <2>3, <2>4, <2>5 DEF PointsHold, At
<1> QED
  BY <1>1, <1>2, <1>3 DEF EndInv, At

\* No login, nothing to know of it.
LEMMA PointsOver ==
    ASSUME EndInv, login' = NoLogin, UNCHANGED <<server, apiOf>>,
           file' \in Sessions \cup {NoSession}
    PROVE  EndInv' /\ InUseStays
<1>1. LoginInv'
  BY LoginOver DEF EndInv
<1> QED
  BY <1>1 DEF EndInv, InUseStays, Real, NoLogin, At

\* A login begins with the session of the file or with one nobody knows.
LEMMA PointsBegin ==
    ASSUME EndInv, NEW by, NEW api, NEW toFile, NEW for, for # "client" => ~toFile,
           QRLoginToNewClient(by, api, toFile, for)
    PROVE  EndInv' /\ InUseStays
<1>1. PICK s : /\ s \in IF toFile /\ file # NoSession THEN {file}
                        ELSE {k \in FreshKeys : \A l \in FreshKeys : k <= l}
               /\ login' = [ at |-> "connect", key |-> s, by |-> by, api |-> api,
                             toFile |-> toFile, for |-> for, attempt |-> 0, timedOut |-> FALSE,
                             unseen |-> FALSE, before |-> Authorized ]
  BY DEF QRLoginToNewClient
<1>2. UNCHANGED <<server, apiOf, file>>
  BY DEF QRLoginToNewClient
<1>3. s \in Sessions /\ (toFile \/ server[s] = "unknown")
  BY <1>1 DEF EndInv, FreshKeys
<1>4. LoginInv'
  BY LoginBegins DEF EndInv
<1>5. PointsHold'
  BY <1>1, <1>2, <1>3 DEF PointsHold, At, Ends
<1> QED
  BY <1>2, <1>4, <1>5 DEF EndInv, InUseStays, Real

\* The session of a login is authorized with the API asked for.
LEMMA AuthorizeNew ==
    ASSUME EndInv, ~At("idle"), Authorize
    PROVE  /\ InUseStays
           /\ login.key \in Real' /\ apiOf'[login.key] = login.api
           /\ apiOf' = [s \in Sessions |-> apiOf'[s]]
<1>1. login.key \in Sessions
  BY DEF EndInv, PointsHold
<1>2. /\ server \in [Sessions -> {"unknown", "accepted", "authorized", "terminated"}]
      /\ apiOf = [s \in Sessions |-> apiOf[s]]
  BY DEF EndInv, LoginInv
<1> QED
  BY <1>1, <1>2 DEF Authorize, InUseStays, Real

\* Every step of a login keeps what is known of it.
LEMMA PointsSteps ==
    ASSUME EndInv, LoginStep
    PROVE  EndInv' /\ InUseStays
<1>0. /\ LoginInv /\ LoginInv' /\ IsLogin
      /\ server \in [Sessions -> {"unknown", "accepted", "authorized", "terminated"}]
      /\ apiOf = [s \in Sessions |-> apiOf[s]]
      /\ file \in Sessions \cup {NoSession}
  BY LoginSteps DEF EndInv, LoginInv
<1>1. ASSUME UNCHANGED <<server, apiOf>>, file' \in Sessions \cup {NoSession}, PointsHold'
      PROVE  EndInv' /\ InUseStays
  BY <1>0, <1>1 DEF EndInv, InUseStays, Real
<1>2. ASSUME InUseStays, apiOf' = [s \in Sessions |-> apiOf'[s]], UNCHANGED file, PointsHold'
      PROVE  EndInv' /\ InUseStays
  BY <1>0, <1>2 DEF EndInv
<1>3. CASE Connect
  <2>1. ~At("idle") /\ At("connect") /\ UNCHANGED <<server, apiOf>> /\ PointsHold
    BY <1>3 DEF Connect, At, EndInv
  <2>2. file' \in Sessions \cup {NoSession}
    BY <1>0, <1>3, <2>1 DEF Connect, PointsHold
  <2>3. Authorized \subseteq login.before
    BY <1>0, <2>1 DEF LoginInv, NewSessions
  <2>4. Goto("check") \/ Goto("CannotConnect")
    BY <1>3 DEF Connect
  <2>5. PointsHold'
    BY <1>0, <2>1, <2>3, <2>4, GotoFields DEF PointsHold, At, SameCall, Authorized, Ends
  <2> QED
    BY <1>1, <2>1, <2>2, <2>5
<1>4. CASE CheckFile
  <2>1. ~At("idle") /\ At("check") /\ UNCHANGED <<server, apiOf>> /\ PointsHold
    BY <1>4 DEF CheckFile, At, EndInv
  <2>2. file' \in Sessions \cup {NoSession}
    BY <1>0, <1>4 DEF CheckFile
  <2>3. CASE Goto("ask")
    <3>1. PointsHold'
      BY <1>0, <2>1, <2>3, GotoFields DEF PointsHold, At, SameCall, Ends
    <3> QED
      BY <1>1, <2>1, <2>2, <3>1
  <2>4. CASE /\ server[login.key] = "authorized"
             /\ apiId(apiOf[login.key]) = apiId(login.api)
             /\ Goto("returned")
    <3>1. login.toFile /\ login.key \in Real
      BY <2>1, <2>4 DEF PointsHold, Real
    <3>2. /\ login'.at = "returned" /\ login'.key = login.key /\ SameCall
          /\ login'.unseen = login.unseen
      BY <1>0, <2>1, <2>4, GotoFields
    <3>3. Real' = Real
      BY <2>1 DEF Real
    <3>4. PointsHold'
      BY <2>1, <2>4, <3>1, <3>2, <3>3 DEF PointsHold, At, SameCall, Ends
    <3> QED
      BY <1>1, <2>1, <2>2, <3>4
  <2>5. CASE \E s \in FreshKeys : login' = [login EXCEPT !.at = "connect", !.key = s]
    <3>1. PICK s \in FreshKeys : login' = [login EXCEPT !.at = "connect", !.key = s]
      BY <2>5
    <3>2. login # NoLogin
      BY <2>1 DEF At, NoLogin
    <3>3. /\ login'.at = "connect" /\ login'.key = s /\ SameCall
          /\ login'.attempt = login.attempt /\ login'.timedOut = login.timedOut
          /\ login'.unseen = login.unseen
      BY <1>0, <3>1, <3>2 DEF IsLogin, SameCall
    <3>4. s \in Sessions /\ server[s] = "unknown"
      BY DEF FreshKeys
    <3>5. PointsHold'
      BY <2>1, <3>3, <3>4 DEF PointsHold, At, SameCall, Ends
    <3> QED
      BY <1>1, <2>1, <2>2, <3>5
  <2>6. CASE server[login.key] = "authorized" /\ login' = [login EXCEPT !.at = "ask", !.unseen = TRUE]
    <3>1. login # NoLogin
      BY <2>1 DEF At, NoLogin
    <3>2. /\ login'.at = "ask" /\ login'.key = login.key /\ SameCall
          /\ login'.before = login.before /\ login'.unseen
          /\ login'.attempt = login.attempt /\ login'.timedOut = login.timedOut
      BY <1>0, <2>6, <3>1 DEF IsLogin, SameCall
    <3>3. login.toFile /\ login.key \in Real
      BY <2>1, <2>6 DEF PointsHold, Real
    <3>4. login.key \in login.before
      BY <1>0, <2>1, <2>6, <3>3 DEF LoginInv, NewSessions, Authorized, Real
    <3>5. Real' = Real
      BY <2>1 DEF Real
    <3>6. PointsHold'
      BY <2>1, <3>2, <3>3, <3>4, <3>5 DEF PointsHold, At, SameCall, Ends
    <3> QED
      BY <1>1, <2>1, <2>2, <3>6
  <2>7. CASE CallFails
    <3>1. Real' = Real
      BY <2>1 DEF Real
    <3>2. PointsHold'
      BY <1>0, <2>1, <2>7, <3>1, GotoFields DEF CallFails, PointsHold, At, SameCall, Ends
    <3> QED
      BY <1>1, <2>1, <2>2, <3>2
  <2> QED
    BY <1>4, <2>3, <2>4, <2>5, <2>6, <2>7 DEF CheckFile
<1>5. ASSUME Nothing, ~At("idle"), UNCHANGED file PROVE EndInv' /\ InUseStays
  <2>1. PointsHold
    BY <1>5 DEF EndInv
  <2>2. UNCHANGED <<server, apiOf>> /\ login' \in Failed(login)
    BY <1>5 DEF Nothing
  <2>3. PointsHold'
    <3>1. Real' = Real
      BY <2>2 DEF Real
    <3> QED
      BY <1>0, <1>5, <2>1, <2>2, <3>1, FailedFields DEF PointsHold, At, SameCall, Ends
  <2> QED
    BY <1>0, <1>1, <1>5, <2>2, <2>3
<1>6. ASSUME Authorize, ~At("idle"), UNCHANGED file,
             Done("leave") \/ Goto("leave") \/ CallFails
      PROVE  EndInv' /\ InUseStays
  <2>1. PointsHold
    BY <1>6 DEF EndInv
  <2>2. /\ InUseStays /\ login.key \in Real' /\ apiOf'[login.key] = login.api
        /\ apiOf' = [s \in Sessions |-> apiOf'[s]]
    BY <1>6, AuthorizeNew
  <2>3. /\ login'.key = login.key /\ SameCall
        /\ login'.unseen = login.unseen /\ login'.before = login.before
        /\ login'.at \in {"ask", "leave", "RequestError", "TimeoutError"}
        /\ login'.at = "ask" => login'.timedOut
    BY <1>0, <1>6, GotoFields, DoneFields DEF CallFails
  <2>4. Given'
    BY <2>2, <2>3 DEF Given, SameCall
  <2>5. PointsHold'
    BY <2>1, <2>2, <2>3, <2>4 DEF PointsHold, At, SameCall, Ends
  <2> QED
    BY <1>2, <1>6, <2>2, <2>5
<1>7. ASSUME UNCHANGED <<server, apiOf, file>>, ~At("idle"), PointsHold' PROVE EndInv' /\ InUseStays
  BY <1>0, <1>1, <1>7
<1>8. CASE Ask
  <2>1. ~At("idle") /\ At("ask") /\ PointsHold /\ UNCHANGED file
    BY <1>8 DEF Ask, At, EndInv
  <2>2. CASE (login.attempt > 0 \/ login.unseen) /\ Goto("leave") /\ UNCHANGED <<server, apiOf>>
    <3>1. login.timedOut \/ login.unseen
      BY <2>1, <2>2 DEF PointsHold, At
    <3>2. /\ login'.at = "leave" /\ login'.key = login.key /\ SameCall
          /\ login'.timedOut = login.timedOut /\ login'.unseen = login.unseen
          /\ login'.before = login.before
      BY <1>0, <2>1, <2>2, GotoFields
    <3>3. PointsHold'
      BY <2>1, <2>2, <3>1, <3>2 DEF PointsHold, At, SameCall, Ends, Real
    <3> QED
      BY <1>7, <2>1, <2>2, <3>3
  <2>3. CASE (server[login.key] = "unknown" \/ login.unseen) /\ Goto("accept") /\ UNCHANGED <<server, apiOf>>
    <3>1. PointsHold'
      BY <1>0, <2>1, <2>3, GotoFields DEF PointsHold, At, SameCall, Ends, Real
    <3> QED
      BY <1>7, <2>1, <2>3, <3>1
  <2>4. CASE server[login.key] = "accepted" /\ Goto("password") /\ UNCHANGED <<server, apiOf>>
    <3>1. PointsHold'
      BY <1>0, <2>1, <2>4, GotoFields DEF PointsHold, At, SameCall, Ends, Real
    <3> QED
      BY <1>7, <2>1, <2>4, <3>1
  <2> QED
    BY <1>5, <1>6, <1>8, <2>1, <2>2, <2>3, <2>4 DEF Ask
<1>9. CASE Accept
  <2>1. ~At("idle") /\ At("accept") /\ PointsHold /\ UNCHANGED file
    BY <1>9 DEF Accept, At, EndInv
  <2>2. CASE /\ server' = [server EXCEPT ![login.key] = IF @ = "unknown" THEN "accepted" ELSE @]
             /\ Done("wait") /\ UNCHANGED apiOf
    <3>1. login.key \in Sessions /\ (server[login.key] = "unknown" \/ login.unseen)
      BY <2>1 DEF PointsHold
    <3>2. InUseStays /\ (server'[login.key] = "accepted" \/ login.unseen)
      BY <1>0, <2>2, <3>1 DEF InUseStays, Real
    <3>3. /\ login'.key = login.key /\ SameCall
          /\ login'.unseen = login.unseen /\ login'.before = login.before
          /\ login'.at \in {"wait", "ask", "leave", "RequestError"}
          /\ login'.at \in {"ask", "leave"} => login'.timedOut
      BY <1>0, <2>1, <2>2, DoneFields
    <3>4. PointsHold'
      BY <2>1, <3>1, <3>2, <3>3 DEF PointsHold, At, SameCall, Ends, InUseStays
    <3>5. apiOf' = [s \in Sessions |-> apiOf'[s]]
      BY <1>0, <2>2
    <3> QED
      BY <1>2, <2>1, <3>2, <3>4, <3>5
  <2>3. CASE Goto("AuthToken") /\ UNCHANGED <<server, apiOf>>
    <3>1. login.key \notin Authorized \/ login.key \in login.before
      BY <2>1 DEF PointsHold, Authorized
    <3>2. Authorized \subseteq login.before
      BY <1>0, <2>1, <3>1 DEF LoginInv, NewSessions
    <3>3. PointsHold'
      BY <1>0, <2>1, <2>3, <3>2, GotoFields DEF PointsHold, At, SameCall, Ends, Authorized, Real
    <3> QED
      BY <1>7, <2>1, <2>3, <3>3
  <2> QED
    BY <1>5, <1>9, <2>1, <2>2, <2>3 DEF Accept
<1>10. CASE Wait
  <2>1. ~At("idle") /\ At("wait") /\ PointsHold /\ UNCHANGED file
    BY <1>10 DEF Wait, At, EndInv
  <2>2. server[login.key] = "accepted" \/ login.unseen
    BY <2>1 DEF PointsHold
  <2>3. CASE Goto("password") /\ UNCHANGED <<server, apiOf>>
    <3>1. PointsHold'
      BY <1>0, <2>1, <2>2, <2>3, GotoFields DEF PointsHold, At, SameCall, Ends, Real
    <3> QED
      BY <1>7, <2>1, <2>3, <3>1
  <2> QED
    BY <1>5, <1>6, <1>10, <2>1, <2>3 DEF Wait
<1>11. CASE Password
  <2>1. ~At("idle") /\ At("password") /\ PointsHold /\ UNCHANGED file
    BY <1>11 DEF Password, At, EndInv
  <2>2. server[login.key] = "accepted" \/ login.key \in login.before
    BY <2>1 DEF PointsHold
  <2>3. Authorized \subseteq login.before
    BY <1>0, <2>1, <2>2 DEF LoginInv, NewSessions, Authorized
  <2>4. CASE /\ \/ Goto("NoPasswordProvided") \/ Goto("PasswordIncorrect")
                \/ Goto("TimeoutError") \/ Goto("RequestError")
             /\ UNCHANGED <<server, apiOf>>
    <3>1. PointsHold'
      BY <1>0, <2>1, <2>3, <2>4, GotoFields DEF PointsHold, At, SameCall, Ends, Authorized, Real
    <3> QED
      BY <1>7, <2>1, <2>4, <3>1
  <2>5. CASE Authorize /\ (Goto("leave") \/ CallFails)
    BY <1>6, <2>1, <2>5
  <2> QED
    BY <1>11, <2>4, <2>5 DEF Password, CallFails
<1>12. CASE Leave
  <2>1. ~At("idle") /\ At("leave") /\ PointsHold /\ UNCHANGED <<server, apiOf, file>>
    BY <1>12 DEF Leave, At, EndInv
  <2>2. CASE login.timedOut /\ Goto("TimeoutError")
    <3>1. /\ login'.at = "TimeoutError" /\ login'.key = login.key /\ SameCall
          /\ login'.unseen = login.unseen /\ login'.before = login.before
      BY <1>0, <2>1, <2>2, GotoFields
    <3>2. PointsHold'
      BY <2>1, <3>1 DEF PointsHold, At, SameCall, Ends, Real
    <3> QED
      BY <1>7, <2>1, <3>2
  <2>3. CASE ~login.timedOut /\ Goto("returned")
    <3>1. Given \/ login.unseen
      BY <2>1, <2>3 DEF PointsHold
    <3>2. PointsHold'
      BY <1>0, <2>1, <2>3, <3>1, GotoFields DEF PointsHold, At, SameCall, Ends, Given, Real
    <3> QED
      BY <1>7, <2>1, <3>2
  <2> QED
    BY <1>12, <2>2, <2>3 DEF Leave
<1> QED
  BY <1>3, <1>4, <1>8, <1>9, <1>10, <1>11, <1>12 DEF LoginStep

-----------------------------------------------------------------------------
(* The sessions of the folder and of the object, and their APIs *)

IsSeq(s) == s \in Seq(ToSet(s))

\* A file of the folder, or one that is to be written, when its sessions are
\* among S.
FileHolds(p, f, S) ==
    /\ p[1] = "key" => IsSeq(f.indexes)
    /\ p[1] = "mtp" => f.session \in S \cup {NoSession}

IsAccount(a) ==
    a = [ index |-> a.index, session |-> a.session, api |-> a.api, local |-> a.local,
          name |-> a.name, ownKeyFile |-> a.ownKeyFile, map |-> a.map, config |-> a.config ]

IsDesk(d) ==
    d = [ accounts |-> d.accounts, base |-> d.base, keyFile |-> d.keyFile,
          passcode |-> d.passcode, main |-> d.main, active |-> d.active, local |-> d.local,
          sealed |-> d.sealed, loaded |-> d.loaded, api |-> d.api ]

\* An object whose accounts hold sessions of S, with its own API.
DeskHolds(d, S) ==
    /\ IsDesk(d)
    /\ IsSeq(d.accounts)
    /\ d.keyFile \in KeyFiles \cup {"data"}
    /\ d.main \in S \cup {NoSession}
    /\ \A i \in DOMAIN d.accounts :
          /\ IsAccount(d.accounts[i])
          /\ d.accounts[i].session \in S
          /\ d.accounts[i].api = d.api

DiskHolds(S) ==
    /\ DOMAIN disk = Paths(Names)
    /\ \A p \in Paths(Names) : disk[p] \notin {Absent, Torn} => FileHolds(p, disk[p], S)

SavingHolds(S) ==
    /\ saving = [writes |-> saving.writes, ends |-> saving.ends]
    /\ IsSeq(saving.writes)
    /\ \A w \in ToSet(saving.writes) : FileHolds(w[1], w[2], S)

FolderInv ==
    /\ DiskHolds(Real)
    /\ SavingHolds(Real)
    /\ clients \subseteq Real
    /\ desk # NoDesk => DeskHolds(desk, Real)

\* An object that holds the same accounts as another one.
SameAccounts(d, e) ==
    /\ DOMAIN e.accounts = DOMAIN d.accounts
    /\ e.api = d.api
    /\ \A i \in DOMAIN d.accounts : e.accounts[i].session = d.accounts[i].session

\* A sequence of some elements is one.
LEMMA SeqIsSeq ==
    ASSUME NEW S, NEW s \in Seq(S)
    PROVE  IsSeq(s) /\ ToSet(s) \subseteq S
BY DEF IsSeq, ToSet

\* The sequence of one element.
LEMMA OneIsSeq ==
    ASSUME NEW S, NEW x \in S
    PROVE  <<x>> \in Seq(S) /\ <<>> \in Seq(S)
OBVIOUS

\* A new object holds nothing.
LEMMA NewHolds ==
    ASSUME NEW S, NEW api
    PROVE  DeskHolds(NewTDesktop(api), S) /\ NewTDesktop(api).accounts = <<>>
           /\ NewTDesktop(api).api = api
BY DEF DeskHolds, NewTDesktop, IsDesk, IsSeq, ToSet

\* An account with another API, localKey or keyFile has its session still.
LEMMA AccountFields ==
    ASSUME NEW a, IsAccount(a), NEW x
    PROVE  /\ LET e == [a EXCEPT !.api = x]
              IN  IsAccount(e) /\ e.api = x /\ e.session = a.session
           /\ LET e == [a EXCEPT !.local = x]
              IN  IsAccount(e) /\ e.api = a.api /\ e.session = a.session
           /\ LET e == [a EXCEPT !.ownKeyFile = x]
              IN  IsAccount(e) /\ e.api = a.api /\ e.session = a.session
BY DEF IsAccount

\* An account that is added has a session of S.
LEMMA AddHolds ==
    ASSUME NEW S, NEW d, DeskHolds(d, S), NEW session \in S, NEW api
    PROVE  LET e == Added(d, session, api)
           IN  /\ DeskHolds(e, S) /\ e.api = api
               /\ DOMAIN e.accounts = DOMAIN d.accounts \cup {Len(d.accounts) + 1}
               /\ e.accounts[Len(d.accounts) + 1].session = session
               /\ \A i \in DOMAIN d.accounts : e.accounts[i].session = d.accounts[i].session
<1> DEFINE old == SetApi(d.accounts, api)
           new == NewAccount(d, session, api)
           all == Append(old, new)
           T == {old[i] : i \in DOMAIN d.accounts} \cup {new}
<1>1. d.accounts \in Seq(ToSet(d.accounts)) /\ DOMAIN d.accounts = 1 .. Len(d.accounts)
      /\ Len(d.accounts) \in Nat
  BY DEF DeskHolds, IsSeq
<1>2. old = [i \in 1 .. Len(d.accounts) |-> [d.accounts[i] EXCEPT !.api = api]]
  BY <1>1 DEF SetApi
<1> HIDE DEF old
<1>3. \A i \in DOMAIN d.accounts : /\ IsAccount(old[i]) /\ old[i].api = api
                                   /\ old[i].session = d.accounts[i].session
  <2> TAKE i \in DOMAIN d.accounts
  <2>1. IsAccount(d.accounts[i])
    BY DEF DeskHolds
  <2>2. old[i] = [d.accounts[i] EXCEPT !.api = api]
    BY <1>1, <1>2
  <2>3. LET e == [d.accounts[i] EXCEPT !.api = api]
        IN  IsAccount(e) /\ e.api = api /\ e.session = d.accounts[i].session
    BY <2>1, AccountFields
  <2> QED
    BY <2>2, <2>3
<1>4. IsAccount(new) /\ new.api = api /\ new.session = session
  BY DEF NewAccount, IsAccount
<1> HIDE DEF new
<1>5. old \in Seq(T) /\ Len(old) = Len(d.accounts)
  <2>1. \A i \in 1 .. Len(d.accounts) : old[i] \in T
    BY <1>1
  <2>2. old \in [1 .. Len(d.accounts) -> T]
    BY <1>2, <2>1
  <2> HIDE DEF T
  <2> QED
    BY <1>1, <2>2
<1>6. /\ all \in Seq(T) /\ Len(all) = Len(d.accounts) + 1
      /\ \A i \in 1 .. Len(d.accounts) : all[i] = old[i]
      /\ all[Len(d.accounts) + 1] = new
  BY <1>1, <1>5
<1>7. /\ DOMAIN all = DOMAIN d.accounts \cup {Len(d.accounts) + 1}
      /\ \A i \in DOMAIN all : IsAccount(all[i]) /\ all[i].api = api /\ all[i].session \in S
  BY <1>1, <1>3, <1>4, <1>6 DEF DeskHolds
<1>8. IsSeq(all)
  BY <1>6, SeqIsSeq
<1>9. Head(all) = all[1] /\ 1 \in DOMAIN all
  BY <1>1, <1>6
<1> HIDE DEF all, T
<1>10. Added(d, session, api) =
          [d EXCEPT !.accounts = all, !.api = api,
                    !.main = IF @ = NoSession THEN Head(all).session ELSE @]
  BY DEF Added, all, old, new
<1>11. DeskHolds(Added(d, session, api), S) /\ Added(d, session, api).api = api
       /\ Added(d, session, api).accounts = all
  BY <1>7, <1>8, <1>9, <1>10 DEF DeskHolds, IsDesk
<1> QED
  BY <1>1, <1>3, <1>4, <1>6, <1>7, <1>11

\* An object whose accounts are changed in other fields holds the same ones.
LEMMA ChangedHolds ==
    ASSUME NEW S, NEW d, NEW e, DeskHolds(d, S), IsDesk(e),
           e.keyFile \in KeyFiles \cup {"data"}, e.main = d.main, e.api = d.api,
           DOMAIN e.accounts = DOMAIN d.accounts,
           e.accounts = [i \in DOMAIN e.accounts |-> e.accounts[i]],
           \A i \in DOMAIN d.accounts : /\ IsAccount(e.accounts[i])
                                        /\ e.accounts[i].session = d.accounts[i].session
                                        /\ e.accounts[i].api = d.accounts[i].api
    PROVE  DeskHolds(e, S) /\ SameAccounts(d, e)
<1>1. DOMAIN d.accounts = 1 .. Len(d.accounts) /\ Len(d.accounts) \in Nat
  BY DEF DeskHolds, IsSeq
<1> DEFINE n == Len(d.accounts)
           T == {e.accounts[i] : i \in 1 .. n}
<1>2. e.accounts \in [1 .. n -> T]
  BY <1>1
<1> HIDE DEF T
<1>3. e.accounts \in Seq(T)
  BY <1>1, <1>2
<1>4. IsSeq(e.accounts)
  BY <1>3, SeqIsSeq
<1> QED
  BY <1>4 DEF DeskHolds, SameAccounts

\* A new localKey leaves the sessions and the API alone.
LEMMA GenerateHolds ==
    ASSUME NEW S, NEW d, DeskHolds(d, S), NEW e \in GenerateLocalKey(d)
    PROVE  DeskHolds(e, S) /\ SameAccounts(d, e)
<1>0. IsDesk(d) /\ IsSeq(d.accounts)
  BY DEF DeskHolds
<1>1. CASE e = [d EXCEPT !.local = FixedKey, !.loaded = TRUE,
                         !.sealed = [key |-> CreateLocalKey(""), local |-> FixedKey]]
  <2>1. /\ IsDesk(e) /\ e.accounts = d.accounts /\ e.keyFile = d.keyFile
        /\ e.main = d.main /\ e.api = d.api
    BY <1>0, <1>1 DEF IsDesk
  <2> QED
    BY <2>1 DEF DeskHolds, SameAccounts
<1>2. CASE \E k \in FreshKey :
              e = [d EXCEPT !.local = k, !.loaded = TRUE,
                            !.sealed = [key |-> CreateLocalKey(d.passcode), local |-> k],
                            !.accounts = [i \in DOMAIN @ |-> [@[i] EXCEPT !.local = k]]]
  <2>1. PICK k : e = [d EXCEPT !.local = k, !.loaded = TRUE,
                               !.sealed = [key |-> CreateLocalKey(d.passcode), local |-> k],
                               !.accounts = [i \in DOMAIN @ |-> [@[i] EXCEPT !.local = k]]]
    BY <1>2
  <2> DEFINE all == [i \in DOMAIN d.accounts |-> [d.accounts[i] EXCEPT !.local = k]]
  <2>2. all = [i \in DOMAIN all |-> all[i]] /\ DOMAIN all = DOMAIN d.accounts
    OBVIOUS
  <2>3. \A i \in DOMAIN d.accounts : /\ IsAccount(all[i]) /\ all[i].api = d.accounts[i].api
                                     /\ all[i].session = d.accounts[i].session
    <3> TAKE i \in DOMAIN d.accounts
    <3>1. IsAccount(d.accounts[i])
      BY DEF DeskHolds
    <3>2. LET a == [d.accounts[i] EXCEPT !.local = k]
          IN  IsAccount(a) /\ a.api = d.accounts[i].api /\ a.session = d.accounts[i].session
      BY <3>1, AccountFields
    <3> QED
      BY <3>2
  <2> HIDE DEF all
  <2>4. e = [d EXCEPT !.local = k, !.loaded = TRUE,
                      !.sealed = [key |-> CreateLocalKey(d.passcode), local |-> k],
                      !.accounts = all]
    BY <1>0, <2>1 DEF IsDesk, all
  <2>5. /\ IsDesk(e) /\ e.accounts = all /\ e.keyFile = d.keyFile
        /\ e.main = d.main /\ e.api = d.api
    BY <1>0, <2>4 DEF IsDesk
  <2>6. d.keyFile \in KeyFiles \cup {"data"}
    BY DEF DeskHolds
  <2> QED
    BY <2>2, <2>3, <2>5, <2>6, ChangedHolds
<1> QED
  BY <1>1, <1>2 DEF GenerateLocalKey

\* The object a save works with holds the accounts of the object.
LEMMA PreparedHolds ==
    ASSUME NEW S, DeskHolds(desk, S), NEW p, NEW k \in KeyFiles \cup {"none"},
           NEW d \in Prepared(p, k)
    PROVE  DeskHolds(d, S)
<1> DEFINE named == [desk EXCEPT !.keyFile = IF k = "none" THEN @ ELSE k]
           other == [named EXCEPT !.passcode = p, !.loaded = FALSE]
<1>1. IsDesk(desk)
  BY DEF DeskHolds
<1>2. /\ IsDesk(named) /\ named.accounts = desk.accounts /\ named.main = desk.main
      /\ named.api = desk.api /\ named.keyFile \in KeyFiles \cup {"data"}
  BY <1>1 DEF IsDesk, DeskHolds
<1>3. PICK e \in {named, other} : d = e \/ d \in GenerateLocalKey(e)
  BY DEF Prepared
<1> HIDE DEF named
<1>4. /\ IsDesk(other) /\ other.accounts = desk.accounts /\ other.main = desk.main
      /\ other.api = desk.api /\ other.keyFile \in KeyFiles \cup {"data"}
  <2>1. other = [named EXCEPT !.passcode = p, !.loaded = FALSE]
    OBVIOUS
  <2> HIDE DEF other
  <2> QED
    BY <1>2, <2>1 DEF IsDesk
<1> HIDE DEF other
<1>5. DeskHolds(named, S) /\ DeskHolds(other, S)
  BY <1>1, <1>2, <1>4 DEF DeskHolds
<1>6. DeskHolds(e, S)
  BY <1>5
<1> QED
  BY <1>3, <1>6, GenerateHolds

\* The name of a keyFile leaves the sessions and the API alone.
LEMMA RenamedHolds ==
    ASSUME NEW S, NEW d, DeskHolds(d, S), NEW k, NEW n
    PROVE  DeskHolds(Renamed(d, k, n), S)
<1>0. IsDesk(d) /\ IsSeq(d.accounts) /\ d.keyFile \in KeyFiles \cup {"data"}
  BY DEF DeskHolds
<1>1. CASE k = "none"
  BY <1>1 DEF Renamed
<1>2. CASE k # "none"
  <2> DEFINE e == Renamed(d, k, n)
             all == [i \in DOMAIN d.accounts |->
                        IF /\ \A j \in 1 .. i - 1 : Writes(d.accounts[j])
                           /\ (i - 1) * FilesOfAccount <= n
                        THEN [d.accounts[i] EXCEPT !.ownKeyFile = ComposeDataString(k, 0)]
                        ELSE d.accounts[i]]
  <2>1. e = [d EXCEPT !.accounts = all]
    BY <1>0, <1>2 DEF Renamed, IsDesk
  <2>2. all = [i \in DOMAIN all |-> all[i]] /\ DOMAIN all = DOMAIN d.accounts
    OBVIOUS
  <2>3. \A i \in DOMAIN d.accounts : /\ IsAccount(all[i]) /\ all[i].api = d.accounts[i].api
                                     /\ all[i].session = d.accounts[i].session
    <3> TAKE i \in DOMAIN d.accounts
    <3>1. IsAccount(d.accounts[i])
      BY DEF DeskHolds
    <3>2. LET a == [d.accounts[i] EXCEPT !.ownKeyFile = ComposeDataString(k, 0)]
          IN  IsAccount(a) /\ a.api = d.accounts[i].api /\ a.session = d.accounts[i].session
      BY <3>1, AccountFields
    <3>3. all[i] = d.accounts[i]
          \/ all[i] = [d.accounts[i] EXCEPT !.ownKeyFile = ComposeDataString(k, 0)]
      OBVIOUS
    <3> HIDE DEF all
    <3> QED
      BY <3>1, <3>2, <3>3
  <2> HIDE DEF all, e
  <2>4. /\ IsDesk(e) /\ e.accounts = all /\ e.keyFile = d.keyFile
        /\ e.main = d.main /\ e.api = d.api
    BY <1>0, <2>1 DEF IsDesk
  <2>5. DeskHolds(e, S)
    BY <1>0, <2>2, <2>3, <2>4, ChangedHolds
  <2> QED
    BY <2>5 DEF e
<1> QED
  BY <1>1, <1>2

\* The files of one account hold its session.
LEMMA AccountWritesHold ==
    ASSUME NEW S, NEW a, a.session \in S, NEW k
    PROVE  \E T : /\ AccountWrites(a, k) \in Seq(T)
                  /\ \A w \in T : FileHolds(w[1], w[2], S)
<1> DEFINE name == WriteName(a, k)
           map    == <<MapFile(name), [key |-> a.local, blocks |-> BlocksToWrite(a.map)]>>
           config == <<ConfigFile(name),
                       [key |-> a.local, config |-> Serialize(a.config, "opentele")]>>
           mtp    == <<MtpFile(name), [key |-> a.local, session |-> a.session]>>
           T == {map, config, mtp}
<1>1. FileHolds(map[1], map[2], S)
  BY DEF FileHolds, MapFile
<1>2. FileHolds(config[1], config[2], S)
  BY DEF FileHolds, ConfigFile
<1>3. FileHolds(mtp[1], mtp[2], S)
  BY DEF FileHolds, MtpFile
<1>4. AccountWrites(a, k) = <<map>> \o (IF performance THEN <<>> ELSE <<config>>) \o <<mtp>>
  BY DEF AccountWrites
<1> HIDE DEF map, config, mtp
<1>5. <<map>> \in Seq(T) /\ <<mtp>> \in Seq(T)
      /\ (IF performance THEN <<>> ELSE <<config>>) \in Seq(T)
  <2>1. map \in T /\ config \in T /\ mtp \in T
    OBVIOUS
  <2> HIDE DEF T
  <2> QED
    BY <2>1, OneIsSeq
<1> HIDE DEF T
<1>6. AccountWrites(a, k) \in Seq(T)
  BY <1>4, <1>5
<1>7. \A w \in T : FileHolds(w[1], w[2], S)
  BY <1>1, <1>2, <1>3 DEF T
<1> QED
  BY <1>6, <1>7

\* What a save writes holds the sessions of the object.
LEMMA WritesHold ==
    ASSUME NEW S, NEW d, DeskHolds(d, S), NEW k
    PROVE  /\ IsSeq(AllWrites(d, k))
           /\ \A w \in ToSet(AllWrites(d, k)) : FileHolds(w[1], w[2], S)
<1> DEFINE bad    == {i \in DOMAIN d.accounts : ~Writes(d.accounts[i])}
           first  == CHOOSE i \in bad : \A j \in bad : i <= j
           before == IF bad = {} THEN d.accounts ELSE SubSeq(d.accounts, 1, first - 1)
           each   == [i \in DOMAIN before |-> AccountWrites(before[i], k)]
           last   == IF bad = {} THEN KeyWrite(d) ELSE <<>>
           A == ToSet(d.accounts)
           key == <<KeyFile(d.keyFile),
                    [ key |-> d.sealed.key, local |-> d.sealed.local, active |-> d.active,
                      indexes |-> [i \in DOMAIN d.accounts |-> d.accounts[i].index] ]>>
<1>1. d.accounts \in Seq(A) /\ DOMAIN d.accounts = 1 .. Len(d.accounts) /\ Len(d.accounts) \in Nat
  BY DEF DeskHolds, IsSeq
<1>2. \A a \in A : a.session \in S
  BY DEF DeskHolds, ToSet
<1>3. before \in Seq(A)
  <2>1. CASE bad # {}
    <3>1. bad \in SUBSET Nat
      BY <1>1
    <3>2. \E i \in bad : \A j \in bad : i <= j
      BY <2>1, <3>1, LeastNumber
    <3>3. first \in bad
      BY <3>2
    <3>4. first \in 1 .. Len(d.accounts)
      BY <1>1, <3>3
    <3> HIDE DEF bad, first, A
    <3>5. SubSeq(d.accounts, 1, first - 1) \in Seq(A)
      BY <1>1, <3>4
    <3> QED
      BY <2>1, <3>5
  <2> QED
    BY <1>1, <2>1
<1>4. AllWrites(d, k) = FlattenSeq(each) \o last
  BY DEF AllWrites
<1> HIDE DEF bad, before, A
<1>5. \A i \in DOMAIN before :
         \E T : AccountWrites(before[i], k) \in Seq(T) /\ \A w \in T : FileHolds(w[1], w[2], S)
  <2> TAKE i \in DOMAIN before
  <2>1. before[i].session \in S
    BY <1>2, <1>3
  <2> QED
    BY <2>1, AccountWritesHold
<1> DEFINE W == {key} \cup UNION {ToSet(each[i]) : i \in DOMAIN before}
<1>6. \A i \in DOMAIN before : /\ each[i] \in Seq(W)
                               /\ \A w \in ToSet(each[i]) : FileHolds(w[1], w[2], S)
  <2> TAKE i \in DOMAIN before
  <2>1. PICK T : each[i] \in Seq(T) /\ \A w \in T : FileHolds(w[1], w[2], S)
    BY <1>5
  <2>2. IsSeq(each[i]) /\ ToSet(each[i]) \subseteq T
    BY <2>1, SeqIsSeq
  <2>3. ToSet(each[i]) \subseteq W
    OBVIOUS
  <2> HIDE DEF W, each
  <2>4. each[i] \in Seq(W)
    BY <2>2, <2>3 DEF IsSeq
  <2> QED
    BY <2>1, <2>2, <2>4
<1>7. FileHolds(key[1], key[2], S)
  <2>1. [i \in DOMAIN d.accounts |-> d.accounts[i].index]
            \in Seq({d.accounts[i].index : i \in 1 .. Len(d.accounts)})
    BY <1>1
  <2>2. IsSeq([i \in DOMAIN d.accounts |-> d.accounts[i].index])
    BY <2>1, SeqIsSeq
  <2> QED
    BY <2>2 DEF FileHolds, KeyFile
<1> HIDE DEF key, each
<1>8. \A w \in W : FileHolds(w[1], w[2], S)
  BY <1>6, <1>7
<1>9. last \in Seq(W)
  <2>1. key \in W
    OBVIOUS
  <2> HIDE DEF W
  <2>2. KeyWrite(d) = <<key>>
    BY DEF KeyWrite, key
  <2> QED
    BY <2>1, <2>2, OneIsSeq
<1>10. each \in Seq(Seq(W))
  <2> HIDE DEF W
  <2>1. DOMAIN before = 1 .. Len(before) /\ Len(before) \in Nat
    BY <1>3
  <2>2. each \in [1 .. Len(before) -> Seq(W)]
    BY <1>6, <2>1 DEF each
  <2> QED
    BY <2>1, <2>2
<1> HIDE DEF W, last
<1>11. FlattenSeq(each) \in Seq(W)
  BY <1>10, FlattenFrom
<1>12. AllWrites(d, k) \in Seq(W)
  BY <1>4, <1>9, <1>11
<1>13. IsSeq(AllWrites(d, k)) /\ ToSet(AllWrites(d, k)) \subseteq W
  BY <1>12, SeqIsSeq
<1> QED
  BY <1>8, <1>13

\* The files of an account that can be named are files of the folder.
LEMMA FilesNamed ==
    ASSUME NEW k \in KeyFiles \cup {"data"}, NEW index \in 0 .. kMaxAccounts - 1
    PROVE  /\ KeyFile(k) \in Paths(Names)
           /\ MtpFile(ComposeDataString(k, index)) \in Paths(Names)
           /\ MapFile(ComposeDataString(k, index)) \in Paths(Names)
<1>1. ComposeDataString(k, index) \in Names
  BY DEF Names
<1>2. KeyFile(k) = KeyFile(ComposeDataString(k, index)[1])
  BY DEF ComposeDataString
<1> QED
  BY <1>1, <1>2 DEF Paths

\* Account 0 can always be named.
LEMMA KeyFileNamed ==
    ASSUME NEW k \in KeyFiles \cup {"data"}
    PROVE  KeyFile(k) \in Paths(Names)
<1>1. 0 \in 0 .. kMaxAccounts - 1
  <2>1. kMaxAccounts \in Nat /\ kMaxAccounts # 0
    BY DeskAssumption
  <2> QED
    BY <2>1
<1> QED
  BY <1>1, FilesNamed

\* The accounts that are loaded hold sessions of the folder.
LEMMA LoadedHold ==
    ASSUME NEW S, DiskHolds(S), NEW k \in KeyFiles \cup {"data"},
           NEW passcode, KeyOpens(disk, k, passcode), NEW api
    PROVE  LET all == LoadedAccounts(disk, k, api)
           IN  /\ IsSeq(all)
               /\ \A i \in DOMAIN all : IsAccount(all[i]) /\ all[i].session \in S /\ all[i].api = api
<1> DEFINE info == disk[KeyFile(k)]
           loads(index) == /\ index \in 0 .. kMaxAccounts - 1
                           /\ AccountLoads(disk, ComposeDataString(k, index), info.local)
           places == {i \in DOMAIN info.indexes : loads(info.indexes[i])}
           listed == Picked(info.indexes, places)
           all == LoadedAccounts(disk, k, api)
           T == {info.indexes[i] : i \in places}
<1>1. info \notin {Absent, Torn}
  BY DEF KeyOpens, ReadFile
<1>2. IsSeq(info.indexes)
  BY <1>1, KeyFileNamed DEF DiskHolds, FileHolds, KeyFile
<1>3. listed \in Seq(T)
  <2>1. info.indexes \in Seq(ToSet(info.indexes))
    BY <1>2 DEF IsSeq
  <2>2. places \in SUBSET DOMAIN info.indexes
    OBVIOUS
  <2> HIDE DEF places, info
  <2> QED
    BY <2>1, <2>2, PickedFrom
<1>4. \A index \in T : loads(index)
  OBVIOUS
<1>5. all = [i \in DOMAIN listed |-> LoadedAccount(disk, k, listed[i], info.local, api)]
  BY DEF LoadedAccounts
<1>6. ASSUME NEW index \in T PROVE disk[MtpFile(ComposeDataString(k, index))].session \in S
  <2> DEFINE path == MtpFile(ComposeDataString(k, index))
  <2>1. index \in 0 .. kMaxAccounts - 1 /\ AccountLoads(disk, ComposeDataString(k, index), info.local)
    BY <1>4
  <2>2. path \in Paths(Names)
    BY <2>1, FilesNamed
  <2>3. disk[path] \notin {Absent, Torn} /\ disk[path].session # NoSession
    BY <2>1 DEF AccountLoads, Readable, ReadFile
  <2>4. path[1] = "mtp"
    BY DEF MtpFile
  <2> HIDE DEF path
  <2>5. FileHolds(path, disk[path], S)
    BY <2>2, <2>3 DEF DiskHolds
  <2>6. disk[path].session \in S
    BY <2>3, <2>4, <2>5 DEF FileHolds
  <2> QED
    BY <2>6 DEF path
<1> HIDE DEF listed, T, info, loads, places, all
<1>7. DOMAIN listed = 1 .. Len(listed) /\ Len(listed) \in Nat /\ \A i \in DOMAIN listed : listed[i] \in T
  BY <1>3
<1>8. \A i \in 1 .. Len(listed) :
         IsAccount(all[i]) /\ all[i].session \in S /\ all[i].api = api
  <2> TAKE i \in 1 .. Len(listed)
  <2>1. all[i] = LoadedAccount(disk, k, listed[i], info.local, api) /\ listed[i] \in T
    BY <1>5, <1>7
  <2>2. /\ IsAccount(all[i]) /\ all[i].api = api
        /\ all[i].session = disk[MtpFile(ComposeDataString(k, listed[i]))].session
    BY <2>1 DEF LoadedAccount, IsAccount
  <2> QED
    BY <1>6, <2>1, <2>2
<1>9. IsSeq(all)
  <2> DEFINE U == {all[i] : i \in 1 .. Len(listed)}
  <2>1. all \in [1 .. Len(listed) -> U]
    BY <1>5, <1>7
  <2> HIDE DEF U
  <2>2. all \in Seq(U)
    BY <1>7, <2>1
  <2> QED
    BY <2>2, SeqIsSeq
<1>10. DOMAIN all = 1 .. Len(listed)
  BY <1>5, <1>7
<1> QED
  BY <1>8, <1>9, <1>10 DEF all

\* A load, whether it succeeds or stops on its way, gives an object with
\* sessions of the folder; its API stays.
LEMMA LoadHolds ==
    ASSUME NEW S, DiskHolds(S), NEW d, DeskHolds(d, S)
    PROVE  DeskHolds(LoadFromTData(d), S) /\ LoadFromTData(d).api = d.api
<1> DEFINE info     == disk[KeyFile(d.keyFile)]
           accounts == LoadedAccounts(disk, d.keyFile, d.api)
           stop     == SelectInSeq(info.indexes, LAMBDA i : Stops(disk, d.keyFile, i))
           inFront  == {j \in DOMAIN accounts :
                           \E i \in 1 .. stop - 1 : info.indexes[i] = accounts[j].index}
           keyRead  == [d EXCEPT !.local = info.local,
                                 !.sealed = [key |-> info.key, local |-> info.local]]
           main     == MainAccount(accounts, info.active, d.main)
<1>0. IsDesk(d) /\ d.keyFile \in KeyFiles \cup {"data"} /\ d.main \in S \cup {NoSession}
  BY DEF DeskHolds
<1>1. IsDesk(keyRead) /\ keyRead.keyFile = d.keyFile /\ keyRead.main = d.main /\ keyRead.api = d.api
  <2>1. PICK x, y : keyRead = [d EXCEPT !.local = x, !.sealed = y]
    OBVIOUS
  <2> HIDE DEF keyRead
  <2> QED
    BY <1>0, <2>1 DEF IsDesk
<1>2. IsSeq(<<>>)
  BY DEF IsSeq, ToSet
<1>3. ASSUME NEW e, IsDesk(e), e.keyFile = d.keyFile, e.main = d.main, e.api = d.api
      PROVE  DeskHolds([e EXCEPT !.accounts = <<>>], S) /\ [e EXCEPT !.accounts = <<>>].api = d.api
  BY <1>0, <1>2, <1>3 DEF DeskHolds, IsDesk
<1>4. CASE ~KeyOpens(disk, d.keyFile, d.passcode)
  <2>1. LoadFromTData(d) = [d EXCEPT !.accounts = <<>>]
    BY <1>4 DEF LoadFromTData
  <2> QED
    BY <1>0, <1>3, <2>1
<1>5. CASE KeyOpens(disk, d.keyFile, d.passcode)
  <2>1. /\ IsSeq(accounts)
        /\ \A i \in DOMAIN accounts : /\ IsAccount(accounts[i])
                                      /\ accounts[i].session \in S
                                      /\ accounts[i].api = d.api
    BY <1>0, <1>5, LoadedHold
  <2>2. \/ LoadFromTData(d) = [keyRead EXCEPT !.accounts = Picked(accounts, inFront)]
        \/ LoadFromTData(d) = [keyRead EXCEPT !.accounts = <<>>]
        \/ /\ accounts # <<>>
           /\ LoadFromTData(d) = [keyRead EXCEPT !.accounts = accounts, !.active = info.active,
                                                 !.loaded = TRUE, !.main = main]
    BY <1>5 DEF LoadFromTData
  <2>3. inFront \in SUBSET DOMAIN accounts
    OBVIOUS
  <2> HIDE DEF info, accounts, stop, inFront, keyRead, main
  <2>4. CASE LoadFromTData(d) = [keyRead EXCEPT !.accounts = Picked(accounts, inFront)]
    <3> DEFINE some == Picked(accounts, inFront)
    <3>1. some \in Seq({accounts[i] : i \in inFront})
      BY <2>1, <2>3, PickedFrom DEF IsSeq
    <3>2. IsSeq(some) /\ ToSet(some) \subseteq {accounts[i] : i \in inFront}
      BY <3>1, SeqIsSeq
    <3>3. \A i \in DOMAIN some : /\ IsAccount(some[i]) /\ some[i].session \in S
                                 /\ some[i].api = d.api
      BY <2>1, <2>3, <3>2 DEF ToSet
    <3> HIDE DEF some
    <3>4. LoadFromTData(d) = [keyRead EXCEPT !.accounts = some]
      BY <2>4 DEF some
    <3> QED
      BY <1>0, <1>1, <3>2, <3>3, <3>4 DEF DeskHolds, IsDesk
  <2>5. CASE LoadFromTData(d) = [keyRead EXCEPT !.accounts = <<>>]
    BY <1>1, <1>3, <2>5
  <2>6. CASE /\ accounts # <<>>
             /\ LoadFromTData(d) = [keyRead EXCEPT !.accounts = accounts, !.active = info.active,
                                                   !.loaded = TRUE, !.main = main]
    <3>1. main \in S \cup {NoSession}
      <4> DEFINE places == {i \in DOMAIN accounts : accounts[i].index = info.active}
                 named == Picked(accounts, places)
      <4>1. named \in Seq({accounts[i] : i \in places})
        BY <2>1, PickedFrom DEF IsSeq
      <4>2. CASE named # <<>>
        <5>1. main = Head(named).session
          BY <4>2 DEF main, MainAccount
        <5> DEFINE T == {accounts[i] : i \in places}
        <5>2. \A a \in T : a.session \in S
          BY <2>1
        <5> HIDE DEF named, T
        <5>3. Head(named) \in T
          BY <4>1, <4>2 DEF T
        <5> QED
          BY <5>1, <5>2, <5>3
      <4>3. CASE named = <<>>
        <5>1. Head(accounts) = accounts[1] /\ 1 \in DOMAIN accounts
          BY <2>1, <2>6 DEF IsSeq
        <5>2. main = IF d.main # NoSession THEN d.main ELSE Head(accounts).session
          BY <4>3 DEF main, MainAccount
        <5> QED
          BY <1>0, <2>1, <5>1, <5>2
      <4> QED
        BY <4>2, <4>3
    <3> QED
      BY <1>0, <1>1, <2>1, <2>6, <3>1 DEF DeskHolds, IsDesk
  <2> QED
    BY <2>2, <2>4, <2>5, <2>6
<1> QED
  BY <1>4, <1>5

-----------------------------------------------------------------------------
(* The invariant of the folder and the object *)

LEMMA FolderInit == Init => FolderInv
<1> SUFFICES ASSUME Init PROVE FolderInv
  OBVIOUS
<1>1. OldSessions \subseteq Real
  BY ProgramAssumption DEF Init, Real
<1>2. DiskHolds(Real)
  <2>1. disk \in Folders
    BY DEF Init, DeskInit
  <2>2. ASSUME NEW p \in Paths(Names), disk[p] \notin {Absent, Torn}
        PROVE  FileHolds(p, disk[p], Real)
    <3>1. p[1] = "key" => disk[p].indexes \in Seq(Int)
      BY <2>1, <2>2, ProgramAssumption
    <3>2. p[1] = "key" => IsSeq(disk[p].indexes)
      BY <3>1, SeqIsSeq
    <3> QED
      BY <1>1, <2>1, <2>2, <3>2, ProgramAssumption DEF FileHolds
  <2> QED
    BY <2>1, <2>2, ProgramAssumption DEF DiskHolds
<1>3. SavingHolds(Real)
  BY DEF Init, DeskInit, SavingHolds, NotSaving, IsSeq, ToSet
<1>4. clients \subseteq Real /\ desk = NoDesk
  BY <1>1, ProgramAssumption DEF Init, DeskInit
<1> QED
  BY <1>2, <1>3, <1>4 DEF FolderInv

\* An object holds sessions of a larger set too.
LEMMA HoldsMore ==
    ASSUME NEW S, NEW T, S \subseteq T
    PROVE  /\ \A d : DeskHolds(d, S) => DeskHolds(d, T)
           /\ \A p, f : FileHolds(p, f, S) => FileHolds(p, f, T)
BY DEF DeskHolds, FileHolds

\* What happens to the sessions leaves the folder and the object alone.
LEMMA FolderServer ==
    ASSUME FolderInv, InUseStays, UNCHANGED <<deskVars, clients>>
    PROVE  FolderInv'
<1>1. Real \subseteq Real'
  BY DEF InUseStays
<1> DEFINE R == Real'
<1>2. /\ \A d : DeskHolds(d, Real) => DeskHolds(d, R)
      /\ \A p, f : FileHolds(p, f, Real) => FileHolds(p, f, R)
  BY <1>1, HoldsMore
<1>3. DiskHolds(Real)'
  BY <1>2 DEF FolderInv, DiskHolds, deskVars, FileHolds, IsSeq
<1>4. SavingHolds(Real)'
  BY <1>2 DEF FolderInv, SavingHolds, deskVars, FileHolds, IsSeq, ToSet
<1>5. (desk # NoDesk)' => DeskHolds(desk, Real)'
  <2>1. desk # NoDesk => DeskHolds(desk, R)
    BY <1>2 DEF FolderInv
  <2> QED
    BY <2>1 DEF DeskHolds, IsDesk, IsSeq, IsAccount, ToSet, deskVars
<1> QED
  BY <1>1, <1>3, <1>4, <1>5 DEF FolderInv, deskVars

\* With the server, the files and the save as they were, only the object counts.
LEMMA FolderObject ==
    ASSUME FolderInv, UNCHANGED <<disk, saving, server>>, clients' \subseteq Real,
           desk' # NoDesk => DeskHolds(desk', Real)
    PROVE  FolderInv'
<1>1. Real' = Real
  BY DEF Real
<1>2. DiskHolds(Real)' /\ SavingHolds(Real)'
  <2>1. DiskHolds(Real) /\ SavingHolds(Real)
    BY DEF FolderInv
  <2>2. DiskHolds(Real)'
    BY <1>1, <2>1 DEF DiskHolds
  <2>3. SavingHolds(Real)'
    BY <1>1, <2>1 DEF SavingHolds
  <2> QED
    BY <2>2, <2>3
<1>3. (desk # NoDesk)' => DeskHolds(desk, Real)'
  BY <1>1 DEF DeskHolds, IsDesk, IsSeq, IsAccount, ToSet
<1> QED
  BY <1>1, <1>2, <1>3 DEF FolderInv

\* The object an account is added to.
LEMMA OwnerHolds ==
    ASSUME FolderInv, NEW for, for = "owner" => desk # NoDesk, NEW d \in Owner(for)
    PROVE  DeskHolds(d, Real)
<1>1. CASE for = "owner"
  BY <1>1 DEF Owner, FolderInv
<1>2. CASE for # "owner"
  <2> DEFINE new == NewTDesktop(DefaultApi)
  <2>1. DeskHolds(new, Real)
    BY NewHolds
  <2>2. d \in GenerateLocalKey(new)
    BY <1>2 DEF Owner
  <2> HIDE DEF new
  <2> QED
    BY <2>1, <2>2, GenerateHolds
<1> QED
  BY <1>1, <1>2

\* An account is added with its incidents, and nothing else changes.
LEMMA FolderAdds ==
    ASSUME FolderInv, NEW for, for = "owner" => desk # NoDesk, NEW session \in Real, NEW api,
           AddTo(for, session, api),
           UNCHANGED <<disk, saving, server, clients>>
    PROVE  FolderInv'
<1>1. PICK d \in Owner(for) : desk' = Added(d, session, api)
  BY DEF AddTo
<1>2. DeskHolds(d, Real)
  BY OwnerHolds
<1>3. DeskHolds(desk', Real)
  BY <1>1, <1>2, AddHolds
<1>4. clients' \subseteq Real
  BY DEF FolderInv
<1> QED
  BY <1>3, <1>4, FolderObject

\* The calls of TDesktop keep the invariant.
LEMMA FolderDesk ==
    ASSUME FolderInv, DeskCall \/ DeskStep
    PROVE  FolderInv'
<1>0. UNCHANGED <<server, apiOf, clients>> /\ clients' \subseteq Real
  BY DEF DeskCall, DeskStep, loginVars, FolderInv
<1>1. ASSUME NEW api, NEW p \in Passcodes, NEW k \in KeyFiles \cup {"data"}, Open(api, p, k)
      PROVE  FolderInv'
  <2> DEFINE new == NewTDesktop(api)
             d   == [new EXCEPT !.base = TRUE, !.passcode = p, !.keyFile = k]
  <2>1. DeskHolds(new, Real) /\ new.accounts = <<>> /\ new.api = api
    BY NewHolds
  <2> HIDE DEF new
  <2>2. IsDesk(d) /\ d.accounts = new.accounts /\ d.keyFile = k /\ d.main = new.main /\ d.api = new.api
    <3>1. IsDesk(new)
      BY <2>1 DEF DeskHolds
    <3>2. d = [new EXCEPT !.base = TRUE, !.passcode = p, !.keyFile = k]
      OBVIOUS
    <3> HIDE DEF d
    <3> QED
      BY <3>1, <3>2 DEF IsDesk
  <2> HIDE DEF d
  <2>3. DeskHolds(d, Real) /\ d.api = api
    BY <2>1, <2>2 DEF DeskHolds
  <2>4. DeskHolds(LoadFromTData(d), Real) /\ LoadFromTData(d).api = api
    BY <2>3, LoadHolds DEF FolderInv
  <2>5. desk' = LoadFromTData(d) /\ UNCHANGED <<disk, saving>>
    BY <1>1 DEF Open, d, new
  <2> QED
    BY <1>0, <2>4, <2>5, FolderObject
<1>2. ASSUME NEW api, Create(api) PROVE FolderInv'
  <2>1. desk' = NewTDesktop(api) /\ UNCHANGED <<disk, saving>>
    BY <1>2 DEF Create
  <2>2. DeskHolds(desk', Real)
    BY <2>1, NewHolds
  <2> QED
    BY <1>0, <2>1, <2>2, FolderObject
<1>3. ASSUME NEW p \in Passcodes, NEW k \in KeyFiles \cup {"none"}, LoadTData(p, k)
      PROVE  FolderInv'
  <2> DEFINE d == [desk EXCEPT !.passcode = p, !.keyFile = IF k = "none" THEN @ ELSE k]
  <2>1. DeskHolds(desk, Real) /\ IsDesk(desk)
    BY <1>3 DEF LoadTData, FolderInv, DeskHolds
  <2>2. IsDesk(d) /\ d.accounts = desk.accounts /\ d.keyFile \in KeyFiles \cup {"data"}
        /\ d.main = desk.main /\ d.api = desk.api
    <3> DEFINE x == IF k = "none" THEN desk.keyFile ELSE k
    <3>1. x \in KeyFiles \cup {"data"}
      BY <2>1 DEF DeskHolds
    <3>2. d = [desk EXCEPT !.passcode = p, !.keyFile = x]
      OBVIOUS
    <3> HIDE DEF d, x
    <3> QED
      BY <2>1, <3>1, <3>2 DEF IsDesk
  <2> HIDE DEF d
  <2>3. DeskHolds(d, Real)
    BY <2>1, <2>2 DEF DeskHolds
  <2>4. DeskHolds(LoadFromTData(d), Real) /\ LoadFromTData(d).api = desk.api
    BY <2>2, <2>3, LoadHolds DEF FolderInv
  <2>5. desk' = LoadFromTData(d) /\ UNCHANGED <<disk, saving>>
    BY <1>3 DEF LoadTData, d
  <2> QED
    BY <1>0, <2>4, <2>5, FolderObject
<1>4. ASSUME NEW p, NEW k \in KeyFiles \cup {"none"}, SaveTData(p, k) PROVE FolderInv'
  <2>1. DeskHolds(desk, Real) /\ IsDesk(desk)
    BY <1>4 DEF SaveTData, FolderInv, DeskHolds
  <2>2. PICK d, n :
           /\ d \in Prepared(p, k) /\ n \in 0 .. Len(AllWrites(d, k))
           /\ desk' = [Renamed(d, k, n) EXCEPT !.base = TRUE]
           /\ saving' = NotSaving \/ \E ends :
                 saving' = [writes |-> SubSeq(AllWrites(d, k), 1, n), ends |-> ends]
    BY <1>4 DEF SaveTData
  <2>3. DeskHolds(d, Real)
    BY <2>1, <2>2, PreparedHolds
  <2>4. DeskHolds(Renamed(d, k, n), Real)
    BY <2>3, RenamedHolds
  <2>5. DeskHolds(desk', Real)
    <3> DEFINE e == Renamed(d, k, n)
    <3>1. DeskHolds(e, Real)
      BY <2>4
    <3>2. desk' = [e EXCEPT !.base = TRUE]
      BY <2>2
    <3> HIDE DEF e
    <3>3. /\ IsDesk(desk') /\ desk'.accounts = e.accounts /\ desk'.keyFile = e.keyFile
          /\ desk'.main = e.main /\ desk'.api = e.api
      BY <3>1, <3>2 DEF DeskHolds, IsDesk
    <3> QED
      BY <2>3, <3>1, <3>3 DEF DeskHolds
  <2>7. SavingHolds(Real)'
    <3>1. Real' = Real
      BY <1>0 DEF Real
    <3>2. CASE saving' = NotSaving
      BY <3>2 DEF NotSaving, SavingHolds, IsSeq, ToSet
    <3>3. CASE saving' # NotSaving
      <4> DEFINE all == AllWrites(d, k)
      <4>1. IsSeq(all) /\ \A w \in ToSet(all) : FileHolds(w[1], w[2], Real)
        BY <2>3, WritesHold
      <4> HIDE DEF all
      <4>2. PICK ends : saving' = [writes |-> SubSeq(all, 1, n), ends |-> ends]
        BY <2>2, <3>3 DEF all
      <4> DEFINE some == SubSeq(all, 1, n)
      <4>3. IsSeq(some) /\ ToSet(some) \subseteq ToSet(all)
        <5>1. n \in 0 .. Len(all)
          BY <2>2 DEF all
        <5>2. some \in Seq(ToSet(all))
          BY <4>1, <5>1 DEF IsSeq
        <5> HIDE DEF some
        <5> QED
          BY <5>2, SeqIsSeq
      <4> HIDE DEF some
      <4>4. saving' = [writes |-> some, ends |-> ends]
        BY <4>2 DEF some
      <4> QED
        BY <3>1, <4>1, <4>3, <4>4 DEF SavingHolds
    <3> QED
      BY <3>2, <3>3
  <2>8. DiskHolds(Real)' /\ Real' = Real
    <3>1. Real' = Real /\ UNCHANGED disk
      BY <1>0, <1>4 DEF Real, SaveTData
    <3>2. DiskHolds(Real)
      BY DEF FolderInv
    <3> QED
      BY <3>1, <3>2 DEF DiskHolds
  <2>9. (desk # NoDesk)' => DeskHolds(desk, Real)'
    BY <2>5, <2>8 DEF DeskHolds, IsDesk, IsSeq, IsAccount, ToSet
  <2> QED
    BY <1>0, <2>7, <2>8, <2>9 DEF FolderInv
<1>5. CASE PerformanceMode
  <2>1. UNCHANGED <<disk, desk, saving>>
    BY <1>5 DEF PerformanceMode
  <2> QED
    BY <1>0, <2>1, FolderObject DEF FolderInv
<1>6. ASSUME WriteFile PROVE FolderInv'
  <2> DEFINE w == Head(saving.writes)
  <2> DEFINE Written(f, ends) ==
           /\ f \in {w[2], Torn}
           /\ saving.writes # <<>> /\ disk' = [disk EXCEPT ![w[1]] = f]
           /\ saving' = [saving EXCEPT !.writes = Tail(@), !.ends = ends]
           /\ UNCHANGED desk
  <2>0. \E f, ends : Written(f, ends)
    <3>1. saving.writes # <<>> /\ UNCHANGED desk
      BY <1>6 DEF WriteFile
    <3>2. CASE /\ disk' = [disk EXCEPT ![w[1]] = w[2]]
               /\ saving' = [saving EXCEPT !.writes = Tail(@)]
      <4>1. saving' = [saving EXCEPT !.writes = Tail(@), !.ends = saving.ends]
        BY <3>2 DEF FolderInv, SavingHolds
      <4>2. Written(w[2], saving.ends)
        BY <3>1, <3>2, <4>1
      <4> HIDE DEF Written
      <4> QED
        BY <4>2
    <3>3. CASE /\ disk' = [disk EXCEPT ![w[1]] = Torn]
               /\ \E ends : saving' = [saving EXCEPT !.writes = Tail(@), !.ends = ends]
      <4>1. PICK ends : saving' = [saving EXCEPT !.writes = Tail(@), !.ends = ends]
        BY <3>3
      <4>2. Written(Torn, ends)
        BY <3>1, <3>3, <4>1
      <4> HIDE DEF Written
      <4> QED
        BY <4>2
    <3> HIDE DEF Written
    <3> QED
      BY <1>6, <3>2, <3>3 DEF WriteFile
  <2>1. PICK f, ends : Written(f, ends)
    <3> HIDE DEF Written
    <3> QED
      BY <2>0
  <2>2. /\ DiskHolds(Real) /\ IsSeq(saving.writes)
        /\ saving = [writes |-> saving.writes, ends |-> saving.ends]
        /\ \A x \in ToSet(saving.writes) : FileHolds(x[1], x[2], Real)
    BY DEF FolderInv, SavingHolds
  <2>3. w \in ToSet(saving.writes) /\ Tail(saving.writes) \in Seq(ToSet(saving.writes))
    BY <2>1, <2>2 DEF IsSeq
  <2> HIDE DEF w
  <2>4. Real' = Real
    BY <1>0 DEF Real
  <2>5. DiskHolds(Real)'
    <3>1. DOMAIN disk' = Paths(Names)
      BY <2>1, <2>2 DEF DiskHolds
    <3>2. ASSUME NEW q \in Paths(Names), disk'[q] \notin {Absent, Torn}
          PROVE  FileHolds(q, disk'[q], Real)
      <4>1. CASE q = w[1]
        <5>1. disk'[q] = f
          BY <2>1, <2>2, <4>1 DEF DiskHolds
        <5>2. disk'[q] = w[2]
          BY <2>1, <3>2, <5>1
        <5> QED
          BY <2>2, <2>3, <4>1, <5>2
      <4>2. CASE q # w[1]
        <5>1. disk'[q] = disk[q]
          BY <2>1, <2>2, <4>2 DEF DiskHolds
        <5> QED
          BY <2>2, <3>2, <5>1 DEF DiskHolds
      <4> QED
        BY <4>1, <4>2
    <3> QED
      BY <2>4, <3>1, <3>2 DEF DiskHolds
  <2>6. SavingHolds(Real)'
    <3> DEFINE rest == Tail(saving.writes)
    <3>1. IsSeq(rest) /\ ToSet(rest) \subseteq ToSet(saving.writes)
      BY <2>3, SeqIsSeq
    <3> HIDE DEF rest
    <3>2. saving' = [writes |-> rest, ends |-> ends]
      BY <2>1, <2>2 DEF rest
    <3> QED
      BY <2>2, <2>4, <3>1, <3>2 DEF SavingHolds
  <2>7. (desk # NoDesk)' => DeskHolds(desk, Real)'
    BY <2>1, <2>4 DEF FolderInv
  <2> QED
    BY <1>0, <2>4, <2>5, <2>6, <2>7 DEF FolderInv
<1>7. ASSUME EndSave PROVE FolderInv'
  <2>1. saving' = NotSaving /\ UNCHANGED <<disk, desk>>
    BY <1>7 DEF EndSave
  <2>2. Real' = Real
    BY <1>0 DEF Real
  <2>3. DiskHolds(Real)'
    BY <2>1, <2>2 DEF FolderInv, DiskHolds
  <2>4. SavingHolds(Real)'
    BY <2>1 DEF NotSaving, SavingHolds, IsSeq, ToSet
  <2>5. (desk # NoDesk)' => DeskHolds(desk, Real)'
    BY <2>1, <2>2 DEF FolderInv
  <2> QED
    BY <1>0, <2>2, <2>3, <2>4, <2>5 DEF FolderInv
<1> QED
  BY <1>1, <1>2, <1>3, <1>4, <1>5, <1>6, <1>7 DEF DeskCall, DeskStep

\* The death of the process keeps the invariant.
LEMMA FolderDies ==
    ASSUME FolderInv, Die, clients' = {}, UNCHANGED <<server, apiOf>>
    PROVE  FolderInv'
<1>1. Real' = Real
  BY DEF Real
<1>2. desk' = NoDesk /\ saving' = NotSaving
  BY DEF Die
<1>3. DiskHolds(Real)'
  <2>1. CASE disk' = disk
    BY <1>1, <2>1 DEF FolderInv, DiskHolds
  <2>2. CASE \E q : disk' = [disk EXCEPT ![q] = Torn]
    <3>1. PICK q : disk' = [disk EXCEPT ![q] = Torn]
      BY <2>2
    <3>2. DiskHolds(Real)
      BY DEF FolderInv
    <3>3. DOMAIN disk' = DOMAIN disk
      BY <3>1
    <3>4. \A p \in Paths(Names) : disk'[p] \notin {Absent, Torn} => disk'[p] = disk[p]
      BY <3>1, <3>2 DEF DiskHolds
    <3> QED
      BY <1>1, <3>2, <3>3, <3>4 DEF DiskHolds
  <2> QED
    BY <2>1, <2>2 DEF Die
<1>4. SavingHolds(Real)'
  BY <1>2 DEF NotSaving, SavingHolds, IsSeq, ToSet
<1> QED
  BY <1>1, <1>2, <1>3, <1>4 DEF FolderInv

\* With the object as it was, a client more that holds a session in use.
LEMMA FolderClients ==
    ASSUME FolderInv, UNCHANGED <<deskVars, server, apiOf>>, clients' \subseteq Real
    PROVE  FolderInv'
BY FolderObject DEF FolderInv, deskVars

ProgramInv == EndInv /\ FolderInv

\* Every step of the program keeps the two invariants.
LEMMA ProgramNext == ProgramInv /\ [Next]_vars => ProgramInv'
<1> SUFFICES ASSUME ProgramInv, [Next]_vars PROVE ProgramInv'
  OBVIOUS
<1>0. /\ EndInv /\ FolderInv /\ LoginInv /\ LoginInv'
      /\ file \in Sessions \cup {NoSession}
      /\ server \in [Sessions -> {"unknown", "accepted", "authorized", "terminated"}]
  BY LoginNext DEF ProgramInv, EndInv, LoginInv
<1> USE <1>0
<1>1. ASSUME UNCHANGED <<server, apiOf, login>>, file' \in Sessions \cup {NoSession}
      PROVE  EndInv'
  BY <1>1, PointsStay DEF OnlyEnds
<1>2. CASE UNCHANGED vars
  <2>1. UNCHANGED <<deskVars, server, apiOf, login, file, clients>>
    BY <1>2 DEF vars, loginVars
  <2>2. clients' \subseteq Real
    BY <2>1 DEF FolderInv
  <2> QED
    BY <1>1, <2>1, <2>2, FolderClients DEF ProgramInv
<1>3. CASE DeskCall \/ DeskStep
  <2>1. UNCHANGED <<server, apiOf, login, file>>
    BY <1>3 DEF DeskCall, DeskStep, loginVars
  <2> QED
    BY <1>1, <1>3, <2>1, FolderDesk DEF ProgramInv
<1>4. CASE ConversionCall
  <2>1. ASSUME NEW for, NEW api, NEW s, UseClient(for, s, api) PROVE ProgramInv'
    <3>1. /\ UNCHANGED <<server, apiOf, login, file, disk, saving, clients>>
          /\ s \in Real /\ (for = "owner" => desk # NoDesk)
          /\ AddTo(for, s, api)
      BY <2>1 DEF UseClient, CanOwn, loginVars, FolderInv
    <3> QED
      BY <1>1, <3>1, FolderAdds DEF ProgramInv
  <2>2. ASSUME NEW for \in {"owner", "newDesk"}, NEW api, NEW s, FromTelethon(for, s, api)
        PROVE  ProgramInv'
    <3>1. /\ QRLoginToNewClient(s, api, FALSE, for)
          /\ UNCHANGED <<deskVars, server, apiOf, clients>>
      BY <2>2 DEF FromTelethon, QRLoginToNewClient
    <3>2. EndInv'
      BY <3>1, PointsBegin
    <3>3. clients' \subseteq Real
      BY <3>1 DEF FolderInv
    <3> QED
      BY <3>1, <3>2, <3>3, FolderClients DEF ProgramInv
  <2>3. ASSUME NEW toFile, UseMain(toFile) PROVE ProgramInv'
    <3>1. /\ UNCHANGED <<deskVars, server, apiOf, login>>
          /\ desk # NoDesk /\ desk.main # NoSession
          /\ clients' = clients \cup {desk.main}
          /\ file' \in {file, desk.main}
      BY <2>3 DEF UseMain, HasMain
    <3>2. desk.main \in Real
      BY <3>1 DEF FolderInv, DeskHolds
    <3>3. file' \in Sessions \cup {NoSession} /\ clients' \subseteq Real
      BY <3>1, <3>2 DEF FolderInv, Real
    <3> QED
      BY <1>1, <3>1, <3>3, FolderClients DEF ProgramInv
  <2>4. ASSUME NEW toFile, NEW api, FromTDesktop(api, toFile) PROVE ProgramInv'
    <3>1. /\ QRLoginToNewClient(desk.main, api, toFile, "client")
          /\ UNCHANGED <<deskVars, server, apiOf, clients>>
      BY <2>4 DEF FromTDesktop, QRLoginToNewClient
    <3>2. EndInv'
      BY <3>1, PointsBegin
    <3>3. clients' \subseteq Real
      BY <3>1 DEF FolderInv
    <3> QED
      BY <3>1, <3>2, <3>3, FolderClients DEF ProgramInv
  <2>5. CASE OpenFile
    <3>1. /\ UNCHANGED <<deskVars, server, apiOf, login, file>>
          /\ file \in Real /\ clients' = clients \cup {file}
      BY <2>5 DEF OpenFile, loginVars, Real
    <3>2. clients' \subseteq Real
      BY <3>1 DEF FolderInv
    <3> QED
      BY <1>1, <3>1, <3>2, FolderClients DEF ProgramInv
  <2> QED
    BY <1>4, <2>1, <2>2, <2>3, <2>4, <2>5 DEF ConversionCall
<1>5. CASE ServerCall \/ SweepStep
  <2>1. UNCHANGED <<deskVars, file, login, clients>>
    BY <1>5 DEF ServerCall, SweepStep
  <2>2. OnlyEnds
    BY <1>5, EndsOnly DEF ServerCall, SweepStep
  <2>3. EndInv' /\ InUseStays
    BY <2>1, <2>2, PointsStay
  <2> QED
    BY <2>1, <2>3, FolderServer DEF ProgramInv
<1>6. CASE LoginStep /\ UNCHANGED <<deskVars, clients>>
  BY <1>6, PointsSteps, FolderServer DEF ProgramInv
<1>7. CASE Convert
  <2>1. /\ At("returned") /\ login.for # "client" /\ CanOwn(login.for)
        /\ UNCHANGED <<disk, saving, server, apiOf, file, clients, performance, saved>>
        /\ login' = NoLogin
        /\ AddTo(login.for, login.key, login.api) \/ UNCHANGED <<desk, incidents>>
    BY <1>7 DEF Convert
  <2>2. EndInv'
    BY <2>1, PointsOver
  <2>3. login.key \in Real
    BY <2>1 DEF EndInv, PointsHold, At
  <2>4. CASE AddTo(login.for, login.key, login.api)
    <3>1. login.for = "owner" => desk # NoDesk
      BY <2>1 DEF CanOwn
    <3>2. FolderInv'
      BY <2>1, <2>3, <2>4, <3>1, FolderAdds
    <3> QED
      BY <2>2, <3>2 DEF ProgramInv
  <2>5. CASE UNCHANGED <<desk, incidents>>
    <3>1. FolderInv'
      BY <2>1, <2>5, FolderClients DEF deskVars, FolderInv
    <3> QED
      BY <2>2, <3>1 DEF ProgramInv
  <2> QED
    BY <2>1, <2>4, <2>5
<1>8. CASE Returned
  <2>1. /\ At("returned") /\ login' = NoLogin /\ clients' = clients \cup {login.key}
        /\ UNCHANGED <<deskVars, server, apiOf, file>>
    BY <1>8 DEF Returned
  <2>2. login.key \in Real
    BY <2>1 DEF EndInv, PointsHold, At
  <2>3. clients' \subseteq Real
    BY <2>1, <2>2 DEF FolderInv
  <2> QED
    BY <2>1, <2>3, PointsOver, FolderClients DEF ProgramInv
<1>9. CASE Raised
  <2>1. login' = NoLogin /\ UNCHANGED <<deskVars, server, apiOf, file, clients>>
    BY <1>9 DEF Raised
  <2>2. clients' \subseteq Real
    BY <2>1 DEF FolderInv
  <2> QED
    BY <2>1, <2>2, PointsOver, FolderClients DEF ProgramInv
<1>10. CASE Exit
  <2>1. Die /\ clients' = {} /\ login' = NoLogin /\ UNCHANGED <<server, apiOf, file>>
    BY <1>10 DEF Exit
  <2> QED
    BY <2>1, PointsOver, FolderDies DEF ProgramInv
<1> QED
  BY <1>2, <1>3, <1>4, <1>5, <1>6, <1>7, <1>8, <1>9, <1>10 DEF Next

LEMMA ProgramInvariant == Spec => []ProgramInv
<1>1. Init => ProgramInv
  BY EndInit, FolderInit DEF ProgramInv
<1> QED
  BY <1>1, ProgramNext, PTL DEF Spec

\* A login that returns has the session of its client authorized, with the
\* api_id asked for unless the check did not see that its file was logged in,
\* and one that raises anything but a failed request has authorized nothing,
\* whatever fails, however often it asks again, and whatever the program and
\* the owner of the account do meanwhile.
THEOREM LoginsEndAsTold == Spec => []LoginOutcome
<1>1. ProgramInv => LoginOutcome
  <2> SUFFICES ASSUME ProgramInv PROVE LoginOutcome
    OBVIOUS
  <2>1. ~At("idle") => PointsHold
    BY DEF ProgramInv, EndInv
  <2>2. ASSUME At("returned")
        PROVE  \/ server[login.key] = "terminated"
               \/ /\ login.key \in Authorized
                  /\ login.unseen \/ apiId(apiOf[login.key]) = apiId(login.api)
    BY <2>1, <2>2 DEF PointsHold, At, Real, Authorized
  <2>3. ASSUME login.at \in Ends \ {"returned", "TimeoutError", "RequestError"}
        PROVE  Authorized \subseteq login.before
    BY <2>1, <2>3 DEF PointsHold, At, Ends
  <2> QED
    BY <2>2, <2>3 DEF LoginOutcome
<1> QED
  BY <1>1, ProgramInvariant, PTL

-----------------------------------------------------------------------------
(* What a folder gives back                                                *)

\* What is joined holds what its parts hold.
LEMMA ConcatAll ==
    ASSUME NEW S, NEW s \in Seq(S), NEW t \in Seq(S)
    PROVE  ToSet(s \o t) = ToSet(s) \cup ToSet(t)
<1>1. /\ Len(s) \in Nat /\ Len(t) \in Nat /\ Len(s \o t) = Len(s) + Len(t)
      /\ DOMAIN s = 1 .. Len(s) /\ DOMAIN t = 1 .. Len(t)
      /\ DOMAIN (s \o t) = 1 .. Len(s) + Len(t)
      /\ \A i \in 1 .. Len(s) + Len(t) :
            (s \o t)[i] = IF i <= Len(s) THEN s[i] ELSE t[i - Len(s)]
  OBVIOUS
<1>2. ASSUME NEW i \in 1 .. Len(s) + Len(t) PROVE (s \o t)[i] \in ToSet(s) \cup ToSet(t)
  <2>1. CASE i <= Len(s)
    BY <1>1, <2>1 DEF ToSet
  <2>2. CASE ~(i <= Len(s))
    <3>1. i - Len(s) \in 1 .. Len(t)
      BY <1>1, <2>2
    <3> QED
      BY <1>1, <2>2, <3>1 DEF ToSet
  <2> QED
    BY <2>1, <2>2
<1>3. ASSUME NEW i \in 1 .. Len(s) PROVE s[i] \in ToSet(s \o t)
  BY <1>1, <1>3 DEF ToSet
<1>4. ASSUME NEW i \in 1 .. Len(t) PROVE t[i] \in ToSet(s \o t)
  <2>1. i + Len(s) \in 1 .. Len(s) + Len(t) /\ ~(i + Len(s) <= Len(s))
        /\ (i + Len(s)) - Len(s) = i
    BY <1>1
  <2>2. (s \o t)[i + Len(s)] = t[i]
    BY <1>1, <2>1
  <2> QED
    BY <1>1, <2>1, <2>2 DEF ToSet
<1> QED
  BY <1>1, <1>2, <1>3, <1>4 DEF ToSet

\* Flattening loses nothing of the sequences it is given.
LEMMA FlattenAll ==
    ASSUME NEW S, NEW seqs \in Seq(Seq(S)), NEW j \in DOMAIN seqs
    PROVE  ToSet(seqs[j]) \subseteq ToSet(FlattenSeq(seqs))
<1> DEFINE f == CHOOSE h : Flattens(h, seqs, Len(seqs))
           Good == {n \in Nat : n \in 1 .. Len(seqs) =>
                       /\ f[n] \in Seq(S)
                       /\ \A i \in 1 .. n : ToSet(seqs[i]) \subseteq ToSet(f[n])}
<1>0. Len(seqs) \in Nat /\ DOMAIN seqs = 1 .. Len(seqs) /\ Len(seqs) # 0
  OBVIOUS
<1>1. FlattenSeq(seqs) = f[Len(seqs)]
  BY <1>0 DEF FlattenSeq, Flattens
<1>2. Flattens(f, seqs, Len(seqs))
  <2>1. \E h : Flattens(h, seqs, Len(seqs))
    BY <1>0, FlattenExists
  <2> QED
    BY <2>1
<1> HIDE DEF f
<1>3. 0 \in Good
  OBVIOUS
<1>4. ASSUME NEW n \in Nat, n \in Good PROVE n + 1 \in Good
  <2> SUFFICES ASSUME n + 1 \in 1 .. Len(seqs)
               PROVE  /\ f[n + 1] \in Seq(S)
                      /\ \A i \in 1 .. n + 1 : ToSet(seqs[i]) \subseteq ToSet(f[n + 1])
    OBVIOUS
  <2>1. seqs[n + 1] \in Seq(S)
    OBVIOUS
  <2>2. CASE n = 0
    BY <1>2, <2>1, <2>2 DEF Flattens
  <2>3. CASE n # 0
    <3>1. f[n] \in Seq(S) /\ \A i \in 1 .. n : ToSet(seqs[i]) \subseteq ToSet(f[n])
      BY <1>4, <2>3
    <3>2. \A i \in 1 .. Len(seqs) : i # 1 => f[i] = f[i - 1] \o seqs[i]
      BY <1>2, Zenon DEF Flattens
    <3>3. (n + 1) - 1 = n /\ n + 1 # 1
      BY <2>3
    <3>4. f[n + 1] = f[n] \o seqs[n + 1]
      BY <3>2, <3>3, Zenon
    <3>5. f[n] \o seqs[n + 1] \in Seq(S)
      BY <2>1, <3>1
    <3>6. ToSet(f[n + 1]) = ToSet(f[n]) \cup ToSet(seqs[n + 1])
      BY <2>1, <3>1, <3>4, ConcatAll
    <3>7. \A i \in 1 .. n + 1 : i \in 1 .. n \/ i = n + 1
      OBVIOUS
    <3> QED
      BY <3>1, <3>4, <3>5, <3>6, <3>7
  <2> QED
    BY <2>2, <2>3
<1> HIDE DEF Good
<1>5. Nat \subseteq Good
  BY <1>3, <1>4, NumberInduction
<1>6. Len(seqs) \in 1 .. Len(seqs)
  BY <1>0
<1> QED
  BY <1>0, <1>1, <1>5, <1>6 DEF Good

\* What is picked is what is at the places.
LEMMA PickedAll ==
    ASSUME NEW S, NEW s \in Seq(S), NEW places \in SUBSET DOMAIN s
    PROVE  ToSet(Picked(s, places)) = {s[i] : i \in places}
<1>1. DOMAIN s = 1 .. Len(s) /\ IsFiniteSet(1 .. Len(s))
  BY FS_Interval
<1>2. IsFiniteSet(places) /\ places \in SUBSET Nat
  BY <1>1, FS_Subset
<1>3. Cardinality(places) \in Nat
  BY <1>2, FS_CardinalityType
<1> DEFINE upTo(i) == {j \in places : j <= i}
           at(k) == CHOOSE i \in places : Cardinality(upTo(i)) = k
<1>4. Picked(s, places) = [k \in 1 .. Cardinality(places) |-> s[at(k)]]
  BY DEF Picked
<1>5. ToSet(Picked(s, places)) \subseteq {s[i] : i \in places}
  <2> DEFINE T == {s[i] : i \in places}
  <2>1. Picked(s, places) \in Seq(T)
    BY PickedFrom
  <2> HIDE DEF T
  <2>2. ToSet(Picked(s, places)) \subseteq T
    BY <2>1, SeqIsSeq
  <2> QED
    BY <2>2 DEF T
<1>6. ASSUME NEW i \in places PROVE \E k \in 1 .. Cardinality(places) : at(k) = i
  <2>1. upTo(i) \in SUBSET places /\ i \in upTo(i)
    BY <1>2
  <2>2. IsFiniteSet(upTo(i)) /\ Cardinality(upTo(i)) <= Cardinality(places)
    BY <1>2, <2>1, FS_Subset
  <2>3. Cardinality(upTo(i)) \in Nat /\ Cardinality(upTo(i)) # 0
    <3> DEFINE U == upTo(i)
    <3>1. IsFiniteSet(U) /\ U # {}
      BY <2>1, <2>2
    <3> HIDE DEF U
    <3>2. Cardinality(U) \in Nat /\ Cardinality(U) # 0
      BY <3>1, FS_CardinalityType, FS_EmptySet
    <3> QED
      BY <3>2 DEF U
  <2> DEFINE k == Cardinality(upTo(i))
  <2>4. k \in 1 .. Cardinality(places)
    BY <1>3, <2>2, <2>3
  <2>5. at(k) \in places /\ Cardinality(upTo(at(k))) = k
    OBVIOUS
  <2>6. ASSUME NEW a \in places, NEW b \in places, a < b,
               Cardinality(upTo(a)) = Cardinality(upTo(b))
        PROVE  FALSE
    <3>1. upTo(a) \in SUBSET upTo(b) /\ b \in upTo(b) /\ b \notin upTo(a)
      BY <1>2, <2>6
    <3>2. IsFiniteSet(upTo(b))
      BY <1>2, FS_Subset
    <3> HIDE DEF upTo
    <3> QED
      BY <2>6, <3>1, <3>2, FS_Subset
  <2> HIDE DEF k, at, upTo
  <2>7. at(k) = i
    <3>1. at(k) \in Nat /\ i \in Nat /\ Cardinality(upTo(at(k))) = Cardinality(upTo(i))
      BY <1>2, <2>5 DEF k
    <3> QED
      BY <2>5, <2>6, <3>1
  <2> QED
    BY <2>4, <2>7
<1> HIDE DEF at, upTo
<1>7. ASSUME NEW i \in places PROVE s[i] \in ToSet(Picked(s, places))
  <2>1. PICK k \in 1 .. Cardinality(places) : at(k) = i
    BY <1>6
  <2> QED
    BY <1>4, <2>1 DEF ToSet
<1> QED
  BY <1>5, <1>7

\* The fields a map can have that was made or read by opentele.
Fields == {ReadAs[b] : b \in DOMAIN ReadAs}

\* A map that is written and read again is written as it was.
LEMMA MapComesBack ==
    ASSUME NEW m \in SUBSET Fields
    PROVE  /\ KeptBlocks(BlocksToWrite(m)) = BlocksToWrite(m)
           /\ BlocksToWrite(m) \in SUBSET {WrittenAs[f] : f \in DOMAIN WrittenAs}
<1>1. \A f \in DOMAIN WrittenAs : f # "webviewTokens" =>
         WrittenAs[f] \in DOMAIN ReadAs /\ ReadAs[WrittenAs[f]] = f
  BY DEF WrittenAs, ReadAs
<1>2. "webviewTokens" \notin Fields
  BY DEF Fields, ReadAs
<1>3. \A f \in m \cap DOMAIN WrittenAs : WrittenAs[f] \in DOMAIN ReadAs /\ ReadAs[WrittenAs[f]] = f
  BY <1>1, <1>2
<1>4. ReadBlocks(BlocksToWrite(m)) = m \cap DOMAIN WrittenAs
  BY <1>3 DEF ReadBlocks, BlocksToWrite
<1> QED
  BY <1>4 DEF KeptBlocks, BlocksToWrite

LEMMA MapsHaveFields ==
    /\ \A blocks : ReadBlocks(blocks) \in SUBSET Fields
    /\ NewMapData \in SUBSET Fields
<1>1. "lskUserSettings" \in DOMAIN ReadAs /\ ReadAs["lskUserSettings"] = "settings"
  BY DEF ReadAs
<1> QED
  BY <1>1 DEF ReadBlocks, Fields, NewMapData

\* What a folder gives is told by its files alone: the places its key file
\* lists and can be read, with the session and the map of each.
Reads(files, k, i) ==
    /\ i \in ToSet(files[KeyFile(k)].indexes)
    /\ i \in 0 .. kMaxAccounts - 1
    /\ AccountLoads(files, ComposeDataString(k, i), files[KeyFile(k)].local)

Row(files, k, i) ==
    [ index |-> i, session |-> files[MtpFile(ComposeDataString(k, i))].session,
      map |-> KeptBlocks(files[MapFile(ComposeDataString(k, i))].blocks) ]

Gives(files, k, passcode) ==
    {Row(files, k, i) : i \in {j \in 0 .. kMaxAccounts - 1 :
                                  KeyOpens(files, k, passcode) /\ Reads(files, k, j)}}

LEMMA OpenedGives ==
    ASSUME NEW files, NEW k, NEW passcode,
           KeyOpens(files, k, passcode) => IsSeq(files[KeyFile(k)].indexes)
    PROVE  Opened(files, k, passcode) = Gives(files, k, passcode)
<1>1. CASE ~KeyOpens(files, k, passcode)
  BY <1>1 DEF Opened, Gives
<1>2. CASE KeyOpens(files, k, passcode)
  <2> DEFINE info == files[KeyFile(k)]
             loads(index) == /\ index \in 0 .. kMaxAccounts - 1
                             /\ AccountLoads(files, ComposeDataString(k, index), info.local)
             places == {i \in DOMAIN info.indexes : loads(info.indexes[i])}
             listed == Picked(info.indexes, places)
             all == LoadedAccounts(files, k, "any")
  <2>1. ToSet(listed) = {info.indexes[i] : i \in places}
    <3>1. info.indexes \in Seq(ToSet(info.indexes)) /\ places \in SUBSET DOMAIN info.indexes
      BY <1>2 DEF IsSeq
    <3> HIDE DEF places, info
    <3> QED
      BY <3>1, PickedAll
  <2>2. all = [i \in DOMAIN listed |-> LoadedAccount(files, k, listed[i], info.local, "any")]
    BY DEF LoadedAccounts
  <2>3. ASSUME NEW i
        PROVE  Lasting(LoadedAccount(files, k, i, info.local, "any")) = Row(files, k, i)
    BY DEF Lasting, LoadedAccount, Row, KeptBlocks
  <2>4. Opened(files, k, passcode) = {Lasting(all[i]) : i \in DOMAIN all}
    BY <1>2 DEF Opened
  <2>5. \A i \in places : Reads(files, k, info.indexes[i])
    BY DEF Reads, ToSet
  <2>6. \A i : Reads(files, k, i) => \E j \in places : info.indexes[j] = i
    BY DEF Reads, ToSet
  <2> HIDE DEF info, loads, places, listed, all
  <2>7. Opened(files, k, passcode) = {Row(files, k, listed[i]) : i \in DOMAIN listed}
    BY <2>2, <2>3, <2>4
  <2>8. \A i : Reads(files, k, i) <=> \E j \in DOMAIN listed : listed[j] = i
    <3>1. \A i : (\E j \in DOMAIN listed : listed[j] = i) <=> i \in ToSet(listed)
      BY DEF ToSet
    <3> QED
      BY <2>1, <2>5, <2>6, <3>1
  <2>9. \A i : Reads(files, k, i) => i \in 0 .. kMaxAccounts - 1
    BY DEF Reads
  <2>10. \A i : Row(files, k, i).index = i
    BY DEF Row
  <2> QED
    BY <1>2, <2>7, <2>8, <2>9, <2>10 DEF Gives
<1> QED
  BY <1>1, <1>2

\* The places a folder gives, with their sessions.
LEMMA PlacesGiven ==
    ASSUME NEW files, NEW k, NEW passcode, NEW pair
    PROVE  pair \in Places(Gives(files, k, passcode)) <=>
              /\ KeyOpens(files, k, passcode)
              /\ \E i : /\ Reads(files, k, i)
                        /\ pair = <<i, files[MtpFile(ComposeDataString(k, i))].session>>
<1>1. \A i : /\ Row(files, k, i).index = i
             /\ Row(files, k, i).session = files[MtpFile(ComposeDataString(k, i))].session
  BY DEF Row
<1>2. \A i : Reads(files, k, i) => i \in 0 .. kMaxAccounts - 1
  BY DEF Reads
<1> QED
  BY <1>1, <1>2 DEF Places, Gives

-----------------------------------------------------------------------------
(* An object whose accounts are at their places *)

InPlace(d, a) ==
    /\ a.index \in 0 .. kMaxAccounts - 1
    /\ a.name = ComposeDataString(d.keyFile, a.index)
    /\ a.local = d.local
    /\ a.map \subseteq Fields

\* Its key is the one its key file is to hold, and no two of its accounts are
\* at one place.
DeskWhole(d) ==
    /\ d.passcode \in Passcodes
    /\ d.local \in Keys \cup {NoKey}
    /\ d.active \in Int
    /\ d.loaded => /\ d.local \in Keys
                   /\ d.sealed = [key |-> CreateLocalKey(d.passcode), local |-> d.local]
    /\ \A i \in DOMAIN d.accounts : InPlace(d, d.accounts[i])
    /\ \A i, j \in DOMAIN d.accounts :
          d.accounts[i].index = d.accounts[j].index =>
              /\ d.accounts[i].session = d.accounts[j].session
              /\ d.accounts[i].map = d.accounts[j].map

\* The files that a save is to leave.
MapOf(a) == <<MapFile(a.name), [key |-> a.local, blocks |-> BlocksToWrite(a.map)]>>
MtpOf(a) == <<MtpFile(a.name), [key |-> a.local, session |-> a.session]>>
KeyOf(d) ==
    <<KeyFile(d.keyFile),
      [ key |-> d.sealed.key, local |-> d.sealed.local, active |-> d.active,
        indexes |-> [i \in DOMAIN d.accounts |-> d.accounts[i].index] ]>>

Targets(d) ==
    {MapOf(d.accounts[i]) : i \in DOMAIN d.accounts}
        \cup {MtpOf(d.accounts[i]) : i \in DOMAIN d.accounts} \cup {KeyOf(d)}

\* The key file of an object that is to be saved.
LEMMA KeyOfWhole ==
    ASSUME NEW S, NEW d, DeskHolds(d, S), DeskWhole(d), d.loaded
    PROVE  /\ KeyOf(d)[2] \notin {Absent, Torn}
           /\ KeyOf(d)[2].key = CreateLocalKey(d.passcode) /\ KeyOf(d)[2].local = d.local
           /\ KeyOf(d)[2].local \in Keys /\ KeyOf(d)[2].active \in Int
           /\ KeyOf(d)[2].indexes \in Seq(Int)
           /\ ToSet(KeyOf(d)[2].indexes) = {d.accounts[i].index : i \in DOMAIN d.accounts}
<1> DEFINE indexes == [i \in DOMAIN d.accounts |-> d.accounts[i].index]
<1>1. DOMAIN d.accounts = 1 .. Len(d.accounts) /\ Len(d.accounts) \in Nat
  BY DEF DeskHolds, IsSeq
<1>2. \A i \in DOMAIN d.accounts : d.accounts[i].index \in Int
  <2>1. kMaxAccounts \in Nat
    BY DeskAssumption
  <2>2. \A i \in DOMAIN d.accounts : d.accounts[i].index \in 0 .. kMaxAccounts - 1
    BY DEF DeskWhole, InPlace
  <2> QED
    BY <2>1, <2>2
<1>3. indexes \in Seq(Int)
  BY <1>1, <1>2
<1>4. ToSet(indexes) = {d.accounts[i].index : i \in DOMAIN d.accounts}
  BY DEF ToSet
<1> HIDE DEF indexes
<1>5. /\ d.sealed.key = CreateLocalKey(d.passcode) /\ d.sealed.local = d.local
      /\ d.local \in Keys /\ d.active \in Int /\ d.passcode \in Passcodes
  BY DEF DeskWhole
<1>6. KeyOf(d)[2] = [ key |-> CreateLocalKey(d.passcode), local |-> d.local,
                      active |-> d.active, indexes |-> indexes ]
  BY <1>5 DEF KeyOf, indexes
<1>7. KeyOf(d)[2] \in [ key : {CreateLocalKey(p) : p \in Passcodes}, local : Keys,
                        active : Int, indexes : Seq(Int) ]
  BY <1>3, <1>5, <1>6
<1>8. KeyOf(d)[2] \notin {Absent, Torn}
  BY <1>7, ContentAssumption
<1> QED
  BY <1>3, <1>4, <1>5, <1>6, <1>8

\* The files of an account that is to be saved.
LEMMA FilesOfWhole ==
    ASSUME NEW d, DeskWhole(d), d.loaded, NEW i \in DOMAIN d.accounts,
           d.accounts[i].session \in Sessions
    PROVE  LET a == d.accounts[i] IN
           /\ MapOf(a)[2] \notin {Absent, Torn} /\ MapOf(a)[2].key = d.local
           /\ KeptBlocks(MapOf(a)[2].blocks) = BlocksToWrite(a.map)
           /\ MtpOf(a)[2] \notin {Absent, Torn} /\ MtpOf(a)[2].key = d.local
           /\ MtpOf(a)[2].session = a.session
           /\ a.index \in 0 .. kMaxAccounts - 1
           /\ MapOf(a)[1] = MapFile(ComposeDataString(d.keyFile, a.index))
           /\ MtpOf(a)[1] = MtpFile(ComposeDataString(d.keyFile, a.index))
<1> DEFINE a == d.accounts[i]
<1>1. InPlace(d, a) /\ d.local \in Keys
  BY DEF DeskWhole
<1>2. a.session \in Sessions
  OBVIOUS
<1> HIDE DEF a
<1>3. /\ KeptBlocks(BlocksToWrite(a.map)) = BlocksToWrite(a.map)
      /\ BlocksToWrite(a.map) \in SUBSET {WrittenAs[f] : f \in DOMAIN WrittenAs}
  BY <1>1, MapComesBack DEF InPlace
<1> DEFINE blocks == BlocksToWrite(a.map)
<1>4. MapOf(a)[2] = [key |-> d.local, blocks |-> blocks]
      /\ MtpOf(a)[2] = [key |-> d.local, session |-> a.session]
  BY <1>1 DEF MapOf, MtpOf, InPlace
<1> HIDE DEF blocks
<1>5. MapOf(a)[2] \in [ key : Keys, blocks : SUBSET {WrittenAs[f] : f \in DOMAIN WrittenAs} ]
  BY <1>1, <1>3, <1>4 DEF blocks
<1>6. MtpOf(a)[2] \in [ key : Keys, session : Sessions ]
  BY <1>1, <1>2, <1>4
<1>7. MapOf(a)[2] \notin {Absent, Torn} /\ MtpOf(a)[2] \notin {Absent, Torn}
  BY <1>5, <1>6, ContentAssumption
<1>8. /\ MapOf(a)[1] = MapFile(ComposeDataString(d.keyFile, a.index))
      /\ MtpOf(a)[1] = MtpFile(ComposeDataString(d.keyFile, a.index))
      /\ a.index \in 0 .. kMaxAccounts - 1
  BY <1>1 DEF MapOf, MtpOf, InPlace
<1> QED
  BY <1>3, <1>4, <1>7, <1>8 DEF a, blocks

\* Once all its files are there, a folder gives back what was to be saved.
LEMMA WholeGives ==
    ASSUME NEW S \in SUBSET Sessions, NEW files, NEW d, DeskHolds(d, S), DeskWhole(d), d.loaded,
           \A t \in Targets(d) : files[t[1]] = t[2]
    PROVE  Gives(files, d.keyFile, d.passcode) = Promise(d).accounts
<1> DEFINE k == d.keyFile
           own == {d.accounts[i].index : i \in DOMAIN d.accounts}
           info == files[KeyFile(k)]
<1>1. KeyOf(d) \in Targets(d) /\ KeyOf(d)[1] = KeyFile(k)
  BY DEF Targets, KeyOf
<1>2. info = KeyOf(d)[2]
  BY <1>1
<1>3. /\ KeyOpens(files, k, d.passcode)
      /\ info.local = d.local /\ ToSet(info.indexes) = own
  BY <1>2, KeyOfWhole DEF KeyOpens, ReadFile
<1>4. ASSUME NEW i \in DOMAIN d.accounts
      PROVE  /\ Reads(files, k, d.accounts[i].index)
             /\ Row(files, k, d.accounts[i].index) = Lasting(d.accounts[i])
  <2> DEFINE a == d.accounts[i]
             map == MapFile(ComposeDataString(k, a.index))
             mtp == MtpFile(ComposeDataString(k, a.index))
  <2>1. a.session \in Sessions /\ a.session # NoSession
    BY SessionAssumption DEF DeskHolds
  <2>2. /\ MapOf(a)[2] \notin {Absent, Torn} /\ MapOf(a)[2].key = d.local
        /\ KeptBlocks(MapOf(a)[2].blocks) = BlocksToWrite(a.map)
        /\ MtpOf(a)[2] \notin {Absent, Torn} /\ MtpOf(a)[2].key = d.local
        /\ MtpOf(a)[2].session = a.session
        /\ a.index \in 0 .. kMaxAccounts - 1
        /\ MapOf(a)[1] = map /\ MtpOf(a)[1] = mtp
    BY <2>1, FilesOfWhole
  <2>3. MapOf(a) \in Targets(d) /\ MtpOf(a) \in Targets(d)
    BY DEF Targets
  <2>4. a.index \in own
    OBVIOUS
  <2>5. files[map] = MapOf(a)[2] /\ files[mtp] = MtpOf(a)[2]
    <3> HIDE DEF map, mtp, a, k
    <3> QED
      BY <2>2, <2>3
  <2>6. AccountLoads(files, ComposeDataString(k, a.index), d.local)
    <3> HIDE DEF a, k
    <3> QED
      BY <2>1, <2>2, <2>5 DEF AccountLoads, Readable, ReadFile, DecryptLocal, map, mtp
  <2> HIDE DEF a, k, own, info
  <2>7. Reads(files, k, a.index)
    BY <1>3, <2>2, <2>4, <2>6 DEF Reads, info
  <2>8. Row(files, k, a.index) = Lasting(a)
    BY <2>2, <2>5 DEF Row, Lasting, map, mtp
  <2> QED
    BY <2>7, <2>8 DEF a
<1>5. Promise(d).accounts = {Lasting(d.accounts[i]) : i \in DOMAIN d.accounts}
  BY DEF Promise
<1>6. \A i : Reads(files, k, i) => i \in own /\ i \in 0 .. kMaxAccounts - 1
  BY <1>3 DEF Reads
<1>7. \A i : Row(files, k, i).index = i
  BY DEF Row
<1> HIDE DEF k, info
<1> QED
  BY <1>3, <1>4, <1>5, <1>6, <1>7 DEF Gives, k

\* No two targets are written to one file.
LEMMA TargetsDiffer ==
    ASSUME NEW S, NEW d, DeskHolds(d, S), DeskWhole(d),
           NEW t \in Targets(d), NEW u \in Targets(d), t[1] = u[1]
    PROVE  t = u
<1>1. \A i \in DOMAIN d.accounts :
         /\ d.accounts[i].name = ComposeDataString(d.keyFile, d.accounts[i].index)
         /\ d.accounts[i].local = d.local
  BY DEF DeskWhole, InPlace
<1>2. \A i, j \in DOMAIN d.accounts :
         d.accounts[i].name = d.accounts[j].name =>
             MapOf(d.accounts[i]) = MapOf(d.accounts[j]) /\ MtpOf(d.accounts[i]) = MtpOf(d.accounts[j])
  <2> TAKE i, j \in DOMAIN d.accounts
  <2> HAVE d.accounts[i].name = d.accounts[j].name
  <2>1. d.accounts[i].index = d.accounts[j].index
    BY <1>1 DEF ComposeDataString
  <2>2. d.accounts[i].session = d.accounts[j].session /\ d.accounts[i].map = d.accounts[j].map
    BY <2>1 DEF DeskWhole
  <2> QED
    BY <1>1, <2>2 DEF MapOf, MtpOf
<1>3. \A i, j \in DOMAIN d.accounts :
         /\ MapOf(d.accounts[i])[1] = MapOf(d.accounts[j])[1] => d.accounts[i].name = d.accounts[j].name
         /\ MtpOf(d.accounts[i])[1] = MtpOf(d.accounts[j])[1] => d.accounts[i].name = d.accounts[j].name
         /\ MapOf(d.accounts[i])[1] # MtpOf(d.accounts[j])[1]
         /\ MapOf(d.accounts[i])[1] # KeyOf(d)[1] /\ MtpOf(d.accounts[i])[1] # KeyOf(d)[1]
  BY DEF MapOf, MtpOf, KeyOf, MapFile, MtpFile, KeyFile
<1> QED
  BY <1>2, <1>3 DEF Targets
-----------------------------------------------------------------------------
(* What a save has to write *)

IsConfig(w) == w[1][1] = "config"

\* The files of an account, under the keyFile it has.
LEMMA AccountFiles ==
    ASSUME NEW a
    PROVE  \E W : /\ AccountWrites(a, "none") \in Seq(W)
                  /\ \A w \in W : w = MapOf(a) \/ w = MtpOf(a) \/ IsConfig(w)
                  /\ {MapOf(a), MtpOf(a)} \subseteq ToSet(AccountWrites(a, "none"))
<1> DEFINE config == <<ConfigFile(a.name),
                       [key |-> a.local, config |-> Serialize(a.config, "opentele")]>>
           W == {MapOf(a), config, MtpOf(a)}
<1>1. AccountWrites(a, "none")
          = <<MapOf(a)>> \o (IF performance THEN <<>> ELSE <<config>>) \o <<MtpOf(a)>>
  BY DEF AccountWrites, WriteName, MapOf, MtpOf
<1>2. IsConfig(config)
  BY DEF IsConfig, ConfigFile
<1> HIDE DEF config
<1>3. \A w \in W : w = MapOf(a) \/ w = MtpOf(a) \/ IsConfig(w)
  BY <1>2
<1>4. MapOf(a) \in W /\ config \in W /\ MtpOf(a) \in W
  OBVIOUS
<1> HIDE DEF W
<1> DEFINE one    == <<MapOf(a)>>
           middle == IF performance THEN <<>> ELSE <<config>>
           three  == <<MtpOf(a)>>
           front  == one \o middle
<1>5. one \in Seq(W) /\ three \in Seq(W) /\ middle \in Seq(W)
  BY <1>4, OneIsSeq
<1>6. MapOf(a) \in ToSet(one) /\ MtpOf(a) \in ToSet(three)
  BY DEF ToSet
<1>7. AccountWrites(a, "none") = front \o three
  BY <1>1
<1> HIDE DEF one, middle, three
<1>8. front \in Seq(W) /\ ToSet(front) = ToSet(one) \cup ToSet(middle)
  BY <1>5, ConcatAll
<1> HIDE DEF front
<1>9. /\ AccountWrites(a, "none") \in Seq(W)
      /\ ToSet(AccountWrites(a, "none")) = ToSet(front) \cup ToSet(three)
  <2>1. front \o three \in Seq(W) /\ ToSet(front \o three) = ToSet(front) \cup ToSet(three)
    BY <1>5, <1>8, ConcatAll
  <2> QED
    BY <1>7, <2>1
<1> QED
  BY <1>3, <1>6, <1>8, <1>9

\* A save writes targets and configurations, and the key file last, once all
\* accounts are written; then it has written every target.
LEMMA SaveWrites ==
    ASSUME NEW S, NEW d, DeskHolds(d, S)
    PROVE  LET all  == AllWrites(d, "none")
               able == \A i \in DOMAIN d.accounts : Writes(d.accounts[i])
           IN  /\ \A k \in DOMAIN all :
                     \/ IsConfig(all[k])
                     \/ all[k] \in Targets(d) \ {KeyOf(d)}
                     \/ all[k] = KeyOf(d) /\ k = Len(all) /\ able
               /\ able => Targets(d) \subseteq ToSet(all)
<1> DEFINE bad    == {i \in DOMAIN d.accounts : ~Writes(d.accounts[i])}
           first  == CHOOSE i \in bad : \A j \in bad : i <= j
           before == IF bad = {} THEN d.accounts ELSE SubSeq(d.accounts, 1, first - 1)
           each   == [i \in DOMAIN before |-> AccountWrites(before[i], "none")]
           last   == IF bad = {} THEN <<KeyOf(d)>> ELSE <<>>
           A == ToSet(d.accounts)
           able == \A i \in DOMAIN d.accounts : Writes(d.accounts[i])
           all == AllWrites(d, "none")
<1>1. d.accounts \in Seq(A) /\ DOMAIN d.accounts = 1 .. Len(d.accounts) /\ Len(d.accounts) \in Nat
  BY DEF DeskHolds, IsSeq
<1>2. before \in Seq(A) /\ (bad = {} => before = d.accounts)
  <2>1. CASE bad # {}
    <3>1. bad \in SUBSET Nat
      BY <1>1
    <3>2. \E i \in bad : \A j \in bad : i <= j
      BY <2>1, <3>1, LeastNumber
    <3>3. first \in bad
      BY <3>2
    <3>4. first \in 1 .. Len(d.accounts)
      BY <1>1, <3>3
    <3> HIDE DEF bad, first, A
    <3>5. SubSeq(d.accounts, 1, first - 1) \in Seq(A)
      BY <1>1, <3>4
    <3> QED
      BY <2>1, <3>5
  <2> QED
    BY <1>1, <2>1
<1>3. all = FlattenSeq(each) \o last
  BY DEF AllWrites, KeyWrite, KeyOf
<1>4. able <=> bad = {}
  OBVIOUS
<1> HIDE DEF bad, before, A, able, all
<1> DEFINE W == {w \in UNION {ToSet(each[i]) : i \in DOMAIN before} :
                    IsConfig(w) \/ w \in Targets(d) \ {KeyOf(d)}}
<1>5. \A a \in A : MapOf(a) \in Targets(d) /\ MtpOf(a) \in Targets(d)
  BY DEF A, ToSet, Targets
<1>6. \A a : MapOf(a) # KeyOf(d) /\ MtpOf(a) # KeyOf(d)
  BY DEF MapOf, MtpOf, KeyOf, MapFile, MtpFile, KeyFile
<1>7. ASSUME NEW i \in DOMAIN before
      PROVE  /\ each[i] \in Seq(W)
             /\ {MapOf(before[i]), MtpOf(before[i])} \subseteq ToSet(each[i])
  <2> DEFINE a == before[i]
  <2>1. a \in A
    BY <1>2
  <2>2. PICK V : /\ AccountWrites(a, "none") \in Seq(V)
                 /\ \A w \in V : w = MapOf(a) \/ w = MtpOf(a) \/ IsConfig(w)
                 /\ {MapOf(a), MtpOf(a)} \subseteq ToSet(AccountWrites(a, "none"))
    BY AccountFiles
  <2>3. each[i] = AccountWrites(a, "none")
    OBVIOUS
  <2>4. IsSeq(each[i]) /\ ToSet(each[i]) \subseteq V
    BY <2>2, <2>3, SeqIsSeq
  <2>5. ToSet(each[i]) \subseteq UNION {ToSet(each[j]) : j \in DOMAIN before}
    OBVIOUS
  <2> HIDE DEF each, a
  <2>6. ToSet(each[i]) \subseteq W
    BY <1>5, <1>6, <2>1, <2>2, <2>4, <2>5
  <2> HIDE DEF W
  <2>7. each[i] \in Seq(W)
    BY <2>4, <2>6 DEF IsSeq
  <2> QED
    BY <2>2, <2>3, <2>7 DEF a
<1>8. \A w \in W : IsConfig(w) \/ w \in Targets(d) \ {KeyOf(d)}
  OBVIOUS
<1> HIDE DEF W
<1>9. each \in Seq(Seq(W)) /\ DOMAIN each = DOMAIN before
  <2>1. DOMAIN before = 1 .. Len(before) /\ Len(before) \in Nat
    BY <1>2
  <2>2. each \in [1 .. Len(before) -> Seq(W)]
    BY <1>7, <2>1
  <2> QED
    BY <2>1, <2>2
<1> HIDE DEF each
<1> DEFINE flat == FlattenSeq(each)
<1>10. flat \in Seq(W)
  BY <1>9, FlattenFrom
<1>11. ASSUME NEW i \in DOMAIN before
       PROVE  {MapOf(before[i]), MtpOf(before[i])} \subseteq ToSet(flat)
  BY <1>7, <1>9, FlattenAll
<1> HIDE DEF flat
<1>12. CASE bad = {}
  <2>1. all = Append(flat, KeyOf(d))
    <3>1. all = flat \o <<KeyOf(d)>>
      BY <1>3, <1>12 DEF flat
    <3> QED
      BY <1>10, <3>1
  <2> DEFINE T == W \cup {KeyOf(d)}
  <2>2. flat \in Seq(T) /\ KeyOf(d) \in T
    BY <1>10
  <2> HIDE DEF T
  <2>3. /\ DOMAIN flat = 1 .. Len(flat) /\ Len(flat) \in Nat
        /\ Len(all) = Len(flat) + 1 /\ DOMAIN all = 1 .. Len(flat) + 1
        /\ \A k \in 1 .. Len(flat) : all[k] = flat[k] /\ flat[k] \in W
        /\ all[Len(flat) + 1] = KeyOf(d)
    BY <1>10, <2>1, <2>2
  <2>4. \A k \in DOMAIN all : k \in 1 .. Len(flat) \/ k = Len(flat) + 1
    BY <2>3
  <2>5. ToSet(flat) \subseteq ToSet(all) /\ KeyOf(d) \in ToSet(all)
    <3>1. \A k \in 1 .. Len(flat) : k \in DOMAIN all
      BY <2>3
    <3>2. Len(flat) + 1 \in DOMAIN all
      BY <2>3
    <3> QED
      BY <2>3, <3>1, <3>2 DEF ToSet
  <2>6. Targets(d) \subseteq ToSet(all)
    BY <1>2, <1>11, <1>12, <2>5 DEF Targets
  <2>7. ASSUME NEW k \in DOMAIN all
        PROVE  \/ IsConfig(all[k])
               \/ all[k] \in Targets(d) \ {KeyOf(d)}
               \/ all[k] = KeyOf(d) /\ k = Len(all) /\ able
    BY <1>4, <1>8, <1>12, <2>3, <2>4
  <2> QED
    BY <2>6, <2>7 DEF able, all
<1>13. CASE bad # {}
  <2>1. all = flat
    <3>1. all = flat \o <<>>
      BY <1>3, <1>13 DEF flat
    <3> QED
      BY <1>10, <3>1
  <2>2. \A k \in DOMAIN all : all[k] \in W
    BY <1>10, <2>1
  <2> QED
    BY <1>4, <1>8, <1>13, <2>2 DEF able, all
<1> QED
  BY <1>12, <1>13
-----------------------------------------------------------------------------
(* The objects that are whole *)

\* The accounts of an object and its passcode, whatever its key is.
Placed(d) ==
    /\ d.passcode \in Passcodes
    /\ d.active \in Int
    /\ \A i \in DOMAIN d.accounts :
          /\ d.accounts[i].index \in 0 .. kMaxAccounts - 1
          /\ d.accounts[i].name = ComposeDataString(d.keyFile, d.accounts[i].index)
          /\ d.accounts[i].map \subseteq Fields
    /\ \A i, j \in DOMAIN d.accounts :
          d.accounts[i].index = d.accounts[j].index =>
              /\ d.accounts[i].session = d.accounts[j].session
              /\ d.accounts[i].map = d.accounts[j].map

LEMMA WholePlaced ==
    ASSUME NEW d, DeskWhole(d)
    PROVE  Placed(d)
BY DEF DeskWhole, InPlace, Placed

LEMMA NewWhole ==
    ASSUME NEW api
    PROVE  DeskWhole(NewTDesktop(api)) /\ Placed(NewTDesktop(api))
<1> DEFINE d == NewTDesktop(api)
<1>1. d.passcode \in Passcodes
  BY DeskAssumption DEF NewTDesktop
<1>2. /\ d.local = NoKey /\ d.active = -1 /\ ~d.loaded
      /\ d.accounts = <<>>
  BY DEF NewTDesktop
<1> HIDE DEF d
<1>3. DOMAIN d.accounts = {}
  BY <1>2
<1>4. d.active \in Int
  BY <1>2
<1>5. DeskWhole(d) /\ Placed(d)
  BY <1>1, <1>2, <1>3, <1>4 DEF DeskWhole, Placed
<1> QED
  BY <1>5 DEF d

\* A new key makes an object whole, unless it is the constant one and not the
\* key of its accounts.
LEMMA GenerateWhole ==
    ASSUME NEW S, NEW d, DeskHolds(d, S), Placed(d), NEW e \in GenerateLocalKey(d),
           "constantKey" \notin SaveIncidents(e, "none")
    PROVE  DeskWhole(e) /\ e.loaded
<1>0. IsDesk(d)
  BY DEF DeskHolds
<1>1. CASE /\ performance /\ d.passcode = ""
           /\ e = [d EXCEPT !.local = FixedKey, !.loaded = TRUE,
                            !.sealed = [key |-> CreateLocalKey(d.passcode), local |-> FixedKey]]
  <2>1. /\ e.local = FixedKey /\ e.loaded /\ e.passcode = d.passcode /\ e.active = d.active
        /\ e.sealed = [key |-> CreateLocalKey(d.passcode), local |-> FixedKey]
        /\ e.accounts = d.accounts /\ e.keyFile = d.keyFile
    <3>1. e = [d EXCEPT !.local = FixedKey, !.loaded = TRUE,
                        !.sealed = [key |-> CreateLocalKey(d.passcode), local |-> FixedKey]]
      BY <1>1, Zenon
    <3> QED
      BY <1>0, <3>1 DEF IsDesk
  <2>2. FixedKey \in Keys
    BY DEF Keys
  <2>3. e.passcode = ""
    BY <1>1, <2>1, Zenon
  <2>4. \A i \in DOMAIN e.accounts : e.accounts[i].local = FixedKey
    BY <1>1, <2>1, <2>3, Zenon DEF SaveIncidents
  <2>5. \A i \in DOMAIN e.accounts : InPlace(e, e.accounts[i])
    BY <2>1, <2>4 DEF InPlace, Placed
  <2> QED
    BY <2>1, <2>2, <2>5 DEF DeskWhole, Placed
<1>2. CASE \E k \in FreshKey :
              e = [d EXCEPT !.local = k, !.loaded = TRUE,
                            !.sealed = [key |-> CreateLocalKey(d.passcode), local |-> k],
                            !.accounts = [i \in DOMAIN @ |-> [@[i] EXCEPT !.local = k]]]
  <2>1. PICK k \in FreshKey :
              e = [d EXCEPT !.local = k, !.loaded = TRUE,
                            !.sealed = [key |-> CreateLocalKey(d.passcode), local |-> k],
                            !.accounts = [i \in DOMAIN @ |-> [@[i] EXCEPT !.local = k]]]
    BY <1>2
  <2>2. k \in Keys
    BY DEF FreshKey, Keys
  <2> DEFINE all == [i \in DOMAIN d.accounts |-> [d.accounts[i] EXCEPT !.local = k]]
  <2>3. \A i \in DOMAIN d.accounts :
           /\ all[i].index = d.accounts[i].index /\ all[i].name = d.accounts[i].name
           /\ all[i].map = d.accounts[i].map /\ all[i].session = d.accounts[i].session
           /\ all[i].local = k
    <3> TAKE i \in DOMAIN d.accounts
    <3>1. IsAccount(d.accounts[i])
      BY DEF DeskHolds
    <3> QED
      BY <3>1 DEF IsAccount
  <2>4. DOMAIN all = DOMAIN d.accounts
    OBVIOUS
  <2> HIDE DEF all
  <2>5. e = [d EXCEPT !.local = k, !.loaded = TRUE,
                      !.sealed = [key |-> CreateLocalKey(d.passcode), local |-> k],
                      !.accounts = all]
    BY <1>0, <2>1 DEF IsDesk, all
  <2>6. /\ e.local = k /\ e.loaded /\ e.passcode = d.passcode /\ e.active = d.active
        /\ e.sealed = [key |-> CreateLocalKey(d.passcode), local |-> k]
        /\ e.accounts = all /\ e.keyFile = d.keyFile
    BY <1>0, <2>5 DEF IsDesk
  <2> QED
    BY <2>2, <2>3, <2>4, <2>6 DEF DeskWhole, InPlace, Placed
<1>3. \/ /\ performance /\ d.passcode = ""
         /\ e = [d EXCEPT !.local = FixedKey, !.loaded = TRUE,
                          !.sealed = [key |-> CreateLocalKey(""), local |-> FixedKey]]
      \/ \E k \in FreshKey :
            e = [d EXCEPT !.local = k, !.loaded = TRUE,
                          !.sealed = [key |-> CreateLocalKey(d.passcode), local |-> k],
                          !.accounts = [i \in DOMAIN @ |-> [@[i] EXCEPT !.local = k]]]
  BY DEF GenerateLocalKey
<1> QED
  BY <1>1, <1>2, <1>3, Zenon

\* An account that is added to a place that is free.
LEMMA AddWhole ==
    ASSUME NEW S, NEW d, DeskHolds(d, S), DeskWhole(d), ~Full(d),
           NEW session \in S, NEW api, "sameIndex" \notin AddIncidents(d)
    PROVE  DeskWhole(Added(d, session, api))
<1> DEFINE old == SetApi(d.accounts, api)
           new == NewAccount(d, session, api)
           all == Append(old, new)
           n == Len(d.accounts)
           e == Added(d, session, api)
           T == {old[i] : i \in DOMAIN d.accounts} \cup {new}
<1>0. IsDesk(d)
  BY DEF DeskHolds
<1>1. DOMAIN d.accounts = 1 .. n /\ n \in Nat /\ kMaxAccounts \in Nat
  <2>1. d.accounts \in Seq(ToSet(d.accounts))
    BY DEF DeskHolds, IsSeq
  <2>2. kMaxAccounts \in Nat
    BY DeskAssumption
  <2>3. DOMAIN d.accounts = 1 .. Len(d.accounts) /\ Len(d.accounts) \in Nat
    BY <2>1
  <2> QED
    BY <2>2, <2>3
<1>2. n \in 0 .. kMaxAccounts - 1
  BY <1>1 DEF Full
<1>3. \A i \in 1 .. n : d.accounts[i].index # n
  BY <1>1 DEF AddIncidents
<1>4. \A i \in 1 .. n :
         /\ old[i].index = d.accounts[i].index /\ old[i].name = d.accounts[i].name
         /\ old[i].map = d.accounts[i].map /\ old[i].session = d.accounts[i].session
         /\ old[i].local = d.accounts[i].local
  <2> TAKE i \in 1 .. n
  <2>1. IsAccount(d.accounts[i])
    BY <1>1 DEF DeskHolds
  <2>2. old[i] = [d.accounts[i] EXCEPT !.api = api]
    BY <1>1 DEF SetApi
  <2> HIDE DEF old
  <2> QED
    BY <2>1, <2>2 DEF IsAccount
<1>5. /\ new.index = n /\ new.name = ComposeDataString(d.keyFile, n)
      /\ new.local = d.local /\ new.map \subseteq Fields
  BY MapsHaveFields DEF NewAccount
<1>6. old = [i \in 1 .. n |-> old[i]]
  BY <1>1 DEF SetApi
<1> HIDE DEF old, new, n
<1>7. old \in Seq(T) /\ Len(old) = n /\ new \in T
  <2>1. \A i \in 1 .. n : old[i] \in T
    BY <1>1
  <2>2. new \in T
    OBVIOUS
  <2> HIDE DEF T
  <2> QED
    BY <1>1, <1>6, <2>1, <2>2
<1> HIDE DEF T
<1>8. /\ DOMAIN all = 1 .. n + 1
      /\ \A i \in 1 .. n : all[i] = old[i]
      /\ all[n + 1] = new
  BY <1>1, <1>7
<1> DEFINE main == IF d.main = NoSession THEN Head(all).session ELSE d.main
<1> HIDE DEF all
<1>9. e = [d EXCEPT !.accounts = all, !.api = api, !.main = main]
  BY <1>0 DEF Added, all, old, new, IsDesk
<1> HIDE DEF main
<1>10. /\ e.passcode = d.passcode /\ e.local = d.local /\ e.active = d.active
       /\ e.loaded = d.loaded /\ e.sealed = d.sealed /\ e.keyFile = d.keyFile
       /\ e.accounts = all
  BY <1>0, <1>9 DEF IsDesk
<1> HIDE DEF e
<1>11. \A i \in DOMAIN all : i \in 1 .. n \/ i = n + 1
  BY <1>1, <1>8
<1>12. \A i \in 1 .. n : InPlace(d, d.accounts[i])
  BY <1>1 DEF DeskWhole
<1>13. \A i \in DOMAIN all : InPlace(e, all[i])
  <2> TAKE i \in DOMAIN all
  <2>1. CASE i \in 1 .. n
    BY <1>4, <1>8, <1>10, <1>12, <2>1 DEF InPlace
  <2>2. CASE i = n + 1
    BY <1>2, <1>5, <1>8, <1>10, <2>2 DEF InPlace
  <2> QED
    BY <1>11, <2>1, <2>2
<1>14. \A i, j \in DOMAIN all : all[i].index = all[j].index =>
          all[i].session = all[j].session /\ all[i].map = all[j].map
  <2> SUFFICES ASSUME NEW i \in DOMAIN all, NEW j \in DOMAIN all, all[i].index = all[j].index
               PROVE  all[i].session = all[j].session /\ all[i].map = all[j].map
    OBVIOUS
  <2>1. CASE i \in 1 .. n /\ j \in 1 .. n
    <3>1. d.accounts[i].index = d.accounts[j].index
      BY <1>4, <1>8, <2>1
    <3>2. /\ d.accounts[i].session = d.accounts[j].session
          /\ d.accounts[i].map = d.accounts[j].map
      BY <1>1, <2>1, <3>1 DEF DeskWhole
    <3> QED
      BY <1>4, <1>8, <2>1, <3>2
  <2>2. CASE i = n + 1 /\ j = n + 1
    BY <2>2
  <2>3. CASE (i \in 1 .. n /\ j = n + 1) \/ (i = n + 1 /\ j \in 1 .. n)
    BY <1>3, <1>4, <1>5, <1>8, <2>3
  <2>4. (i \in 1 .. n \/ i = n + 1) /\ (j \in 1 .. n \/ j = n + 1)
    BY <1>11
  <2> QED
    BY <2>1, <2>2, <2>3, <2>4, Zenon
<1>15. DeskWhole(e)
  BY <1>10, <1>13, <1>14 DEF DeskWhole
<1> QED
  BY <1>15 DEF e

\* The key files of the folder have the keys and indexes of key files.
KeysTyped(files) ==
    \A k \in KeyFiles \cup {"data"} :
        files[KeyFile(k)] \notin {Absent, Torn} =>
            /\ files[KeyFile(k)].local \in Keys
            /\ files[KeyFile(k)].active \in Int
            /\ files[KeyFile(k)].indexes \in Seq(Int)

\* A folder that opens gives a whole object.
LEMMA LoadWhole ==
    ASSUME NEW S, NEW d, DeskHolds(d, S), KeysTyped(disk), d.passcode \in Passcodes,
           Opens(disk, d.keyFile, d.passcode)
    PROVE  DeskWhole(LoadFromTData(d))
<1> DEFINE k == d.keyFile
           info == disk[KeyFile(k)]
           loads(index) == /\ index \in 0 .. kMaxAccounts - 1
                           /\ AccountLoads(disk, ComposeDataString(k, index), info.local)
           places == {i \in DOMAIN info.indexes : loads(info.indexes[i])}
           listed == Picked(info.indexes, places)
           accounts == LoadedAccounts(disk, k, d.api)
           main == MainAccount(accounts, info.active, d.main)
           e == LoadFromTData(d)
<1>0. IsDesk(d) /\ k \in KeyFiles \cup {"data"}
  BY DEF DeskHolds
<1>1. /\ KeyOpens(disk, k, d.passcode) /\ ~StopsAtOne(disk, k)
      /\ LoadedAccounts(disk, k, "any") # <<>>
  BY DEF Opens
<1>2. /\ info.local \in Keys /\ info.active \in Int /\ info.indexes \in Seq(Int)
      /\ info.key = CreateLocalKey(d.passcode)
  BY <1>0, <1>1 DEF KeysTyped, KeyOpens, ReadFile
<1>3. accounts = [i \in DOMAIN listed |-> LoadedAccount(disk, k, listed[i], info.local, d.api)]
  BY DEF LoadedAccounts
<1>4. LoadedAccounts(disk, k, "any")
          = [i \in DOMAIN listed |-> LoadedAccount(disk, k, listed[i], info.local, "any")]
  BY DEF LoadedAccounts
<1>5. ToSet(listed) = {info.indexes[i] : i \in places} /\ IsSeq(listed)
  <2>1. places \in SUBSET DOMAIN info.indexes
    OBVIOUS
  <2> HIDE DEF places, info
  <2>2. Picked(info.indexes, places) \in Seq({info.indexes[i] : i \in places})
    BY <1>2, <2>1, PickedFrom
  <2>3. IsSeq(listed)
    BY <2>2, SeqIsSeq
  <2> QED
    BY <1>2, <2>1, <2>3, PickedAll
<1>6. \A i \in DOMAIN listed : listed[i] \in 0 .. kMaxAccounts - 1
  <2>1. \A i \in DOMAIN listed : listed[i] \in ToSet(listed)
    BY DEF ToSet
  <2> HIDE DEF listed
  <2> QED
    BY <1>5, <2>1
<1>7. \A i \in DOMAIN info.indexes : ~Stops(disk, k, info.indexes[i])
  BY <1>1 DEF StopsAtOne
<1>8. SelectInSeq(info.indexes, LAMBDA i : Stops(disk, k, i)) = 0
  <2>1. {i \in 1 .. Len(info.indexes) : Stops(disk, k, info.indexes[i])} = {}
    BY <1>2, <1>7
  <2> HIDE DEF info
  <2> QED
    BY <2>1 DEF SelectInSeq
<1> HIDE DEF listed, places
<1>9. accounts # <<>>
  <2>1. DOMAIN listed = 1 .. Len(listed) /\ Len(listed) \in Nat
    BY <1>5 DEF IsSeq
  <2>2. CASE Len(listed) = 0
    <3>1. DOMAIN listed = {}
      BY <2>1, <2>2
    <3>2. LoadedAccounts(disk, k, "any") = <<>>
      BY <1>4, <3>1
    <3> QED
      BY <1>1, <3>2
  <2>3. CASE Len(listed) # 0
    <3>1. 1 \in DOMAIN accounts
      BY <1>3, <2>1, <2>3
    <3> QED
      BY <3>1
  <2> QED
    BY <2>2, <2>3
<1>10. e = [[d EXCEPT !.local = info.local,
                      !.sealed = [key |-> info.key, local |-> info.local]]
               EXCEPT !.accounts = accounts, !.active = info.active, !.loaded = TRUE,
                      !.main = main]
  BY <1>1, <1>8, <1>9 DEF LoadFromTData
<1>11. \A i \in DOMAIN listed :
          /\ accounts[i].index = listed[i] /\ accounts[i].local = info.local
          /\ accounts[i].name = ComposeDataString(k, listed[i])
          /\ accounts[i].map = ReadBlocks(disk[MapFile(ComposeDataString(k, listed[i]))].blocks)
          /\ accounts[i].session = disk[MtpFile(ComposeDataString(k, listed[i]))].session
  BY <1>3 DEF LoadedAccount
<1>12. DOMAIN accounts = DOMAIN listed
  BY <1>3
<1> HIDE DEF accounts, main, info, k
<1>13. /\ e.passcode = d.passcode /\ e.local = info.local /\ e.active = info.active
       /\ e.loaded /\ e.sealed = [key |-> info.key, local |-> info.local]
       /\ e.keyFile = d.keyFile /\ e.accounts = accounts
  BY <1>0, <1>10 DEF IsDesk
<1> HIDE DEF e
<1>14. \A i \in DOMAIN accounts : InPlace(e, accounts[i])
  BY <1>6, <1>11, <1>12, <1>13, MapsHaveFields DEF InPlace, k
<1>15. DeskWhole(e)
  BY <1>2, <1>11, <1>12, <1>13, <1>14 DEF DeskWhole
<1> QED
  BY <1>15 DEF e
-----------------------------------------------------------------------------
(* The invariant of the saved folder *)

\* The incidents but those of a save that was cut off.
Breaks == Breaking \ {"cut"}

\* While a save is going on, it has targets to write still, or the
\* configurations, and the key file only as the last one; when it is to return,
\* every target is written or waits for it.
SavingInv ==
    ~Idle =>
        /\ DeskHolds(desk, Sessions) /\ DeskWhole(desk) /\ desk.loaded
        /\ saving.ends \in {"returns", "returns short", "raises"}
        /\ \A n \in DOMAIN saving.writes :
              \/ IsConfig(saving.writes[n])
              \/ saving.writes[n] \in Targets(desk) \ {KeyOf(desk)}
              \/ saving.writes[n] = KeyOf(desk) /\ n = Len(saving.writes)
        /\ saving.ends = "returns" =>
              \A t \in Targets(desk) : disk[t[1]] = t[2] \/ t \in ToSet(saving.writes)

SavedGives ==
    Idle /\ saved # NothingSaved /\ incidents \cap Breaking = {}
        => Gives(disk, saved.keyFile, saved.passcode) = saved.accounts

\* What was saved before is there at its places until the key file is written.
PairsKept ==
    /\ ~Idle /\ incidents \cap Breaking = {} /\ saved # NothingSaved
    /\ KeyOpens(disk, saved.keyFile, saved.passcode)
    /\ disk[KeyFile(saved.keyFile)].local = desk.local
    /\ SamePlaces
    /\ saving.writes # <<>>
    => Places(saved.accounts) \subseteq Places(Gives(disk, saved.keyFile, saved.passcode))

SaveInv ==
    incidents \cap Breaks = {} =>
        /\ KeysTyped(disk)
        /\ desk # NoDesk => DeskWhole(desk)
        /\ SavingInv
        /\ saved.keyFile \in KeyFiles \cup {"data"}
        /\ SavedGives
        /\ PairsKept

LEMMA SaveInit == Init => SaveInv
<1> SUFFICES ASSUME Init PROVE SaveInv
  OBVIOUS
<1>1. disk \in Folders /\ desk = NoDesk /\ saving = NotSaving /\ saved = NothingSaved
  BY DEF Init, DeskInit
<1>2. KeysTyped(disk)
  <2> SUFFICES ASSUME NEW k \in KeyFiles \cup {"data"}, disk[KeyFile(k)] \notin {Absent, Torn}
               PROVE  /\ disk[KeyFile(k)].local \in Keys
                      /\ disk[KeyFile(k)].active \in Int
                      /\ disk[KeyFile(k)].indexes \in Seq(Int)
    BY DEF KeysTyped
  <2>1. KeyFile(k) \in Paths(Names) /\ KeyFile(k)[1] = "key"
    BY KeyFileNamed DEF KeyFile
  <2> QED
    BY <1>1, <2>1, ProgramAssumption
<1>3. SavingInv /\ SavedGives /\ PairsKept
  BY <1>1 DEF SavingInv, SavedGives, PairsKept, Idle
<1>4. saved.keyFile \in KeyFiles \cup {"data"}
  BY <1>1, Zenon DEF NothingSaved
<1> QED
  BY <1>1, <1>2, <1>3, <1>4 DEF SaveInv

\* Between saves, only the object counts.
LEMMA SaveObject ==
    ASSUME SaveInv, Idle, UNCHANGED <<disk, saving, saved>>, incidents \subseteq incidents',
           incidents \cap Breaks = {} /\ incidents' \cap Breaks = {} /\ desk' # NoDesk
               => DeskWhole(desk')
    PROVE  SaveInv'
<1> SUFFICES ASSUME incidents' \cap Breaks = {}
             PROVE  /\ KeysTyped(disk)'
                    /\ (desk # NoDesk)' => DeskWhole(desk)'
                    /\ SavingInv' /\ SavedGives' /\ PairsKept'
                    /\ saved'.keyFile \in KeyFiles \cup {"data"}
  BY DEF SaveInv, Breaks, Breaking
<1>1. incidents \cap Breaks = {}
  OBVIOUS
<1>2. KeysTyped(disk) /\ SavedGives /\ saved.keyFile \in KeyFiles \cup {"data"}
  BY <1>1 DEF SaveInv
<1>3. Idle'
  BY DEF Idle, NotSaving
<1>4. KeysTyped(disk)'
  BY <1>2 DEF KeysTyped
<1>5. (desk # NoDesk)' => DeskWhole(desk)'
  BY <1>1
<1>6. SavingInv' /\ PairsKept'
  BY <1>3 DEF SavingInv, PairsKept
<1>7. SavedGives'
  <2>1. incidents' \cap Breaking = {} => incidents \cap Breaking = {}
    OBVIOUS
  <2> QED
    BY <1>2, <2>1 DEF SavedGives
<1> QED
  BY <1>2, <1>4, <1>5, <1>6, <1>7

LEMMA SaveSame ==
    ASSUME SaveInv, UNCHANGED <<disk, desk, saving, saved, incidents>>
    PROVE  SaveInv'
<1>1. SavingInv => SavingInv'
  BY DEF SavingInv, Idle, NotSaving, IsConfig, DeskHolds, DeskWhole
<1>2. SavedGives => SavedGives'
  BY DEF SavedGives, Idle, NotSaving
<1>3. PairsKept => PairsKept'
  BY DEF PairsKept, Idle, NotSaving, SamePlaces
<1>4. (incidents \cap Breaks = {})' => incidents \cap Breaks = {}
  BY DEF Breaks, Breaking
<1> QED
  BY <1>1, <1>2, <1>3, <1>4 DEF SaveInv

\* TDesktop(), TDesktop(basePath) and LoadTData.
LEMMA SaveLoads ==
    ASSUME FolderInv, SaveInv,
           \/ \E api : \E p \in Passcodes, k \in KeyFiles \cup {"data"} : Open(api, p, k)
           \/ \E api : Create(api)
           \/ \E p \in Passcodes, k \in KeyFiles \cup {"none"} : LoadTData(p, k)
    PROVE  SaveInv'
<1>0. incidents \cap Breaks = {} => KeysTyped(disk)
  BY DEF SaveInv
<1>1. ASSUME NEW api, NEW p \in Passcodes, NEW k \in KeyFiles \cup {"data"}, Open(api, p, k)
      PROVE  SaveInv'
  <2> DEFINE new == NewTDesktop(api)
             d   == [new EXCEPT !.base = TRUE, !.passcode = p, !.keyFile = k]
  <2>1. DeskHolds(new, Real)
    BY NewHolds
  <2> HIDE DEF new
  <2>2. /\ IsDesk(d) /\ d.accounts = new.accounts /\ d.keyFile = k /\ d.main = new.main
        /\ d.api = new.api /\ d.passcode = p
    <3>1. IsDesk(new)
      BY <2>1 DEF DeskHolds
    <3>2. d = [new EXCEPT !.base = TRUE, !.passcode = p, !.keyFile = k]
      OBVIOUS
    <3> HIDE DEF d
    <3> QED
      BY <3>1, <3>2 DEF IsDesk
  <2> HIDE DEF d
  <2>3. DeskHolds(d, Real)
    BY <2>1, <2>2 DEF DeskHolds
  <2>4. /\ desk' = LoadFromTData(d) /\ Opens(disk, k, p) /\ Idle
        /\ UNCHANGED <<disk, saving, saved>> /\ incidents \subseteq incidents'
    BY <1>1 DEF Open, d, new
  <2>5. KeysTyped(disk) => DeskWhole(desk')
    BY <2>2, <2>3, <2>4, LoadWhole
  <2> QED
    BY <1>0, <2>4, <2>5, SaveObject
<1>2. ASSUME NEW api, Create(api) PROVE SaveInv'
  <2>1. /\ desk' = NewTDesktop(api) /\ Idle
        /\ UNCHANGED <<disk, saving, saved>> /\ incidents \subseteq incidents'
    BY <1>2 DEF Create
  <2> QED
    BY <2>1, NewWhole, SaveObject
<1>3. ASSUME NEW p \in Passcodes, NEW k \in KeyFiles \cup {"none"}, LoadTData(p, k)
      PROVE  SaveInv'
  <2> DEFINE x == IF k = "none" THEN desk.keyFile ELSE k
             d == [desk EXCEPT !.passcode = p, !.keyFile = IF k = "none" THEN @ ELSE k]
  <2>1. DeskHolds(desk, Real) /\ IsDesk(desk)
    BY <1>3 DEF LoadTData, FolderInv, DeskHolds
  <2>2. /\ IsDesk(d) /\ d.accounts = desk.accounts /\ d.keyFile = x
        /\ x \in KeyFiles \cup {"data"}
        /\ d.main = desk.main /\ d.api = desk.api /\ d.passcode = p
    <3>1. x \in KeyFiles \cup {"data"}
      BY <2>1 DEF DeskHolds
    <3>2. d = [desk EXCEPT !.passcode = p, !.keyFile = x]
      OBVIOUS
    <3> HIDE DEF d, x
    <3> QED
      BY <2>1, <3>1, <3>2 DEF IsDesk
  <2>3. /\ desk' = LoadFromTData(d) /\ Idle
        /\ UNCHANGED <<disk, saving, saved>> /\ incidents \subseteq incidents'
        /\ Opens(disk, d.keyFile, p) \/ "refusedLoad" \in incidents'
    BY <1>3 DEF LoadTData
  <2> HIDE DEF d
  <2>4. DeskHolds(d, Real)
    BY <2>1, <2>2 DEF DeskHolds
  <2>5. incidents' \cap Breaks = {} => Opens(disk, d.keyFile, p)
    BY <2>3 DEF Breaks, Breaking
  <2>6. KeysTyped(disk) /\ Opens(disk, d.keyFile, p) => DeskWhole(desk')
    BY <2>2, <2>3, <2>4, LoadWhole
  <2> QED
    BY <1>0, <2>3, <2>5, <2>6, SaveObject
<1> QED
  BY <1>1, <1>2, <1>3

\* An account is added to a whole object.
LEMMA SaveAdds ==
    ASSUME FolderInv, SaveInv, NEW for, CanOwn(for), for = "owner" => ~Full(desk),
           NEW session \in Real, NEW api, AddTo(for, session, api),
           UNCHANGED <<disk, saving, saved>>
    PROVE  SaveInv'
<1>1. PICK d \in Owner(for) : /\ desk' = Added(d, session, api)
                              /\ incidents' = incidents \cup AddIncidents(d)
  BY DEF AddTo
<1>2. Idle /\ (for = "owner" => desk # NoDesk) /\ incidents \subseteq incidents'
  BY <1>1 DEF CanOwn
<1>3. ASSUME incidents \cap Breaks = {}
      PROVE  DeskHolds(d, Real) /\ DeskWhole(d) /\ ~Full(d)
  <2>1. DeskHolds(d, Real)
    BY <1>2, OwnerHolds
  <2>2. CASE for = "owner"
    BY <1>2, <1>3, <2>1, <2>2 DEF Owner, SaveInv
  <2>3. CASE for # "owner"
    <3> DEFINE new == NewTDesktop(DefaultApi)
    <3>1. DeskHolds(new, Real) /\ new.accounts = <<>> /\ Placed(new)
      BY NewHolds, NewWhole
    <3>2. d \in GenerateLocalKey(new)
      BY <2>3 DEF Owner
    <3> HIDE DEF new
    <3>3. DOMAIN d.accounts = {}
      BY <3>1, <3>2, GenerateHolds DEF SameAccounts
    <3>4. "constantKey" \notin SaveIncidents(d, "none")
      BY <3>3 DEF SaveIncidents
    <3>5. DeskWhole(d)
      BY <3>1, <3>2, <3>4, GenerateWhole
    <3>6. Len(d.accounts) = 0
      <4>1. DOMAIN d.accounts = 1 .. Len(d.accounts) /\ Len(d.accounts) \in Nat
        BY <2>1 DEF DeskHolds, IsSeq
      <4>2. Len(d.accounts) # 0 => 1 \in DOMAIN d.accounts
        BY <4>1
      <4> QED
        BY <3>3, <4>2
    <3>7. kMaxAccounts \in Nat /\ kMaxAccounts # 0
      BY DeskAssumption
    <3>8. ~Full(d)
      BY <3>6, <3>7 DEF Full
    <3> QED
      BY <2>1, <3>5, <3>8
  <2> QED
    BY <2>2, <2>3
<1>4. incidents' \cap Breaks = {} => "sameIndex" \notin AddIncidents(d)
  BY <1>1 DEF Breaks, Breaking
<1>5. incidents \cap Breaks = {} /\ incidents' \cap Breaks = {} => DeskWhole(desk')
  BY <1>1, <1>3, <1>4, AddWhole
<1> QED
  BY <1>2, <1>5, SaveObject

\* The object a save works with is whole, unless an incident says otherwise.
LEMMA PreparedWhole ==
    ASSUME NEW S, DeskHolds(desk, S), DeskWhole(desk), NEW p \in Passcodes \cup {"none"},
           NEW d \in Prepared(p, "none"), "constantKey" \notin SaveIncidents(d, "none")
    PROVE  DeskWhole(d) /\ d.loaded
<1> DEFINE named == [desk EXCEPT !.keyFile = IF "none" = "none" THEN @ ELSE "none"]
           other == [named EXCEPT !.passcode = p, !.loaded = FALSE]
<1>1. IsDesk(desk)
  BY DEF DeskHolds
<1>2. named = desk
  BY <1>1 DEF IsDesk
<1>3. PICK e : /\ e = desk \/ (p \in Passcodes /\ e = [desk EXCEPT !.passcode = p, !.loaded = FALSE])
               /\ IF e.loaded THEN d = e ELSE d \in GenerateLocalKey(e)
  <2> DEFINE changed == p \notin {"none", named.passcode}
             e == IF changed THEN other ELSE named
  <2>1. changed => p \in Passcodes
    OBVIOUS
  <2>2. IF e.loaded THEN d = e ELSE d \in GenerateLocalKey(e)
    BY DEF Prepared
  <2>3. e = desk \/ (p \in Passcodes /\ e = [desk EXCEPT !.passcode = p, !.loaded = FALSE])
    BY <1>2, <2>1
  <2> QED
    BY <2>2, <2>3
<1> HIDE DEF named, other
<1>4. CASE e = desk /\ e.loaded
  BY <1>3, <1>4
<1>5. CASE ~(e = desk /\ e.loaded)
  <2>1. /\ DeskHolds(e, S) /\ Placed(e)
        /\ e # desk => e.loaded = FALSE
    <3>1. CASE e = desk
      BY <3>1, WholePlaced
    <3>2. CASE p \in Passcodes /\ e = [desk EXCEPT !.passcode = p, !.loaded = FALSE]
      <4>1. /\ IsDesk(e) /\ e.accounts = desk.accounts /\ e.keyFile = desk.keyFile
            /\ e.main = desk.main /\ e.api = desk.api /\ e.active = desk.active
            /\ e.passcode = p /\ e.loaded = FALSE
        BY <1>1, <3>2 DEF IsDesk
      <4>2. DeskHolds(e, S)
        BY <4>1 DEF DeskHolds
      <4>3. Placed(desk)
        BY WholePlaced
      <4>4. Placed(e)
        BY <3>2, <4>1, <4>3 DEF Placed
      <4> QED
        BY <4>1, <4>2, <4>4
    <3> QED
      BY <1>3, <3>1, <3>2
  <2>2. d \in GenerateLocalKey(e)
    BY <1>3, <1>5, <2>1
  <2> QED
    BY <2>1, <2>2, GenerateWhole
<1> QED
  BY <1>4, <1>5

\* SaveTData begins a save of a whole object.
LEMMA SaveBegins ==
    ASSUME FolderInv, SaveInv, NEW p \in Passcodes \cup {"none"}, NEW k \in KeyFiles \cup {"none"},
           SaveTData(p, k)
    PROVE  SaveInv'
<1>1. PICK d, n :
         /\ d \in Prepared(p, k) /\ n \in 0 .. Len(AllWrites(d, k))
         /\ desk' = [Renamed(d, k, n) EXCEPT !.base = TRUE]
         /\ saving' = IF d.accounts = <<>> THEN NotSaving
                      ELSE [ writes |-> SubSeq(AllWrites(d, k), 1, n),
                             ends   |-> IF /\ \A i \in DOMAIN d.accounts : Writes(d.accounts[i])
                                           /\ n = Len(AllWrites(d, k))
                                        THEN "returns" ELSE "raises" ]
         /\ incidents' = incidents \cup SaveIncidents(d, k)
  BY DEF SaveTData
<1>2. desk # NoDesk /\ Idle /\ UNCHANGED <<disk, saved>>
  BY DEF SaveTData
<1> SUFFICES ASSUME incidents' \cap Breaks = {}
             PROVE  /\ KeysTyped(disk)'
                    /\ (desk # NoDesk)' => DeskWhole(desk')
                    /\ SavingInv' /\ SavedGives' /\ PairsKept'
                    /\ saved'.keyFile \in KeyFiles \cup {"data"}
  BY DEF SaveInv
<1>3. /\ k = "none" /\ "constantKey" \notin SaveIncidents(d, k)
      /\ incidents \cap Breaks = {} /\ incidents \subseteq incidents'
  <2>1. "constantKey" \notin SaveIncidents(d, k) /\ "keyFile" \notin SaveIncidents(d, k)
    BY <1>1 DEF Breaks, Breaking
  <2>2. k = "none"
    BY <2>1, Zenon DEF SaveIncidents
  <2> QED
    BY <1>1, <2>1, <2>2
<1>4. DeskHolds(desk, Real) /\ DeskWhole(desk)
  BY <1>2, <1>3 DEF FolderInv, SaveInv
<1>5. DeskHolds(d, Real) /\ DeskWhole(d) /\ d.loaded
  BY <1>1, <1>3, <1>4, PreparedHolds, PreparedWhole
<1>6. /\ desk'.accounts = d.accounts /\ desk'.keyFile = d.keyFile /\ desk'.passcode = d.passcode
      /\ desk'.local = d.local /\ desk'.active = d.active /\ desk'.sealed = d.sealed
      /\ desk'.loaded = d.loaded
  <2>1. desk' = [d EXCEPT !.base = TRUE]
    BY <1>1, <1>3 DEF Renamed
  <2>2. IsDesk(d)
    BY <1>5 DEF DeskHolds
  <2> QED
    BY <2>1, <2>2 DEF IsDesk
<1>7. DeskWhole(desk') /\ Targets(desk') = Targets(d) /\ KeyOf(desk') = KeyOf(d)
  BY <1>5, <1>6 DEF DeskWhole, InPlace, Targets, KeyOf
<1>8. KeysTyped(disk)' /\ saved'.keyFile \in KeyFiles \cup {"data"}
  BY <1>2, <1>3 DEF SaveInv, KeysTyped
<1>9. incidents' \cap Breaking = {} => incidents \cap Breaking = {}
  BY <1>3
<1>10. SavedGives' /\ PairsKept'
  <2>1. SavedGives
    BY <1>3 DEF SaveInv
  <2> QED
    BY <1>2, <1>9, <2>1 DEF SavedGives, PairsKept
<1>11. SavingInv'
  <2>1. CASE saving' = NotSaving
    BY <2>1 DEF SavingInv, Idle, NotSaving
  <2>2. CASE saving' # NotSaving
    <3> DEFINE all == AllWrites(d, "none")
               able == \A i \in DOMAIN d.accounts : Writes(d.accounts[i])
               some == SubSeq(all, 1, n)
    <3>1. /\ \A m \in DOMAIN all :
                \/ IsConfig(all[m])
                \/ all[m] \in Targets(d) \ {KeyOf(d)}
                \/ all[m] = KeyOf(d) /\ m = Len(all) /\ able
          /\ able => Targets(d) \subseteq ToSet(all)
      BY <1>5, SaveWrites
    <3>2. /\ saving' = [writes |-> some, ends |-> IF able /\ n = Len(all) THEN "returns" ELSE "raises"]
          /\ n \in 0 .. Len(all)
      BY <1>1, <1>3, <2>2
    <3>0. IsSeq(all)
      BY <1>5, WritesHold
    <3> HIDE DEF all, able, some
    <3>3. /\ saving'.writes = some /\ (saving'.ends = "returns" => able /\ n = Len(all))
          /\ saving'.ends \in {"returns", "raises"}
      BY <3>2
    <3>9. /\ \A m \in DOMAIN some : m \in DOMAIN all /\ some[m] = all[m]
          /\ \A m \in DOMAIN some : m = Len(all) => m = Len(some)
          /\ n = Len(all) => some = all
      <4>1. all \in Seq(ToSet(all)) /\ n \in 0 .. Len(all)
        BY <3>0, <3>2 DEF IsSeq
      <4>2. /\ DOMAIN all = 1 .. Len(all) /\ Len(all) \in Nat
            /\ Len(some) = n /\ DOMAIN some = 1 .. n
            /\ \A m \in 1 .. n : some[m] = all[m]
        BY <4>1 DEF some
      <4>3. \A m \in 1 .. n : m \in DOMAIN all /\ (m = Len(all) => m = n)
        <5> DEFINE len == Len(all)
        <5>1. n \in 0 .. len /\ len \in Nat /\ DOMAIN all = 1 .. len
          BY <4>1, <4>2
        <5> HIDE DEF len
        <5>2. \A m \in 1 .. n : m \in 1 .. len /\ (m = len => m = n)
          BY <5>1
        <5> QED
          BY <5>1, <5>2 DEF len
      <4>4. n = Len(all) => some = all
        BY <4>1 DEF some
      <4> QED
        BY <4>2, <4>3, <4>4
    <3>4. DeskHolds(desk', Sessions)
      <4>1. IsDesk(d) /\ desk' = [d EXCEPT !.base = TRUE]
        BY <1>1, <1>3, <1>5 DEF DeskHolds, Renamed
      <4>2. IsDesk(desk') /\ desk'.main = d.main /\ desk'.api = d.api
        BY <4>1 DEF IsDesk
      <4>3. DeskHolds(desk', Real)
        BY <1>5, <1>6, <4>2 DEF DeskHolds
      <4>4. Real \subseteq Sessions
        BY DEF Real
      <4> QED
        BY <4>3, <4>4, HoldsMore
    <3>5. desk'.loaded
      BY <1>5, <1>6
    <3>6. \A m \in DOMAIN saving'.writes :
             \/ IsConfig(saving'.writes[m])
             \/ saving'.writes[m] \in Targets(desk') \ {KeyOf(desk')}
             \/ saving'.writes[m] = KeyOf(desk') /\ m = Len(saving'.writes)
      BY <1>7, <3>1, <3>3, <3>9
    <3>7. saving'.ends = "returns" => \A t \in Targets(desk') : t \in ToSet(saving'.writes)
      BY <1>7, <3>1, <3>3, <3>9
    <3> QED
      BY <1>7, <3>3, <3>4, <3>5, <3>6, <3>7 DEF SavingInv
  <2> QED
    BY <2>1, <2>2
<1> QED
  BY <1>7, <1>8, <1>10, <1>11

\* Which files are which.
LEMMA Kinds ==
    /\ \A k : KeyFile(k)[1] = "key"
    /\ \A n : MapFile(n)[1] = "map" /\ MtpFile(n)[1] = "mtp"
    /\ \A a : MapOf(a)[1] = MapFile(a.name) /\ MtpOf(a)[1] = MtpFile(a.name)
    /\ \A d : KeyOf(d)[1] = KeyFile(d.keyFile)
    /\ \A d : \A t \in Targets(d) :
          t = KeyOf(d) \/ \E i \in DOMAIN d.accounts : t \in {MapOf(d.accounts[i]), MtpOf(d.accounts[i])}
    /\ \A d : \A t \in Targets(d) :
          /\ t[1][1] # "config"
          /\ t # KeyOf(d) => t[1][1] # "key"
BY DEF KeyFile, MapFile, MtpFile, MapOf, MtpOf, KeyOf, Targets

\* A place that a folder gives, and whose files stay, is given still.
LEMMA PlaceUntouched ==
    ASSUME NEW files, NEW then, NEW k, NEW p, NEW i, NEW s,
           <<i, s>> \in Places(Gives(files, k, p)),
           then[KeyFile(k)] = files[KeyFile(k)],
           then[MapFile(ComposeDataString(k, i))] = files[MapFile(ComposeDataString(k, i))],
           then[MtpFile(ComposeDataString(k, i))] = files[MtpFile(ComposeDataString(k, i))]
    PROVE  <<i, s>> \in Places(Gives(then, k, p))
<1>1. /\ KeyOpens(files, k, p) /\ Reads(files, k, i)
      /\ s = files[MtpFile(ComposeDataString(k, i))].session
  BY PlacesGiven
<1>2. KeyOpens(then, k, p) /\ Reads(then, k, i)
  BY <1>1 DEF KeyOpens, Reads, AccountLoads
<1> QED
  BY <1>1, <1>2, PlacesGiven

\* The place of an account is given still when a file of an object is written
\* that holds no other account there, and writes with the key of the folder.
LEMMA PlaceWritten ==
    ASSUME NEW files, DOMAIN files = Paths(Names), NEW k \in KeyFiles \cup {"data"}, NEW p,
           NEW i, NEW s, <<i, s>> \in Places(Gives(files, k, p)),
           NEW d, DeskHolds(d, Sessions), DeskWhole(d), d.loaded,
           files[KeyFile(k)].local = d.local,
           \A j \in DOMAIN d.accounts : d.accounts[j].index = i => d.accounts[j].session = s,
           NEW w, IsConfig(w) \/ w \in Targets(d) \ {KeyOf(d)}
    PROVE  LET then == [files EXCEPT ![w[1]] = w[2]]
           IN  <<i, s>> \in Places(Gives(then, k, p))
<1> DEFINE name == ComposeDataString(k, i)
           then == [files EXCEPT ![w[1]] = w[2]]
<1>1. /\ KeyOpens(files, k, p) /\ Reads(files, k, i)
      /\ s = files[MtpFile(name)].session
  BY PlacesGiven
<1>2. i \in 0 .. kMaxAccounts - 1
  BY <1>1 DEF Reads
<1>3. {KeyFile(k), MapFile(name), MtpFile(name)} \subseteq DOMAIN files
  BY <1>2, FilesNamed
<1>4. KeyFile(k) # w[1]
  <2>1. KeyFile(k)[1] = "key"
    BY Kinds
  <2>2. CASE IsConfig(w)
    BY <2>1, <2>2 DEF IsConfig
  <2>3. CASE w \in Targets(d) \ {KeyOf(d)}
    BY <2>1, <2>3, Kinds
  <2> QED
    BY <2>2, <2>3
<1>5. then[KeyFile(k)] = files[KeyFile(k)]
  BY <1>3, <1>4
<1>6. CASE w[1] \notin {MapFile(name), MtpFile(name)}
  <2>1. then[MapFile(name)] = files[MapFile(name)] /\ then[MtpFile(name)] = files[MtpFile(name)]
    BY <1>3, <1>6
  <2> HIDE DEF then
  <2>2. <<i, s>> \in Places(Gives(then, k, p))
    BY <1>5, <2>1, PlaceUntouched
  <2> QED
    BY <2>2 DEF then
<1>7. CASE w[1] \in {MapFile(name), MtpFile(name)}
  <2>1. w \in Targets(d) \ {KeyOf(d)}
    BY <1>7, Kinds DEF IsConfig
  <2>2. PICK j \in DOMAIN d.accounts : w \in {MapOf(d.accounts[j]), MtpOf(d.accounts[j])}
    BY <2>1, Kinds
  <2> DEFINE a == d.accounts[j]
  <2>3. a.session \in Sessions
    BY DEF DeskHolds
  <2>4. /\ MapOf(a)[2] \notin {Absent, Torn} /\ MapOf(a)[2].key = d.local
        /\ MtpOf(a)[2] \notin {Absent, Torn} /\ MtpOf(a)[2].key = d.local
        /\ MtpOf(a)[2].session = a.session
        /\ MapOf(a)[1] = MapFile(ComposeDataString(d.keyFile, a.index))
        /\ MtpOf(a)[1] = MtpFile(ComposeDataString(d.keyFile, a.index))
    BY <2>3, FilesOfWhole
  <2>5. ComposeDataString(d.keyFile, a.index) = name
    BY <1>7, <2>2, <2>4 DEF MapFile, MtpFile
  <2>6. a.index = i
    BY <2>5 DEF ComposeDataString
  <2>7. a.session = s /\ s # NoSession
    BY <2>3, <2>6, SessionAssumption
  <2> HIDE DEF a, name
  <2>8. MapFile(name) # MtpFile(name)
    BY Kinds
  <2>9. /\ Readable(files[MapFile(name)], d.local) /\ Readable(files[MtpFile(name)], d.local)
    BY <1>1 DEF Reads, AccountLoads, name
  <2>10. /\ Readable(MapOf(a)[2], d.local) /\ Readable(MtpOf(a)[2], d.local)
    BY <2>4 DEF Readable, ReadFile, DecryptLocal
  <2>11. CASE w = MapOf(a)
    <3>1. /\ then[MapFile(name)] = MapOf(a)[2]
          /\ then[MtpFile(name)] = files[MtpFile(name)]
      BY <1>3, <2>4, <2>5, <2>8, <2>11
    <3> HIDE DEF then
    <3>2. KeyOpens(then, k, p) /\ Reads(then, k, i) /\ then[MtpFile(name)].session = s
      BY <1>1, <1>5, <2>7, <2>9, <2>10, <3>1 DEF KeyOpens, Reads, AccountLoads, name
    <3>3. <<i, s>> \in Places(Gives(then, k, p))
      BY <3>2, PlacesGiven DEF name
    <3> QED
      BY <3>3 DEF then
  <2>12. CASE w = MtpOf(a)
    <3>1. /\ then[MtpFile(name)] = MtpOf(a)[2]
          /\ then[MapFile(name)] = files[MapFile(name)]
      BY <1>3, <2>4, <2>5, <2>8, <2>12
    <3> HIDE DEF then
    <3>2. KeyOpens(then, k, p) /\ Reads(then, k, i) /\ then[MtpFile(name)].session = s
      BY <1>1, <1>5, <2>4, <2>7, <2>9, <2>10, <3>1 DEF KeyOpens, Reads, AccountLoads, name
    <3>3. <<i, s>> \in Places(Gives(then, k, p))
      BY <3>2, PlacesGiven DEF name
    <3> QED
      BY <3>3 DEF then
  <2> QED
    BY <2>2, <2>11, <2>12 DEF a
<1> QED
  BY <1>6, <1>7

\* The first of the files that are to be written, and the others.
LEMMA NextWrite ==
    ASSUME SavingHolds(Real), saving.writes # <<>>
    PROVE  LET all  == saving.writes
               w    == Head(all)
               rest == Tail(all)
           IN  /\ all[1] = w /\ 1 \in DOMAIN all
               /\ \A n \in DOMAIN rest : n + 1 \in DOMAIN all /\ rest[n] = all[n + 1]
               /\ \A n \in DOMAIN rest : n + 1 = Len(all) => n = Len(rest)
               /\ Len(all) = 1 => rest = <<>>
               /\ \A t \in ToSet(all) : t = w \/ t \in ToSet(rest)
<1> DEFINE all == saving.writes
           rest == Tail(all)
           T == ToSet(all)
<1>1. all \in Seq(T) /\ all # <<>>
  BY DEF SavingHolds, IsSeq
<1> HIDE DEF all, T
<1>2. /\ DOMAIN all = 1 .. Len(all) /\ Len(all) \in Nat /\ Len(all) # 0 /\ Head(all) = all[1]
      /\ Len(rest) = Len(all) - 1 /\ DOMAIN rest = 1 .. Len(all) - 1
      /\ \A n \in 1 .. Len(all) - 1 : rest[n] = all[n + 1]
  BY <1>1
<1>3. \A n \in DOMAIN rest : n + 1 \in DOMAIN all /\ (n + 1 = Len(all) => n = Len(rest))
  BY <1>2
<1>4. Len(all) = 1 => rest = <<>>
  <2>1. rest \in Seq(T)
    BY <1>1
  <2> HIDE DEF rest
  <2> QED
    BY <1>2, <2>1
<1>5. ASSUME NEW n \in DOMAIN all PROVE all[n] = Head(all) \/ all[n] \in ToSet(rest)
  <2>1. CASE n = 1
    BY <1>2, <2>1
  <2>2. CASE n # 1
    <3>1. n - 1 \in DOMAIN rest /\ (n - 1) + 1 = n
      BY <1>2, <2>2
    <3>2. rest[n - 1] = all[n]
      BY <1>2, <3>1
    <3> QED
      BY <3>1, <3>2 DEF ToSet
  <2> QED
    BY <2>1, <2>2
<1>6. 1 \in DOMAIN all
  BY <1>2
<1> HIDE DEF rest
<1>7. \A t \in ToSet(all) : t = Head(all) \/ t \in ToSet(rest)
  BY <1>5 DEF ToSet
<1> QED
  BY <1>2, <1>3, <1>4, <1>6, <1>7 DEF all, rest

\* A file of a save is written.
LEMMA SaveGoesOn ==
    ASSUME FolderInv, SaveInv, WriteFile
    PROVE  SaveInv'
<1> DEFINE all  == saving.writes
           w    == Head(all)
           rest == Tail(all)
<1>1. all # <<>> /\ UNCHANGED <<desk, saved>>
  BY DEF WriteFile
<1>2. /\ saving = [writes |-> saving.writes, ends |-> saving.ends] /\ DOMAIN disk = Paths(Names)
  BY DEF FolderInv, SavingHolds, DiskHolds
<1>w. \/ /\ disk' = [disk EXCEPT ![w[1]] = w[2]]
         /\ saving' = [writes |-> rest, ends |-> saving.ends]
         /\ UNCHANGED incidents
      \/ /\ disk' = [disk EXCEPT ![w[1]] = Torn]
         /\ saving' = [writes |-> rest,
                       ends |-> IF saving.ends = "raises" THEN "raises" ELSE "returns short"]
         /\ incidents' = incidents \cup {"cut"}
  <2>1. CASE saving' = [saving EXCEPT !.writes = rest]
    <3>1. saving' = [writes |-> rest, ends |-> saving.ends]
      BY <1>2, <2>1
    <3> QED
      BY <3>1 DEF WriteFile
  <2>2. CASE saving' = [saving EXCEPT !.writes = rest,
                           !.ends = IF @ = "raises" THEN @ ELSE "returns short"]
    <3>1. saving' = [writes |-> rest,
                     ends |-> IF saving.ends = "raises" THEN "raises" ELSE "returns short"]
      BY <1>2, <2>2
    <3> QED
      BY <3>1 DEF WriteFile
  <2> QED
    BY <2>1, <2>2 DEF WriteFile
<1>3. ~Idle
  BY <1>1 DEF Idle, NotSaving
<1> SUFFICES ASSUME incidents' \cap Breaks = {}
             PROVE  /\ KeysTyped(disk)'
                    /\ (desk # NoDesk)' => DeskWhole(desk')
                    /\ SavingInv' /\ SavedGives' /\ PairsKept'
                    /\ saved'.keyFile \in KeyFiles \cup {"data"}
  BY DEF SaveInv
<1>4. /\ incidents \cap Breaks = {}
      /\ KeysTyped(disk) /\ (desk # NoDesk => DeskWhole(desk)) /\ SavingInv /\ PairsKept
      /\ saved.keyFile \in KeyFiles \cup {"data"}
  <2>1. incidents \cap Breaks = {}
    BY <1>w
  <2> QED
    BY <2>1 DEF SaveInv
<1>5. /\ DeskHolds(desk, Sessions) /\ DeskWhole(desk) /\ desk.loaded
      /\ saving.ends \in {"returns", "returns short", "raises"}
      /\ \A n \in DOMAIN all :
            \/ IsConfig(all[n])
            \/ all[n] \in Targets(desk) \ {KeyOf(desk)}
            \/ all[n] = KeyOf(desk) /\ n = Len(all)
      /\ saving.ends = "returns" =>
            \A t \in Targets(desk) : disk[t[1]] = t[2] \/ t \in ToSet(all)
  BY <1>3, <1>4 DEF SavingInv
<1>6. /\ all[1] = w /\ 1 \in DOMAIN all
      /\ \A n \in DOMAIN rest : n + 1 \in DOMAIN all /\ rest[n] = all[n + 1]
      /\ \A n \in DOMAIN rest : n + 1 = Len(all) => n = Len(rest)
      /\ Len(all) = 1 => rest = <<>>
      /\ \A t \in ToSet(all) : t = w \/ t \in ToSet(rest)
  BY <1>1, NextWrite DEF FolderInv
<1> HIDE DEF all, w, rest
<1>v. /\ saving'.writes = rest /\ saving'.ends \in {"returns", "returns short", "raises"}
      /\ saving'.ends = "returns" =>
            saving.ends = "returns" /\ disk' = [disk EXCEPT ![w[1]] = w[2]]
  <2>1. CASE disk' = [disk EXCEPT ![w[1]] = w[2]] /\ saving' = [writes |-> rest, ends |-> saving.ends]
    BY <1>5, <2>1
  <2>2. CASE saving' = [writes |-> rest,
                        ends |-> IF saving.ends = "raises" THEN "raises" ELSE "returns short"]
    <3>1. saving'.writes = rest /\ saving'.ends \in {"raises", "returns short"}
      BY <2>2
    <3> QED
      BY <3>1
  <2> QED
    BY <1>w, <2>1, <2>2
<1>7. \/ IsConfig(w)
      \/ w \in Targets(desk) \ {KeyOf(desk)}
      \/ w = KeyOf(desk) /\ rest = <<>>
  BY <1>5, <1>6
<1>8. \A t \in Targets(desk) : t[1][1] # "config" /\ t[1] \in DOMAIN disk
  <2> TAKE t \in Targets(desk)
  <2>1. desk.keyFile \in KeyFiles \cup {"data"}
    BY <1>5 DEF DeskHolds
  <2>2. CASE t = KeyOf(desk)
    <3>1. t[1] = KeyFile(desk.keyFile)
      BY <2>2, Kinds
    <3> QED
      BY <1>2, <2>1, <3>1, Kinds, KeyFileNamed
  <2>3. CASE \E i \in DOMAIN desk.accounts : t \in {MapOf(desk.accounts[i]), MtpOf(desk.accounts[i])}
    <3>1. PICK i \in DOMAIN desk.accounts : t \in {MapOf(desk.accounts[i]), MtpOf(desk.accounts[i])}
      BY <2>3
    <3> DEFINE a == desk.accounts[i]
    <3>2. a.name = ComposeDataString(desk.keyFile, a.index) /\ a.index \in 0 .. kMaxAccounts - 1
      BY <1>5 DEF DeskWhole, InPlace
    <3> HIDE DEF a
    <3>3. MapFile(a.name) \in Paths(Names) /\ MtpFile(a.name) \in Paths(Names)
      BY <2>1, <3>2, FilesNamed
    <3>4. t \in {MapOf(a), MtpOf(a)}
      BY <3>1 DEF a
    <3>5. t[1] \in {MapFile(a.name), MtpFile(a.name)}
      BY <3>4, Kinds
    <3> QED
      BY <1>2, <3>3, <3>5, Kinds
  <2> QED
    BY <2>2, <2>3, Kinds
<1>9. KeysTyped(disk)'
  <2> SUFFICES ASSUME NEW k \in KeyFiles \cup {"data"}, disk'[KeyFile(k)] \notin {Absent, Torn}
               PROVE  /\ disk'[KeyFile(k)].local \in Keys
                      /\ disk'[KeyFile(k)].active \in Int
                      /\ disk'[KeyFile(k)].indexes \in Seq(Int)
    BY DEF KeysTyped
  <2>1. KeyFile(k) \in DOMAIN disk /\ KeyFile(k)[1] = "key"
    BY <1>2, KeyFileNamed, Kinds
  <2>2. CASE KeyFile(k) # w[1]
    <3>1. disk'[KeyFile(k)] = disk[KeyFile(k)]
      BY <1>w, <2>1, <2>2
    <3> QED
      BY <1>4, <3>1 DEF KeysTyped
  <2>3. CASE KeyFile(k) = w[1]
    <3>1. w = KeyOf(desk)
      <4>1. ~IsConfig(w)
        BY <2>1, <2>3 DEF IsConfig
      <4>2. ASSUME w # KeyOf(desk) PROVE w[1][1] # "key"
        BY <1>7, <4>1, <4>2, Kinds
      <4> QED
        BY <2>1, <2>3, <4>2
    <3>2. disk'[KeyFile(k)] = KeyOf(desk)[2]
      <4>1. disk'[KeyFile(k)] = w[2] \/ disk'[KeyFile(k)] = Torn
        BY <1>w, <2>1, <2>3
      <4> QED
        BY <3>1, <4>1
    <3> QED
      BY <1>5, <3>2, KeyOfWhole
  <2> QED
    BY <2>2, <2>3
<1>10. SavingInv'
  <2>1. \A n \in DOMAIN rest :
           \/ IsConfig(rest[n])
           \/ rest[n] \in Targets(desk) \ {KeyOf(desk)}
           \/ rest[n] = KeyOf(desk) /\ n = Len(rest)
    BY <1>5, <1>6
  <2>2. ASSUME saving'.ends = "returns", NEW t \in Targets(desk)
        PROVE  disk'[t[1]] = t[2] \/ t \in ToSet(rest)
    <3>0. saving.ends = "returns" /\ disk' = [disk EXCEPT ![w[1]] = w[2]]
      BY <1>v, <2>2
    <3>1. disk[t[1]] = t[2] \/ t = w \/ t \in ToSet(rest)
      BY <1>5, <1>6, <3>0
    <3>2. CASE t[1] = w[1]
      <4>1. ~IsConfig(w)
        BY <1>8, <3>2 DEF IsConfig
      <4>2. w \in Targets(desk)
        BY <1>7, <4>1 DEF Targets
      <4>3. t = w
        BY <1>5, <3>2, <4>2, TargetsDiffer
      <4> QED
        BY <1>8, <3>0, <4>3
    <3>3. CASE t[1] # w[1]
      BY <1>8, <3>0, <3>1, <3>3
    <3> QED
      BY <3>2, <3>3
  <2>3. desk' = desk
    BY <1>1
  <2>4. /\ DeskHolds(desk', Sessions) /\ DeskWhole(desk') /\ desk'.loaded
        /\ saving'.ends \in {"returns", "returns short", "raises"}
        /\ \A n \in DOMAIN saving'.writes :
              \/ IsConfig(saving'.writes[n])
              \/ saving'.writes[n] \in Targets(desk') \ {KeyOf(desk')}
              \/ saving'.writes[n] = KeyOf(desk') /\ n = Len(saving'.writes)
        /\ saving'.ends = "returns" =>
              \A t \in Targets(desk') : disk'[t[1]] = t[2] \/ t \in ToSet(saving'.writes)
    BY <1>5, <1>v, <2>1, <2>2, <2>3
  <2> QED
    BY <2>4 DEF SavingInv
<1>11. SavedGives'
  <2>1. saving'.ends # "idle"
    BY <1>v
  <2>2. ~Idle'
    BY <2>1 DEF Idle, NotSaving
  <2> QED
    BY <2>2 DEF SavedGives
<1>12. PairsKept'
  <2> DEFINE k == saved.keyFile
             p == saved.passcode
             then == [disk EXCEPT ![w[1]] = w[2]]
  <2>0. incidents' \cap Breaking = {} => disk' = then /\ incidents \cap Breaking = {}
    <3>1. "cut" \in Breaking
      BY DEF Breaking
    <3> QED
      BY <1>w, <3>1
  <2> SUFFICES ASSUME incidents \cap Breaking = {}, saved # NothingSaved,
                      KeyOpens(then, k, p), then[KeyFile(k)].local = desk.local,
                      SamePlaces, rest # <<>>
               PROVE  Places(saved.accounts) \subseteq Places(Gives(then, k, p))
    BY <1>1, <1>v, <2>0 DEF PairsKept, SamePlaces
  <2>1. IsConfig(w) \/ w \in Targets(desk) \ {KeyOf(desk)}
    BY <1>7
  <2>2. KeyFile(k) # w[1]
    <3>1. KeyFile(k)[1] = "key"
      BY Kinds
    <3>2. ASSUME ~IsConfig(w) PROVE w[1][1] # "key"
      BY <2>1, <3>2, Kinds
    <3> QED
      BY <3>1, <3>2 DEF IsConfig
  <2>3. KeyFile(k) \in DOMAIN disk
    BY <1>2, <1>4, KeyFileNamed
  <2>4. then[KeyFile(k)] = disk[KeyFile(k)]
    BY <2>2, <2>3
  <2>5. KeyOpens(disk, k, p) /\ disk[KeyFile(k)].local = desk.local
    BY <2>4 DEF KeyOpens
  <2>6. Places(saved.accounts) \subseteq Places(Gives(disk, k, p))
    BY <1>1, <1>3, <1>4, <2>5 DEF PairsKept, all
  <2> SUFFICES ASSUME NEW a \in saved.accounts
               PROVE  <<a.index, a.session>> \in Places(Gives(then, k, p))
    BY DEF Places
  <2>7. <<a.index, a.session>> \in Places(Gives(disk, k, p))
    BY <2>6 DEF Places
  <2>8. \A j \in DOMAIN desk.accounts :
           desk.accounts[j].index = a.index => desk.accounts[j].session = a.session
    BY DEF SamePlaces
  <2> HIDE DEF then
  <2>9. LET next == [disk EXCEPT ![w[1]] = w[2]]
        IN  <<a.index, a.session>> \in Places(Gives(next, k, p))
    BY <1>2, <1>4, <1>5, <2>1, <2>5, <2>7, <2>8, PlaceWritten
  <2> QED
    BY <2>9 DEF then
<1> QED
  BY <1>1, <1>4, <1>9, <1>10, <1>11, <1>12

\* A save ends: it has left every target, or it has raised.
LEMMA SaveEnds ==
    ASSUME FolderInv, SaveInv, EndSave
    PROVE  SaveInv'
<1>1. /\ ~Idle /\ saving.writes = <<>> /\ saving' = NotSaving
      /\ saved' = IF saving.ends = "raises" THEN saved ELSE Promise(desk)
      /\ incidents' = IF saving.ends = "returns" THEN incidents \ {"cut"}
                      ELSE incidents \cup {"cut"}
      /\ UNCHANGED <<disk, desk>>
  BY DEF EndSave
<1> SUFFICES ASSUME incidents' \cap Breaks = {}
             PROVE  /\ KeysTyped(disk)'
                    /\ (desk # NoDesk)' => DeskWhole(desk')
                    /\ SavingInv' /\ SavedGives' /\ PairsKept'
                    /\ saved'.keyFile \in KeyFiles \cup {"data"}
  BY DEF SaveInv
<1>2. incidents \cap Breaks = {}
  BY <1>1 DEF Breaks
<1>3. /\ KeysTyped(disk) /\ (desk # NoDesk => DeskWhole(desk)) /\ SavingInv
      /\ saved.keyFile \in KeyFiles \cup {"data"}
  BY <1>2 DEF SaveInv
<1>4. KeysTyped(disk)' /\ ((desk # NoDesk)' => DeskWhole(desk'))
  BY <1>1, <1>3 DEF KeysTyped
<1>5. Idle'
  BY <1>1 DEF Idle, NotSaving
<1>6. SavingInv' /\ PairsKept'
  BY <1>5 DEF SavingInv, PairsKept
<1>7. CASE saving.ends = "returns"
  <2>1. DeskHolds(desk, Sessions) /\ DeskWhole(desk) /\ desk.loaded
    BY <1>1, <1>3 DEF SavingInv
  <2>2. \A t \in Targets(desk) : disk[t[1]] = t[2]
    BY <1>1, <1>3, <1>7 DEF SavingInv, ToSet
  <2>3. Gives(disk, desk.keyFile, desk.passcode) = Promise(desk).accounts
    BY <2>1, <2>2, WholeGives
  <2>4. saved' = Promise(desk) /\ disk' = disk
    BY <1>1, <1>7
  <2>5. saved'.keyFile = desk.keyFile /\ saved'.passcode = desk.passcode
    BY <2>4 DEF Promise
  <2>6. SavedGives'
    BY <2>3, <2>4, <2>5 DEF SavedGives
  <2>7. desk.keyFile \in KeyFiles \cup {"data"}
    BY <2>1 DEF DeskHolds
  <2> QED
    BY <1>4, <1>6, <2>5, <2>6, <2>7
<1>8. CASE saving.ends # "returns"
  <2>1. /\ saved' = saved \/ saved' = Promise(desk)
        /\ "cut" \in incidents'
    BY <1>1, <1>8
  <2>4. saved'.keyFile \in KeyFiles \cup {"data"}
    <3>1. DeskHolds(desk, Sessions)
      BY <1>1, <1>3 DEF SavingInv
    <3>2. desk.keyFile \in KeyFiles \cup {"data"} /\ Promise(desk).keyFile = desk.keyFile
      BY <3>1 DEF DeskHolds, Promise
    <3> QED
      BY <1>3, <2>1, <3>2
  <2>2. incidents' \cap Breaking # {}
    BY <2>1 DEF Breaking
  <2>3. SavedGives'
    BY <2>2 DEF SavedGives
  <2> QED
    BY <1>4, <1>6, <2>3, <2>4
<1> QED
  BY <1>7, <1>8

\* The process dies.
LEMMA SaveDies ==
    ASSUME FolderInv, SaveInv, Die
    PROVE  SaveInv'
<1>1. /\ desk' = NoDesk /\ saving' = NotSaving /\ saved' = saved
      /\ incidents' = IF Idle THEN incidents ELSE incidents \cup {"cut"}
  BY DEF Die
<1>2. disk' = disk \/ (saving.writes # <<>> /\ \E q : disk' = [disk EXCEPT ![q] = Torn])
  BY DEF Die
<1> SUFFICES ASSUME incidents' \cap Breaks = {}
             PROVE  /\ KeysTyped(disk)'
                    /\ SavingInv' /\ SavedGives' /\ PairsKept'
                    /\ saved'.keyFile \in KeyFiles \cup {"data"}
  BY <1>1 DEF SaveInv
<1>3. incidents \cap Breaks = {}
  BY <1>1 DEF Breaks
<1>4. KeysTyped(disk) /\ SavedGives /\ saved.keyFile \in KeyFiles \cup {"data"}
  BY <1>3 DEF SaveInv
<1>5. KeysTyped(disk)'
  <2>1. CASE disk' = disk
    BY <1>4, <2>1 DEF KeysTyped
  <2>2. CASE \E q : disk' = [disk EXCEPT ![q] = Torn]
    <3>1. PICK q : disk' = [disk EXCEPT ![q] = Torn]
      BY <2>2
    <3>2. \A k \in KeyFiles \cup {"data"} : KeyFile(k) \in DOMAIN disk
      BY KeyFileNamed DEF FolderInv, DiskHolds
    <3>3. \A k \in KeyFiles \cup {"data"} :
             disk'[KeyFile(k)] \in {disk[KeyFile(k)], Torn}
      BY <3>1, <3>2
    <3> QED
      BY <1>4, <3>3 DEF KeysTyped
  <2> QED
    BY <1>2, <2>1, <2>2
<1>6. Idle'
  BY <1>1 DEF Idle, NotSaving
<1>7. SavingInv' /\ PairsKept'
  BY <1>6 DEF SavingInv, PairsKept
<1>8. SavedGives'
  <2>1. CASE Idle
    <3>1. saving.writes = <<>>
      BY <2>1 DEF Idle, NotSaving
    <3>2. disk' = disk /\ incidents' = incidents
      BY <1>1, <1>2, <2>1, <3>1
    <3> QED
      BY <1>1, <1>4, <2>1, <3>2 DEF SavedGives
  <2>2. CASE ~Idle
    <3>1. incidents' \cap Breaking # {}
      BY <1>1, <2>2 DEF Breaking
    <3> QED
      BY <3>1 DEF SavedGives
  <2> QED
    BY <2>1, <2>2
<1> QED
  BY <1>1, <1>4, <1>5, <1>7, <1>8

\* Every step of the program keeps the invariant of the saved folder.
LEMMA SaveNext == ProgramInv /\ SaveInv /\ [Next]_vars => SaveInv'
<1> SUFFICES ASSUME ProgramInv, SaveInv, [Next]_vars PROVE SaveInv'
  OBVIOUS
<1>0. EndInv /\ FolderInv /\ clients \subseteq Real
  BY DEF ProgramInv, FolderInv
<1>1. ASSUME UNCHANGED deskVars PROVE SaveInv'
  BY <1>1, SaveSame DEF deskVars
<1>2. CASE UNCHANGED vars
  BY <1>1, <1>2 DEF vars
<1>3. CASE DeskCall
  <2>1. ASSUME NEW p \in Passcodes \cup {"none"}, NEW k \in KeyFiles \cup {"none"}, SaveTData(p, k)
        PROVE  SaveInv'
    BY <1>0, <2>1, SaveBegins
  <2>2. CASE PerformanceMode
    BY <2>2, SaveSame DEF PerformanceMode
  <2>3. ASSUME NEW api, NEW p \in Passcodes, NEW k \in KeyFiles \cup {"data"}, Open(api, p, k)
        PROVE  SaveInv'
    BY <1>0, <2>3, SaveLoads
  <2>4. ASSUME NEW api, Create(api) PROVE SaveInv'
    BY <1>0, <2>4, SaveLoads
  <2>5. ASSUME NEW p \in Passcodes, NEW k \in KeyFiles \cup {"none"}, LoadTData(p, k)
        PROVE  SaveInv'
    BY <1>0, <2>5, SaveLoads
  <2>6. \/ \E api \in OpenApis, p \in Passcodes, k \in KeyFiles \cup {"data"} : Open(api, p, k)
        \/ \E api \in OpenApis : Create(api)
        \/ \E p \in Passcodes, k \in KeyFiles \cup {"none"} : LoadTData(p, k)
        \/ \E p \in Passcodes \cup {"none"}, k \in KeyFiles \cup {"none"} : SaveTData(p, k)
        \/ PerformanceMode
    BY <1>3 DEF DeskCall
  <2>7. CASE \E api \in OpenApis, p \in Passcodes, k \in KeyFiles \cup {"data"} : Open(api, p, k)
    BY <2>3, <2>7
  <2>8. CASE \E p \in Passcodes \cup {"none"}, k \in KeyFiles \cup {"none"} : SaveTData(p, k)
    BY <2>1, <2>8
  <2> QED
    BY <2>2, <2>4, <2>5, <2>6, <2>7, <2>8
<1>4. CASE ConversionCall
  <2>1. ASSUME NEW for, NEW api, NEW s, UseClient(for, s, api) PROVE SaveInv'
    <3>1. /\ CanOwn(for) /\ s \in Real /\ (for = "owner" => ~Full(desk))
          /\ AddTo(for, s, api) /\ UNCHANGED <<disk, saving, saved>>
      BY <1>0, <2>1 DEF UseClient
    <3> QED
      BY <1>0, <3>1, SaveAdds
  <2>2. CASE UNCHANGED deskVars
    BY <1>1, <2>2
  <2> QED
    BY <1>4, <2>1, <2>2 DEF ConversionCall, FromTelethon, UseMain, FromTDesktop, OpenFile
<1>5. CASE DeskStep
  BY <1>0, <1>5, SaveGoesOn, SaveEnds DEF DeskStep
<1>6. CASE ServerCall \/ SweepStep \/ (LoginStep /\ UNCHANGED <<deskVars, clients>>)
           \/ Returned \/ Raised
  BY <1>1, <1>6 DEF ServerCall, SweepStep, Returned, Raised
<1>7. CASE Convert
  <2>1. CASE /\ login.for = "owner" => ~Full(desk)
             /\ AddTo(login.for, login.key, login.api)
    <3>1. At("returned") /\ CanOwn(login.for) /\ UNCHANGED <<disk, saving, saved>>
      BY <1>7 DEF Convert
    <3>2. login.key \in Real
      BY <1>0, <3>1 DEF EndInv, PointsHold, At
    <3> QED
      BY <1>0, <2>1, <3>1, <3>2, SaveAdds
  <2>2. CASE UNCHANGED <<desk, incidents>>
    BY <1>1, <1>7, <2>2 DEF Convert, deskVars
  <2> QED
    BY <1>7, <2>1, <2>2 DEF Convert
<1>8. CASE Exit
  BY <1>0, <1>8, SaveDies DEF Exit
<1> QED
  BY <1>2, <1>3, <1>4, <1>5, <1>6, <1>7, <1>8 DEF Next

LEMMA SaveInvariant == Spec => []SaveInv
BY SaveInit, SaveNext, ProgramInvariant, PTL DEF Spec

\* A folder is opened as it is given, when what was saved was saved there.
LEMMA OpenedAsGiven ==
    ASSUME NEW files, NEW k \in KeyFiles \cup {"data"}, NEW p,
           files[KeyFile(k)] \notin {Absent, Torn} => IsSeq(files[KeyFile(k)].indexes)
    PROVE  Opened(files, k, p) = Gives(files, k, p)
BY OpenedGives DEF KeyOpens, ReadFile

\* A folder whose last save returned opens and gives back the places, sessions
\* and maps of that save: through every order of loads, conversions, saves with
\* new passcodes and crashes between saves, for every number of accounts.
THEOREM SavedAlwaysOpens == Spec => []SavedOpens
<1>1. ProgramInv /\ SaveInv => SavedOpens
  <2> SUFFICES ASSUME FolderInv, SaveInv, Idle, saved # NothingSaved, incidents \cap Breaking = {}
               PROVE  Opened(disk, saved.keyFile, saved.passcode) = saved.accounts
    BY DEF ProgramInv, SavedOpens
  <2> DEFINE k == saved.keyFile
  <2>1. k \in KeyFiles \cup {"data"} /\ Gives(disk, k, saved.passcode) = saved.accounts
    BY DEF SaveInv, SavedGives, Breaks
  <2>2. disk[KeyFile(k)] \notin {Absent, Torn} => IsSeq(disk[KeyFile(k)].indexes)
    BY <2>1, KeyFileNamed, Kinds DEF FolderInv, DiskHolds, FileHolds
  <2> QED
    BY <2>1, <2>2, OpenedAsGiven
<1> QED
  BY <1>1, ProgramInvariant, SaveInvariant, PTL

-----------------------------------------------------------------------------
(* What a process that dies in a save takes with it *)

\* A file that is torn takes at most one place from a folder.
LEMMA TornOne ==
    ASSUME FolderInv, SavingInv, PairsKept, Die, disk' # disk,
           incidents \cap Breaking = {}, saved # NothingSaved,
           saved.keyFile \in KeyFiles \cup {"data"},
           KeyOpens(disk, saved.keyFile, saved.passcode),
           disk[KeyFile(saved.keyFile)].local = desk.local,
           SamePlaces, disk'[KeyFile(saved.keyFile)] # Torn
    PROVE  \E pair : Places(saved.accounts)
                         \ Places(Gives(disk', saved.keyFile, saved.passcode)) \subseteq {pair}
<1> DEFINE k == saved.keyFile
           p == saved.passcode
           w == Head(saving.writes)
           Lost == Places(saved.accounts) \ Places(Gives(disk', k, p))
<1>1. saving.writes # <<>> /\ disk' = [disk EXCEPT ![w[1]] = Torn]
  BY DEF Die
<1>2. ~Idle
  BY <1>1 DEF Idle, NotSaving
<1>3. Places(saved.accounts) \subseteq Places(Gives(disk, k, p))
  BY <1>1, <1>2 DEF PairsKept
<1>4. /\ DeskWhole(desk)
      /\ IsConfig(w) \/ w \in Targets(desk)
  <2>1. saving.writes[1] = w /\ 1 \in DOMAIN saving.writes
    BY <1>1, NextWrite DEF FolderInv
  <2>2. KeyOf(desk) \in Targets(desk)
    BY DEF Targets
  <2> QED
    BY <1>2, <2>1, <2>2 DEF SavingInv
<1>5. DOMAIN disk = Paths(Names) /\ KeyFile(k) \in Paths(Names)
  BY KeyFileNamed DEF FolderInv, DiskHolds
<1> HIDE DEF w
<1>6. KeyFile(k) # w[1] /\ disk'[KeyFile(k)] = disk[KeyFile(k)]
  BY <1>1, <1>5
<1>7. ASSUME NEW a \in saved.accounts,
             w[1] \notin {MapFile(ComposeDataString(k, a.index)), MtpFile(ComposeDataString(k, a.index))}
      PROVE  <<a.index, a.session>> \in Places(Gives(disk', k, p))
  <2> DEFINE name == ComposeDataString(k, a.index)
  <2>1. <<a.index, a.session>> \in Places(Gives(disk, k, p))
    BY <1>3 DEF Places
  <2>2. a.index \in 0 .. kMaxAccounts - 1
    BY <2>1, PlacesGiven DEF Reads
  <2>3. MapFile(name) \in DOMAIN disk /\ MtpFile(name) \in DOMAIN disk
    BY <1>5, <2>2, FilesNamed
  <2>4. disk'[MapFile(name)] = disk[MapFile(name)] /\ disk'[MtpFile(name)] = disk[MtpFile(name)]
    BY <1>1, <1>7, <2>3
  <2> QED
    BY <1>6, <2>1, <2>4, PlaceUntouched
<1>8. CASE \E i \in DOMAIN desk.accounts : w \in {MapOf(desk.accounts[i]), MtpOf(desk.accounts[i])}
  <2>1. PICK i \in DOMAIN desk.accounts : w \in {MapOf(desk.accounts[i]), MtpOf(desk.accounts[i])}
    BY <1>8
  <2> DEFINE b == desk.accounts[i]
  <2>2. b.name = ComposeDataString(desk.keyFile, b.index)
    BY <1>4 DEF DeskWhole, InPlace
  <2>3. w[1] \in {MapFile(b.name), MtpFile(b.name)}
    BY <2>1, Kinds
  <2>4. ASSUME NEW a \in saved.accounts, <<a.index, a.session>> \in Lost
        PROVE  <<a.index, a.session>> = <<b.index, b.session>>
    <3>1. w[1] \in {MapFile(ComposeDataString(k, a.index)), MtpFile(ComposeDataString(k, a.index))}
      BY <1>7, <2>4
    <3>2. ComposeDataString(k, a.index) = b.name
      BY <2>3, <3>1 DEF MapFile, MtpFile
    <3>3. a.index = b.index
      BY <2>2, <3>2 DEF ComposeDataString
    <3> QED
      BY <3>3 DEF SamePlaces
  <2> HIDE DEF b
  <2>5. Lost \subseteq {<<b.index, b.session>>}
    BY <2>4 DEF Places
  <2> QED
    BY <2>5
<1>9. CASE ~ \E i \in DOMAIN desk.accounts : w \in {MapOf(desk.accounts[i]), MtpOf(desk.accounts[i])}
  <2>1. w[1][1] \in {"config", "key"}
    <3>1. IsConfig(w) \/ w = KeyOf(desk)
      BY <1>4, <1>9, Kinds
    <3>3. KeyOf(desk)[1] = KeyFile(desk.keyFile)
      BY DEF KeyOf
    <3>2. KeyOf(desk)[1][1] = "key"
      BY <3>3 DEF KeyFile
    <3> QED
      BY <3>1, <3>2 DEF IsConfig
  <2>2. \A n : w[1] \notin {MapFile(n), MtpFile(n)}
    BY <2>1, Kinds
  <2>3. Lost = {}
    BY <1>7, <2>2 DEF Places
  <2> QED
    BY <2>3
<1> QED
  BY <1>8, <1>9

\* A process that dies in a save which keeps the localKey and the places of the
\* folder takes one account with it at most, wherever in the save it dies.
THEOREM CutAlwaysLosesOne == Spec => CutLosesOne
<1>1. ASSUME ProgramInv, SaveInv, [Next]_vars,
             Cut, incidents \cap Breaking = {}, saved # NothingSaved,
             KeyOpens(disk, saved.keyFile, saved.passcode),
             disk[KeyFile(saved.keyFile)].local = desk.local,
             SamePlaces, disk'[KeyFile(saved.keyFile)] # Torn
      PROVE  Cardinality(Places(saved.accounts)
                 \ Places(Opened(disk', saved.keyFile, saved.passcode))) <= 1
  <2> DEFINE k == saved.keyFile
             Lost == Places(saved.accounts) \ Places(Gives(disk', k, saved.passcode))
  <2>1. /\ FolderInv /\ SavingInv /\ PairsKept /\ k \in KeyFiles \cup {"data"}
    BY <1>1 DEF ProgramInv, SaveInv, Breaks
  <2>2. Die
    <3>1. ASSUME WriteFile PROVE FALSE
      <4> DEFINE Written(ends) ==
                    /\ saving' = [saving EXCEPT !.writes = Tail(@), !.ends = ends]
                    /\ ends \in {saving.ends, "returns short"}
      <4>0. saving.writes # <<>> /\ ~Idle
        BY <3>1 DEF WriteFile, Idle, NotSaving
      <4>1. \E ends : Written(ends)
        <5>1. CASE saving' = [saving EXCEPT !.writes = Tail(@)]
          <6>1. Written(saving.ends)
            BY <2>1, <5>1 DEF FolderInv, SavingHolds
          <6> HIDE DEF Written
          <6> QED
            BY <6>1
        <5>2. CASE saving' = [saving EXCEPT !.writes = Tail(@),
                                 !.ends = IF @ = "raises" THEN @ ELSE "returns short"]
          <6>1. Written(IF saving.ends = "raises" THEN saving.ends ELSE "returns short")
            BY <5>2
          <6> HIDE DEF Written
          <6> QED
            BY <6>1
        <5> HIDE DEF Written
        <5> QED
          BY <3>1, <5>1, <5>2 DEF WriteFile
      <4>2. PICK ends : Written(ends)
        <5> HIDE DEF Written
        <5> QED
          BY <4>1
      <4>3. saving.ends \in {"returns", "returns short", "raises"}
            /\ saving = [writes |-> saving.writes, ends |-> saving.ends]
        BY <2>1, <4>0 DEF SavingInv, FolderInv, SavingHolds
      <4>4. saving'.ends = ends
        BY <4>2, <4>3
      <4>5. saving'.ends = "idle"
        BY <1>1 DEF Cut, NotSaving
      <4>6. ends # "idle"
        BY <4>2, <4>3
      <4> QED
        BY <4>4, <4>5, <4>6
    <3>2. disk' # disk
      BY <1>1 DEF Cut
    <3>3. ~ UNCHANGED vars
      BY <3>2 DEF vars, deskVars
    <3>4. ~DeskCall
      BY <3>2 DEF DeskCall, Open, Create, LoadTData, SaveTData, PerformanceMode
    <3>5. ~ConversionCall
      BY <3>2 DEF ConversionCall, UseClient, FromTelethon, UseMain, FromTDesktop, OpenFile, deskVars
    <3>6. ~ServerCall /\ ~SweepStep /\ ~Returned /\ ~Raised /\ ~ UNCHANGED <<deskVars, clients>>
      BY <3>2 DEF ServerCall, SweepStep, Returned, Raised, deskVars
    <3>7. ~DeskStep /\ ~Convert
      BY <3>1, <3>2 DEF DeskStep, EndSave, Convert
    <3> QED
      BY <1>1, <3>3, <3>4, <3>5, <3>6, <3>7 DEF Next, Exit
  <2>3. PICK pair : Lost \subseteq {pair}
    BY <1>1, <2>1, <2>2, TornOne DEF Cut
  <2>4. Opened(disk', k, saved.passcode) = Gives(disk', k, saved.passcode)
    <3>1. DOMAIN disk = Paths(Names) /\ KeyFile(k) \in Paths(Names) /\ KeyFile(k)[1] = "key"
      BY <2>1, KeyFileNamed, Kinds DEF FolderInv, DiskHolds
    <3>2. disk'[KeyFile(k)] \in {disk[KeyFile(k)], Torn}
      BY <2>2, <3>1 DEF Die
    <3>3. disk'[KeyFile(k)] \notin {Absent, Torn} => IsSeq(disk'[KeyFile(k)].indexes)
      BY <2>1, <3>1, <3>2 DEF FolderInv, DiskHolds, FileHolds
    <3> QED
      BY <2>1, <3>3, OpenedAsGiven
  <2> HIDE DEF Lost
  <2>5. Cardinality(Lost) <= 1
    <3>1. Lost = {} \/ Lost = {pair}
      BY <2>3
    <3>2. Cardinality({}) = 0 /\ Cardinality({pair}) = 1
      BY FS_EmptySet, FS_Singleton
    <3> QED
      BY <3>1, <3>2
  <2> QED
    BY <2>4, <2>5 DEF Lost
<1>2. ProgramInv /\ SaveInv /\ [Next]_vars =>
         [ Cut /\ incidents \cap Breaking = {} /\ saved # NothingSaved
           /\ KeyOpens(disk, saved.keyFile, saved.passcode)
           /\ disk[KeyFile(saved.keyFile)].local = desk.local
           /\ SamePlaces
           /\ disk'[KeyFile(saved.keyFile)] # Torn
           => Cardinality(Places(saved.accounts)
                  \ Places(Opened(disk', saved.keyFile, saved.passcode))) <= 1 ]_deskVars
  BY <1>1
<1> QED
  BY <1>2, ProgramInvariant, SaveInvariant, PTL DEF Spec, CutLosesOne

=============================================================================
