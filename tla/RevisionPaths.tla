--------------------------- MODULE RevisionPaths ---------------------------
(***************************************************************************)
(* What is true of the fifteen revisions themselves, which the proofs      *)
(* about Migrations rest on.  The revisions are constant data: each of the *)
(* assumptions below is a finite computation over them, without a constant *)
(* of an instance in it, and TLC makes it before every run of Migrations.  *)
(***************************************************************************)
EXTENDS Migrations

ASSUME RevisionsAreLists ==
    /\ Newest \in Nat /\ Newest > 8
    /\ \A r \in 1..Newest : /\ Len(Upgrades[r]) \in Nat /\ Len(Downgrades[r]) \in Nat
                            /\ DOMAIN Upgrades[r] = 1..Len(Upgrades[r])
                            /\ DOMAIN Downgrades[r] = 1..Len(Downgrades[r])

\* The schemas before each of the operations that are reached from s when no
\* row refuses one, and behind the last of them.
Path(s, ops) ==
    FoldLeft(LAMBDA p, op :
                IF p.on /\ Suits(Last(p.at), op)
                THEN [at |-> Append(p.at, After(Last(p.at), op)), on |-> TRUE]
                ELSE [at |-> p.at, on |-> FALSE],
             [at |-> <<s>>, on |-> TRUE], ops).at

IsPath(p, s, ops) ==
    /\ DOMAIN p \subseteq 1..(Len(ops) + 1)
    /\ 1 \in DOMAIN p /\ p[1] = s
    /\ \A k \in 1..Len(ops) : k \in DOMAIN p /\ Suits(p[k], ops[k]) =>
          k + 1 \in DOMAIN p /\ p[k + 1] = After(p[k], ops[k])

\* A database between two runs of the migrator: its version, its schema, and
\* the greatest revision of which an operation has been applied to it.
Place(v, s, touched) == [version |-> v, schema |-> s, touched |-> touched]
Touching(x) == IF x.touched > x.version THEN x.touched ELSE x.version + 1
PathUp(x) == Path(x.schema, Upgrades[x.version + 1])
PathDown(x) == Path(x.schema, Downgrades[x.version])

\* Where a killed, refused or finished upgrade by one revision leaves it, and
\* a finished downgrade.
UpFrom(x) ==
    LET p == PathUp(x) IN
    {Place(x.version, p[k], Touching(x)) : k \in DOMAIN p}
    \cup {Place(x.version + 1, p[k], Touching(x)) :
            k \in DOMAIN p \cap {Len(Upgrades[x.version + 1]) + 1}}
DownFrom(x) ==
    LET p == PathDown(x) IN
    {Place(x.version - 1, p[k], x.touched) :
        k \in DOMAIN p \cap {Len(Downgrades[x.version]) + 1}}
NextPlaces(x) == (IF x.version < Newest THEN UpFrom(x) ELSE {})
                 \cup (IF x.version > 0 THEN DownFrom(x) ELSE {})

\* The places that are reached from an empty database; Rounds are enough to
\* find them all, which PlacesClosed says.
Rounds == 60
Places ==
    FoldLeft(LAMBDA found, i :
                LET new == UNION {NextPlaces(x) : x \in found.last} \ found.all
                IN  [all |-> found.all \cup new, last |-> new],
             LET start == {Place(0, NoSchema, 0)} IN [all |-> start, last |-> start],
             [i \in 1..Rounds |-> i]).all

\* Whatever attempts at upgrades are cut off and repeated, and whatever
\* downgrades run to their end, the database is at one of Places.
ASSUME PlacesClosed ==
    /\ Place(0, NoSchema, 0) \in Places
    /\ \A x \in Places : /\ x.version \in 0..Newest /\ x.touched \in 0..Newest
                         /\ NextPlaces(x) \subseteq Places
    /\ \A x \in Places : x.version < Newest =>
          IsPath(PathUp(x), x.schema, Upgrades[x.version + 1])
    /\ \A x \in Places : x.version > 0 =>
          IsPath(PathDown(x), x.schema, Downgrades[x.version])

\* A database that no revision above its version has touched is whole.
ASSUME PlacesWhole ==
    \A x \in Places : x.version >= x.touched => x.schema = SchemaAt[x.version + 1]

\* From an empty database, every operation of every revision suits the schema
\* before it, in the order of the chain.
ASSUME ChainRuns ==
    /\ SchemaAt[1] = NoSchema
    /\ \A r \in 1..Newest :
          LET p == Path(SchemaAt[r], Upgrades[r]) IN
          /\ IsPath(p, SchemaAt[r], Upgrades[r])
          /\ \A k \in 1..Len(Upgrades[r]) : k \in DOMAIN p /\ Suits(p[k], Upgrades[r][k])
          /\ p[Len(Upgrades[r]) + 1] = SchemaAt[r + 1]

\* The chain ends with what the models declare.
ASSUME ChainEndsAtModels == SchemaAt[Newest + 1] = Models
-----------------------------------------------------------------------------
(* What the operations do to the rows.                                     *)
AllOperations == UNION {ToSet(Upgrades[r]) \cup ToSet(Downgrades[r]) : r \in 1..Newest}
Needs == {"required", "null", "default"}
Named(op) == IF op.do \in {"create", "add"} THEN {p[1] : p \in op.parts}
             ELSE IF op.do = "alter" THEN {op.name} ELSE {}
FreeNames == {"ibfk_1", "ibfk_2", "ibfk_3"}
Names == FreeNames \cup UNION {Named(op) : op \in AllOperations}

Altered == {op.name : op \in {o \in AllOperations : o.do = "alter"}}

\* A new part is named once, a column says what it needs, and what is altered
\* anywhere is a column.
Kinds == {"column", "index", "fk", "check"}
PartsTyped(parts) ==
    \A p \in parts : /\ p[1] \in Names /\ p[2][1] \in Kinds
                     /\ p[2][1] = "column" => p[2][3] \in Needs
                     /\ p[1] \in Altered => p[2][1] = "column"
                     /\ \A q \in parts : q[1] = p[1] => q = p
ASSUME OperationsTyped ==
    \A op \in AllOperations :
        /\ op.table \in AllTables
        /\ op.do \in {"create", "add", "add unnamed", "drop", "drop table", "alter", "copy"}
        /\ op.do \in {"create", "add"} => PartsTyped(op.parts)
        /\ op.do = "add unnamed" => op.is[1] = "fk"
        /\ op.do = "alter" => /\ op.name \in Names \ FreeNames
                              /\ op.is[1] = "column" /\ op.is[3] \in Needs

\* Only these columns are added over rows without a value for them, or turn
\* from a number into an id or back: those of Invented, some that no model has
\* any more, the reference of a message's statistic, and the reason of a usage.
Gone == {<<"telegram_client", "lang_pack">>, <<"channel", "link">>,
         <<"parsing_task", "link">>, <<"channel_message_statistic", "message_id">>}
Reference == <<"channel_message_statistic", "channel_message_id">>
Reason == <<"worker_account_usage", "reason">>
Adds(op, column) ==
    op.do = "add" /\ \E p \in op.parts : p[2][1] = "column" /\ <<op.table, p[1]>> = column
ASSUME ColumnsInvented ==
    /\ \A op \in AllOperations :
          /\ op.do = "add" =>
                \A p \in op.parts :
                    p[2][1] = "column" /\ p[2][2] # "timestamp" /\ p[2][3] = "required" =>
                        <<op.table, p[1]>> \in Invented \cup Gone \cup {Reference, Reason}
          /\ op.do = "alter" /\ op.is[2] \in {"bigint", "uuid"} =>
                <<op.table, op.name>> \in Invented
    /\ Invented \cap {Reference, Reason} = {}
    /\ \A g \in Gone : g[2] \notin Columns(Models, g[1])

\* The reference is added by one revision, which makes it a foreign key before
\* it ends.
ASSUME ReferenceIsKey ==
    /\ \A r \in 1..Newest :
          /\ \A k \in 1..Len(Upgrades[r]) : Adds(Upgrades[r][k], Reference) => r = 9 /\ k < 9
          /\ \A k \in 1..Len(Downgrades[r]) : ~Adds(Downgrades[r][k], Reference)
    /\ Len(Upgrades[9]) >= 9
    /\ LET op == Upgrades[9][9] IN
       /\ op.do = "add unnamed" /\ op.table = Reference[1] /\ op.is[2] = Reference[2]

\* The reason is added right after the end of a lock, which no row fits; until
\* it is there no service can insert one.
ASSUME ReasonFollowsLock ==
    /\ \A r \in 1..Newest :
          /\ \A k \in 1..Len(Upgrades[r]) : Adds(Upgrades[r][k], Reason) => r = 12 /\ k = 2
          /\ \A k \in 1..Len(Downgrades[r]) : ~Adds(Downgrades[r][k], Reason)
    /\ Reason[1] \in AllTables
    /\ Upgrades[12][1] = Add(Reason[1], Is("timestamp", {"locked_until"}))
    /\ \A v \in 1..Newest : Reason[1] \in DOMAIN SchemaAt[v + 1] =>
          Reason[2] \in Given(v, Reason[1]) \/ "locked_until" \notin Given(v, Reason[1])
=============================================================================
