----------------------------- MODULE Migrations -----------------------------
(***************************************************************************)
(* The migrator over the deployments of the system.                        *)
(*                                                                         *)
(* A deployment starts the migrator (alembic upgrade head) and, without    *)
(* waiting for its end, the services of the new version; the API of the    *)
(* old version runs until its container is replaced, the workers are       *)
(* stopped before.  MySQL commits every operation on the schema by itself, *)
(* so a revision that fails or is killed leaves what it has done, while    *)
(* its version is written only after its last operation.                   *)
(*                                                                         *)
(* Rows are kept as far as a change of the schema can fail or spoil them:  *)
(* of each value only where it comes from.  All channel messages are of    *)
(* one channel.                                                            *)
(***************************************************************************)
EXTENDS SchemaChanges

CONSTANTS
    Deployable,    \* the revisions that were the newest of a deployment
    MaxDeploys,    \* bound on deployments
    MaxCommands,   \* bound on commands of an operator
    MaxCrashes,    \* bound on migrators killed
    MaxInserts     \* bound on rows

ASSUME MigrationsAssumption ==
    /\ Deployable \subseteq 1..Newest
    /\ {MaxDeploys, MaxCommands, MaxCrashes, MaxInserts} \subseteq Nat

VARIABLES
    version,    \* alembic_version: revisions applied
    schema,     \* the tables of the database
    rows,       \* [table |-> the rows, in the order they were inserted]
    migrator,   \* the container: its revision, next operation and how it ended
    code,       \* the version of the new services, 0 before the first deployment
    oldApi,     \* the version of the API still running from before, 0: none
    halfUndone, \* a downgrade was refused or killed (only the properties read it)
    deploys, commands, crashes, inserts

database == <<version, schema, rows>>
counters == <<deploys, commands, crashes, inserts>>
vars == <<database, migrator, code, oldApi, halfUndone, counters>>

AllTables == DOMAIN Models
\* written by a service, NULL, zero of the type, server default, copied by an
\* UPDATE, a number where an id belongs, a bucket above 59
Values == {"set", "null", "zero", "default", "copied", "garbled", "high"}
Ends == {"running", "done", "refused", "killed"}

TypeOK ==
    /\ version \in 0..Newest /\ code \in 0..Newest /\ oldApi \in 0..Newest
    /\ \A t \in AllTables : \A i \in DOMAIN rows[t] :
          rows[t][i] \in [Columns(schema, t) -> Values]
    /\ migrator.state \in Ends /\ migrator.rev \in 0..Newest
    /\ migrator.up \in BOOLEAN /\ migrator.target \in 0..Newest

Idle == migrator.state # "running"
Operations == IF migrator.up THEN Upgrades[migrator.rev] ELSE Downgrades[migrator.rev]
Pending == Operations[migrator.next]
-----------------------------------------------------------------------------
(* What MySQL accepts: the schema suits the operation, and so do the rows. *)
Has(t, c, value) == \E i \in DOMAIN rows[t] : rows[t][i][c] = value
Twice(t, cols, value) ==
    \E i, j \in DOMAIN rows[t] :
        i < j /\ \E c \in cols : rows[t][i][c] = value /\ rows[t][j][c] = value

\* a TIMESTAMP has no zero under NO_ZERO_DATE
\* Mutant: in another sql_mode it has one.
ColumnFitsAnyMode(t, is) == TRUE
ColumnFits(t, is) == is[2] = "timestamp" /\ is[3] = "required" => rows[t] = <<>>
PartFits(t, is) ==
    CASE is[1] = "column" -> ColumnFits(t, is)
      [] is[1] = "index" -> is[3] => ~Twice(t, is[2], "zero")
      [] is[1] = "fk" -> ~Has(t, is[2], "zero")
      [] is[1] = "check" -> is[2] = 60 => ~Has(t, "bucket", "high")
RowsFit(op) ==
    CASE op.do = "add" -> \A p \in op.parts : PartFits(op.table, p[2])
      [] op.do = "add unnamed" -> PartFits(op.table, op.is)
      [] op.do = "alter" -> op.is[3] = "required" => ~Has(op.table, op.name, "null")
      [] OTHER -> TRUE
Accepts(op) == Suits(schema, op) /\ RowsFit(op)

\* what a new column holds in the rows that are there
Fill(is) == IF is[3] = "required" THEN "zero" ELSE is[3]
Widened(t, row, parts) ==
    LET new == {p \in parts : p[2][1] = "column"}
    IN  [c \in DOMAIN row \cup {p[1] : p \in new} |->
            IF c \in DOMAIN row THEN row[c]
            ELSE Fill((CHOOSE p \in new : p[1] = c)[2])]
\* a BIGINT read as CHAR(32) is no UUID
Converted(t, row, c, is) ==
    IF {schema[t][c][2], is[2]} = {"bigint", "uuid"}
    THEN [row EXCEPT ![c] = "garbled"] ELSE row
Rewritten(row, op) ==
    CASE op.do = "add" -> Widened(op.table, row, op.parts)
      [] op.do = "drop" -> [c \in DOMAIN row \ {op.name} |-> row[c]]
      [] op.do = "alter" -> Converted(op.table, row, op.name, op.is)
      [] op.do = "copy" -> [row EXCEPT ![op.name] = "copied"]
      [] OTHER -> row
RowsAfter(op) ==
    [rows EXCEPT ![op.table] =
        IF op.do = "drop table" THEN <<>>
        ELSE [i \in DOMAIN @ |-> Rewritten(@[i], op)]]
-----------------------------------------------------------------------------
\* Mutant: the revision the database is at, once more.
MigratorRepeats(up, rev, target) ==
    [state |-> IF rev = target THEN "done" ELSE "running", up |-> up,
     rev |-> IF rev = 0 THEN 1 ELSE rev, next |-> 1, target |-> target]
Migrator(up, rev, target) ==
    [state |-> IF rev = target THEN "done" ELSE "running", up |-> up,
     rev |-> IF up /\ rev # target THEN rev + 1 ELSE rev, next |-> 1, target |-> target]

Init ==
    /\ version = 0 /\ schema = NoSchema
    /\ rows = [t \in AllTables |-> <<>>]
    /\ migrator = [state |-> "done", up |-> TRUE, rev |-> 0, next |-> 1, target |-> 0]
    /\ code = 0 /\ oldApi = 0 /\ halfUndone = FALSE
    /\ deploys = 0 /\ commands = 0 /\ crashes = 0 /\ inserts = 0

\* docker compose up: the migrator with its services, the old API still there
Deploy(v) ==
    /\ Idle /\ deploys < MaxDeploys
    /\ v >= code /\ v >= version
    /\ migrator' = Migrator(TRUE, version, v)
    /\ oldApi' = code /\ code' = v
    /\ deploys' = deploys + 1
    /\ UNCHANGED <<database, halfUndone, commands, crashes, inserts>>

ReplaceApi ==
    /\ oldApi # 0
    /\ oldApi' = 0
    /\ UNCHANGED <<database, migrator, code, halfUndone, counters>>

\* alembic downgrade -1, by hand
Downgrade ==
    /\ Idle /\ commands < MaxCommands /\ version > 0
    /\ migrator' = Migrator(FALSE, version, version - 1)
    /\ commands' = commands + 1
    /\ UNCHANGED <<database, code, oldApi, halfUndone, deploys, crashes, inserts>>

\* one operation of upgrade() or downgrade(), committed by MySQL
Apply ==
    /\ migrator.state = "running" /\ migrator.next <= Len(Operations)
    /\ Accepts(Pending)
    /\ schema' = After(schema, Pending)
    /\ rows' = RowsAfter(Pending)
    /\ migrator' = [migrator EXCEPT !.next = @ + 1]
    /\ UNCHANGED <<version, code, oldApi, halfUndone, counters>>

\* MySQL refuses it: the migrator exits, and the revision stays half applied
Refuse ==
    /\ migrator.state = "running" /\ migrator.next <= Len(Operations)
    /\ ~Accepts(Pending)
    /\ migrator' = [migrator EXCEPT !.state = "refused"]
    /\ halfUndone' = (halfUndone \/ ~migrator.up)
    /\ UNCHANGED <<database, code, oldApi, counters>>

\* mutant: the first revision that ends is stamped with the target
EndAtTarget ==
    /\ migrator.state = "running" /\ migrator.next > Len(Operations)
    /\ version' = migrator.target
    /\ migrator' = Migrator(migrator.up, version', migrator.target)
    /\ UNCHANGED <<schema, rows, code, oldApi, halfUndone, counters>>

\* the version, in the transaction that ends the revision
EndRevision ==
    /\ migrator.state = "running" /\ migrator.next > Len(Operations)
    /\ version' = IF migrator.up THEN migrator.rev ELSE migrator.rev - 1
    /\ migrator' = Migrator(migrator.up, version', migrator.target)
    /\ UNCHANGED <<schema, rows, code, oldApi, halfUndone, counters>>

\* an UPDATE that no later operation has committed is lost with the migrator
Uncopied(row) == [c \in DOMAIN row |-> IF row[c] = "copied" THEN "null" ELSE row[c]]
RowsKilled ==
    IF migrator.next > 1 /\ Operations[migrator.next - 1].do = "copy"
    THEN [t \in AllTables |-> [i \in DOMAIN rows[t] |-> Uncopied(rows[t][i])]]
    ELSE rows
Killed ==
    /\ migrator.state = "running" /\ crashes < MaxCrashes
    /\ migrator' = [migrator EXCEPT !.state = "killed"]
    /\ rows' = RowsKilled
    /\ halfUndone' = (halfUndone \/ ~migrator.up)
    /\ crashes' = crashes + 1
    /\ UNCHANGED <<schema, code, oldApi, deploys, commands, inserts>>
\* Mutant: the version was written before the operations.
KillStamped == Killed /\ version' = migrator.rev
Kill == Killed /\ UNCHANGED version
-----------------------------------------------------------------------------
(* A service of version v inserts a row, with the columns its models have. *)
GivenAt == [v \in 0..Newest |-> [t \in AllTables |->
    {c \in Columns(SchemaAt[v + 1], t) : SchemaAt[v + 1][t][c][3] # "default"}]]
Given(v, t) == GivenAt[v][t]
OneHour(table) == /\ "check_bucket_range" \in DOMAIN table
                  /\ table["check_bucket_range"][2] = 60
Row(v, t, nulls, bucket) ==
    [c \in Columns(schema, t) |->
        IF c \notin Given(v, t) THEN schema[t][c][3]
        ELSE IF c = "bucket" THEN bucket
        ELSE IF nulls /\ SchemaAt[v + 1][t][c][3] = "null" THEN "null" ELSE "set"]

Insert(v, t, nulls, bucket) ==
    /\ Len(rows[t]) < 2 /\ t \in DOMAIN schema /\ t \in DOMAIN SchemaAt[v + 1]
    /\ Given(v, t) \subseteq Columns(schema, t)
    /\ bucket = "high" => ~OneHour(schema[t]) /\ ~OneHour(SchemaAt[v + 1][t])
    /\ LET row == Row(v, t, nulls, bucket) IN
       /\ \A c \in Columns(schema, t) :
             /\ row[c] # "required"
             /\ row[c] = "null" => schema[t][c][3] = "null"
       /\ \A r \in References(schema, t) : row[r[2]] # "null" => rows[r[3][1]] # <<>>
       /\ rows' = [rows EXCEPT ![t] = Append(@, row)]
    /\ UNCHANGED <<version, schema, migrator, code, oldApi, halfUndone, deploys, commands, crashes>>

\* the routes of the API insert tasks and accounts; the rest is the worker's
ApiTables == {"parsing_task", "telegram_client", "telegram_client_proxy"}

Serves(v, tables) ==
    v # 0 /\ \E t \in tables, nulls \in BOOLEAN :
                \/ Insert(v, t, nulls, "set")
                \/ t = "parsing_task" /\ Insert(v, t, nulls, "high")
Serve ==
    /\ inserts < MaxInserts
    /\ Serves(code, AllTables) \/ Serves(oldApi, ApiTables)
    /\ inserts' = inserts + 1

Next ==
    \/ \E v \in Deployable : Deploy(v)
    \/ ReplaceApi \/ Downgrade
    \/ Apply \/ Refuse \/ EndRevision \/ Kill
    \/ Serve

Spec == Init /\ [][Next]_vars
-----------------------------------------------------------------------------
\* an upgrade to the version asked for has ended well
Upgraded == migrator.state = "done" /\ migrator.up /\ ~halfUndone

(* Whatever upgrades were killed, refused or repeated before and whatever  *)
(* downgrades ran to their end, also over half an upgrade: an upgrade that *)
(* ends well leaves exactly the schema of its version.                     *)
DoneIsWhole == Upgraded => schema = SchemaAt[version + 1]

(* At the newest version that is what the models declare: the services     *)
(* find every column, index and reference they were written for.           *)
HeadIsModel == Upgraded /\ version = Newest => schema = Models

(* Without a crash or a failure before it, an upgrade is refused only for  *)
(* rows that are already in the table it changes.                          *)
RefusedForRows ==
    migrator.state = "refused" /\ migrator.up /\ deploys = 1 /\ crashes + commands = 0
        => rows[Pending.table] # <<>>

(* At the newest version, no row holds a value no service has written and  *)
(* no UPDATE or default has given, but in the six columns whose revisions  *)
(* leave the rows of before to MySQL.                                      *)
Invented == {<<"media", "file_name">>, <<"telegram_client", "session_string">>,
             <<"parsing_task", "url">>, <<"channel_message", "id">>,
             <<"channel_message", "channel_message_id">>,
             <<"message_media_link", "message_id">>}
ValuesWritten ==
    Upgraded /\ version = Newest =>
        \A t \in AllTables : \A i \in DOMAIN rows[t] : \A c \in DOMAIN rows[t][i] :
            rows[t][i][c] \in {"zero", "garbled"} => <<t, c>> \in Invented
=============================================================================
