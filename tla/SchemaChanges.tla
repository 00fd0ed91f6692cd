---------------------------- MODULE SchemaChanges ----------------------------
(***************************************************************************)
(* The Alembic revisions of bases/parser/migrator, as data: what each      *)
(* upgrade() and downgrade() asks of MySQL, one operation after another,   *)
(* and the schema the models of components/parser/persistence declare.     *)
(*                                                                         *)
(* A schema maps tables to what they have by name: a column, an            *)
(* index (unique or not), a foreign key or a check.  Primary keys, lengths *)
(* of strings and the indexes MySQL makes for itself are left out.         *)
(***************************************************************************)
EXTENDS Naturals, Sequences, FiniteSets, SequencesExt

-----------------------------------------------------------------------------
(* Parts of a table: sets of pairs of a name and what it names.            *)
Column(type, need, names) == names \X {<<"column", type, need>>}
Is(type, names) == Column(type, "required", names)
May(type, names) == Column(type, "null", names)
Stamp(type, names) == Column(type, "default", names)
Key(name, columns, unique) == {<<name, <<"index", columns, unique>>>>}
Refers(name, column, parent, delete) == {<<name, <<"fk", column, parent, delete>>>>}
BucketBelow(n) == {<<"check_bucket_range", <<"check", n>>>>}

(* Operations of Alembic.  A reference without a name gets one by MySQL.   *)
Create(t, parts) == [do |-> "create", table |-> t, parts |-> parts]
DropTable(t) == [do |-> "drop table", table |-> t]
Add(t, parts) == [do |-> "add", table |-> t, parts |-> parts]
AddReference(t, column, parent, delete) ==
    [do |-> "add unnamed", table |-> t, is |-> <<"fk", column, parent, delete>>]
Drop(t, name) == [do |-> "drop", table |-> t, name |-> name]
Alter(t, name, type, need) ==
    [do |-> "alter", table |-> t, name |-> name, is |-> <<"column", type, need>>]
Copy(t, from, to) == [do |-> "copy", table |-> t, from |-> from, name |-> to]
DropUnnamed(t) == [do |-> "drop", table |-> t, name |-> "None"]
-----------------------------------------------------------------------------
(* The schema after an operation.                                          *)
Columns(s, t) == IF t \in DOMAIN s
                 THEN {n \in DOMAIN s[t] : s[t][n][1] = "column"} ELSE {}
References(s, t) == {s[t][n] : n \in {n \in DOMAIN s[t] : s[t][n][1] = "fk"}}

\* table_ibfk_N, one above the greatest number in use
FreeName(table) == IF "ibfk_2" \in DOMAIN table THEN "ibfk_3"
                   ELSE IF "ibfk_1" \in DOMAIN table THEN "ibfk_2" ELSE "ibfk_1"

With(table, parts) ==
    [n \in DOMAIN table \cup {p[1] : p \in parts} |->
        IF n \in DOMAIN table THEN table[n] ELSE (CHOOSE p \in parts : p[1] = n)[2]]
Without(f, n) == [m \in DOMAIN f \ {n} |-> f[m]]
NoTable == [n \in {} |-> <<>>]

After(s, op) ==
    CASE op.do = "create" ->
            [t \in DOMAIN s \cup {op.table} |->
                IF t = op.table THEN With(NoTable, op.parts) ELSE s[t]]
      [] op.do = "drop table" -> Without(s, op.table)
      [] op.do = "add" -> [s EXCEPT ![op.table] = With(@, op.parts)]
      [] op.do = "add unnamed" ->
            [s EXCEPT ![op.table] = With(@, {<<FreeName(@), op.is>>})]
      [] op.do = "drop" -> [s EXCEPT ![op.table] = Without(@, op.name)]
      [] op.do = "alter" -> [s EXCEPT ![op.table][op.name] = op.is]
      [] op.do = "copy" -> s
-----------------------------------------------------------------------------
(* What MySQL asks of the schema before an operation.                      *)
ReferredTo(s, t, c) ==
    \E u \in DOMAIN s : \E r \in References(s, u) : r[3] = <<t, c>>
RefersBy(s, t, c) == \E r \in References(s, t) : r[2] = c

\* the columns of a reference have one type
TypesFit(s, t, is) ==
    is[1] = "fk" => s[t][is[2]][2] = s[is[3][1]][is[3][2]][2]
\* neither an index a reference needs nor a column of a reference is dropped
Droppable(s, t, name) ==
    LET is == s[t][name] IN
    CASE is[1] = "index" -> \A c \in is[2] : is[2] = {c} => ~RefersBy(s, t, c)
      [] is[1] = "column" -> ~RefersBy(s, t, name) /\ ~ReferredTo(s, t, name)
      [] OTHER -> TRUE
Retypable(s, t, c, is) ==
    s[t][c][2] # is[2] => ~RefersBy(s, t, c) /\ ~ReferredTo(s, t, c)

Exists(s, t, name) == t \in DOMAIN s /\ name \in DOMAIN s[t]
Suits(s, op) ==
    \/ op.do = "create" /\ op.table \notin DOMAIN s
    \/ /\ op.do = "add" /\ op.table \in DOMAIN s
       /\ \A p \in op.parts :
             p[1] \notin DOMAIN s[op.table] /\ TypesFit(s, op.table, p[2])
    \/ /\ op.do = "add unnamed" /\ op.table \in DOMAIN s
       /\ TypesFit(s, op.table, op.is)
    \/ /\ op.do = "drop" /\ Exists(s, op.table, op.name)
       /\ Droppable(s, op.table, op.name)
    \/ /\ op.do = "drop table" /\ op.table \in DOMAIN s
       /\ \A u \in DOMAIN s \ {op.table} : \A r \in References(s, u) :
             r[3][1] # op.table
    \/ /\ op.do = "alter" /\ Exists(s, op.table, op.name)
       /\ Retypable(s, op.table, op.name, op.is)
    \/ op.do = "copy" /\ Exists(s, op.table, op.name)
-----------------------------------------------------------------------------
(* e2f49e5f56a9, Initialize models.                                        *)
InitializeModels == <<
    Create("media", Is("uuid", {"id"}) \cup Is("string", {"mime_type"})
        \cup Is("int", {"size_bytes"}) \cup Stamp("datetime", {"recorded_at"})),
    Create("channel", Is("bigint", {"id"}) \cup Is("string", {"link", "name"})
        \cup May("text", {"description"}) \cup May("uuid", {"logo_id"})
        \cup Stamp("datetime", {"recorded_at", "updated_at"})
        \cup Refers("ibfk_1", "logo_id", <<"media", "id">>, "set null")),
    Add("channel", Key("ix_channel_link", {"link"}, TRUE)),
    Create("channel_message", Is("bigint", {"id", "channel_id"})
        \cup Is("datetime", {"created_at"}) \cup Is("text", {"text"})
        \cup Stamp("datetime", {"recorded_at", "updated_at"})
        \cup Refers("ibfk_1", "channel_id", <<"channel", "id">>, "cascade")),
    Add("channel_message",
        Key("ix_channel_message_channel_id", {"channel_id"}, FALSE)),
    Create("channel_statistic", Is("uuid", {"id"}) \cup Is("bigint", {"channel_id"})
        \cup Is("int", {"subscribers_count", "views", "posts_count"})
        \cup Stamp("datetime", {"recorded_at"})
        \cup Refers("ibfk_1", "channel_id", <<"channel", "id">>, "cascade")),
    Add("channel_statistic",
        Key("ix_channel_statistic_channel_id", {"channel_id"}, FALSE)),
    Create("message_media_link",
        Is("uuid", {"media_id"}) \cup Is("bigint", {"message_id"})
        \cup Refers("ibfk_1", "media_id", <<"media", "id">>, "cascade")
        \cup Refers("ibfk_2", "message_id", <<"channel_message", "id">>, "cascade")) >>

UndoInitializeModels == <<
    DropTable("message_media_link"),
    Drop("channel_statistic", "ix_channel_statistic_channel_id"),
    DropTable("channel_statistic"),
    Drop("channel_message", "ix_channel_message_channel_id"),
    DropTable("channel_message"),
    Drop("channel", "ix_channel_link"), DropTable("channel"), DropTable("media") >>

(* fd36ffa275e8, Add channel message statistic.                            *)
AddMessageStatistic == <<
    Create("channel_message_statistic", Is("uuid", {"id"})
        \cup Is("bigint", {"message_id"}) \cup Is("int", {"views"})
        \cup Stamp("datetime", {"recorded_at"})
        \cup Refers("ibfk_1", "message_id", <<"channel_message", "id">>, "cascade")),
    Add("channel_message_statistic",
        Key("ix_channel_message_statistic_message_id", {"message_id"}, FALSE)) >>

UndoMessageStatistic == <<
    Drop("channel_message_statistic", "ix_channel_message_statistic_message_id"),
    DropTable("channel_message_statistic") >>

(* 5a81eceb1bdf, Add file name to media model.                             *)
AddFileName == << Add("media", Is("string", {"file_name"})) >>
UndoFileName == << Drop("media", "file_name") >>

(* dbf203c6f610, Add telegram client models.                               *)
AddTelegramClients == <<
    Create("telegram_client", Is("bigint", {"telegram_id", "api_id"})
        \cup Is("bool", {"banned"})
        \cup Is("string", {"phone", "api_hash", "device_model", "system_version",
                           "app_version", "lang_code", "system_lang_code", "lang_pack"})
        \cup Stamp("datetime", {"recorded_at", "updated_at"})),
    Create("telegram_client_proxy", Is("uuid", {"id"})
        \cup Is("bigint", {"telegram_client_id"}) \cup Is("int", {"port"})
        \cup Is("string", {"proxy_type", "host"})
        \cup May("string", {"username", "password"})
        \cup Stamp("datetime", {"recorded_at", "updated_at"})
        \cup Refers("ibfk_1", "telegram_client_id",
                    <<"telegram_client", "telegram_id">>, "cascade")) >>

UndoTelegramClients ==
    << DropTable("telegram_client_proxy"), DropTable("telegram_client") >>

(* 63fcf8111eed, Remove useless field from telegram client table.          *)
RemoveLangPack == << Drop("telegram_client", "lang_pack") >>
UndoLangPack == << Add("telegram_client", Is("string", {"lang_pack"})) >>

(* 949251ff383c, Add parsing task model.                                   *)
AddParsingTask == <<
    Create("parsing_task", Is("uuid", {"id"}) \cup Is("string", {"link", "status"})
        \cup May("bigint", {"channel_id"}) \cup Is("int", {"bucket"})
        \cup May("datetime", {"last_parsed_at"})
        \cup Stamp("datetime", {"created_at"}) \cup BucketBelow(1440)
        \cup Refers("ibfk_1", "channel_id", <<"channel", "id">>, "cascade")),
    Add("parsing_task", Key("ix_parsing_task_channel_id", {"channel_id"}, FALSE)),
    Add("parsing_task", Key("ix_parsing_task_link", {"link"}, TRUE)),
    Drop("channel", "ix_channel_link"),
    Drop("channel", "link") >>

UndoParsingTask == <<
    Add("channel", Is("string", {"link"})),
    Add("channel", Key("ix_channel_link", {"link"}, TRUE)),
    Drop("parsing_task", "ix_parsing_task_link"),
    Drop("parsing_task", "ix_parsing_task_channel_id"),
    DropTable("parsing_task") >>

(* 57bb93ae0b22, Update timezones: the times of nine columns before        *)
(* parsing_task.url and of four after it, back in the opposite order.      *)
EarlyTimes == <<
    <<"channel", "recorded_at", "default">>, <<"channel", "updated_at", "default">>,
    <<"channel_message", "created_at", "required">>,
    <<"channel_message", "recorded_at", "default">>,
    <<"channel_message", "updated_at", "default">>,
    <<"channel_message_statistic", "recorded_at", "default">>,
    <<"channel_statistic", "recorded_at", "default">>,
    <<"media", "recorded_at", "default">> >>
TaskTimes == << <<"parsing_task", "last_parsed_at", "null">>,
                <<"parsing_task", "created_at", "default">> >>
ClientTimes == <<
    <<"telegram_client", "recorded_at", "default">>,
    <<"telegram_client", "updated_at", "default">>,
    <<"telegram_client_proxy", "recorded_at", "default">>,
    <<"telegram_client_proxy", "updated_at", "default">> >>
Retype(times, type) ==
    [i \in DOMAIN times |-> Alter(times[i][1], times[i][2], type, times[i][3])]

UpdateTimezones ==
    Retype(EarlyTimes, "timestamp")
    \o << Add("parsing_task", Is("string", {"url"})) >>
    \o Retype(TaskTimes, "timestamp")
    \o << Drop("parsing_task", "ix_parsing_task_link"),
          Add("parsing_task", Key("ix_parsing_task_url", {"url"}, TRUE)),
          Drop("parsing_task", "link") >>
    \o Retype(ClientTimes, "timestamp")

UndoTimezones ==
    Retype(Reverse(ClientTimes), "datetime")
    \o << Add("parsing_task", Is("string", {"link"})),
          Drop("parsing_task", "ix_parsing_task_url"),
          Add("parsing_task", Key("ix_parsing_task_link", {"link"}, TRUE)) >>
    \o Retype(Reverse(TaskTimes), "datetime")
    \o << Drop("parsing_task", "url") >>
    \o Retype(Reverse(EarlyTimes), "datetime")

(* 14187dfc65ec, Every one hour parsing.                                   *)
EveryOneHour == << Drop("parsing_task", "check_bucket_range"),
                   Add("parsing_task", BucketBelow(60)) >>
UndoOneHour == << Drop("parsing_task", "check_bucket_range"),
                  Add("parsing_task", BucketBelow(1440)) >>

(* c5603e70cc81, Fix message id unique.                                    *)
FixMessageId == <<
    Drop("message_media_link", "ibfk_2"),
    Drop("channel_message_statistic", "ibfk_1"),
    Add("channel_message", Is("bigint", {"channel_message_id"})),
    Alter("channel_message", "id", "uuid", "required"),
    Alter("message_media_link", "message_id", "uuid", "required"),
    Add("channel_message_statistic", Is("uuid", {"channel_message_id"})),
    Drop("channel_message_statistic", "ix_channel_message_statistic_message_id"),
    Add("channel_message_statistic",
        Key("ix_channel_message_statistic_channel_message_id",
            {"channel_message_id"}, FALSE)),
    AddReference("channel_message_statistic", "channel_message_id",
                 <<"channel_message", "id">>, "cascade"),
    Drop("channel_message_statistic", "message_id"),
    Add("channel_message",
        Key("ix_channel_message_channel_message_id", {"channel_message_id"}, FALSE)),
    Add("channel_message", Key("uq_channel_message_channel",
                               {"channel_message_id", "channel_id"}, TRUE)),
    Add("message_media_link",
        Refers("ibfk_2", "message_id", <<"channel_message", "id">>, "none")) >>

UndoMessageId == <<
    Drop("message_media_link", "ibfk_2"),
    Drop("channel_message_statistic", "ibfk_2"),
    Drop("channel_message", "uq_channel_message_channel"),
    Drop("channel_message", "ix_channel_message_channel_message_id"),
    Add("channel_message_statistic", Is("bigint", {"message_id"})),
    Drop("channel_message_statistic", "ix_channel_message_statistic_channel_message_id"),
    Add("channel_message_statistic",
        Key("ix_channel_message_statistic_message_id", {"message_id"}, FALSE)),
    Drop("channel_message_statistic", "channel_message_id"),
    Alter("message_media_link", "message_id", "bigint", "required"),
    Alter("channel_message", "id", "bigint", "required"),
    Drop("channel_message", "channel_message_id"),
    Add("message_media_link",
        Refers("ibfk_2", "message_id", <<"channel_message", "id">>, "none")),
    Add("channel_message_statistic",
        Refers("ibfk_1", "message_id", <<"channel_message", "id">>, "cascade")) >>

(* 5cd29f17000c, add worker account usage and session string.              *)
AddAccountUsage == <<
    Create("worker_account_usage", Is("uuid", {"id"}) \cup Is("bigint", {"telegram_id"})
        \cup Is("string", {"worker_id"}) \cup Stamp("timestamp", {"taken_at"})
        \cup Refers("ibfk_1", "telegram_id",
                    <<"telegram_client", "telegram_id">>, "cascade")),
    Drop("message_media_link", "ibfk_2"),
    AddReference("message_media_link", "message_id",
                 <<"channel_message", "id">>, "cascade"),
    Add("telegram_client", Is("text", {"session_string"})) >>

UndoAccountUsage == <<
    Drop("telegram_client", "session_string"),
    DropUnnamed("message_media_link"),
    Add("message_media_link",
        Refers("ibfk_2", "message_id", <<"channel_message", "id">>, "none")),
    DropTable("worker_account_usage") >>

(* d9964358c36d, nullable session string.                                  *)
NullableSession == << Alter("telegram_client", "session_string", "text", "null") >>
UndoNullable == << Alter("telegram_client", "session_string", "text", "required") >>

(* d47bd9ff611b, Add locked_until and reason usage columns.                *)
AddLockedUntil == <<
    Add("worker_account_usage", Is("timestamp", {"locked_until"})),
    Add("worker_account_usage", Is("string", {"reason"})),
    Add("worker_account_usage", Stamp("timestamp", {"created_at"})),
    Drop("worker_account_usage", "taken_at") >>

UndoLockedUntil == <<
    Add("worker_account_usage", Stamp("timestamp", {"taken_at"})),
    Drop("worker_account_usage", "created_at"),
    Drop("worker_account_usage", "reason"),
    Drop("worker_account_usage", "locked_until") >>

(* 3bc288e7abd5, add task claim history.                                   *)
AddClaimHistory == <<
    Create("task_claim_history", Is("uuid", {"id", "task_id"})
        \cup Is("string", {"worker_id"}) \cup Stamp("timestamp", {"claimed_at"})
        \cup Refers("ibfk_1", "task_id", <<"parsing_task", "id">>, "cascade")),
    Add("task_claim_history", Key("ix_task_claim_history_task_id", {"task_id"}, FALSE)) >>

UndoClaimHistory == << Drop("task_claim_history", "ix_task_claim_history_task_id"),
                       DropTable("task_claim_history") >>

(* d2c2fc33083a, add more stats.                                           *)
StatColumns == <<
    "views_24h", "views_48h", "views_72h", "views_96h", "views_120h", "views_144h",
    "views_168h", "posts_count_24h", "posts_count_48h", "posts_count_72h",
    "posts_count_96h", "posts_count_120h", "posts_count_144h", "posts_count_168h" >>
AddMoreStats ==
    [i \in DOMAIN StatColumns |->
        Add("channel_statistic", Column("int", "default", {StatColumns[i]}))]
    \o [i \in DOMAIN StatColumns |->
        Alter("channel_statistic", StatColumns[i], "int", "required")]
UndoMoreStats ==
    [i \in DOMAIN StatColumns |-> Drop("channel_statistic", Reverse(StatColumns)[i])]

(* d647896c9341, Add html text to message.                                 *)
AddHtmlText == << Add("channel_message", May("text", {"html_text"})),
                  Copy("channel_message", "text", "html_text"),
                  Alter("channel_message", "html_text", "text", "required") >>
UndoHtmlText == << Drop("channel_message", "html_text") >>

(* The chain of down_revision, oldest first.                               *)
Upgrades == <<
    InitializeModels, AddMessageStatistic, AddFileName, AddTelegramClients,
    RemoveLangPack, AddParsingTask, UpdateTimezones, EveryOneHour, FixMessageId,
    AddAccountUsage, NullableSession, AddLockedUntil, AddClaimHistory, AddMoreStats,
    AddHtmlText >>
Downgrades == <<
    UndoInitializeModels, UndoMessageStatistic, UndoFileName, UndoTelegramClients,
    UndoLangPack, UndoParsingTask, UndoTimezones, UndoOneHour, UndoMessageId,
    UndoAccountUsage, UndoNullable, UndoLockedUntil, UndoClaimHistory, UndoMoreStats,
    UndoHtmlText >>
Newest == Len(Upgrades)

\* SchemaAt[r + 1]: what revision r leaves of an empty database, r from 0
NoSchema == [t \in {} |-> NoTable]
SchemaAt ==
    FoldLeft(LAMBDA at, r : Append(at, FoldLeft(After, at[Len(at)], Upgrades[r])),
             <<NoSchema>>, [r \in 1..Newest |-> r])
-----------------------------------------------------------------------------
(* The schema the models declare.                                          *)
Media == Is("uuid", {"id"}) \cup Is("string", {"mime_type", "file_name"})
    \cup Is("int", {"size_bytes"}) \cup Stamp("timestamp", {"recorded_at"})
Channel == Is("bigint", {"id"}) \cup Is("string", {"name"}) \cup May("text", {"description"})
    \cup May("uuid", {"logo_id"}) \cup Stamp("timestamp", {"recorded_at", "updated_at"})
    \cup Refers("ibfk_1", "logo_id", <<"media", "id">>, "set null")
ChannelMessage == Is("uuid", {"id"}) \cup Is("bigint", {"channel_message_id", "channel_id"})
    \cup Is("timestamp", {"created_at"}) \cup Is("text", {"text", "html_text"})
    \cup Stamp("timestamp", {"recorded_at", "updated_at"})
    \cup Key("uq_channel_message_channel", {"channel_message_id", "channel_id"}, TRUE)
    \cup Key("ix_channel_message_channel_message_id", {"channel_message_id"}, FALSE)
    \cup Key("ix_channel_message_channel_id", {"channel_id"}, FALSE)
    \cup Refers("ibfk_1", "channel_id", <<"channel", "id">>, "cascade")
MessageMediaLink == Is("uuid", {"media_id", "message_id"})
    \cup Refers("ibfk_1", "media_id", <<"media", "id">>, "cascade")
    \cup Refers("ibfk_2", "message_id", <<"channel_message", "id">>, "cascade")
ChannelStatistic == Is("uuid", {"id"}) \cup Is("bigint", {"channel_id"})
    \cup Is("int", {"subscribers_count", "views", "posts_count"} \cup ToSet(StatColumns))
    \cup Stamp("timestamp", {"recorded_at"})
    \cup Key("ix_channel_statistic_channel_id", {"channel_id"}, FALSE)
    \cup Refers("ibfk_1", "channel_id", <<"channel", "id">>, "cascade")
ChannelMessageStatistic == Is("uuid", {"id", "channel_message_id"}) \cup Is("int", {"views"})
    \cup Stamp("timestamp", {"recorded_at"})
    \cup Key("ix_channel_message_statistic_channel_message_id", {"channel_message_id"}, FALSE)
    \cup Refers("ibfk_1", "channel_message_id", <<"channel_message", "id">>, "cascade")
TelegramClient == Is("bigint", {"telegram_id", "api_id"}) \cup Is("bool", {"banned"})
    \cup Is("string", {"phone", "api_hash", "device_model", "system_version",
                       "app_version", "lang_code", "system_lang_code"})
    \cup May("text", {"session_string"})
    \cup Stamp("timestamp", {"recorded_at", "updated_at"})
TelegramClientProxy == Is("uuid", {"id"}) \cup Is("bigint", {"telegram_client_id"})
    \cup Is("string", {"proxy_type", "host"}) \cup Is("int", {"port"})
    \cup May("string", {"username", "password"})
    \cup Stamp("timestamp", {"recorded_at", "updated_at"})
    \cup Refers("ibfk_1", "telegram_client_id",
                <<"telegram_client", "telegram_id">>, "cascade")
ParsingTask == Is("uuid", {"id"}) \cup Is("string", {"url", "status"})
    \cup May("bigint", {"channel_id"}) \cup Is("int", {"bucket"})
    \cup May("timestamp", {"last_parsed_at"}) \cup Stamp("timestamp", {"created_at"})
    \cup BucketBelow(60) \cup Key("ix_parsing_task_url", {"url"}, TRUE)
    \cup Key("ix_parsing_task_channel_id", {"channel_id"}, FALSE)
    \cup Refers("ibfk_1", "channel_id", <<"channel", "id">>, "cascade")
WorkerAccountUsage == Is("uuid", {"id"}) \cup Is("bigint", {"telegram_id"})
    \cup Is("string", {"worker_id", "reason"}) \cup Is("timestamp", {"locked_until"})
    \cup Stamp("timestamp", {"created_at"})
    \cup Refers("ibfk_1", "telegram_id", <<"telegram_client", "telegram_id">>, "cascade")
TaskClaimHistory == Is("uuid", {"id", "task_id"}) \cup Is("string", {"worker_id"})
    \cup Stamp("timestamp", {"claimed_at"})
    \cup Key("ix_task_claim_history_task_id", {"task_id"}, FALSE)
    \cup Refers("ibfk_1", "task_id", <<"parsing_task", "id">>, "cascade")

\* BaseModel.metadata, once register_model has imported every model
Models ==
    [media |-> With(NoTable, Media), channel |-> With(NoTable, Channel),
     channel_message |-> With(NoTable, ChannelMessage),
     message_media_link |-> With(NoTable, MessageMediaLink),
     channel_statistic |-> With(NoTable, ChannelStatistic),
     channel_message_statistic |-> With(NoTable, ChannelMessageStatistic),
     telegram_client |-> With(NoTable, TelegramClient),
     telegram_client_proxy |-> With(NoTable, TelegramClientProxy),
     parsing_task |-> With(NoTable, ParsingTask),
     worker_account_usage |-> With(NoTable, WorkerAccountUsage),
     task_claim_history |-> With(NoTable, TaskClaimHistory)]
=============================================================================
