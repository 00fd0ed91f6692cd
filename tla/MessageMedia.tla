---------------------------- MODULE MessageMedia ----------------------------
(***************************************************************************)
(* The last transaction of a run, which stores the messages of a channel   *)
(* and uploads their media to S3 while it is open, the retries of the      *)
(* storage, and the requests of the API for a URL of a medium.             *)
(*                                                                         *)
(* The workers are those that work on one channel at the same time:        *)
(* nothing stops two tasks from naming one channel, nor a run from lasting *)
(* longer than its hour (see ParsingTasks).                                *)
(***************************************************************************)
EXTENDS Integers, FiniteSets

CONSTANTS
    Workers,
    Requests,    \* requests of the API for a medium
    Newest,      \* messages are 1 .. Newest, by id
    MediaLimit,  \* bound on the media of one message
    Files,       \* names of objects; a UUID is a name nobody uses
    MaxRetries,
    MaxRuns,     \* bound on the runs
    MaxLost,     \* bound on the objects deleted by hand
    NoFile

ASSUME SizesAssumption ==
    {Newest, MaxRetries} \subseteq Nat \ {0} /\ {MediaLimit, MaxRuns, MaxLost} \subseteq Nat
ASSUME NoFileAssumption == NoFile \notin Files

Messages == 1 .. Newest
Medium == [message : Messages, file : Files]

\* The locals of _process_messages and of save_media; inserted, updated and
\* named are the rows that the open transaction has written, counted the
\* stored messages for which it has inserted a row of statistics.
Run == [pc : {"idle", "message", "insert", "media", "upload"},
        todo : SUBSET Messages, at : 0 .. Newest, left : 0 .. MediaLimit,
        file : Files \cup {NoFile}, attempt : 1 .. MaxRetries,
        inserted : SUBSET Messages, updated : SUBSET Messages,
        counted : SUBSET Messages, named : SUBSET Medium]

\* missed: an attempt of the request saw no object of that name
Request == [pc : {"out", "head", "url", "config_error", "max_retries", "not_found"},
            file : Files \cup {NoFile}, attempt : 1 .. MaxRetries, missed : BOOLEAN]

VARIABLES
    messages, \* committed rows of channel_message
    media,    \* committed rows of media, with the message they are linked to
    objects,  \* the bucket
    run, request,
    runs,     \* runs started
    failed,   \* runs that ended without their commit
    lost      \* objects deleted by hand

vars == <<messages, media, objects, run, request, runs, failed, lost>>
tables == <<messages, media>>

NoRun == [pc |-> "idle", todo |-> {}, at |-> 0, left |-> 0, file |-> NoFile,
          attempt |-> 1, inserted |-> {}, updated |-> {}, counted |-> {}, named |-> {}]
NoRequest == [pc |-> "out", file |-> NoFile, attempt |-> 1, missed |-> FALSE]

Init ==
    /\ messages = {} /\ media = {} /\ objects = {}
    /\ run = [w \in Workers |-> NoRun]
    /\ request = [r \in Requests |-> NoRequest]
    /\ runs = 0 /\ failed = 0 /\ lost = 0

-----------------------------------------------------------------------------
(* _collect_messages and _process_messages *)

\* iter_messages goes from the newest to the oldest.
NextOf(S) == {m \in S : \A n \in S : n <= m}

Collect(w) ==
    /\ run[w].pc = "idle" /\ runs < MaxRuns
    /\ runs' = runs + 1
    /\ \E S \in SUBSET Messages :
          run' = [run EXCEPT ![w] = [NoRun EXCEPT !.pc = "message", !.todo = S]]
    /\ UNCHANGED <<tables, objects, request, failed, lost>>

\* The row locks a stored message needs, which are kept to the end of the
\* transaction: its update, issued if the text changed, an exclusive one, and
\* the foreign key of its statistics a shared one. Others wait for them.
RowFree(w, m, changes) ==
    \A v \in Workers \ {w} : m \notin run[v].updated /\ (changes => m \notin run[v].counted)

\* A stored message gets its new text and a row of statistics, and no media.
UpdateMessage(w, m) ==
    \E changes \in BOOLEAN :
       /\ RowFree(w, m, changes)
       /\ run' = [run EXCEPT ![w].todo = @ \ {m}, ![w].at = m,
                            ![w].updated = IF changes THEN @ \cup {m} ELSE @,
                            ![w].counted = @ \cup {m}]

Find(w) ==
    /\ run[w].pc = "message"
    /\ \E m \in NextOf(run[w].todo) :
          \/ m \in messages /\ UpdateMessage(w, m)
          \/ /\ m \notin messages
             /\ run' = [run EXCEPT ![w].todo = @ \ {m}, ![w].at = m, ![w].pc = "insert"]
    /\ UNCHANGED <<tables, objects, request, runs, failed, lost>>

Fail(w) ==
    /\ run' = [run EXCEPT ![w] = NoRun]
    /\ failed' = failed + 1
    /\ UNCHANGED <<tables, request, runs, lost>>

\* uq_channel_message_channel: an insert of the same message waits for the
\* transaction that made it, and fails when that one commits. Once that one
\* rolls back, the waiting check may hold a lock that others wait for: the
\* deadlock that InnoDB then breaks is an Abandon of its victim.
\* Mutant: there is no such constraint.
InsertsFreely(m) == TRUE
Inserts(m) == m \notin messages

WaitsFor(w, v) ==
    v # w /\ run[w].pc = "insert" /\ run[w].at \in run[v].inserted

Insert(w) ==
    /\ run[w].pc = "insert"
    /\ \A v \in Workers : ~WaitsFor(w, v)
    /\ \/ /\ Inserts(run[w].at)
          /\ \E n \in 0 .. MediaLimit :
                run' = [run EXCEPT ![w].pc = "media", ![w].left = n,
                                   ![w].inserted = @ \cup {run[w].at}]
          /\ UNCHANGED <<tables, request, runs, failed, lost>>
       \/ ~Inserts(run[w].at) /\ Fail(w)
    /\ UNCHANGED objects

\* Media that are no photo or document, too large, or cannot be downloaded
\* are skipped.
SkipMedium(w) ==
    /\ run[w].pc = "media" /\ run[w].left > 0
    /\ run' = [run EXCEPT ![w].left = @ - 1]
    /\ UNCHANGED <<tables, objects, request, runs, failed, lost>>

FreshFiles == Files \ (objects \cup {run[w].file : w \in Workers}
                               \cup {d.file : d \in media \cup UNION {run[w].named : w \in Workers}})

CreateMedium(w) ==
    /\ run[w].pc = "media" /\ run[w].left > 0
    /\ \E f \in FreshFiles :
          run' = [run EXCEPT ![w].pc = "upload", ![w].file = f, ![w].attempt = 1,
                             ![w].named = @ \cup {[message |-> run[w].at, file |-> f]}]
    /\ UNCHANGED <<tables, objects, request, runs, failed, lost>>

NextMessage(w) ==
    /\ run[w].pc = "media" /\ run[w].left = 0
    /\ run' = [run EXCEPT ![w].pc = "message"]
    /\ UNCHANGED <<tables, objects, request, runs, failed, lost>>

Commit(w) ==
    /\ run[w].pc = "message" /\ run[w].todo = {}
    /\ messages' = messages \cup run[w].inserted
    /\ media' = media \cup run[w].named
    /\ run' = [run EXCEPT ![w] = NoRun]
    /\ UNCHANGED <<objects, request, runs, failed, lost>>

\* an exception, a lock wait that timed out, a deadlock, or the end of the
\* process
Abandon(w) == run[w].pc # "idle" /\ Fail(w) /\ UNCHANGED objects

-----------------------------------------------------------------------------
(* save_media *)

Retries(attempt) == attempt < MaxRetries

MediumStored(w) ==
    /\ run' = [run EXCEPT ![w].pc = "media", ![w].file = NoFile, ![w].left = @ - 1]
    /\ UNCHANGED <<tables, request, runs, failed, lost>>

\* Mutant: the loop ends without an error.
GiveUpQuietly(w) == MediumStored(w)
GiveUp(w) == Fail(w)

Upload(w) ==
    /\ run[w].pc = "upload"
    /\ objects' = objects \cup {run[w].file}
    /\ MediumStored(w)

\* too large, or AccessDenied or NoSuchBucket
UploadRefused(w) == run[w].pc = "upload" /\ Fail(w) /\ UNCHANGED objects

\* Mutant: every attempt has a name of its own.
FilesAtRandom(w) == {run[w].file} \cup FreshFiles
FilesOfRetry(w) == {run[w].file}

\* an error before or after the object was stored
UploadError(w) ==
    /\ run[w].pc = "upload"
    /\ objects' \in {objects, objects \cup {run[w].file}}
    /\ \/ /\ Retries(run[w].attempt)
          /\ \E f \in FilesOfRetry(w) :
                run' = [run EXCEPT ![w].attempt = @ + 1, ![w].file = f]
          /\ UNCHANGED <<tables, request, runs, failed, lost>>
       \/ ~Retries(run[w].attempt) /\ GiveUp(w)

-----------------------------------------------------------------------------
(* get_media and generate_presigned_url *)

\* Mutant: a row is visible before its transaction commits.
VisibleUncommitted == media \cup UNION {run[w].named : w \in Workers}
Visible == media

GetMedia(r) ==
    /\ request[r].pc # "head"
    /\ \E d \in Visible :
          request' = [request EXCEPT ![r] = [NoRequest EXCEPT !.pc = "head", !.file = d.file]]
    /\ UNCHANGED <<tables, objects, run, runs, failed, lost>>

Answer(r, pc) ==
    /\ request' = [request EXCEPT ![r].pc = pc]
    /\ UNCHANGED <<tables, objects, run, runs, failed, lost>>

Sign(r) == request[r].pc = "head" /\ request[r].file \in objects /\ Answer(r, "url")

SignRefused(r) == request[r].pc = "head" /\ Answer(r, "config_error")

\* An error of S3, or a missing object: MediaNotFoundError is caught by the
\* except Exception of the loop that raised it, and tried again.
SignError(r) ==
    /\ request[r].pc = "head"
    /\ \E missed \in {request[r].missed, request[r].missed \/ request[r].file \notin objects} :
          request' = [request EXCEPT
              ![r].missed = missed,
              ![r].attempt = IF Retries(@) THEN @ + 1 ELSE @,
              ![r].pc = IF Retries(request[r].attempt) THEN @ ELSE "max_retries"]
    /\ UNCHANGED <<tables, objects, run, runs, failed, lost>>

\* an object deleted by hand
Lose ==
    /\ lost < MaxLost
    /\ lost' = lost + 1
    /\ \E f \in objects : objects' = objects \ {f}
    /\ UNCHANGED <<tables, run, request, runs, failed>>

-----------------------------------------------------------------------------
SaveMedia(w) == Upload(w) \/ UploadRefused(w) \/ UploadError(w)
ProcessMessages(w) ==
    \/ Find(w) \/ Insert(w) \/ SkipMedium(w) \/ CreateMedium(w)
    \/ NextMessage(w) \/ Commit(w) \/ Abandon(w)
Serve(r) == GetMedia(r) \/ Sign(r) \/ SignRefused(r) \/ SignError(r)

Next ==
    \/ \E w \in Workers : Collect(w) \/ ProcessMessages(w) \/ SaveMedia(w)
    \/ \E r \in Requests : Serve(r)
    \/ Lose

Spec == Init /\ [][Next]_vars

-----------------------------------------------------------------------------
(* Properties                                                              *)

\* The tables, the bucket and the locals have their types; no call makes more
\* than max_retries attempts.
TypeOK ==
    /\ messages \subseteq Messages /\ media \subseteq Medium /\ objects \subseteq Files
    /\ run \in [Workers -> Run]
    /\ request \in [Requests -> Request]
    /\ runs \in 0 .. MaxRuns /\ failed \in 0 .. MaxRuns /\ lost \in 0 .. MaxLost

\* A medium whose row is committed is in the bucket, although the two are
\* written by different systems and any attempt may fail unseen; only a
\* deletion by hand parts them.
RowsHaveObjects == Cardinality({d \in media : d.file \notin objects}) <= lost

\* A request that found the row of a medium does not miss its object, unless
\* one was deleted by hand.
FoundMediaExist == \A r \in Requests : request[r].missed => lost > 0

\* What a run leaves in the bucket without a row is bounded by the runs that
\* failed: a retry stores under the name of the first attempt.
OrphansOfFailures ==
    LET named == {d.file : d \in media \cup UNION {run[w].named : w \in Workers}} IN
    Cardinality(objects \ named) <= failed * Newest * MediaLimit

\* The media of a stored message never change, whoever works on the channel.
AlbumsWrittenOnce ==
    [][\A m \in messages : {d \in media' : d.message = m} = {d \in media : d.message = m}]_vars

\* A request that sees no object answers that there is none.
MissingIsReported == \A r \in Requests : request[r].missed => request[r].pc \in {"not_found", "head"}
=============================================================================
