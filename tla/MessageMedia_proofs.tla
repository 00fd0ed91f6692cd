------------------------- MODULE MessageMedia_proofs -------------------------
(***************************************************************************)
(* Theorems about MessageMedia, for every set of workers, requests and     *)
(* names of objects, every number of messages, media and retries.          *)
(***************************************************************************)
EXTENDS MessageMedia, FiniteSetTheorems, TLAPS

\* The types that the invariant needs: those of TypeOK but the counts.
Types ==
    /\ messages \subseteq Messages /\ media \subseteq Medium /\ objects \subseteq Files
    /\ run \in [Workers -> Run]
    /\ request \in [Requests -> Request]
    /\ lost \in Nat

\* A run goes down its messages: those it has inserted are newer than the one
\* it is at, and those it has still to do are older.
Descends(r) ==
    /\ \A m \in r.todo : r.pc # "message" => m < r.at
    /\ \A m \in r.inserted : r.pc = "insert" => m > r.at
    /\ \A m \in r.inserted, n \in r.todo : m > n
    /\ r.pc \in {"media", "upload"} => r.at \in r.inserted
    /\ r.pc = "insert" => r.at \in Messages
    /\ r.pc = "upload" => r.left > 0 /\ r.file \in Files

\* The media of a run are those of messages it has inserted, and each is in
\* the bucket unless its upload is going on.
Names(r) ==
    /\ \A d \in r.named : d.message \in r.inserted
    /\ lost = 0 => \A d \in r.named : d.file \in objects \/ (r.pc = "upload" /\ r.file = d.file)

\* No two transactions have inserted one message, none one that is committed.
InsertedApart ==
    /\ \A w \in Workers : run[w].inserted \cap messages = {}
    /\ \A v, w \in Workers : v # w => run[v].inserted \cap run[w].inserted = {}

\* Committed media are in the bucket, and requests ask for nothing else.
Stored ==
    lost = 0 =>
        /\ \A d \in media : d.file \in objects
        /\ \A r \in Requests :
              request[r].pc = "head" => request[r].file \in objects /\ ~request[r].missed

MediaInv ==
    /\ Types
    /\ \A w \in Workers : Descends(run[w]) /\ Names(run[w])
    /\ InsertedApart
    /\ Stored
    /\ FoundMediaExist

-----------------------------------------------------------------------------
(* The locals *)

\* The sizes are numbers, and the messages too.
LEMMA Sizes ==
    /\ Newest \in Nat \ {0} /\ MaxRetries \in Nat \ {0} /\ MediaLimit \in Nat
    /\ Messages \subseteq Int /\ Messages \subseteq 0 .. Newest
BY SizesAssumption DEF Messages

LEMMA NothingTyped ==
    /\ NoRun \in Run /\ NoRun.pc = "idle" /\ NoRun.todo = {} /\ NoRun.inserted = {}
    /\ NoRun.named = {}
    /\ NoRequest \in Request /\ NoRequest.pc = "out" /\ ~NoRequest.missed
BY Sizes DEF NoRun, Run, NoRequest, Request

\* A run that gets new locals leaves the others alone.
LEMMA RunTyped ==
    ASSUME run \in [Workers -> Run], NEW w \in Workers, NEW new \in Run,
           run' = [run EXCEPT ![w] = new]
    PROVE  /\ run' \in [Workers -> Run] /\ run'[w] = new
           /\ \A v \in Workers : v # w => run'[v] = run[v]
OBVIOUS

\* The invariant holds at the start.
LEMMA MediaInit == Init => MediaInv
BY NothingTyped, SizesAssumption
   DEF Init, MediaInv, Types, Descends, Names, InsertedApart, Stored, FoundMediaExist

-----------------------------------------------------------------------------
(* The steps of a run *)

\* A message that is looked for leaves the todo of the run, stored or not.
LEMMA FindStep ==
    ASSUME Types, NEW w \in Workers, Find(w)
    PROVE  \E m \in NextOf(run[w].todo), pc \in {"message", "insert"},
              more \in SUBSET Messages, counted \in SUBSET Messages :
              run' = [run EXCEPT ![w].todo = @ \ {m}, ![w].at = m, ![w].pc = pc,
                                 ![w].updated = more, ![w].counted = counted]
<1>1. /\ run \in [Workers -> Run] /\ run[w] \in Run /\ run[w].pc = "message"
      /\ run[w].updated \in SUBSET Messages /\ run[w].counted \in SUBSET Messages
  BY DEF Types, Find, Run
<1>2. PICK m \in NextOf(run[w].todo) :
          \/ m \in messages /\ UpdateMessage(w, m)
          \/ run' = [run EXCEPT ![w].todo = @ \ {m}, ![w].at = m, ![w].pc = "insert"]
  BY DEF Find
<1>3. m \in Messages
  BY <1>1, <1>2 DEF NextOf, Run
<1>4. CASE UpdateMessage(w, m)
  <2>1. PICK changes \in BOOLEAN :
            run' = [run EXCEPT ![w].todo = @ \ {m}, ![w].at = m,
                               ![w].updated = IF changes THEN @ \cup {m} ELSE @,
                               ![w].counted = @ \cup {m}]
    BY <1>4 DEF UpdateMessage
  <2> DEFINE more == IF changes THEN run[w].updated \cup {m} ELSE run[w].updated
             counted == run[w].counted \cup {m}
  <2>2. more \in SUBSET Messages /\ counted \in SUBSET Messages
    BY <1>1, <1>3
  <2>3. run' = [run EXCEPT ![w].todo = @ \ {m}, ![w].at = m,
                           ![w].updated = more, ![w].counted = counted]
    BY <1>1, <2>1
  <2> HIDE DEF more, counted
  <2>4. run' = [run EXCEPT ![w].todo = @ \ {m}, ![w].at = m, ![w].pc = "message",
                           ![w].updated = more, ![w].counted = counted]
    <3> DEFINE left == run[w].todo \ {m}
               new == [run[w] EXCEPT !.todo = left, !.at = m, !.updated = more, !.counted = counted]
    <3>1. run' = [run EXCEPT ![w] = new]
      BY <1>1, <2>3
    <3> HIDE DEF left
    <3>2. new = [run[w] EXCEPT !.todo = left, !.at = m, !.pc = "message",
                               !.updated = more, !.counted = counted]
      BY <1>1 DEF Run
    <3> HIDE DEF new
    <3> QED
      BY <1>1, <3>1, <3>2 DEF left
  <2> QED
    BY <2>2, <2>4
<1>5. CASE run' = [run EXCEPT ![w].todo = @ \ {m}, ![w].at = m, ![w].pc = "insert"]
  <2>1. run' = [run EXCEPT ![w].todo = @ \ {m}, ![w].at = m, ![w].pc = "insert",
                           ![w].updated = run[w].updated, ![w].counted = run[w].counted]
    BY <1>1, <1>5 DEF Run
  <2> QED
    BY <1>1, <2>1
<1> QED
  BY <1>2, <1>4, <1>5

\* What a step before the commit must do to keep the invariant.
LEMMA RunStep ==
    ASSUME MediaInv, NEW w \in Workers, NEW new \in Run,
           run' = [run EXCEPT ![w] = new],
           UNCHANGED <<messages, media, request, lost>>,
           objects \subseteq objects', objects' \subseteq Files,
           Descends(new),
           \A d \in new.named : d.message \in new.inserted,
           lost = 0 => \A d \in new.named : d.file \in objects' \/ (new.pc = "upload" /\ new.file = d.file),
           \A m \in new.inserted : \/ m \in run[w].inserted
                                   \/ /\ m \notin messages
                                      /\ \A v \in Workers \ {w} : m \notin run[v].inserted
    PROVE  MediaInv'
<1> USE DEF MediaInv
<1>1. /\ run' \in [Workers -> Run] /\ run'[w] = new
      /\ \A v \in Workers : v # w => run'[v] = run[v]
  BY RunTyped DEF Types
<1>2. Types'
  BY <1>1 DEF Types
<1>3. ASSUME NEW v \in Workers PROVE Descends(run'[v]) /\ Names(run[v])'
  <2>1. CASE v = w
    BY <1>1, <2>1 DEF Names
  <2>2. CASE v # w
    BY <1>1, <2>2 DEF Names
  <2> QED
    BY <2>1, <2>2
<1>4. InsertedApart'
  <2>1. \A v \in Workers : run'[v].inserted \cap messages = {}
    BY <1>1 DEF InsertedApart
  <2>2. \A u, v \in Workers : u # v => run'[u].inserted \cap run'[v].inserted = {}
    BY <1>1 DEF InsertedApart
  <2> QED
    BY <2>1, <2>2 DEF InsertedApart
<1>5. Stored' /\ FoundMediaExist'
  BY DEF Stored, FoundMediaExist
<1> QED
  BY <1>2, <1>3, <1>4, <1>5 DEF Descends

\* A run that fails leaves what it has uploaded, and nothing else.
LEMMA FailStep ==
    ASSUME MediaInv, NEW w \in Workers, Fail(w), objects \subseteq objects', objects' \subseteq Files
    PROVE  MediaInv'
<1>1. run' = [run EXCEPT ![w] = NoRun] /\ UNCHANGED <<messages, media, request, lost>>
  BY DEF Fail, tables
<1>2. Descends(NoRun)
  BY NothingTyped DEF Descends
<1> QED
  BY <1>1, <1>2, NothingTyped, RunStep

\* The steps of the collection and of the messages keep the invariant.
LEMMA MessageSteps ==
    ASSUME MediaInv, NEW w \in Workers, Collect(w) \/ ProcessMessages(w) PROVE MediaInv'
<1> USE Sizes DEF MediaInv
<1>0. /\ run[w] \in Run /\ Descends(run[w]) /\ Names(run[w]) /\ objects \subseteq Files
      /\ run[w].todo \subseteq Messages /\ run[w].inserted \subseteq Messages
      /\ run[w].at \in Int
  BY DEF Types, Run
<1>1. CASE Collect(w)
  <2>1. PICK S \in SUBSET Messages :
             run' = [run EXCEPT ![w] = [NoRun EXCEPT !.pc = "message", !.todo = S]]
    BY <1>1 DEF Collect
  <2> DEFINE new == [NoRun EXCEPT !.pc = "message", !.todo = S]
  <2>2. /\ new \in Run /\ new.pc = "message" /\ new.inserted = {} /\ new.named = {}
    BY NothingTyped DEF NoRun, Run
  <2>3. UNCHANGED <<messages, media, request, lost, objects>>
    BY <1>1 DEF Collect, tables
  <2> HIDE DEF new
  <2>4. Descends(new)
    BY <2>2 DEF Descends
  <2> QED
    BY <1>0, <2>1, <2>2, <2>3, <2>4, RunStep DEF new
<1>2. CASE Find(w)
  <2>1. PICK m \in NextOf(run[w].todo), pc \in {"message", "insert"},
             more \in SUBSET Messages, counted \in SUBSET Messages :
             run' = [run EXCEPT ![w].todo = @ \ {m}, ![w].at = m, ![w].pc = pc,
                                ![w].updated = more, ![w].counted = counted]
    BY <1>0, <1>2, FindStep
  <2>2. m \in run[w].todo /\ m \in Messages /\ \A n \in run[w].todo : n <= m
    BY <1>0, <2>1 DEF NextOf
  <2> DEFINE left == run[w].todo \ {m}
             new == [run[w] EXCEPT !.todo = left, !.at = m, !.pc = pc,
                                   !.updated = more, !.counted = counted]
  <2>3. run' = [run EXCEPT ![w] = new]
    BY <2>1 DEF Types
  <2>4. left \in SUBSET Messages /\ \A n \in left : n < m /\ n \in run[w].todo
    <3>1. left \subseteq run[w].todo /\ m \notin left /\ left \in SUBSET Messages
      BY <1>0
    <3>2. ASSUME NEW n \in left PROVE n < m
      <4>1. n <= m /\ n # m /\ n \in Int /\ m \in Int
        BY <1>0, <2>2, <3>1
      <4> QED
        BY <4>1
    <3> QED
      BY <3>1, <3>2
  <2> HIDE DEF left
  <2>5. /\ new \in Run /\ new.todo = left /\ new.at = m /\ new.inserted = run[w].inserted
        /\ new.named = run[w].named /\ new.pc \in {"message", "insert"}
    BY <1>0, <2>1, <2>2, <2>4 DEF Run
  <2> HIDE DEF new
  <2>6. Descends(new)
    BY <1>0, <2>2, <2>4, <2>5 DEF Descends
  <2>7. run[w].pc = "message" /\ UNCHANGED <<messages, media, request, lost, objects>>
    BY <1>2 DEF Find, tables
  <2> QED
    BY <1>0, <2>3, <2>5, <2>6, <2>7, RunStep DEF Names
<1>3. CASE Insert(w)
  <2>1. CASE Fail(w)
    BY <1>0, <1>3, <2>1, FailStep DEF Insert
  <2>2. ASSUME NEW n \in 0 .. MediaLimit, Inserts(run[w].at),
               run' = [run EXCEPT ![w].pc = "media", ![w].left = n,
                                  ![w].inserted = @ \cup {run[w].at}],
               UNCHANGED <<tables, request, runs, failed, lost>>
        PROVE  MediaInv'
    <3> DEFINE more == run[w].inserted \cup {run[w].at}
               new == [run[w] EXCEPT !.pc = "media", !.left = n, !.inserted = more]
    <3>1. run' = [run EXCEPT ![w] = new]
      BY <2>2 DEF Types
    <3>2. /\ run[w].pc = "insert" /\ run[w].at \in Messages /\ run[w].at \notin messages
          /\ \A v \in Workers \ {w} : run[w].at \notin run[v].inserted
      BY <1>0, <1>3, <2>2 DEF Insert, Inserts, Descends, WaitsFor
    <3>3. more \in SUBSET Messages /\ \A m : m \in more <=> m \in run[w].inserted \/ m = run[w].at
      BY <1>0, <3>2
    <3> HIDE DEF more
    <3>4. /\ new \in Run /\ new.todo = run[w].todo /\ new.at = run[w].at /\ new.inserted = more
          /\ new.named = run[w].named /\ new.pc = "media"
      BY <1>0, <3>3 DEF Run
    <3> HIDE DEF new
    <3>5. Descends(new)
      BY <1>0, <3>2, <3>3, <3>4 DEF Descends
    <3>6. UNCHANGED <<messages, media, request, lost, objects>>
      BY <1>3, <2>2 DEF Insert, tables
    <3>7. /\ \A d \in new.named : d.message \in new.inserted
          /\ lost = 0 => \A d \in new.named : d.file \in objects
      BY <1>0, <3>2, <3>3, <3>4 DEF Names
    <3>8. \A m \in new.inserted : \/ m \in run[w].inserted
                                  \/ /\ m \notin messages
                                     /\ \A v \in Workers \ {w} : m \notin run[v].inserted
      BY <3>2, <3>3, <3>4
    <3> QED
      BY <1>0, <3>1, <3>4, <3>5, <3>6, <3>7, <3>8, RunStep
  <2> QED
    BY <1>3, <2>1, <2>2 DEF Insert
<1>4. CASE SkipMedium(w)
  <2> DEFINE new == [run[w] EXCEPT !.left = @ - 1]
  <2>1. run[w].pc = "media" /\ run[w].left > 0 /\ run' = [run EXCEPT ![w] = new]
        /\ UNCHANGED <<messages, media, request, lost, objects>>
    BY <1>4 DEF SkipMedium, Types, tables
  <2>2. /\ new \in Run /\ new.todo = run[w].todo /\ new.at = run[w].at
        /\ new.inserted = run[w].inserted /\ new.named = run[w].named /\ new.pc = "media"
    BY <1>0, <2>1 DEF Run
  <2> HIDE DEF new
  <2>3. Descends(new)
    BY <1>0, <2>1, <2>2 DEF Descends
  <2> QED
    BY <1>0, <2>1, <2>2, <2>3, RunStep DEF Names
<1>5. CASE CreateMedium(w)
  <2>1. PICK f \in FreshFiles :
             run' = [run EXCEPT ![w].pc = "upload", ![w].file = f, ![w].attempt = 1,
                                ![w].named = @ \cup {[message |-> run[w].at, file |-> f]}]
    BY <1>5 DEF CreateMedium
  <2> DEFINE d == [message |-> run[w].at, file |-> f]
             named == run[w].named \cup {d}
             new == [run[w] EXCEPT !.pc = "upload", !.file = f, !.attempt = 1, !.named = named]
  <2>2. run[w].pc = "media" /\ run[w].left > 0 /\ run' = [run EXCEPT ![w] = new]
        /\ UNCHANGED <<messages, media, request, lost, objects>>
    BY <1>5, <2>1 DEF CreateMedium, Types, tables
  <2>3. f \in Files /\ run[w].at \in run[w].inserted /\ run[w].at \in Messages
    BY <1>0, <2>1, <2>2 DEF FreshFiles, Descends
  <2>4. d \in Medium /\ d.message = run[w].at /\ d.file = f
    BY <2>3 DEF Medium
  <2> HIDE DEF d
  <2>5. named \in SUBSET Medium /\ \A e : e \in named <=> e \in run[w].named \/ e = d
    BY <1>0, <2>4 DEF Run
  <2> HIDE DEF named
  <2>6. /\ new \in Run /\ new.todo = run[w].todo /\ new.at = run[w].at
        /\ new.inserted = run[w].inserted /\ new.named = named /\ new.pc = "upload"
        /\ new.file = f /\ new.left = run[w].left
    <3>1. 1 \in 1 .. MaxRetries /\ f \in Files \cup {NoFile}
      BY <2>3
    <3> QED
      BY <1>0, <2>5, <3>1 DEF Run
  <2> HIDE DEF new
  <2>7. Descends(new)
    BY <1>0, <2>2, <2>3, <2>6 DEF Descends
  <2> QED
    BY <1>0, <2>2, <2>3, <2>4, <2>5, <2>6, <2>7, RunStep DEF Names
<1>6. CASE NextMessage(w)
  <2> DEFINE new == [run[w] EXCEPT !.pc = "message"]
  <2>1. run[w].pc = "media" /\ run' = [run EXCEPT ![w] = new]
        /\ UNCHANGED <<messages, media, request, lost, objects>>
    BY <1>6 DEF NextMessage, Types, tables
  <2>2. /\ new \in Run /\ new.todo = run[w].todo /\ new.at = run[w].at
        /\ new.inserted = run[w].inserted /\ new.named = run[w].named /\ new.pc = "message"
    BY <1>0, <2>1 DEF Run
  <2> HIDE DEF new
  <2>3. Descends(new)
    BY <1>0, <2>1, <2>2 DEF Descends
  <2> QED
    BY <1>0, <2>1, <2>2, <2>3, RunStep DEF Names
<1>7. CASE Commit(w)
  <2>1. /\ run[w].pc = "message"
        /\ messages' = messages \cup run[w].inserted /\ media' = media \cup run[w].named
        /\ run' = [run EXCEPT ![w] = NoRun] /\ UNCHANGED <<objects, request, lost>>
    BY <1>7 DEF Commit
  <2>2. /\ run' \in [Workers -> Run] /\ run'[w] = NoRun
        /\ \A v \in Workers : v # w => run'[v] = run[v]
    BY <2>1, NothingTyped, RunTyped DEF Types
  <2>3. Types'
    BY <1>0, <2>1, <2>2 DEF Types, Run
  <2>4. \A v \in Workers : Descends(run'[v]) /\ Names(run[v])'
    BY <2>1, <2>2, NothingTyped DEF Descends, Names
  <2>5. InsertedApart'
    BY <2>1, <2>2, NothingTyped DEF InsertedApart
  <2>6. Stored' /\ FoundMediaExist'
    BY <1>0, <2>1 DEF Stored, FoundMediaExist, Names
  <2> QED
    BY <2>3, <2>4, <2>5, <2>6 DEF Descends
<1>8. CASE Abandon(w)
  BY <1>0, <1>8, FailStep DEF Abandon
<1> QED
  BY <1>1, <1>2, <1>3, <1>4, <1>5, <1>6, <1>7, <1>8 DEF ProcessMessages

\* The steps of save_media keep the invariant: a retry stores under the name
\* of the row.
LEMMA SaveSteps == ASSUME MediaInv, NEW w \in Workers, SaveMedia(w) PROVE MediaInv'
<1> USE Sizes DEF MediaInv
<1>0. /\ run[w] \in Run /\ Descends(run[w]) /\ Names(run[w]) /\ objects \subseteq Files
  BY DEF Types
<1>1. CASE Upload(w)
  <2> DEFINE less == run[w].left - 1
             new == [run[w] EXCEPT !.pc = "media", !.file = NoFile, !.left = less]
  <2>1. /\ run[w].pc = "upload" /\ run' = [run EXCEPT ![w] = new]
        /\ UNCHANGED <<messages, media, request, lost>>
        /\ objects' = objects \cup {run[w].file}
    BY <1>1 DEF Upload, MediumStored, Types, tables
  <2>2. run[w].left > 0 /\ run[w].file \in Files
    BY <1>0, <2>1 DEF Descends
  <2>3. /\ new \in Run /\ new.todo = run[w].todo /\ new.at = run[w].at
        /\ new.inserted = run[w].inserted /\ new.named = run[w].named /\ new.pc = "media"
    <3>1. less \in 0 .. MediaLimit
      BY <1>0, <2>2 DEF Run
    <3> HIDE DEF less
    <3> QED
      BY <1>0, <3>1 DEF Run
  <2> HIDE DEF new
  <2>4. Descends(new)
    BY <1>0, <2>1, <2>3 DEF Descends
  <2>5. objects \subseteq objects' /\ objects' \subseteq Files
    BY <1>0, <2>1, <2>2
  <2>6. /\ lost = 0 => \A d \in new.named : d.file \in objects'
        /\ \A d \in new.named : d.message \in new.inserted
    BY <1>0, <2>1, <2>3 DEF Names
  <2> QED
    BY <2>1, <2>3, <2>4, <2>5, <2>6, RunStep
<1>2. CASE UploadRefused(w)
  BY <1>0, <1>2, FailStep DEF UploadRefused
<1>3. CASE UploadError(w)
  <2>1. run[w].pc = "upload" /\ objects' \in {objects, objects \cup {run[w].file}}
    BY <1>3 DEF UploadError
  <2>2. run[w].left > 0 /\ run[w].file \in Files
    BY <1>0, <2>1 DEF Descends
  <2>3. objects \subseteq objects' /\ objects' \subseteq Files
    BY <1>0, <2>1, <2>2
  <2>4. CASE Fail(w)
    BY <2>3, <2>4, FailStep
  <2>5. CASE /\ Retries(run[w].attempt)
             /\ \E f \in FilesOfRetry(w) :
                   run' = [run EXCEPT ![w].attempt = @ + 1, ![w].file = f]
             /\ UNCHANGED <<tables, request, runs, failed, lost>>
    <3> DEFINE next == run[w].attempt + 1
               new == [run[w] EXCEPT !.attempt = next]
    <3>1. next \in 1 .. MaxRetries
      BY <1>0, <2>5 DEF Retries, Run
    <3>2. run' = [run EXCEPT ![w] = [run[w] EXCEPT !.attempt = @ + 1, !.file = run[w].file]]
      BY <2>5 DEF FilesOfRetry, Types
    <3>3. [run[w] EXCEPT !.attempt = @ + 1, !.file = run[w].file] = new
      BY <1>0 DEF Run
    <3> HIDE DEF next
    <3>4. /\ new \in Run /\ new.todo = run[w].todo /\ new.at = run[w].at
          /\ new.inserted = run[w].inserted /\ new.named = run[w].named /\ new.pc = "upload"
          /\ new.file = run[w].file /\ new.left = run[w].left
      BY <1>0, <2>1, <3>1 DEF Run
    <3> HIDE DEF new
    <3>5. Descends(new)
      BY <1>0, <2>1, <3>4 DEF Descends
    <3>6. UNCHANGED <<messages, media, request, lost>>
      BY <2>5 DEF tables
    <3>7. lost = 0 => \A d \in new.named : d.file \in objects' \/ (new.pc = "upload" /\ new.file = d.file)
      BY <1>0, <2>3, <3>4 DEF Names
    <3>8. \A d \in new.named : d.message \in new.inserted
      BY <1>0, <3>4 DEF Names
    <3>9. run' = [run EXCEPT ![w] = new]
      BY <3>2, <3>3
    <3> QED
      BY <2>3, <3>4, <3>5, <3>6, <3>7, <3>8, <3>9, RunStep
  <2> QED
    BY <1>3, <2>4, <2>5 DEF UploadError, GiveUp
<1> QED
  BY <1>1, <1>2, <1>3 DEF SaveMedia

-----------------------------------------------------------------------------
(* Requests and deletions *)

\* A request finds media that are stored, and keeps the invariant.
LEMMA RequestSteps == ASSUME MediaInv, NEW r \in Requests, Serve(r) PROVE MediaInv'
<1> USE Sizes DEF MediaInv
<1>1. UNCHANGED <<messages, media, objects, run, lost>>
  BY DEF Serve, GetMedia, Sign, SignRefused, SignError, Answer, tables
<1>2. /\ request' \in [Requests -> Request]
      /\ \A q \in Requests : q # r => request'[q] = request[q]
      /\ lost = 0 =>
            /\ request'[r].pc = "head" => request'[r].file \in objects
            /\ ~request'[r].missed
  <2>0. request \in [Requests -> Request] /\ request[r] \in Request
    BY DEF Types
  <2>1. CASE GetMedia(r)
    <3>1. PICK d \in media :
               request' = [request EXCEPT ![r] = [NoRequest EXCEPT !.pc = "head", !.file = d.file]]
      BY <2>1 DEF GetMedia, Visible
    <3> DEFINE new == [NoRequest EXCEPT !.pc = "head", !.file = d.file]
    <3>2. d.file \in Files /\ (lost = 0 => d.file \in objects)
      BY DEF Types, Medium, Stored
    <3>3. new \in Request /\ new.file = d.file /\ ~new.missed
      BY <3>2, NothingTyped DEF NoRequest, Request
    <3> HIDE DEF new
    <3>4. request' = [request EXCEPT ![r] = new]
      BY <3>1 DEF new
    <3> QED
      BY <2>0, <3>2, <3>3, <3>4
  <2>2. ASSUME NEW pc \in {"url", "config_error"}, Answer(r, pc), request[r].pc = "head"
        PROVE  /\ request' \in [Requests -> Request]
               /\ \A q \in Requests : q # r => request'[q] = request[q]
               /\ request'[r].pc = pc /\ request'[r].missed = request[r].missed
    BY <2>0, <2>2 DEF Answer, Request
  <2>3. CASE Sign(r) \/ SignRefused(r)
    BY <2>2, <2>3 DEF Sign, SignRefused, Stored
  <2>4. CASE SignError(r)
    <3>1. PICK missed \in {request[r].missed, request[r].missed \/ request[r].file \notin objects} :
             request' = [request EXCEPT
                 ![r].missed = missed,
                 ![r].attempt = IF Retries(@) THEN @ + 1 ELSE @,
                 ![r].pc = IF Retries(request[r].attempt) THEN @ ELSE "max_retries"]
      BY <2>4 DEF SignError
    <3> DEFINE next == IF Retries(request[r].attempt) THEN request[r].attempt + 1
                       ELSE request[r].attempt
               pc == IF Retries(request[r].attempt) THEN request[r].pc ELSE "max_retries"
               new == [request[r] EXCEPT !.missed = missed, !.attempt = next, !.pc = pc]
    <3>2. request' = [request EXCEPT ![r] = new]
      BY <2>0, <3>1
    <3>3. missed \in BOOLEAN /\ next \in 1 .. MaxRetries
      <4>1. request[r].attempt \in 1 .. MaxRetries /\ request[r].missed \in BOOLEAN
        BY <2>0 DEF Request
      <4>2. next \in 1 .. MaxRetries
        BY <4>1 DEF Retries
      <4>3. missed \in BOOLEAN
        BY <4>1, Zenon
      <4> QED
        BY <4>2, <4>3
    <3>4. request[r].pc = "head" /\ pc \in {"head", "max_retries"}
      BY <2>4 DEF SignError
    <3> HIDE DEF next, pc
    <3>5. /\ new \in Request /\ new.file = request[r].file /\ new.missed = missed
          /\ new.pc = pc
      BY <2>0, <3>3, <3>4 DEF Request
    <3> HIDE DEF new
    <3>6. lost = 0 => request[r].file \in objects /\ ~missed
      BY <3>4 DEF Stored
    <3> QED
      BY <2>0, <3>2, <3>5, <3>6
  <2> QED
    BY <2>1, <2>3, <2>4 DEF Serve
<1>3. Types'
  BY <1>1, <1>2 DEF Types
<1>4. \A w \in Workers : Descends(run'[w]) /\ Names(run[w])'
  BY <1>1 DEF Names
<1>5. InsertedApart'
  BY <1>1 DEF InsertedApart
<1>6. Stored' /\ FoundMediaExist'
  BY <1>1, <1>2, Sizes DEF Stored, FoundMediaExist, Types
<1> QED
  BY <1>3, <1>4, <1>5, <1>6 DEF Descends

\* A deletion by hand is counted.
LEMMA LoseStep == MediaInv /\ Lose => MediaInv'
<1> SUFFICES ASSUME MediaInv, Lose PROVE MediaInv'
  OBVIOUS
<1>1. /\ UNCHANGED <<messages, media, run, request>> /\ lost' = lost + 1
      /\ objects' \subseteq objects
  BY DEF Lose, tables
<1>2. lost \in Nat /\ lost' > 0 /\ lost' \in Nat
  BY <1>1 DEF MediaInv, Types
<1> QED
  BY <1>1, <1>2 DEF MediaInv, Types, Descends, Names, InsertedApart, Stored, FoundMediaExist

\* Every step keeps the invariant.
LEMMA MediaNext == MediaInv /\ [Next]_vars => MediaInv'
<1>1. MediaInv /\ UNCHANGED vars => MediaInv'
  BY DEF MediaInv, Types, Descends, Names, InsertedApart, Stored, FoundMediaExist, vars, tables
<1> QED
  BY <1>1, MessageSteps, SaveSteps, RequestSteps, LoseStep DEF Next

\* The inductive invariant of the transactions, the bucket and the requests.
THEOREM MediaInvariant == Spec => []MediaInv
BY MediaInit, MediaNext, PTL DEF Spec

\* A request that found the row of a medium finds its object, although a row
\* and its object are written by two systems: unless one was deleted by hand.
THEOREM FoundMediaAlwaysExist == Spec => []FoundMediaExist
BY MediaInvariant, PTL DEF MediaInv

\* The media of a stored message never change, whoever works on its channel.
THEOREM AlbumsStayAsWritten == Spec => AlbumsWrittenOnce
<1>1. MediaInv /\ [Next]_vars =>
         [\A m \in messages : {d \in media' : d.message = m} = {d \in media : d.message = m}]_vars
  <2> SUFFICES ASSUME MediaInv, Next, NEW m \in messages
              PROVE  {d \in media' : d.message = m} = {d \in media : d.message = m}
    OBVIOUS
  <2>1. CASE UNCHANGED media
    BY <2>1
  <2>2. ASSUME NEW w \in Workers, Commit(w)
        PROVE  {d \in media' : d.message = m} = {d \in media : d.message = m}
    <3>1. media' = media \cup run[w].named
      BY <2>2 DEF Commit
    <3>2. \A d \in run[w].named : d.message # m
      BY DEF MediaInv, Names, InsertedApart
    <3> QED
      BY <3>1, <3>2
  <2> QED
    BY <2>1, <2>2 DEF Next, ProcessMessages, SaveMedia, Serve, Collect, Find, Insert, Fail,
       SkipMedium, CreateMedium, NextMessage, Abandon, Upload, UploadRefused, UploadError,
       GiveUp, MediumStored, GetMedia, Sign, SignRefused, SignError, Answer, Lose, tables
<1> QED
  BY <1>1, MediaInvariant, PTL DEF Spec, AlbumsWrittenOnce

-----------------------------------------------------------------------------
(* The rows of the media and the objects of the bucket                     *)

\* The rows of committed and of open transactions, and the objects they name.
AllNamed == media \cup UNION {run[w].named : w \in Workers}
NamedFiles == {d.file : d \in AllNamed}

Uploading(f) == \E w \in Workers : run[w].pc = "upload" /\ run[w].file = f
Missing == {d \in AllNamed : d.file \notin objects /\ ~Uploading(d.file)}

\* The media of its message that a run has still to create.
Room(r) == IF r.pc = "media" THEN r.left ELSE IF r.pc = "upload" THEN r.left - 1 ELSE 0

\* What a run uploads is the object of a row it has written, and it writes
\* no more rows than its messages have media.
Rows(r) ==
    /\ r.pc = "idle" => r.named = {}
    /\ r.pc = "upload" => [message |-> r.at, file |-> r.file] \in r.named
    /\ IsFiniteSet(r.named)
    /\ Cardinality(r.named) + Room(r) <= Cardinality(r.inserted) * MediaLimit

FilesOnce == \A d, e \in AllNamed : d.file = e.file => d = e
OfMessages == \A d \in media : d.message \in messages
Lacking == IsFiniteSet(Missing) /\ Cardinality(Missing) <= lost
Orphans == objects \ NamedFiles
OrphansBound == IsFiniteSet(Orphans) /\ Cardinality(Orphans) <= failed * Newest * MediaLimit

BucketInv ==
    /\ failed \in Nat
    /\ \A w \in Workers : Rows(run[w])
    /\ FilesOnce /\ OfMessages
    /\ Lacking
    /\ OrphansBound

\* The arithmetic of the bounds.
LEMMA Products ==
    /\ \A n, m \in Nat : n * m \in Nat /\ (n + 1) * m = n * m + m
    /\ \A k, n, m \in Nat : k <= n => k * m <= n * m
    /\ \A k, n, m \in Nat : k * n * m \in Nat /\ (k + 1) * n * m = k * n * m + n * m
<1>1. \A n, m \in Nat : n * m \in Nat /\ (n + 1) * m = n * m + m
  OBVIOUS
<1>2. ASSUME NEW k \in Nat, NEW n \in Nat, NEW m \in Nat, k <= n PROVE k * m <= n * m
  <2>1. PICK e \in Nat : n = k + e
    BY <1>2
  <2>2. (k + e) * m = k * m + e * m /\ e * m \in Nat /\ k * m \in Nat
    OBVIOUS
  <2> QED
    BY <2>1, <2>2
<1>3. ASSUME NEW k \in Nat, NEW n \in Nat, NEW m \in Nat
      PROVE  k * n * m \in Nat /\ (k + 1) * n * m = k * n * m + n * m
  <2>1. PICK a \in Nat, b \in Nat : a = k * n /\ b = (k + 1) * n
    BY <1>1
  <2>2. b = a + n
    BY <1>1, <2>1
  <2>3. (a + n) * m = a * m + n * m /\ a * m \in Nat
    BY <1>1
  <2> QED
    BY <2>1, <2>2, <2>3
<1> QED
  BY <1>1, <1>2, <1>3

\* The files of the rows of a set are no more than its rows.
LEMMA FilesSmall ==
    ASSUME NEW S, IsFiniteSet(S)
    PROVE  IsFiniteSet({d.file : d \in S}) /\ Cardinality({d.file : d \in S}) <= Cardinality(S)
<1> DEFINE T == {d.file : d \in S}
           g == [d \in S |-> d.file]
<1>1. g \in Surjection(S, T)
  BY DEF Surjection
<1> QED
  BY <1>1, FS_Surjection

\* What a run has inserted is at most every message.
LEMMA InsertedSmall ==
    ASSUME NEW S \in SUBSET Messages
    PROVE  IsFiniteSet(S) /\ Cardinality(S) \in Nat /\ Cardinality(S) <= Newest
<1>1. 1 \in Int /\ Newest \in Int /\ Newest >= 1
  BY Sizes
<1>2. IsFiniteSet(Messages) /\ Cardinality(Messages) = Newest
  BY <1>1, FS_Interval DEF Messages
<1> QED
  BY <1>2, FS_Subset, FS_CardinalityType

\* Of the rows of two runs, and of a run and the table, none is the same.
LEMMA RowsApart ==
    ASSUME MediaInv, BucketInv, NEW w \in Workers, NEW d \in run[w].named
    PROVE  d \notin media /\ \A v \in Workers : v # w => d \notin run[v].named
<1>1. d.message \in run[w].inserted
  BY DEF MediaInv, Names
<1>2. d \notin media
  BY <1>1 DEF BucketInv, OfMessages, MediaInv, InsertedApart
<1>3. ASSUME NEW v \in Workers, v # w, d \in run[v].named PROVE FALSE
  <2>1. d.message \in run[v].inserted
    BY <1>3 DEF MediaInv, Names
  <2> QED
    BY <1>1, <1>3, <2>1 DEF MediaInv, InsertedApart
<1> QED
  BY <1>2, <1>3

\* What a step must do so that no more rows miss their object.
LEMMA FewerMissing ==
    ASSUME lost \in Nat, Lacking, lost' = lost, Missing' \subseteq Missing
    PROVE  Lacking'
<1>1. IsFiniteSet(Missing') /\ Cardinality(Missing') <= Cardinality(Missing)
  BY FS_Subset DEF Lacking
<1>2. Cardinality(Missing') \in Nat /\ Cardinality(Missing) \in Nat
  BY <1>1, FS_CardinalityType DEF Lacking
<1> QED
  BY <1>1, <1>2 DEF Lacking

\* The same for the objects without a row.
LEMMA FewerOrphans ==
    ASSUME BucketInv, failed' = failed, Orphans' \subseteq Orphans
    PROVE  OrphansBound'
<1>1. IsFiniteSet(Orphans') /\ Cardinality(Orphans') <= Cardinality(Orphans)
  BY FS_Subset DEF BucketInv, OrphansBound
<1>2. Cardinality(Orphans') \in Nat /\ Cardinality(Orphans) \in Nat
  BY <1>1, FS_CardinalityType DEF BucketInv, OrphansBound
<1>3. PICK n \in Nat : n = failed * Newest * MediaLimit
  BY Products, Sizes DEF BucketInv
<1>4. Cardinality(Orphans) <= n
  BY <1>3 DEF BucketInv, OrphansBound
<1>5. Cardinality(Orphans') <= n
  BY <1>1, <1>2, <1>4
<1> QED
  BY <1>1, <1>3, <1>5 DEF OrphansBound

-----------------------------------------------------------------------------
(* The steps of a run and the rows *)

\* What a step of a run must do that writes no row and commits none.
LEMMA BucketKeep ==
    ASSUME MediaInv, BucketInv, NEW w \in Workers,
           \A v \in Workers : v # w => run'[v] = run[v],
           UNCHANGED <<messages, media, lost, failed>>,
           run'[w].named = run[w].named,
           Rows(run'[w]),
           run'[w].pc = "upload" => run[w].pc = "upload" /\ run'[w].file = run[w].file,
           run[w].pc = "upload" =>
               run[w].file \in objects' \/ (run'[w].pc = "upload" /\ run'[w].file = run[w].file),
           objects \subseteq objects',
           \A f \in objects' : f \in objects \/ (run[w].pc = "upload" /\ run[w].file = f)
    PROVE  BucketInv'
<1>1. \A v \in Workers : run'[v].named = run[v].named
  OBVIOUS
<1>2. AllNamed' = AllNamed
  BY <1>1 DEF AllNamed
<1>3. Rows(run[w]) /\ \A v \in Workers : Rows(run'[v])
  BY DEF BucketInv
<1>4. FilesOnce' /\ OfMessages'
  BY <1>2 DEF BucketInv, FilesOnce, OfMessages
<1>5. Missing' \subseteq Missing
  <2>1. \A f : Uploading(f) => Uploading(f)' \/ f \in objects'
    BY DEF Uploading
  <2> QED
    BY <1>2, <2>1 DEF Missing
<1>6. Orphans' \subseteq Orphans
  <2>1. run[w].pc = "upload" => run[w].file \in NamedFiles
    <3>1. run[w].pc = "upload" => [message |-> run[w].at, file |-> run[w].file] \in AllNamed
      BY <1>3 DEF Rows, AllNamed
    <3> QED
      BY <3>1 DEF NamedFiles
  <2>2. NamedFiles' = NamedFiles
    BY <1>2 DEF NamedFiles
  <2> QED
    BY <2>1, <2>2 DEF Orphans
<1>7. Lacking' /\ OrphansBound'
  BY <1>5, <1>6, FewerMissing, FewerOrphans DEF BucketInv, MediaInv, Types
<1> QED
  BY <1>3, <1>4, <1>7 DEF BucketInv, Rows, Room

\* A run that fails takes back its rows: the object it was to upload has no
\* row any more, and what it has uploaded becomes objects without one.
LEMMA BucketFail ==
    ASSUME MediaInv, BucketInv, NEW w \in Workers, Fail(w),
           objects \subseteq objects',
           \A f \in objects' : f \in objects \/ (run[w].pc = "upload" /\ run[w].file = f)
    PROVE  BucketInv'
<1>0. /\ run' = [run EXCEPT ![w] = NoRun] /\ failed' = failed + 1
      /\ UNCHANGED <<messages, media, lost>>
  BY DEF Fail, tables
<1>1. /\ run'[w] = NoRun /\ \A v \in Workers : v # w => run'[v] = run[v]
  BY <1>0 DEF MediaInv, Types
<1>2. /\ \A d \in AllNamed' : d \in AllNamed
      /\ \A d \in AllNamed : d \in AllNamed' \/ d \in run[w].named
      /\ \A d \in run[w].named : d \notin AllNamed'
  <2>1. \A d \in AllNamed' : d \in AllNamed
    BY <1>0, <1>1, NothingTyped DEF AllNamed
  <2>2. \A d \in AllNamed : d \in AllNamed' \/ d \in run[w].named
    BY <1>0, <1>1 DEF AllNamed
  <2>3. ASSUME NEW d \in run[w].named, d \in AllNamed' PROVE FALSE
    <3>1. d \in media \/ \E v \in Workers : v # w /\ d \in run[v].named
      BY <1>0, <1>1, <2>3, NothingTyped DEF AllNamed
    <3> QED
      BY <2>3, <3>1, RowsApart
  <2> QED
    BY <2>1, <2>2, <2>3
<1>3. Rows(run[w]) /\ FilesOnce /\ lost \in Nat /\ failed \in Nat
  BY DEF BucketInv, MediaInv, Types
<1>4. \A v \in Workers : Rows(run'[v])
  <2>1. Rows(NoRun)
    <3>1. IsFiniteSet({}) /\ Cardinality({}) = 0
      BY FS_EmptySet
    <3>2. MediaLimit \in Nat /\ 0 * MediaLimit = 0
      BY Sizes
    <3> QED
      BY <3>1, <3>2, NothingTyped DEF Rows, Room
  <2> QED
    BY <1>1, <2>1 DEF BucketInv
<1>5. FilesOnce' /\ OfMessages'
  BY <1>0, <1>2, <1>3 DEF FilesOnce, BucketInv, OfMessages
<1>6. Missing' \subseteq Missing
  <2> SUFFICES ASSUME NEW d \in AllNamed', d.file \notin objects', ~Uploading(d.file)',
                      Uploading(d.file)
               PROVE  FALSE
    BY <1>2 DEF Missing
  <2>1. run[w].pc = "upload" /\ run[w].file = d.file
    BY <1>1, NothingTyped DEF Uploading
  <2> DEFINE e == [message |-> run[w].at, file |-> run[w].file]
  <2>2. e \in run[w].named /\ e \in AllNamed /\ e.file = d.file
    BY <1>3, <2>1 DEF Rows, AllNamed
  <2>3. d = e
    BY <1>2, <1>3, <2>2 DEF FilesOnce
  <2> QED
    BY <1>2, <2>2, <2>3
<1>7. Lacking'
  BY <1>0, <1>3, <1>6, FewerMissing DEF BucketInv
<1>8. OrphansBound'
  <2> DEFINE left == {d.file : d \in run[w].named}
  <2>1. IsFiniteSet(left) /\ Cardinality(left) <= Cardinality(run[w].named)
    BY <1>3, FilesSmall DEF Rows
  <2>2. Orphans' \subseteq Orphans \cup left
    <3> SUFFICES ASSUME NEW f \in objects', f \notin NamedFiles', f \notin left
                 PROVE  f \in objects /\ f \notin NamedFiles
      BY DEF Orphans
    <3>1. f \notin NamedFiles
      BY <1>2 DEF NamedFiles
    <3>2. ~(run[w].pc = "upload" /\ run[w].file = f)
      BY <1>3 DEF Rows
    <3> QED
      BY <3>1, <3>2
  <2> HIDE DEF left
  <2>3. /\ IsFiniteSet(Orphans) /\ IsFiniteSet(Orphans \cup left)
        /\ Cardinality(Orphans \cup left) <= Cardinality(Orphans) + Cardinality(left)
    <3>1. IsFiniteSet(Orphans)
      BY DEF BucketInv, OrphansBound
    <3>2. /\ IsFiniteSet(Orphans \cup left)
          /\ Cardinality(Orphans \cup left)
               = Cardinality(Orphans) + Cardinality(left) - Cardinality(Orphans \cap left)
      BY <2>1, <3>1, FS_Union
    <3>i. IsFiniteSet(Orphans \cap left)
      BY <3>1, FS_Subset
    <3>3. Cardinality(Orphans \cap left) \in Nat /\ Cardinality(Orphans) \in Nat /\ Cardinality(left) \in Nat
      BY <2>1, <3>1, <3>i, FS_CardinalityType
    <3> QED
      BY <3>1, <3>2, <3>3
  <2>4. IsFiniteSet(Orphans') /\ Cardinality(Orphans') <= Cardinality(Orphans \cup left)
    BY <2>2, <2>3, FS_Subset
  <2>5. Cardinality(run[w].named) \in Nat /\ Cardinality(run[w].named) <= Newest * MediaLimit
    <3>1. /\ run[w].inserted \in SUBSET Messages /\ run[w].left \in Nat
          /\ run[w].pc = "upload" => run[w].left > 0
      BY Sizes DEF MediaInv, Types, Run, Descends
    <3>2. PICK c \in Nat : c = Cardinality(run[w].inserted) /\ c <= Newest
      BY <3>1, InsertedSmall
    <3>3. PICK n \in Nat : n = Cardinality(run[w].named)
      BY <1>3, FS_CardinalityType DEF Rows
    <3>4. c * MediaLimit <= Newest * MediaLimit /\ c * MediaLimit \in Nat /\ Newest * MediaLimit \in Nat
      BY <3>2, Products, Sizes
    <3>5. Room(run[w]) \in Nat
      BY <3>1 DEF Room
    <3>6. n + Room(run[w]) <= c * MediaLimit
      BY <1>3, <3>2, <3>3 DEF Rows
    <3> QED
      BY <3>3, <3>4, <3>5, <3>6
  <2>6. PICK k \in Nat, m \in Nat : k = failed * Newest * MediaLimit /\ m = Newest * MediaLimit
    BY <1>3, Products, Sizes
  <2>7. failed' * Newest * MediaLimit = k + m
    BY <1>0, <1>3, <2>6, Products, Sizes
  <2>8. Cardinality(Orphans) <= k /\ Cardinality(left) <= m
    <3>1. Cardinality(left) \in Nat
      BY <2>1, FS_CardinalityType
    <3> QED
      BY <2>1, <2>5, <2>6, <3>1 DEF BucketInv, OrphansBound
  <2>9. Cardinality(Orphans') <= k + m
    <3>1. /\ Cardinality(Orphans) \in Nat /\ Cardinality(left) \in Nat
          /\ Cardinality(Orphans') \in Nat /\ Cardinality(Orphans \cup left) \in Nat
      BY <2>1, <2>3, <2>4, FS_CardinalityType
    <3> QED
      BY <2>3, <2>4, <2>8, <3>1
  <2> QED
    BY <2>4, <2>7, <2>9 DEF OrphansBound
<1> QED
  BY <1>0, <1>3, <1>4, <1>5, <1>7, <1>8 DEF BucketInv, Rows, Room

\* A new row names a file that no object, row or upload has.
LEMMA BucketCreate ==
    ASSUME MediaInv, MediaInv', BucketInv, NEW w \in Workers, CreateMedium(w) PROVE BucketInv'
<1>0. /\ run \in [Workers -> Run] /\ run[w] \in Run /\ Rows(run[w]) /\ FilesOnce
      /\ run[w].left \in Nat
  BY Sizes DEF MediaInv, Types, BucketInv, Run
<1>1. PICK f \in FreshFiles :
           run' = [run EXCEPT ![w].pc = "upload", ![w].file = f, ![w].attempt = 1,
                              ![w].named = @ \cup {[message |-> run[w].at, file |-> f]}]
  BY DEF CreateMedium
<1> DEFINE d == [message |-> run[w].at, file |-> f]
<1>2. /\ run[w].pc = "media" /\ run[w].left > 0
      /\ UNCHANGED <<messages, media, objects, lost, failed>>
  BY DEF CreateMedium, tables
<1>3. /\ run'[w].pc = "upload" /\ run'[w].file = f /\ run'[w].named = run[w].named \cup {d}
      /\ run'[w].at = run[w].at /\ run'[w].inserted = run[w].inserted /\ run'[w].left = run[w].left
      /\ \A v \in Workers : v # w => run'[v] = run[v]
  BY <1>0, <1>1 DEF Run
<1>4. d.file = f /\ d.message = run[w].at
  OBVIOUS
<1> HIDE DEF d
<1>5. f \notin objects /\ \A e \in AllNamed : e.file # f
  BY DEF FreshFiles, AllNamed
<1>6. \A e : e \in AllNamed' <=> e \in AllNamed \/ e = d
  BY <1>2, <1>3 DEF AllNamed
<1>7. d \notin run[w].named
  BY <1>4, <1>5 DEF AllNamed
<1>8. Rows(run'[w])
  <2>1. /\ IsFiniteSet(run'[w].named)
        /\ Cardinality(run'[w].named) = Cardinality(run[w].named) + 1
    <3>1. IsFiniteSet(run[w].named)
      BY <1>0 DEF Rows
    <3>2. /\ IsFiniteSet(run[w].named \cup {d})
          /\ Cardinality(run[w].named \cup {d}) = Cardinality(run[w].named) + 1
      BY <1>7, <3>1, FS_AddElement
    <3> QED
      BY <1>3, <3>2
  <2>2. Cardinality(run[w].named) \in Nat
    BY <1>0, FS_CardinalityType DEF Rows
  <2>3. Room(run[w]) = run[w].left /\ Room(run'[w]) = run[w].left - 1
    BY <1>2, <1>3 DEF Room
  <2>4. Cardinality(run'[w].named) + Room(run'[w]) = Cardinality(run[w].named) + Room(run[w])
    BY <1>0, <2>1, <2>2, <2>3
  <2> QED
    BY <1>0, <1>3, <2>1, <2>4 DEF Rows, d
<1>9. \A v \in Workers : Rows(run'[v])
  BY <1>3, <1>8 DEF BucketInv
<1>10. FilesOnce' /\ OfMessages'
  BY <1>0, <1>2, <1>4, <1>5, <1>6 DEF FilesOnce, BucketInv, OfMessages
<1>11. Missing' \subseteq Missing
  <2>1. \A g : Uploading(g) => Uploading(g)'
    BY <1>2, <1>3 DEF Uploading
  <2>2. Uploading(f)'
    BY <1>3 DEF Uploading
  <2> QED
    BY <1>2, <1>4, <1>6, <2>1, <2>2 DEF Missing
<1>12. Orphans' \subseteq Orphans
  <2>1. NamedFiles \subseteq NamedFiles'
    BY <1>6 DEF NamedFiles
  <2> QED
    BY <1>2, <2>1 DEF Orphans
<1> QED
  BY <1>2, <1>9, <1>10, <1>11, <1>12, FewerMissing, FewerOrphans
     DEF BucketInv, MediaInv, Types, Rows, Room

\* A commit gives the rows of the run to the table.
LEMMA BucketCommit ==
    ASSUME MediaInv, BucketInv, NEW w \in Workers, Commit(w) PROVE BucketInv'
<1>1. /\ run[w].pc = "message" /\ run' = [run EXCEPT ![w] = NoRun]
      /\ messages' = messages \cup run[w].inserted /\ media' = media \cup run[w].named
      /\ UNCHANGED <<objects, lost, failed>>
  BY DEF Commit
<1>2. run'[w] = NoRun /\ \A v \in Workers : v # w => run'[v] = run[v]
  BY <1>1 DEF MediaInv, Types
<1>3. AllNamed' = AllNamed
  BY <1>1, <1>2, NothingTyped DEF AllNamed
<1>4. \A v \in Workers : Rows(run'[v])
  <2>1. Rows(NoRun)
    <3>1. IsFiniteSet({}) /\ Cardinality({}) = 0
      BY FS_EmptySet
    <3>2. MediaLimit \in Nat /\ 0 * MediaLimit = 0
      BY Sizes
    <3> QED
      BY <3>1, <3>2, NothingTyped DEF Rows, Room
  <2> QED
    BY <1>2, <2>1 DEF BucketInv
<1>5. FilesOnce' /\ OfMessages'
  BY <1>1, <1>3 DEF BucketInv, FilesOnce, OfMessages, MediaInv, Names
<1>6. Missing' \subseteq Missing
  <2>1. \A f : Uploading(f) => Uploading(f)'
    BY <1>1, <1>2 DEF Uploading
  <2> QED
    BY <1>1, <1>3, <2>1 DEF Missing
<1>7. Orphans' \subseteq Orphans
  BY <1>1, <1>3 DEF Orphans, NamedFiles
<1> QED
  BY <1>1, <1>4, <1>5, <1>6, <1>7, FewerMissing, FewerOrphans
     DEF BucketInv, MediaInv, Types, Rows, Room

\* An object that is deleted by hand is that of one row at most.
LEMMA BucketLose == ASSUME MediaInv, BucketInv, Lose PROVE BucketInv'
<1>1. PICK f \in objects : objects' = objects \ {f}
  BY DEF Lose
<1>2. UNCHANGED <<messages, media, run, failed>> /\ lost' = lost + 1 /\ lost \in Nat
  BY DEF Lose, tables, MediaInv, Types
<1>3. AllNamed' = AllNamed /\ \A g : Uploading(g)' <=> Uploading(g)
  BY <1>2 DEF AllNamed, Uploading
<1>4. FilesOnce /\ IsFiniteSet(Missing) /\ Cardinality(Missing) <= lost
  BY DEF BucketInv, Lacking
<1>5. \E d : Missing' \subseteq Missing \cup {d}
  <2>1. PICK d : \A e \in AllNamed : e.file = f => e = d
    BY <1>4 DEF FilesOnce
  <2>2. Missing' \subseteq Missing \cup {d}
    BY <1>1, <1>3, <2>1 DEF Missing
  <2> QED
    BY <2>2
<1>6. Lacking'
  <2>1. PICK d : Missing' \subseteq Missing \cup {d}
    BY <1>5
  <2>2. IsFiniteSet(Missing \cup {d}) /\ Cardinality(Missing \cup {d}) <= Cardinality(Missing) + 1
    <3>1. /\ IsFiniteSet(Missing \cup {d})
          /\ Cardinality(Missing \cup {d}) = IF d \in Missing THEN Cardinality(Missing)
                                             ELSE Cardinality(Missing) + 1
      BY <1>4, FS_AddElement
    <3>2. Cardinality(Missing) \in Nat
      BY <1>4, FS_CardinalityType
    <3> QED
      BY <3>1, <3>2
  <2>3. IsFiniteSet(Missing') /\ Cardinality(Missing') <= Cardinality(Missing \cup {d})
    BY <2>1, <2>2, FS_Subset
  <2>4. /\ Cardinality(Missing) \in Nat /\ Cardinality(Missing') \in Nat
        /\ Cardinality(Missing \cup {d}) \in Nat
    BY <1>4, <2>2, <2>3, FS_CardinalityType
  <2> QED
    BY <1>2, <1>4, <2>2, <2>3, <2>4 DEF Lacking
<1>7. Orphans' \subseteq Orphans
  BY <1>1, <1>3 DEF Orphans, NamedFiles
<1>8. FilesOnce' /\ OfMessages' /\ \A w \in Workers : Rows(run'[w])
  BY <1>2, <1>3 DEF BucketInv, FilesOnce, OfMessages
<1> QED
  BY <1>2, <1>6, <1>7, <1>8, FewerOrphans DEF BucketInv, Rows, Room

\* The other steps of a run before its uploads.
LEMMA BucketMessages ==
    ASSUME MediaInv, BucketInv, NEW w \in Workers,
           Collect(w) \/ Find(w) \/ Insert(w) \/ SkipMedium(w) \/ NextMessage(w) \/ Abandon(w)
    PROVE  BucketInv'
<1>0. /\ run \in [Workers -> Run] /\ run[w] \in Run /\ Rows(run[w]) /\ run[w].left \in Nat
      /\ IsFiniteSet(run[w].named) /\ run[w].inserted \in SUBSET Messages
  BY Sizes DEF MediaInv, Types, BucketInv, Run, Rows
<1>1. /\ Cardinality(run[w].named) \in Nat /\ Cardinality(run[w].inserted) \in Nat
      /\ Cardinality(run[w].inserted) * MediaLimit \in Nat
  BY <1>0, FS_CardinalityType, InsertedSmall, Products, Sizes
<1>2. CASE Collect(w)
  <2>1. PICK S \in SUBSET Messages :
             run' = [run EXCEPT ![w] = [NoRun EXCEPT !.pc = "message", !.todo = S]]
    BY <1>2 DEF Collect
  <2>2. /\ run[w].pc = "idle" /\ run[w].named = {}
        /\ UNCHANGED <<messages, media, objects, lost, failed>>
    BY <1>0, <1>2 DEF Collect, tables, Rows
  <2>3. /\ run'[w].pc = "message" /\ run'[w].named = {} /\ run'[w].inserted = {}
        /\ \A v \in Workers : v # w => run'[v] = run[v]
    BY <1>0, <2>1 DEF NoRun
  <2>4. Rows(run'[w])
    <3>1. IsFiniteSet({}) /\ Cardinality({}) = 0
      BY FS_EmptySet
    <3>2. MediaLimit \in Nat /\ 0 * MediaLimit = 0
      BY Sizes
    <3> QED
      BY <2>3, <3>1, <3>2 DEF Rows, Room
  <2> QED
    BY <2>2, <2>3, <2>4, BucketKeep
<1>3. CASE Find(w)
  <2>1. PICK m \in NextOf(run[w].todo), pc \in {"message", "insert"},
             more \in SUBSET Messages, counted \in SUBSET Messages :
             run' = [run EXCEPT ![w].todo = @ \ {m}, ![w].at = m, ![w].pc = pc,
                                ![w].updated = more, ![w].counted = counted]
    BY <1>0, <1>3, FindStep DEF MediaInv, Types
  <2>2. run[w].pc = "message" /\ UNCHANGED <<messages, media, objects, lost, failed>>
    BY <1>3 DEF Find, tables
  <2>3. /\ run'[w].pc \in {"message", "insert"} /\ run'[w].named = run[w].named
        /\ run'[w].inserted = run[w].inserted
        /\ \A v \in Workers : v # w => run'[v] = run[v]
    BY <1>0, <2>1 DEF Run
  <2>4. Rows(run'[w])
    BY <1>0, <2>2, <2>3 DEF Rows, Room
  <2> QED
    BY <2>2, <2>3, <2>4, BucketKeep
<1>4. CASE Insert(w)
  <2>1. CASE Fail(w)
    BY <1>4, <2>1, BucketFail DEF Insert
  <2>2. ASSUME NEW n \in 0 .. MediaLimit,
               run' = [run EXCEPT ![w].pc = "media", ![w].left = n,
                                  ![w].inserted = @ \cup {run[w].at}],
               UNCHANGED <<tables, request, runs, failed, lost>>
        PROVE  BucketInv'
    <3>1. /\ run'[w].pc = "media" /\ run'[w].left = n /\ run'[w].named = run[w].named
          /\ run'[w].inserted = run[w].inserted \cup {run[w].at}
          /\ \A v \in Workers : v # w => run'[v] = run[v]
      BY <1>0, <2>2 DEF Run
    <3>2. run[w].pc = "insert" /\ UNCHANGED <<messages, media, objects, lost, failed>>
      BY <1>4, <2>2 DEF Insert, tables
    <3>3. run[w].at \notin run[w].inserted
      <4>1. \A m \in run[w].inserted : m > run[w].at /\ m \in Int
        BY <1>0, <3>2, Sizes DEF MediaInv, Descends
      <4> QED
        BY <4>1
    <3>4. PICK c \in Nat : c = Cardinality(run[w].inserted)
      BY <1>1
    <3>5. Cardinality(run'[w].inserted) = c + 1
      BY <1>0, <3>1, <3>3, <3>4, InsertedSmall, FS_AddElement
    <3>6. (c + 1) * MediaLimit = c * MediaLimit + MediaLimit /\ c * MediaLimit \in Nat
      BY Products, Sizes
    <3>7. n \in Nat /\ n <= MediaLimit /\ MediaLimit \in Nat
      BY Sizes
    <3>8. Cardinality(run[w].named) <= c * MediaLimit
      BY <1>0, <1>1, <3>2, <3>4, <3>6 DEF Rows, Room
    <3>9. Cardinality(run[w].named) + n <= (c + 1) * MediaLimit
      BY <1>1, <3>6, <3>7, <3>8
    <3>10. Rows(run'[w])
      BY <1>0, <3>1, <3>5, <3>9 DEF Rows, Room
    <3> QED
      BY <3>1, <3>2, <3>10, BucketKeep
  <2> QED
    BY <1>4, <2>1, <2>2 DEF Insert
<1>5. CASE SkipMedium(w)
  <2>1. /\ run[w].pc = "media" /\ run[w].left > 0 /\ run' = [run EXCEPT ![w].left = @ - 1]
        /\ UNCHANGED <<messages, media, objects, lost, failed>>
    BY <1>5 DEF SkipMedium, tables
  <2>2. /\ run'[w].pc = "media" /\ run'[w].left = run[w].left - 1
        /\ run'[w].named = run[w].named /\ run'[w].inserted = run[w].inserted
        /\ \A v \in Workers : v # w => run'[v] = run[v]
    BY <1>0, <2>1 DEF Run
  <2>3. Cardinality(run[w].named) + run[w].left <= Cardinality(run[w].inserted) * MediaLimit
    BY <1>0, <2>1 DEF Rows, Room
  <2>4. Cardinality(run[w].named) + (run[w].left - 1) <= Cardinality(run[w].inserted) * MediaLimit
    BY <1>0, <1>1, <2>3
  <2>5. Rows(run'[w])
    BY <1>0, <2>2, <2>4 DEF Rows, Room
  <2> QED
    BY <2>1, <2>2, <2>5, BucketKeep
<1>6. CASE NextMessage(w)
  <2>1. /\ run[w].pc = "media" /\ run[w].left = 0 /\ run' = [run EXCEPT ![w].pc = "message"]
        /\ UNCHANGED <<messages, media, objects, lost, failed>>
    BY <1>6 DEF NextMessage, tables
  <2>2. /\ run'[w].pc = "message" /\ run'[w].named = run[w].named
        /\ run'[w].inserted = run[w].inserted
        /\ \A v \in Workers : v # w => run'[v] = run[v]
    BY <1>0, <2>1 DEF Run
  <2>3. Rows(run'[w])
    BY <1>0, <2>1, <2>2 DEF Rows, Room
  <2> QED
    BY <2>1, <2>2, <2>3, BucketKeep
<1>7. CASE Abandon(w)
  BY <1>7, BucketFail DEF Abandon
<1> QED
  BY <1>2, <1>3, <1>4, <1>5, <1>6, <1>7

\* The steps of save_media: a retry keeps the name of the first attempt.
LEMMA BucketSave == ASSUME MediaInv, BucketInv, NEW w \in Workers, SaveMedia(w) PROVE BucketInv'
<1>0. /\ run \in [Workers -> Run] /\ run[w] \in Run /\ Rows(run[w]) /\ run[w].left \in Nat
  BY Sizes DEF MediaInv, Types, BucketInv, Run
<1>1. CASE Upload(w)
  <2>1. /\ run[w].pc = "upload" /\ objects' = objects \cup {run[w].file}
        /\ run' = [run EXCEPT ![w].pc = "media", ![w].file = NoFile, ![w].left = @ - 1]
        /\ UNCHANGED <<messages, media, lost, failed>>
    BY <1>1 DEF Upload, MediumStored, tables
  <2>2. /\ run'[w].pc = "media" /\ run'[w].left = run[w].left - 1
        /\ run'[w].named = run[w].named /\ run'[w].inserted = run[w].inserted
        /\ \A v \in Workers : v # w => run'[v] = run[v]
    BY <1>0, <2>1 DEF Run
  <2>3. Rows(run'[w])
    BY <1>0, <2>1, <2>2 DEF Rows, Room
  <2> QED
    BY <2>1, <2>2, <2>3, BucketKeep
<1>2. CASE UploadRefused(w)
  BY <1>2, BucketFail DEF UploadRefused
<1>3. CASE UploadError(w)
  <2>1. run[w].pc = "upload" /\ objects' \in {objects, objects \cup {run[w].file}}
    BY <1>3 DEF UploadError
  <2>2. CASE Fail(w)
    BY <2>1, <2>2, BucketFail
  <2>3. CASE /\ \E f \in FilesOfRetry(w) :
                   run' = [run EXCEPT ![w].attempt = @ + 1, ![w].file = f]
             /\ UNCHANGED <<tables, request, runs, failed, lost>>
    <3>1. run' = [run EXCEPT ![w].attempt = @ + 1, ![w].file = run[w].file]
      BY <2>3 DEF FilesOfRetry
    <3>2. /\ run'[w].pc = "upload" /\ run'[w].left = run[w].left /\ run'[w].file = run[w].file
          /\ run'[w].named = run[w].named /\ run'[w].inserted = run[w].inserted
          /\ run'[w].at = run[w].at
          /\ \A v \in Workers : v # w => run'[v] = run[v]
      BY <1>0, <2>1, <3>1 DEF Run
    <3>3. Rows(run'[w])
      BY <1>0, <2>1, <3>2 DEF Rows, Room
    <3> QED
      BY <2>1, <2>3, <3>2, <3>3, BucketKeep DEF tables
  <2> QED
    BY <1>3, <2>2, <2>3 DEF UploadError, GiveUp
<1> QED
  BY <1>1, <1>2, <1>3 DEF SaveMedia

\* Every step keeps the rows and the bucket in order.
LEMMA BucketNext == MediaInv /\ MediaInv' /\ BucketInv /\ [Next]_vars => BucketInv'
<1> SUFFICES ASSUME MediaInv, MediaInv', BucketInv, [Next]_vars PROVE BucketInv'
  OBVIOUS
<1>1. CASE UNCHANGED <<messages, media, objects, run, failed, lost>>
  BY <1>1 DEF BucketInv, Rows, Room, FilesOnce, OfMessages, Lacking, Missing, Uploading,
     OrphansBound, Orphans, NamedFiles, AllNamed
<1>2. ASSUME NEW r \in Requests, Serve(r) PROVE BucketInv'
  BY <1>1, <1>2 DEF Serve, GetMedia, Sign, SignRefused, SignError, Answer, tables
<1>3. ASSUME NEW w \in Workers, Collect(w) \/ ProcessMessages(w) \/ SaveMedia(w) PROVE BucketInv'
  BY <1>3, BucketMessages, BucketCreate, BucketCommit, BucketSave DEF ProcessMessages
<1>4. CASE UNCHANGED vars
  BY <1>1, <1>4 DEF vars, tables
<1> QED
  BY <1>2, <1>3, <1>4, BucketLose DEF Next

\* The bucket and the tables are empty at the start.
LEMMA BucketInit == Init => BucketInv
<1> SUFFICES ASSUME Init PROVE BucketInv
  OBVIOUS
<1>1. /\ media = {} /\ objects = {} /\ failed = 0 /\ lost = 0
      /\ \A w \in Workers : run[w] = NoRun
  BY DEF Init
<1>2. AllNamed = {}
  BY <1>1, NothingTyped DEF AllNamed
<1>3. IsFiniteSet({}) /\ Cardinality({}) = 0
  BY FS_EmptySet
<1>4. Rows(NoRun)
  <2>1. MediaLimit \in Nat /\ 0 * MediaLimit = 0
    BY Sizes
  <2> QED
    BY <1>3, <2>1, NothingTyped DEF Rows, Room
<1>5. Missing = {} /\ Orphans = {}
  BY <1>1, <1>2 DEF Missing, Orphans
<1>6. failed * Newest * MediaLimit \in Nat
  BY <1>1, Products, Sizes
<1> QED
  BY <1>1, <1>2, <1>3, <1>4, <1>5, <1>6
     DEF BucketInv, FilesOnce, OfMessages, Lacking, OrphansBound

\* The inductive invariant of the rows and their objects.
LEMMA BucketInvariant == Spec => [](MediaInv /\ BucketInv)
BY BucketInit, BucketNext, MediaInvariant, PTL DEF Spec

\* The medium of a committed row is in the bucket, although any attempt to
\* upload it may have failed unseen: only a deletion by hand parts the two.
THEOREM RowsAlwaysHaveObjects == Spec => []RowsHaveObjects
<1>1. MediaInv /\ BucketInv => RowsHaveObjects
  <2> SUFFICES ASSUME MediaInv, BucketInv
               PROVE  Cardinality({d \in media : d.file \notin objects}) <= lost
    BY DEF RowsHaveObjects
  <2> DEFINE bare == {d \in media : d.file \notin objects}
  <2>1. bare \subseteq Missing
    <3> SUFFICES ASSUME NEW d \in media, NEW w \in Workers, run[w].pc = "upload", run[w].file = d.file
                 PROVE  FALSE
      BY DEF Missing, Uploading, AllNamed
    <3> DEFINE e == [message |-> run[w].at, file |-> run[w].file]
    <3>1. e \in run[w].named /\ e.file = d.file /\ e \in AllNamed /\ d \in AllNamed
      BY DEF BucketInv, Rows, AllNamed
    <3>2. d = e
      BY <3>1 DEF BucketInv, FilesOnce
    <3> QED
      BY <3>1, <3>2, RowsApart
  <2>2. IsFiniteSet(Missing) /\ Cardinality(Missing) <= lost /\ lost \in Nat
    BY DEF BucketInv, Lacking, MediaInv, Types
  <2> HIDE DEF bare
  <2>3. /\ Cardinality(bare) <= Cardinality(Missing)
        /\ Cardinality(bare) \in Nat /\ Cardinality(Missing) \in Nat
    BY <2>1, <2>2, FS_Subset, FS_CardinalityType
  <2>4. Cardinality(bare) <= lost
    BY <2>2, <2>3
  <2> QED
    BY <2>4 DEF bare
<1> QED
  BY <1>1, BucketInvariant, PTL

\* What is left in the bucket without a row is bounded by the runs that
\* failed, however often each upload was tried.
THEOREM OrphansAlwaysOfFailures == Spec => []OrphansOfFailures
<1>1. BucketInv => OrphansOfFailures
  BY DEF BucketInv, OrphansBound, OrphansOfFailures, Orphans, NamedFiles, AllNamed
<1> QED
  BY <1>1, BucketInvariant, PTL
=============================================================================
