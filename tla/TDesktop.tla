------------------------------ MODULE TDesktop ------------------------------
(***************************************************************************)
(* A tdata folder and the TDesktop object that loads and saves it          *)
(* (opentele/td/tdesktop.py, account.py).                                  *)
(*                                                                         *)
(* A save writes one file after another, each of them in place, and the    *)
(* process may die between two of them or inside one.  An account is its   *)
(* index in the folder, the session (the authorization key) it holds, the  *)
(* API it is used with, the localKey it writes with, the data name its     *)
(* files are written under, and its map.  Names ending in "Arg" are        *)
(* arguments, "none" for None.                                             *)
(***************************************************************************)
EXTENDS Authorizations, TDataFiles, MtpConfig

CONSTANTS
    LocalKeys,      \* the random localKeys, numbers to tell which is taken next
    Passcodes,      \* passcodes, "" among them
    KeyFiles,       \* values of the argument keyFile, "data" is the default
    kMaxAccounts,   \* 3 in the code
    NoDesk,         \* no TDesktop object: before it is made, after a crash
    Folders         \* the folders to begin with: none, or one of Telegram Desktop

ASSUME DeskAssumption ==
    /\ kMaxAccounts \in Nat \ {0}
    /\ "" \in Passcodes
    /\ LocalKeys \subseteq Nat
    /\ FixedKey \notin LocalKeys

\* the keys of files, and the contents a save writes: none is what stands for
\* a file that is absent or torn
Keys == LocalKeys \cup {FixedKey}
ASSUME ContentAssumption ==
    \A none \in {Absent, Torn} :
        /\ none \notin [ key : {CreateLocalKey(p) : p \in Passcodes}, local : Keys,
                         active : Int, indexes : Seq(Int) ]
        /\ none \notin [ key : Keys, blocks : SUBSET {WrittenAs[f] : f \in DOMAIN WrittenAs} ]
        /\ none \notin [ key : Keys, session : Sessions ]

VARIABLES
    disk,       \* the files of the folder
    desk,       \* the TDesktop object
    saving,     \* the files that a SaveTData has still to write
    performance,\* kPerformanceMode
    saved,      \* history: what the last save that returned True has saved
    incidents   \* history: what else has happened to the folder

deskVars == <<disk, desk, saving, performance, saved, incidents>>

Names == {ComposeDataString(k, i) : k \in KeyFiles \cup {"data"},
                                    i \in 0 .. kMaxAccounts - 1}

NothingSaved == [keyFile |-> "data", passcode |-> "", accounts |-> {}]
NotSaving == [writes |-> <<>>, ends |-> "idle"]

-----------------------------------------------------------------------------
(* Loading *)

\* the map and the authorization of an account can be read: otherwise it is
\* left out, whatever was wrong
AccountLoads(files, name, key) ==
    /\ Readable(files[MapFile(name)], key)
    /\ Readable(files[MtpFile(name)], key)
    /\ files[MtpFile(name)].session # NoSession

\* readMtpConfig is only called outside of the performance mode
LoadedConfig(files, name, key) ==
    IF ~performance /\ Readable(files[ConfigFile(name)], key)
    THEN ReadMtpConfig(files[ConfigFile(name)].config)
    ELSE Config(FALSE)

LoadedAccount(files, keyFile, index, key, api) ==
    LET name == ComposeDataString(keyFile, index)
    IN  [ index |-> index, session |-> files[MtpFile(name)].session, api |-> api,
          local |-> key, name |-> name, ownKeyFile |-> name,
          map |-> ReadBlocks(files[MapFile(name)].blocks),
          config |-> LoadedConfig(files, name, key) ]

\* the elements of a sequence at some of its places, in their order
Picked(s, places) ==
    LET rank(i) == Cardinality({j \in places : j <= i})
    IN  [k \in 1 .. Cardinality(places) |-> s[CHOOSE i \in places : rank(i) = k]]

\* the accounts that __loadFromTData appends, in the order of the key file
LoadedAccounts(files, keyFile, api) ==
    LET info   == files[KeyFile(keyFile)]
        loads(index) == /\ index \in 0 .. kMaxAccounts - 1
                        /\ AccountLoads(files, ComposeDataString(keyFile, index), info.local)
        listed == Picked(info.indexes, {i \in DOMAIN info.indexes : loads(info.indexes[i])})
    IN  [i \in DOMAIN listed |-> LoadedAccount(files, keyFile, listed[i], info.local, api)]

KeyOpens(files, keyFile, passcode) ==
    /\ ReadFile(files[KeyFile(keyFile)]) = "read"
    /\ CreateLocalKey(passcode) = files[KeyFile(keyFile)].key

\* a map that stops the program while it reads the accounts one by one
Stops(files, keyFile, index) ==
    LET map == files[MapFile(ComposeDataString(keyFile, index))]
    IN  /\ index \in 0 .. kMaxAccounts - 1
        /\ Readable(map, files[KeyFile(keyFile)].local)
        /\ BadRead(map.blocks)

StopsAtOne(files, keyFile) ==
    LET indexes == files[KeyFile(keyFile)].indexes
    IN  \E i \in DOMAIN indexes : Stops(files, keyFile, indexes[i])

\* a folder opens when its key file does, no map stops the program, and one
\* account at least is read
Opens(files, keyFile, passcode) ==
    /\ KeyOpens(files, keyFile, passcode)
    /\ ~StopsAtOne(files, keyFile)
    /\ LoadedAccounts(files, keyFile, "any") # <<>>

\* what is kept of an account: its place in the folder, its session, its map
Lasting(a) == [index |-> a.index, session |-> a.session, map |-> BlocksToWrite(a.map)]

\* what a folder gives to whoever opens it
Opened(files, keyFile, passcode) ==
    IF ~KeyOpens(files, keyFile, passcode) THEN {}
    ELSE LET loaded == LoadedAccounts(files, keyFile, "any")
         IN {Lasting(loaded[i]) : i \in DOMAIN loaded}

\* the account that the key file names, the main account of an earlier load
\* when it names none, or the first
MainAccount(accounts, active, main) ==
    LET named == Picked(accounts, {i \in DOMAIN accounts : accounts[i].index = active})
    IN  IF named # <<>> THEN Head(named).session
        ELSE IF main # NoSession THEN main
        ELSE Head(accounts).session

\* __loadFromTData on the object d, whose keyFile and passcode are set: the
\* accounts are cleared first, and a load that fails leaves the rest of the
\* object as far as it had come
LoadFromTData(d) ==
    LET info     == disk[KeyFile(d.keyFile)]
        accounts == LoadedAccounts(disk, d.keyFile, d.api)
        stop     == SelectInSeq(info.indexes, LAMBDA i : Stops(disk, d.keyFile, i))
        inFront  == {j \in DOMAIN accounts :
                        \E i \in 1 .. stop - 1 : info.indexes[i] = accounts[j].index}
        keyRead  == [d EXCEPT !.local = info.local,
                              !.sealed = [key |-> info.key, local |-> info.local]]
    IN  IF ~KeyOpens(disk, d.keyFile, d.passcode)
        THEN [d EXCEPT !.accounts = <<>>]
        ELSE IF stop # 0
        THEN [keyRead EXCEPT !.accounts = Picked(accounts, inFront)]
        ELSE IF accounts = <<>>
        THEN [keyRead EXCEPT !.accounts = <<>>]
        ELSE [keyRead EXCEPT !.accounts = accounts, !.active = info.active, !.loaded = TRUE,
                             !.main = MainAccount(accounts, info.active, d.main)]

\* TDesktop(): nothing is loaded and no key is generated
NewTDesktop(api) ==
    [ accounts |-> <<>>, base |-> FALSE, keyFile |-> "data", passcode |-> "", main |-> NoSession,
      active |-> -1, local |-> NoKey, sealed |-> [key |-> NoKey, local |-> NoKey],
      loaded |-> FALSE, api |-> api ]

-----------------------------------------------------------------------------
(* TDesktop(basePath, ...) and LoadTData *)

DeskInit ==
    /\ disk \in Folders
    /\ performance = TRUE
    /\ desk = NoDesk
    /\ saving = NotSaving
    /\ saved = NothingSaved
    /\ incidents = {}

Idle == saving = NotSaving

\* TDesktop.PerformanceMode, at any time: a save is one call without an await
PerformanceMode ==
    /\ Idle
    /\ performance' = ~performance
    /\ UNCHANGED <<disk, desk, saving, saved, incidents>>

\* TDesktop(basePath, api, passcode, keyFile): a load that raises makes no
\* object
Open(api, passcode, keyFile) ==
    /\ desk = NoDesk /\ Idle
    /\ Opens(disk, keyFile, passcode)
    /\ desk' = LoadFromTData([NewTDesktop(api) EXCEPT !.base = TRUE, !.passcode = passcode,
                                                      !.keyFile = keyFile])
    /\ UNCHANGED <<disk, saving, performance, saved, incidents>>

\* TDesktop() without a folder
Create(api) ==
    /\ desk = NoDesk /\ Idle
    /\ desk' = NewTDesktop(api)
    /\ UNCHANGED <<disk, saving, performance, saved, incidents>>

\* LoadTData(passcode=..., keyFile=...) on an object: the two are replaced
\* before the folder is read, and stay replaced when the load raises
LoadTData(passcode, keyFileArg) ==
    /\ desk # NoDesk /\ Idle /\ desk.base
    /\ LET d == [desk EXCEPT !.passcode = passcode,
                             !.keyFile = IF keyFileArg = "none" THEN @ ELSE keyFileArg]
       IN  /\ desk' = LoadFromTData(d)
           /\ incidents' = incidents \cup IF Opens(disk, d.keyFile, passcode) THEN {}
                                         ELSE {"refusedLoad"}
    /\ UNCHANGED <<disk, saving, performance, saved>>

-----------------------------------------------------------------------------
(* Account.FromTelethon and _addSingleAccount *)

\* the constructor of an account hands its API to the owner, and the owner
\* to all the accounts it has
SetApi(accounts, api) == [i \in DOMAIN accounts |-> [accounts[i] EXCEPT !.api = api]]

\* the account gets the index that is the number of accounts
NewAccount(d, session, api) ==
    LET index == Len(d.accounts)
        name  == ComposeDataString(d.keyFile, index)
    IN  [ index |-> index, session |-> session, api |-> api, local |-> d.local,
          name |-> name, ownKeyFile |-> name, map |-> NewMapData,
          config |-> Config(FALSE) ]

Full(d) == Len(d.accounts) >= kMaxAccounts

Added(d, session, api) ==
    LET accounts == Append(SetApi(d.accounts, api), NewAccount(d, session, api))
    IN  [d EXCEPT !.accounts = accounts, !.api = api,
                  !.main = IF @ = NoSession THEN Head(accounts).session ELSE @]

\* incident: the account shares its index with one that was loaded after a gap
AddIncidents(d) ==
    IF \E i \in DOMAIN d.accounts : d.accounts[i].index = Len(d.accounts)
    THEN {"sameIndex"} ELSE {}

-----------------------------------------------------------------------------
(* SaveTData *)

UsedKeys ==
    LET there(isKey) == {q \in DOMAIN disk : (q[1] = "key") = isKey /\ ReadFile(disk[q]) = "read"}
    IN  {disk[p].local : p \in there(TRUE)} \cup {disk[p].key : p \in there(FALSE)}
            \cup (IF desk = NoDesk THEN {}
                  ELSE {desk.local} \cup {desk.accounts[i].local : i \in DOMAIN desk.accounts})

\* a random key is one that nothing has been encrypted with
FreshKey == LET fresh == LocalKeys \ UsedKeys IN {k \in fresh : \A l \in fresh : k <= l}

\* mutant: the accounts are left with the keys they have in either branch
GenerateOwnKeyOnly(d) ==
    LET key == IF performance /\ d.passcode = "" THEN {FixedKey} ELSE FreshKey
    IN  {[d EXCEPT !.local = k, !.loaded = TRUE,
                   !.sealed = [key |-> CreateLocalKey(d.passcode), local |-> k]] : k \in key}

\* __generateLocalKey: the performance mode takes its constants, and leaves
\* the accounts with the keys they have
GenerateLocalKey(d) ==
    IF performance /\ d.passcode = ""
    THEN {[d EXCEPT !.local = FixedKey, !.loaded = TRUE,
                    !.sealed = [key |-> CreateLocalKey(""), local |-> FixedKey]]}
    ELSE {[d EXCEPT !.local = k, !.loaded = TRUE,
                    !.sealed = [key |-> CreateLocalKey(d.passcode), local |-> k],
                    !.accounts = [i \in DOMAIN @ |-> [@[i] EXCEPT !.local = k]]]
              : k \in FreshKey}

\* the object a save works with: keyFile and passcode replaced, and a new
\* localKey when the passcode has changed or nothing was loaded
Prepared(passcodeArg, keyFileArg) ==
    LET named   == [desk EXCEPT !.keyFile = IF keyFileArg = "none" THEN @ ELSE keyFileArg]
        changed == passcodeArg \notin {"none", named.passcode}
        d == IF changed THEN [named EXCEPT !.passcode = passcodeArg, !.loaded = FALSE]
                        ELSE named
    IN  IF d.loaded THEN {d} ELSE GenerateLocalKey(d)

\* StorageAccount._writeData: a keyFile that is not the account's own gives
\* the name, without the index of the account; else the name of the account
WriteName(a, keyFileArg) ==
    IF keyFileArg # "none" /\ a.ownKeyFile # ComposeDataString(keyFileArg, 0)
    THEN ComposeDataString(keyFileArg, 0) ELSE a.name

\* writeMap raises for an account without a key and for an empty map
Writes(a) == a.local # NoKey /\ Writable(a.map)

AccountWrites(a, keyFileArg) ==
    LET name == WriteName(a, keyFileArg)
        configWrite == << <<ConfigFile(name),
                            [key |-> a.local, config |-> Serialize(a.config, "opentele")]>> >>
    IN  << <<MapFile(name), [key |-> a.local, blocks |-> BlocksToWrite(a.map)]>> >>
        \o (IF performance THEN <<>> ELSE configWrite)
        \o << <<MtpFile(name), [key |-> a.local, session |-> a.session]>> >>

KeyWrite(d) ==
    << <<KeyFile(d.keyFile),
         [ key |-> d.sealed.key, local |-> d.sealed.local, active |-> d.active,
           indexes |-> [i \in DOMAIN d.accounts |-> d.accounts[i].index] ]>> >>

\* __writeAccounts: the accounts in order up to one that cannot be written,
\* then the key file
AllWrites(d, keyFileArg) ==
    LET bad    == {i \in DOMAIN d.accounts : ~Writes(d.accounts[i])}
        before == IF bad = {} THEN d.accounts
                  ELSE SubSeq(d.accounts, 1, (CHOOSE i \in bad : \A j \in bad : i <= j) - 1)
        each   == [i \in DOMAIN before |-> AccountWrites(before[i], keyFileArg)]
    IN  FlattenSeq(each) \o (IF bad = {} THEN KeyWrite(d) ELSE <<>>)

FilesOfAccount == IF performance THEN 2 ELSE 3

\* the own keyFile of the accounts that _writeData reaches, when n files can
\* be opened
Renamed(d, keyFileArg, n) ==
    IF keyFileArg = "none" THEN d
    ELSE [d EXCEPT !.accounts = [i \in DOMAIN @ |->
             IF (\A j \in 1 .. i - 1 : Writes(@[j])) /\ (i - 1) * FilesOfAccount <= n
             THEN [@[i] EXCEPT !.ownKeyFile = ComposeDataString(keyFileArg, 0)] ELSE @[i]]]

Promise(d) ==
    [ keyFile |-> d.keyFile, passcode |-> d.passcode,
      accounts |-> {Lasting(d.accounts[i]) : i \in DOMAIN d.accounts} ]

\* incidents of a save: the return to the empty passcode of the performance
\* mode, which gives the object another key than its accounts, and a keyFile
\* that is given by name
SaveIncidents(d, keyFileArg) ==
    (IF /\ performance /\ d.passcode = "" /\ d.local = FixedKey
        /\ \E i \in DOMAIN d.accounts : d.accounts[i].local # FixedKey
     THEN {"constantKey"} ELSE {})
    \cup (IF keyFileArg # "none" THEN {"keyFile"} ELSE {})

\* the files after the first n cannot be opened, or n is the number of all: the
\* first that cannot be opened, and an account that cannot be written, end the
\* save with a TDataSaveFailed
SaveTData(passcodeArg, keyFileArg) ==
    /\ desk # NoDesk /\ Idle
    /\ \E d \in Prepared(passcodeArg, keyFileArg) :
          LET all == AllWrites(d, keyFileArg) IN
          \E n \in 0 .. Len(all) :
             /\ desk' = [Renamed(d, keyFileArg, n) EXCEPT !.base = TRUE]
             /\ saving' = IF d.accounts = <<>> THEN NotSaving
                          ELSE [ writes |-> SubSeq(all, 1, n),
                                 ends   |-> IF /\ \A i \in DOMAIN d.accounts : Writes(d.accounts[i])
                                               /\ n = Len(all)
                                            THEN "returns" ELSE "raises" ]
             /\ incidents' = incidents \cup SaveIncidents(d, keyFileArg)
    /\ UNCHANGED <<disk, performance, saved>>

\* Storage.WriteFile truncates the file and writes it: a write that falls short
\* leaves it torn, and nobody looks, so that the save may return True
WriteFile ==
    /\ saving.writes # <<>>
    /\ LET w == Head(saving.writes) IN
       \/ /\ disk' = [disk EXCEPT ![w[1]] = w[2]]
          /\ saving' = [saving EXCEPT !.writes = Tail(@)]
          /\ UNCHANGED incidents
       \/ /\ disk' = [disk EXCEPT ![w[1]] = Torn]
          /\ saving' = [saving EXCEPT !.writes = Tail(@),
                                      !.ends = IF @ = "raises" THEN @ ELSE "returns short"]
          /\ incidents' = incidents \cup {"cut"}
    /\ UNCHANGED <<desk, performance, saved>>

\* in the end a save has returned, or it has raised after a part of its files
EndSave ==
    /\ ~Idle /\ saving.writes = <<>>
    /\ saving' = NotSaving
    /\ saved' = IF saving.ends = "raises" THEN saved ELSE Promise(desk)
    /\ incidents' = IF saving.ends = "returns" THEN incidents \ {"cut"}
                    ELSE incidents \cup {"cut"}
    /\ UNCHANGED <<disk, desk, performance>>

\* the process dies; the file it was writing may be left torn
Die ==
    /\ disk' \in {disk} \cup (IF saving.writes = <<>> THEN {}
                              ELSE {[disk EXCEPT ![Head(saving.writes)[1]] = Torn]})
    /\ desk' = NoDesk
    /\ saving' = NotSaving
    /\ incidents' = IF Idle THEN incidents ELSE incidents \cup {"cut"}
    /\ UNCHANGED <<performance, saved>>
-----------------------------------------------------------------------------
(* What a folder promises *)

\* A folder whose last save returned True opens with the passcode and the
\* keyFile of that save, and gives back the sessions and maps it was given -
\* unless a write of it fell short, a later save was cut off, the passcode was
\* set back to the empty one of the performance mode, a keyFile was given by
\* name, two accounts share an index, or a load was refused on the object
\* before (tdesktop.py: SaveTData, __writeAccounts, __generateLocalKey).
Breaking == {"cut", "constantKey", "keyFile", "sameIndex", "refusedLoad"}

SavedOpens ==
    Idle /\ saved # NothingSaved /\ incidents \cap Breaking = {}
        => Opened(disk, saved.keyFile, saved.passcode) = saved.accounts

\* A process that dies in a save which keeps the localKey of the folder, and
\* puts no account in the place of another, takes at most one account with it,
\* unless it dies in the key file, the last one to be written: the accounts are
\* written one by one in place (tdesktop.py: __writeAccounts, storage.py:
\* WriteFile).
Cut == desk' = NoDesk /\ saving' = NotSaving /\ disk' # disk

SamePlaces ==
    \A i \in DOMAIN desk.accounts, a \in saved.accounts :
        a.index = desk.accounts[i].index => a.session = desk.accounts[i].session

Places(accounts) == {<<a.index, a.session>> : a \in accounts}

CutLosesOne ==
    [][ Cut /\ incidents \cap Breaking = {} /\ saved # NothingSaved
        /\ KeyOpens(disk, saved.keyFile, saved.passcode)
        /\ disk[KeyFile(saved.keyFile)].local = desk.local
        /\ SamePlaces
        /\ disk'[KeyFile(saved.keyFile)] # Torn
        => Cardinality(Places(saved.accounts)
               \ Places(Opened(disk', saved.keyFile, saved.passcode))) <= 1 ]_deskVars
=============================================================================
