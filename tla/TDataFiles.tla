----------------------------- MODULE TDataFiles -----------------------------
(***************************************************************************)
(* The files of a tdata folder as opentele reads and writes them           *)
(* (opentele/td/storage.py and the readers and writers of account.py).     *)
(*                                                                         *)
(* A file is absent, torn (cut off while it was written in place, so that  *)
(* its magic or its checksum fails), or its content.  A content that is    *)
(* encrypted carries the key it was encrypted with: decrypting it with     *)
(* another key fails its hash check.  Bytes, salts, hashes and paddings    *)
(* are abstracted away; which file is written under which name, with which *)
(* key, and which parts of it survive a reading and a writing are kept.    *)
(***************************************************************************)
EXTENDS Integers, FiniteSets, Sequences

CONSTANTS
    Absent, Torn,   \* a file that is not there, or is not whole
    NoKey,          \* the localKey of an account that has none
    FixedKey        \* the constant localKey of the performance mode

-----------------------------------------------------------------------------
(* Names of files *)

\* ComposeDataString: the data of the first account carries the bare name
ComposeDataString(dataName, index) == <<dataName, index>>

\* ToFilePart(ComputeDataNameKey(name)): names differ where data strings do
KeyFile(keyFile) == <<"key", keyFile>>
\* mutant: one map file for all accounts
SharedMapFile(dataName) == <<"map", dataName[1]>>
MapFile(dataName) == <<"map", dataName>>
ConfigFile(dataName) == <<"config", dataName>>
MtpFile(dataName) == <<"mtp", dataName>>

Paths(names) ==
    {KeyFile(n[1]) : n \in names}
        \cup UNION {{MapFile(n), ConfigFile(n), MtpFile(n)} : n \in names}

-----------------------------------------------------------------------------
(* Storage.ReadFile, ReadEncryptedFile and DecryptLocal *)

\* of the three suffixes only "s" is ever written by opentele
ReadFile(file) == IF file \in {Absent, Torn} THEN "TFileNotFound" ELSE "read"

DecryptLocal(encrypted, key) == encrypted.key = key

Readable(file, key) == ReadFile(file) = "read" /\ DecryptLocal(file, key)

\* CreateLocalKey(salt, passcode): the same salt and passcode give one key
CreateLocalKey(passcode) == <<"passcodeKey", passcode>>

-----------------------------------------------------------------------------
(* The map of an account: blocks in the file, fields in memory.            *)

\* the field a block is read into; other blocks are read past: legacy and
\* unused keys, selfSerialized, and the webview tokens, which end the reading
ReadAs ==
    [ lskDraft                 |-> "drafts",
      lskDraftPosition         |-> "draftCursors",
      lskLocations             |-> "locations",
      lskTrustedBots           |-> "trustedBots",
      lskRecentStickersOld     |-> "recentStickersOld",
      lskBackgroundOld         |-> "legacyBackground",
      lskUserSettings          |-> "settings",
      lskRecentHashtagsAndBots |-> "hashtagsAndBots",
      lskStickersOld           |-> "stickers",
      lskStickersKeys          |-> "stickers",
      lskFavedStickers         |-> "favedStickers",
      lskSavedGifs             |-> "savedGifs",
      lskExportSettings        |-> "exportSettings",
      lskMasksKeys             |-> "masks",
      lskCustomEmojiKeys       |-> "customEmoji",
      lskSearchSuggestions     |-> "searchSuggestions" ]

\* the block a field is written as; the legacy background is not written
WrittenAs ==
    [ drafts            |-> "lskDraft",
      draftCursors      |-> "lskDraftPosition",
      locations         |-> "lskLocations",
      trustedBots       |-> "lskTrustedBots",
      recentStickersOld |-> "lskRecentStickersOld",
      stickers          |-> "lskStickersKeys",
      favedStickers     |-> "lskFavedStickers",
      savedGifs         |-> "lskSavedGifs",
      settings          |-> "lskUserSettings",
      hashtagsAndBots   |-> "lskRecentHashtagsAndBots",
      exportSettings    |-> "lskExportSettings",
      masks             |-> "lskMasksKeys",
      customEmoji       |-> "lskCustomEmojiKeys",
      searchSuggestions |-> "lskSearchSuggestions",
      webviewTokens     |-> "lskWebviewTokens" ]

\* lskType: every block of a map file
Blocks ==
    DOMAIN ReadAs \cup
        {"lskSelfSerialized", "lskLegacyImages", "lskLegacyStickerImages",
         "lskLegacyAudios", "lskReportSpamStatusesOld", "lskBackgroundOldOld",
         "lskSavedGifsOld", "lskSavedPeersOld", "lskWebviewTokens"}

\* MapData(): a new account has a settings key, "MUST HAVE OR CAN'T WRITE
\* MAPDATA"
NewMapData == {"settings"}

ReadBlocks(blocks) == {ReadAs[b] : b \in blocks \cap DOMAIN ReadAs}

\* the read of this block shifts a stream into an integer: a TypeError, which
\* no handler of opentele catches
BadRead(blocks) == "lskBackgroundOldOld" \in blocks

BlocksToWrite(fields) == {WrittenAs[f] : f \in fields \cap DOMAIN WrittenAs}

\* a map without a block makes a descriptor without a stream, and the cipher
\* refuses its four bytes: a ValueError
Writable(fields) == BlocksToWrite(fields) # {}

\* what is left of a map after it has been read and written
KeptBlocks(blocks) == BlocksToWrite(ReadBlocks(blocks))

-----------------------------------------------------------------------------
(* The peers of drafts: PeerId.Serialize sets a reserved bit, and            *)
(* PeerId.FromSerialized reads ids with and without it.                     *)

\* the type bits of a legacy id and the shift of the id it stands for
LegacyShift == [user |-> 0, chat |-> 1, channel |-> 2, fake |-> 127]

PeerSerialize(peer) == [legacy |-> FALSE, type |-> peer.shift, bare |-> peer.bare]

PeerFromSerialized(s) ==
    CASE ~s.legacy                    -> [shift |-> s.type, bare |-> s.bare]
      [] s.legacy /\ s.type \in DOMAIN LegacyShift
                                      -> [shift |-> LegacyShift[s.type], bare |-> s.bare]
      [] OTHER                        -> [shift |-> 0, bare |-> 0]
=============================================================================
