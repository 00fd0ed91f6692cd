------------------------- MODULE MCDesktopAccounts -------------------------
(***************************************************************************)
(* The constants of the runs of DesktopAccounts: the folder is empty, or   *)
(* one that Telegram Desktop has written.                                  *)
(***************************************************************************)
EXTENDS DesktopAccounts, ApiProfiles

\* the api_id of a built-in API
Id(api) == Templates[api].api_id

Empty == [p \in Paths(Names) |-> Absent]

\* a folder with the given accounts, index by index: a session and a map
DesktopFolder(accounts, config) ==
    LET name(i) == ComposeDataString("data", i)
        at(p) == {i \in DOMAIN accounts :
                      p \in {MapFile(name(i)), MtpFile(name(i)), ConfigFile(name(i))}}
        content(p, a) ==
            CASE p[1] = "map" -> [key |-> FixedKey, blocks |-> a.blocks]
              [] p[1] = "mtp" -> [key |-> FixedKey, session |-> a.session]
              [] OTHER        -> [key |-> FixedKey, config |-> config]
    IN  [p \in Paths(Names) |->
            IF p = KeyFile("data")
            THEN [ key |-> CreateLocalKey(""), local |-> FixedKey, active |-> 0,
                   indexes |-> [i \in 1 .. Cardinality(DOMAIN accounts) |-> i - 1] ]
            ELSE IF at(p) = {} THEN Absent
            ELSE content(p, accounts[CHOOSE i \in at(p) : TRUE])]

\* Telegram Desktop writes a port for every endpoint
DesktopConfig == Serialize(Config(FALSE), "desktop")

Usual == {"lskUserSettings", "lskDraft", "lskDraftPosition", "lskWebviewTokens"}

\* accounts with and without a session, and maps that cannot be read or
\* written again
DesktopFolders ==
    { Empty,
      DesktopFolder(0 :> [session |-> 2, blocks |-> Usual], DesktopConfig),
      DesktopFolder(0 :> [session |-> NoSession, blocks |-> Usual]
                    @@ 1 :> [session |-> 2, blocks |-> Usual], DesktopConfig),
      DesktopFolder(0 :> [session |-> 2, blocks |-> {"lskWebviewTokens"}], DesktopConfig),
      DesktopFolder(0 :> [session |-> 2, blocks |-> Usual \cup {"lskBackgroundOldOld"}],
                    DesktopConfig) }

\* the folder of one account
OneFolder == { DesktopFolder(0 :> [session |-> 2, blocks |-> Usual], DesktopConfig) }

-----------------------------------------------------------------------------
(* The readers against the writers *)

\* every field comes back from the block it is written as, but the webview
\* tokens; the old stickers become the new ones, and what else is lost is
\* legacy, selfSerialized and the tokens
ASSUME FieldsComeBack ==
    \A f \in DOMAIN WrittenAs \ {"webviewTokens"} : ReadBlocks(BlocksToWrite({f})) = {f}

ASSUME BlocksLost ==
    {b \in Blocks : KeptBlocks({b}) # {b}} =
        {"lskStickersOld", "lskBackgroundOld", "lskBackgroundOldOld", "lskSelfSerialized",
         "lskLegacyImages", "lskLegacyStickerImages", "lskLegacyAudios",
         "lskReportSpamStatusesOld", "lskSavedGifsOld", "lskSavedPeersOld", "lskWebviewTokens"}

ASSUME PeersComeBack ==
    \A shift \in {LegacyShift[t] : t \in DOMAIN LegacyShift}, bare \in {0, 1} :
        LET peer == [shift |-> shift, bare |-> bare]
        IN  PeerFromSerialized(PeerSerialize(peer)) = peer

\* the configuration opentele writes cannot be read, the one of Telegram
\* Desktop can, and its endpoints are those that were written
ASSUME ConfigsComeBack ==
    LET own  == Serialize(Config(FALSE), "opentele")
        read == ReadMtpConfig(DesktopConfig)
    IN  /\ ReadMtpConfig(own) = Config(FALSE) /\ ~ReadsAll(own)
        /\ ReadsAll(DesktopConfig)
        /\ \A d \in Dcs : Len(Endpoints(read, d)) = Len(Endpoints(Config(FALSE), d))

-----------------------------------------------------------------------------
(* APIs and their devices *)

\* an API is the same after a copy, whatever fields it was made with
ASSUME CopyKeeps ==
    \A cls \in DOMAIN Templates, d \in {"", "PC 64bit"}, p \in {"", "tdesktop"}, i \in {0, 17} :
        LET api == APIData(cls, [api_id |-> i, device |-> d, lang_pack |-> p])
        IN  Copy(cls, api) = api

\* no list has a device twice, so that each hash stands for another one
ASSUME DevicesDistinct ==
    \A list \in {WindowsDevices, MacDevices, IOSDevices} :
        Cardinality({list[k] : k \in DOMAIN list}) = Len(list)

\* the hash that chooses the system chooses the device too, and the lists of
\* macOS and Linux have a length divisible by three: one device of three is
\* generated when the system is left open, and one macOS version of three
ASSUME OneOfThree ==
    LET period(n) == IF n % 3 = 0 THEN n ELSE 3 * n
        drawn(s) == {RandomDevice(h, DesktopDevices(s)) :
                        h \in {n \in 0 .. period(Len(DesktopDevices(s))) - 1 :
                                   SystemOf("random", n) = s}}
    IN  /\ Cardinality(drawn("windows")) = Len(WindowsDevices)
        /\ 3 * Cardinality(drawn("macos")) = Len(MacDevices)
        /\ Cardinality({d.version : d \in drawn("macos")}) = 16
        /\ 3 * Cardinality(drawn("linux")) = Len(LinuxDevices)

\* an iPhone gets a version of a major one its generation is listed with; the
\* built-in device of TelegramIOS, an iPhone 13 with 14.8.1, is not among them
ASSUME IPhonesFit ==
    LET devices == {IOSDevices[k] : k \in DOMAIN IOSDevices}
    IN  /\ \A d \in devices : d.version[1] \in Range(AvailableVersions(d.model[1]))
        /\ DeviceInfo(<<13, " Pro Max">>, <<14, 8, 1>>) \notin devices
=============================================================================
