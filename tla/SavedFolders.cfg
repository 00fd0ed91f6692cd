SPECIFICATION Spec
CONSTANTS
    MaxCalls = 4
    Sessions = {1, 2}
    NoSession = 0
    OldSessions = {1, 2}
    Apis = {"TelegramDesktop", "TelegramIOS"}
    CallApis = {"TelegramIOS"}
    OpenApis = {"TelegramDesktop"}
    DefaultApi = "TelegramDesktop"
    apiId <- Id
    NobodySweeps = NobodySweeps
    Attempts = 1
    Absent = Absent
    Torn = Torn
    NoKey = NoKey
    FixedKey = FixedKey
    LocalKeys = {1, 2, 3}
    Passcodes = {"", "p"}
    KeyFiles = {"other"}
    kMaxAccounts = 2
    NoDesk = NoDesk
    Folders <- DesktopFolders
    Dcs = {2}
    TestDcs = {1}
CHECK_DEADLOCK FALSE
INVARIANTS SavedOpens
PROPERTIES CutLosesOne
