SPECIFICATION Spec
CONSTANTS
    MaxCalls = 4
    Sessions = {1, 2, 3, 4}
    NoSession = 0
    OldSessions = {1, 2}
    Apis = {"TelegramDesktop", "TelegramIOS"}
    CallApis = {"TelegramIOS"}
    OpenApis = {"TelegramDesktop"}
    DefaultApi = "TelegramDesktop"
    apiId <- Id
    NobodySweeps = NobodySweeps
    Attempts = 2
    Absent = Absent
    Torn = Torn
    NoKey = NoKey
    FixedKey = FixedKey
    LocalKeys = {1, 2, 3}
    Passcodes = {""}
    KeyFiles = {}
    kMaxAccounts = 2
    NoDesk = NoDesk
    Folders <- OneFolder
    Dcs = {2}
    TestDcs = {1}
CHECK_DEADLOCK FALSE
INVARIANTS LoginOutcome OneNewSession
