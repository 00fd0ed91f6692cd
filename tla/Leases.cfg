SPECIFICATION FairSpec
CONSTANTS
    Workers = {w1, w2}
    Accounts = {a1}
    Requests = {r1, r2}
    LockTime = 2
    SessionTime = 1
    Waits = {2}
    Margin = 1
    NoAccount = NoAccount
    NoWorker = NoWorker
    Lasts <- SlowLoop
INVARIANTS OneCreator PoolInv OneHolder SessionInsideLock
PROPERTIES LockSeen KeepsLeases 
