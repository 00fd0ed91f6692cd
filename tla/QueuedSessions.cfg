SPECIFICATION FairSpec
CONSTANTS
    Accounts = {a1}
    Workers = {w1, w2, w3}
    MaxWait = 2
    Margin = 1
    MaxFaults = 2
    NoAccount = NoAccount
CHECK_DEADLOCK FALSE
INVARIANTS SessionKept CopiesBounded OneUser
PROPERTIES LeasesUntilFault SessionComesBack
