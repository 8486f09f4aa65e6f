CONSTANTS
    Users = {u1}
    Codes = {c1, c2, c3, c4}
    Tasks = {t1, t2}
    RateLimit = 2
    MaxTries = 3
    Life = 1
    NoOne = NoOne
SPECIFICATION FairAccountsSpec
INVARIANTS AccountsTypeOK CodesBounded NewestCodeUsable CodeUses
PROPERTIES SessionsDie
CHECK_DEADLOCK FALSE
