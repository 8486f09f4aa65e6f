CONSTANTS
    Users = {u1}
    Notes = {n1, n2}
    Tasks = {t1, t2}
    MaxChannels = 2
    MaxAttempts = 2
    Batch = 2
    MaxLost = 1
    NoOne = NoOne
SPECIFICATION FairNotificationsSpec
INVARIANTS AttemptsBounded RowsAccounted
PROPERTIES ReadStays PendingSettles
CHECK_DEADLOCK FALSE
