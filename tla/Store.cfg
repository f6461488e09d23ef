\* Another process may hold the lock for longer than the busy timeout.
SPECIFICATION StoreSpec
CONSTANTS
    LockOutlasts = TRUE
    MaxCommits = 5
INVARIANTS
    StoreTypeOK
    CurrentUntilLocked
    OutageNeedsLock
    LockLeftByRefusal
PROPERTIES
    WriteEnds
