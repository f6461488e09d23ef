\* One write meets a lock that outlasts the busy timeout.
SPECIFICATION StoreSpec
CONSTANTS
    LockOutlasts = TRUE
    MaxCommits = 5
INVARIANTS
    FailsByItself
