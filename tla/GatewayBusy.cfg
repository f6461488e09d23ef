\* Three handlers share a window as long as two timeouts; the server swaps two
\* definitions that may be pinned and one that may not.
SPECIFICATION Spec
CONSTANTS
    news = news
    analyst = analyst
    admin = admin
    alice = alice
    root = root
    sa = sa
    sr = sr
    good = good
    better = better
    evil = evil
    Tool <- OneTool
    Role <- Roles
    UnknownRole = UnknownRole
    AllowedTools <- MayCallNews
    MaxRisk <- UpToHigh
    Managers = {admin}
    WordLists <- NewsIsSearch
    Overrides <- NewsIsLow
    NotOverridden = NotOverridden
    Threshold = 9
    Cooldown = 1
    MaxRequests = 1
    Window = 2
    Task = {t1, t2, t3}
    None = None
    User <- Users
    Session <- Sessions
    SessionUser <- Owners
    Expiry <- NoneExpires
    Definition = {good, better, evil}
    Poisoned = {evil}
    Unpinned = Unpinned
    Offers <- SwapOffers
    Timeout = 1
    InitialRole <- Roster
    Reassigned = {}
    MaxTime = 5
INVARIANTS
    PoisonNeverTrusted
    OldPinsDrain
    InFlightBounded
SYMMETRY Handlers
