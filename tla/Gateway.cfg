\* An analyst whose session expires at 2, and an admin who may be demoted.
SPECIFICATION Spec
CONSTANTS
    news = news
    analyst = analyst
    admin = admin
    alice = alice
    root = root
    sa = sa
    sr = sr
    good = good
    better = better
    evil = evil
    Tool <- OneTool
    Role <- Roles
    UnknownRole = UnknownRole
    AllowedTools <- MayCallNews
    MaxRisk <- UpToHigh
    Managers = {admin}
    WordLists <- NewsIsSearch
    Overrides <- NewsIsLow
    NotOverridden = NotOverridden
    Threshold = 1
    Cooldown = 1
    MaxRequests = 1
    Window = 3
    Task = {t1, t2}
    None = None
    User <- Users
    Session <- Sessions
    SessionUser <- Owners
    Expiry <- AliceExpires
    Definition = {good}
    Poisoned = {}
    Unpinned = Unpinned
    Offers <- GoodOrMissing
    Timeout = 1
    InitialRole <- Roster
    Reassigned = {analyst}
    MaxTime = 4
INVARIANTS
    TypeOK
    AuthorityDrains
PROPERTIES
    BreakersObeyed
    Responds
