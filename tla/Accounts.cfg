\* One user, a right and a dummy key, one client, one restart.
SPECIFICATION Spec
CONSTANTS
    s1 = s1
    s2 = s2
    MaxRequests = 2
    Window = 2
    User = {alice}
    Key = {k1, dummy}
    DummyKey = dummy
    Client = {c1}
    Session = {s1, s2}
    None = None
    Lifetime = 1
    MaxTime = 3
    MaxBoots = 1
SYMMETRY AccountsSymmetry
INVARIANTS
    TypeOK
    GuessesBounded
    PrintedKeysWork
