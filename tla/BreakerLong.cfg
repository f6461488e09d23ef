\* Calls may outlive a cooldown (the shipped policy has 30 s for both).
SPECIFICATION Spec
CONSTANTS
    Threshold = 2
    Cooldown = 2
    Timeout = 3
    MaxTime = 11
    Call = {c1, c2, c3}
    NoCall = NoCall
INVARIANTS
    TypeOK
    ClosedIffHealthy
    ProbeAccounted
    OnlyStragglersBeside
PROPERTIES
    ProbesSpaced
    ProbeOrStragglerDecides
    HalfOpenResolves
