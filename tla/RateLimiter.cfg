\* Three keys and a sweep that starts at the third key.
SPECIFICATION Spec
CONSTANTS
    MaxRequests = 2
    Window = 2
    Key = {k1, k2, k3}
    SweepThreshold = 1
    MaxTime = 4
SYMMETRY KeySymmetry
INVARIANTS
    TypeOK
    QuotaPerWindow
    PromiseKept
    OnlyLiveKeysAboveThreshold
PROPERTIES
    ImplementsQuota
