\* Timeout = Cooldown, as in config/policies.yaml.
SPECIFICATION Spec
CONSTANTS
    Threshold = 2
    Cooldown = 2
    Timeout = 2
    MaxTime = 11
    Call = {c1, c2, c3}
    NoCall = NoCall
PROPERTIES
    OpenOnlyHalfOpens
