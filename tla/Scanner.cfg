\* A budget and a depth that both bite, alone and together.
SPECIFICATION Spec
CONSTANTS
    Values <- TooDeep
    MaxChars = 5
    MaxDepth = 2
INVARIANTS
    BlockedExactly
    FindingsExact
    WorkBounded
