\* One request, two managers, two tools with two versions each.
SPECIFICATION Spec
CONSTANTS
    a1 = a1
    a2 = a2
    x = x
    y = y
    v1 = v1
    v2 = v2
    Call = {c1}
    Approval = {a1, a2}
    Tool = {x, y}
    Definition = {v1, v2}
    Unpinned = Unpinned
    None = None
SYMMETRY AuditSymmetry
INVARIANTS
    TypeOK
    AgentAndLogAgree
    LogTellsExecution
    PinsExplained
