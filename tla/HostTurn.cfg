SPECIFICATION Spec
CONSTANTS
    Settings <- AllSettings
    Items = {i1, i2}
    Unset = Unset
    EnterAfter = 2
    Relays = {r1, r2}
    Direct = Direct
    Unknown = Unknown
    Deltas <- SomeDeltas
    CallIds = {c1, c2, c3}
    NoId = NoId
    i1 = i1
    i2 = i2
    c1 = c1
    c2 = c2
    c3 = c3
    Pieces = {"g", "h", "x"}
    Indices = {0, 1}
    Injected <- Placeholders
    Repairable <- Repairables
INVARIANTS
    TerminalOwed
    StreamedAsAggregated
    AuditAgrees
    IssuerServed
    HistoryHealed
    GateSurvives
PROPERTIES
    ToolsOnce
    TurnEnds
CHECK_DEADLOCK FALSE
