SPECIFICATION OrderSpec
CONSTANTS
    r1 = r1
    r2 = r2
    r3 = r3
    r4 = r4
    Relays <- ThreeRelays
    Pool <- ThreePool
    Vercel = {r3}
    Statuses <- OneKind
    Base <- OneTick
    Parked = "network"
    MaxLatency = 3
    Floor = 1
    Margin = 1
CONSTRAINT FewFailures
INVARIANTS
    CandidatesAdmissible
    StickyUntilBeaten
CHECK_DEADLOCK FALSE
