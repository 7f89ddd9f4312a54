SPECIFICATION HistSpec
CONSTANTS
    Slots = {s1, s2}
    NoSlot = NoSlot
    Turns = {t1}
    MaxLogins = 2
    MaxReset = 1
SYMMETRY Symmetry
INVARIANTS
    MarksHaveLogin
    BodiesReleased
    RollComplete
    ParkJustified
PROPERTIES
    LogoutHolds
CHECK_DEADLOCK FALSE
