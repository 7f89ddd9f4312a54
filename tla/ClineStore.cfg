SPECIFICATION HistSpec
CONSTANTS
    Procs = {p1, p2}
    MaxSlot = 2
    Named = {1}
    Accounts = {x}
    NoAccount = NoAccount
    MaxOps = 2
    MaxFaults = 2
SYMMETRY Symmetry
INVARIANTS
    PoolAsEdited
    LogoutForgotten
PROPERTIES
    SavedMeansLanded
CHECK_DEADLOCK FALSE
