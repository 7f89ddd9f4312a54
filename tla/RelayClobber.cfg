SPECIFICATION HistSpec
CONSTANTS
    Procs = {p1, p2}
    Relays = {r1, r2, r3}
    Saved = {r1, r2}
    NoRelay = NoRelay
    Damaged = Damaged
    Junk = Junk
    Missing = Missing
    MaxEdits = 2
    MaxFaults = 0
INVARIANTS
    EditsNotClobbered
CHECK_DEADLOCK FALSE
