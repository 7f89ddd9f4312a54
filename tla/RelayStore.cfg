SPECIFICATION FairHistSpec
CONSTANTS
    Procs = {p1, p2}
    Relays = {r1, r2}
    Saved = {r1}
    NoRelay = NoRelay
    Damaged = Damaged
    Junk = Junk
    Missing = Missing
    MaxEdits = 2
    MaxFaults = 1
INVARIANTS
    LockExclusive
    PoolRecoverable
    LockedAddsKept
PROPERTIES
    EditsFinish
CHECK_DEADLOCK FALSE
