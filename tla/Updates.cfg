SPECIFICATION HistSpec
CONSTANTS
    b = b
    c = c
    w = w
    Sessions = {s1, s2}
    Daemon = d
    Procs = {s1, s2, d}
    Versions = {1, 2}
    Ids <- MCIds
    Static <- MCStatic
    Dead <- MCDead
    Suffixed <- MCSuffixed
    Listings <- MCListings
    MaxExpiries = 1
    MaxRefreshes = 1
    MaxChecks = 2
SYMMETRY Symmetry
INVARIANTS
    CatalogSound
    DaemonCurrent
PROPERTIES
    ListingShown
CHECK_DEADLOCK FALSE
