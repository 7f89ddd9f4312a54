SPECIFICATION FairSpec
CONSTANTS
    Clients = {c1, c2}
    MaxClients = 1
    Ttl <- TtlTicks
    Gc <- GcTicks
    GcSlack = 1
    Grace <- GraceTicks
    MaxActive = 1
INVARIANTS
    AckedLeaseHeld
PROPERTIES
    RetireAbandonsNobody
    OrphanDaemonExits
CHECK_DEADLOCK FALSE
