SPECIFICATION HistSpec
CONSTANTS
    Relays = {r1}
    Statuses <- Failures
    Base <- BaseTicks
    Parked = "402"
    MaxLatency = 5
    Floor = 3
INVARIANTS
    CooldownJustified
    AverageSound
PROPERTIES
    RepeatNeverShortens
CHECK_DEADLOCK FALSE
