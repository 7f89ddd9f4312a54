SPECIFICATION LifeFairSpec
CONSTANTS
    Sessions = {1, 2}
    Version <- MCVersion
    Sidecar = {}
    MaxPort = 1
    Breaker = 2
    MaxEvents = 1
PROPERTIES LoneSessionSettles StrangerSpared
CHECK_DEADLOCK FALSE
