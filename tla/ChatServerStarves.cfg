SPECIFICATION Spec
CONSTANTS
    MaxConnections = 2
    MaxRequests = 2
    MaxAlone = 2
    RoomNames = {1}
    Tails = {}
    Rpcs = {"message"}
    Leaving = FALSE
PROPERTIES
    EveryoneIsServed
CHECK_DEADLOCK FALSE
