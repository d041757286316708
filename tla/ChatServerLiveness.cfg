SPECIFICATION Spec
CONSTANTS
    MaxConnections = 2
    MaxRequests = 2
    MaxAlone = 2
    RoomNames = {1}
    Tails = {}
    Rpcs = {"message"}
    Leaving = TRUE
PROPERTIES
    NewestIsServed
CHECK_DEADLOCK FALSE
