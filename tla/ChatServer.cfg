SPECIFICATION Spec
CONSTANTS
    MaxConnections = 2
    MaxRequests = 2
    MaxAlone = 5
    RoomNames = {1}
    Tails = {2}
    Rpcs = {"hello", "join_room", "message", "list_rooms", "list_users", "create_room"}
    Leaving = TRUE
INVARIANTS
    TypeOK
    SoloClientIsSafe
    DamageNeedsRace
    RepliesInOrder
    RoomsAsAnswered
    JoinSticksUnlessRaced
    
    ServesNoOlder
PROPERTIES
    BroadcastReachesRoom
CHECK_DEADLOCK FALSE
