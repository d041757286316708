SPECIFICATION Spec
CONSTANTS
    Commands = {"hello", "join", "list", "message"}
    MaxCommands = 2
    MaxEvents = 2
    MaxCuts = 1
    Rooms = {}
INVARIANTS
    TypeOK
    ResponseIsReplyWithoutEvents
    EventsShownInOrder
PROPERTIES
    
    LoneEventIsShown
CHECK_DEADLOCK FALSE
