SPECIFICATION Spec
CONSTANTS
    Commands = {"join", "list"}
    MaxCommands = 2
    MaxEvents = 1
    MaxCuts = 1
    Rooms = {1}
INVARIANTS
    ResponseIsReply
CHECK_DEADLOCK FALSE
