SPECIFICATION Spec
CONSTANTS
    Files = 3
    Blocks = 2
    Older = {2}
INVARIANTS
    TypeOK
    RequestsAreOver
    SyncCopies
PROPERTIES
    Returns
CHECK_DEADLOCK FALSE
