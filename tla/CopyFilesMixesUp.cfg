SPECIFICATION Spec
CONSTANTS
    Files = 3
    Blocks = 2
    Older = {2}
INVARIANTS
    AsyncCopies
CHECK_DEADLOCK FALSE
