SPECIFICATION Spec
CONSTANTS
    Blocks = 3
    Records = 3
    Sizes = 2
INVARIANTS
    TypeOK
    OneList

    
CHECK_DEADLOCK FALSE
