SPECIFICATION Spec
INVARIANTS
    TypeOK
    FaultsExplained
    CommandsOneByOne
PROPERTIES
    DialogShown
    EndsAfterQuit
CHECK_DEADLOCK FALSE
