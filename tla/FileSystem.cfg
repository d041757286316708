SPECIFICATION Spec
CONSTANTS
    Workers = 2
    MaxWork = 2
    Page = 2
    Buffer = 3
    Fits = 4
INVARIANTS
    TypeOK
    TreeUnlessRaced
    FaultsExplained
    ListingExact
CHECK_DEADLOCK FALSE
