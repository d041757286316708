SPECIFICATION Spec
CONSTANTS
    Pids = {1, 2, 3}
    MaxLines = 3
    MaxKeys = 2
    MaxConts = 1
INVARIANTS
    TypeOK
    OnlySuspendedLeftBehind
PROPERTIES
    StrangersSafeWhileWaiting
    PromptComesBack
CHECK_DEADLOCK FALSE
