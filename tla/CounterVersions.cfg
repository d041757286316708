SPECIFICATION VersionsSpec
CONSTANTS
    JOBS = 3
    WORK_PER_JOB = 2
    WORKERS = 2
INVARIANTS
    TypesOK
    MutualExclusion
    NoUseAfterFree
PROPERTIES
    ImplementSerial
    VersionsTerminate
CHECK_DEADLOCK FALSE
