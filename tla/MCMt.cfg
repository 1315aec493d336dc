SPECIFICATION Spec
CONSTANTS
    NCores = 2
    Jobs <- MCJobs
INVARIANTS
    TypeOK
    Verified
    RaceFree
    SharesApart
    Outlined
PROPERTIES
    Terminates
    KernelBarrierSpec
    DriverBarrierSpec
CHECK_DEADLOCK FALSE
