SPECIFICATION Spec
CONSTANTS
    MaxMessages = 3
    MaxWrites = 4
INVARIANTS TypeOK GrpcRulesKept SafeToDestroy
PROPERTIES KeepsPromise WorkerGoesOn FailureNoticed
CHECK_DEADLOCK FALSE
