CONSTANTS
    timer = timer
    operator = operator
    other = other
    A = A
    B = B
    Worker <- MCWorker
    Replica = {A, B}
    ReplicaOf <- MCReplicaOf
    Ttl = 1
    Retention = 1
    MaxCrashes = 1
    MaxTime = 3
SPECIFICATION Spec
PROPERTY OnlyHolderPublishes
CHECK_DEADLOCK FALSE
