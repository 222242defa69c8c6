CONSTANTS
    timer = timer
    operator = operator
    other = other
    A = A
    B = B
    Worker <- MCWorker
    Replica = {A, B}
    ReplicaOf <- MCReplicaOf
    Ttl = 1
    Retention = 1
    MaxCrashes = 1
    MaxTime = 2
SPECIFICATION Spec
INVARIANT PublishedIsWhole
CHECK_DEADLOCK FALSE
