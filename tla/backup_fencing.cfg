CONSTANTS
    timer = timer
    operator = operator
    other = other
    A = A
    B = B
    Worker <- MCWorker
    Replica = {A, B}
    ReplicaOf <- MCReplicaOf
    Ttl = 0
    Retention = 1
    MaxCrashes = 1
    MaxTime = 3
SYMMETRY MCSymmetry
SPECIFICATION Spec
INVARIANTS LostLeaseNeverPublishes TokenNamesOneReplica ErrorsCleanUp NamesAreExclusive
PROPERTY LastBackupSurvives
CHECK_DEADLOCK FALSE
