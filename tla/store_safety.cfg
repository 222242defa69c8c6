CONSTANTS
    Request = {a, b}
    k1 = k1
    k2 = k2
    cpu = cpu
    memory = memory
    container = container
    clock = clock
    Key <- MCKey
    Row = {cpu, memory, container, clock}
    ContainerRow = {container}
    ClockRow = clock
    ObservedAt <- MCObservedAt
    Sample <- MCSample
    Retention = 1
    FutureSkew = 1
    StaleOffset = 1
    MaxTime = 3
SPECIFICATION FairSpec
INVARIANTS AcknowledgedIsHeld OneTablePerKey LatestIsBestEvidence NoFutureLatest
PROPERTIES LedgerSpec EveryRequestEnds
