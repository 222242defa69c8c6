CONSTANTS
    Process = {service, once}
    BootID = {b1}
    SharedDirectory = TRUE
    MaxSequence = 2
SPECIFICATION StoreSpec
INVARIANT NumberIsFresh
CHECK_DEADLOCK FALSE
