CONSTANTS
    Process = {service}
    BootID = {b1, b2, b3}
    SharedDirectory = FALSE
    MaxSequence = 3
SPECIFICATION StoreSpec
INVARIANTS IssuesInOrder StopKeepsFileReadable
CHECK_DEADLOCK FALSE
