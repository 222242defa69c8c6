CONSTANTS
    h1 = h1
    h2 = h2
    t1 = t1
    Host <- MCHost
    StrangeHost = StrangeHost
    NoHost = NoHost
    Term = {t1}
    Matching <- MCMatching
    HostStatus <- MCHostStatus
    Alert <- MCAlert
    Tab = {"hardware", "history"}
    FirstTab = "hardware"
    MaxMoves = 2
SPECIFICATION ShellSpec
INVARIANT FrameFitsPage
PROPERTY MovesLeadThere
