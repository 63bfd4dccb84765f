SPECIFICATION MCSpec
CONSTANTS
    c1 = c1
    c2 = c2
    Clients <- BothClients
    Ops = {"print", "store", "connect", "status", "stop", "pause", "resume", "command",
           "fault", "reset", "slow join"}
    MaxRuns = 2
    MaxNumber = 3
INVARIANTS
    OneRun AloneIsToldTheTruth
PROPERTIES
    AloneReachesItsPrint PlainImplementsContract StopEndsThePrint
