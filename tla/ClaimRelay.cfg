SPECIFICATION FairSpec
CONSTANTS
    r0 = r0
    r1 = r1
    r2 = r2
    r3 = r3
    Node = {r0, r1}
    F = 0
    P = 0
    NodesOrdered <- Order2
    Faulty = {}
    Requests <- OneRequest
    FaultyMessages <- Nothing
    Reaches <- R1CatchesUp
    Timers <- ChkptTimer
    MaxLog = 2
    MaxRound = 2
    MaxView = 0
PROPERTY RepairSpreads
CHECK_DEADLOCK FALSE
