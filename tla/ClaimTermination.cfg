SPECIFICATION FairSpec
CONSTANTS
    r0 = r0
    r1 = r1
    r2 = r2
    r3 = r3
    Node = {r0, r1}
    F = 0
    P = 0
    NodesOrdered <- Order2
    Faulty = {}
    Requests <- OneRequest
    FaultyMessages <- Nothing
    Reaches <- RepairTraffic
    Timers <- ViewAndChkptTimers
    MaxLog = 1
    MaxRound = 1
    MaxView = 1
PROPERTY RepairCompletes
CHECK_DEADLOCK FALSE
