SPECIFICATION BoundedSpec
CONSTANTS
    r0 = r0
    r1 = r1
    r2 = r2
    r3 = r3
    Node = {r0, r1, r2, r3}
    F = 1
    P = 0
    NodesOrdered <- FaultyLeads
    Faulty = {r3}
    Requests <- Nothing
    FaultyMessages <- ForgedDone
    Reaches <- RepairTraffic
    Timers <- Nothing
    MaxLog = 0
    MaxRound = 1
    MaxView = 0
INVARIANT CatchupBacked
CHECK_DEADLOCK FALSE
