SPECIFICATION BoundedSpec
CONSTANTS
    r0 = r0
    r1 = r1
    r2 = r2
    r3 = r3
    Node = {r0, r1, r2, r3}
    F = 1
    P = 0
    NodesOrdered <- FaultyLeads
    Faulty = {r3}
    Requests <- OneRequest
    FaultyMessages <- EmptyHistory
    Reaches <- WithoutR2
    Timers <- ChkptTimer
    MaxLog = 1
    MaxRound = 2
    MaxView = 0
INVARIANTS
    TimeoutProofGenuine
    SizeMatchesStore
CHECK_DEADLOCK FALSE
