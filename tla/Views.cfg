SPECIFICATION BoundedSpec
CONSTANTS
    r0 = r0
    r1 = r1
    r2 = r2
    r3 = r3
    Node = {r0, r1, r2, r3}
    F = 1
    P = 0
    NodesOrdered <- Order4
    Faulty = {r3}
    Requests <- Nothing
    FaultyMessages <- VotesInBothViews
    Reaches <- VotesToLeader
    Timers <- ViewTimer
    MaxLog = 0
    MaxRound = 1
    MaxView = 1
INVARIANT RoundBacked
PROPERTY CommitLocked
CHECK_DEADLOCK FALSE
