SPECIFICATION Spec
CONSTANTS
    r0 = r0
    Node = {r0}
    F = 0
    P = 0
    NodesOrdered <- Order
    Faulty = {}
    MaxLog = 3
    Sizes <- AllSizes
INVARIANTS
    GapFree
    SizeCovers
PROPERTY ImplementsKvLog
