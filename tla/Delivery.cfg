SPECIFICATION Spec
CONSTANTS
    r0 = r0
    r1 = r1
    c0 = c0
    c1 = c1
    Node = {r0, r1}
    F = 0
    P = 0
    NodesOrdered <- Order
    Faulty = {}
    Client = {c0}
    Ops <- OneOp
    Subscriber = {r0, r1}
    Slots = 1
    MaxRequests = 2
    Task <- HostTasks
    InboxCapacity = 1
    FaultyMessages <- Nothing
    Reaches <- DriverOfR1
    Timers <- SyncTimer
PROPERTIES
    SubmitReturns
    RequestsHandled
CHECK_DEADLOCK FALSE
