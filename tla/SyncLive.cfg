SPECIFICATION FairSpec
CONSTANTS
    e1 = e1
    e2 = e2
    a1 = a1
    a2 = a2
    NoEvent = NoEvent
    NoAgent = NoAgent
    NoSlot = NoSlot
    NoSource = NoSource
    Event = {e1, e2}
    Source = {}
    SourceOf <- SourceNone
    Route <- RoutesInvalid
    Agent = {a1}
    AuthorOf <- OneAuthor
    Reusable = {}
    Worker = {w1}
    Slot = {s1}
    BatchMax = 1
    Fault = {"transport", "sidecar_crash", "gateway_crash", "worker_crash", "backend"}
    Persistent = {}
    MaxFaults = 1
    MaxSeq = 2
PROPERTY OfflineWritesArrive
