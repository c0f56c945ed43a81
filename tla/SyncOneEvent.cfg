SPECIFICATION Spec
CONSTANTS
    e1 = e1
    e2 = e2
    a1 = a1
    a2 = a2
    NoEvent = NoEvent
    NoAgent = NoAgent
    NoSlot = NoSlot
    NoSource = NoSource
    Event = {e1}
    Source = {}
    SourceOf <- SourceNone
    Route <- RoutesValid
    Agent = {a1, a2}
    AuthorOf <- OneAuthor
    Reusable = {e1}
    Worker = {w1}
    Slot = {s1, s2}
    BatchMax = 2
    Fault = {"transport", "truncated", "busy", "event_busy", "unbound", "fatal", "epoch", "sidecar_crash", "gateway_crash", "worker_crash", "backend", "lost_answer"}
    Persistent = {}
    MaxFaults = 2
    MaxSeq = 3
INVARIANT TypeOK
INVARIANT ConfirmedMeansApplied
INVARIANT NoSilentLoss
PROPERTY FinalRowsStay
