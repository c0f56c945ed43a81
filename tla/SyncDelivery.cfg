SPECIFICATION Spec
CONSTANTS
    e1 = e1
    e2 = e2
    a1 = a1
    a2 = a2
    NoEvent = NoEvent
    NoAgent = NoAgent
    NoSlot = NoSlot
    NoSource = NoSource
    Event = {e1, e2}
    Source = {}
    SourceOf <- SourceNone
    Route <- RoutesUnsafe
    Agent = {a1, a2}
    AuthorOf <- TwoAuthors
    Reusable = {}
    Worker = {w1}
    Slot = {s1, s2}
    BatchMax = 2
    Fault = {"transport", "unbound", "fatal", "epoch", "sidecar_crash", "gateway_crash"}
    Persistent = {}
    MaxFaults = 2
    MaxSeq = 2
SYMMETRY SymmetricSlots
INVARIANT ValidNotRejected
INVARIANT DeadLetterAgrees
INVARIANT DeviceSeqUnique
INVARIANT ContiguousPrefix
PROPERTY DeliveryPromise
