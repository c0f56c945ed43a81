SPECIFICATION WorkerSpec
CONSTANTS
    e1 = e1
    e2 = e2
    e3 = e3
    p1 = p1
    NoEvent = NoEvent
    NoSource = NoSource
    Event = {e1, e2, e3}
    Source = {p1}
    SourceOf <- TwoShareSource
    Route <- RoutesMixed
    Worker = {w1, w2}
INVARIANT ExactlyOnceEffect
INVARIANT DuplicateHasOriginal
PROPERTY ClosedEventsStay
CHECK_DEADLOCK FALSE
