SPECIFICATION Spec
CONSTANTS
    m1 = m1
    m2 = m2
    m3 = m3
    a1 = a1
    a2 = a2
    NoAgent = NoAgent
    Memory = {m1, m2, m3}
    Agent = {a1, a2}
    Sees <- SeeAll
    Limit = 1
    Supersession = FALSE
    Concurrent = FALSE
    MaxRevision = 4
    MaxResets = 1
INVARIANT TypeOK
INVARIANT SeenIsComplete
INVARIANT NoStaleEntries
PROPERTY PositionMoves
