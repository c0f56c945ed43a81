SPECIFICATION FairSpec
CONSTANTS
    m1 = m1
    m2 = m2
    m3 = m3
    a1 = a1
    a2 = a2
    NoAgent = NoAgent
    Memory = {m1, m2}
    Agent = {a1}
    Sees <- SeeAll
    Limit = 4
    Supersession = TRUE
    Concurrent = FALSE
    MaxRevision = 4
    MaxResets = 1
PROPERTY CacheConverges
