SPECIFICATION FairSpec
CONSTANTS
    s1 = s1
    s2 = s2
    l1 = l1
    Import = {1, 2, 3}
    Share = {s1, s2}
    Local = {l1}
    Jobs <- Mixes
    Route <- RouteOf
    Text <- TextOf
    MaxIds = 2
    MaxFaults = 2
INVARIANT OneMemoryPerRecord
INVARIANT LogsAreTrue
INVARIANT ReportsAreTrue
PROPERTY ImportsSettle
CHECK_DEADLOCK FALSE
