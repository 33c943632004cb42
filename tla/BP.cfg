\* Two calls, one of which may be hasPeers, and two peers; light push reports
\* two peers or nothing.
CONSTANTS
    p1 = p1
    p2 = p2
    t1 = t1
    t2 = t2
    Peers <- TwoPeers
    Bootstrap <- NoBootstrap
    Tasks <- TwoTasks
    Asking <- OneTask
    numPeersToUse = 1
    maxAttempts = 2
    Renewals = 1
    LightPushCounts <- OnlyTwo
SPECIFICATION TickingSpec
INVARIANTS
    TypeOK
    HealthReported
    OverallIsWorst
PROPERTIES
    CallsReturn
    Converges
CHECK_DEADLOCK FALSE
