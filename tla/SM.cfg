\* Two calls and two scheduled creations over two connections, one of which
\* may replace the other, and streams the peer opens.
CONSTANTS
    g1 = g1
    g2 = g2
    r1 = r1
    r2 = r2
    None = None
    Gets <- TwoGets
    Promises <- TwoPromises
    MaxConnections = 2
    MaxStreams = 2
    Served = TRUE
SPECIFICATION FairSpec
INVARIANTS
    TypeOK
    OneScheduledCreation
    FoundByOne
PROPERTIES
    GetStreamEnds
CHECK_DEADLOCK FALSE
