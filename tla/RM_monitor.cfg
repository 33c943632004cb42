\* Two calls about one peer, which may be its own replacement.
CONSTANTS
    p1 = p1
    p2 = p2
    t1 = t1
    t2 = t2
    t3 = t3
    NoPeer = NoPeer
    Peers <- OnePeer
    Tasks <- TwoTasks
    Limits <- OneAndTwo
    MaxProbes = 1
SPECIFICATION FairSpec
INVARIANTS
    TypeOK
    LockHasRenewal
    FailuresAreHandled
    PendingIsPending
PROPERTIES
    MonitorConcludes
CHECK_DEADLOCK FALSE
