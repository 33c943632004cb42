\* Dials end and connections are reported, under the fairness of the event loop.
CONSTANTS
    p1 = p1
    p2 = p2
    c1 = c1
    c2 = c2
    h1 = h1
    NoPeer = NoPeer
    Peers <- OnePeer
    Bootstrap <- NoPeers
    OtherShard <- NoPeers
    Calls <- TwoCalls
    Handlers <- OneHandler
    PingEnabled = TRUE
    RelayEnabled = FALSE
    maxDialAttemptsForPeer = 2
    maxParallelDials = 1
    maxBootstrapPeersAllowed = 1
SPECIFICATION FairSpec
PROPERTIES
    DialsConclude
CHECK_DEADLOCK FALSE
