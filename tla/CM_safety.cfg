\* Two bootstrap peers and one slot: dials, the queue, connect and disconnect
\* handlers, dropped connections and stop() in every order.
CONSTANTS
    p1 = p1
    p2 = p2
    c1 = c1
    c2 = c2
    h1 = h1
    NoPeer = NoPeer
    Peers <- TwoPeers
    Bootstrap <- TwoPeers
    OtherShard <- NoPeers
    Calls <- TwoCalls
    Handlers <- OneHandler
    PingEnabled = TRUE
    RelayEnabled = FALSE
    maxDialAttemptsForPeer = 2
    maxParallelDials = 1
    maxBootstrapPeersAllowed = 1
SPECIFICATION Spec
SYMMETRY IdSymmetry
INVARIANTS
    TypeOK
    ConnectSignalled
    PingIntervalsOwned
    ConnectedPeersKeptAlive
    SlotAccounting
PROPERTY
    ImplementsDialSlots
CHECK_DEADLOCK FALSE
