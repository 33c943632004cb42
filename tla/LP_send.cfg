\* Two overlapping sends over two service nodes that come and go.
CONSTANTS
    p1 = p1
    p2 = p2
    s1 = s1
    s2 = s2
    Peers <- TwoPeers
    Sends <- TwoSends
    Retrying <- OneSend
    numPeersToUse = 2
    maxAttempts = 2
    Messages <- GoodThenEmpty
    Answers <- AnswerKinds
SPECIFICATION FairSpec
INVARIANTS
    ReportsAreTrue
    RetriesAreBounded
PROPERTIES
    EverySendEnds
CHECK_DEADLOCK FALSE
