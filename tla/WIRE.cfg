CONSTANTS
    FieldBytes = 100
    Encoders <- SomeEncoders
    Outgoing <- SomeMessages
    Decoders <- SomeDecoders
    SenderTopics <- OneTopic
    FilterPeers = {1, 2}
    Calls <- SomeCalls
    Answers <- SomeAnswers
    Configs <- SomeConfigs
    ContentTopics <- SomeContentTopics
    Infos <- SomeInfos
    Digest <- LetterSum
    b1 = b1
    b2 = b2
    o1 = o1
    o2 = o2
    Peers <- FourPeers
    Bootstrap <- TwoBootstrap
    StoreOrders <- TwoOrders
    Pings <- SomePings
    MaxNumber = 4
SPECIFICATION Spec
INVARIANTS
    MessageExact
    RequestExact
    TopicsAgree
    PeersChosen
CHECK_DEADLOCK FALSE
